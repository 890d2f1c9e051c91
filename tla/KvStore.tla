------------------------------ MODULE KvStore ------------------------------
(***************************************************************************)
(* The disk cache of session snapshots (src/sf37_kvstore.c) as one server  *)
(* process uses it.  A checkpoint lives in the file <sha1 of its text>.kv; *)
(* SHA-1 does not collide on Texts, so a file is named by the text itself. *)
(* Storing is a sequence of steps (compare with an existing file, stage,   *)
(* evict one victim at a time, write a temporary file, rename it) and the  *)
(* process may be killed between any two of them.                          *)
(*                                                                         *)
(* The directory entry cache kc->entry is rebuilt by every operation that  *)
(* reads it (kv_cache_refresh), so it is the set Entries of the files.     *)
(***************************************************************************)
EXTENDS Integers, FiniteSets, SequencesExt

CONSTANTS
    Texts,         \* byte strings used as keys and prompts (non-empty)
    Snapshots,     \* session states: [toks, text, visible, bytes]
    Fresh,         \* the state of a session that holds nothing
    Contexts,      \* values of --ctx a server can be restarted with
    TrailerSizes,  \* sizes the tool map written after the payload can have
    Budget,        \* budget_bytes
    MinTokens,     \* opt.min_tokens
    ColdMaxTokens, \* opt.cold_max_tokens
    HeaderBytes,   \* SF37_KVSTORE_FIXED_HEADER + 4
    MaxHits,       \* bound of the model on the hit counter
    MaxLeftover,   \* bound of the model on the bytes of leftover files
    Faults         \* what the environment may do: "unlink" and "io" calls
                   \* that fail, "damage" to files, "crash" of the process

\* Why a checkpoint was stored.  "cold", "evict" and "shutdown" are treated
\* alike everywhere: kv_cache_reason_is_anchor.
Reasons == {"anchor", "continued"}

\* The texts a snapshot may be filed under: what its tokens render to, or the
\* transcript the client will send back (cache_text_override).
Keys(s) == {s.text} \cup s.visible

ASSUME StoreAssumption ==
    /\ \A t \in Texts : t \in Seq(Nat) /\ t # <<>>
    /\ \A s \in Snapshots :
          /\ s.toks \in Nat /\ s.bytes \in Nat
          /\ Keys(s) \subseteq Texts
    /\ Fresh \in Snapshots /\ Fresh.toks = 0
    /\ Contexts \subseteq Nat \ {0}
    /\ TrailerSizes \subseteq Nat
    /\ {Budget, MinTokens} \subseteq Nat \ {0}
    /\ {ColdMaxTokens, HeaderBytes, MaxHits, MaxLeftover} \subseteq Nat
    /\ Faults \subseteq {"unlink", "io", "damage", "crash"}

VARIABLES
    up,       \* the server process is running
    ctx,      \* its context size
    files,    \* the *.kv files: text -> contents (partial)
    leftover, \* bytes of temporary files that dead processes left behind
    live,     \* the session's checkpoint
    job,      \* the store (or the opening budget pass) in progress
    result    \* what the operation that just returned told its caller

vars == <<up, ctx, files, leftover, live, job, result>>

NoText == <<>>
Idle == [pc |-> "idle", key |-> NoText, reason |-> "continued", trailer |-> 0,
         gaveup |-> FALSE]
NoResult == [op |-> "none", key |-> NoText, prompt |-> NoText,
             gaveup |-> FALSE]

File == [snap : Snapshots, reason : Reasons, hits : 0..MaxHits,
         ctx : Contexts, trailer : Nat,
         body : {"good", "badheader", "badtext", "badpayload"}]

Job == [pc : {"idle", "stage", "evict", "create", "publish", "trailer"},
        key : Texts \cup {NoText}, reason : Reasons \cup {"open"},
        trailer : Nat, gaveup : BOOLEAN]

Result == [op : {"none", "kept", "stored", "failed", "hit", "miss"},
           key : Texts \cup {NoText}, prompt : Texts \cup {NoText},
           gaveup : BOOLEAN]

TypeOK ==
    /\ up \in BOOLEAN
    /\ ctx \in Contexts
    /\ DOMAIN files \subseteq Texts
    /\ files \in [DOMAIN files -> File]
    /\ leftover \in 0..MaxLeftover
    /\ live \in Snapshots
    /\ job \in Job
    /\ result \in Result
-----------------------------------------------------------------------------
(* Sizes and lookups.                                                      *)

FileBytes(t, f) == HeaderBytes + Len(t) + f.snap.bytes + f.trailer

\* kv_cache_refresh: a file with an unreadable header or too short for its
\* lengths is not an entry; nothing else ever looks at it.
Entries == {t \in DOMAIN files : files[t].body # "badheader"}

\* The bytes of all entries, told apart and counted.
BytesOf(t, f) == {t} \X (1..FileBytes(t, f))
TotalBytes == Cardinality(UNION {BytesOf(t, files[t]) : t \in Entries})

\* One percent of headroom, rounded up.
Required(bytes) == bytes + (bytes + 99) \div 100

\* What the store in progress writes.
Incoming == [snap |-> live, reason |-> job.reason, hits |-> 0, ctx |-> ctx,
             trailer |-> job.trailer, body |-> "good"]

\* Mutant: the budget pass forgets to reserve room for the incoming file.
ExtraBytesUnreserved == 0

ExtraBytes == IF job.reason = "open" THEN 0 ELSE FileBytes(job.key, Incoming)

\* Mutant: the lookup compares lengths but not the bytes.
CandidatesByLength(prompt) ==
    {t \in Entries : /\ Len(t) <= Len(prompt)
                     /\ files[t].snap.toks >= MinTokens
                     /\ files[t].ctx <= ctx}

\* sf37_kvstore_find_text_prefix: the candidates and the ones it may return.
Candidates(prompt) ==
    {t \in Entries : /\ IsPrefix(t, prompt)
                     /\ files[t].snap.toks >= MinTokens
                     /\ files[t].ctx <= ctx}

\* The longest ones.
FoundTextPrefix(prompt) ==
    {t \in Candidates(prompt) : \A u \in Candidates(prompt) : Len(u) <= Len(t)}

\* Mutant: a file written under a larger context is taken for compatible.
CompatibleAnyContext(t) == t \in Entries /\ files[t].body # "badtext"

\* kv_cache_existing_compatible
Compatible(t) ==
    /\ t \in Entries
    /\ files[t].ctx <= ctx
    /\ files[t].body # "badtext"
-----------------------------------------------------------------------------
(* Eviction scores.                                                        *)

\* kv_cache_incoming_supersedes_continued: t is a waypoint on the way to the
\* incoming checkpoint, which is at least as widely reusable.
Superseded(t) ==
    /\ job.reason # "open"
    /\ files[t].reason = "continued"
    /\ IsStrictPrefix(t, job.key)
    /\ ctx <= files[t].ctx

\* The score is (h + 1) * tokens / bytes, doubled for an anchor and scaled by
\* 0.05 + 0.45 * h / (h + 1) for a superseded waypoint.  Scaled by 20 it is the
\* quotient Weight / FileBytes.  The decay of the hits with age is abstracted
\* to its two ends: the hits of the texts in recent count in full, others not.
\*
\* Mutant: no prior for anchors.
WeightWithoutAnchors(t, recent) ==
    LET h == IF t \in recent THEN files[t].hits ELSE 0
    IN  files[t].snap.toks * (IF Superseded(t) THEN 10 * h + 1 ELSE 20 * (h + 1))

Weight(t, recent) ==
    LET h == IF t \in recent THEN files[t].hits ELSE 0
    IN  files[t].snap.toks * (IF Superseded(t) THEN 10 * h + 1
                              ELSE IF files[t].reason = "anchor"
                              THEN 40 * (h + 1) ELSE 20 * (h + 1))

Victims(recent) ==
    {v \in Entries : \A t \in Entries :
        Weight(v, recent) * FileBytes(t, files[t])
           <= Weight(t, recent) * FileBytes(v, files[v])}

Without(t) == Restrict(files, DOMAIN files \ {t})

\* What an unlink of t can leave behind.
Unlink(t) == {Without(t)} \cup (IF "unlink" \in Faults THEN {files} ELSE {})
-----------------------------------------------------------------------------
(* The operations.  Calls come from one thread: the caller's next call      *)
(* waits until the previous one has returned and its result was taken.     *)

Init ==
    /\ up = FALSE
    /\ ctx \in Contexts
    /\ files = [t \in {} |-> Idle]
    /\ leftover = 0
    /\ live = Fresh
    /\ job = Idle
    /\ result = NoResult

\* sf37_kvstore_open ends with a budget pass that reserves nothing.
Open(c) ==
    /\ ~up
    /\ up' = TRUE
    /\ ctx' = c
    /\ job' = [Idle EXCEPT !.pc = "evict", !.reason = "open"]
    /\ UNCHANGED <<files, leftover, live, result>>

\* Mutant: the session is not held still while a store is in progress.
ReadyDuringStore == up

\* The server thread is between two operations.
Ready == up /\ job.pc = "idle"

\* The request takes the result and the session moves on: a prompt is
\* prefilled, a token decoded, the checkpoint rewound.
SessionMoves(s) ==
    /\ Ready
    /\ live' = s
    /\ result' = NoResult
    /\ UNCHANGED <<up, ctx, files, leftover, job>>

Return(op) ==
    /\ job' = Idle
    /\ result' = [NoResult EXCEPT !.op = op, !.key = job.key,
                                  !.gaveup = job.gaveup]

\* Mutant: the text is one the caller remembered for another session state.
StoreBeginStaleText(t, reason, trailer) ==
    /\ Ready /\ result = NoResult
    /\ live.toks >= MinTokens
    /\ job' = [Idle EXCEPT !.key = t, !.reason = reason, !.trailer = trailer,
                           !.pc = IF Compatible(t) THEN "trailer" ELSE "stage"]
    /\ IF t \in Entries /\ ~Compatible(t) THEN files' \in Unlink(t)
                                         ELSE UNCHANGED files
    /\ UNCHANGED <<up, ctx, leftover, live, result>>

\* sf37_kvstore_store_live_prefix_text, first half: a compatible file under
\* this text is kept (only its tool map is rewritten), an incompatible one is
\* unlinked; unlink may fail.
StoreBegin(t, reason, trailer) ==
    /\ Ready /\ result = NoResult
    /\ live.toks >= MinTokens
    /\ t \in Keys(live)
    /\ job' = [Idle EXCEPT !.key = t, !.reason = reason, !.trailer = trailer,
                           !.pc = IF Compatible(t) THEN "trailer" ELSE "stage"]
    /\ IF t \in Entries /\ ~Compatible(t) THEN files' \in Unlink(t)
                                         ELSE UNCHANGED files
    /\ UNCHANGED <<up, ctx, leftover, live, result>>

\* The payload is staged and its size compared with the budget.
Stage ==
    /\ job.pc = "stage"
    /\ IF Required(ExtraBytes) <= Budget
       THEN \/ job' = [job EXCEPT !.pc = "evict"] /\ UNCHANGED result
            \/ "io" \in Faults /\ Return("failed")
       ELSE Return("failed")
    /\ UNCHANGED <<up, ctx, files, leftover, live>>

\* The budget pass is over; the opening one has nothing to store.
PassDone(gaveup) ==
    job' = IF job.reason = "open" THEN Idle
           ELSE [job EXCEPT !.pc = "create", !.gaveup = gaveup]

\* Mutant: in a directory where unlink fails, the victim is tried for ever.
EvictVictimForever ==
    /\ job.pc = "evict"
    /\ TotalBytes > Budget - ExtraBytes
    /\ \E recent \in SUBSET {t \in Entries : files[t].hits > 0} :
       \E v \in Victims(recent) :
          files' = IF "unlink" \in Faults THEN files ELSE Without(v)
    /\ UNCHANGED <<up, ctx, leftover, live, job, result>>

\* sf37_kvstore_evict, one turn of its loop.  A victim that cannot be unlinked
\* ends the pass.
EvictVictim ==
    /\ job.pc = "evict"
    /\ TotalBytes > Budget - ExtraBytes
    /\ \E recent \in SUBSET {t \in Entries : files[t].hits > 0} :
       \E v \in Victims(recent) :
          \/ files' = Without(v) /\ UNCHANGED job
          \/ "unlink" \in Faults /\ UNCHANGED files /\ PassDone(TRUE)
    /\ UNCHANGED <<up, ctx, leftover, live, result>>

EvictDone ==
    /\ job.pc = "evict"
    /\ TotalBytes <= Budget - ExtraBytes
    /\ PassDone(FALSE)
    /\ UNCHANGED <<up, ctx, files, leftover, live, result>>

\* fopen of <path>.tmp.<pid>, and the writes up to fclose.  A failed write
\* removes the temporary file again.
CreateTemp ==
    /\ job.pc = "create"
    /\ \/ job' = [job EXCEPT !.pc = "publish"] /\ UNCHANGED result
       \/ "io" \in Faults /\ Return("failed")
    /\ UNCHANGED <<up, ctx, files, leftover, live>>

\* rename(tmp, path), whatever the path held before.
Publish ==
    /\ job.pc = "publish"
    /\ \/ /\ files' = [t \in DOMAIN files \cup {job.key} |->
                          IF t = job.key THEN Incoming ELSE files[t]]
          /\ Return("stored")
       \/ "io" \in Faults /\ UNCHANGED files /\ Return("failed")
    /\ UNCHANGED <<up, ctx, leftover, live>>

\* kv_cache_rewrite_trailer: the old tool map is cut off, the new one written
\* in its place and the header refreshed.  An empty map changes nothing, and a
\* failure on the way is not reported.  No budget pass follows.
RewriteTrailer ==
    /\ job.pc = "trailer"
    /\ \/ /\ job.trailer > 0
          /\ files' = [files EXCEPT ![job.key].trailer = job.trailer]
       \/ /\ job.trailer > 0 /\ "io" \in Faults
          /\ files' \in {files, [files EXCEPT ![job.key].trailer = 0]}
       \/ job.trailer = 0 /\ UNCHANGED files
    /\ Return("kept")
    /\ UNCHANGED <<up, ctx, leftover, live>>

Answer(op, t, prompt) ==
    result' = [NoResult EXCEPT !.op = op, !.key = t, !.prompt = prompt]

\* sf37_kvstore_try_load_text: the best entry is read and checked again.  A
\* header or text that fails leaves the session and the file alone.
LoadMiss(prompt) ==
    /\ Ready /\ result = NoResult
    /\ \/ Candidates(prompt) = {}
       \/ \E t \in FoundTextPrefix(prompt) :
             files[t].body = "badtext" \/ "io" \in Faults
    /\ Answer("miss", NoText, prompt)
    /\ UNCHANGED <<up, ctx, files, leftover, live, job>>

\* A payload that cannot be restored empties the session and loses its file.
LoadCorrupt(prompt) ==
    /\ Ready /\ result = NoResult
    /\ \E t \in FoundTextPrefix(prompt) :
          /\ files[t].body # "badtext"
          /\ files[t].body = "badpayload" \/ "io" \in Faults
          /\ files' \in Unlink(t)
    /\ live' = Fresh
    /\ Answer("miss", NoText, prompt)
    /\ UNCHANGED <<up, ctx, leftover, job>>

\* Mutant: the hit is taken away instead of counted.
TouchedDown(t) == [files EXCEPT ![t].hits = @ - 1]

\* Touching a used file counts a hit; sf37_kvstore_touch_file may fail.
Touched(t) ==
    [files EXCEPT ![t].hits = IF @ < MaxHits THEN @ + 1 ELSE @]

\* A checkpoint beyond the cold limit is handed over to the session and its
\* file consumed; any other is touched.
LoadHit(prompt) ==
    /\ Ready /\ result = NoResult
    /\ \E t \in FoundTextPrefix(prompt) :
          /\ files[t].body = "good"
          /\ live' = files[t].snap
          /\ files' \in IF ColdMaxTokens > 0 /\ files[t].snap.toks > ColdMaxTokens
                        THEN Unlink(t)
                        ELSE {Touched(t)} \cup (IF "io" \in Faults THEN {files} ELSE {})
          /\ Answer("hit", t, prompt)
    /\ UNCHANGED <<up, ctx, leftover, job>>

\* The process ends, by its own exit or by a signal, at any point of a store;
\* a temporary file that was not yet renamed stays behind.
Crash ==
    /\ up
    /\ job.pc = "idle" \/ "crash" \in Faults
    /\ leftover' \in IF job.pc = "publish" THEN {leftover + ExtraBytes}
                     ELSE IF job.pc = "create"
                     THEN {leftover, leftover + ExtraBytes} ELSE {leftover}
    /\ leftover' <= MaxLeftover
    /\ job.pc = "trailer" /\ job.trailer > 0 =>
          files' \in {files, [files EXCEPT ![job.key].trailer = 0]}
    /\ ~(job.pc = "trailer" /\ job.trailer > 0) => UNCHANGED files
    /\ up' = FALSE /\ live' = Fresh /\ job' = Idle /\ result' = NoResult
    /\ UNCHANGED ctx

\* A file is cut short or overwritten behind the program's back.
Damage(t, body) ==
    /\ "damage" \in Faults
    /\ job.pc = "idle"
    /\ t \in DOMAIN files
    /\ files' = [files EXCEPT ![t].body = body]
    /\ result' = NoResult
    /\ UNCHANGED <<up, ctx, leftover, live, job>>

Step == Stage \/ EvictVictim \/ EvictDone \/ CreateTemp \/ Publish \/ RewriteTrailer

Next ==
    \/ \E c \in Contexts : Open(c)
    \/ \E s \in Snapshots : SessionMoves(s)
    \/ \E t \in Texts, r \in Reasons, n \in TrailerSizes : StoreBegin(t, r, n)
    \/ Step
    \/ \E p \in Texts : LoadMiss(p) \/ LoadCorrupt(p) \/ LoadHit(p)
    \/ Crash
    \/ \E t \in Texts, b \in {"badheader", "badtext", "badpayload"} : Damage(t, b)

Spec == Init /\ [][Next]_vars

\* Once begun, a store runs to its end: nothing in it waits for anyone.
FairSpec == Spec /\ WF_vars(Step)
-----------------------------------------------------------------------------
(* Properties.                                                             *)

\* sf37_kvstore.h:37-40: a file is named by the text it stands for and its
\* payload is a session state that was filed under that text, whatever was
\* interrupted, evicted, replaced or rewritten on the way.
FiledUnderItsText == \A t \in DOMAIN files : t \in Keys(files[t].snap)

\* After a hit the session holds a checkpoint that represents bytes at the
\* front of the prompt, so that only the rest needs to be prefilled.
HitRepresentsPrompt ==
    result.op = "hit" => /\ IsPrefix(result.key, result.prompt)
                         /\ result.key \in Keys(live)

\* A store that reports success can be found again by the same process: asking
\* for exactly the stored text selects a file of that text.  This is what lets
\* an "evict" store drop the live session.
StoredIsFound ==
    result.op \in {"stored", "kept"} => FoundTextPrefix(result.key) = {result.key}

\* A store that writes a file makes room for it first: the directory is within
\* its budget afterwards, unless a victim could not be unlinked.
StoreWithinBudget ==
    result.op = "stored" /\ ~result.gaveup => TotalBytes <= Budget

\* The eviction priors do what sf37_kvstore.c:52-61 says: among never-hit files
\* no anchor goes before a continued waypoint of comparable density, and nothing
\* goes before a never-hit waypoint that the incoming store supersedes.
Prior(t) == IF Superseded(t) THEN 0 ELSE IF files[t].reason = "anchor" THEN 2 ELSE 1

EvictionOrder ==
    [][ job.pc = "evict" =>
          \A v \in DOMAIN files \ DOMAIN files' : \A w \in Entries \ {v} :
             (/\ files[w].hits = 0
              /\ files[v].snap.toks * FileBytes(w, files[w])
                    >= files[w].snap.toks * FileBytes(v, files[v]))
             => Prior(v) <= Prior(w) ]_vars

\* A store always comes back to its caller, even when unlink keeps failing.
StoreReturns == (job.pc # "idle") ~> (job.pc = "idle")

\* The files are an implementation of the promise in KvCache: a file counts
\* once it has its final name, and for as long as its payload can be restored.
Cache == INSTANCE KvCache WITH
    cache <- [t \in {u \in DOMAIN files : files[u].body = "good"} |-> files[t].snap],
    reply <- IF result.op = "hit" THEN <<result.prompt, result.key>> ELSE <<>>

ImplementsCache == Cache!Spec
=============================================================================
