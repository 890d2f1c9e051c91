----------------------------- MODULE Generation -----------------------------
(***************************************************************************)
(* One generation request after another against the one session of the     *)
(* server: run_generation of src/sf37_server.c with the session functions  *)
(* of src/sf37.c and the checkpoint policy of src/sf37_kvstore.c that it   *)
(* calls.  gen_mu makes the requests sequential (module Server); what can  *)
(* happen in between a request's own steps is the stop of the process.     *)
(*                                                                         *)
(* A token renders to a piece of text, a text may be spelled by more than  *)
(* one token sequence, and the decoded tokens that render to Hidden (the   *)
(* reasoning) are never sent back by a client.  Files are the contents of  *)
(* the disk cache, whose own steps are module KvStore.                     *)
(***************************************************************************)
EXTENDS Integers, FiniteSets, SequencesExt

CONSTANTS
    Tokens,        \* the vocabulary
    Chars,         \* the characters of texts
    Hidden,        \* the character of reasoning text
    Piece(_),      \* the text of a token: sf37_token_text
    Tokenize(_),   \* the tokens of a text: sf37_tokenize_rendered_chat
    Prompts,       \* texts that begin a conversation
    Turns,         \* texts a client appends to a transcript
    ToolResult,    \* what it appends to answer a tool call
    Stops,         \* stop strings of the requests
    StopApis,      \* endpoints whose clients send them; Responses reads none
    Decoded,       \* tokens the model may choose
    Closing,       \* what the repair appends to a tool call left open
    OpenApis,      \* endpoints where the model may leave one open
    Greedy,        \* requests with temperature 0, without, or both
    Tools,         \* requests with tools, without, or both
    Apis,          \* endpoints: "openai", "completions", "responses", "anthropic"
    TailOnly,      \* clients answer a tool call without replaying the history
    Ctx,           \* context size of the session
    Backend,       \* "cpu" or "cuda"
    Chunk,         \* tokens of one CUDA prefill chunk
    ResumeMin,     \* shortest suffix that is prefilled in chunks
    Window,        \* sliding attention window
    Retained,      \* rows a sliding CUDA cache holds
    MinTokens,     \* opt.min_tokens
    ColdMaxTokens, \* opt.cold_max_tokens
    Step,          \* kv_cache_continued_step
    MaxDecode,     \* max_tokens of a request
    MaxTurns,      \* bound of the model on the requests
    Faults         \* "stop": a signal and a restart, "disk": stores and loads that
                   \* fail and eviction, "cuda": device calls that fail, "gone":
                   \* clients that go away

ASSUME GenerationAssumption ==
    /\ Apis \subseteq {"openai", "completions", "responses", "anthropic"}
    /\ TailOnly \in BOOLEAN
    /\ Backend \in {"cpu", "cuda"}
    /\ {Ctx, Chunk, ResumeMin, Window, Retained, MinTokens, Step} \subseteq Nat \ {0}
    /\ {ColdMaxTokens, MaxDecode, MaxTurns} \subseteq Nat
    /\ Decoded \subseteq Tokens /\ Greedy \subseteq BOOLEAN /\ Tools \subseteq BOOLEAN
    /\ Faults \subseteq {"stop", "disk", "cuda", "gone"}
    /\ StopApis \subseteq {"openai", "completions", "anthropic"}
    /\ OpenApis \subseteq Apis
    /\ \A t \in Tokens : Piece(t) \in Seq(Chars)
    /\ Prompts \cup Turns \cup {ToolResult, Closing} \subseteq Seq(Chars \ {Hidden})
    /\ <<>> \notin Prompts /\ ToolResult # <<>>

VARIABLES
    sess, \* the session: checkpoint tokens, checkpoint_valid and logits
    live, \* responses_live, anthropic_live and thinking_live
    last, \* continued_last_store_tokens
    disk, \* the usable checkpoint files: text -> tokens and logits (partial)
    job,  \* the request being served
    stop, \* g_stop_requested
    said, \* the transcripts the clients hold, one per answer
    asked \* requests so far

vars == <<sess, live, last, disk, job, stop, said, asked>>

Render(toks) == FlattenSeq([i \in DOMAIN toks |-> Piece(toks[i])])
Visible(text) ==
    FlattenSeq([i \in DOMAIN text |-> IF text[i] = Hidden THEN <<>> ELSE <<text[i]>>])

\* The logits are known by the tokens after which they were computed.
EmptySession == [toks |-> <<>>, valid |-> TRUE, logits |-> <<>>]

\* A live state remembers the position of the session (live_tokens), the
\* transcript a client will replay and the ids of the calls it will answer.
\* of is a history variable: the checkpoint that was live then.
Forgotten == [valid |-> FALSE, pos |-> 0, text |-> <<>>, ids |-> {}, of |-> <<>>]
LiveKinds == {"responses", "anthropic", "thinking"}

Idle == [pc |-> "idle"]

\* What a client sends: history is the transcript it means, text what it sends
\* of it, ids the calls that the end of text answers, tail the text after them.
Requests ==
    LET Fresh == {[history |-> p, text |-> p, ids |-> {}, tail |-> <<>>] : p \in Prompts}
        Reply(i) == {[history |-> said[i].text \o u, text |-> said[i].text \o u,
                      ids |-> {}, tail |-> <<>>] : u \in Turns}
        Answer(i) == {[history |-> said[i].text \o ToolResult, text |-> t, ids |-> {i},
                       tail |-> ToolResult] :
                         t \in IF TailOnly THEN {ToolResult}
                               ELSE {said[i].text \o ToolResult}}
    IN  Fresh \cup UNION {IF said[i].calls THEN Answer(i) ELSE Reply(i) : i \in DOMAIN said}

Pos == Len(sess.toks)

TypeOK ==
    /\ sess.toks \in Seq(Tokens) /\ Pos <= Ctx /\ sess.valid \in BOOLEAN
    /\ DOMAIN live = LiveKinds
    /\ \A k \in LiveKinds : live[k].valid \in BOOLEAN /\ live[k].pos \in 0..Ctx
    /\ last \in 0..Ctx
    /\ \A t \in DOMAIN disk : disk[t].toks \in Seq(Tokens) /\ Len(disk[t].toks) >= MinTokens
    /\ job.pc \in {"idle", "evict", "load", "check", "sync", "prefill", "prefilled", "synced",
                   "cold", "start", "decode", "finish"}
    /\ stop \in BOOLEAN
    /\ Len(said) <= asked /\ asked <= MaxTurns

Init ==
    /\ sess = EmptySession
    /\ live = [k \in LiveKinds |-> Forgotten]
    /\ last = 0
    /\ disk = [t \in {} |-> <<>>]
    /\ job = Idle
    /\ stop = FALSE
    /\ said = <<>>
    /\ asked = 0
-----------------------------------------------------------------------------
(* The session.                                                            *)

\* sf37_session_common_prefix
CommonPrefix(prompt) ==
    IF sess.valid THEN Len(LongestCommonPrefix({sess.toks, prompt})) ELSE 0

\* session_rewind_preserves_kv
RewindPreserves(pos) ==
    Backend = "cpu" \/
    LET oldest(n, kept) == IF n > kept THEN n - kept ELSE 0
    IN  oldest(pos + 1, Window) >= oldest(Pos, Retained)

\* sf37_session_reusable_prefix
ReusablePrefix(prompt) ==
    LET common == CommonPrefix(prompt)
        usable == /\ Len(prompt) <= Ctx /\ common > 0
                  /\ common = Pos \/ (common < Len(prompt) /\ RewindPreserves(common))
    IN  IF usable THEN common ELSE 0

\* The first steps of sf37_session_sync: a checkpoint that is not a prefix of
\* the prompt is dropped, whatever the two have in common.
Kept(prompt) ==
    IF sess.valid /\ CommonPrefix(prompt) = Pos THEN sess.toks ELSE <<>>
-----------------------------------------------------------------------------
(* The disk cache as run_generation sees it.                               *)

\* What storing the session s under text can leave: the files and whether the
\* store is reported as done.  A file that is there is kept, a session that is
\* not valid cannot be staged, and making room may take other files.
StoreOutcomes(text, s) ==
    LET filed(names) == [t \in names \cup {text} |-> IF t = text
                                                      THEN [toks |-> s.toks, logits |-> s.logits]
                                                      ELSE disk[t]]
        done   == [files : {filed(names) : names \in IF "disk" \in Faults
                                                     THEN SUBSET DOMAIN disk
                                                     ELSE {DOMAIN disk}}, ok : {TRUE}]
        undone == [files : {disk}, ok : {FALSE}]
    IN  IF Len(s.toks) < MinTokens THEN undone
        ELSE IF text \in DOMAIN disk THEN [files : {disk}, ok : {TRUE}]
        ELSE (IF s.valid THEN done ELSE undone) \cup (IF "disk" \in Faults THEN undone ELSE {})

\* Mutant: only the validity of the live state is looked at.
CurrentTextAnyPosition ==
    CASE live["responses"].valid -> live["responses"].text
      [] ~live["responses"].valid /\ live["thinking"].valid -> live["thinking"].text
      [] OTHER -> Render(sess.toks)

\* kv_cache_store_current: the text is the transcript the client will replay
\* if a live state says so at this position.
CurrentText ==
    CASE live["responses"].valid /\ live["responses"].pos = Pos -> live["responses"].text
      [] ~(live["responses"].valid /\ live["responses"].pos = Pos)
         /\ live["thinking"].valid /\ live["thinking"].pos = Pos -> live["thinking"].text
      [] OTHER -> Render(sess.toks)

\* sf37_kvstore_continued_store_target
ContinuedTarget(n, frontier) == n % Step = 0 /\ n >= MinTokens /\ n > frontier

\* kv_cache_maybe_store_continued for the session s.
MaybeStoreContinued(s) ==
    IF ContinuedTarget(Len(s.toks), last)
    THEN \E out \in StoreOutcomes(Render(s.toks), s) :
            /\ disk' = out.files
            /\ last' = IF out.ok THEN Len(s.toks) ELSE last
    ELSE UNCHANGED <<disk, last>>
-----------------------------------------------------------------------------
(* What a request can continue from.                                       *)

Continue(suffix) == sess.toks \o Tokenize(suffix)

\* Mutant: the key is not cut off.
TextAfterUncut(key, text) == text

TextAfter(key, text) == SubSeq(text, Len(key) + 1, Len(text))

\* Mutant: a live state matches wherever the session is.
VisibleMatchAnywhere(k, r) ==
    /\ live[k].valid /\ Pos > 0
    /\ IsStrictPrefix(live[k].text, r.text)

\* responses_live_visible_prefix_prompt, thinking_live_visible_prefix_prompt
VisibleMatch(k, r) ==
    /\ live[k].valid /\ live[k].pos = Pos /\ Pos > 0
    /\ IsStrictPrefix(live[k].text, r.text)

\* Mutant: the ids are not compared.
IdsMatchAny(k, r) == r.ids # {} /\ live[k].valid /\ live[k].pos = Pos /\ live[k].ids # {}

\* responses_live_matches_request, anthropic_live_matches_request
IdsMatch(k, r) ==
    /\ r.ids # {} /\ live[k].valid /\ live[k].pos = Pos
    /\ live[k].ids = r.ids

\* The ways to reuse the live session in the order they are tried.
Ways == <<"visible", "ids", "tokens", "thinking", "text">>

Usable(way, r) ==
    CASE way = "visible"  -> r.api = "responses" /\ VisibleMatch("responses", r)
      [] way = "ids"      -> r.api \in {"responses", "anthropic"} /\ IdsMatch(r.api, r)
      [] way = "tokens"   -> ReusablePrefix(Tokenize(r.text)) > 0
      [] way = "thinking" -> r.api # "responses" /\ VisibleMatch("thinking", r)
      [] way = "text"     -> Pos > 0 /\ IsPrefix(Render(sess.toks), r.text)

EffectivePrompt(way, r) ==
    CASE way = "visible"  -> Continue(TextAfter(live["responses"].text, r.text))
      [] way = "ids"      -> Continue(r.tail)
      [] way = "thinking" -> Continue(TextAfter(live["thinking"].text, r.text))
      [] way = "text"     -> Continue(TextAfter(Render(sess.toks), r.text))
      [] OTHER            -> Tokenize(r.text)

\* The live state a way continues, which survives the request's own sync.
Continued(way, api) ==
    CASE way \in {"visible", "ids"} -> {api}
      [] way = "thinking"           -> {"thinking"}
      [] OTHER                      -> {}
-----------------------------------------------------------------------------
(* The request up to its first token.                                      *)

Max2(a, b) == IF a > b THEN a ELSE b

Receive(r, api, tools, greedy) ==
    /\ job.pc = "idle" /\ ~stop /\ asked < MaxTurns
    /\ asked' = asked + 1
    /\ LET req == [history |-> r.history, text |-> r.text, ids |-> r.ids,
                   tail |-> r.tail, api |-> api, tools |-> tools, greedy |-> greedy]
           alone == TailOnly /\ r.ids # {}  \* the calls are not in the request
           ways  == {w \in 1..Len(Ways) : Usable(Ways[w], req)}
           way   == IF ways = {} THEN "none" ELSE Ways[CHOOSE w \in ways : \A v \in ways : w <= v]
           cached == CASE way = "none" -> 0
                       [] way = "tokens" -> ReusablePrefix(Tokenize(r.text))
                       [] OTHER -> Pos
       IN  /\ r.ids # {} => tools /\ api \in {"responses", "anthropic"}
           \* responses_validate_tool_outputs, anthropic_validate_tool_results;
           \* a tail without its live state is answered 409.
           /\ alone => way \in {"visible", "ids"}
           /\ job' = [pc |-> IF cached = 0 THEN "evict" ELSE "check",
                      req |-> req, way |-> way, cached |-> cached,
                      prompt |-> EffectivePrompt(way, req)]
    /\ UNCHANGED <<sess, live, last, disk, stop, said>>

\* Nothing to reuse: the session is stored before it is lost.
EvictStore ==
    /\ job.pc = "evict"
    /\ IF Pos >= MinTokens
       THEN \E out \in StoreOutcomes(CurrentText, sess) : disk' = out.files
       ELSE UNCHANGED disk
    /\ job' = [job EXCEPT !.pc = "load"]
    /\ UNCHANGED <<sess, live, last, stop, said, asked>>

\* sf37_kvstore_try_load_text: the longest text at the front of the prompt.  A
\* checkpoint beyond the cold limit is consumed.
Candidates(text) == {t \in DOMAIN disk : IsPrefix(t, text)}

LoadHit ==
    /\ job.pc = "load"
    /\ \E t \in Candidates(job.req.text) :
          /\ \A u \in Candidates(job.req.text) : Len(u) <= Len(t)
          /\ sess' = [toks |-> disk[t].toks, valid |-> TRUE, logits |-> disk[t].logits]
          /\ last' = Len(disk[t].toks)
          /\ disk' = IF ColdMaxTokens > 0 /\ Len(disk[t].toks) > ColdMaxTokens
                     THEN Restrict(disk, DOMAIN disk \ {t}) ELSE disk
          /\ job' = [job EXCEPT !.pc = "check", !.cached = Len(disk[t].toks),
                        !.prompt = disk[t].toks \o Tokenize(TextAfter(t, job.req.text))]
    /\ UNCHANGED <<live, stop, said, asked>>

\* No file, or one whose header fails its checks; a payload that cannot be
\* restored leaves the session empty and its file is removed.
LoadMiss ==
    /\ job.pc = "load"
    /\ LET found == Candidates(job.req.text)
       IN  \/ (found = {} \/ "disk" \in Faults) /\ UNCHANGED <<sess, disk>>
           \/ /\ "disk" \in Faults
              /\ sess' = EmptySession
              /\ \E t \in found : /\ \A u \in found : Len(u) <= Len(t)
                                 /\ disk' = Restrict(disk, DOMAIN disk \ {t})
    /\ job' = [job EXCEPT !.pc = "check"]
    /\ UNCHANGED <<live, last, stop, said, asked>>

\* Where a cold checkpoint may be put: the chat anchor or the aligned length
\* before the end of the prompt, or the whole prompt.
ColdLengths ==
    IF job.cached = 0 /\ Len(job.prompt) >= MinTokens /\ Len(job.prompt) <= ColdMaxTokens
    THEN MinTokens..Len(job.prompt) ELSE {0}

\* A prompt that does not fit is answered 400.  Otherwise the cold checkpoint
\* is chosen, and a continued one at the same length suppressed.
CheckContext ==
    /\ job.pc = "check"
    /\ IF Len(job.prompt) >= Ctx
       THEN job' = Idle /\ UNCHANGED last
       ELSE \E cold \in ColdLengths :
              LET suppress == cold > 0 /\ ContinuedTarget(cold, last)
              IN  /\ last' = IF suppress THEN cold ELSE last
                  /\ job' = [pc |-> "sync", req |-> job.req, way |-> job.way,
                             cached |-> job.cached, prompt |-> job.prompt, cold |-> cold,
                             target |-> IF cold > 0 THEN cold ELSE Len(job.prompt),
                             suppressed |-> IF suppress THEN last ELSE -1,
                             batch |-> FALSE]
    /\ UNCHANGED <<sess, live, disk, stop, said, asked>>

Target == SubSeq(job.prompt, 1, job.target)

\* The prefill in chunks reports its progress before the first chunk too, at
\* the end of what is kept.
BeginSync ==
    /\ job.pc = "sync"
    /\ sess' = [sess EXCEPT !.toks = Kept(Target), !.valid = TRUE]
    /\ LET batch == Backend = "cuda" /\ job.target - Len(Kept(Target)) >= ResumeMin
       IN  /\ job' = [job EXCEPT !.pc = IF Kept(Target) = Target THEN "synced" ELSE "prefill",
                                 !.batch = batch]
           /\ IF batch THEN MaybeStoreContinued(sess') ELSE UNCHANGED <<disk, last>>
    /\ UNCHANGED <<live, stop, said, asked>>

\* Mutant: a counter that was not suppressed is restored too.
RestoredAlways == IF last = job.cold THEN job.suppressed ELSE last

\* sf37_kvstore_restore_suppressed_continued
Restored == IF job.suppressed >= 0 /\ last = job.cold THEN job.suppressed ELSE last

\* Mutant: a chunk that starts at a boundary ends at it.
NextBoundaryStuck(n) == ((n + Chunk - 1) \div Chunk) * Chunk

NextBoundary(n) == (n \div Chunk + 1) * Chunk

\* Mutant: the logits are computed only at the end of the prompt.
NeedLogitsAtEnd(upto) == upto = Len(job.prompt)

\* Only the last token of a sync is followed by logits.
NeedLogits(upto) == upto = job.target

\* One token, or one aligned chunk, and the progress callback after it.
Prefill ==
    /\ job.pc = "prefill" /\ ~stop
    /\ LET upto == IF job.batch /\ NextBoundary(Pos) < job.target THEN NextBoundary(Pos)
                   ELSE IF job.batch THEN job.target
                   ELSE Pos + 1
           toks == SubSeq(job.prompt, 1, upto)
       IN  /\ sess' = [toks |-> toks, valid |-> TRUE,
                       logits |-> IF NeedLogits(upto) THEN toks ELSE sess.logits]
           /\ job' = [job EXCEPT !.pc = IF upto = job.target THEN "prefilled" ELSE "prefill"]
    /\ MaybeStoreContinued(sess')
    /\ UNCHANGED <<live, stop, said, asked>>

\* The sync fails, by the stop seen before or after a chunk or by the device.
\* Only the chunked prefill and the device mark the session invalid.
SyncAborts(valid) ==
    /\ sess' = [sess EXCEPT !.valid = valid]
    /\ last' = Restored
    /\ job' = Idle
    /\ UNCHANGED <<live, disk, stop, said, asked>>

SyncCancelled == job.pc \in {"prefill", "prefilled"} /\ stop /\ SyncAborts(~job.batch)

Device == "cuda" \in Faults /\ Backend = "cuda"

SyncFails == job.pc = "prefill" /\ ~stop /\ Device /\ SyncAborts(FALSE)

SyncEnds ==
    /\ job.pc = "prefilled" /\ ~stop
    /\ job' = [job EXCEPT !.pc = "synced"]
    /\ UNCHANGED <<sess, live, last, disk, stop, said, asked>>

\* The cold checkpoint in front of the end of the prompt, then the rest.
StoreColdPrefix ==
    /\ job.pc = "synced" /\ job.target < Len(job.prompt)
    /\ \E out \in StoreOutcomes(Render(sess.toks), sess) :
          /\ disk' = out.files
          /\ last' = IF out.ok THEN Max2(last, job.cold) ELSE Restored
    /\ job' = [job EXCEPT !.pc = "sync", !.target = Len(job.prompt), !.suppressed = -1]
    /\ UNCHANGED <<sess, live, stop, said, asked>>

\* Mutant: the live states are not cleared.
KeepAllLive(keep) == live

\* Every live state but the one the request continues is cleared.
KeepLive(keep) == [k \in LiveKinds |-> IF k \in keep THEN live[k] ELSE Forgotten]

\* The whole prompt is evaluated.
Synced ==
    /\ job.pc = "synced" /\ job.target = Len(job.prompt)
    /\ live' = KeepLive(Continued(job.way, job.req.api))
    /\ MaybeStoreContinued(sess)
    /\ job' = [job EXCEPT !.pc = IF job.cold = Len(job.prompt) THEN "cold" ELSE "start"]
    /\ UNCHANGED <<sess, stop, said, asked>>

\* The cold checkpoint of the whole prompt.
StoreCold ==
    /\ job.pc = "cold"
    /\ \E out \in StoreOutcomes(Render(sess.toks), sess) :
          /\ disk' = out.files
          /\ last' = IF out.ok THEN Max2(last, job.cold) ELSE Restored
    /\ job' = [job EXCEPT !.pc = "start"]
    /\ UNCHANGED <<sess, live, stop, said, asked>>

\* The headers are sent and the decode loop begins.
StartDecode ==
    /\ job.pc = "start"
    /\ job' = [pc |-> "decode", req |-> job.req, prompt |-> job.prompt,
               raw |-> <<>>, n |-> 0, finish |-> "none"]
    /\ UNCHANGED <<sess, live, last, disk, stop, said, asked>>
-----------------------------------------------------------------------------
(* The answer.                                                             *)

\* stop_list_find_from: where the first stop string begins, 0 if none does.
StopPos(raw) ==
    LET stops  == IF job.req.api \in StopApis THEN Stops ELSE {}
        starts == {i \in 1..Len(raw) : \E x \in stops : IsPrefix(x, SubSeq(raw, i, Len(raw)))}
    IN  IF starts = {} THEN 0 ELSE CHOOSE i \in starts : \A k \in starts : i <= k

Decoding == job.pc = "decode" /\ job.n < MaxDecode /\ ~stop

\* A token that completes a stop string is not evaluated, and the answer ends
\* before the string.
DecodeStops(t) ==
    /\ Decoding
    /\ LET raw == job.raw \o Piece(t)
       IN  /\ StopPos(raw) > 0
           /\ job' = [job EXCEPT !.pc = "finish", !.n = @ + 1, !.finish = "stop",
                         !.raw = SubSeq(raw, 1, StopPos(raw) - 1)]
    /\ UNCHANGED <<sess, live, last, disk, stop, said, asked>>

\* The logits after an evaluation: a greedy decode on the device reads back the
\* token alone, and the last token of a greedy tool call computes none.
LogitsAfter(toks, finish) ==
    IF job.req.greedy /\ (Backend = "cuda" \/ finish = "tool") THEN sess.logits ELSE toks

\* Any other token is evaluated; it may end a tool call or fill the context.
DecodeToken(t) ==
    /\ Decoding
    /\ job.req.api = "completions" => Piece(t) = Visible(Piece(t))
    /\ LET raw  == job.raw \o Piece(t)
           toks == Append(sess.toks, t)
       IN  /\ StopPos(raw) = 0
           /\ \E finish \in {"none"} \cup (IF job.req.tools THEN {"tool"} ELSE {}) :
                 LET ends == IF finish = "none" /\ Len(toks) >= Ctx THEN "length" ELSE finish
                 IN  /\ sess' = [toks |-> toks, valid |-> TRUE,
                                 logits |-> LogitsAfter(toks, ends)]
                     /\ job' = [job EXCEPT !.pc = IF ends = "none" THEN "decode" ELSE "finish",
                                   !.raw = raw, !.n = @ + 1, !.finish = ends]
    /\ UNCHANGED <<live, last, disk, stop, said, asked>>

DecodeFails ==
    /\ Decoding /\ Device
    /\ sess' = [sess EXCEPT !.valid = FALSE]
    /\ job' = [job EXCEPT !.pc = "finish", !.finish = "error"]
    /\ UNCHANGED <<live, last, disk, stop, said, asked>>

\* The model ends its turn, max_tokens is reached, or the process is to stop.
DecodeEnds ==
    /\ job.pc = "decode"
    /\ job' = [job EXCEPT !.pc = "finish",
                  !.finish = IF job.n >= MaxDecode THEN "stop"
                             ELSE IF stop THEN "error" ELSE "stop"]
    /\ UNCHANGED <<sess, live, last, disk, stop, said, asked>>

\* A stream that cannot be written ends the request where it is: nothing of
\* what was decoded is remembered.
ClientGone ==
    /\ "gone" \in Faults /\ job.pc \in {"start", "decode"}
    /\ job' = Idle
    /\ UNCHANGED <<sess, live, last, disk, stop, said, asked>>

Remember(text, ids) ==
    [valid |-> TRUE, pos |-> Pos, text |-> text, ids |-> ids, of |-> sess.toks]

\* The live states after an answer that is complete.
Remembered(raw, calls) ==
    LET api  == job.req.api
        text == job.req.text \o Visible(raw)
        ids  == IF calls THEN {Len(said) + 1} ELSE {}
    IN  [live EXCEPT
            !["responses"] = IF api = "responses" THEN Remember(text, ids) ELSE @,
            !["anthropic"] = IF api # "anthropic" THEN @
                             ELSE IF calls THEN Remember(<<>>, ids) ELSE Forgotten,
            !["thinking"]  = IF calls THEN Forgotten
                             ELSE IF job.req.tools \/ api = "completions" THEN @
                             ELSE Remember(text, {})]

\* An answer with an error or cut off by a limit: only the state of the
\* request's own endpoint is cleared.
Unremembered ==
    [k \in LiveKinds |-> IF k = job.req.api THEN Forgotten ELSE live[k]]

\* The last token allowed makes any stop a length; a stop of the process makes
\* any answer an error; a tool call left open is repaired or is an error.  A
\* block of calls that does not parse is the text of the answer; the reasoning
\* in front of it would be too, which is left out.
Finish ==
    /\ job.pc = "finish"
    /\ LET limited == IF job.n >= MaxDecode /\ MaxDecode > 0 /\ job.finish = "stop"
                      THEN "length" ELSE job.finish
           finish  == IF stop THEN "error" ELSE limited
           open    == job.req.api \in OpenApis /\ job.req.tools /\ finish \in {"stop", "length"}
           Answer(raw, calls) ==
               /\ live' = Remembered(raw, calls)
               /\ said' = Append(said, [text |-> job.req.history \o Visible(raw),
                                        calls |-> calls])
       IN  \/ finish \in {"stop", "tool"} /\ Answer(job.raw, finish = "tool")
           \/ finish = "tool" /\ Visible(job.raw) = job.raw /\ Answer(job.raw, FALSE)
           \/ open /\ Answer(job.raw \o Closing, TRUE)
           \/ /\ finish = "length"
              /\ live' = Unremembered
              /\ said' = Append(said, [text |-> job.req.history \o Visible(job.raw),
                                       calls |-> FALSE])
           \/ /\ finish = "error" \/ open
              /\ live' = Unremembered
              /\ UNCHANGED said
    /\ job' = Idle
    /\ UNCHANGED <<sess, last, disk, stop, asked>>
-----------------------------------------------------------------------------
(* The process.                                                            *)

Stop ==
    /\ "stop" \in Faults /\ ~stop
    /\ stop' = TRUE
    /\ UNCHANGED <<sess, live, last, disk, job, said, asked>>

\* The shutdown stores the session; the next process starts with the files.
Restart ==
    /\ stop /\ job.pc = "idle"
    /\ \E out \in StoreOutcomes(CurrentText, sess) : disk' = out.files
    /\ sess' = EmptySession
    /\ live' = [k \in LiveKinds |-> Forgotten]
    /\ last' = 0
    /\ stop' = FALSE
    /\ UNCHANGED <<job, said, asked>>

Finished ==
    /\ job.pc = "idle" /\ asked = MaxTurns /\ ~stop
    /\ UNCHANGED vars

Serve ==
    \/ EvictStore \/ LoadHit \/ LoadMiss \/ CheckContext \/ BeginSync \/ Prefill
    \/ SyncCancelled \/ SyncEnds \/ StoreColdPrefix \/ Synced \/ StoreCold \/ StartDecode
    \/ \E t \in Decoded : DecodeStops(t) \/ DecodeToken(t)
    \/ DecodeEnds \/ Finish

Next ==
    \/ \E r \in Requests, api \in Apis, tools \in Tools, greedy \in Greedy :
          Receive(r, api, tools, greedy)
    \/ Serve
    \/ SyncFails \/ DecodeFails \/ ClientGone \/ Stop \/ Restart \/ Finished

\* The thread that serves a request runs until the request ends.
Spec == Init /\ [][Next]_vars /\ WF_vars(Serve)
-----------------------------------------------------------------------------
(* Correctness.                                                            *)

\* A checkpoint file is named by what its tokens render to, with or without the
\* reasoning that no client sends back.
FiledUnderItsText ==
    \A t \in DOMAIN disk :
        LET text == Render(disk[t].toks) IN t = text \/ t = Visible(text)

\* A live state is recognised by its position alone; between requests a valid
\* session at that position is the one the state was remembered for.
LiveStatesTrue ==
    job.pc = "idle" /\ sess.valid =>
        \A k \in LiveKinds : live[k].valid /\ live[k].pos = Pos => sess.toks = live[k].of

\* The answer continues the conversation the client means: whatever was reused,
\* the tokens in front of the first decoded one spell its transcript.
PromptContinues ==
    job.pc = "decode" /\ job.n = 0 =>
        sess.toks = job.prompt /\ Visible(Render(sess.toks)) = job.req.history

\* The first token is chosen from the logits of the prompt.
FirstTokenFollowsPrompt ==
    job.pc = "decode" /\ job.n = 0 => sess.logits = sess.toks

\* The file of a checkpoint holds one state: tokens and the logits after them.
PayloadIsOneState ==
    \A t \in DOMAIN disk : disk[t].logits = disk[t].toks

\* A request that was taken up ends.
RequestEnds == (job.pc # "idle") ~> (job.pc = "idle")
=============================================================================
