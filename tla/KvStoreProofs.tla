--------------------------- MODULE KvStoreProofs ---------------------------
(***************************************************************************)
(* Proofs about KvStore for every set of texts, snapshots and contexts,    *)
(* every budget and every combination of faults.                           *)
(***************************************************************************)
EXTENDS KvStore, SequenceTheorems, FiniteSetTheorems, TLAPS

(***************************************************************************)
(* The store in progress: while a store has not returned, the session is   *)
(* still the snapshot it began with, filed under a text of that snapshot.  *)
(* Only the opening pass has no snapshot; it never gets past eviction.     *)
(***************************************************************************)
JobInv ==
    /\ job.pc \in {"stage", "create", "publish", "trailer"} => job.reason # "open"
    /\ job.pc # "idle" /\ job.reason # "open" => job.key \in Keys(live)
    /\ job.pc # "idle" => up
    /\ job.pc # "idle" \/ ~up => result.op = "none"

StoreInv == TypeOK /\ FiledUnderItsText /\ JobInv /\ HitRepresentsPrompt

LEMMA KeysAreTexts == \A s \in Snapshots : Keys(s) \subseteq Texts
  BY StoreAssumption

LEMMA FileBytesNat ==
  ASSUME NEW t \in Texts, NEW f, f.snap \in Snapshots, f.trailer \in Nat
  PROVE  FileBytes(t, f) \in Nat
<1>1. Len(t) \in Nat
  BY StoreAssumption
<1>2. HeaderBytes \in Nat /\ f.snap.bytes \in Nat
  BY StoreAssumption
<1> QED BY <1>1, <1>2 DEF FileBytes

\* The bytes a store reserves are a number while its text is known.
LEMMA ExtraBytesNat ==
  ASSUME TypeOK, JobInv, job.pc # "idle"
  PROVE  ExtraBytes \in Nat
<1>1. CASE job.reason = "open"
  BY <1>1 DEF ExtraBytes
<1>2. CASE job.reason # "open"
  <2>1. job.key \in Texts
    BY <1>2, KeysAreTexts DEF JobInv, TypeOK, Job
  <2>2. Incoming.snap \in Snapshots /\ Incoming.trailer \in Nat
    BY DEF Incoming, TypeOK, Job
  <2> QED BY <1>2, <2>1, <2>2, FileBytesNat DEF ExtraBytes
<1> QED BY <1>1, <1>2

\* Taking files away, or changing anything but the snapshot of one, keeps every
\* file under its text and in its type.
LEMMA UnlinkKeepsFiles ==
  ASSUME TypeOK, FiledUnderItsText, NEW t, files' \in Unlink(t)
  PROVE  /\ DOMAIN files' \subseteq Texts
         /\ files' \in [DOMAIN files' -> File]
         /\ FiledUnderItsText'
BY DEF TypeOK, FiledUnderItsText, Unlink, Without, Restrict

LEMMA PublishKeepsFiles ==
  ASSUME TypeOK, FiledUnderItsText, JobInv, job.pc = "publish",
         files' = [t \in DOMAIN files \cup {job.key} |->
                      IF t = job.key THEN Incoming ELSE files[t]]
  PROVE  /\ DOMAIN files' \subseteq Texts
         /\ files' \in [DOMAIN files' -> File]
         /\ FiledUnderItsText'
<1>1. job.key \in Keys(live) /\ job.key \in Texts
  BY KeysAreTexts DEF JobInv, TypeOK
<1>2. Incoming \in File /\ Incoming.snap = live
  BY StoreAssumption DEF Incoming, JobInv, TypeOK, Job, File, Reasons
<1> QED BY <1>1, <1>2 DEF TypeOK, FiledUnderItsText

LEMMA RewriteKeepsFiles ==
  ASSUME TypeOK, FiledUnderItsText, NEW n \in Nat, NEW t,
         files' = [files EXCEPT ![t].trailer = n]
  PROVE  /\ DOMAIN files' \subseteq Texts
         /\ files' \in [DOMAIN files' -> File]
         /\ FiledUnderItsText'
<1>1. DOMAIN files' = DOMAIN files
  OBVIOUS
<1>2. \A u \in DOMAIN files : files'[u] \in File /\ files'[u].snap = files[u].snap
  BY DEF TypeOK, File
<1> QED BY <1>1, <1>2 DEF TypeOK, FiledUnderItsText

LEMMA TouchKeepsFiles ==
  ASSUME TypeOK, FiledUnderItsText, NEW t, files' = Touched(t)
  PROVE  /\ DOMAIN files' \subseteq Texts
         /\ files' \in [DOMAIN files' -> File]
         /\ FiledUnderItsText'
<1>1. DOMAIN files' = DOMAIN files
  BY DEF Touched
<1>2. \A u \in DOMAIN files : files'[u] \in File /\ files'[u].snap = files[u].snap
  <2> SUFFICES ASSUME NEW u \in DOMAIN files
               PROVE  files'[u] \in File /\ files'[u].snap = files[u].snap
    OBVIOUS
  <2> DEFINE h == IF files[u].hits < MaxHits THEN files[u].hits + 1 ELSE files[u].hits
  <2>1. files[u] \in File
    BY DEF TypeOK
  <2>2. h \in 0..MaxHits
    BY <2>1, StoreAssumption DEF File
  <2>3. files'[u] = files[u] \/ files'[u] = [files[u] EXCEPT !.hits = h]
    BY DEF Touched
  <2> HIDE DEF h
  <2> QED BY <2>1, <2>2, <2>3 DEF File
<1> QED BY <1>1, <1>2 DEF TypeOK, FiledUnderItsText, Touched

LEMMA DamageKeepsFiles ==
  ASSUME TypeOK, FiledUnderItsText, NEW t,
         NEW b \in {"badheader", "badtext", "badpayload"},
         files' = [files EXCEPT ![t].body = b]
  PROVE  /\ DOMAIN files' \subseteq Texts
         /\ files' \in [DOMAIN files' -> File]
         /\ FiledUnderItsText'
<1>1. DOMAIN files' = DOMAIN files
  OBVIOUS
<1>2. \A u \in DOMAIN files : files'[u] \in File /\ files'[u].snap = files[u].snap
  BY DEF TypeOK, File
<1> QED BY <1>1, <1>2 DEF TypeOK, FiledUnderItsText

\* The values that mark the ends of a store.
LEMMA MarkersTyped ==
  /\ Idle \in Job /\ Idle.pc = "idle"
  /\ NoResult \in Result /\ NoResult.op = "none"
BY DEF Idle, NoResult, Job, Result, Reasons, NoText

LEMMA ReturnTyped ==
  ASSUME TypeOK, NEW op \in {"kept", "stored", "failed"}, Return(op)
  PROVE  /\ job' \in Job /\ job'.pc = "idle"
         /\ result' \in Result /\ result'.op # "hit"
<1>1. job' = Idle /\ job'.pc = "idle" /\ job' \in Job
  BY MarkersTyped DEF Return
<1>2. /\ result' = [NoResult EXCEPT !.op = op, !.key = job.key,
                                   !.gaveup = job.gaveup]
      /\ job.key \in Texts \cup {NoText} /\ job.gaveup \in BOOLEAN
  BY DEF Return, TypeOK, Job
<1> QED BY <1>1, <1>2 DEF Result, NoResult

\* The end of the budget pass.
LEMMA PassDoneTyped ==
  ASSUME TypeOK, JobInv, job.pc = "evict", NEW g \in BOOLEAN, PassDone(g),
         UNCHANGED <<live, result, up>>
  PROVE  job' \in Job /\ JobInv'
<1>1. CASE job.reason = "open"
  <2>1. job' = Idle
    BY <1>1 DEF PassDone
  <2> QED BY <2>1, MarkersTyped DEF JobInv
<1>2. CASE job.reason # "open"
  <2>1. job' = [job EXCEPT !.pc = "create", !.gaveup = g]
    BY <1>2 DEF PassDone
  <2>2. job' \in Job /\ job'.pc = "create" /\ job'.reason = job.reason
        /\ job'.key = job.key
    BY <2>1 DEF TypeOK, Job
  <2> QED BY <1>2, <2>2 DEF JobInv
<1> QED BY <1>1, <1>2
-----------------------------------------------------------------------------
LEMMA StoreInvInit == Init => StoreInv
<1> SUFFICES ASSUME Init PROVE StoreInv
  OBVIOUS
<1> USE DEF Init
<1>1. TypeOK
  <2>1. MaxLeftover \in Nat /\ Fresh \in Snapshots
    BY StoreAssumption
  <2>2. leftover \in 0..MaxLeftover /\ live \in Snapshots /\ ctx \in Contexts
    BY <2>1
  <2>3. DOMAIN files = {} /\ files \in [DOMAIN files -> File]
    OBVIOUS
  <2> QED BY <2>2, <2>3, MarkersTyped DEF TypeOK
<1>2. FiledUnderItsText
  BY DEF FiledUnderItsText
<1>3. JobInv /\ HitRepresentsPrompt
  BY MarkersTyped DEF JobInv, HitRepresentsPrompt
<1> QED BY <1>1, <1>2, <1>3 DEF StoreInv

LEMMA StoreInvNext == StoreInv /\ [Next]_vars => StoreInv'
<1> SUFFICES ASSUME StoreInv, [Next]_vars PROVE StoreInv'
  OBVIOUS
<1> USE DEF StoreInv
<1> USE StoreAssumption
<1>1. ASSUME NEW c \in Contexts, Open(c) PROVE StoreInv'
  <2>1. /\ job' = [Idle EXCEPT !.pc = "evict", !.reason = "open"]
        /\ job' \in Job /\ job'.reason = "open" /\ job'.pc = "evict"
    BY <1>1, MarkersTyped DEF Open, Job
  <2> QED BY <1>1, <2>1 DEF Open, TypeOK, FiledUnderItsText, JobInv,
             HitRepresentsPrompt
<1>2. ASSUME NEW s \in Snapshots, SessionMoves(s) PROVE StoreInv'
  BY <1>2 DEF SessionMoves, Ready, TypeOK, FiledUnderItsText, JobInv,
     HitRepresentsPrompt, NoResult, NoText, Result
<1>3. ASSUME NEW t \in Texts, NEW r \in Reasons, NEW n \in TrailerSizes,
             StoreBegin(t, r, n)
      PROVE  StoreInv'
  <2>1. /\ DOMAIN files' \subseteq Texts
        /\ files' \in [DOMAIN files' -> File]
        /\ FiledUnderItsText'
    BY <1>3, UnlinkKeepsFiles DEF StoreBegin, TypeOK, FiledUnderItsText
  <2>2. /\ job' \in Job /\ job'.key = t /\ job'.reason = r
        /\ job'.pc \in {"trailer", "stage"}
    BY <1>3, MarkersTyped DEF StoreBegin, Job, Idle
  <2> QED BY <1>3, <2>1, <2>2, MarkersTyped DEF StoreBegin, Ready, TypeOK, JobInv,
             HitRepresentsPrompt, Reasons
<1>4. CASE Stage
  <2>1. CASE Return("failed")
    BY <1>4, <2>1, ReturnTyped DEF Stage, TypeOK, FiledUnderItsText, JobInv,
       HitRepresentsPrompt
  <2>2. CASE job' = [job EXCEPT !.pc = "evict"] /\ UNCHANGED result
    <3>1. job' \in Job /\ job'.pc = "evict" /\ job'.reason = job.reason
          /\ job'.key = job.key
      BY <2>2 DEF TypeOK, Job
    <3> QED BY <1>4, <2>2, <3>1 DEF Stage, TypeOK, FiledUnderItsText, JobInv,
               HitRepresentsPrompt
  <2> QED BY <1>4, <2>1, <2>2 DEF Stage
<1>5. CASE EvictVictim
  <2>1. /\ job.pc = "evict" /\ UNCHANGED <<up, ctx, leftover, live, result>>
        /\ \E v : \/ files' = Without(v) /\ UNCHANGED job
                  \/ UNCHANGED files /\ PassDone(TRUE)
    BY <1>5 DEF EvictVictim
  <2>2. /\ DOMAIN files' \subseteq Texts
        /\ files' \in [DOMAIN files' -> File]
        /\ FiledUnderItsText'
    BY <2>1, UnlinkKeepsFiles DEF TypeOK, FiledUnderItsText, Unlink
  <2>3. job' \in Job /\ JobInv'
    BY <2>1, PassDoneTyped DEF JobInv, TypeOK
  <2> QED BY <2>1, <2>2, <2>3 DEF TypeOK, HitRepresentsPrompt
<1>6. CASE EvictDone
  <2>1. job' \in Job /\ JobInv'
    BY <1>6, PassDoneTyped DEF EvictDone
  <2> QED BY <1>6, <2>1 DEF EvictDone, TypeOK, FiledUnderItsText,
             HitRepresentsPrompt
<1>7. CASE CreateTemp
  <2>1. CASE Return("failed")
    BY <1>7, <2>1, ReturnTyped DEF CreateTemp, TypeOK, FiledUnderItsText, JobInv,
       HitRepresentsPrompt
  <2>2. CASE job' = [job EXCEPT !.pc = "publish"] /\ UNCHANGED result
    <3>1. job' \in Job /\ job'.pc = "publish" /\ job'.reason = job.reason
          /\ job'.key = job.key
      BY <2>2 DEF TypeOK, Job
    <3> QED BY <1>7, <2>2, <3>1 DEF CreateTemp, TypeOK, FiledUnderItsText, JobInv,
               HitRepresentsPrompt
  <2> QED BY <1>7, <2>1, <2>2 DEF CreateTemp
<1>8. CASE Publish
  <2>1. /\ DOMAIN files' \subseteq Texts
        /\ files' \in [DOMAIN files' -> File]
        /\ FiledUnderItsText'
    BY <1>8, PublishKeepsFiles DEF Publish, TypeOK, FiledUnderItsText
  <2>2. Return("stored") \/ Return("failed")
    BY <1>8 DEF Publish
  <2> QED BY <1>8, <2>1, <2>2, ReturnTyped DEF Publish, TypeOK, JobInv,
             HitRepresentsPrompt
<1>9. CASE RewriteTrailer
  <2>1. job.trailer \in Nat /\ 0 \in Nat
    BY DEF TypeOK, Job
  <2>2. /\ DOMAIN files' \subseteq Texts
        /\ files' \in [DOMAIN files' -> File]
        /\ FiledUnderItsText'
    BY <1>9, <2>1, RewriteKeepsFiles DEF RewriteTrailer, TypeOK, FiledUnderItsText
  <2> QED BY <1>9, <2>2, ReturnTyped DEF RewriteTrailer, TypeOK, JobInv,
             HitRepresentsPrompt
<1>10. ASSUME NEW p \in Texts, LoadMiss(p) PROVE StoreInv'
  BY <1>10 DEF LoadMiss, Answer, Ready, TypeOK, FiledUnderItsText, JobInv,
     HitRepresentsPrompt, NoResult, NoText, Result
<1>11. ASSUME NEW p \in Texts, LoadCorrupt(p) PROVE StoreInv'
  <2>1. PICK t : files' \in Unlink(t)
    BY <1>11 DEF LoadCorrupt
  <2>2. /\ DOMAIN files' \subseteq Texts
        /\ files' \in [DOMAIN files' -> File]
        /\ FiledUnderItsText'
    BY <2>1, UnlinkKeepsFiles
  <2> QED BY <1>11, <2>2 DEF LoadCorrupt, Answer, Ready, TypeOK, JobInv,
             HitRepresentsPrompt, NoResult, NoText, Result
<1>12. ASSUME NEW p \in Texts, LoadHit(p) PROVE StoreInv'
  <2>1. PICK t \in FoundTextPrefix(p) :
           /\ live' = files[t].snap
           /\ files' \in Unlink(t) \cup {Touched(t), files}
           /\ Answer("hit", t, p)
    BY <1>12 DEF LoadHit
  <2>2. t \in DOMAIN files /\ IsPrefix(t, p)
    BY DEF FoundTextPrefix, Candidates, Entries
  <2>3. t \in Texts /\ files[t].snap \in Snapshots /\ t \in Keys(files[t].snap)
    BY <2>2 DEF TypeOK, File, FiledUnderItsText
  <2>4. /\ DOMAIN files' \subseteq Texts
        /\ files' \in [DOMAIN files' -> File]
        /\ FiledUnderItsText'
    BY <2>1, UnlinkKeepsFiles, TouchKeepsFiles DEF TypeOK, FiledUnderItsText
  <2>5. UNCHANGED <<up, ctx, leftover, job>> /\ up /\ job.pc = "idle"
    BY <1>12 DEF LoadHit, Ready
  <2>6. /\ result'.op = "hit" /\ result'.key = t /\ result'.prompt = p
        /\ TypeOK'
    BY <2>1, <2>3, <2>4, <2>5 DEF Answer, NoResult, NoText, Result, TypeOK
  <2> QED BY <2>1, <2>2, <2>3, <2>4, <2>5, <2>6 DEF JobInv, HitRepresentsPrompt
<1>13. CASE Crash
  <2>1. leftover' \in Nat /\ leftover' <= MaxLeftover
    BY <1>13, ExtraBytesNat DEF Crash, TypeOK
  <2>2. /\ DOMAIN files' \subseteq Texts
        /\ files' \in [DOMAIN files' -> File]
        /\ FiledUnderItsText'
    BY <1>13, RewriteKeepsFiles DEF Crash, TypeOK, FiledUnderItsText
  <2>3. /\ job' \in Job /\ job'.pc = "idle"
        /\ result' \in Result /\ result'.op = "none"
        /\ up' \in BOOLEAN /\ live' \in Snapshots /\ ctx' \in Contexts
    BY <1>13, MarkersTyped DEF Crash, TypeOK
  <2>4. leftover' \in 0..MaxLeftover
    BY <2>1
  <2>5. JobInv' /\ HitRepresentsPrompt'
    BY <2>3 DEF JobInv, HitRepresentsPrompt
  <2> QED BY <2>2, <2>3, <2>4, <2>5 DEF TypeOK
<1>14. ASSUME NEW t \in Texts, NEW b \in {"badheader", "badtext", "badpayload"},
              Damage(t, b)
       PROVE  StoreInv'
  <2>1. /\ DOMAIN files' \subseteq Texts
        /\ files' \in [DOMAIN files' -> File]
        /\ FiledUnderItsText'
    BY <1>14, DamageKeepsFiles DEF Damage
  <2> QED BY <1>14, <2>1 DEF Damage, TypeOK, JobInv, HitRepresentsPrompt,
             NoResult, NoText, Result
<1>15. CASE UNCHANGED vars
  BY <1>15 DEF vars, TypeOK, FiledUnderItsText, JobInv, HitRepresentsPrompt
<1> QED
  BY <1>1, <1>2, <1>3, <1>4, <1>5, <1>6, <1>7, <1>8, <1>9, <1>10, <1>11, <1>12,
     <1>13, <1>14, <1>15 DEF Next, Step

THEOREM StoreInvariant == Spec => []StoreInv
  BY StoreInvInit, StoreInvNext, PTL DEF Spec

\* Every variable of the store keeps its type.
THEOREM TypeCorrect == Spec => []TypeOK
  BY StoreInvariant, PTL DEF StoreInv

\* No interrupted, evicting, replacing or rewriting operation ever leaves a
\* snapshot under a text that is not its own.
THEOREM FilesAreFaithful == Spec => []FiledUnderItsText
  BY StoreInvariant, PTL DEF StoreInv

\* After a hit the session holds a checkpoint for the front of the prompt.
THEOREM HitsAreFaithful == Spec => []HitRepresentsPrompt
  BY StoreInvariant, PTL DEF StoreInv
-----------------------------------------------------------------------------
(* The budget.                                                             *)

Used == UNION {BytesOf(t, files[t]) : t \in Entries}

\* Between its budget pass and its rename a store has room for its file, and
\* nothing is written in between.
BudgetInv ==
    /\ IsFiniteSet(DOMAIN files)
    /\ job.pc \in {"create", "publish"} /\ ~job.gaveup => TotalBytes + ExtraBytes <= Budget
    /\ StoreWithinBudget

LEMMA UnlinkKeepsSnapshots ==
  ASSUME NEW t, files' \in Unlink(t)
  PROVE  /\ DOMAIN files' \subseteq DOMAIN files
         /\ \A u \in DOMAIN files' : files'[u].snap = files[u].snap
BY DEF Unlink, Without, Restrict

LEMMA FileCounted ==
  ASSUME NEW t \in Texts, NEW f, f.snap \in Snapshots, f.trailer \in Nat
  PROVE  /\ IsFiniteSet(BytesOf(t, f)) /\ Cardinality(BytesOf(t, f)) = FileBytes(t, f)
         /\ FileBytes(t, f) \in Nat
<1> DEFINE k == FileBytes(t, f)
<1>1. k \in Nat
  BY FileBytesNat
<1> HIDE DEF k
<1>2. IsFiniteSet(1..k) /\ Cardinality(1..k) = IF 1 > k THEN 0 ELSE k - 1 + 1
  BY <1>1, FS_Interval
<1>3. Cardinality(1..k) = k
  BY <1>1, <1>2
<1>4. IsFiniteSet({t}) /\ Cardinality({t}) = 1
  BY FS_Singleton
<1>5. /\ IsFiniteSet({t} \X (1..k))
      /\ Cardinality({t} \X (1..k)) = Cardinality({t}) * Cardinality(1..k)
  BY <1>2, <1>4, FS_Product
<1>6. Cardinality({t} \X (1..k)) = k
  BY <1>1, <1>3, <1>4, <1>5
<1> QED BY <1>1, <1>5, <1>6 DEF BytesOf, k

LEMMA TotalCounted ==
  ASSUME TypeOK, IsFiniteSet(DOMAIN files)
  PROVE  IsFiniteSet(Used) /\ TotalBytes = Cardinality(Used) /\ TotalBytes \in Nat
<1> DEFINE T == {BytesOf(t, files[t]) : t \in Entries}
<1> DEFINE f == [t \in Entries |-> BytesOf(t, files[t])]
<1>1. IsFiniteSet(Entries)
  BY FS_Subset DEF Entries
<1>2. f \in Surjection(Entries, T)
  BY DEF Surjection
<1>3. IsFiniteSet(T)
  BY <1>1, <1>2, FS_Surjection
<1>4. \A t \in Entries : IsFiniteSet(BytesOf(t, files[t]))
  BY FileCounted DEF TypeOK, File, Entries
<1>5. IsFiniteSet(UNION T)
  BY <1>3, <1>4, FS_UNION
<1> QED BY <1>5, FS_CardinalityType DEF Used, TotalBytes

\* The file that is renamed into place adds no more than its bytes.
LEMMA PublishAdds ==
  ASSUME TypeOK, JobInv, IsFiniteSet(DOMAIN files), job.pc = "publish",
         files' = [t \in DOMAIN files \cup {job.key} |->
                      IF t = job.key THEN Incoming ELSE files[t]]
  PROVE  TotalBytes' <= TotalBytes + ExtraBytes /\ TotalBytes' \in Nat
<1> DEFINE k == job.key
<1> DEFINE X == BytesOf(k, Incoming)
<1>1. k \in Texts /\ job.reason # "open"
  BY KeysAreTexts DEF JobInv, TypeOK
<1>2. Incoming.snap \in Snapshots /\ Incoming.trailer \in Nat
  BY DEF Incoming, TypeOK, Job
<1>3. IsFiniteSet(X) /\ Cardinality(X) = FileBytes(k, Incoming) /\ ExtraBytes = FileBytes(k, Incoming)
      /\ ExtraBytes \in Nat
  BY <1>1, <1>2, FileCounted DEF ExtraBytes
<1>4. Used' \subseteq Used \cup X
  <2> SUFFICES ASSUME NEW x \in Used' PROVE x \in Used \cup X
    OBVIOUS
  <2>1. PICK t \in Entries' : x \in BytesOf(t, files'[t])
    BY DEF Used, BytesOf, FileBytes
  <2>2. t \in DOMAIN files \cup {k} /\ files'[t] = IF t = k THEN Incoming ELSE files[t]
    BY <2>1 DEF Entries
  <2>3. CASE t = k
    BY <2>1, <2>2, <2>3
  <2>4. CASE t # k
    <3>1. t \in Entries /\ files'[t] = files[t]
      BY <2>1, <2>2, <2>4 DEF Entries
    <3> QED BY <2>1, <3>1 DEF Used
  <2> QED BY <2>3, <2>4
<1>5. IsFiniteSet(Used) /\ TotalBytes = Cardinality(Used) /\ TotalBytes \in Nat
  BY TotalCounted
<1> DEFINE U == Used
<1> HIDE DEF X
<1>6. IsFiniteSet(U \cup X) /\ Cardinality(U \cup X) = Cardinality(U) + Cardinality(X) - Cardinality(U \cap X)
  BY <1>3, <1>5, FS_Union
<1>7. Cardinality(U \cap X) \in Nat
  BY <1>5, FS_Intersection, FS_CardinalityType
<1>8. IsFiniteSet(Used') /\ Cardinality(Used') <= Cardinality(U \cup X) /\ Cardinality(Used') \in Nat
  BY <1>4, <1>6, FS_Subset, FS_CardinalityType
<1>9. TotalBytes' = Cardinality(Used')
  BY DEF TotalBytes, Used
<1> QED BY <1>3, <1>5, <1>6, <1>7, <1>8, <1>9

LEMMA BudgetInvInit == Init => BudgetInv
BY MarkersTyped, FS_EmptySet DEF Init, BudgetInv, StoreWithinBudget

\* No step outside a store's last two touches what was stored while its result
\* still stands.
LEMMA BudgetElsewhere ==
  ASSUME BudgetInv, IsFiniteSet(DOMAIN files'), job'.pc \notin {"create", "publish"},
         \/ result'.op # "stored"
         \/ UNCHANGED <<files, result>>
  PROVE  BudgetInv'
BY DEF BudgetInv, StoreWithinBudget, TotalBytes, Entries, BytesOf, FileBytes

LEMMA BudgetInvNext == StoreInv /\ BudgetInv /\ [Next]_vars => BudgetInv'
<1> SUFFICES ASSUME StoreInv, BudgetInv, [Next]_vars PROVE BudgetInv'
  OBVIOUS
<1> USE DEF StoreInv
<1>a. ASSUME DOMAIN files' \subseteq DOMAIN files PROVE IsFiniteSet(DOMAIN files')
  BY <1>a, FS_Subset DEF BudgetInv
<1>b. \A t : files' \in Unlink(t) => DOMAIN files' \subseteq DOMAIN files
  BY UnlinkKeepsSnapshots
<1>1. ASSUME NEW c \in Contexts, Open(c) PROVE BudgetInv'
  <2>1. job'.pc = "evict" /\ UNCHANGED <<files, result>>
    BY <1>1 DEF Open, Idle
  <2> QED BY <1>a, <2>1, BudgetElsewhere
<1>2. ASSUME NEW s \in Snapshots, SessionMoves(s) PROVE BudgetInv'
  <2>1. job'.pc = "idle" /\ result'.op = "none" /\ UNCHANGED files
    BY <1>2, MarkersTyped DEF SessionMoves, Ready
  <2> QED BY <1>a, <2>1, BudgetElsewhere
<1>3. ASSUME NEW t \in Texts, NEW r \in Reasons, NEW n \in TrailerSizes,
             StoreBegin(t, r, n)
      PROVE  BudgetInv'
  <2>1. job'.pc \in {"trailer", "stage"} /\ result'.op = "none"
    BY <1>3, MarkersTyped DEF StoreBegin, Idle
  <2>2. DOMAIN files' \subseteq DOMAIN files
    BY <1>3, <1>b DEF StoreBegin
  <2> QED BY <1>a, <2>1, <2>2, BudgetElsewhere
<1>4. CASE Stage
  <2>1. CASE Return("failed")
    <3>1. job'.pc = "idle" /\ result'.op = "failed" /\ UNCHANGED files
      BY <1>4, <2>1, MarkersTyped DEF Stage, Return, NoResult
    <3> QED BY <1>a, <3>1, BudgetElsewhere
  <2>2. CASE job' = [job EXCEPT !.pc = "evict"] /\ UNCHANGED result
    <3>1. job'.pc = "evict" /\ UNCHANGED <<files, result>>
      BY <1>4, <2>2 DEF Stage, TypeOK, Job
    <3> QED BY <1>a, <3>1, BudgetElsewhere
  <2> QED BY <1>4, <2>1, <2>2 DEF Stage
<1>5. ASSUME EvictVictim \/ EvictDone PROVE BudgetInv'
  <2>1. /\ job.pc = "evict" /\ UNCHANGED <<up, ctx, live, result>> /\ result.op = "none"
        /\ \E v : files' \in {files, Without(v)}
    BY <1>5 DEF EvictVictim, EvictDone, JobInv
  <2>2. DOMAIN files' \subseteq DOMAIN files
    BY <2>1 DEF Without, Restrict
  <2>3. CASE UNCHANGED job \/ (job.reason = "open" /\ job' = Idle)
    <3>1. job'.pc \notin {"create", "publish"}
      BY <2>1, <2>3, MarkersTyped
    <3> QED BY <1>a, <2>1, <2>2, <3>1, BudgetElsewhere
  <2>4. ASSUME NEW g \in BOOLEAN, job.reason # "open", PassDone(g), UNCHANGED files,
               g \/ TotalBytes <= Budget - ExtraBytes
        PROVE  BudgetInv'
    <3>1. job' = [job EXCEPT !.pc = "create", !.gaveup = g]
      BY <2>4 DEF PassDone
    <3>2. /\ job'.gaveup = g /\ job'.key = job.key /\ job'.reason = job.reason
          /\ job'.trailer = job.trailer
      BY <3>1 DEF TypeOK, Job
    <3>3. ExtraBytes' = ExtraBytes /\ TotalBytes' = TotalBytes
      BY <2>1, <2>4, <3>2 DEF ExtraBytes, FileBytes, Incoming, TotalBytes, Entries, BytesOf
    <3>4. ExtraBytes \in Nat /\ TotalBytes \in Nat /\ Budget \in Nat
      BY <2>1, ExtraBytesNat, TotalCounted, StoreAssumption DEF BudgetInv
    <3> QED BY <1>a, <2>1, <2>2, <2>4, <3>2, <3>3, <3>4 DEF BudgetInv, StoreWithinBudget
  <2>5. \/ UNCHANGED job
        \/ UNCHANGED files /\ PassDone(TRUE)
        \/ UNCHANGED files /\ PassDone(FALSE) /\ TotalBytes <= Budget - ExtraBytes
    BY <1>5 DEF EvictVictim, EvictDone
  <2>6. \A g : PassDone(g) /\ job.reason = "open" => job' = Idle
    BY DEF PassDone
  <2> QED BY <2>3, <2>4, <2>5, <2>6
<1>6. CASE CreateTemp
  <2>1. CASE Return("failed")
    <3>1. job'.pc = "idle" /\ result'.op = "failed" /\ UNCHANGED files
      BY <1>6, <2>1, MarkersTyped DEF CreateTemp, Return, NoResult
    <3> QED BY <1>a, <3>1, BudgetElsewhere
  <2>2. CASE job' = [job EXCEPT !.pc = "publish"] /\ UNCHANGED result
    <3>1. job.pc = "create" /\ UNCHANGED <<ctx, files, live, result>>
      BY <1>6, <2>2 DEF CreateTemp
    <3>2. /\ job'.gaveup = job.gaveup /\ job'.key = job.key /\ job'.reason = job.reason
          /\ job'.trailer = job.trailer
      BY <2>2 DEF TypeOK, Job
    <3>3. ExtraBytes' = ExtraBytes /\ TotalBytes' = TotalBytes
      BY <3>1, <3>2 DEF ExtraBytes, FileBytes, Incoming, TotalBytes, Entries, BytesOf
    <3> QED BY <3>1, <3>2, <3>3 DEF BudgetInv, StoreWithinBudget
  <2> QED BY <1>6, <2>1, <2>2 DEF CreateTemp
<1>7. CASE Publish
  <2>1. CASE UNCHANGED files /\ Return("failed")
    <3>1. job'.pc = "idle" /\ result'.op = "failed"
      BY <2>1, MarkersTyped DEF Return, NoResult
    <3> QED BY <1>a, <2>1, <3>1, BudgetElsewhere
  <2>2. CASE /\ files' = [t \in DOMAIN files \cup {job.key} |->
                             IF t = job.key THEN Incoming ELSE files[t]]
             /\ Return("stored")
    <3>1. job.pc = "publish" /\ job'.pc = "idle" /\ result'.gaveup = job.gaveup
      BY <1>7, <2>2, MarkersTyped DEF Publish, Return, NoResult
    <3>2. TotalBytes' <= TotalBytes + ExtraBytes /\ TotalBytes' \in Nat
      BY <2>2, <3>1, PublishAdds DEF BudgetInv
    <3>3. ExtraBytes \in Nat /\ TotalBytes \in Nat /\ Budget \in Nat
      BY <3>1, ExtraBytesNat, TotalCounted, StoreAssumption DEF BudgetInv
    <3>4. IsFiniteSet(DOMAIN files')
      <4>1. DOMAIN files' = DOMAIN files \cup {job.key}
        BY <2>2
      <4> QED BY <4>1, FS_AddElement DEF BudgetInv
    <3> QED BY <3>1, <3>2, <3>3, <3>4 DEF BudgetInv, StoreWithinBudget
  <2> QED BY <1>7, <2>1, <2>2 DEF Publish
<1>8. CASE RewriteTrailer
  <2>1. DOMAIN files' = DOMAIN files
    BY <1>8 DEF RewriteTrailer
  <2>2. job'.pc = "idle" /\ result'.op = "kept"
    BY <1>8, MarkersTyped DEF RewriteTrailer, Return, NoResult
  <2> QED BY <1>a, <2>1, <2>2, BudgetElsewhere
<1>9. ASSUME NEW p \in Texts, LoadMiss(p) \/ LoadCorrupt(p) \/ LoadHit(p)
      PROVE  BudgetInv'
  <2>1. job'.pc = "idle" /\ result'.op \in {"hit", "miss"}
    BY <1>9 DEF LoadMiss, LoadCorrupt, LoadHit, Answer, Ready, NoResult
  <2>2. \E t : files' \in Unlink(t) \cup {files, Touched(t)}
    BY <1>9 DEF LoadMiss, LoadCorrupt, LoadHit
  <2>3. DOMAIN files' \subseteq DOMAIN files
    BY <1>b, <2>2 DEF Touched
  <2> QED BY <1>a, <2>1, <2>3, BudgetElsewhere
<1>10. CASE Crash
  <2>1. DOMAIN files' = DOMAIN files
    BY <1>10 DEF Crash
  <2>2. job'.pc = "idle" /\ result'.op = "none"
    BY <1>10, MarkersTyped DEF Crash
  <2> QED BY <1>a, <2>1, <2>2, BudgetElsewhere
<1>11. ASSUME NEW t \in Texts, NEW b \in {"badheader", "badtext", "badpayload"},
              Damage(t, b)
       PROVE  BudgetInv'
  <2>1. DOMAIN files' = DOMAIN files
    BY <1>11 DEF Damage
  <2>2. job'.pc = "idle" /\ result'.op = "none"
    BY <1>11, MarkersTyped DEF Damage
  <2> QED BY <1>a, <2>1, <2>2, BudgetElsewhere
<1>12. CASE UNCHANGED vars
  BY <1>12 DEF vars, BudgetInv, StoreWithinBudget, TotalBytes, ExtraBytes, Entries, BytesOf,
     FileBytes, Incoming
<1> QED
  BY <1>1, <1>2, <1>3, <1>4, <1>5, <1>6, <1>7, <1>8, <1>9, <1>10, <1>11, <1>12
  DEF Next, Step

\* After a store that wrote its file the directory is within its budget, unless
\* a victim could not be unlinked, whatever the sizes of the files.
THEOREM StoresStayInBudget == Spec => []StoreWithinBudget
<1>1. Spec => []BudgetInv
  BY BudgetInvInit, BudgetInvNext, StoreInvariant, PTL DEF Spec
<1> QED BY <1>1, PTL DEF BudgetInv
-----------------------------------------------------------------------------
(* What was stored is found, and evictions follow the priors.              *)

\* Every file holds a snapshot long enough to be looked up, and the file a
\* store has kept, or reports, is an entry that the process may load.
FoundInv ==
    /\ \A t \in DOMAIN files : files[t].snap.toks >= MinTokens
    /\ job.pc # "idle" /\ job.reason # "open" => live.toks >= MinTokens
    /\ job.pc = "trailer" => Compatible(job.key)
    /\ result.op \in {"stored", "kept"} =>
          result.key \in Entries /\ files[result.key].ctx <= ctx

\* A change of one file that leaves its snapshot keeps the first part.
LEMMA SnapshotsStayLong ==
  ASSUME FoundInv, DOMAIN files' \subseteq DOMAIN files,
         \A t \in DOMAIN files' : files'[t].snap = files[t].snap
  PROVE  \A t \in DOMAIN files' : files'[t].snap.toks >= MinTokens
BY DEF FoundInv

LEMMA FoundInvInit == Init => FoundInv
BY MarkersTyped DEF Init, FoundInv

LEMMA FoundInvNext == StoreInv /\ FoundInv /\ [Next]_vars => FoundInv'
<1> SUFFICES ASSUME StoreInv, FoundInv, [Next]_vars PROVE FoundInv'
  OBVIOUS
<1> USE DEF StoreInv
<1>1. ASSUME NEW c \in Contexts, Open(c) PROVE FoundInv'
  <2>1. job'.pc = "evict" /\ job'.reason = "open" /\ result'.op = "none"
        /\ UNCHANGED files
    BY <1>1 DEF Open, Idle, JobInv
  <2> QED BY <2>1 DEF FoundInv
<1>2. ASSUME NEW s \in Snapshots, SessionMoves(s) PROVE FoundInv'
  BY <1>2, MarkersTyped DEF SessionMoves, Ready, FoundInv
<1>3. ASSUME NEW t \in Texts, NEW r \in Reasons, NEW n \in TrailerSizes,
             StoreBegin(t, r, n)
      PROVE  FoundInv'
  <2>1. /\ job'.key = t /\ result'.op = "none" /\ live' = live /\ ctx' = ctx
        /\ live.toks >= MinTokens
        /\ job'.pc = IF Compatible(t) THEN "trailer" ELSE "stage"
    BY <1>3, MarkersTyped DEF StoreBegin, Idle
  <2>2. \A u \in DOMAIN files' : files'[u].snap.toks >= MinTokens
    BY <1>3, UnlinkKeepsSnapshots, SnapshotsStayLong DEF StoreBegin, FoundInv
  <2>3. job'.pc = "trailer" => Compatible(job.key)'
    <3> SUFFICES ASSUME Compatible(t) PROVE Compatible(job.key)'
      BY <2>1
    <3>1. UNCHANGED files
      BY <1>3 DEF StoreBegin
    <3> QED BY <2>1, <3>1 DEF Compatible, Entries
  <2> QED BY <2>1, <2>2, <2>3 DEF FoundInv
<1>4. CASE Stage
  <2>1. CASE Return("failed")
    BY <1>4, <2>1, MarkersTyped DEF Stage, Return, NoResult, FoundInv
  <2>2. CASE job' = [job EXCEPT !.pc = "evict"] /\ UNCHANGED result
    <3>1. job'.pc = "evict" /\ job'.reason = job.reason
      BY <2>2 DEF TypeOK, Job
    <3> QED BY <1>4, <2>2, <3>1 DEF Stage, FoundInv, JobInv
  <2> QED BY <1>4, <2>1, <2>2 DEF Stage
<1>5. ASSUME EvictVictim \/ EvictDone PROVE FoundInv'
  <2>1. /\ job.pc = "evict" /\ UNCHANGED <<up, ctx, live, result>>
        /\ \E v : files' \in {files, Without(v)}
        /\ UNCHANGED job \/ \E g \in BOOLEAN : PassDone(g)
    BY <1>5 DEF EvictVictim, EvictDone
  <2>2. \A u \in DOMAIN files' : files'[u].snap.toks >= MinTokens
    BY <2>1, SnapshotsStayLong DEF Without, Restrict, FoundInv
  <2>3. /\ job'.pc # "trailer"
        /\ job'.pc # "idle" /\ job'.reason # "open" => live'.toks >= MinTokens
    <3>1. CASE UNCHANGED job
      BY <2>1, <3>1 DEF FoundInv
    <3>2. ASSUME NEW g \in BOOLEAN, PassDone(g) PROVE <2>3!1 /\ <2>3!2
      <4>1. CASE job.reason = "open"
        BY <3>2, <4>1, MarkersTyped DEF PassDone
      <4>2. CASE job.reason # "open"
        BY <2>1, <3>2, <4>2 DEF PassDone, FoundInv, TypeOK, Job
      <4> QED BY <4>1, <4>2
    <3> QED BY <2>1, <3>1, <3>2
  <2> QED BY <2>1, <2>2, <2>3 DEF FoundInv, JobInv
<1>6. CASE CreateTemp
  <2>1. CASE Return("failed")
    BY <1>6, <2>1, MarkersTyped DEF CreateTemp, Return, NoResult, FoundInv
  <2>2. CASE job' = [job EXCEPT !.pc = "publish"] /\ UNCHANGED result
    <3>1. job'.pc = "publish" /\ job'.reason = job.reason
      BY <2>2 DEF TypeOK, Job
    <3> QED BY <1>6, <2>2, <3>1 DEF CreateTemp, FoundInv, JobInv
  <2> QED BY <1>6, <2>1, <2>2 DEF CreateTemp
<1>7. CASE Publish
  <2>1. live.toks >= MinTokens /\ ctx \in Nat
    BY <1>7, StoreAssumption DEF Publish, FoundInv, JobInv, TypeOK
  <2>2. CASE UNCHANGED files /\ Return("failed")
    BY <1>7, <2>2, MarkersTyped DEF Return, NoResult, FoundInv
  <2>3. CASE /\ files' = [t \in DOMAIN files \cup {job.key} |->
                             IF t = job.key THEN Incoming ELSE files[t]]
             /\ Return("stored")
    <3>1. job'.pc = "idle" /\ result'.key = job.key /\ ctx' = ctx
      BY <1>7, <2>3, MarkersTyped DEF Publish, Return, NoResult
    <3>2. \A u \in DOMAIN files' : files'[u].snap.toks >= MinTokens
      BY <2>1, <2>3 DEF Incoming, FoundInv
    <3>3. job.key \in Entries' /\ files'[job.key].ctx <= ctx
      BY <2>1, <2>3 DEF Incoming, Entries
    <3> QED BY <3>1, <3>2, <3>3 DEF FoundInv
  <2> QED BY <1>7, <2>2, <2>3 DEF Publish
<1>8. CASE RewriteTrailer
  <2>1. \E n : files' \in {files, [files EXCEPT ![job.key].trailer = n]}
    BY <1>8 DEF RewriteTrailer
  <2>2. /\ DOMAIN files' = DOMAIN files
        /\ \A u \in DOMAIN files : /\ files'[u].snap = files[u].snap
                                   /\ files'[u].ctx = files[u].ctx
                                   /\ files'[u].body = files[u].body
    BY <2>1 DEF TypeOK, File
  <2>3. job'.pc = "idle" /\ result'.key = job.key /\ ctx' = ctx
    BY <1>8, MarkersTyped DEF RewriteTrailer, Return, NoResult
  <2>4. Compatible(job.key)
    BY <1>8 DEF RewriteTrailer, FoundInv
  <2>5. job.key \in Entries' /\ files'[job.key].ctx <= ctx
    BY <2>2, <2>4 DEF Compatible, Entries
  <2> QED BY <2>2, <2>3, <2>5 DEF FoundInv
<1>9. ASSUME NEW p \in Texts, LoadMiss(p) \/ LoadCorrupt(p) \/ LoadHit(p)
      PROVE  FoundInv'
  <2>1. /\ job.pc = "idle" /\ job' = job
        /\ result'.op \in {"hit", "miss"}
    BY <1>9 DEF LoadMiss, LoadCorrupt, LoadHit, Answer, Ready, NoResult
  <2>2. \E t : files' \in Unlink(t) \cup {files, Touched(t)}
    BY <1>9 DEF LoadMiss, LoadCorrupt, LoadHit
  <2>3. /\ DOMAIN files' \subseteq DOMAIN files
        /\ \A u \in DOMAIN files' : files'[u].snap = files[u].snap
    BY <2>2, UnlinkKeepsSnapshots DEF Touched, TypeOK, File
  <2> QED BY <2>1, <2>3, SnapshotsStayLong DEF FoundInv
<1>10. CASE Crash
  <2>1. \E n : files' \in {files, [files EXCEPT ![job.key].trailer = n]}
    BY <1>10 DEF Crash
  <2>2. /\ DOMAIN files' = DOMAIN files
        /\ \A u \in DOMAIN files : files'[u].snap = files[u].snap
    BY <2>1 DEF TypeOK, File
  <2>3. job'.pc = "idle" /\ result'.op = "none"
    BY <1>10, MarkersTyped DEF Crash
  <2> QED BY <2>2, <2>3, SnapshotsStayLong DEF FoundInv
<1>11. ASSUME NEW t \in Texts, NEW b \in {"badheader", "badtext", "badpayload"},
              Damage(t, b)
       PROVE  FoundInv'
  <2>1. /\ DOMAIN files' = DOMAIN files
        /\ \A u \in DOMAIN files : files'[u].snap = files[u].snap
    BY <1>11 DEF Damage, TypeOK, File
  <2>2. job'.pc = "idle" /\ result'.op = "none"
    BY <1>11, MarkersTyped DEF Damage
  <2> QED BY <2>1, <2>2, SnapshotsStayLong DEF FoundInv
<1>12. CASE UNCHANGED vars
  BY <1>12 DEF vars, FoundInv, Compatible, Entries
<1> QED
  BY <1>1, <1>2, <1>3, <1>4, <1>5, <1>6, <1>7, <1>8, <1>9, <1>10, <1>11, <1>12
  DEF Next, Step

LEMMA FoundInvariant == Spec => []FoundInv
  BY FoundInvInit, FoundInvNext, StoreInvariant, PTL DEF Spec

\* A prefix of a text that is as long as the text is the text.
LEMMA FullPrefix ==
  ASSUME NEW s \in Seq(Nat), NEW t \in Seq(Nat), IsPrefix(s, t), Len(t) <= Len(s)
  PROVE  s = t
<1>1. /\ Len(s) = Len(t) /\ Len(s) \in Nat
      /\ SubSeq(s, 1, Len(s)) = SubSeq(t, 1, Len(s))
  BY DEF IsPrefix
<1>2. SubSeq(s, 1, Len(s)) = s /\ SubSeq(t, 1, Len(t)) = t
  BY SubSeqFull
<1> QED BY <1>1, <1>2

\* Asking for the text of a store that was reported selects that file.
THEOREM StoresAreFound == Spec => []StoredIsFound
<1>1. StoreInv /\ FoundInv => StoredIsFound
  <2> SUFFICES ASSUME StoreInv, FoundInv, result.op \in {"stored", "kept"}
               PROVE  FoundTextPrefix(result.key) = {result.key}
    BY DEF StoredIsFound
  <2> DEFINE k == result.key
  <2>1. k \in Entries /\ files[k].ctx <= ctx /\ k \in DOMAIN files
    BY DEF FoundInv, Entries
  <2>2. \A t \in Entries : t \in Seq(Nat)
    BY StoreAssumption DEF StoreInv, TypeOK, Entries
  <2>3. k \in Candidates(k)
    <3>1. IsPrefix(k, k)
      BY <2>1, <2>2 DEF IsPrefix
    <3> QED BY <2>1, <3>1 DEF Candidates, FoundInv
  <2>4. \A t \in Candidates(k) : t \in Seq(Nat) /\ IsPrefix(t, k)
    BY <2>2 DEF Candidates
  <2>5. \A t \in Candidates(k) : Len(t) <= Len(k)
    BY <2>4 DEF IsPrefix
  <2>6. \A t \in Candidates(k) : Len(k) <= Len(t) => t = k
    BY <2>3, <2>4, FullPrefix
  <2> HIDE DEF k
  <2>7. FoundTextPrefix(k) = {k}
    BY <2>3, <2>5, <2>6 DEF FoundTextPrefix
  <2> QED BY <2>7 DEF k
<1> QED BY <1>1, StoreInvariant, FoundInvariant, PTL

\* If a file whose weight has the larger factor is not denser by the smaller
\* one, it is not denser at all: a is the density of the victim and b that of
\* the other file, each times the bytes of both.
LEMMA Denser ==
  ASSUME NEW cv \in Nat, NEW cw \in Nat, NEW a \in Nat, NEW b \in Nat,
         b <= a, a > 0, cv * a <= cw * b
  PROVE  cv <= cw
<1>1. cw * b <= cw * a
  OBVIOUS
<1>2. cv * a <= cw * a /\ cv * a \in Int /\ cw * a \in Int
  BY <1>1
<1> QED BY <1>2

LEMMA Regroup ==
  ASSUME NEW x \in Nat, NEW c \in Nat, NEW y \in Nat
  PROVE  (x * c) * y = c * (x * y)
OBVIOUS

\* The factor of a file's weight: fixed for a file that was never hit, and at
\* least that for any other of the same standing.
LEMMA WeightFactor ==
  ASSUME TypeOK, NEW t \in Entries, NEW recent
  PROVE  \E c \in Nat :
            /\ Weight(t, recent) = files[t].snap.toks * c
            /\ Prior(t) = 1 => c >= 20
            /\ Prior(t) = 2 => c >= 40
            /\ files[t].hits = 0 =>
                  c = IF Prior(t) = 0 THEN 1 ELSE IF Prior(t) = 1 THEN 20 ELSE 40
<1> DEFINE h == IF t \in recent THEN files[t].hits ELSE 0
           c == IF Superseded(t) THEN 10 * h + 1
                ELSE IF files[t].reason = "anchor" THEN 40 * (h + 1) ELSE 20 * (h + 1)
<1>1. files[t].hits \in 0..MaxHits
  BY DEF TypeOK, Entries, File
<1>2. h \in Nat /\ (files[t].hits = 0 => h = 0)
  BY <1>1, StoreAssumption
<1>3. Weight(t, recent) = files[t].snap.toks * c
  BY DEF Weight
<1> HIDE DEF h
<1>4. /\ c \in Nat
      /\ Prior(t) = 1 => c >= 20
      /\ Prior(t) = 2 => c >= 40
      /\ files[t].hits = 0 =>
            c = IF Prior(t) = 0 THEN 1 ELSE IF Prior(t) = 1 THEN 20 ELSE 40
  BY <1>2 DEF Prior
<1> HIDE DEF c
<1> QED BY <1>3, <1>4

LEMMA VictimYields ==
  ASSUME TypeOK, FoundInv, NEW recent, NEW v \in Victims(recent), NEW w \in Entries,
         files[w].hits = 0,
         files[v].snap.toks * FileBytes(w, files[w])
            >= files[w].snap.toks * FileBytes(v, files[v])
  PROVE  Prior(v) <= Prior(w)
<1> DEFINE tv == files[v].snap.toks
           tw == files[w].snap.toks
           bv == FileBytes(v, files[v])
           bw == FileBytes(w, files[w])
<1>1. v \in Entries /\ Weight(v, recent) * bw <= Weight(w, recent) * bv
  BY DEF Victims
<1>2. /\ v \in Texts /\ files[v] \in File /\ tv >= MinTokens
      /\ w \in Texts /\ files[w] \in File /\ tw >= MinTokens
  BY <1>1 DEF TypeOK, Entries, FoundInv
<1>3. tv \in Nat /\ tw \in Nat /\ tv > 0
  <2>1. files[v].snap \in Snapshots /\ files[w].snap \in Snapshots
    BY <1>2 DEF File
  <2>2. tv \in Nat /\ tw \in Nat
    BY <2>1, StoreAssumption
  <2>3. MinTokens \in Nat \ {0}
    BY StoreAssumption
  <2> HIDE DEF tv, tw
  <2> QED BY <1>2, <2>2, <2>3
<1>4. bv \in Nat /\ bw \in Nat
  BY <1>2, FileBytesNat DEF File
<1>5. bw > 0
  <2>1. w \in Seq(Nat) /\ w # <<>>
    BY <1>2, StoreAssumption
  <2>2. Len(w) \in Nat \ {0}
    BY <2>1, EmptySeq
  <2>3. HeaderBytes \in Nat /\ files[w].snap.bytes \in Nat /\ files[w].trailer \in Nat
    BY <1>2, StoreAssumption DEF File
  <2> QED BY <2>2, <2>3 DEF FileBytes
<1>6. PICK cv \in Nat :
         /\ Weight(v, recent) = tv * cv
         /\ Prior(v) = 1 => cv >= 20
         /\ Prior(v) = 2 => cv >= 40
  BY <1>1, WeightFactor
<1>7. PICK cw \in Nat :
         /\ Weight(w, recent) = tw * cw
         /\ cw = IF Prior(w) = 0 THEN 1 ELSE IF Prior(w) = 1 THEN 20 ELSE 40
  BY WeightFactor
<1>8. Prior(v) \in {0, 1, 2} /\ Prior(w) \in {0, 1, 2}
  BY DEF Prior
<1>9. tv * bw >= tw * bv
  OBVIOUS
<1> HIDE DEF tv, tw, bv, bw
<1>10. cv * (tv * bw) <= cw * (tw * bv)
  BY <1>1, <1>3, <1>4, <1>6, <1>7, Regroup
<1>11. tv * bw \in Nat /\ tw * bv \in Nat /\ tv * bw > 0
  BY <1>3, <1>4, <1>5
<1>12. cv <= cw
  BY <1>9, <1>10, <1>11, Denser
<1> QED BY <1>6, <1>7, <1>8, <1>12

\* Whatever the hits, the sizes and the incoming store: a file that is evicted
\* stands no higher than any never-hit file it is at least as dense as.
THEOREM EvictionsFollowPriors == Spec => EvictionOrder
<1> DEFINE Order == job.pc = "evict" =>
          \A v \in DOMAIN files \ DOMAIN files' : \A w \in Entries \ {v} :
             (/\ files[w].hits = 0
              /\ files[v].snap.toks * FileBytes(w, files[w])
                    >= files[w].snap.toks * FileBytes(v, files[v]))
             => Prior(v) <= Prior(w)
<1>1. ASSUME StoreInv, job.pc = "evict", Next,
             NEW v \in DOMAIN files \ DOMAIN files'
      PROVE  \E recent : v \in Victims(recent)
  <2>1. CASE EvictVictim
    <3>1. PICK recent : \E u \in Victims(recent) : files' = Without(u) \/ UNCHANGED files
      BY <2>1 DEF EvictVictim
    <3>2. PICK u \in Victims(recent) : files' = Without(u) \/ UNCHANGED files
      BY <3>1
    <3>3. v = u
      BY <3>2 DEF Without, Restrict
    <3> QED BY <3>3
  <2>2. ASSUME ~EvictVictim PROVE FALSE
    <3>1. up
      BY <1>1 DEF StoreInv, JobInv
    <3>2. UNCHANGED files
      BY <1>1, <2>2, <3>1
      DEF Next, Step, Open, SessionMoves, Ready, StoreBegin, Stage, EvictDone,
          CreateTemp, Publish, RewriteTrailer, LoadMiss, LoadCorrupt, LoadHit, Crash,
          Damage
    <3> QED BY <3>2
  <2> QED BY <2>1, <2>2
<1>2. StoreInv /\ FoundInv /\ [Next]_vars => [Order]_vars
  <2> SUFFICES ASSUME StoreInv, FoundInv, Next, job.pc = "evict",
                      NEW v \in DOMAIN files \ DOMAIN files',
                      NEW w \in Entries \ {v}, files[w].hits = 0,
                      files[v].snap.toks * FileBytes(w, files[w])
                         >= files[w].snap.toks * FileBytes(v, files[v])
               PROVE  Prior(v) <= Prior(w)
    OBVIOUS
  <2>1. PICK recent : v \in Victims(recent)
    BY <1>1
  <2> QED BY <2>1, VictimYields DEF StoreInv
<1> HIDE DEF Order
<1>3. Spec => [][Order]_vars
  BY <1>2, StoreInvariant, FoundInvariant, PTL DEF Spec
<1> QED BY <1>3 DEF EvictionOrder, Order

-----------------------------------------------------------------------------
(* The files implement the abstract cache.                                 *)

Good == {t \in DOMAIN files : files[t].body = "good"}

\* When no good file changes but by going away, and no answer is pending, a step
\* is an abstract Advance.
LEMMA LossIsAdvance ==
  ASSUME live' \in Snapshots, result'.op # "hit",
         Good' \subseteq Good, \A t \in Good' : files'[t].snap = files[t].snap
  PROVE  Cache!Advance
<1> DEFINE c == [t \in Good |-> files[t].snap]
<1>1. c' = Restrict(c, Good')
  BY DEF Restrict
<1>2. Good' \in SUBSET DOMAIN c
  OBVIOUS
<1>3. \E kept \in SUBSET DOMAIN c : c' = Restrict(c, kept)
  BY <1>1, <1>2
<1>4. (IF result.op = "hit" THEN <<result.prompt, result.key>> ELSE <<>>)' = <<>>
  OBVIOUS
<1>5. c = [t \in {u \in DOMAIN files : files[u].body = "good"} |-> files[t].snap]
  BY DEF Good
<1>6. c' = [t \in {u \in DOMAIN files : files[u].body = "good"} |-> files[t].snap]'
  BY DEF Good
<1> HIDE DEF c
<1> QED BY <1>3, <1>4, <1>5, <1>6 DEF Cache!Advance, Cache!NoReply,
           Cache!Restrict, Restrict

LEMMA UnlinkLoses ==
  ASSUME NEW t, files' \in Unlink(t)
  PROVE  Good' \subseteq Good /\ \A u \in Good' : files'[u].snap = files[u].snap
BY DEF Good, Unlink, Without, Restrict

LEMMA InitImplements == Init => Cache!Init
<1> SUFFICES ASSUME Init PROVE Cache!Init
  OBVIOUS
<1>1. {u \in DOMAIN files : files[u].body = "good"} = {}
  BY DEF Init
<1>2. result.op = "none" /\ live \in Snapshots
  BY StoreAssumption, MarkersTyped DEF Init
<1> QED BY <1>1, <1>2 DEF Cache!Init, Cache!NoReply

\* Every step of the store is a step of the cache or leaves it alone.
LEMMA StepImplements == StoreInv /\ StoreInv' /\ [Next]_vars => [Cache!Next]_(Cache!vars)
<1> SUFFICES ASSUME StoreInv, StoreInv', [Next]_vars
             PROVE  [Cache!Next]_(Cache!vars)
  OBVIOUS
<1> USE DEF StoreInv
<1>live. live' \in Snapshots
  BY DEF TypeOK
<1>1. ASSUME NEW c \in Contexts, Open(c) PROVE UNCHANGED Cache!vars
  BY <1>1 DEF Open, Cache!vars
<1>2. ASSUME NEW s \in Snapshots, SessionMoves(s) PROVE Cache!Advance
  BY <1>2, <1>live, LossIsAdvance, MarkersTyped DEF SessionMoves, Good
<1>3. ASSUME NEW t \in Texts, NEW r \in Reasons, NEW n \in TrailerSizes,
             StoreBegin(t, r, n)
      PROVE  Cache!Advance
  <2>1. Good' \subseteq Good /\ \A u \in Good' : files'[u].snap = files[u].snap
    BY <1>3, UnlinkLoses DEF StoreBegin, Good
  <2>2. result'.op # "hit"
    BY <1>3, MarkersTyped DEF StoreBegin
  <2> QED BY <1>live, <2>1, <2>2, LossIsAdvance
<1>4. CASE Stage \/ CreateTemp \/ EvictDone \/ EvictVictim \/ RewriteTrailer
  <2>1. result'.op # "hit"
    BY <1>4, ReturnTyped DEF Stage, CreateTemp, EvictDone, EvictVictim,
       RewriteTrailer, JobInv
  <2>2. Good' \subseteq Good /\ \A u \in Good' : files'[u].snap = files[u].snap
    <3>1. CASE Stage \/ CreateTemp \/ EvictDone
      BY <3>1 DEF Stage, CreateTemp, EvictDone, Good
    <3>2. CASE EvictVictim
      BY <3>2, UnlinkLoses DEF EvictVictim, Unlink, Good
    <3>3. CASE RewriteTrailer
      <4>1. \E n : files' = files \/ files' = [files EXCEPT ![job.key].trailer = n]
        BY <3>3 DEF RewriteTrailer
      <4> QED BY <4>1 DEF Good, TypeOK, File
    <3> QED BY <1>4, <3>1, <3>2, <3>3
  <2>3. Cache!Advance
    BY <1>live, <2>1, <2>2, LossIsAdvance
  <2> QED BY <2>3 DEF Cache!Next
<1>5. CASE Publish
  <2>1. CASE UNCHANGED files /\ Return("failed")
    BY <1>5, <2>1, <1>live, LossIsAdvance, ReturnTyped DEF Good, Cache!Next
  <2>2. CASE /\ files' = [t \in DOMAIN files \cup {job.key} |->
                             IF t = job.key THEN Incoming ELSE files[t]]
             /\ Return("stored")
    <3>1. job.key \in Keys(live) /\ live' = live
      BY <1>5 DEF Publish, JobInv
    <3>2. result'.op # "hit"
      BY <2>2, ReturnTyped
    <3>3. Incoming.snap = live /\ Incoming.body = "good"
      BY DEF Incoming
    <3>4. Good' = Good \cup {job.key}
      BY <2>2, <3>3 DEF Good
    <3>5. [t \in Good |-> files[t].snap]'
             = [u \in Good \cup {job.key} |->
                  IF u = job.key THEN live ELSE [t \in Good |-> files[t].snap][u]]
      BY <2>2, <3>3, <3>4 DEF Good
    <3>6. Cache!Publish
      BY <3>1, <3>2, <3>5 DEF Cache!Publish, Cache!NoReply, Good
    <3> QED BY <3>6 DEF Cache!Next
  <2> QED BY <1>5, <2>1, <2>2 DEF Publish
<1>6. ASSUME NEW p \in Texts, LoadMiss(p) PROVE Cache!Advance
  <2>1. result'.op # "hit"
    BY <1>6 DEF LoadMiss, Answer, NoResult
  <2> QED BY <1>6, <2>1, <1>live, LossIsAdvance DEF LoadMiss, Good
<1>7. ASSUME NEW p \in Texts, LoadCorrupt(p) PROVE Cache!Advance
  <2>1. result'.op # "hit"
    BY <1>7 DEF LoadCorrupt, Answer, NoResult
  <2>2. PICK t : files' \in Unlink(t)
    BY <1>7 DEF LoadCorrupt
  <2> QED BY <2>1, <2>2, <1>live, UnlinkLoses, LossIsAdvance
<1>8. ASSUME NEW p \in Texts, LoadHit(p) PROVE Cache!Serve
  <2>1. PICK t \in FoundTextPrefix(p) :
           /\ files[t].body = "good"
           /\ live' = files[t].snap
           /\ files' \in Unlink(t) \cup {Touched(t), files}
           /\ Answer("hit", t, p)
    BY <1>8 DEF LoadHit
  <2>2. t \in Good /\ IsPrefix(t, p)
    BY <2>1 DEF FoundTextPrefix, Candidates, Entries, Good
  <2>3. result'.op = "hit" /\ <<result'.prompt, result'.key>> = <<p, t>>
    BY <2>1 DEF Answer, NoResult
  <2> DEFINE c == [u \in Good |-> files[u].snap]
  <2>4. c' = c \/ c' = Restrict(c, DOMAIN c \ {t})
    <3>1. CASE files' = files
      BY <3>1 DEF Good
    <3>2. CASE files' = Touched(t)
      <4>1. /\ DOMAIN files' = DOMAIN files
            /\ \A u \in DOMAIN files :
                 files'[u].body = files[u].body /\ files'[u].snap = files[u].snap
        BY <3>2 DEF Touched, TypeOK, File
      <4>2. Good' = Good
        BY <4>1 DEF Good
      <4> QED BY <4>1, <4>2 DEF Good
    <3>3. CASE files' = Without(t)
      <4>1. /\ DOMAIN files' = DOMAIN files \ {t}
            /\ \A u \in DOMAIN files \ {t} : files'[u] = files[u]
        BY <3>3 DEF Without, Restrict
      <4>2. Good' = Good \ {t}
        BY <4>1 DEF Good
      <4> QED BY <4>1, <4>2 DEF Good, Restrict
    <3> QED BY <2>1, <3>1, <3>2, <3>3 DEF Unlink
  <2>5. c = [u \in {w \in DOMAIN files : files[w].body = "good"} |-> files[u].snap]
    BY DEF Good
  <2>6. c' = [u \in {w \in DOMAIN files : files[w].body = "good"} |-> files[u].snap]'
    BY DEF Good
  <2>7. t \in DOMAIN c /\ live' = c[t]
    BY <2>1, <2>2
  <2> HIDE DEF c
  <2>8. (IF result.op = "hit" THEN <<result.prompt, result.key>> ELSE <<>>)' = <<p, t>>
    BY <2>3
  <2>9. \E q \in Texts : \E u \in DOMAIN c :
          /\ IsPrefix(u, q)
          /\ live' = c[u]
          /\ (IF result.op = "hit" THEN <<result.prompt, result.key>> ELSE <<>>)' = <<q, u>>
          /\ c' = c \/ c' = Restrict(c, DOMAIN c \ {u})
    BY <2>2, <2>4, <2>7, <2>8
  <2>10. \E q \in Texts : \E u \in DOMAIN c :
           /\ Cache!IsPrefix(u, q)
           /\ live' = c[u]
           /\ (IF result.op = "hit" THEN <<result.prompt, result.key>> ELSE <<>>)' = <<q, u>>
           /\ c' = c \/ c' = Cache!Restrict(c, DOMAIN c \ {u})
    BY <2>9 DEF Cache!Restrict, Restrict, Cache!IsPrefix, IsPrefix
  <2> QED BY <2>10 DEF c, Good, Cache!Serve
<1>9. CASE Crash
  <2>1. result'.op # "hit"
    BY <1>9, MarkersTyped DEF Crash
  <2>2. \E n : files' = files \/ files' = [files EXCEPT ![job.key].trailer = n]
    BY <1>9 DEF Crash
  <2>3. Good' \subseteq Good /\ \A u \in Good' : files'[u].snap = files[u].snap
    BY <2>2 DEF Good, TypeOK, File
  <2>4. Cache!Advance
    BY <1>live, <2>1, <2>3, LossIsAdvance
  <2> QED BY <2>4 DEF Cache!Next
<1>10. ASSUME NEW t \in Texts, NEW b \in {"badheader", "badtext", "badpayload"},
              Damage(t, b)
       PROVE  Cache!Advance
  <2>1. result'.op # "hit" /\ files' = [files EXCEPT ![t].body = b]
    BY <1>10, MarkersTyped DEF Damage
  <2>2. Good' \subseteq Good /\ \A u \in Good' : files'[u].snap = files[u].snap
    BY <2>1 DEF Good, TypeOK, File
  <2> QED BY <1>live, <2>1, <2>2, LossIsAdvance
<1>11. CASE UNCHANGED vars
  BY <1>11 DEF vars, Cache!vars
<1> QED
  BY <1>1, <1>2, <1>3, <1>4, <1>5, <1>6, <1>7, <1>8, <1>9, <1>10, <1>11
  DEF Next, Step, Cache!Next

\* The store of files, killed, refused and damaged as it may be, is an
\* implementation of the cache that KvCache describes.
THEOREM StoreImplementsCache == Spec => ImplementsCache
<1>1. Init => Cache!Init
  BY InitImplements
<1>2. StoreInv /\ StoreInv' /\ [Next]_vars => [Cache!Next]_(Cache!vars)
  BY StepImplements
<1> QED BY <1>1, <1>2, StoreInvariant, PTL DEF Spec, ImplementsCache, Cache!Spec
=============================================================================
