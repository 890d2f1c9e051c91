---------------------------- MODULE ServerProofs ----------------------------
(***************************************************************************)
(* Proofs about the server process (Server), for any finite set of         *)
(* connections, any delivery of the signals and any failure, and about a   *)
(* response that one of its threads streams (Stream): for any tokens, stop *)
(* strings and number of calls, and wherever sending fails, the items of a *)
(* Responses or Messages stream open and close in order.                   *)
(*                                                                         *)
(* A client is a function of the events it has read, so reading more       *)
(* events, or fewer when sending fails, changes nothing about the earlier  *)
(* ones.  The invariant StreamInv says that the server's open item is the  *)
(* client's; each operation of a live stream keeps the two together.       *)
(***************************************************************************)
EXTENDS Server, Stream, FiniteSetTheorems, SequenceTheorems, WellFoundedInduction, TLAPS

-----------------------------------------------------------------------------
(* The server process.                                                     *)

(***************************************************************************)
(* What the safety properties need besides each other: the connection main *)
(* has in hand has no thread yet, and gen_mu is held by a thread that is   *)
(* inside a generation, so that no thread means an unlocked mutex.         *)
(***************************************************************************)
InHand == main \in {"accepted", "create"} => cur \in Conns /\ pc[cur] = "backlog"

HolderInside == gen # Nobody => gen \in InGeneration

ServerInv ==
    TypeOK /\ InHand /\ HolderInside /\ SessionExclusive /\ ClientsCounted /\ NoUseAfterFree

LEMMA ThreadsFinite ==
  Threads \subseteq Conns /\ IsFiniteSet(Threads) /\ Cardinality(Threads) \in Nat
<1>1. Threads \subseteq Conns
  BY DEF Threads
<1>2. IsFiniteSet(Threads)
  BY <1>1, FS_Subset, ServerAssumption
<1> QED BY <1>1, <1>2, FS_CardinalityType

\* A thread that moves on stays one thread.
LEMMA MovingKeepsThreads ==
  ASSUME TypeOK, NEW c \in Conns, NEW where, Goto(c, where),
         (pc[c] \in Threadless) <=> (where \in Threadless)
  PROVE  Threads' = Threads
BY DEF TypeOK, Goto, Threads, Threadless

LEMMA OneMoreThread ==
  ASSUME TypeOK, NEW c \in Conns, pc[c] \in Threadless, Goto(c, "read")
  PROVE  Cardinality(Threads') = Cardinality(Threads) + 1
<1>1. Threads' = Threads \cup {c} /\ c \notin Threads
  BY DEF TypeOK, Goto, Threads, Threadless
<1> QED BY <1>1, ThreadsFinite, FS_AddElement

LEMMA OneThreadLess ==
  ASSUME TypeOK, NEW c \in Conns, pc[c] \notin Threadless, Goto(c, "ended")
  PROVE  Cardinality(Threads') = Cardinality(Threads) - 1 /\ Cardinality(Threads) > 0
<1>1. Threads' = Threads \ {c} /\ c \in Threads
  BY DEF TypeOK, Goto, Threads, Threadless
<1>2. Cardinality(Threads') = Cardinality(Threads) - 1
  BY <1>1, ThreadsFinite, FS_RemoveElement
<1>3. Cardinality(Threads) # 0
  BY <1>1, ThreadsFinite, FS_EmptySet
<1> QED BY <1>2, <1>3, ThreadsFinite

\* When main counts no client there is no thread, and gen_mu is free.
LEMMA NoneCounted ==
  ASSUME ServerInv, main = "drain", clients = 0
  PROVE  (\A c \in Conns : pc[c] \in Threadless) /\ gen = Nobody
<1>1. Cardinality(Threads) = 0
  BY ThreadsFinite DEF ServerInv, ClientsCounted
<1>2. Threads = {}
  BY <1>1, ThreadsFinite, FS_EmptySet
<1> QED BY <1>2 DEF Threads, ServerInv, HolderInside, InGeneration, Threadless

LEMMA InitServerInv == Init => ServerInv
<1> SUFFICES ASSUME Init PROVE ServerInv
  OBVIOUS
<1>1. Threads = {}
  BY DEF Init, Threads, Threadless
<1>2. Cardinality(Threads) = 0
  BY <1>1, FS_EmptySet
<1>3. TypeOK
  <2>1. pc \in [Conns -> {"absent"}] /\ replied \in [Conns -> {"nothing"}]
    BY DEF Init
  <2>2. pc \in [Conns -> Threadless \cup {"read", "lock", "locked", "parse", "run",
                                         "unlock", "reply", "done"}]
    BY <2>1 DEF Threadless
  <2>3. replied \in [Conns -> {"nothing", "part", "all"}]
    BY <2>1
  <2>4. signals \in 0..1 /\ clients \in Nat
    BY SMT DEF Init
  <2>5. listening \in BOOLEAN /\ woken \in BOOLEAN
    BY Zenon DEF Init
  <2>6. /\ main = "loop" /\ cur \in Conns \cup {Nobody}
        /\ gen \in Conns \cup {Nobody} /\ refused \in SUBSET Conns
    BY Zenon DEF Init
  <2> QED BY <2>2, <2>3, <2>4, <2>5, <2>6 DEF TypeOK
<1>4. InHand /\ HolderInside /\ SessionExclusive /\ NoUseAfterFree
  BY DEF Init, InHand, HolderInside, SessionExclusive, InGeneration, NoUseAfterFree
<1>5. ClientsCounted
  BY <1>2 DEF Init, ClientsCounted
<1> QED BY <1>3, <1>4, <1>5 DEF ServerInv

(***************************************************************************)
(* Steps that neither create nor end a thread, nor count one.              *)
(***************************************************************************)
LEMMA ConnectKeeps == ASSUME ServerInv, NEW c \in Conns, Connect(c) PROVE ServerInv'
<1>1. Threads' = Threads
  BY DEF Connect, ServerInv, TypeOK, Threads, Threadless
<1> QED BY <1>1 DEF ServerInv, Connect, TypeOK, InHand, HolderInside, SessionExclusive,
                    InGeneration, ClientsCounted, NoUseAfterFree, Threadless

LEMMA SignalsKeep ==
  ASSUME ServerInv, (\E t \in Handlers : FirstSignal(t)) \/ SecondSignal
  PROVE  ServerInv'
<1>1. Threads' = Threads
  BY DEF FirstSignal, SecondSignal, Threads
<1>2. UNCHANGED <<cur, clients, gen, pc, refused, replied>> /\ main' \in {main, "killed"}
  BY DEF FirstSignal, SecondSignal
<1>3. TypeOK'
  <2>1. woken' \in BOOLEAN /\ listening' \in BOOLEAN /\ signals' \in 0..1
    <3>1. CASE SecondSignal
      BY <3>1 DEF SecondSignal, ServerInv, TypeOK
    <3>2. CASE \E t \in Handlers : FirstSignal(t)
      <4>1. woken' \in BOOLEAN
        BY <3>2, Zenon DEF FirstSignal
      <4>2. listening' = FALSE /\ signals' = 1
        BY <3>2, Zenon DEF FirstSignal
      <4>3. signals' \in 0..1
        BY <4>2, SMT
      <4>4. listening' \in BOOLEAN
        BY <4>2, Zenon
      <4> QED BY <4>1, <4>3, <4>4
    <3> QED BY <3>1, <3>2
  <2> QED BY <1>2, <2>1 DEF ServerInv, TypeOK
<1>4. ClientsCounted'
  BY <1>1, <1>2 DEF ServerInv, ClientsCounted
<1>5. InHand' /\ HolderInside' /\ SessionExclusive' /\ NoUseAfterFree'
  BY <1>2 DEF ServerInv, InHand, HolderInside, SessionExclusive, InGeneration, NoUseAfterFree
<1> QED BY <1>3, <1>4, <1>5 DEF ServerInv

LEMMA MainKeeps == ASSUME ServerInv, MainStep PROVE ServerInv'
<1> USE DEF ServerInv, TypeOK, InHand, HolderInside, SessionExclusive, InGeneration,
            ClientsCounted, NoUseAfterFree, MainStays
<1>1. CASE LoopTest \/ CallAccept \/ AcceptError \/ StoreAndFree \/ \E c \in Conns : AcceptConn(c)
  <2>1. Threads' = Threads
    BY <1>1 DEF LoopTest, CallAccept, AcceptError, StoreAndFree, AcceptConn, Threads
  <2> QED BY <1>1, <2>1 DEF LoopTest, CallAccept, AcceptError, StoreAndFree, AcceptConn
<1>2. CASE Drain
  <2>1. Threads' = Threads
    BY <1>2 DEF Drain, Threads
  <2>2. CASE clients = 0
    BY <1>2, <2>1, <2>2, NoneCounted DEF Drain
  <2>3. CASE clients # 0
    <3>1. main' = "wait" /\ main = "drain" /\ listening' = FALSE
      BY <1>2, <2>3 DEF Drain
    <3>2. UNCHANGED <<cur, signals, woken, clients, gen, pc, refused, replied>>
      BY <1>2 DEF Drain
    <3> QED BY <2>1, <3>1, <3>2
  <2> QED BY <2>2, <2>3
<1>3. CASE CountClient
  <2>1. Threads' = Threads
    BY <1>3 DEF CountClient, Threads, Threadless
  <2>2. Cardinality(Threads) \in Nat
    BY ThreadsFinite
  <2>3. CASE Stopping
    BY <1>3, <2>1, <2>3 DEF CountClient, Threadless, Nobody
  <2>4. CASE ~Stopping
    BY <1>3, <2>1, <2>2, <2>4 DEF CountClient
  <2> QED BY <2>3, <2>4
<1>4. CASE CreateThread
  <2> DEFINE k == cur
  <2>1. k \in Conns /\ pc[k] = "backlog"
    BY <1>4 DEF CreateThread
  <2>2. Cardinality(Threads) \in Nat
    BY ThreadsFinite
  <2>3. CASE Goto(k, "read") /\ clients' = clients
    <3>1. Cardinality(Threads') = Cardinality(Threads) + 1
      BY <2>1, <2>3, OneMoreThread DEF Threadless
    <3> QED BY <1>4, <2>1, <2>2, <2>3, <3>1 DEF CreateThread, Goto, Nobody
  <2>4. CASE Goto(k, "closed") /\ clients' = clients - 1
    <3>1. Threads' = Threads
      BY <2>1, <2>4, MovingKeepsThreads DEF Threadless
    <3>2. clients = Cardinality(Threads) + 1
      BY <1>4 DEF CreateThread
    <3>3. clients' \in Nat /\ ClientsCounted'
      BY <1>4, <2>2, <2>4, <3>1, <3>2 DEF CreateThread
    <3> QED BY <1>4, <2>1, <2>4, <3>3 DEF CreateThread, Goto, Nobody, Threadless
  <2> QED BY <1>4, <2>3, <2>4 DEF CreateThread, Goto
<1> QED BY <1>1, <1>2, <1>3, <1>4 DEF MainStep

(***************************************************************************)
(* Client steps: a thread enters a generation only by locking gen_mu, and  *)
(* every path out of one unlocks it.                                       *)
(***************************************************************************)
LEMMA ClientKeeps == ASSUME ServerInv, NEW c \in Conns, ClientStep(c) PROVE ServerInv'
<1> USE DEF ServerInv, TypeOK, InHand, HolderInside, SessionExclusive, InGeneration,
            ClientsCounted, NoUseAfterFree, ThreadStays
<1>0. main \notin {"store", "free", "exited", "killed"} \/ pc[c] \in Threadless
  BY DEF ClientStep, Over
<1>1. CASE ClientDone(c)
  <2>1. Cardinality(Threads') = Cardinality(Threads) - 1 /\ Cardinality(Threads) > 0
    BY <1>1, OneThreadLess DEF ClientDone, Threadless
  <2>2. Cardinality(Threads) \in Nat
    BY ThreadsFinite
  <2>3. main \notin {"store", "free", "exited", "killed"}
    BY <1>0, <1>1 DEF ClientDone, Threadless
  <2>4. clients' = clients - 1 /\ clients' \in Nat
    BY <1>1, <2>1, <2>2, <2>3 DEF ClientDone
  <2>5. ClientsCounted'
    <3>1. CASE main = "wait"
      BY <1>1, <2>1, <2>2, <2>4, <3>1 DEF ClientDone
    <3>2. CASE main # "wait"
      <4>1. main' = main
        BY <1>1, <3>2 DEF ClientDone
      <4> QED BY <2>1, <2>2, <2>3, <2>4, <4>1
    <3> QED BY <3>1, <3>2
  <2>6. pc[c] = "done" /\ Goto(c, "ended") /\ main' \in {main, "drain"}
    BY <1>1 DEF ClientDone
  <2>7. UNCHANGED <<cur, signals, listening, woken, gen, refused, replied>>
    BY <1>1 DEF ClientDone
  <2>8. InHand' /\ HolderInside' /\ SessionExclusive' /\ NoUseAfterFree'
    BY <2>3, <2>6, <2>7 DEF Goto
  <2>9. TypeOK'
    BY <2>4, <2>6, <2>7 DEF Goto, Threadless
  <2> QED BY <2>5, <2>8, <2>9
<1>2. CASE ReadRequest(c) \/ LockGen(c) \/ TestStop(c) \/ ParseRequest(c) \/ Run(c)
           \/ UnlockGen(c) \/ Reply(c)
  <2>2. pc[c] \notin Threadless
    BY <1>2 DEF ReadRequest, LockGen, TestStop, ParseRequest, Run, UnlockGen, Reply, Threadless
  <2>1. main \notin {"store", "free", "exited", "killed"}
    BY <1>0, <2>2
  <2>3. pc' = pc \/ \E where \in {"lock", "reply", "locked", "parse", "run", "unlock", "done"} :
                       Goto(c, where)
    BY <1>2 DEF ReadRequest, LockGen, TestStop, ParseRequest, Run, UnlockGen, Reply
  <2>4. Threads' = Threads
    <3>1. CASE pc' = pc
      BY <3>1 DEF Threads
    <3>2. ASSUME NEW where \in {"lock", "reply", "locked", "parse", "run", "unlock", "done"},
                 Goto(c, where)
          PROVE  Threads' = Threads
      BY <2>2, <3>2, MovingKeepsThreads DEF Threadless
    <3> QED BY <2>3, <3>1, <3>2
  <2>5. UNCHANGED <<main, cur, signals, listening, woken, clients>>
    BY <1>2 DEF ReadRequest, LockGen, TestStop, ParseRequest, Run, UnlockGen, Reply
  <2>6. ClientsCounted' /\ NoUseAfterFree'
    BY <2>1, <2>4, <2>5
  <2>7. InHand'
    BY <2>2, <2>3, <2>5 DEF Goto, Threadless
  <2>8. TypeOK'
    <3>1. pc' \in [Conns -> Threadless \cup {"read", "lock", "locked", "parse", "run",
                                             "unlock", "reply", "done"}]
      BY <2>3 DEF Goto
    <3>2. gen' \in Conns \cup {Nobody} /\ refused' \in SUBSET Conns
      BY <1>2 DEF ReadRequest, LockGen, TestStop, ParseRequest, Run, UnlockGen, Reply
    <3>3. replied' \in [Conns -> {"nothing", "part", "all"}]
      BY <1>2 DEF ReadRequest, LockGen, TestStop, ParseRequest, Run, UnlockGen, Reply
    <3> QED BY <2>5, <3>1, <3>2, <3>3
  <2>9. HolderInside' /\ SessionExclusive'
    <3>1. CASE ReadRequest(c)
      BY <3>1 DEF ReadRequest, Goto
    <3>2. CASE LockGen(c)
      BY <3>2, ServerAssumption DEF LockGen, Goto, Nobody
    <3>3. CASE TestStop(c)
      BY <3>3, ServerAssumption DEF TestStop, Goto, Nobody
    <3>4. CASE ParseRequest(c)
      BY <3>4, ServerAssumption DEF ParseRequest, Goto, Nobody
    <3>5. CASE Run(c)
      BY <3>5 DEF Run, Goto
    <3>6. CASE UnlockGen(c)
      BY <3>6, ServerAssumption DEF UnlockGen, Goto, Nobody
    <3>7. CASE Reply(c)
      BY <3>7 DEF Reply, Goto
    <3> QED BY <1>2, <3>1, <3>2, <3>3, <3>4, <3>5, <3>6, <3>7
  <2> QED BY <2>6, <2>7, <2>8, <2>9
<1> QED BY <1>1, <1>2 DEF ClientStep

LEMMA NextServerInv == ServerInv /\ [Next]_vars => ServerInv'
<1> SUFFICES ASSUME ServerInv, [Next]_vars PROVE ServerInv'
  OBVIOUS
<1>1. CASE UNCHANGED vars
  <2>1. Threads' = Threads
    BY <1>1 DEF vars, Threads
  <2> QED BY <1>1, <2>1 DEF vars, ServerInv, TypeOK, InHand, HolderInside, SessionExclusive,
                            InGeneration, ClientsCounted, NoUseAfterFree
<1>2. CASE Next /\ ~UNCHANGED vars
  BY <1>2, ConnectKeeps, SignalsKeep, MainKeeps, ClientKeeps DEF Next, Finished
<1> QED BY <1>1, <1>2

\* Everything the safety run checks is part of one inductive invariant.
THEOREM ServerInvariant == Spec => []ServerInv
BY InitServerInv, NextServerInv, PTL DEF Spec

\* gen_mu keeps the session to one thread.
THEOREM OneThreadUsesTheSession == Spec => []SessionExclusive
<1>1. ServerInv => SessionExclusive
  BY DEF ServerInv
<1> QED BY <1>1, ServerInvariant, PTL

\* The count that the drain waits for is exact.
THEOREM CountIsExact == Spec => []ClientsCounted
<1>1. ServerInv => ClientsCounted
  BY DEF ServerInv
<1> QED BY <1>1, ServerInvariant, PTL

\* Nothing is stored or freed while a client thread is left.
THEOREM TeardownIsSafe == Spec => []NoUseAfterFree
<1>1. ServerInv => NoUseAfterFree
  BY DEF ServerInv
<1> QED BY <1>1, ServerInvariant, PTL

-----------------------------------------------------------------------------
(* Numbers.                                                                *)

LEMMA Smallest ==
  ASSUME NEW V, V \subseteq Nat, V # {}
  PROVE  \E v \in V : \A w \in V : v <= w
<1>1. IsWellFoundedOn(OpToRel(<, Nat), Nat)
  BY NatLessThanWellFounded
<1>2. PICK v \in V : \A w \in V : ~(<<w, v>> \in OpToRel(<, Nat))
  BY <1>1, WFMin
<1>3. \A w \in V : w \in Nat /\ v \in Nat /\ ~(w < v)
  BY <1>2 DEF OpToRel
<1> QED BY <1>3

\* Induction, stated for a set of numbers.
LEMMA StepByStep ==
  ASSUME NEW P, 0 \in P, \A n \in Nat : n \in P => n + 1 \in P
  PROVE  Nat \subseteq P
<1> DEFINE V == Nat \ P
<1>1. SUFFICES ASSUME V # {} PROVE FALSE
  OBVIOUS
<1>2. PICK v \in V : \A w \in V : v <= w
  BY <1>1, Smallest
<1>3. v # 0 /\ v \in Nat /\ v \notin P
  OBVIOUS
<1>4. v - 1 \in Nat /\ v - 1 \notin V
  BY <1>2, <1>3
<1> QED BY <1>3, <1>4

LEMMA MinIs ==
  ASSUME NEW S, S \subseteq Nat, S # {}
  PROVE  Min(S) \in S /\ \A x \in S : Min(S) <= x
<1>1. \E x \in S : \A y \in S : x <= y
  BY Smallest
<1> QED BY <1>1 DEF Min

\* The largest element of a finite set of numbers.
LEMMA MaxIs ==
  ASSUME NEW S, IsFiniteSet(S), S \subseteq Nat, S # {}
  PROVE  Max(S) \in S /\ \A x \in S : x <= Max(S)
<1> DEFINE P == {n \in Nat : \A U \in SUBSET S :
                   Cardinality(U) = n /\ U # {} => \E m \in U : \A x \in U : x <= m}
<1>1. 0 \in P
  <2>1. \A U \in SUBSET S : IsFiniteSet(U)
    BY FS_Subset
  <2> QED BY <2>1, FS_EmptySet
<1>2. ASSUME NEW n \in Nat, n \in P PROVE n + 1 \in P
  <2>1. SUFFICES ASSUME NEW U \in SUBSET S, Cardinality(U) = n + 1, U # {}
                 PROVE  \E m \in U : \A x \in U : x <= m
    OBVIOUS
  <2>2. PICK u : u \in U
    BY <2>1
  <2>3. IsFiniteSet(U)
    BY FS_Subset
  <2>4. Cardinality(U \ {u}) = n /\ U \ {u} \in SUBSET S
    <3>1. Cardinality(U \ {u}) = Cardinality(U) - 1
      BY <2>2, <2>3, FS_RemoveElement
    <3>2. (n + 1) - 1 = n
      OBVIOUS
    <3>3. U \ {u} \in SUBSET S
      OBVIOUS
    <3> QED BY <2>1, <3>1, <3>2, <3>3
  <2>5. CASE U \ {u} = {}
    <3>1. \A x \in U : x = u
      BY <2>5
    <3> QED BY <2>2, <3>1
  <2>6. CASE U \ {u} # {}
    <3>1. PICK m \in U \ {u} : \A x \in U \ {u} : x <= m
      BY <1>2, <2>4, <2>6
    <3>2. CASE u <= m
      BY <3>1, <3>2
    <3>3. CASE ~(u <= m)
      <4>1. \A x \in U : x <= u
        BY <2>2, <3>1, <3>3
      <4> QED BY <2>2, <4>1
    <3> QED BY <3>2, <3>3
  <2> QED BY <2>5, <2>6
<1> HIDE DEF P
<1>3. Cardinality(S) \in P
  BY <1>1, <1>2, StepByStep, FS_CardinalityType
<1>4. PICK m \in S : \A x \in S : x <= m
  BY <1>3 DEF P
<1>5. \E x \in S : \A y \in S : x >= y
  BY <1>4
<1>6. Max(S) \in S /\ \A y \in S : Max(S) >= y
  BY <1>5 DEF Max
<1> QED BY <1>6

-----------------------------------------------------------------------------
(* Sequences of events, whatever they carry.                               *)

Sequence(w) == \E S : w \in Seq(S)

LEMMA Joined ==
  ASSUME NEW v, NEW w, Sequence(v), Sequence(w)
  PROVE  /\ Sequence(v \o w) /\ Len(v \o w) = Len(v) + Len(w)
         /\ Len(v) \in Nat /\ Len(w) \in Nat
         /\ DOMAIN v = 1..Len(v) /\ DOMAIN (v \o w) = 1..(Len(v) + Len(w))
         /\ \A i \in 1..Len(v) : (v \o w)[i] = v[i]
         /\ \A i \in 1..Len(w) : (v \o w)[Len(v) + i] = w[i]
<1>1. PICK S : v \in Seq(S)
  BY DEF Sequence
<1>2. PICK R : w \in Seq(R)
  BY DEF Sequence
<1>3. v \in Seq(S \cup R) /\ w \in Seq(S \cup R)
  BY <1>1, <1>2
<1>4. v \o w \in Seq(S \cup R)
  BY <1>3
<1> QED BY <1>3, <1>4 DEF Sequence

LEMMA Single ==
  ASSUME NEW e
  PROVE  Sequence(<<e>>) /\ Len(<<e>>) = 1 /\ <<e>>[1] = e
<1>1. <<e>> \in Seq({e})
  OBVIOUS
<1> QED BY <1>1 DEF Sequence

LEMMA Nothing ==
  ASSUME NEW w, Sequence(w)
  PROVE  Sequence(<<>>) /\ w \o <<>> = w /\ <<>> \o w = w
<1>1. PICK S : w \in Seq(S)
  BY DEF Sequence
<1>2. <<>> \in Seq(S)
  OBVIOUS
<1> QED BY <1>1, <1>2 DEF Sequence

LEMMA AppendIs ==
  ASSUME NEW w, Sequence(w), NEW e
  PROVE  Append(w, e) = w \o <<e>>
<1>1. PICK S : w \in Seq(S)
  BY DEF Sequence
<1>2. w \in Seq(S \cup {e}) /\ e \in S \cup {e}
  BY <1>1
<1> QED BY <1>2

LEMMA Regroup ==
  ASSUME NEW u, NEW v, NEW w, Sequence(u), Sequence(v), Sequence(w)
  PROVE  u \o (v \o w) = (u \o v) \o w
<1>1. PICK S : u \in Seq(S)
  BY DEF Sequence
<1>2. PICK R : v \in Seq(R)
  BY DEF Sequence
<1>3. PICK T : w \in Seq(T)
  BY DEF Sequence
<1>4. /\ u \in Seq(S \cup R \cup T) /\ v \in Seq(S \cup R \cup T)
      /\ w \in Seq(S \cup R \cup T)
  BY <1>1, <1>2, <1>3
<1> QED BY <1>4

LEMMA Begun ==
  ASSUME NEW w, Sequence(w), NEW k \in 0..Len(w)
  PROVE  /\ Sequence(SubSeq(w, 1, k)) /\ Len(SubSeq(w, 1, k)) = k
         /\ \A i \in 1..k : SubSeq(w, 1, k)[i] = w[i]
<1>1. PICK S : w \in Seq(S)
  BY DEF Sequence
<1>2. SubSeq(w, 1, k) \in Seq(S)
  BY <1>1
<1> QED BY <1>1, <1>2 DEF Sequence

-----------------------------------------------------------------------------
(* What a client has heard depends on the events so far.                   *)

Heeds(c, w, n) ==
  c[0] = NothingHeard /\ \A i \in 1..n : c[i] = Heard(c[i - 1], w[i])

LEMMA ClientIs ==
  ASSUME NEW w, Sequence(w)
  PROVE  Heeds(Client(w), w, Len(w))
<1> DEFINE P == {n \in Nat : \E c : DOMAIN c = 0..n /\ c = [i \in 0..n |-> c[i]] /\ Heeds(c, w, n)}
<1>1. 0 \in P
  <2> DEFINE e == [i \in 0..0 |-> NothingHeard]
  <2>1. DOMAIN e = 0..0 /\ e = [i \in 0..0 |-> e[i]] /\ Heeds(e, w, 0)
    BY DEF Heeds
  <2> QED BY <2>1
<1>2. ASSUME NEW n \in Nat, n \in P PROVE n + 1 \in P
  <2>1. PICK c : DOMAIN c = 0..n /\ Heeds(c, w, n)
    BY <1>2
  <2> DEFINE last == Heard(c[n], w[n + 1])
             g == [i \in 0..(n + 1) |-> IF i <= n THEN c[i] ELSE last]
  <2> HIDE DEF last
  <2>2. DOMAIN g = 0..(n + 1) /\ g = [i \in 0..(n + 1) |-> g[i]]
    OBVIOUS
  <2>3. (\A i \in 0..n : g[i] = c[i]) /\ g[n + 1] = last
    OBVIOUS
  <2> HIDE DEF g
  <2>4. g[0] = NothingHeard
    BY <2>1, <2>3 DEF Heeds
  <2>5. ASSUME NEW i \in 1..(n + 1) PROVE g[i] = Heard(g[i - 1], w[i])
    <3>1. g[i - 1] = c[i - 1]
      BY <2>3
    <3>2. CASE i = n + 1
      BY <2>3, <3>1, <3>2 DEF last
    <3>3. CASE i # n + 1
      <4>1. i \in 1..n /\ i \in 0..n
        BY <3>3
      <4> QED BY <2>1, <2>3, <3>1, <4>1 DEF Heeds
    <3> QED BY <3>2, <3>3
  <2>6. Heeds(g, w, n + 1)
    BY <2>4, <2>5 DEF Heeds
  <2> QED BY <2>2, <2>6
<1> HIDE DEF P
<1>3. Len(w) \in P
  <2>1. Len(w) \in Nat
    BY DEF Sequence
  <2> QED BY <1>1, <1>2, <2>1, StepByStep
<1>4. PICK c : c = [i \in 0..Len(w) |-> c[i]] /\ Heeds(c, w, Len(w))
  BY <1>3 DEF P
<1>5. Len(w) \in Nat
  BY DEF Sequence
<1>6. \A i \in 0..Len(w) : c[i] = IF i = 0 THEN NothingHeard ELSE Heard(c[i - 1], w[i])
  BY <1>4, <1>5 DEF Heeds
<1>7. c = [i \in 0..Len(w) |-> IF i = 0 THEN NothingHeard ELSE Heard(c[i - 1], w[i])]
  BY <1>4, <1>6
<1>8. Client(w) = [i \in 0..Len(w) |->
                     IF i = 0 THEN NothingHeard ELSE Heard(Client(w)[i - 1], w[i])]
  BY <1>7 DEF Client
<1>9. \A i \in 1..Len(w) : i \in 0..Len(w) /\ i # 0
  BY <1>5
<1> QED BY <1>5, <1>8, <1>9 DEF Heeds

\* Two clients that read the same first n events.
LEMMA SameBeginning ==
  ASSUME NEW v, NEW w, Sequence(v), Sequence(w),
         NEW n \in Nat, n <= Len(v), n <= Len(w),
         \A i \in 1..n : v[i] = w[i]
  PROVE  \A i \in 0..n : Client(v)[i] = Client(w)[i]
<1> DEFINE P == {i \in Nat : i <= n => Client(v)[i] = Client(w)[i]}
<1>0. Heeds(Client(v), v, Len(v)) /\ Heeds(Client(w), w, Len(w))
  BY ClientIs
<1>a. Len(v) \in Nat /\ Len(w) \in Nat
  BY DEF Sequence
<1>1. 0 \in P
  BY <1>0 DEF Heeds
<1>2. ASSUME NEW i \in Nat, i \in P PROVE i + 1 \in P
  <2>1. SUFFICES ASSUME i + 1 <= n PROVE Client(v)[i + 1] = Client(w)[i + 1]
    OBVIOUS
  <2>2. i + 1 \in 1..n /\ i + 1 \in 1..Len(v) /\ i + 1 \in 1..Len(w) /\ (i + 1) - 1 = i
    BY <1>a, <2>1
  <2>3. Client(v)[i] = Client(w)[i] /\ v[i + 1] = w[i + 1]
    BY <1>2, <2>1, <2>2
  <2>4. Client(v)[i + 1] = Heard(Client(v)[i], v[i + 1])
    BY <1>0, <2>2 DEF Heeds
  <2>5. Client(w)[i + 1] = Heard(Client(w)[i], w[i + 1])
    BY <1>0, <2>2 DEF Heeds
  <2> QED BY <2>3, <2>4, <2>5
<1> HIDE DEF P
<1>3. Nat \subseteq P
  BY <1>1, <1>2, StepByStep
<1>4. ASSUME NEW i \in 0..n PROVE Client(v)[i] = Client(w)[i]
  <2>1. i \in Nat /\ i <= n
    OBVIOUS
  <2> QED BY <1>3, <2>1 DEF P
<1> QED BY <1>4

Now(w) == Client(w)[Len(w)]

\* One more event.
LEMMA OneMoreEvent ==
  ASSUME NEW w, Sequence(w), NEW e
  PROVE  /\ Sequence(w \o <<e>>) /\ Len(w \o <<e>>) = Len(w) + 1
         /\ (w \o <<e>>)[Len(w) + 1] = e
         /\ \A i \in 1..Len(w) : (w \o <<e>>)[i] = w[i]
         /\ \A i \in 0..Len(w) : Client(w \o <<e>>)[i] = Client(w)[i]
         /\ Now(w \o <<e>>) = Heard(Now(w), e)
<1> DEFINE v == w \o <<e>>
<1>1. Sequence(<<e>>) /\ Len(<<e>>) = 1 /\ <<e>>[1] = e
  BY Single
<1>2. /\ Sequence(v) /\ Len(v) = Len(w) + 1 /\ Len(w) \in Nat /\ v[Len(w) + 1] = e
      /\ \A i \in 1..Len(w) : v[i] = w[i]
  BY <1>1, Joined
<1> HIDE DEF v
<1>3. \A i \in 0..Len(w) : Client(v)[i] = Client(w)[i]
  BY <1>2, SameBeginning
<1>4. Heeds(Client(v), v, Len(w) + 1)
  BY <1>2, ClientIs
<1>5. /\ Len(w) + 1 \in 1..(Len(w) + 1) /\ (Len(w) + 1) - 1 = Len(w)
      /\ Len(w) \in 0..Len(w)
  BY <1>2
<1>6. Client(v)[Len(w) + 1] = Heard(Client(v)[Len(w)], v[Len(w) + 1])
  BY <1>4, <1>5 DEF Heeds
<1>7. Client(v)[Len(w) + 1] = Heard(Now(w), e)
  BY <1>2, <1>3, <1>5, <1>6 DEF Now
<1>8. Now(v) = Heard(Now(w), e)
  BY <1>2, <1>7 DEF Now
<1> QED BY <1>2, <1>3, <1>8 DEF v

-----------------------------------------------------------------------------
(* The server's stream and the client's reading of it.                     *)

AllPlaced(w) == \A i \in 1..Len(w) : Placed(Client(w)[i - 1], w[i])
NoEnd(w) == \A i \in 1..Len(w) : w[i].ev \notin {"end", "error"}
Framed(w) ==
  AllPlaced(w) /\ \A i \in 1..Len(w) : w[i].ev \in {"end", "error"} => i = Len(w)

\* A record with the fields of a live stream, or of a client.
Fields == {"mode", "checked", "pos", "item", "next", "text"}
Shape(st) == DOMAIN st = Fields /\ st = [f \in Fields |-> st[f]]

Heeded == {"item", "next", "text"}
Reader(c) == DOMAIN c = Heeded /\ c = [f \in Heeded |-> c[f]]

Together(c, st) ==
  /\ Reader(c)
  /\ c.item = st.item /\ c.next = st.next
  /\ c.item # "none" => c.text = st.text

\* w has been sent by a live stream that stands at st.
Good(w, st) ==
  /\ Sequence(w) /\ AllPlaced(w) /\ NoEnd(w)
  /\ Shape(st) /\ st.next \in Nat /\ Together(Now(w), st)

LEMMA PlacedNext ==
  ASSUME NEW w, Sequence(w), AllPlaced(w), NEW e, Placed(Now(w), e)
  PROVE  AllPlaced(w \o <<e>>)
<1> DEFINE v == w \o <<e>>
<1>1. /\ Len(v) = Len(w) + 1 /\ v[Len(w) + 1] = e
      /\ \A i \in 1..Len(w) : v[i] = w[i]
      /\ \A i \in 0..Len(w) : Client(v)[i] = Client(w)[i]
  BY OneMoreEvent
<1>2. Len(w) \in Nat
  BY DEF Sequence
<1> HIDE DEF v
<1>3. ASSUME NEW i \in 1..Len(v) PROVE Placed(Client(v)[i - 1], v[i])
  <2>1. CASE i \in 1..Len(w)
    <3>1. i - 1 \in 0..Len(w)
      BY <1>2, <2>1
    <3> QED BY <1>1, <2>1, <3>1 DEF AllPlaced
  <2>2. CASE i = Len(w) + 1
    <3>1. i - 1 = Len(w) /\ Len(w) \in 0..Len(w)
      BY <1>2, <2>2
    <3>2. Client(v)[i - 1] = Now(w)
      BY <1>1, <3>1 DEF Now
    <3> QED BY <1>1, <2>2, <3>2
  <2> QED BY <1>1, <1>2, <2>1, <2>2
<1>4. AllPlaced(v)
  BY <1>3 DEF AllPlaced
<1> QED BY <1>4 DEF v

LEMMA GoodNext ==
  ASSUME NEW w, NEW st, Good(w, st), NEW e, Placed(Now(w), e),
         e.ev \notin {"end", "error"},
         NEW t, Shape(t), t.next \in Nat, Together(Heard(Now(w), e), t)
  PROVE  Good(w \o <<e>>, t)
<1> DEFINE v == w \o <<e>>
<1>1. Sequence(w) /\ AllPlaced(w) /\ NoEnd(w)
  BY DEF Good
<1>2. /\ Sequence(v) /\ Len(v) = Len(w) + 1 /\ v[Len(w) + 1] = e
      /\ \A i \in 1..Len(w) : v[i] = w[i]
      /\ Now(v) = Heard(Now(w), e)
  BY <1>1, OneMoreEvent
<1>3. AllPlaced(v)
  BY <1>1, PlacedNext
<1>4. Len(w) \in Nat
  BY <1>1 DEF Sequence
<1> HIDE DEF v
<1>5. ASSUME NEW i \in 1..Len(v) PROVE v[i].ev \notin {"end", "error"}
  <2>1. CASE i \in 1..Len(w)
    BY <1>1, <1>2, <2>1 DEF NoEnd
  <2>2. CASE i = Len(w) + 1
    BY <1>2, <2>2
  <2> QED BY <1>2, <1>4, <2>1, <2>2
<1>6. Good(v, t)
  BY <1>2, <1>3, <1>5 DEF Good, NoEnd
<1> QED BY <1>6 DEF v

\* The step r of a stream that has sent w.
Moves(w, r) == Sequence(r.events) /\ Good(w \o r.events, r.st)

LEMMA QuietMoves ==
  ASSUME NEW w, NEW st, Good(w, st)
  PROVE  Moves(w, Quiet(st)) /\ Quiet(st).st = st
<1>1. Sequence(w)
  BY DEF Good
<1>2. Sequence(<<>>) /\ w \o <<>> = w
  BY <1>1, Nothing
<1> QED BY <1>2 DEF Moves, Quiet

LEMMA MovesTwice ==
  ASSUME NEW w, Sequence(w), NEW r, NEW q, Moves(w, r), Moves(w \o r.events, q)
  PROVE  Sequence(r.events \o q.events) /\ Good(w \o (r.events \o q.events), q.st)
<1> DEFINE a == r.events
           b == q.events
<1>1. Sequence(a) /\ Sequence(b) /\ Good((w \o a) \o b, q.st)
  BY DEF Moves
<1> HIDE DEF a, b
<1>2. Sequence(a \o b)
  BY <1>1, Joined
<1>3. w \o (a \o b) = (w \o a) \o b
  BY <1>1, Regroup
<1>4. Sequence(a \o b) /\ Good(w \o (a \o b), q.st)
  BY <1>1, <1>2, <1>3
<1> QED BY <1>4 DEF a, b

\* A stream may change everything but its item.
LEMMA GoodElsewhere ==
  ASSUME NEW w, NEW st, Good(w, st), NEW mode, NEW checked, NEW pos
  PROVE  /\ Good(w, [st EXCEPT !.mode = mode, !.checked = checked, !.pos = pos])
         /\ Good(w, [st EXCEPT !.mode = mode, !.pos = pos])
<1>1. Shape(st) /\ Together(Now(w), st)
  BY DEF Good
<1> DEFINE t == [st EXCEPT !.mode = mode, !.checked = checked, !.pos = pos]
           u == [st EXCEPT !.mode = mode, !.pos = pos]
<1>2. Shape(t) /\ t.item = st.item /\ t.next = st.next /\ t.text = st.text
  BY <1>1 DEF Shape, Fields
<1>3. Shape(u) /\ u.item = st.item /\ u.next = st.next /\ u.text = st.text
  BY <1>1 DEF Shape, Fields
<1> HIDE DEF t, u
<1>4. Good(w, t) /\ Good(w, u)
  BY <1>2, <1>3 DEF Good, Together
<1> QED BY <1>4 DEF t, u

Paired == req.api \in {"responses", "anthropic"}

LEMMA OpenMoves ==
  ASSUME NEW w, NEW st, Good(w, st), Paired, NEW item, item # "none",
         st.item \in {"none", item}
  PROVE  /\ Moves(w, OpenItem(st, item))
         /\ OpenItem(st, item).st.item = item
         /\ OpenItem(st, item).st.mode = st.mode
<1>1. CASE st.item = item
  <2>1. OpenItem(st, item) = Quiet(st)
    BY <1>1 DEF OpenItem
  <2> QED BY <1>1, <2>1, QuietMoves
<1>2. CASE st.item # item
  <2> DEFINE e == Event("added", item, st.next, <<>>, "in_progress")
             t == [st EXCEPT !.item = item, !.next = @ + 1, !.text = <<>>]
  <2>1. st.item = "none" /\ Shape(st) /\ st.next \in Nat /\ Together(Now(w), st)
    BY <1>2 DEF Good
  <2>2. Shape(t) /\ t.item = item /\ t.next = st.next + 1 /\ t.text = <<>> /\ t.mode = st.mode
    BY <2>1 DEF Shape, Fields
  <2>3. /\ e.ev = "added" /\ e.item = item /\ e.idx = st.next
    BY DEF Event
  <2>4. OpenItem(st, item) = [st |-> t, events |-> <<e>>]
    BY <1>2 DEF OpenItem, Paired
  <2> HIDE DEF e, t
  <2>5. Placed(Now(w), e)
    BY <2>1, <2>3 DEF Placed, Together
  <2>6. Heard(Now(w), e) = [item |-> item, next |-> st.next + 1, text |-> <<>>]
    BY <2>1, <2>3 DEF Heard, Together
  <2>7. Together(Heard(Now(w), e), t)
    BY <2>2, <2>6 DEF Together, Reader, Heeded
  <2>8. Good(w \o <<e>>, t)
    <3>1. t.next \in Nat
      BY <2>1, <2>2
    <3> QED BY <2>2, <2>3, <2>5, <2>7, <3>1, GoodNext
  <2>9. Sequence(<<e>>)
    BY Single
  <2> QED BY <2>2, <2>4, <2>8, <2>9 DEF Moves
<1> QED BY <1>1, <1>2

LEMMA DeltaMoves ==
  ASSUME NEW w, NEW st, Good(w, st), Paired, NEW item, item # "none",
         st.item \in {"none", item}, NEW out
  PROVE  /\ Moves(w, Delta(st, item, out))
         /\ Delta(st, item, out).st.item = item
         /\ Delta(st, item, out).st.mode = st.mode
<1> DEFINE o == OpenItem(st, item)
           a == o.events
           s == o.st
           e == Event("delta", item, s.next - 1, out, "in_progress")
           t == [s EXCEPT !.text = @ \o out]
           v == w \o a
<1>1. Sequence(a) /\ Good(v, s) /\ s.item = item /\ s.mode = st.mode
  BY OpenMoves DEF Moves
<1>2. Delta(st, item, out) = [st |-> t, events |-> Append(a, e)]
  BY DEF Delta
<1>3. e.ev = "delta" /\ e.item = item /\ e.idx = s.next - 1 /\ e.text = out
  BY DEF Event
<1> HIDE DEF o, a, s, e, v
<1>4. Shape(s) /\ s.next \in Nat /\ Together(Now(v), s)
  BY <1>1 DEF Good
<1>5. /\ Shape(t) /\ t.item = item /\ t.mode = st.mode /\ t.next = s.next
      /\ t.text = s.text \o out
  BY <1>1, <1>4 DEF Shape, Fields
<1> HIDE DEF t
<1>6. Placed(Now(v), e)
  BY <1>1, <1>3, <1>4 DEF Placed, Together
<1>7. Together(Heard(Now(v), e), t)
  <2>1. Heard(Now(v), e) = [Now(v) EXCEPT !.text = @ \o e.text]
    BY <1>3 DEF Heard
  <2>2. Reader(Now(v)) /\ Now(v).item = item /\ Now(v).next = s.next /\ Now(v).text = s.text
    BY <1>1, <1>4 DEF Together
  <2>3. /\ Reader(Heard(Now(v), e)) /\ Heard(Now(v), e).item = item
        /\ Heard(Now(v), e).next = s.next /\ Heard(Now(v), e).text = s.text \o out
    BY <1>3, <2>1, <2>2 DEF Reader, Heeded
  <2> QED BY <1>5, <2>3 DEF Together
<1>8. Good(v \o <<e>>, t)
  BY <1>1, <1>3, <1>4, <1>5, <1>6, <1>7, GoodNext
<1>9. Sequence(w) /\ Sequence(<<e>>)
  BY Single DEF Good
<1>10. /\ Append(a, e) = a \o <<e>> /\ Sequence(a \o <<e>>)
       /\ w \o (a \o <<e>>) = v \o <<e>>
  BY <1>1, <1>9, AppendIs, Joined, Regroup DEF v
<1> DEFINE all == a \o <<e>>
<1>11. Delta(st, item, out) = [st |-> t, events |-> all]
  BY <1>2, <1>10
<1>12. Sequence(all) /\ Good(w \o all, t)
  BY <1>8, <1>10
<1> HIDE DEF all
<1> QED BY <1>5, <1>11, <1>12 DEF Moves

LEMMA EmitMoves ==
  ASSUME NEW w, NEW st, Good(w, st), Paired, NEW item, item # "none",
         st.item \in {"none", item}, NEW out
  PROVE  /\ Moves(w, Emit(st, item, out))
         /\ Emit(st, item, out).st.item \in {"none", item}
         /\ Emit(st, item, out).st.mode = st.mode
<1>1. CASE out = <<>> \/ (item = "reasoning" /\ req.api = "responses" /\ ~req.emit)
  <2>1. Emit(st, item, out) = Quiet(st)
    BY <1>1 DEF Emit
  <2> QED BY <2>1, QuietMoves
<1>2. CASE ~(out = <<>> \/ (item = "reasoning" /\ req.api = "responses" /\ ~req.emit))
  <2>1. Emit(st, item, out) = Delta(st, item, out)
    BY <1>2 DEF Emit
  <2> QED BY <2>1, DeltaMoves
<1> QED BY <1>1, <1>2

LEMMA EndMoves ==
  ASSUME NEW w, NEW st, Good(w, st), NEW status
  PROVE  /\ Moves(w, EndItem(st, status))
         /\ EndItem(st, status).st.item = "none"
         /\ EndItem(st, status).st.mode = st.mode
<1>1. CASE st.item = "none"
  <2>1. EndItem(st, status) = Quiet(st)
    BY <1>1 DEF EndItem
  <2> QED BY <1>1, <2>1, QuietMoves
<1>2. CASE st.item # "none"
  <2> DEFINE e == Event("done", st.item, st.next - 1, st.text, status)
             t == [st EXCEPT !.item = "none"]
  <2>1. EndItem(st, status) = [st |-> t, events |-> <<e>>]
    BY <1>2 DEF EndItem
  <2>2. Shape(st) /\ st.next \in Nat /\ Together(Now(w), st)
    BY DEF Good
  <2>3. /\ e.ev = "done" /\ e.item = st.item /\ e.idx = st.next - 1
        /\ e.text = st.text
    BY DEF Event
  <2>4. Shape(t) /\ t.item = "none" /\ t.mode = st.mode /\ t.next = st.next
    BY <2>2 DEF Shape, Fields
  <2> HIDE DEF e, t
  <2>5. Placed(Now(w), e)
    BY <1>2, <2>2, <2>3 DEF Placed, Together
  <2>6. Together(Heard(Now(w), e), t)
    <3>1. Heard(Now(w), e) = [Now(w) EXCEPT !.item = "none"]
      BY <2>3 DEF Heard
    <3>2. /\ Reader(Heard(Now(w), e)) /\ Heard(Now(w), e).item = "none"
          /\ Heard(Now(w), e).next = st.next
      BY <2>2, <3>1 DEF Together, Reader, Heeded
    <3> QED BY <2>4, <3>2 DEF Together
  <2>7. Good(w \o <<e>>, t)
    BY <2>2, <2>3, <2>4, <2>5, <2>6, GoodNext
  <2>8. Sequence(<<e>>)
    BY Single
  <2> QED BY <2>1, <2>4, <2>7, <2>8 DEF Moves
<1> QED BY <1>1, <1>2

-----------------------------------------------------------------------------
(* One update: the reasoning, then the text.                               *)

\* The item a stream may have open depends on its mode.
Fit(st) ==
  /\ st.mode \in {"thinking", "text", "suppress"}
  /\ st.mode = "thinking" => st.item \in {"none", "reasoning"}
  /\ st.mode = "text" => st.item \in {"none", "message"}
  /\ st.mode = "suppress" => st.item = "none"

LEMMA ThoughtMoves ==
  ASSUME NEW w, NEW st, Good(w, st), Paired, st.item \in {"none", "reasoning"},
         NEW think, think.mode \in {"thinking", "text", "suppress"}
  PROVE  /\ Moves(w, Thought(st, think)) /\ Fit(Thought(st, think).st)
         /\ Thought(st, think).st.mode = think.mode
         /\ think.mode # "thinking" => Thought(st, think).st.item = "none"
<1> DEFINE r1 == Emit(st, "reasoning", think.out)
           r2 == IF think.mode = "thinking" THEN Quiet(r1.st)
                 ELSE EndItem(r1.st, IF think.mode = "text" THEN "completed" ELSE "incomplete")
           t == [r2.st EXCEPT !.mode = think.mode, !.checked = think.checked,
                              !.pos = think.pos]
<1>1. Thought(st, think) = [st |-> t, events |-> r1.events \o r2.events]
  BY DEF Thought
<1>2. Moves(w, r1) /\ r1.st.item \in {"none", "reasoning"}
  BY EmitMoves
<1>3. Good(w \o r1.events, r1.st)
  BY <1>2 DEF Moves
<1>4. /\ Moves(w \o r1.events, r2) /\ r2.st.item \in {"none", "reasoning"}
      /\ think.mode # "thinking" => r2.st.item = "none"
  BY <1>2, <1>3, QuietMoves, EndMoves
<1>5. Sequence(w)
  BY DEF Good
<1> HIDE DEF r1, r2
<1>6. Sequence(r1.events \o r2.events) /\ Good(w \o (r1.events \o r2.events), r2.st)
  BY <1>2, <1>4, <1>5, MovesTwice
<1>7. Good(w \o (r1.events \o r2.events), t)
  BY <1>6, GoodElsewhere
<1>8. Shape(r2.st)
  BY <1>6 DEF Good
<1>9. t.mode = think.mode /\ t.item = r2.st.item
  BY <1>8 DEF Shape, Fields
<1> HIDE DEF t
<1> QED BY <1>1, <1>4, <1>6, <1>7, <1>9 DEF Moves, Fit

LEMMA SpokenMoves ==
  ASSUME NEW w, NEW st, Good(w, st), Paired, st.item \in {"none", "message"},
         NEW text, text.mode \in {"text", "suppress"}, NEW status
  PROVE  /\ Moves(w, Spoken(st, text, status)) /\ Fit(Spoken(st, text, status).st)
         /\ Spoken(st, text, status).st.mode = text.mode
<1> DEFINE t1 == Emit(st, "message", text.out)
           t2 == IF text.mode = "text" THEN Quiet(t1.st)
                 ELSE EndItem(t1.st, IF text.tool THEN "completed" ELSE status)
           t == [t2.st EXCEPT !.mode = text.mode, !.pos = text.pos]
<1>1. Spoken(st, text, status) = [st |-> t, events |-> t1.events \o t2.events]
  BY DEF Spoken
<1>2. Moves(w, t1) /\ t1.st.item \in {"none", "message"}
  BY EmitMoves
<1>3. Good(w \o t1.events, t1.st)
  BY <1>2 DEF Moves
<1>4. /\ Moves(w \o t1.events, t2) /\ t2.st.item \in {"none", "message"}
      /\ text.mode # "text" => t2.st.item = "none"
  BY <1>2, <1>3, QuietMoves, EndMoves
<1>5. Sequence(w)
  BY DEF Good
<1> HIDE DEF t1, t2
<1>6. Sequence(t1.events \o t2.events) /\ Good(w \o (t1.events \o t2.events), t2.st)
  BY <1>2, <1>4, <1>5, MovesTwice
<1>7. Good(w \o (t1.events \o t2.events), t)
  BY <1>6, GoodElsewhere
<1>8. Shape(t2.st)
  BY <1>6 DEF Good
<1>9. t.mode = text.mode /\ t.item = t2.st.item
  BY <1>8 DEF Shape, Fields
<1> HIDE DEF t
<1> QED BY <1>1, <1>4, <1>6, <1>7, <1>9 DEF Moves, Fit

LEMMA UpdateMoves ==
  ASSUME NEW w, NEW st, Good(w, st), Paired, Fit(st),
         NEW s, NEW len, NEW final \in BOOLEAN, NEW status
  PROVE  /\ Moves(w, Update(st, s, len, final, status))
         /\ Fit(Update(st, s, len, final, status).st)
         /\ final => Update(st, s, len, final, status).st.item = "none"
<1> DEFINE think == ThinkingStep(st, s, len, final)
           first == IF st.mode = "thinking" THEN Thought(st, think) ELSE Quiet(st)
           text == TextStep(first.st.pos, s, len, final)
           then == Spoken(first.st, text, status)
           all == first.events \o then.events
<1>1. /\ think.mode \in {"thinking", "text", "suppress"}
      /\ final => think.mode # "thinking"
  BY DEF ThinkingStep
<1>2. /\ text.mode \in {"text", "suppress"}
      /\ final => text.mode = "suppress"
  BY DEF TextStep
<1> HIDE DEF think
<1>3. /\ Moves(w, first) /\ Fit(first.st)
      /\ final => first.st.mode # "thinking"
  <2>1. CASE st.mode = "thinking"
    <3>1. st.item \in {"none", "reasoning"}
      BY <2>1 DEF Fit
    <3> QED BY <1>1, <2>1, <3>1, ThoughtMoves
  <2>2. CASE st.mode # "thinking"
    <3>1. first = Quiet(st)
      BY <2>2
    <3> QED BY <2>2, <3>1, QuietMoves
  <2> QED BY <2>1, <2>2
<1>4. Update(st, s, len, final, status) = ThenText(first, s, len, final, status)
  BY DEF Update, think
<1> HIDE DEF first, text
<1>5. CASE first.st.mode # "text"
  <2>1. Update(st, s, len, final, status) = first
    BY <1>4, <1>5 DEF ThenText
  <2>2. final => first.st.item = "none"
    BY <1>3, <1>5 DEF Fit
  <2> QED BY <1>3, <2>1, <2>2
<1>6. CASE first.st.mode = "text"
  <2>1. Update(st, s, len, final, status) = [then EXCEPT !.events = first.events \o @]
    BY <1>4, <1>6 DEF ThenText, text
  <2>2. Good(w \o first.events, first.st)
    BY <1>3 DEF Moves
  <2>3. /\ Moves(w \o first.events, then) /\ Fit(then.st)
        /\ then.st.mode = text.mode
    <3>1. first.st.item \in {"none", "message"}
      BY <1>3, <1>6 DEF Fit
    <3> QED BY <1>2, <2>2, <3>1, SpokenMoves
  <2>4. then = [st |-> then.st, events |-> then.events]
    BY DEF Spoken
  <2> HIDE DEF then
  <2>5. Update(st, s, len, final, status) = [st |-> then.st, events |-> all]
    BY <2>1, <2>4
  <2>6. Sequence(w)
    BY DEF Good
  <2>7. Sequence(all) /\ Good(w \o all, then.st)
    BY <1>3, <2>3, <2>6, MovesTwice
  <2>8. final => then.st.item = "none"
    BY <1>2, <2>3 DEF Fit
  <2> HIDE DEF all
  <2> QED BY <2>3, <2>5, <2>7, <2>8 DEF Moves
<1> QED BY <1>5, <1>6

-----------------------------------------------------------------------------
(* The calls, and the last event.                                          *)

LEMMA SameSequence ==
  ASSUME NEW v, NEW w, Sequence(v), Sequence(w), Len(v) = Len(w),
         \A i \in 1..Len(v) : v[i] = w[i]
  PROVE  v = w
<1>1. v = [i \in 1..Len(v) |-> v[i]]
  BY DEF Sequence
<1>2. w = [i \in 1..Len(w) |-> w[i]]
  BY DEF Sequence
<1> QED BY <1>1, <1>2

LEMMA CallsMove ==
  ASSUME NEW w, NEW st, Good(w, st), Paired, st.item = "none",
         NEW answer, answer.calls \in Nat
  PROVE  /\ Sequence(CallEvents(answer, st.next))
         /\ \E t : Good(w \o CallEvents(answer, st.next), t) /\ t.item = "none"
<1> DEFINE added(i) == Event("added", "call", st.next + i, <<>>, "in_progress")
           done(i) == Event("done", "call", st.next + i, <<"x">>, "completed")
           C(i) == [k \in 1..(2 * i) |->
                      IF k % 2 = 1 THEN added((k - 1) \div 2) ELSE done((k - 1) \div 2)]
           then(i) == [st EXCEPT !.next = @ + i]
           P == {i \in Nat : Sequence(C(i)) /\ Good(w \o C(i), then(i))}
<1>1. Sequence(w) /\ Shape(st) /\ st.next \in Nat
  BY DEF Good
<1>2. \A i \in Nat : /\ Shape(then(i)) /\ then(i).item = "none"
                     /\ then(i).next = st.next + i
  BY <1>1 DEF Shape, Fields
<1>3. \A i \in Nat : /\ added(i).ev = "added" /\ added(i).item = "call"
                     /\ added(i).idx = st.next + i
                     /\ done(i).ev = "done" /\ done(i).item = "call"
                     /\ done(i).idx = st.next + i
  BY DEF Event
<1> HIDE DEF added, done
<1>4. 0 \in P
  <2>1. C(0) = <<>>
    OBVIOUS
  <2>2. Sequence(<<>>) /\ w \o <<>> = w
    BY <1>1, Nothing
  <2>3. Together(Now(w), then(0))
    BY <1>1, <1>2 DEF Good, Together
  <2>4. Shape(then(0)) /\ then(0).next \in Nat
    BY <1>1, <1>2
  <2> HIDE DEF then, C
  <2>5. Good(w, then(0))
    BY <2>3, <2>4 DEF Good
  <2> QED BY <2>1, <2>2, <2>5
<1>5. ASSUME NEW i \in Nat, i \in P PROVE i + 1 \in P
  <2> DEFINE v == w \o C(i)
             a == added(i)
             d == done(i)
             half == [then(i) EXCEPT !.item = "call", !.next = @ + 1, !.text = <<>>]
             more == (C(i) \o <<a>>) \o <<d>>
  <2>1. Sequence(C(i)) /\ Good(v, then(i))
    BY <1>5
  <2>2. /\ Shape(half) /\ half.item = "call" /\ half.next = st.next + i + 1
        /\ half.text = <<>>
    <3> HIDE DEF then
    <3> QED BY <1>1, <1>2 DEF Shape, Fields
  <2>3. /\ Shape(then(i)) /\ then(i).item = "none" /\ then(i).next = st.next + i
        /\ Shape(then(i + 1)) /\ then(i + 1).item = "none"
        /\ then(i + 1).next = st.next + i + 1
    <3> HIDE DEF then
    <3>1. i + 1 \in Nat
      OBVIOUS
    <3>2. st.next + (i + 1) = st.next + i + 1
      BY <1>1
    <3> QED BY <1>2, <3>1, <3>2
  <2>4. /\ a.ev = "added" /\ a.item = "call" /\ a.idx = st.next + i
        /\ d.ev = "done" /\ d.item = "call" /\ d.idx = st.next + i
    BY <1>3
  <2>5. C(i + 1) = more
    <3> DEFINE n == 2 * i
               h == C(i) \o <<a>>
    <3>1. n \in Nat /\ 2 * (i + 1) = n + 2
      OBVIOUS
    <3>2. Len(C(i)) = n /\ \A k \in 1..n : C(i)[k] =
            IF k % 2 = 1 THEN added((k - 1) \div 2) ELSE done((k - 1) \div 2)
      BY <3>1
    <3>3. /\ Len(C(i + 1)) = n + 2
          /\ \A k \in 1..(n + 2) : C(i + 1)[k] =
               IF k % 2 = 1 THEN added((k - 1) \div 2) ELSE done((k - 1) \div 2)
      BY <3>1
    <3>4. Sequence(C(i + 1))
      <4>1. C(i + 1) \in Seq({added(k) : k \in Nat} \cup {done(k) : k \in Nat})
        OBVIOUS
      <4> QED BY <4>1 DEF Sequence
    <3> HIDE DEF C
    <3>5. /\ Sequence(h) /\ Len(h) = n + 1 /\ h[n + 1] = a
          /\ \A k \in 1..n : h[k] = C(i)[k]
      BY <2>1, <3>2, OneMoreEvent
    <3> HIDE DEF h
    <3>6. /\ Sequence(h \o <<d>>) /\ Len(h \o <<d>>) = n + 2 /\ (h \o <<d>>)[n + 2] = d
          /\ \A k \in 1..(n + 1) : (h \o <<d>>)[k] = h[k]
      BY <3>1, <3>5, OneMoreEvent
    <3>7. ASSUME NEW k \in 1..(n + 2) PROVE C(i + 1)[k] = (h \o <<d>>)[k]
      <4>1. CASE k \in 1..n
        <5>1. k \in 1..(n + 1)
          BY <3>1, <4>1
        <5> QED BY <3>2, <3>3, <3>5, <3>6, <4>1, <5>1
      <4>2. CASE k = n + 1
        <5>1. k % 2 = 1 /\ (k - 1) \div 2 = i /\ k \in 1..(n + 1)
          BY <4>2
        <5> QED BY <3>3, <3>5, <3>6, <4>2, <5>1
      <4>3. CASE k = n + 2
        <5>1. k % 2 # 1 /\ (k - 1) \div 2 = i
          BY <4>3
        <5> QED BY <3>3, <3>6, <4>3, <5>1
      <4>4. k \in 1..n \/ k = n + 1 \/ k = n + 2
        BY <3>1
      <4> QED BY <4>1, <4>2, <4>3, <4>4
    <3>8. C(i + 1) = h \o <<d>>
      <4> DEFINE g == h \o <<d>>
      <4>1. Sequence(g) /\ Len(g) = Len(C(i + 1)) /\ Len(C(i + 1)) = n + 2
        BY <3>3, <3>6
      <4>2. \A k \in 1..Len(C(i + 1)) : C(i + 1)[k] = g[k]
        BY <3>7, <4>1
      <4> HIDE DEF g
      <4>3. C(i + 1) = g
        BY <3>4, <4>1, <4>2, SameSequence
      <4> QED BY <4>3 DEF g
    <3> QED BY <3>8 DEF h
  <2> HIDE DEF C, then, half, a, d, v
  <2>6. Shape(then(i)) /\ Together(Now(v), then(i))
    BY <2>1 DEF Good
  <2>7. Good(v \o <<a>>, half)
    <3>1. Placed(Now(v), a)
      BY <2>3, <2>4, <2>6 DEF Placed, Together
    <3>2. Heard(Now(v), a) = [item |-> "call", next |-> st.next + i + 1, text |-> <<>>]
      BY <2>3, <2>4, <2>6 DEF Heard, Together
    <3>3. Together(Heard(Now(v), a), half)
      BY <2>2, <3>2 DEF Together, Reader, Heeded
    <3>4. half.next \in Nat
      BY <1>1, <2>2
    <3> QED BY <2>1, <2>2, <2>4, <3>1, <3>3, <3>4, GoodNext
  <2> DEFINE u == v \o <<a>>
  <2> HIDE DEF u
  <2>8. Good(u \o <<d>>, then(i + 1))
    <3>1. Good(u, half) /\ Together(Now(u), half)
      BY <2>7 DEF Good, u
    <3>2. Placed(Now(u), d)
      BY <1>1, <2>2, <2>4, <3>1 DEF Placed, Together
    <3>3. Heard(Now(u), d) = [Now(u) EXCEPT !.item = "none"]
      BY <2>4 DEF Heard
    <3>4. Together(Heard(Now(u), d), then(i + 1))
      BY <2>2, <2>3, <3>1, <3>3 DEF Together, Reader, Heeded
    <3>5. then(i + 1).next \in Nat
      BY <1>1, <2>3
    <3> QED BY <2>3, <2>4, <3>1, <3>2, <3>4, <3>5, GoodNext
  <2>9. Sequence(more) /\ w \o more = u \o <<d>>
    <3> DEFINE h == C(i) \o <<a>>
    <3>1. Sequence(<<a>>) /\ Sequence(<<d>>)
      BY Single
    <3>2. Sequence(h) /\ w \o h = u
      BY <1>1, <2>1, <3>1, Joined, Regroup DEF u, v
    <3> HIDE DEF h
    <3> DEFINE one == <<d>>
    <3>a. Sequence(one) /\ more = h \o one
      BY <3>1 DEF h
    <3>b. u \o <<d>> = u \o one
      OBVIOUS
    <3> HIDE DEF one, more
    <3>3. Sequence(h \o one)
      BY <3>2, <3>a, Joined
    <3>4. w \o (h \o one) = (w \o h) \o one
      <4>1. Sequence(w) /\ Sequence(h) /\ Sequence(one)
        BY <1>1, <3>2, <3>a
      <4> QED BY <4>1, Regroup
    <3> QED BY <3>2, <3>3, <3>4, <3>a, <3>b
  <2> HIDE DEF more
  <2>10. Sequence(C(i + 1)) /\ Good(w \o C(i + 1), then(i + 1))
    BY <2>5, <2>8, <2>9
  <2> QED BY <2>10
<1> HIDE DEF P
<1>6. answer.calls \in P
  BY <1>4, <1>5, StepByStep
<1> DEFINE n == answer.calls
<1>7. CallEvents(answer, st.next) = C(n)
  <2>1. CallEvents(answer, st.next) =
          [k \in 1..(2 * n) |->
             IF k % 2 = 1
             THEN Event("added", "call", st.next + ((k - 1) \div 2), <<>>, "in_progress")
             ELSE Event("done", "call", st.next + ((k - 1) \div 2), <<"x">>, "completed")]
    BY DEF CallEvents, Paired
  <2> QED BY <2>1 DEF added, done
<1> HIDE DEF C, then
<1>8. Sequence(C(n)) /\ Good(w \o C(n), then(n)) /\ then(n).item = "none"
  BY <1>2, <1>6 DEF P
<1> QED BY <1>7, <1>8

\* The last event comes when nothing is open.
LEMMA FramedLast ==
  ASSUME NEW w, NEW st, Good(w, st), NEW e, e.ev = "end" => st.item = "none",
         e.ev \in {"start", "end", "error"}
  PROVE  Sequence(w \o <<e>>) /\ Framed(w \o <<e>>)
<1> DEFINE v == w \o <<e>>
<1>1. Sequence(w) /\ AllPlaced(w) /\ NoEnd(w) /\ Together(Now(w), st)
  BY DEF Good
<1>2. /\ Sequence(v) /\ Len(v) = Len(w) + 1
      /\ \A i \in 1..Len(w) : v[i] = w[i]
  BY <1>1, OneMoreEvent
<1>3. Placed(Now(w), e)
  BY <1>1 DEF Placed, Together
<1>4. AllPlaced(v)
  BY <1>1, <1>3, PlacedNext
<1>5. Len(w) \in Nat
  BY <1>1 DEF Sequence
<1> HIDE DEF v
<1>6. ASSUME NEW i \in 1..Len(v), v[i].ev \in {"end", "error"} PROVE i = Len(v)
  <2>1. CASE i \in 1..Len(w)
    BY <1>1, <1>2, <1>6, <2>1 DEF NoEnd
  <2> QED BY <1>2, <1>5, <2>1
<1>7. Sequence(v) /\ Framed(v)
  BY <1>2, <1>4, <1>6 DEF Framed
<1> QED BY <1>7 DEF v

LEMMA GoodFramed ==
  ASSUME NEW w, NEW st, Good(w, st)
  PROVE  Sequence(w) /\ Framed(w)
BY DEF Good, Framed, NoEnd

LEMMA LastMoves ==
  ASSUME NEW w, NEW up, Moves(w, up), Sequence(w), Paired, up.st.item = "none",
         NEW answer, answer.calls \in Nat
  PROVE  /\ Sequence(LastEvents(up, answer))
         /\ Framed(w \o LastEvents(up, answer))
<1> DEFINE end == EndItem(up.st, Status(answer))
           a == up.events
           b == end.events
           c == CallEvents(answer, end.st.next)
           e == Event("end", "none", None, OutputItems(answer), StopReason(answer))
           ab == a \o b
           abc == ab \o c
<1>1. Good(w \o a, up.st) /\ Sequence(a)
  BY DEF Moves
<1>2. Moves(w \o a, end) /\ end.st.item = "none"
  BY <1>1, EndMoves
<1>3. Sequence(ab) /\ Good(w \o ab, end.st)
  BY <1>2, MovesTwice
<1>4. LastEvents(up, answer) = abc \o <<e>>
  BY DEF LastEvents
<1>5. e.ev = "end"
  BY DEF Event
<1> HIDE DEF end, ab, e
<1>6. Sequence(c) /\ \E t : Good((w \o ab) \o c, t) /\ t.item = "none"
  BY <1>2, <1>3, CallsMove
<1> HIDE DEF c
<1>7. Sequence(abc) /\ w \o abc = (w \o ab) \o c
  <2>1. Sequence(abc)
    BY <1>3, <1>6, Joined
  <2>2. w \o (ab \o c) = (w \o ab) \o c
    BY <1>3, <1>6, Regroup
  <2> QED BY <2>1, <2>2
<1> HIDE DEF abc
<1>8. PICK t : Good(w \o abc, t) /\ t.item = "none"
  BY <1>6, <1>7
<1>9. Framed((w \o abc) \o <<e>>)
  BY <1>5, <1>8, FramedLast
<1>10. Sequence(<<e>>)
  BY Single
<1> DEFINE one == <<e>>
           all == abc \o one
<1> HIDE DEF one
<1>11. Sequence(all)
  BY <1>7, <1>10, Joined DEF one
<1>12. w \o (abc \o one) = (w \o abc) \o one
  <2>1. Sequence(w) /\ Sequence(abc) /\ Sequence(one)
    BY <1>7, <1>10 DEF one
  <2> QED BY <2>1, Regroup
<1>13. Framed(w \o all)
  BY <1>9, <1>12 DEF one
<1>14. LastEvents(up, answer) = all
  BY <1>4 DEF one
<1> HIDE DEF all
<1> QED BY <1>11, <1>13, <1>14

\* Sending stops after any of the events.
LEMMA FramedPrefix ==
  ASSUME NEW w, NEW events, Sequence(w), Sequence(events), Framed(w \o events),
         NEW k \in 0..(Len(events) - 1)
  PROVE  /\ Sequence(w \o SubSeq(events, 1, k))
         /\ Framed(w \o SubSeq(events, 1, k))
<1> DEFINE some == SubSeq(events, 1, k)
           v == w \o events
           u == w \o some
<1>1. Len(w) \in Nat /\ Len(events) \in Nat /\ k \in 0..Len(events) /\ k < Len(events) /\ k \in Nat
  BY DEF Sequence
<1>2. Sequence(some) /\ Len(some) = k /\ \A i \in 1..k : some[i] = events[i]
  BY <1>1, Begun
<1>3. /\ Sequence(v) /\ Len(v) = Len(w) + Len(events)
      /\ \A i \in 1..Len(w) : v[i] = w[i]
      /\ \A i \in 1..Len(events) : v[Len(w) + i] = events[i]
  BY Joined
<1> HIDE DEF some
<1>4. /\ Sequence(u) /\ Len(u) = Len(w) + k
      /\ \A i \in 1..Len(w) : u[i] = w[i]
      /\ \A i \in 1..k : u[Len(w) + i] = some[i]
  <2>1. /\ Sequence(u) /\ Len(u) = Len(w) + Len(some)
        /\ \A i \in 1..Len(w) : u[i] = w[i]
        /\ \A i \in 1..Len(some) : u[Len(w) + i] = some[i]
    <3>1. Sequence(w) /\ Sequence(some)
      BY <1>2
    <3> QED BY <3>1, Joined
  <2> HIDE DEF u
  <2> QED BY <1>2, <2>1
<1>5. ASSUME NEW i \in 1..(Len(w) + k) PROVE u[i] = v[i]
  <2>1. CASE i \in 1..Len(w)
    BY <1>3, <1>4, <2>1
  <2>2. CASE i \notin 1..Len(w)
    <3>1. i - Len(w) \in 1..k /\ i - Len(w) \in 1..Len(events) /\ Len(w) + (i - Len(w)) = i
      BY <1>1, <2>2
    <3> QED BY <1>2, <1>3, <1>4, <3>1
  <2> QED BY <2>1, <2>2
<1> HIDE DEF u, v
<1>6. \A i \in 0..(Len(w) + k) : Client(u)[i] = Client(v)[i]
  <2> DEFINE n == Len(w) + k
  <2>1. n \in Nat /\ n <= Len(u) /\ n <= Len(v)
    BY <1>1, <1>3, <1>4
  <2>2. Sequence(u) /\ Sequence(v) /\ \A i \in 1..n : u[i] = v[i]
    BY <1>3, <1>4, <1>5
  <2> HIDE DEF n
  <2>3. \A i \in 0..n : Client(u)[i] = Client(v)[i]
    BY <2>1, <2>2, SameBeginning
  <2> QED BY <2>3 DEF n
<1>7. Framed(v)
  BY DEF v
<1>8. ASSUME NEW i \in 1..Len(u)
      PROVE  /\ Placed(Client(u)[i - 1], u[i])
             /\ u[i].ev \in {"end", "error"} => i = Len(u)
  <2>1. i \in 1..Len(v) /\ i # Len(v) /\ i \in 1..(Len(w) + k) /\ i - 1 \in 0..(Len(w) + k)
    BY <1>1, <1>3, <1>4
  <2>2. Placed(Client(v)[i - 1], v[i]) /\ v[i].ev \notin {"end", "error"}
    BY <1>7, <2>1 DEF Framed, AllPlaced
  <2> QED BY <1>5, <1>6, <2>1, <2>2
<1>9. Sequence(u) /\ Framed(u)
  BY <1>4, <1>8 DEF Framed, AllPlaced
<1> QED BY <1>9 DEF u, some

-----------------------------------------------------------------------------
(* Places in a text, and the calls that are counted in it.                 *)

Symbols == STRING \cup {"<", "e"}
Text == Seq(Symbols)

LEMMA RequestIs ==
  ASSUME req \in Requests
  PROVE  /\ req.think \in BOOLEAN /\ IsFiniteSet(req.stops)
         /\ \A stop \in req.stops : stop \in Text /\ Len(stop) \in Nat \ {0}
<1>1. /\ req.think \in BOOLEAN /\ IsFiniteSet(req.stops)
      /\ req.stops \subseteq Seq(STRING) \ {<<>>}
  BY StreamAssumption
<1>2. ASSUME NEW stop \in req.stops PROVE stop \in Text /\ Len(stop) \in Nat \ {0}
  <2>1. stop \in Seq(STRING) /\ stop # <<>>
    BY <1>1
  <2>2. Len(stop) \in Nat /\ Len(stop) # 0
    BY <2>1
  <2>3. stop \in Seq(Symbols)
    BY <2>1 DEF Symbols
  <2> QED BY <2>2, <2>3 DEF Text
<1> QED BY <1>1, <1>2

LEMMA HoldIs ==
  ASSUME req \in Requests
  PROVE  Hold \in Nat
<1>1. CASE req.stops = {}
  BY <1>1 DEF Hold
<1>2. CASE req.stops # {}
  <2>1. StopLens \subseteq Nat \ {0} /\ StopLens # {}
    BY <1>2, RequestIs DEF StopLens
  <2>2. IsFiniteSet(StopLens)
    <3> DEFINE f == [stop \in req.stops |-> Len(stop)]
    <3>1. f \in Surjection(req.stops, StopLens)
      BY DEF Surjection, StopLens
    <3> QED BY <3>1, RequestIs, FS_Surjection
  <2>3. Max(StopLens) \in Nat \ {0}
    BY <2>1, <2>2, MaxIs
  <2>4. Hold = Max(StopLens) - 1
    BY <1>2 DEF Hold
  <2> HIDE DEF Hold
  <2> QED BY <2>3, <2>4
<1> QED BY <1>1, <1>2

LEMMA PlacesIn ==
  ASSUME NEW s \in Text, NEW from \in Nat, NEW needle, Len(needle) \in Nat
  PROVE  /\ Places(s, from, Len(s), needle) \subseteq Nat
         /\ \A i \in Places(s, from, Len(s), needle) : i >= from /\ i + Len(needle) <= Len(s)
<1>1. Len(s) \in Nat
  BY DEF Text
<1> QED BY <1>1 DEF Places

LEMMA FindIs ==
  ASSUME NEW s \in Text, NEW from \in Nat, NEW needle, Len(needle) \in Nat,
         Find(s, from, Len(s), needle) # None
  PROVE  /\ Find(s, from, Len(s), needle) \in Nat
         /\ Find(s, from, Len(s), needle) + Len(needle) <= Len(s)
<1> DEFINE P == Places(s, from, Len(s), needle)
<1>1. P # {} /\ Find(s, from, Len(s), needle) = Min(P)
  BY DEF Find
<1>2. P \subseteq Nat /\ \A i \in P : i + Len(needle) <= Len(s)
  BY PlacesIn
<1> HIDE DEF P
<1>3. Min(P) \in P
  BY <1>1, <1>2, MinIs
<1> QED BY <1>1, <1>2, <1>3

LEMMA FindLastIs ==
  ASSUME NEW s \in Text, NEW needle, Len(needle) \in Nat, FindLast(s, needle) # None
  PROVE  FindLast(s, needle) \in Nat /\ FindLast(s, needle) + Len(needle) <= Len(s)
<1> DEFINE P == Places(s, 0, Len(s), needle)
<1>1. P # {} /\ FindLast(s, needle) = Max(P)
  BY DEF FindLast
<1>2. P \subseteq Nat /\ \A i \in P : i + Len(needle) <= Len(s)
  BY PlacesIn
<1>3. IsFiniteSet(P)
  <2>1. Len(s) \in Nat
    BY DEF Text
  <2>2. P \subseteq 0..Len(s)
    BY <1>2, <2>1
  <2>3. IsFiniteSet(0..Len(s))
    BY <2>1, FS_Interval
  <2> QED BY <2>2, <2>3, FS_Subset
<1> HIDE DEF P
<1>4. Max(P) \in P
  BY <1>1, <1>2, <1>3, MaxIs
<1> QED BY <1>1, <1>2, <1>4

LEMMA Markers ==
  /\ Len(Close) = 2 /\ Len(ToolStart) = 2 /\ Len(ToolEnd) = 2 /\ Len(<<"x">>) = 1
  /\ ToolEnd \in Text /\ None = -1
<1>1. ToolEnd \in Text
  <2>1. "<" \in Symbols /\ "e" \in Symbols
    BY DEF Symbols
  <2> HIDE DEF Symbols
  <2> QED BY <2>1 DEF ToolEnd, Text
<1>2. Len(Close) = 2 /\ Len(ToolStart) = 2 /\ Len(ToolEnd) = 2
  BY DEF Close, ToolStart, ToolEnd
<1>3. Len(<<"x">>) = 1
  OBVIOUS
<1> QED BY <1>1, <1>2, <1>3 DEF None

LEMMA SearchFromIs ==
  ASSUME req \in Requests, NEW s \in Text
  PROVE  SearchFrom(s) \in Nat
<1>1. Len(s) \in Nat
  BY DEF Text
<1>2. FindLast(s, Close) # None => FindLast(s, Close) \in Nat
  BY Markers, FindLastIs
<1> QED BY <1>1, <1>2 DEF SearchFrom

LEMMA StopPosIs ==
  ASSUME req \in Requests, NEW s \in Text, NEW from \in Nat, StopPos(s, from) # None
  PROVE  StopPos(s, from) \in 0..Len(s)
<1> DEFINE P == UNION {Places(s, from, Len(s), stop) : stop \in req.stops}
<1>1. P # {} /\ StopPos(s, from) = Min(P)
  BY DEF StopPos
<1>2. ASSUME NEW i \in P PROVE i \in 0..Len(s)
  <2>1. PICK stop \in req.stops : i \in Places(s, from, Len(s), stop)
    OBVIOUS
  <2>2. Len(stop) \in Nat
    BY RequestIs
  <2>3. i \in Nat /\ i + Len(stop) <= Len(s)
    BY <2>1, <2>2, PlacesIn
  <2>4. Len(s) \in Nat
    BY DEF Text
  <2> QED BY <2>2, <2>3, <2>4
<1> HIDE DEF P
<1>3. P \subseteq Nat
  BY <1>2
<1>4. Min(P) \in P
  BY <1>1, <1>3, MinIs
<1> QED BY <1>1, <1>2, <1>4

LEMMA SkipWsIs ==
  ASSUME NEW s \in Text, NEW p \in 0..Len(s)
  PROVE  SkipWs(s, p) \in p..Len(s)
<1> DEFINE S == {Len(s)} \cup {i \in p..(Len(s) - 1) : s[i + 1] # "_"}
<1>1. Len(s) \in Nat
  BY DEF Text
<1>2. S \subseteq p..Len(s) /\ S \subseteq Nat /\ S # {}
  <2>1. Len(s) \in p..Len(s) /\ p..Len(s) \subseteq Nat
    BY <1>1
  <2>2. \A i \in p..(Len(s) - 1) : i \in p..Len(s)
    BY <1>1
  <2>3. S \subseteq p..Len(s) /\ S # {}
    BY <2>1, <2>2, Zenon
  <2> QED BY <2>1, <2>3
<1>3. SkipWs(s, p) = Min(S)
  BY DEF SkipWs
<1> HIDE DEF S
<1>4. Min(S) \in S
  BY <1>2, MinIs
<1> QED BY <1>2, <1>3, <1>4

LEMMA AtFits ==
  ASSUME NEW s, NEW p, NEW needle, At(s, p, needle)
  PROVE  p + Len(needle) <= Len(s)
BY DEF At

LEMMA BlockEndIs ==
  ASSUME NEW s \in Text, NEW p \in 0..Len(s), BlockEnd(s, p) # None
  PROVE  BlockEnd(s, p) \in (p + 1)..Len(s)
<1> DEFINE f == SkipWs(s, p + 2)
           e == SkipWs(s, f + 1)
<1>1. Len(s) \in Nat
  BY DEF Text
<1>2. At(s, p, ToolStart) /\ FunctionEnd(s, f, e) # None /\ BlockEnd(s, p) = FunctionEnd(s, f, e)
  BY DEF BlockEnd
<1>3. p + 2 \in 0..Len(s)
  <2>1. p + 2 <= Len(s)
    BY <1>2, Markers, AtFits
  <2> QED BY <1>1, <2>1
<1>4. f \in (p + 2)..Len(s)
  BY <1>3, SkipWsIs
<1> HIDE DEF f
<1>5. At(s, f, <<"x">>) /\ At(s, e, ToolEnd) /\ BlockEnd(s, p) = e + 2
  BY <1>2 DEF FunctionEnd
<1>6. f + 1 \in 0..Len(s)
  <2>1. f + 1 <= Len(s)
    BY <1>5, Markers, AtFits
  <2> QED BY <1>1, <1>4, <2>1
<1>7. e \in (f + 1)..Len(s)
  BY <1>6, SkipWsIs
<1> HIDE DEF e
<1>8. e + 2 <= Len(s)
  BY <1>5, Markers, AtFits
<1> QED BY <1>1, <1>4, <1>5, <1>7, <1>8

\* The calls of the message whose tool part begins at p, when c counts those
\* of every later place.
Counted(s, c, p) ==
  LET end == BlockEnd(s, p)
  IN IF end = None THEN None
     ELSE IF ~At(s, SkipWs(s, end), ToolStart) THEN 1
     ELSE OneMore(c[SkipWs(s, end)])

LEMMA CountedLater ==
  ASSUME NEW s \in Text, NEW p \in 0..Len(s), NEW c, NEW d,
         \A q \in (p + 1)..Len(s) : c[q] = d[q]
  PROVE  Counted(s, c, p) = Counted(s, d, p)
<1>1. CASE BlockEnd(s, p) = None
  BY <1>1 DEF Counted
<1>2. CASE BlockEnd(s, p) # None
  <2>1. BlockEnd(s, p) \in (p + 1)..Len(s) /\ Len(s) \in Nat
    BY <1>2, BlockEndIs DEF Text
  <2>2. SkipWs(s, BlockEnd(s, p)) \in BlockEnd(s, p)..Len(s)
    BY <2>1, SkipWsIs
  <2>3. SkipWs(s, BlockEnd(s, p)) \in (p + 1)..Len(s)
    BY <2>1, <2>2
  <2>4. c[SkipWs(s, BlockEnd(s, p))] = d[SkipWs(s, BlockEnd(s, p))]
    BY <2>3
  <2> QED BY <2>4 DEF Counted
<1> QED BY <1>1, <1>2

LEMMA CountedIs ==
  ASSUME NEW s \in Text, NEW p \in 0..Len(s), NEW c,
         \A q \in (p + 1)..Len(s) : c[q] \in Nat \cup {None}
  PROVE  Counted(s, c, p) \in Nat \cup {None}
<1>1. CASE BlockEnd(s, p) = None
  BY <1>1 DEF Counted
<1>2. CASE BlockEnd(s, p) # None
  <2>1. BlockEnd(s, p) \in (p + 1)..Len(s) /\ Len(s) \in Nat
    BY <1>2, BlockEndIs DEF Text
  <2>2. SkipWs(s, BlockEnd(s, p)) \in BlockEnd(s, p)..Len(s)
    BY <2>1, SkipWsIs
  <2>3. SkipWs(s, BlockEnd(s, p)) \in (p + 1)..Len(s)
    BY <2>1, <2>2
  <2>4. c[SkipWs(s, BlockEnd(s, p))] \in Nat \cup {None}
    BY <2>3
  <2>5. OneMore(c[SkipWs(s, BlockEnd(s, p))]) \in Nat \cup {None}
    BY <2>4 DEF OneMore
  <2> QED BY <2>5 DEF Counted
<1> QED BY <1>1, <1>2

LEMMA CountExists ==
  ASSUME NEW s \in Text
  PROVE  \E c : c = [p \in 0..Len(s) |-> Counted(s, c, p)]
<1> DEFINE L == Len(s)
           To(n, c) == /\ c = [p \in (L - n)..L |-> c[p]]
                       /\ \A p \in (L - n)..L : c[p] = Counted(s, c, p)
           P == {n \in Nat : n <= L => \E c : To(n, c)}
<1>1. L \in Nat
  BY DEF Text
<1> HIDE DEF L
<1>2. 0 \in P
  <2> DEFINE last == Counted(s, <<>>, L)
             e == [p \in (L - 0)..L |-> last]
  <2> HIDE DEF last
  <2>1. e = [p \in (L - 0)..L |-> e[p]] /\ \A p \in (L - 0)..L : e[p] = last /\ p = L
    BY <1>1
  <2> HIDE DEF e
  <2>2. Counted(s, e, L) = last
    <3>1. L \in 0..Len(s) /\ (L + 1)..Len(s) = {}
      BY <1>1 DEF L
    <3> QED BY <3>1, CountedLater DEF last
  <2>3. To(0, e)
    BY <2>1, <2>2
  <2> QED BY <2>3
<1>3. ASSUME NEW n \in Nat, n \in P PROVE n + 1 \in P
  <2>1. SUFFICES ASSUME n + 1 <= L PROVE \E c : To(n + 1, c)
    OBVIOUS
  <2>2. PICK c : To(n, c)
    BY <1>1, <1>3, <2>1
  <2> DEFINE o == L - (n + 1)
             last == Counted(s, c, o)
             g == [p \in o..L |-> IF p = o THEN last ELSE c[p]]
  <2>3. /\ o \in 0..L /\ o + 1 = L - n
        /\ \A p \in o..L : p = o \/ p \in (L - n)..L
        /\ \A p \in (L - n)..L : p # o /\ p \in o..L
        /\ o \in o..L
    BY <1>1, <2>1
  <2> HIDE DEF o, last
  <2>4. /\ g = [p \in o..L |-> g[p]] /\ g[o] = last
        /\ \A p \in (L - n)..L : g[p] = c[p]
    BY <2>3
  <2> HIDE DEF g
  <2>5. ASSUME NEW p \in o..L PROVE g[p] = Counted(s, g, p)
    <3>1. p \in 0..Len(s) /\ \A q \in (p + 1)..Len(s) : q \in (L - n)..L
      BY <1>1, <2>3 DEF L
    <3>2. Counted(s, g, p) = Counted(s, c, p)
      BY <2>4, <3>1, CountedLater
    <3>3. CASE p = o
      BY <2>4, <3>2, <3>3 DEF last
    <3>4. CASE p # o
      <4>1. p \in (L - n)..L
        BY <2>3, <3>4
      <4> QED BY <2>2, <2>4, <3>2, <4>1
    <3> QED BY <3>3, <3>4
  <2>6. To(n + 1, g)
    BY <2>4, <2>5 DEF o
  <2> QED BY <2>6
<1> HIDE DEF P, To
<1>4. L \in P
  BY <1>1, <1>2, <1>3, StepByStep
<1>5. PICK c : To(L, c)
  BY <1>1, <1>4 DEF P
<1>6. L - L = 0
  BY <1>1
<1>7. c = [p \in 0..L |-> c[p]] /\ \A p \in 0..L : c[p] = Counted(s, c, p)
  BY <1>5, <1>6 DEF To
<1>8. c = [p \in 0..L |-> Counted(s, c, p)]
  BY <1>7
<1> QED BY <1>8 DEF L

LEMMA CallsFromIs ==
  ASSUME NEW s \in Text, NEW start \in 0..Len(s)
  PROVE  CallsFrom(s, start) \in Nat \cup {None}
<1> DEFINE calls == CHOOSE c : c = [p \in 0..Len(s) |-> Counted(s, c, p)]
           L == Len(s)
           P == {n \in Nat : n <= L => \A p \in (L - n)..L : calls[p] \in Nat \cup {None}}
<1>1. calls = [p \in 0..Len(s) |-> Counted(s, calls, p)]
  BY CountExists
<1>2. CallsFrom(s, start) = calls[start]
  BY DEF CallsFrom, Counted
<1>3. L \in Nat
  BY DEF Text
<1> HIDE DEF calls
<1>4. \A p \in 0..L : calls[p] = Counted(s, calls, p)
  BY <1>1
<1>5. 0 \in P
  <2>1. ASSUME NEW p \in (L - 0)..L PROVE calls[p] \in Nat \cup {None}
    <3>1. p \in 0..Len(s) /\ (p + 1)..Len(s) = {}
      BY <1>3
    <3>2. Counted(s, calls, p) \in Nat \cup {None}
      BY <3>1, CountedIs
    <3> QED BY <1>4, <3>1, <3>2
  <2> QED BY <2>1
<1>6. ASSUME NEW n \in Nat, n \in P PROVE n + 1 \in P
  <2>1. SUFFICES ASSUME n + 1 <= L, NEW p \in (L - (n + 1))..L
                 PROVE  calls[p] \in Nat \cup {None}
    OBVIOUS
  <2>2. \A q \in (L - n)..L : calls[q] \in Nat \cup {None}
    BY <1>3, <1>6, <2>1
  <2>3. p \in 0..Len(s) /\ \A q \in (p + 1)..Len(s) : q \in (L - n)..L
    BY <1>3, <2>1
  <2>4. Counted(s, calls, p) \in Nat \cup {None}
    BY <2>2, <2>3, CountedIs
  <2> QED BY <1>4, <2>3, <2>4
<1> HIDE DEF P
<1>7. L \in P
  BY <1>3, <1>5, <1>6, StepByStep
<1>8. \A p \in (L - L)..L : calls[p] \in Nat \cup {None}
  BY <1>3, <1>7 DEF P
<1>9. start \in (L - L)..L
  BY <1>3
<1> QED BY <1>2, <1>8, <1>9

LEMMA AnswerCalls ==
  ASSUME req \in Requests, raw \in Text
  PROVE  Answer.calls \in Nat
<1> DEFINE s == FinalRaw
           start == Find(s, SearchFrom(s), Len(s), ToolStart)
           count == CallsFrom(s, start)
<1>1. s \in Text
  <2>1. raw \o ToolEnd \in Text
    BY Markers DEF Text
  <2> QED BY <2>1 DEF FinalRaw
<1>2. Answer = IF start = None THEN Parsed(TRUE, Split(s), 0) ELSE ParsedCalls(s, start, count)
  BY DEF Answer, Parse
<1> HIDE DEF s
<1>3. CASE start = None
  BY <1>2, <1>3 DEF Parsed
<1>4. CASE start # None
  <2>1. SearchFrom(s) \in Nat /\ Len(s) \in Nat
    BY <1>1, SearchFromIs DEF Text
  <2>2. start \in Nat /\ start + Len(ToolStart) <= Len(s)
    <3> DEFINE from == SearchFrom(s)
    <3>1. from \in Nat /\ Len(ToolStart) \in Nat /\ Find(s, from, Len(s), ToolStart) # None
      BY <1>4, <2>1, Markers
    <3> HIDE DEF from
    <3>2. /\ Find(s, from, Len(s), ToolStart) \in Nat
          /\ Find(s, from, Len(s), ToolStart) + Len(ToolStart) <= Len(s)
      BY <1>1, <3>1, FindIs
    <3> QED BY <3>2 DEF from
  <2>3. start \in 0..Len(s)
    BY <2>1, <2>2, Markers
  <2>4. count \in Nat \cup {None}
    BY <1>1, <2>3, CallsFromIs
  <2>5. Answer = ParsedCalls(s, start, count)
    BY <1>2, <1>4
  <2> HIDE DEF start, count
  <2>6. CASE count = None
    BY <2>5, <2>6 DEF ParsedCalls, Parsed
  <2>7. CASE count # None
    <3>1. Answer.calls = count
      BY <2>5, <2>7 DEF ParsedCalls, Parsed
    <3> QED BY <2>4, <2>7, <3>1
  <2> QED BY <2>6, <2>7
<1> QED BY <1>3, <1>4

-----------------------------------------------------------------------------
(* The invariant.                                                          *)

TextsTyped == req \in Requests /\ raw \in Text /\ scanFrom \in Nat

StreamInv ==
  /\ TextsTyped
  /\ Paired =>
       /\ Sequence(wire) /\ Framed(wire)
       /\ stage = "begin" => wire = <<>> /\ sent = StreamStart
       /\ stage \in {"decode", "finish"} => Good(wire, sent) /\ Fit(sent)

LEMMA SendKeeps ==
  ASSUME NEW events, NEW next, Send(events, next),
         Sequence(wire), Sequence(events), Framed(wire \o events)
  PROVE  /\ Sequence(wire') /\ Framed(wire')
         /\ stage' \in {next, "failed"}
         /\ stage' # "failed" => wire' = wire \o events
<1>1. CASE wire' = wire \o events /\ stage' = next
  <2>1. Sequence(wire \o events)
    BY Joined
  <2> QED BY <1>1, <2>1
<1>2. ASSUME NEW k \in 0..(Len(events) - 1),
             wire' = wire \o SubSeq(events, 1, k), stage' = "failed"
      PROVE  /\ Sequence(wire') /\ Framed(wire')
             /\ stage' \in {next, "failed"}
             /\ stage' # "failed" => wire' = wire \o events
  <2>1. Sequence(wire \o SubSeq(events, 1, k)) /\ Framed(wire \o SubSeq(events, 1, k))
    BY FramedPrefix
  <2> QED BY <1>2, <2>1
<1> QED BY <1>1, <1>2 DEF Send

LEMMA NothingSent ==
  /\ Sequence(<<>>) /\ Framed(<<>>) /\ Len(<<>>) = 0
  /\ Good(<<>>, StreamStart) /\ Fit(StreamStart)
<1>1. Sequence(<<>>)
  <2>1. <<>> \in Seq({})
    OBVIOUS
  <2> QED BY <2>1 DEF Sequence
<1>2. Len(<<>>) = 0
  OBVIOUS
<1>3. AllPlaced(<<>>) /\ NoEnd(<<>>) /\ Framed(<<>>)
  BY <1>2 DEF AllPlaced, NoEnd, Framed
<1>4. Now(<<>>) = NothingHeard
  BY <1>1, <1>2, ClientIs DEF Now, Heeds
<1>5. /\ Shape(StreamStart) /\ StreamStart.item = "none" /\ StreamStart.next = 0
      /\ StreamStart.text = <<>>
  BY DEF StreamStart, Shape, Fields
<1>6. Together(NothingHeard, StreamStart)
  BY <1>5 DEF Together, NothingHeard, Reader, Heeded
<1>7. Fit(StreamStart)
  BY DEF Fit, StreamStart
<1> QED BY <1>1, <1>2, <1>3, <1>4, <1>5, <1>6, <1>7 DEF Good

LEMMA BeginKeeps ==
  ASSUME StreamInv, Begin
  PROVE  StreamInv'
<1>1. TextsTyped'
  BY DEF StreamInv, TextsTyped, Begin
<1>2. SUFFICES ASSUME Paired
               PROVE  /\ Sequence(wire') /\ Framed(wire') /\ stage' # "begin"
                      /\ stage' \in {"decode", "finish"} => Good(wire', sent') /\ Fit(sent')
  BY <1>1 DEF StreamInv, Begin, Paired
<1> DEFINE e == Event("start", "none", None, <<>>, "in_progress")
           one == <<e>>
<1>3. Send(one, "decode") /\ wire = <<>> /\ sent = StreamStart /\ sent' = sent
  BY <1>2 DEF StreamInv, Begin, Paired
<1>4. e.ev = "start" /\ Sequence(one)
  BY Single DEF Event
<1> HIDE DEF e
<1>5. Good(<<>>, StreamStart) /\ Sequence(<<>>)
  BY NothingSent
<1>6. Framed(<<>> \o one)
  BY <1>4, <1>5, FramedLast
<1>7. Good(<<>> \o one, StreamStart)
  <2>1. Placed(Now(<<>>), e) /\ Heard(Now(<<>>), e) = Now(<<>>)
    BY <1>4 DEF Placed, Heard
  <2>2. Shape(StreamStart) /\ StreamStart.next \in Nat /\ Together(Now(<<>>), StreamStart)
    BY <1>5 DEF Good
  <2> QED BY <1>4, <1>5, <2>1, <2>2, GoodNext
<1> HIDE DEF one
<1>8. /\ Sequence(wire') /\ Framed(wire') /\ stage' \in {"decode", "failed"}
      /\ stage' # "failed" => wire' = wire \o one
  BY <1>3, <1>4, <1>5, <1>6, SendKeeps
<1> QED BY <1>3, <1>7, <1>8, NothingSent

LEMMA TokenKeeps ==
  ASSUME StreamInv, Token
  PROVE  StreamInv'
<1>0. /\ req' = req /\ stage = "decode"
      /\ req \in Requests /\ raw \in Text /\ scanFrom \in Nat
  BY DEF StreamInv, TextsTyped, Token
<1>1. PICK piece \in Pieces :
        LET s == raw \o piece
            stop == StopPos(s, scanFrom)
            hit == stop # None
            len == IF hit THEN stop ELSE StopSafe(Len(s))
            up == IF req.api = "completions" THEN CompletionUpdate(sent, s, len)
                  ELSE Update(sent, s, len, FALSE, "in_progress")
        IN /\ sent' = up.st
           /\ raw' = IF hit THEN Cut(s, 0, stop) ELSE s
           /\ scanFrom' = IF hit \/ Len(s) <= Hold THEN 0 ELSE Len(s) - Hold
           /\ \E next \in {"finish", "decode"} : Send(up.events, next)
  BY DEF Token
<1> DEFINE s == raw \o piece
           stop == StopPos(s, scanFrom)
           len == IF stop # None THEN stop ELSE StopSafe(Len(s))
           up == Update(sent, s, len, FALSE, "in_progress")
<1>2. s \in Text
  <2>1. piece \in Text
    <3>1. piece \in Seq(STRING)
      BY StreamAssumption
    <3> QED BY <3>1 DEF Text, Symbols
  <2> QED BY <1>0, <2>1 DEF Text
<1>3. raw' \in Text /\ scanFrom' \in Nat
  <2>1. raw' = (IF stop # None THEN Cut(s, 0, stop) ELSE s)
    BY <1>1
  <2>2. scanFrom' = (IF stop # None \/ Len(s) <= Hold THEN 0 ELSE Len(s) - Hold)
    BY <1>1
  <2> HIDE DEF s
  <2>3. stop # None => stop \in 0..Len(s)
    BY <1>0, <1>2, StopPosIs
  <2> HIDE DEF stop
  <2>4. stop # None => Cut(s, 0, stop) \in Text
    <3>1. SUFFICES ASSUME stop # None PROVE SubSeq(s, 1, stop) \in Seq(Symbols)
      BY DEF Cut, Text
    <3> QED BY <1>2, <2>3, <3>1 DEF Text
  <2>5. Hold \in Nat /\ Len(s) \in Nat
    BY <1>0, <1>2, HoldIs DEF Text
  <2> QED BY <1>2, <2>1, <2>2, <2>4, <2>5
<1>4. TextsTyped'
  BY <1>0, <1>3 DEF TextsTyped
<1>5. SUFFICES ASSUME Paired
               PROVE  /\ Sequence(wire') /\ Framed(wire') /\ stage' # "begin"
                      /\ stage' \in {"decode", "finish"} => Good(wire', sent') /\ Fit(sent')
  BY <1>0, <1>4 DEF StreamInv, Paired
<1>6. Good(wire, sent) /\ Fit(sent) /\ Sequence(wire)
  BY <1>0, <1>5 DEF StreamInv
<1>7. sent' = up.st /\ \E next \in {"finish", "decode"} : Send(up.events, next)
  BY <1>1, <1>5 DEF Paired
<1>8. Moves(wire, up) /\ Fit(up.st)
  BY <1>5, <1>6, UpdateMoves
<1> HIDE DEF up
<1>9. PICK next \in {"finish", "decode"} : Send(up.events, next)
  BY <1>7
<1>10. Sequence(up.events) /\ Good(wire \o up.events, up.st)
  BY <1>8 DEF Moves
<1> DEFINE events == up.events
<1> HIDE DEF events
<1>11. Framed(wire \o events) /\ Sequence(events) /\ Send(events, next)
  BY <1>9, <1>10, GoodFramed DEF events
<1>12. /\ Sequence(wire') /\ Framed(wire') /\ stage' \in {next, "failed"}
       /\ stage' # "failed" => wire' = wire \o events
  BY <1>6, <1>11, SendKeeps
<1> QED BY <1>7, <1>8, <1>10, <1>12 DEF events

LEMMA FinishKeeps ==
  ASSUME StreamInv, Finish
  PROVE  StreamInv'
<1>0. /\ req' = req /\ stage = "finish" /\ raw' = raw /\ scanFrom' = scanFrom
      /\ Send(FinalEvents(FinalRaw, Answer), "done")
      /\ req \in Requests /\ raw \in Text
  BY DEF StreamInv, TextsTyped, Finish
<1>1. TextsTyped'
  BY <1>0 DEF StreamInv, TextsTyped
<1>2. SUFFICES ASSUME Paired
               PROVE  /\ Sequence(wire') /\ Framed(wire')
                      /\ stage' \notin {"begin", "decode", "finish"}
  BY <1>0, <1>1 DEF StreamInv, Paired
<1>3. Good(wire, sent) /\ Fit(sent) /\ Sequence(wire)
  BY <1>0, <1>2 DEF StreamInv
<1>4. Answer.calls \in Nat
  BY <1>0, AnswerCalls
<1> DEFINE events == FinalEvents(FinalRaw, Answer)
<1>5. Sequence(events) /\ Framed(wire \o events)
  <2>1. CASE FinalFinish = "error"
    <3> DEFINE e == Event("error", "none", None, <<>>, "failed")
    <3>1. events = <<e>> /\ e.ev = "error"
      BY <2>1 DEF FinalEvents, Event
    <3> HIDE DEF e, events
    <3>2. Framed(wire \o <<e>>) /\ Sequence(<<e>>)
      BY <1>3, <3>1, FramedLast, Single
    <3> QED BY <3>1, <3>2
  <2>2. CASE FinalFinish # "error"
    <3> DEFINE up == Update(sent, FinalRaw, Len(FinalRaw), TRUE, Status(Answer))
    <3>1. events = LastEvents(up, Answer)
      BY <1>2, <2>2 DEF FinalEvents, Paired
    <3>2. Moves(wire, up) /\ up.st.item = "none"
      BY <1>2, <1>3, UpdateMoves
    <3> HIDE DEF up
    <3> QED BY <1>2, <1>3, <1>4, <3>1, <3>2, LastMoves
  <2> QED BY <2>1, <2>2
<1> HIDE DEF events
<1>6. Send(events, "done")
  BY <1>0 DEF events
<1>7. Sequence(wire') /\ Framed(wire') /\ stage' \in {"done", "failed"}
  BY <1>3, <1>5, <1>6, SendKeeps
<1> QED BY <1>7

LEMMA StreamInvInit ==
  ASSUME StreamInit
  PROVE  StreamInv
<1>1. PICK r \in Requests : Fresh(r, "begin")
  BY DEF StreamInit
<1>2. <<>> \in Text /\ 0 \in Nat
  BY DEF Text
<1>3. TextsTyped
  BY <1>1, <1>2 DEF Fresh, TextsTyped
<1> QED BY <1>1, <1>3, NothingSent DEF Fresh, StreamInv

LEMMA StreamInvNext ==
  ASSUME StreamInv, [StreamNext]_streamVars
  PROVE  StreamInv'
<1>1. CASE Begin
  BY <1>1, BeginKeeps
<1>2. CASE Token
  BY <1>2, TokenKeeps
<1>3. CASE DecodeEnds
  <2>1. /\ req' = req /\ raw' = raw /\ scanFrom' = scanFrom /\ sent' = sent /\ wire' = wire
        /\ stage = "decode" /\ stage' = "finish"
    BY <1>3 DEF DecodeEnds
  <2> QED BY <2>1 DEF StreamInv, TextsTyped, Paired
<1>4. CASE Finish
  BY <1>4, FinishKeeps
<1>5. CASE NextRequest
  <2>1. /\ req' = req /\ raw' = <<>> /\ scanFrom' = 0 /\ sent' = StreamStart' /\ wire' = <<>>
        /\ stage' = "begin"
    BY <1>5 DEF NextRequest, StreamStart
  <2>2. <<>> \in Text /\ 0 \in Nat
    BY DEF Text
  <2> QED BY <2>1, <2>2, NothingSent DEF StreamInv, TextsTyped, Paired
<1>6. CASE UNCHANGED streamVars
  <2>1. /\ req' = req /\ raw' = raw /\ scanFrom' = scanFrom /\ sent' = sent /\ wire' = wire
        /\ stage' = stage
    BY <1>6 DEF streamVars
  <2> QED BY <2>1 DEF StreamInv, TextsTyped, Paired, StreamStart
<1>7. CASE Interrupted
  <2>1. /\ req' = req /\ raw' = raw /\ scanFrom' = scanFrom /\ sent' = sent /\ wire' = wire
        /\ stage = "finish" /\ stage' = stage
    BY <1>7 DEF Interrupted
  <2> QED BY <2>1 DEF StreamInv, TextsTyped, Paired
<1> QED BY <1>1, <1>2, <1>3, <1>4, <1>5, <1>6, <1>7 DEF StreamNext

\* For every request, tokens and length: wherever the request ends and sending
\* fails, a client of the Responses or Messages API sees items that open with
\* consecutive indices, one at a time, and close once with the text of their
\* deltas, and the last event leaves none open (responses_live_stream_update,
\* anthropic_live_stream_update, responses_live_finish, anthropic_live_finish).
THEOREM ItemsInOrder == StreamSpec => []StreamWellFormed
<1>1. StreamInit => StreamInv
  BY StreamInvInit
<1>2. StreamInv /\ [StreamNext]_streamVars => StreamInv'
  BY StreamInvNext
<1>3. StreamInv => StreamWellFormed
  <2>1. SUFFICES ASSUME StreamInv, Paired
                 PROVE  \A i \in DOMAIN wire :
                          /\ Placed(Client(wire)[i - 1], wire[i])
                          /\ wire[i].ev \in {"end", "error"} => i = Len(wire)
    BY DEF StreamWellFormed, Paired
  <2>2. Sequence(wire) /\ Framed(wire)
    BY <2>1 DEF StreamInv
  <2>3. DOMAIN wire = 1..Len(wire)
    BY <2>2 DEF Sequence
  <2> QED BY <2>2, <2>3 DEF Framed, AllPlaced
<1> QED BY <1>1, <1>2, <1>3, PTL DEF StreamSpec
=============================================================================
