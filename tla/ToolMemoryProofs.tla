-------------------------- MODULE ToolMemoryProofs --------------------------
(***************************************************************************)
(* Proofs about ToolMemory for every set of ids, answers and texts and all *)
(* limits: by_id, the list, the blocks and the count of entries agree at   *)
(* every step, a prune drops the entry used the longest ago, and attach    *)
(* never gives a message a text that is not that of its calls.             *)
(***************************************************************************)
EXTENDS ToolMemory, FiniteSetTheorems, WellFoundedInduction, TLAPS

\* The blocks that entries share.
InUse(m) == {b \in Blocks : m.refs[b] > 0}

\* The byte count is that of the entries and of the blocks in use.
BytesExact(m) == m.bytes = Size(m.ids, InUse(m))

\* What holds of the memory between any two steps.
MemInv(m) ==
    /\ m \in Memory
    /\ Linked(m, m.ids)
    /\ Shared(m)
    /\ m.entries = Cardinality(m.ids)
    /\ \A e \in m.ids : m.stamp[e] <= m.clock
    /\ BytesExact(m)

LEMMA Constants ==
  /\ Null \notin Ids /\ Null \notin Blocks
  /\ \A S : S \subseteq Ids => IsFiniteSet(S) /\ Cardinality(S) \in Nat
  /\ EntryBytes \in Nat /\ MaxEntries \in Nat /\ MaxBytes \in Nat
  /\ \A b \in Blocks : BlockBytes(b) \in Nat
<1>1. \A S : S \subseteq Ids => IsFiniteSet(S) /\ Cardinality(S) \in Nat
  BY ToolAssumption, FS_Subset, FS_CardinalityType
<1> QED BY <1>1, ToolAssumption
-----------------------------------------------------------------------------
(* The bytes.                                                              *)

Occupied(B) == UNION {BytesOf(b) : b \in B}

LEMMA BlockCounted ==
  ASSUME NEW b \in Blocks
  PROVE  IsFiniteSet(BytesOf(b)) /\ Cardinality(BytesOf(b)) = BlockBytes(b)
<1>1. BlockBytes(b) \in Nat
  BY Constants
<1> DEFINE k == BlockBytes(b)
<1> HIDE DEF k
<1>2. IsFiniteSet(1..k) /\ Cardinality(1..k) = IF 1 > k THEN 0 ELSE k - 1 + 1
  BY <1>1, FS_Interval DEF k
<1>3. Cardinality(1..k) = k /\ k \in Nat
  BY <1>1, <1>2 DEF k
<1>4. IsFiniteSet({b}) /\ Cardinality({b}) = 1
  BY FS_Singleton
<1>5. /\ IsFiniteSet({b} \X (1..k))
      /\ Cardinality({b} \X (1..k)) = Cardinality({b}) * Cardinality(1..k)
  BY <1>2, <1>4, FS_Product
<1>6. Cardinality({b} \X (1..k)) = k
  BY <1>3, <1>4, <1>5
<1> QED BY <1>5, <1>6 DEF BytesOf, k

LEMMA OccupiedFinite ==
  ASSUME NEW B, B \subseteq Blocks, IsFiniteSet(B)
  PROVE  IsFiniteSet(Occupied(B)) /\ Cardinality(Occupied(B)) \in Nat
<1> DEFINE T == {BytesOf(b) : b \in B}
<1> DEFINE f == [b \in B |-> BytesOf(b)]
<1>1. f \in Surjection(B, T)
  BY DEF Surjection
<1>2. IsFiniteSet(T)
  BY <1>1, FS_Surjection
<1>3. \A t \in T : IsFiniteSet(t)
  BY BlockCounted
<1>4. IsFiniteSet(UNION T)
  BY <1>2, <1>3, FS_UNION
<1> QED BY <1>4, FS_CardinalityType DEF Occupied

\* A block that comes into use takes its bytes.
LEMMA BlockAdded ==
  ASSUME NEW B, B \subseteq Blocks, IsFiniteSet(B), NEW b \in Blocks, b \notin B
  PROVE  Cardinality(Occupied(B \cup {b})) = Cardinality(Occupied(B)) + BlockBytes(b)
<1>1. Occupied(B \cup {b}) = Occupied(B) \cup BytesOf(b)
  BY DEF Occupied
<1>2. Occupied(B) \cap BytesOf(b) = {}
  BY DEF Occupied, BytesOf
<1>3. IsFiniteSet(Occupied(B)) /\ Cardinality(Occupied(B)) \in Nat
  BY OccupiedFinite
<1>4. IsFiniteSet(BytesOf(b)) /\ Cardinality(BytesOf(b)) = BlockBytes(b)
      /\ BlockBytes(b) \in Nat
  BY BlockCounted, Constants
<1>5. Cardinality(Occupied(B) \cup BytesOf(b)) =
        Cardinality(Occupied(B)) + Cardinality(BytesOf(b))
          - Cardinality(Occupied(B) \cap BytesOf(b))
  BY <1>3, <1>4, FS_Union
<1>6. Cardinality(Occupied(B) \cap BytesOf(b)) = 0
  BY <1>2, FS_EmptySet
<1>7. Cardinality(Occupied(B) \cup BytesOf(b)) = Cardinality(Occupied(B)) + BlockBytes(b)
  BY <1>3, <1>4, <1>5, <1>6
<1> QED BY <1>1, <1>7

LEMMA SizeGrows ==
  ASSUME NEW S, NEW T, S \subseteq T, T \subseteq Ids,
         NEW B, NEW C, B \subseteq C, C \subseteq Blocks, IsFiniteSet(C)
  PROVE  Size(S, B) \in Nat /\ Size(T, C) \in Nat /\ Size(S, B) <= Size(T, C)
<1> DEFINE s == Cardinality(S)
<1> DEFINE t == Cardinality(T)
<1> DEFINE u == Cardinality(Occupied(B))
<1> DEFINE v == Cardinality(Occupied(C))
<1>1. IsFiniteSet(T) /\ s \in Nat /\ t \in Nat /\ EntryBytes \in Nat
  BY Constants
<1>2. s <= t
  BY <1>1, FS_Subset
<1>3. IsFiniteSet(Occupied(C)) /\ v \in Nat
  BY OccupiedFinite
<1>4. Occupied(B) \in SUBSET Occupied(C)
  BY DEF Occupied
<1>5. IsFiniteSet(Occupied(B)) /\ u <= v
  BY <1>3, <1>4, FS_Subset
<1>6. u \in Nat
  BY <1>5, FS_CardinalityType
<1>7. Size(S, B) = EntryBytes * s + u /\ Size(T, C) = EntryBytes * t + v
  BY DEF Size, Occupied
<1> HIDE DEF s, t, u, v
<1>8. EntryBytes * s \in Nat /\ EntryBytes * t \in Nat /\ EntryBytes * s <= EntryBytes * t
  <2>1. t - s \in Nat /\ t = s + (t - s)
    BY <1>1, <1>2
  <2> DEFINE d == t - s
  <2> HIDE DEF d
  <2>2. t = s + d /\ d \in Nat
    BY <2>1 DEF d
  <2>3. EntryBytes * t = EntryBytes * s + EntryBytes * d
    BY <1>1, <2>2
  <2>4. EntryBytes * d \in Nat /\ EntryBytes * s \in Nat
    BY <1>1, <2>2
  <2> QED BY <2>3, <2>4
<1> QED BY <1>3, <1>5, <1>6, <1>7, <1>8

LEMMA EntryAdded ==
  ASSUME NEW S, S \subseteq Ids, NEW e \in Ids, e \notin S
  PROVE  EntryBytes * Cardinality(S \cup {e}) = EntryBytes * Cardinality(S) + EntryBytes
<1>1. Cardinality(S \cup {e}) = Cardinality(S) + 1 /\ Cardinality(S) \in Nat
      /\ EntryBytes \in Nat
  BY Constants, FS_AddElement
<1> DEFINE s == Cardinality(S)
<1> HIDE DEF s
<1>2. s \in Nat => EntryBytes * (s + 1) = EntryBytes * s + EntryBytes
  BY <1>1
<1> QED BY <1>1, <1>2 DEF s

\* The blocks in use are those of the entries, so they are finitely many.
LEMMA InUseBlocks ==
  ASSUME NEW m, m.ids \subseteq Ids, Shared(m)
  PROVE  InUse(m) = {m.block[e] : e \in m.ids} /\ IsFiniteSet(InUse(m))
<1>1. ASSUME NEW b \in Blocks
      PROVE  b \in InUse(m) <=> \E e \in m.ids : m.block[e] = b
  <2>1. /\ m.users[b] = {e \in m.ids : m.block[e] = b}
        /\ m.refs[b] = Cardinality(m.users[b])
    BY DEF Shared
  <2>2. m.users[b] \subseteq Ids
    BY <2>1
  <2>3. IsFiniteSet(m.users[b]) /\ Cardinality(m.users[b]) \in Nat
    BY <2>2, Constants
  <2>4. Cardinality(m.users[b]) = 0 <=> m.users[b] = {}
    BY <2>3, FS_EmptySet
  <2> QED BY <2>1, <2>3, <2>4 DEF InUse
<1>2. InUse(m) = {m.block[e] : e \in m.ids}
  BY <1>1 DEF Shared, InUse
<1> DEFINE f == [e \in m.ids |-> m.block[e]]
<1>3. f \in Surjection(m.ids, InUse(m))
  BY <1>2 DEF Surjection
<1> QED BY <1>2, <1>3, Constants, FS_Surjection

\* An entry that comes in takes its bytes, and those of its block if it is the
\* first with it.
LEMMA BytesIn ==
  ASSUME NEW m \in Memory, Shared(m), BytesExact(m),
         NEW e \in Ids, e \notin m.ids, NEW b \in Blocks,
         NEW n, n.ids = m.ids \cup {e}, n.refs = [m.refs EXCEPT ![b] = @ + 1],
         n.bytes = m.bytes + (IF m.refs[b] = 0 THEN BlockBytes(b) ELSE 0) + EntryBytes
  PROVE  BytesExact(n)
<1>1. m.ids \subseteq Ids /\ m.refs \in [Blocks -> Nat] /\ m.bytes \in Nat
  BY DEF Memory
<1>2. IsFiniteSet(InUse(m)) /\ InUse(m) \subseteq Blocks
  BY <1>1, InUseBlocks DEF InUse
<1>3. InUse(n) = InUse(m) \cup {b}
  BY <1>1 DEF InUse
<1>4. b \in InUse(m) <=> m.refs[b] # 0
  BY <1>1 DEF InUse
<1> DEFINE u == Cardinality(Occupied(InUse(m)))
<1> DEFINE v == Cardinality(Occupied(InUse(n)))
<1> DEFINE s == EntryBytes * Cardinality(m.ids)
<1> DEFINE t == EntryBytes * Cardinality(n.ids)
<1>5. u \in Nat /\ s \in Nat /\ EntryBytes \in Nat /\ BlockBytes(b) \in Nat
  BY <1>1, <1>2, Constants, OccupiedFinite
<1>6. t = s + EntryBytes
  BY <1>1, EntryAdded
<1>7. v = u + (IF m.refs[b] = 0 THEN BlockBytes(b) ELSE 0)
  <2>1. CASE m.refs[b] = 0
    BY <1>2, <1>3, <1>4, <2>1, BlockAdded
  <2>2. CASE m.refs[b] # 0
    <3>1. InUse(n) = InUse(m)
      BY <1>3, <1>4, <2>2
    <3> QED BY <1>5, <2>2, <3>1
  <2> QED BY <2>1, <2>2
<1>8. m.bytes = s + u
  BY DEF BytesExact, Size, Occupied
<1> HIDE DEF s, t, u, v
<1>9. n.bytes = t + v
  BY <1>1, <1>5, <1>6, <1>7, <1>8
<1> QED BY <1>9 DEF BytesExact, Size, Occupied, t, v

\* What an entry gives back; neither subtraction is cut off at zero.
LEMMA BytesOut ==
  ASSUME NEW m \in Memory, Shared(m), BytesExact(m),
         NEW e \in m.ids, NEW b \in Blocks, b = m.block[e], m.refs[b] > 0,
         NEW n, n.ids = m.ids \ {e}, n.refs = [m.refs EXCEPT ![b] = @ - 1],
         n.bytes = (IF m.refs[b] > 1 THEN Minus(m.bytes, EntryBytes)
                    ELSE Minus(Minus(m.bytes, EntryBytes), BlockBytes(b)))
  PROVE  BytesExact(n)
<1>1. /\ m.ids \subseteq Ids /\ n.ids \subseteq Ids /\ e \in Ids /\ e \notin n.ids
      /\ m.refs \in [Blocks -> Nat] /\ m.bytes \in Nat /\ m.refs[b] \in Nat
  BY DEF Memory
<1>2. IsFiniteSet(InUse(m)) /\ InUse(m) \subseteq Blocks /\ b \in InUse(m)
  BY <1>1, InUseBlocks DEF InUse
<1>3. InUse(n) = IF m.refs[b] > 1 THEN InUse(m) ELSE InUse(m) \ {b}
  BY <1>1 DEF InUse
<1> DEFINE u == Cardinality(Occupied(InUse(m)))
<1> DEFINE v == Cardinality(Occupied(InUse(n)))
<1> DEFINE s == EntryBytes * Cardinality(m.ids)
<1> DEFINE t == EntryBytes * Cardinality(n.ids)
<1>4. InUse(n) \subseteq Blocks /\ IsFiniteSet(InUse(n))
  BY <1>2, <1>3, FS_Subset DEF InUse
<1>5. /\ u \in Nat /\ v \in Nat /\ s \in Nat /\ t \in Nat
      /\ EntryBytes \in Nat /\ BlockBytes(b) \in Nat
  BY <1>1, <1>2, <1>4, Constants, OccupiedFinite
<1>6. s = t + EntryBytes
  <2>1. m.ids = n.ids \cup {e}
    OBVIOUS
  <2>2. EntryBytes * Cardinality(n.ids \cup {e}) = t + EntryBytes
    BY <1>1, EntryAdded
  <2> QED BY <2>1, <2>2
<1>7. u = v + (IF m.refs[b] > 1 THEN 0 ELSE BlockBytes(b))
  <2>1. CASE m.refs[b] > 1
    BY <1>3, <1>5, <2>1
  <2>2. CASE ~(m.refs[b] > 1)
    <3>1. InUse(m) = InUse(n) \cup {b} /\ b \notin InUse(n)
      BY <1>2, <1>3, <2>2
    <3>2. Cardinality(Occupied(InUse(n) \cup {b})) = v + BlockBytes(b)
      BY <1>4, <3>1, BlockAdded
    <3> QED BY <2>2, <3>1, <3>2
  <2> QED BY <2>1, <2>2
<1>8. m.bytes = s + u
  BY DEF BytesExact, Size, Occupied
<1> HIDE DEF s, t, u, v
<1>9. n.bytes = t + v
  BY <1>1, <1>5, <1>6, <1>7, <1>8 DEF Minus
<1> QED BY <1>9 DEF BytesExact, Size, Occupied, t, v
-----------------------------------------------------------------------------
(* The list.                                                               *)

LEMMA LeastStamp ==
  ASSUME NEW stamp, NEW S, S # {}, \A x \in S : stamp[x] \in Nat
  PROVE  \E x \in S : \A y \in S : ~(stamp[y] < stamp[x])
<1> DEFINE V == {stamp[x] : x \in S}
<1>1. V \subseteq Nat /\ V # {}
  OBVIOUS
<1>2. IsWellFoundedOn(OpToRel(<, Nat), Nat)
  BY NatLessThanWellFounded
<1> HIDE DEF V
<1>3. PICK v \in V : \A w \in V : ~(<<w, v>> \in OpToRel(<, Nat))
  BY <1>1, <1>2, WFMin
<1>4. \A w \in V : ~(w < v)
  BY <1>1, <1>3 DEF OpToRel
<1> QED BY <1>4 DEF V

\* Linked looks at nothing but the links and the order of the stamps.
LEMMA SameLinks ==
  ASSUME NEW m, NEW n, NEW L, Linked(m, L),
         n.prev = m.prev, n.next = m.next, n.head = m.head, n.tail = m.tail,
         \A x, y \in L : m.stamp[x] < m.stamp[y] => n.stamp[x] < n.stamp[y]
  PROVE  Linked(n, L)
BY DEF Linked

\* Other links in the same memory.
Relink(m, p, q, h, t) == [m EXCEPT !.prev = p, !.next = q, !.head = h, !.tail = t]

Headed(n, m, e) ==
    /\ n \in Memory
    /\ n.prev = [x \in Ids |-> IF x = e THEN Null
                               ELSE IF x = m.head THEN e ELSE m.prev[x]]
    /\ n.next = [m.next EXCEPT ![e] = m.head]
    /\ n.head = e
    /\ n.tail = (IF m.head = Null THEN e ELSE m.tail)
    /\ n.ids = m.ids /\ n.block = m.block /\ n.stamp = m.stamp
    /\ n.users = m.users /\ n.refs = m.refs /\ n.entries = m.entries
    /\ n.bytes = m.bytes /\ n.clock = m.clock

LEMMA LinkHeadFields ==
  ASSUME NEW m \in Memory, NEW e \in Ids
  PROVE  Headed(LinkHead(m, e), m, e)
<1> DEFINE n == LinkHead(m, e)
<1> DEFINE p == [x \in Ids |-> IF x = e THEN Null
                               ELSE IF x = m.head THEN e ELSE m.prev[x]]
<1> DEFINE q == [m.next EXCEPT ![e] = m.head]
<1> DEFINE t == IF m.head = Null THEN e ELSE m.tail
<1>1. /\ p \in [Ids -> Pointer] /\ q \in [Ids -> Pointer]
      /\ e \in Pointer /\ t \in Pointer
  BY DEF Memory, Pointer
<1>2. n = Relink(m, p, q, e, t)
  BY DEF LinkHead, Relink
<1> HIDE DEF n, p, q, t
<1>3. /\ n \in Memory
      /\ n.prev = p /\ n.next = q /\ n.head = e /\ n.tail = t
      /\ n.ids = m.ids /\ n.block = m.block /\ n.stamp = m.stamp
      /\ n.users = m.users /\ n.refs = m.refs /\ n.entries = m.entries
      /\ n.bytes = m.bytes /\ n.clock = m.clock
  <2>1. n \in Memory
    BY <1>1, <1>2 DEF Memory, Relink
  <2> QED BY <1>2, <2>1 DEF Memory, Relink
<1>9. Headed(n, m, e)
  BY <1>3 DEF p, q, t, Headed
<1> QED BY <1>9 DEF n

LEMMA LinkHeadLinked ==
  ASSUME NEW m \in Memory, NEW L \in SUBSET Ids, NEW e \in Ids, e \notin L,
         Linked(m, L), \A x \in L : m.stamp[x] < m.stamp[e]
  PROVE  Linked(LinkHead(m, e), L \cup {e})
<1> DEFINE n == LinkHead(m, e)
<1>0. Headed(n, m, e)
  BY LinkHeadFields
<1> SUFFICES Linked(n, L \cup {e})
  OBVIOUS
<1> HIDE DEF n
<1>a. /\ n.prev = [x \in Ids |-> IF x = e THEN Null
                                 ELSE IF x = m.head THEN e ELSE m.prev[x]]
      /\ n.next = [m.next EXCEPT ![e] = m.head]
      /\ n.head = e /\ n.tail = (IF m.head = Null THEN e ELSE m.tail)
      /\ n.stamp = m.stamp
  BY <1>0 DEF Headed
<1>b. m.next \in [Ids -> Pointer]
  BY DEF Memory
<1>1. /\ \A x \in Ids : n.prev[x] = IF x = e THEN Null ELSE IF x = m.head THEN e ELSE m.prev[x]
      /\ \A x \in Ids : n.next[x] = IF x = e THEN m.head ELSE m.next[x]
      /\ n.head = e /\ n.tail = (IF m.head = Null THEN e ELSE m.tail)
      /\ n.stamp = m.stamp
  BY <1>a, <1>b
<1>2. Null \notin Ids
  BY Constants
<1>3. CASE L = {}
  BY <1>1, <1>2, <1>3 DEF Linked
<1>4. CASE L # {}
  <2>1. /\ m.head \in L /\ m.tail \in L /\ m.head # Null /\ m.tail # Null
        /\ m.prev[m.head] = Null /\ m.next[m.tail] = Null
    BY <1>4 DEF Linked
  <2>2. /\ n.head \in L \cup {e} /\ n.prev[n.head] = Null
        /\ n.tail \in L \cup {e} /\ n.next[n.tail] = Null
        /\ n.head # Null /\ n.tail # Null
    BY <1>1, <1>2, <2>1
  <2>3. ASSUME NEW x \in L \cup {e}
        PROVE  /\ n.next[x] = Null => x = n.tail
               /\ n.next[x] # Null => /\ n.next[x] \in L \cup {e}
                                      /\ n.prev[n.next[x]] = x
                                      /\ n.stamp[n.next[x]] < n.stamp[x]
    <3>1. CASE x = e
      BY <1>1, <2>1, <3>1
    <3>2. CASE x # e
      <4>1. /\ x \in L /\ x \in Ids /\ n.next[x] = m.next[x]
            /\ n.tail = m.tail
        BY <1>1, <2>1, <3>2
      <4>2. m.next[x] = Null => x = m.tail
        BY <4>1 DEF Linked
      <4>3. ASSUME m.next[x] # Null
            PROVE  /\ m.next[x] \in L /\ m.prev[m.next[x]] = x
                   /\ m.stamp[m.next[x]] < m.stamp[x]
        BY <4>1, <4>3 DEF Linked
      <4>4. ASSUME m.next[x] # Null PROVE n.prev[m.next[x]] = x
        <5>1. m.next[x] # m.head /\ m.next[x] # e /\ m.next[x] \in Ids
          BY <4>1, <4>3, <4>4, <2>1, <1>2
        <5> QED BY <5>1, <4>3, <4>4, <1>1
      <4> QED BY <4>1, <4>2, <4>3, <4>4, <1>1
    <3> QED BY <3>1, <3>2
  <2>4. ASSUME NEW x \in L \cup {e}
        PROVE  /\ n.prev[x] = Null => x = n.head
               /\ n.prev[x] # Null => n.prev[x] \in L \cup {e} /\ n.next[n.prev[x]] = x
    <3>1. CASE x = e
      BY <1>1, <3>1
    <3>2. CASE x = m.head /\ x # e
      BY <1>1, <1>2, <2>1, <3>2
    <3>3. CASE x # m.head /\ x # e
      <4>1. x \in L /\ n.prev[x] = m.prev[x] /\ m.prev[x] # Null
        BY <1>1, <3>3 DEF Linked
      <4>2. m.prev[x] \in L /\ m.next[m.prev[x]] = x
        BY <4>1 DEF Linked
      <4> QED BY <4>1, <4>2, <1>1
    <3> QED BY <3>1, <3>2, <3>3
  <2> QED BY <2>2, <2>3, <2>4 DEF Linked
<1> QED BY <1>3, <1>4

Unlinked(n, m, e) ==
    /\ n \in Memory
    /\ n.prev = [x \in Ids |-> IF x = e THEN Null
                               ELSE IF x = m.next[e] THEN m.prev[e] ELSE m.prev[x]]
    /\ n.next = [x \in Ids |-> IF x = e THEN Null
                               ELSE IF x = m.prev[e] THEN m.next[e] ELSE m.next[x]]
    /\ n.head = (IF m.prev[e] = Null THEN m.next[e] ELSE m.head)
    /\ n.tail = (IF m.next[e] = Null THEN m.prev[e] ELSE m.tail)
    /\ n.ids = m.ids /\ n.block = m.block /\ n.stamp = m.stamp
    /\ n.users = m.users /\ n.refs = m.refs /\ n.entries = m.entries
    /\ n.bytes = m.bytes /\ n.clock = m.clock

LEMMA UnlinkFields ==
  ASSUME NEW m \in Memory, NEW e \in Ids
  PROVE  Unlinked(Unlink(m, e), m, e)
<1> DEFINE n == Unlink(m, e)
<1> DEFINE p == [x \in Ids |-> IF x = e THEN Null
                               ELSE IF x = m.next[e] THEN m.prev[e] ELSE m.prev[x]]
<1> DEFINE q == [x \in Ids |-> IF x = e THEN Null
                               ELSE IF x = m.prev[e] THEN m.next[e] ELSE m.next[x]]
<1> DEFINE h == IF m.prev[e] = Null THEN m.next[e] ELSE m.head
<1> DEFINE t == IF m.next[e] = Null THEN m.prev[e] ELSE m.tail
<1>1. /\ p \in [Ids -> Pointer] /\ q \in [Ids -> Pointer]
      /\ h \in Pointer /\ t \in Pointer
  BY DEF Memory, Pointer
<1>2. n = Relink(m, p, q, h, t)
  BY DEF Unlink, Relink
<1> HIDE DEF n, p, q, h, t
<1>3. /\ n \in Memory
      /\ n.prev = p /\ n.next = q /\ n.head = h /\ n.tail = t
      /\ n.ids = m.ids /\ n.block = m.block /\ n.stamp = m.stamp
      /\ n.users = m.users /\ n.refs = m.refs /\ n.entries = m.entries
      /\ n.bytes = m.bytes /\ n.clock = m.clock
  <2>1. n \in Memory
    BY <1>1, <1>2 DEF Memory, Relink
  <2> QED BY <1>2, <2>1 DEF Memory, Relink
<1>9. Unlinked(n, m, e)
  BY <1>3 DEF p, q, h, t, Unlinked
<1> QED BY <1>9 DEF n

LEMMA UnlinkLinked ==
  ASSUME NEW m \in Memory, NEW L \in SUBSET Ids, NEW e \in L, Linked(m, L),
         \A x \in L : m.stamp[x] \in Nat
  PROVE  Linked(Unlink(m, e), L \ {e})
<1> DEFINE n == Unlink(m, e)
<1> DEFINE p == m.prev[e]
<1> DEFINE q == m.next[e]
<1>0. Unlinked(n, m, e)
  BY UnlinkFields
<1> SUFFICES Linked(n, L \ {e})
  OBVIOUS
<1> HIDE DEF n
<1>a. /\ n.prev = [x \in Ids |-> IF x = e THEN Null ELSE IF x = q THEN p ELSE m.prev[x]]
      /\ n.next = [x \in Ids |-> IF x = e THEN Null ELSE IF x = p THEN q ELSE m.next[x]]
      /\ n.head = (IF p = Null THEN q ELSE m.head)
      /\ n.tail = (IF q = Null THEN p ELSE m.tail)
      /\ n.stamp = m.stamp
  BY <1>0 DEF Unlinked
<1>1. /\ \A x \in Ids : n.prev[x] = IF x = e THEN Null ELSE IF x = q THEN p ELSE m.prev[x]
      /\ \A x \in Ids : n.next[x] = IF x = e THEN Null ELSE IF x = p THEN q ELSE m.next[x]
      /\ n.head = (IF p = Null THEN q ELSE m.head)
      /\ n.tail = (IF q = Null THEN p ELSE m.tail)
      /\ n.stamp = m.stamp
  BY <1>a
<1>2. Null \notin Ids
  BY Constants
<1>3. /\ m.head \in L /\ m.prev[m.head] = Null
      /\ m.tail \in L /\ m.next[m.tail] = Null
  BY DEF Linked
<1>4. \A x \in L : /\ m.next[x] = Null => x = m.tail
                   /\ m.prev[x] = Null => x = m.head
                   /\ m.next[x] # Null => /\ m.next[x] \in L /\ m.prev[m.next[x]] = x
                                          /\ m.stamp[m.next[x]] < m.stamp[x]
                   /\ m.prev[x] # Null => m.prev[x] \in L /\ m.next[m.prev[x]] = x
  BY DEF Linked
<1>5. p # e /\ q # e
  <2>1. q # e
    BY <1>2, <1>4
  <2>2. p # e
    BY <1>2, <1>4, <2>1
  <2> QED BY <2>1, <2>2
<1>6. p # Null => p \in L \ {e} /\ m.next[p] = e /\ m.stamp[e] < m.stamp[p]
  BY <1>2, <1>4, <1>5
<1>7. q # Null => q \in L \ {e} /\ m.prev[q] = e /\ m.stamp[q] < m.stamp[e]
  BY <1>4, <1>5
<1>8. p = Null => m.head = e
  BY <1>4
<1>9. q = Null => m.tail = e
  BY <1>4
<1>10. p # Null => m.head # e
  BY <1>3
<1>11. q # Null => m.tail # e
  BY <1>3
<1> HIDE DEF p, q
<1>12. \A x \in L \ {e} : x \in Ids
  OBVIOUS
<1>13. ASSUME NEW x \in L \ {e}
       PROVE  /\ n.next[x] = Null => x = n.tail
              /\ n.next[x] # Null => /\ n.next[x] \in L \ {e}
                                     /\ n.prev[n.next[x]] = x
                                     /\ n.stamp[n.next[x]] < n.stamp[x]
  <2>1. CASE x = p
    <3>1. n.next[x] = q /\ p # Null
      BY <1>1, <1>2, <1>12, <2>1
    <3>2. q = Null => n.tail = p
      BY <1>1
    <3>3. q # Null => n.prev[q] = p /\ q \in L \ {e} /\ m.stamp[q] < m.stamp[p]
      BY <1>1, <1>6, <1>7, <1>12, <3>1
    <3> QED BY <2>1, <3>1, <3>2, <3>3, <1>1
  <2>2. CASE x # p
    <3>1. n.next[x] = m.next[x]
      BY <1>1, <1>12, <2>2
    <3>2. ASSUME m.next[x] = Null PROVE x = n.tail
      BY <1>1, <1>4, <1>9, <3>2
    <3>3. ASSUME m.next[x] # Null
          PROVE  /\ m.next[x] \in L \ {e} /\ n.prev[m.next[x]] = x
                 /\ m.stamp[m.next[x]] < m.stamp[x]
      <4>1. m.next[x] \in L /\ m.prev[m.next[x]] = x /\ m.stamp[m.next[x]] < m.stamp[x]
        BY <1>4, <3>3
      <4>2. m.next[x] # e
        BY <4>1, <2>2 DEF p
      <4>3. m.next[x] # q
        BY <1>7, <4>1, <3>3
      <4> QED BY <1>1, <1>12, <4>1, <4>2, <4>3
    <3> QED BY <3>1, <3>2, <3>3, <1>1
  <2> QED BY <2>1, <2>2
<1>14. ASSUME NEW x \in L \ {e}
       PROVE  /\ n.prev[x] = Null => x = n.head
              /\ n.prev[x] # Null => n.prev[x] \in L \ {e} /\ n.next[n.prev[x]] = x
  <2>1. CASE x = q
    <3>1. n.prev[x] = p /\ q # Null
      BY <1>1, <1>2, <1>12, <2>1
    <3>2. p # Null => n.next[p] = q
      BY <1>1, <1>6, <1>12
    <3> QED BY <2>1, <3>1, <3>2, <1>1, <1>6
  <2>2. CASE x # q
    <3>1. n.prev[x] = m.prev[x]
      BY <1>1, <1>12, <2>2
    <3>2. ASSUME m.prev[x] = Null PROVE x = n.head
      BY <1>1, <1>4, <1>8, <3>2
    <3>3. ASSUME m.prev[x] # Null
          PROVE  m.prev[x] \in L \ {e} /\ n.next[m.prev[x]] = x
      <4>1. m.prev[x] \in L /\ m.next[m.prev[x]] = x
        BY <1>4, <3>3
      <4>2. m.prev[x] # e
        BY <4>1, <2>2 DEF q
      <4>3. m.prev[x] # p
        BY <1>6, <4>1, <3>3
      <4> QED BY <1>1, <1>12, <4>1, <4>2, <4>3
    <3> QED BY <3>1, <3>2, <3>3
  <2> QED BY <2>1, <2>2
<1>15. L \ {e} # {} => /\ n.head \in L \ {e} /\ n.prev[n.head] = Null
                       /\ n.tail \in L \ {e} /\ n.next[n.tail] = Null
  <2> SUFFICES ASSUME L \ {e} # {} PROVE
          /\ n.head \in L \ {e} /\ n.prev[n.head] = Null
          /\ n.tail \in L \ {e} /\ n.next[n.tail] = Null
    OBVIOUS
  <2>1. p # Null \/ q # Null
    \* The last of the others must have a next one, which can only be e.
    <3>1. PICK x \in L \ {e} : \A y \in L \ {e} : ~(m.stamp[y] < m.stamp[x])
      BY LeastStamp
    <3>2. SUFFICES ASSUME q = Null PROVE p # Null
      OBVIOUS
    <3>3. m.next[x] # Null
      BY <1>4, <1>9, <3>2
    <3>4. m.next[x] = e
      BY <1>4, <3>1, <3>3
    <3> QED BY <1>2, <1>4, <1>12, <3>3, <3>4 DEF p
  <2>2. CASE p = Null
    BY <1>1, <1>2, <1>3, <1>5, <1>7, <1>11, <1>12, <2>1, <2>2
  <2>3. CASE q = Null
    BY <1>1, <1>2, <1>3, <1>5, <1>6, <1>10, <1>12, <2>1, <2>3
  <2>4. CASE p # Null /\ q # Null
    <3>1. n.head = m.head /\ m.head # e /\ m.head # q
      BY <1>1, <1>3, <1>7, <1>10, <1>2, <1>6, <2>4
    <3>2. n.tail = m.tail /\ m.tail # e /\ m.tail # p
      BY <1>1, <1>2, <1>3, <1>6, <1>11, <1>12, <2>4
    <3> QED BY <1>1, <1>3, <1>12, <3>1, <3>2
  <2> QED BY <2>2, <2>3, <2>4
<1>16. L \ {e} = {} => n.head = Null /\ n.tail = Null
  BY <1>1, <1>6, <1>7
<1>17. L \ {e} # {} => n.head # Null /\ n.tail # Null
  BY <1>2, <1>15
<1>18. Linked(n, L \ {e})
  BY <1>13, <1>14, <1>15, <1>16, <1>17 DEF Linked
<1> QED BY <1>18
-----------------------------------------------------------------------------
(* The fields that each step of an operation changes.                      *)

Restamped(n, m, e) ==
    /\ n \in Memory
    /\ n.stamp = [m.stamp EXCEPT ![e] = m.clock + 1] /\ n.clock = m.clock + 1
    /\ n.prev = m.prev /\ n.next = m.next /\ n.head = m.head /\ n.tail = m.tail
    /\ n.ids = m.ids /\ n.block = m.block /\ n.users = m.users
    /\ n.refs = m.refs /\ n.entries = m.entries /\ n.bytes = m.bytes

LEMMA StampedFields ==
  ASSUME NEW m \in Memory, NEW e \in Ids
  PROVE  Restamped(Stamped(m, e), m, e)
<1> DEFINE n == Stamped(m, e)
<1> DEFINE k == m.clock + 1
<1> DEFINE s == [m.stamp EXCEPT ![e] = k]
<1>1. k \in Nat /\ s \in [Ids -> Nat]
  BY DEF Memory
<1>2. n = [m EXCEPT !.clock = k, !.stamp = s]
  BY DEF Stamped, Memory
<1> HIDE DEF n, k, s
<1>3. n \in Memory
  BY <1>1, <1>2 DEF Memory
<1>9. Restamped(n, m, e)
  BY <1>2, <1>3 DEF Memory, k, s, Restamped
<1> QED BY <1>9 DEF n

SharedBy(n, m, e, b) ==
    /\ n \in Memory
    /\ n.block = [m.block EXCEPT ![e] = b]
    /\ n.users = [m.users EXCEPT ![b] = @ \cup {e}]
    /\ n.refs = [m.refs EXCEPT ![b] = @ + 1]
    /\ n.stamp = m.stamp /\ n.clock = m.clock
    /\ n.prev = m.prev /\ n.next = m.next /\ n.head = m.head /\ n.tail = m.tail
    /\ n.ids = m.ids /\ n.entries = m.entries
    /\ n.bytes = m.bytes + (IF m.refs[b] = 0 THEN BlockBytes(b) ELSE 0)

LEMMA ShareFields ==
  ASSUME NEW m \in Memory, NEW e \in Ids, NEW b \in Blocks
  PROVE  SharedBy(Share(m, e, b), m, e, b)
<1> DEFINE n == Share(m, e, b)
<1> DEFINE c == [m.block EXCEPT ![e] = b]
<1> DEFINE u == [m.users EXCEPT ![b] = @ \cup {e}]
<1> DEFINE r == [m.refs EXCEPT ![b] = @ + 1]
<1> DEFINE k == m.bytes + (IF m.refs[b] = 0 THEN BlockBytes(b) ELSE 0)
<1>1. /\ c \in [Ids -> Blocks \cup {Null}] /\ u \in [Blocks -> SUBSET Ids]
      /\ r \in [Blocks -> Nat] /\ k \in Nat
  BY Constants DEF Memory
<1>2. n = [m EXCEPT !.block = c, !.users = u, !.refs = r, !.bytes = k]
  BY DEF Share, Memory
<1> HIDE DEF n, c, u, r, k
<1>3. n \in Memory
  BY <1>1, <1>2 DEF Memory
<1>9. SharedBy(n, m, e, b)
  BY <1>2, <1>3 DEF Memory, c, u, r, k, SharedBy
<1> QED BY <1>9 DEF n

Entered(n, m, e) ==
    /\ n \in Memory
    /\ n.ids = m.ids \cup {e} /\ n.entries = m.entries + 1
    /\ n.stamp = m.stamp /\ n.clock = m.clock /\ n.block = m.block
    /\ n.prev = m.prev /\ n.next = m.next /\ n.head = m.head /\ n.tail = m.tail
    /\ n.users = m.users /\ n.refs = m.refs
    /\ n.bytes = m.bytes + EntryBytes

LEMMA EnterFields ==
  ASSUME NEW m \in Memory, NEW e \in Ids
  PROVE  Entered(Enter(m, e), m, e)
<1> DEFINE n == Enter(m, e)
<1> DEFINE s == m.ids \cup {e}
<1> DEFINE c == m.entries + 1
<1> DEFINE k == m.bytes + EntryBytes
<1>1. s \in SUBSET Ids /\ c \in Nat /\ k \in Nat
  BY Constants DEF Memory
<1>2. n = [m EXCEPT !.ids = s, !.entries = c, !.bytes = k]
  BY DEF Enter, Memory
<1> HIDE DEF n, s, c, k
<1>3. n \in Memory
  BY <1>1, <1>2 DEF Memory
<1>9. Entered(n, m, e)
  BY <1>2, <1>3 DEF Memory, s, c, k, Entered
<1> QED BY <1>9 DEF n

Detached(n, m, e) ==
    /\ n \in Memory
    /\ n.users = [m.users EXCEPT ![m.block[e]] = @ \ {e}]
    /\ n.entries = Minus(m.entries, 1)
    /\ n.prev = Unlink(m, e).prev /\ n.next = Unlink(m, e).next /\ n.head = Unlink(m, e).head /\ n.tail = Unlink(m, e).tail
    /\ n.ids = m.ids /\ n.block = m.block /\ n.stamp = m.stamp
    /\ n.refs = m.refs /\ n.clock = m.clock
    /\ n.bytes = Minus(m.bytes, EntryBytes)

LEMMA DetachFields ==
  ASSUME NEW m \in Memory, NEW e \in Ids, m.block[e] \in Blocks
  PROVE  Detached(Detach(m, e), m, e)
<1> DEFINE n == Detach(m, e)
<1> DEFINE u == Unlink(m, e)
<1>0. Unlinked(u, m, e)
  BY UnlinkFields
<1> HIDE DEF u
<1>1. /\ u \in Memory
      /\ u.ids = m.ids /\ u.block = m.block /\ u.stamp = m.stamp
      /\ u.users = m.users /\ u.refs = m.refs /\ u.entries = m.entries
      /\ u.clock = m.clock /\ u.bytes = m.bytes
  BY <1>0 DEF Unlinked
<1> DEFINE s == [u.users EXCEPT ![m.block[e]] = @ \ {e}]
<1> DEFINE k == Minus(u.bytes, EntryBytes)
<1> DEFINE c == Minus(u.entries, 1)
<1>2. n = [u EXCEPT !.users = s, !.bytes = k, !.entries = c]
  BY <1>1 DEF Detach, Memory, u
<1> HIDE DEF n
<1>3. s \in [Blocks -> SUBSET Ids] /\ k \in Nat /\ c \in Nat
  BY <1>1, Constants DEF Memory, Minus
<1>4. /\ s = [m.users EXCEPT ![m.block[e]] = @ \ {e}] /\ c = Minus(m.entries, 1)
      /\ k = Minus(m.bytes, EntryBytes)
  BY <1>1
<1> HIDE DEF s, k, c
<1>5. n \in Memory
  BY <1>1, <1>2, <1>3 DEF Memory
<1>6. /\ n.users = s /\ n.entries = c /\ n.bytes = k
      /\ n.prev = u.prev /\ n.next = u.next /\ n.head = u.head /\ n.tail = u.tail
      /\ n.ids = m.ids /\ n.block = m.block /\ n.stamp = m.stamp
      /\ n.refs = m.refs /\ n.clock = m.clock
  BY <1>1, <1>2 DEF Memory
<1>9. Detached(n, m, e)
  BY <1>4, <1>5, <1>6 DEF u, Detached
<1> QED BY <1>9 DEF n

Released(n, m, b) ==
    /\ n \in Memory
    /\ n.refs = [m.refs EXCEPT ![b] = @ - 1]
    /\ n.users = m.users /\ n.entries = m.entries
    /\ n.prev = m.prev /\ n.next = m.next /\ n.head = m.head /\ n.tail = m.tail
    /\ n.ids = m.ids /\ n.block = m.block /\ n.stamp = m.stamp
    /\ n.clock = m.clock
    /\ n.bytes = (IF m.refs[b] > 1 THEN m.bytes ELSE Minus(m.bytes, BlockBytes(b)))

LEMMA ReleaseFields ==
  ASSUME NEW m \in Memory, NEW b \in Blocks, m.refs[b] > 0
  PROVE  Released(Release(m, b), m, b)
<1> DEFINE n == Release(m, b)
<1> DEFINE r == [m.refs EXCEPT ![b] = @ - 1]
<1> DEFINE k == IF m.refs[b] > 1 THEN m.bytes ELSE Minus(m.bytes, BlockBytes(b))
<1>1. r \in [Blocks -> Nat] /\ k \in Nat
  BY Constants DEF Memory, Minus
<1>2. n = [m EXCEPT !.refs = r, !.bytes = k]
  BY DEF Release, Memory
<1> HIDE DEF n, r, k
<1>3. n \in Memory
  BY <1>1, <1>2 DEF Memory
<1>9. Released(n, m, b)
  BY <1>2, <1>3 DEF Memory, r, k, Released
<1> QED BY <1>9 DEF n

Freed(n, m, e) ==
    /\ n \in Memory
    /\ n.ids = m.ids \ {e}
    /\ n.block = [m.block EXCEPT ![e] = Null]
    /\ n.stamp = [m.stamp EXCEPT ![e] = 0]
    /\ n.users = m.users /\ n.entries = m.entries /\ n.refs = m.refs
    /\ n.prev = m.prev /\ n.next = m.next /\ n.head = m.head /\ n.tail = m.tail
    /\ n.clock = m.clock /\ n.bytes = m.bytes

LEMMA FreeFields ==
  ASSUME NEW m \in Memory, NEW e \in Ids
  PROVE  Freed(Free(m, e), m, e)
<1> DEFINE n == Free(m, e)
<1>1. n \in Memory
  BY DEF Free, Memory
<1>9. Freed(n, m, e)
  BY <1>1 DEF Free, Memory, Freed
<1> QED BY <1>9 DEF n

-----------------------------------------------------------------------------
(* The operations keep the memory consistent.                              *)

Touched(n, m, e) ==
    /\ MemInv(n)
    /\ n.ids = m.ids /\ n.block = m.block
    /\ n.stamp = [m.stamp EXCEPT ![e] = m.clock + 1]
    /\ n.entries = m.entries /\ n.bytes = m.bytes

\* A use moves an entry to the head; its stamp becomes the latest.
LEMMA TouchKeeps ==
  ASSUME NEW m, MemInv(m), NEW e \in m.ids
  PROVE  Touched(Touch(m, e), m, e)
<1> USE DEF MemInv, Touched
<1>1. /\ m \in Memory /\ e \in Ids /\ m.ids \in SUBSET Ids /\ m.clock \in Nat
      /\ Null \notin Ids
      /\ \A x \in m.ids : m.stamp[x] \in Nat /\ m.stamp[x] < m.clock + 1
  BY Constants DEF Memory
<1> DEFINE s == Stamped(m, e)
<1>a. Restamped(s, m, e)
  BY <1>1, StampedFields
<1> HIDE DEF s
<1>2. /\ s \in Memory
      /\ s.stamp = [m.stamp EXCEPT ![e] = m.clock + 1] /\ s.clock = m.clock + 1
      /\ s.prev = m.prev /\ s.next = m.next /\ s.head = m.head /\ s.tail = m.tail
      /\ s.ids = m.ids /\ s.block = m.block /\ s.users = m.users
      /\ s.refs = m.refs /\ s.entries = m.entries /\ s.bytes = m.bytes
  BY <1>a DEF Restamped
<1>3. \A x \in m.ids : s.stamp[x] = IF x = e THEN m.clock + 1 ELSE m.stamp[x]
  BY <1>1, <1>2 DEF Memory
<1>4. Shared(s) /\ s.entries = Cardinality(s.ids) /\ BytesExact(s)
      /\ \A x \in m.ids : s.stamp[x] <= s.clock
  BY <1>1, <1>2, <1>3 DEF Shared, BytesExact, InUse
<1>5. CASE m.head = e
  <2>1. \A x \in m.ids : m.next[x] # Null => m.next[x] \in m.ids /\ m.next[x] # e
                                             /\ m.stamp[m.next[x]] < m.stamp[x]
    BY <1>1, <1>5 DEF Linked
  <2>2. \A x \in m.ids : m.next[x] # Null => s.stamp[m.next[x]] < s.stamp[x]
    BY <1>1, <1>3, <2>1
  <2>3. Linked(s, m.ids)
    BY <1>2, <2>2 DEF Linked
  <2>4. Touch(m, e) = s
    BY <1>5 DEF Touch, s
  <2> QED BY <1>2, <1>4, <2>3, <2>4
<1>6. CASE m.head # e
  <2> DEFINE u == Unlink(s, e)
  <2> DEFINE v == Unlink(m, e)
  <2>1. Unlinked(u, s, e) /\ Unlinked(v, m, e)
    BY <1>1, <1>2, UnlinkFields
  <2>2. Linked(v, m.ids \ {e})
    BY <1>1, UnlinkLinked
  <2> HIDE DEF u, v
  <2>3. /\ u \in Memory
        /\ u.ids = s.ids /\ u.block = s.block /\ u.stamp = s.stamp
        /\ u.users = s.users /\ u.refs = s.refs /\ u.entries = s.entries
        /\ u.clock = s.clock /\ u.bytes = s.bytes
    BY <2>1 DEF Unlinked
  <2>4. /\ u.prev = v.prev /\ u.next = v.next /\ u.head = v.head /\ u.tail = v.tail
        /\ v.stamp = m.stamp
    BY <1>2, <2>1 DEF Unlinked
  <2>5. Linked(u, m.ids \ {e})
    <3>1. \A x, y \in m.ids \ {e} : v.stamp[x] < v.stamp[y] => u.stamp[x] < u.stamp[y]
      BY <1>3, <2>3, <2>4
    <3> QED BY <2>2, <2>4, <3>1, SameLinks
  <2>6. \A x \in m.ids \ {e} : u.stamp[x] < u.stamp[e]
    BY <1>1, <1>3, <2>3
  <2> DEFINE n == LinkHead(u, e)
  <2>7. Linked(n, (m.ids \ {e}) \cup {e})
    BY <1>1, <2>3, <2>5, <2>6, LinkHeadLinked
  <2>8. (m.ids \ {e}) \cup {e} = m.ids
    OBVIOUS
  <2>a. Headed(n, u, e)
    BY <1>1, <2>3, LinkHeadFields
  <2>10. Touch(m, e) = n
    BY <1>6 DEF Touch, n, u, s
  <2> HIDE DEF n
  <2>9. /\ n \in Memory
        /\ n.ids = u.ids /\ n.block = u.block /\ n.stamp = u.stamp
        /\ n.users = u.users /\ n.refs = u.refs /\ n.entries = u.entries
        /\ n.clock = u.clock /\ n.bytes = u.bytes
    BY <2>a DEF Headed
  <2>11. Shared(n) /\ BytesExact(n)
    BY <1>2, <1>4, <2>3, <2>9 DEF Shared, BytesExact, InUse
  <2> QED BY <1>2, <1>4, <2>3, <2>7, <2>8, <2>9, <2>10, <2>11
<1> QED BY <1>5, <1>6

LEMMA RemoveKeeps ==
  ASSUME NEW m, MemInv(m), NEW e \in m.ids
  PROVE  LET n == RemoveEntry(m, e) IN
         /\ MemInv(n)
         /\ n.ids = m.ids \ {e} /\ n.clock = m.clock
         /\ \A x \in n.ids : n.block[x] = m.block[x] /\ n.stamp[x] = m.stamp[x]
<1> USE DEF MemInv
<1> DEFINE b == m.block[e]
<1> DEFINE u == Unlink(m, e)
<1> DEFINE d == Detach(m, e)
<1> DEFINE r == Release(d, b)
<1> DEFINE n == Free(r, e)
<1>1. /\ m \in Memory /\ e \in Ids /\ m.ids \in SUBSET Ids /\ b \in Blocks
      /\ m.entries \in Nat
      /\ \A x \in m.ids : m.stamp[x] \in Nat
  BY DEF Memory, Shared
<1>2. Linked(u, m.ids \ {e}) /\ Unlinked(u, m, e)
  BY <1>1, UnlinkLinked, UnlinkFields
<1>3. Detached(d, m, e)
  BY <1>1, DetachFields
<1> HIDE DEF d
<1>4. /\ d \in Memory
      /\ d.users = [m.users EXCEPT ![b] = @ \ {e}] /\ d.entries = Minus(m.entries, 1)
      /\ d.prev = u.prev /\ d.next = u.next /\ d.head = u.head /\ d.tail = u.tail
      /\ d.ids = m.ids /\ d.block = m.block /\ d.stamp = m.stamp
      /\ d.refs = m.refs /\ d.clock = m.clock
      /\ d.bytes = Minus(m.bytes, EntryBytes)
  BY <1>3 DEF Detached
<1> HIDE DEF u
<1>5. u.stamp = m.stamp
  BY <1>2 DEF Unlinked
<1>6. /\ m.users[b] \subseteq Ids /\ e \in m.users[b]
      /\ m.refs[b] = Cardinality(m.users[b])
  BY <1>1 DEF Shared
<1>7. m.refs[b] > 0 /\ m.refs[b] \in Nat
  BY <1>6, Constants, FS_EmptySet
<1>8. Released(r, d, b)
  BY <1>1, <1>4, <1>7, ReleaseFields
<1> HIDE DEF r
<1>9. /\ r \in Memory /\ r.refs = [m.refs EXCEPT ![b] = @ - 1]
      /\ r.users = d.users /\ r.entries = d.entries
      /\ r.prev = d.prev /\ r.next = d.next /\ r.head = d.head /\ r.tail = d.tail
      /\ r.ids = d.ids /\ r.block = d.block /\ r.stamp = d.stamp /\ r.clock = d.clock
      /\ r.bytes = (IF m.refs[b] > 1 THEN d.bytes ELSE Minus(d.bytes, BlockBytes(b)))
  BY <1>4, <1>8 DEF Released
<1>10. Freed(n, r, e)
  BY <1>1, <1>9, FreeFields
<1>16. n = RemoveEntry(m, e)
  BY DEF n, r, d, RemoveEntry
<1> HIDE DEF n
<1>11. /\ n \in Memory /\ n.ids = m.ids \ {e}
       /\ n.block = [m.block EXCEPT ![e] = Null]
       /\ n.stamp = [m.stamp EXCEPT ![e] = 0]
       /\ n.users = [m.users EXCEPT ![b] = @ \ {e}]
       /\ n.refs = [m.refs EXCEPT ![b] = @ - 1]
       /\ n.entries = Minus(m.entries, 1) /\ n.clock = m.clock
       /\ n.prev = u.prev /\ n.next = u.next /\ n.head = u.head /\ n.tail = u.tail
       /\ n.bytes = (IF m.refs[b] > 1 THEN Minus(m.bytes, EntryBytes)
                     ELSE Minus(Minus(m.bytes, EntryBytes), BlockBytes(b)))
  BY <1>4, <1>9, <1>10 DEF Freed
<1>17. \A x \in n.ids : n.block[x] = m.block[x] /\ n.stamp[x] = m.stamp[x]
  BY <1>1, <1>11 DEF Memory
<1>18. Linked(n, n.ids)
  <2>1. \A x, y \in n.ids : u.stamp[x] < u.stamp[y] => n.stamp[x] < n.stamp[y]
    BY <1>5, <1>17
  <2>2. Linked(u, n.ids)
    BY <1>2, <1>11
  <2> QED BY <1>11, <2>1, <2>2, SameLinks
<1>19. n.entries = Cardinality(n.ids)
  <2>1. Cardinality(m.ids \ {e}) = Cardinality(m.ids) - 1 /\ Cardinality(m.ids) \in Nat
    BY <1>1, Constants, FS_RemoveElement
  <2>2. Cardinality(m.ids) # 0
    BY <1>1, Constants, FS_EmptySet
  <2> QED BY <1>11, <2>1, <2>2 DEF Minus
<1>20. Shared(n)
  <2>1. \A x \in n.ids : n.block[x] \in Blocks
    BY <1>11, <1>17 DEF Shared
  <2>2. ASSUME NEW c \in Blocks
        PROVE  /\ n.users[c] = {x \in n.ids : n.block[x] = c}
               /\ n.refs[c] = Cardinality(n.users[c])
    <3>1. /\ m.users[c] = {x \in m.ids : m.block[x] = c} /\ m.users[c] \subseteq Ids
          /\ m.refs[c] = Cardinality(m.users[c])
      BY <1>1 DEF Shared
    <3>2. CASE c = b
      <4>1. n.users[c] = m.users[c] \ {e} /\ n.refs[c] = m.refs[c] - 1
        BY <1>1, <1>11, <3>2 DEF Memory
      <4>2. Cardinality(m.users[c] \ {e}) = Cardinality(m.users[c]) - 1
        BY <1>6, <3>1, <3>2, Constants, FS_RemoveElement
      <4>3. m.users[c] \ {e} = {x \in n.ids : n.block[x] = c}
        BY <1>11, <1>17, <3>1
      <4> QED BY <3>1, <4>1, <4>2, <4>3
    <3>3. CASE c # b
      <4>1. n.users[c] = m.users[c] /\ n.refs[c] = m.refs[c]
        BY <1>1, <1>11, <3>3 DEF Memory
      <4>2. m.users[c] = {x \in n.ids : n.block[x] = c}
        BY <1>11, <1>17, <3>1, <3>3
      <4> QED BY <3>1, <4>1, <4>2
    <3> QED BY <3>2, <3>3
  <2> QED BY <2>1, <2>2 DEF Shared
<1>21. \A x \in n.ids : n.stamp[x] <= n.clock
  BY <1>11, <1>17
<1>22. BytesExact(n)
  BY <1>1, <1>7, <1>11, BytesOut
<1> QED BY <1>11, <1>16, <1>17, <1>18, <1>19, <1>20, <1>21, <1>22

Inserted(n, m, e, b) ==
    /\ MemInv(n)
    /\ n.ids = m.ids \cup {e}
    /\ n.block = [m.block EXCEPT ![e] = b]
    /\ n.stamp = [m.stamp EXCEPT ![e] = m.clock + 1]

LEMMA InsertKeeps ==
  ASSUME NEW m, MemInv(m), NEW e \in Ids, e \notin m.ids, NEW b \in Blocks
  PROVE  Inserted(Insert(m, e, b), m, e, b)
<1> USE DEF MemInv, Inserted
<1> DEFINE a == Share(m, e, b)
<1> DEFINE s == Stamped(a, e)
<1> DEFINE c == Enter(s, e)
<1> DEFINE n == LinkHead(c, e)
<1>1. /\ m \in Memory /\ m.ids \in SUBSET Ids /\ m.clock \in Nat
      /\ \A x \in m.ids : m.stamp[x] \in Nat /\ m.stamp[x] <= m.clock /\ x # e
  BY DEF Memory
<1>2. SharedBy(a, m, e, b)
  BY <1>1, ShareFields
<1> HIDE DEF a
<1>3. /\ a \in Memory
      /\ a.block = [m.block EXCEPT ![e] = b]
      /\ a.users = [m.users EXCEPT ![b] = @ \cup {e}]
      /\ a.refs = [m.refs EXCEPT ![b] = @ + 1]
      /\ a.stamp = m.stamp /\ a.clock = m.clock
      /\ a.prev = m.prev /\ a.next = m.next /\ a.head = m.head /\ a.tail = m.tail
      /\ a.ids = m.ids /\ a.entries = m.entries
      /\ a.bytes = m.bytes + (IF m.refs[b] = 0 THEN BlockBytes(b) ELSE 0)
  BY <1>2 DEF SharedBy
<1>4. Restamped(s, a, e)
  BY <1>3, StampedFields
<1> HIDE DEF s
<1>5. /\ s \in Memory
      /\ s.stamp = [m.stamp EXCEPT ![e] = m.clock + 1] /\ s.clock = m.clock + 1
      /\ s.prev = m.prev /\ s.next = m.next /\ s.head = m.head /\ s.tail = m.tail
      /\ s.ids = m.ids /\ s.block = a.block /\ s.users = a.users
      /\ s.refs = a.refs /\ s.entries = m.entries /\ s.bytes = a.bytes
  BY <1>3, <1>4 DEF Restamped
<1>6. Entered(c, s, e)
  BY <1>5, EnterFields
<1> HIDE DEF c
<1>7. /\ c \in Memory
      /\ c.ids = m.ids \cup {e} /\ c.entries = m.entries + 1
      /\ c.stamp = s.stamp /\ c.clock = m.clock + 1 /\ c.block = a.block
      /\ c.prev = m.prev /\ c.next = m.next /\ c.head = m.head /\ c.tail = m.tail
      /\ c.users = a.users /\ c.refs = a.refs /\ c.bytes = a.bytes + EntryBytes
  BY <1>5, <1>6 DEF Entered
<1>8. /\ c.stamp[e] = m.clock + 1
      /\ \A x \in m.ids : c.stamp[x] = m.stamp[x]
  BY <1>1, <1>5, <1>7 DEF Memory
<1>9. Linked(c, m.ids)
  BY <1>7, <1>8, SameLinks
<1>10. \A x \in m.ids : c.stamp[x] < c.stamp[e]
  BY <1>1, <1>8
<1>11. Linked(n, m.ids \cup {e}) /\ Headed(n, c, e)
  BY <1>1, <1>7, <1>9, <1>10, LinkHeadLinked, LinkHeadFields
<1>12. n = Insert(m, e, b)
  BY DEF n, c, s, a, Insert
<1> HIDE DEF n
<1>13. /\ n \in Memory /\ n.ids = m.ids \cup {e} /\ n.entries = m.entries + 1
       /\ n.block = [m.block EXCEPT ![e] = b]
       /\ n.users = [m.users EXCEPT ![b] = @ \cup {e}]
       /\ n.refs = [m.refs EXCEPT ![b] = @ + 1]
       /\ n.stamp = c.stamp /\ n.clock = m.clock + 1
       /\ n.bytes = m.bytes + (IF m.refs[b] = 0 THEN BlockBytes(b) ELSE 0) + EntryBytes
  BY <1>3, <1>7, <1>11 DEF Headed
<1>14. n.block[e] = b /\ \A x \in m.ids : n.block[x] = m.block[x]
  BY <1>1, <1>13 DEF Memory
<1>15. n.entries = Cardinality(n.ids)
  BY <1>1, <1>13, Constants, FS_AddElement
<1>16. Shared(n)
  <2>1. \A x \in n.ids : n.block[x] \in Blocks
    BY <1>13, <1>14 DEF Shared
  <2>2. ASSUME NEW d \in Blocks
        PROVE  /\ n.users[d] = {x \in n.ids : n.block[x] = d}
               /\ n.refs[d] = Cardinality(n.users[d])
    <3>1. /\ m.users[d] = {x \in m.ids : m.block[x] = d} /\ m.users[d] \subseteq Ids
          /\ m.refs[d] = Cardinality(m.users[d])
      BY <1>1 DEF Shared
    <3>2. CASE d = b
      <4>1. n.users[d] = m.users[d] \cup {e} /\ n.refs[d] = m.refs[d] + 1
        BY <1>1, <1>13, <3>2 DEF Memory
      <4>2. Cardinality(m.users[d] \cup {e}) = Cardinality(m.users[d]) + 1
        BY <3>1, Constants, FS_AddElement
      <4>3. m.users[d] \cup {e} = {x \in n.ids : n.block[x] = d}
        BY <1>13, <1>14, <3>1, <3>2
      <4> QED BY <3>1, <4>1, <4>2, <4>3
    <3>3. CASE d # b
      <4>1. n.users[d] = m.users[d] /\ n.refs[d] = m.refs[d]
        BY <1>1, <1>13, <3>3 DEF Memory
      <4>2. m.users[d] = {x \in n.ids : n.block[x] = d}
        BY <1>13, <1>14, <3>1, <3>3
      <4> QED BY <3>1, <4>1, <4>2
    <3> QED BY <3>2, <3>3
  <2> QED BY <2>1, <2>2 DEF Shared
<1>17. \A x \in n.ids : n.stamp[x] <= n.clock
  BY <1>1, <1>8, <1>13
<1>18. BytesExact(n)
  BY <1>1, <1>13, BytesIn
<1>19. n.stamp = [m.stamp EXCEPT ![e] = m.clock + 1]
  BY <1>5, <1>7, <1>13
<1> QED BY <1>11, <1>12, <1>13, <1>15, <1>16, <1>17, <1>18, <1>19

\* After a put the entry is there with its text and used last; the others are
\* as they were.
PutIn(n, m, e, b) ==
    /\ MemInv(n)
    /\ n.ids = m.ids \cup {e}
    /\ \A x \in n.ids : n.block[x] = IF x = e THEN b ELSE m.block[x]
    /\ \A x \in n.ids : x # e => n.stamp[x] = m.stamp[x] /\ m.stamp[x] < n.stamp[e]

LEMMA PutKeeps ==
  ASSUME NEW m, MemInv(m), NEW e \in Ids, NEW b \in Blocks
  PROVE  PutIn(PutEntry(m, e, b), m, e, b)
<1>a. /\ m.ids \subseteq Ids /\ m.clock \in Nat /\ m.stamp \in [Ids -> Nat]
      /\ m.block \in [Ids -> Blocks \cup {Null}]
      /\ \A x \in m.ids : m.stamp[x] \in Nat /\ m.stamp[x] < m.clock + 1
  BY DEF MemInv, Memory
<1>1. CASE e \in m.ids /\ m.block[e] = b
  <2> DEFINE n == Touch(m, e)
  <2>1. Touched(n, m, e)
    BY <1>1, TouchKeeps
  <2>2. n = PutEntry(m, e, b)
    BY <1>1 DEF PutEntry
  <2> HIDE DEF n
  <2>3. /\ MemInv(n) /\ n.ids = m.ids /\ n.block = m.block
        /\ n.stamp = [m.stamp EXCEPT ![e] = m.clock + 1]
    BY <2>1 DEF Touched
  <2>4. PutIn(n, m, e, b)
    BY <1>a, <1>1, <2>3 DEF PutIn
  <2> QED BY <2>2, <2>4
<1>2. CASE e \in m.ids /\ m.block[e] # b
  <2> DEFINE r == RemoveEntry(m, e)
  <2>1. /\ MemInv(r) /\ r.ids = m.ids \ {e} /\ r.clock = m.clock
        /\ \A x \in r.ids : r.block[x] = m.block[x] /\ r.stamp[x] = m.stamp[x]
    BY <1>2, RemoveKeeps
  <2>2. PutEntry(m, e, b) = Insert(r, e, b)
    BY <1>2 DEF PutEntry
  <2> HIDE DEF r
  <2> DEFINE n == Insert(r, e, b)
  <2>3. Inserted(n, r, e, b)
    BY <2>1, InsertKeeps
  <2> HIDE DEF n
  <2>4. /\ MemInv(n) /\ n.ids = r.ids \cup {e}
        /\ n.block = [r.block EXCEPT ![e] = b]
        /\ n.stamp = [r.stamp EXCEPT ![e] = m.clock + 1]
    BY <2>1, <2>3 DEF Inserted
  <2>5. /\ r.block \in [Ids -> Blocks \cup {Null}] /\ r.stamp \in [Ids -> Nat]
        /\ r.ids \subseteq Ids
    BY <2>1 DEF MemInv, Memory
  <2>6. n.ids = m.ids \cup {e}
    BY <2>1, <2>4
  <2>7. \A x \in n.ids : n.block[x] = IF x = e THEN b ELSE m.block[x]
    BY <2>1, <2>4, <2>5
  <2>8. ASSUME NEW x \in n.ids, x # e
        PROVE  n.stamp[x] = m.stamp[x] /\ m.stamp[x] < n.stamp[e]
    <3>1. x \in r.ids /\ x \in m.ids /\ n.stamp[x] = r.stamp[x] /\ n.stamp[e] = m.clock + 1
      BY <2>1, <2>4, <2>5, <2>6, <2>8
    <3> QED BY <1>a, <2>1, <3>1
  <2>9. PutIn(n, m, e, b)
    BY <2>4, <2>6, <2>7, <2>8 DEF PutIn
  <2> QED BY <2>2, <2>9 DEF n
<1>3. CASE e \notin m.ids
  <2> DEFINE n == Insert(m, e, b)
  <2>1. Inserted(n, m, e, b)
    BY <1>3, InsertKeeps
  <2>2. PutEntry(m, e, b) = n
    BY <1>3 DEF PutEntry
  <2> HIDE DEF n
  <2>3. /\ MemInv(n) /\ n.ids = m.ids \cup {e}
        /\ n.block = [m.block EXCEPT ![e] = b]
        /\ n.stamp = [m.stamp EXCEPT ![e] = m.clock + 1]
    BY <2>1 DEF Inserted
  <2>4. \A x \in n.ids : n.block[x] = IF x = e THEN b ELSE m.block[x]
    BY <1>a, <2>3
  <2>5. \A x \in n.ids : x # e => n.stamp[x] = m.stamp[x] /\ m.stamp[x] < n.stamp[e]
    BY <1>a, <2>3
  <2>6. PutIn(n, m, e, b)
    BY <2>3, <2>4, <2>5 DEF PutIn
  <2> QED BY <2>2, <2>6
<1> QED BY <1>1, <1>2, <1>3

\* Stamps fall along the list, so the tail is the entry used the longest ago.
LEMMA TailIsOldest ==
  ASSUME NEW m, MemInv(m), m.tail # Null
  PROVE  m.tail \in m.ids /\ \A x \in m.ids : m.stamp[m.tail] <= m.stamp[x]
<1> USE DEF MemInv
<1>1. /\ m.ids # {} /\ m.tail \in m.ids
      /\ \A x \in m.ids : m.stamp[x] \in Nat
  BY DEF Linked, Memory
<1>2. PICK x \in m.ids : \A y \in m.ids : ~(m.stamp[y] < m.stamp[x])
  BY <1>1, LeastStamp
<1>3. m.next[x] = Null
  BY <1>2 DEF Linked
<1>4. x = m.tail
  BY <1>3 DEF Linked
<1> QED BY <1>1, <1>2, <1>4
-----------------------------------------------------------------------------
(* The invariant.                                                          *)

\* The text b is what the model produced for the call e.
Told(e, b) == \E s \in said : e \in s.ids /\ s.block = b

\* No id stands for another text anywhere: in the memory, in a file, or on the
\* way from one to the other.
Truthful ==
    /\ \A e \in mem.ids : Told(e, mem.block[e])
    /\ \A t \in DOMAIN maps : \A p \in maps[t] : Told(p[1], p[2])
    /\ \A p \in job.todo : Told(p[1], p[2])

\* A restore reads files that exist, and what attach has matched so far is the
\* text of every call it has looked up.
JobInv ==
    /\ job.files \subseteq DOMAIN maps
    /\ job.wanted = {} \/ job.pc = "idle" => job.files = {}
    /\ job.exact => \A e \in job.group \ job.rest :
                       job.match \in Blocks /\ Told(e, job.match)

ToolInv == TypeOK /\ MemInv(mem) /\ Truthful /\ JobInv /\ AttachTrue

LEMMA EmptyKeeps == MemInv(Empty)
<1>1. Empty.ids = {} /\ Cardinality({}) = 0 /\ 0 \in Nat
  BY FS_EmptySet DEF Empty
<1>2. Empty \in Memory
  BY DEF Empty, Memory, Pointer
<1>3. Linked(Empty, {}) /\ Shared(Empty) /\ Empty.entries = 0
  BY <1>1 DEF Empty, Linked, Shared
<1>4. Empty.bytes = 0 /\ InUse(Empty) = {}
  BY DEF Empty, InUse
<1>5. Size({}, {}) = 0
  <2>1. UNION {BytesOf(b) : b \in {}} = {}
    OBVIOUS
  <2>2. EntryBytes * 0 + 0 = 0
    BY Constants
  <2> QED BY <1>1, <2>1, <2>2 DEF Size
<1> QED BY <1>1, <1>2, <1>3, <1>4, <1>5 DEF MemInv, BytesExact

LEMMA Markers ==
  /\ Idle \in Jobs /\ Idle.pc = "idle" /\ Idle.todo = {} /\ Idle.files = {}
  /\ Idle.group = {} /\ Idle.wanted = {}
  /\ Unattached.group = {} /\ Unattached.text = Null
BY DEF Idle, Jobs, Unattached

LEMMA ToolInvInit == Init => ToolInv
<1> SUFFICES ASSUME Init PROVE ToolInv
  OBVIOUS
<1>1. mem = Empty /\ said = {} /\ job = Idle /\ attached = Unattached /\ DOMAIN maps = {}
  BY DEF Init
<1>2. MemInv(mem) /\ mem.ids = {}
  BY <1>1, EmptyKeeps DEF Empty
<1>3. TypeOK
  BY <1>1, <1>2, Markers DEF TypeOK, MemInv
<1> QED BY <1>1, <1>2, <1>3, Markers DEF ToolInv, Truthful, JobInv, AttachTrue

LEMMA ToolInvNext == ToolInv /\ [Next]_vars => ToolInv'
<1> SUFFICES ASSUME ToolInv, [Next]_vars PROVE ToolInv'
  OBVIOUS
<1> USE DEF ToolInv
<1>a. job \in Jobs /\ mem.ids \subseteq Ids /\ mem.block \in [Ids -> Blocks \cup {Null}]
  BY DEF TypeOK, MemInv, Memory
<1>b. ASSUME said \subseteq said' PROVE \A e, b : Told(e, b) => Told(e, b)'
  BY <1>b DEF Told
<1>1. ASSUME NEW a \in Answers, Remember(a) PROVE ToolInv'
  <2> DEFINE b == Raw(a)
  <2>1. PICK ids \in SUBSET (Ids \ UNION {s.ids : s \in said}) :
           /\ said' = said \cup {[ids |-> ids, block |-> b]}
           /\ job' = [Idle EXCEPT !.pc = "put", !.todo = ids \X {b}]
    BY <1>1 DEF Remember
  <2>2. /\ job.pc = "idle" /\ attached' = Unattached /\ UNCHANGED <<mem, maps>>
        /\ b \in Blocks /\ ids \subseteq Ids
    BY <1>1 DEF Remember, Blocks
  <2> HIDE DEF b
  <2>3. /\ job' \in Jobs /\ job'.todo = ids \X {b} /\ job'.files = {} /\ job'.group = {}
    <3>1. ids \X {b} \in SUBSET Pairs
      BY <2>2 DEF Pairs
    <3> DEFINE q == ids \X {b}
    <3>2. job' = [Idle EXCEPT !.pc = "put", !.todo = q] /\ q \in SUBSET Pairs
      BY <2>1, <3>1
    <3> HIDE DEF q
    <3>3. /\ job' \in Jobs /\ job'.todo = q /\ job'.files = {} /\ job'.group = {}
      BY <3>2, Markers DEF Jobs
    <3> QED BY <3>3 DEF q
  <2>4. TypeOK' /\ MemInv(mem)' /\ AttachTrue'
    BY <2>1, <2>2, <2>3, Markers DEF TypeOK, AttachTrue
  <2>5. \A p \in ids \X {b} : Told(p[1], p[2])'
    <3> DEFINE s == [ids |-> ids, block |-> b]
    <3>1. s \in said' /\ s.ids = ids /\ s.block = b
      BY <2>1
    <3> HIDE DEF s
    <3>2. \A e \in ids : Told(e, b)'
      BY <3>1 DEF Told
    <3> QED BY <3>2
  <2>6. Truthful' /\ JobInv'
    BY <1>b, <2>1, <2>2, <2>3, <2>5 DEF Truthful, JobInv
  <2> QED BY <2>4, <2>6
<1>0. ASSUME NEW a \in Answers, RememberNone(a) PROVE ToolInv'
  <2> DEFINE b == Raw(a)
  <2>1. PICK ids \in SUBSET (Ids \ UNION {s.ids : s \in said}) :
           said' = said \cup {[ids |-> ids, block |-> b]}
    BY <1>0 DEF RememberNone
  <2>2. /\ attached' = Unattached /\ UNCHANGED <<mem, maps, job>>
        /\ b \in Blocks /\ ids \subseteq Ids
    BY <1>0 DEF RememberNone, Blocks
  <2> HIDE DEF b
  <2>3. TypeOK' /\ MemInv(mem)' /\ AttachTrue'
    BY <2>1, <2>2, Markers DEF TypeOK, AttachTrue
  <2>4. Truthful' /\ JobInv'
    BY <1>b, <2>1, <2>2 DEF Truthful, JobInv
  <2> QED BY <2>3, <2>4
<1>2. CASE Put
  <2>1. PICK p \in job.todo :
           /\ mem' = PutEntry(mem, p[1], p[2])
           /\ job' = [job EXCEPT !.pc = "prune", !.todo = @ \ {p}]
    BY <1>2 DEF Put
  <2>2. UNCHANGED <<maps, said, attached>> /\ job.pc = "put"
    BY <1>2 DEF Put
  <2>3. p[1] \in Ids /\ p[2] \in Blocks /\ Told(p[1], p[2])
    BY <1>a DEF Jobs, Pairs, Truthful
  <2>4. /\ MemInv(mem')
        /\ \A x \in mem'.ids : \/ x \in mem.ids /\ mem'.block[x] = mem.block[x]
                               \/ x = p[1] /\ mem'.block[x] = p[2]
    <3>1. PutIn(PutEntry(mem, p[1], p[2]), mem, p[1], p[2])
      BY <2>3, PutKeeps
    <3> QED BY <2>1, <3>1 DEF PutIn
  <2>5. /\ job' \in Jobs /\ job'.todo \subseteq job.todo /\ job'.files = job.files
        /\ job'.wanted = job.wanted /\ job'.pc = "prune" /\ job'.exact = job.exact
        /\ job'.group = job.group /\ job'.rest = job.rest /\ job'.match = job.match
    BY <1>a, <2>1 DEF Jobs
  <2>6. Truthful'
    BY <2>2, <2>3, <2>4, <2>5 DEF Truthful, Told
  <2>7. JobInv' /\ AttachTrue'
    BY <2>2, <2>5 DEF JobInv, Told, AttachTrue
  <2> QED BY <2>2, <2>4, <2>5, <2>6, <2>7 DEF TypeOK, MemInv
<1>3. CASE PruneOne
  <2>1. /\ mem.tail # Null /\ mem' = RemoveEntry(mem, mem.tail)
        /\ UNCHANGED <<maps, said, job, attached>>
    BY <1>3 DEF PruneOne, Over
  <2>2. mem.tail \in mem.ids
    BY <2>1, TailIsOldest
  <2>3. /\ MemInv(mem') /\ mem'.ids \subseteq mem.ids
        /\ \A x \in mem'.ids : mem'.block[x] = mem.block[x]
    BY <2>1, <2>2, RemoveKeeps
  <2>4. Truthful' /\ JobInv' /\ AttachTrue'
    BY <2>1, <2>3 DEF Truthful, JobInv, Told, AttachTrue
  <2> QED BY <2>1, <2>3, <2>4 DEF TypeOK, MemInv
<1>4. CASE PruneDone
  <2>1. /\ UNCHANGED <<mem, maps, said, attached>>
        /\ job' = [job EXCEPT !.pc = IF job.todo # {} THEN "put"
                                 ELSE IF job.wanted # {} THEN "restore" ELSE "idle"]
    BY <1>4 DEF PruneDone
  <2>2. /\ job' \in Jobs /\ job'.todo = job.todo /\ job'.files = job.files
        /\ job'.wanted = job.wanted /\ job'.exact = job.exact
        /\ job'.group = job.group /\ job'.rest = job.rest /\ job'.match = job.match
        /\ job'.pc = "idle" => job.wanted = {}
    BY <1>a, <2>1 DEF Jobs
  <2> QED BY <2>1, <2>2 DEF TypeOK, Truthful, JobInv, Told, AttachTrue
<1>5. ASSUME NEW g \in Groups, Request(g) PROVE ToolInv'
  <2>1. /\ UNCHANGED <<mem, maps, said>> /\ attached' = Unattached
        /\ {} \notin g /\ g # {}
        /\ job' = [Idle EXCEPT !.pc = "restore", !.files = DOMAIN maps,
                               !.wanted = UNION g, !.groups = g]
    BY <1>5 DEF Request
  <2>2. g \subseteq SUBSET Ids
    BY DEF Groups, TypeOK
  <2>3. UNION g # {} /\ UNION g \subseteq Ids /\ DOMAIN maps \subseteq Texts
    <3>1. PICK h \in g : h # {}
      BY <2>1
    <3>2. PICK e \in h : TRUE
      BY <3>1
    <3> QED BY <2>2, <3>2 DEF TypeOK
  <2>4. /\ job' \in Jobs /\ job'.todo = {} /\ job'.files = DOMAIN maps
        /\ job'.wanted # {} /\ job'.group = {} /\ job'.pc = "restore"
    BY <2>1, <2>2, <2>3, Markers DEF Jobs
  <2> QED BY <2>1, <2>4, Markers DEF TypeOK, Truthful, JobInv, Told, AttachTrue
<1>6. CASE RestoreFile
  <2>1. PICK t \in job.files :
          job' = [job EXCEPT !.files = @ \ {t}, !.todo = Readable(t, job.wanted),
                             !.pc = IF Readable(t, job.wanted) = {} THEN @ ELSE "put"]
    BY <1>6 DEF RestoreFile
  <2>2. job.pc = "restore" /\ UNCHANGED <<mem, maps, said, attached>>
    BY <1>6 DEF RestoreFile
  <2>3. t \in DOMAIN maps /\ Readable(t, job.wanted) \subseteq maps[t]
        /\ maps[t] \subseteq Pairs
    BY DEF JobInv, Readable, TypeOK
  <2>4. /\ job' \in Jobs /\ job'.todo \subseteq maps[t] /\ job'.files \subseteq job.files
        /\ job'.wanted = job.wanted /\ job'.exact = job.exact /\ job'.pc # "idle"
        /\ job'.group = job.group /\ job'.rest = job.rest /\ job'.match = job.match
    BY <1>a, <2>1, <2>2, <2>3 DEF Jobs
  <2> QED BY <2>2, <2>3, <2>4 DEF TypeOK, Truthful, JobInv, Told, AttachTrue
<1>7. CASE Message
  <2>1. PICK g \in job.groups :
          job' = [job EXCEPT !.pc = "attach", !.groups = @ \ {g}, !.group = g, !.rest = g,
                             !.match = Null, !.exact = TRUE]
    BY <1>7 DEF Message
  <2>2. UNCHANGED <<mem, maps, said, attached>>
    BY <1>7 DEF Message
  <2>3. /\ job' \in Jobs /\ job'.todo = job.todo /\ job'.files = job.files
        /\ job'.wanted = job.wanted /\ job'.pc = "attach"
        /\ job'.group = g /\ job'.rest = g
    BY <1>a, <2>1 DEF Jobs
  <2> QED BY <2>2, <2>3 DEF TypeOK, Truthful, JobInv, Told, AttachTrue
<1>8. CASE LookUp
  <2>1. UNCHANGED <<maps, said, attached>> /\ job.pc = "attach"
    BY <1>8 DEF LookUp
  <2>2. PICK e \in job.rest :
          IF e \in mem.ids
          THEN /\ mem' = Touch(mem, e)
               /\ job' = [job EXCEPT !.rest = @ \ {e},
                                     !.match = IF @ = Null THEN mem.block[e] ELSE @,
                                     !.exact = @ /\ SameBlock(e)]
          ELSE /\ job' = [job EXCEPT !.rest = @ \ {e}, !.exact = FALSE]
               /\ UNCHANGED mem
    BY <1>8 DEF LookUp
  <2>3. CASE e \in mem.ids
    <3>1. mem.block[e] \in Blocks /\ Told(e, mem.block[e])
      BY <2>3 DEF MemInv, Shared, Truthful
    <3>2. MemInv(mem') /\ mem'.ids = mem.ids /\ mem'.block = mem.block
      <4>1. Touched(Touch(mem, e), mem, e)
        BY <2>3, TouchKeeps
      <4> QED BY <2>2, <2>3, <4>1 DEF Touched
    <3> DEFINE b == IF job.match = Null THEN mem.block[e] ELSE job.match
    <3> DEFINE x == job.exact /\ SameBlock(e)
    <3>3. b \in Blocks \cup {Null} /\ x \in BOOLEAN
      BY <1>a, <3>1 DEF Jobs, SameBlock
    <3>4. x => b = mem.block[e] /\ job.exact
      BY DEF SameBlock
    <3>5. job' = [job EXCEPT !.rest = @ \ {e}, !.match = b, !.exact = x]
      BY <2>2, <2>3
    <3>6. x /\ job.match # Null => b = job.match
      OBVIOUS
    <3> HIDE DEF b, x
    <3>7. /\ job' \in Jobs /\ job'.todo = job.todo /\ job'.files = job.files
          /\ job'.wanted = job.wanted /\ job'.pc = job.pc
          /\ job'.group = job.group /\ job'.rest = job.rest \ {e}
          /\ job'.match = b /\ job'.exact = x
      BY <1>a, <3>3, <3>5 DEF Jobs
    <3>8. ASSUME x, NEW y \in job.group \ (job.rest \ {e})
          PROVE  b \in Blocks /\ Told(y, b)
      <4>1. CASE y = e
        BY <3>1, <3>4, <3>8, <4>1
      <4>2. CASE y # e
        <5>1. job.match \in Blocks /\ Told(y, job.match)
          BY <3>4, <3>8, <4>2 DEF JobInv
        <5> QED BY <3>6, <3>8, <5>1, Constants
      <4> QED BY <4>1, <4>2
    <3>9. JobInv'
      BY <2>1, <3>7, <3>8 DEF JobInv, Told
    <3> QED BY <2>1, <3>2, <3>7, <3>9 DEF TypeOK, MemInv, Truthful, Told, AttachTrue
  <2>4. CASE e \notin mem.ids
    <3>1. /\ job' = [job EXCEPT !.rest = @ \ {e}, !.exact = FALSE] /\ UNCHANGED mem
      BY <2>2, <2>4
    <3>2. /\ job' \in Jobs /\ job'.todo = job.todo /\ job'.files = job.files
          /\ job'.wanted = job.wanted /\ job'.pc = job.pc /\ ~job'.exact
      BY <1>a, <3>1 DEF Jobs
    <3> QED BY <2>1, <3>1, <3>2 DEF TypeOK, Truthful, JobInv, Told, AttachTrue
  <2> QED BY <2>3, <2>4
<1>9. CASE Attach
  <2>1. /\ job.rest = {} /\ UNCHANGED <<mem, maps, said>>
        /\ attached' = [group |-> job.group, text |-> IF job.exact THEN job.match ELSE Null]
        /\ job' = IF job.groups = {} THEN Idle ELSE [job EXCEPT !.group = {}]
    BY <1>9 DEF Attach
  <2>2. /\ job' \in Jobs /\ job'.todo \subseteq job.todo /\ job'.files \subseteq job.files
        /\ job'.group = {}
        /\ job'.pc = "idle" \/ job'.wanted = {} => job'.files = {}
    <3>1. CASE job.groups = {}
      BY <2>1, <3>1, Markers
    <3>2. CASE job.groups # {}
      <4>1. job' = [job EXCEPT !.group = {}]
        BY <2>1, <3>2
      <4>2. /\ job' \in Jobs /\ job'.todo = job.todo /\ job'.files = job.files
            /\ job'.group = {} /\ job'.pc = job.pc /\ job'.wanted = job.wanted
        BY <1>a, <4>1 DEF Jobs
      <4> QED BY <4>2 DEF JobInv
    <3> QED BY <3>1, <3>2
  <2>3. /\ attached'.group = job.group
        /\ attached'.text = IF job.exact THEN job.match ELSE Null
        /\ job.group \subseteq Ids /\ job.match \in Blocks \cup {Null}
    BY <1>a, <2>1 DEF Jobs
  <2>4. AttachTrue'
    BY <2>1, <2>3 DEF AttachTrue, JobInv, Told
  <2> QED BY <2>1, <2>2, <2>3, <2>4 DEF TypeOK, Truthful, JobInv, Told
<1>10. ASSUME NEW t \in Texts, SaveMap(t) PROVE ToolInv'
  <2>1. /\ job.pc = "idle" /\ UNCHANGED <<mem, said, job>> /\ attached' = Unattached
        /\ DOMAIN maps' = DOMAIN maps \cup {t}
        /\ \A u \in DOMAIN maps' : maps'[u] = Written(t) \/ (u \in DOMAIN maps /\ maps'[u] = maps[u])
    <3>1. maps' = [u \in DOMAIN maps \cup {t} |->
                     IF u = t /\ (t \notin DOMAIN maps \/ Written(t) # {})
                     THEN Written(t) ELSE maps[u]]
      BY <1>10 DEF SaveMap
    <3>2. /\ job.pc = "idle" /\ UNCHANGED <<mem, said, job>>
          /\ attached' = Unattached
      BY <1>10 DEF SaveMap
    <3>3. DOMAIN maps' = DOMAIN maps \cup {t}
      BY <3>1
    <3>4. ASSUME NEW u \in DOMAIN maps'
          PROVE  maps'[u] = Written(t) \/ (u \in DOMAIN maps /\ maps'[u] = maps[u])
      BY <3>1, <3>3
    <3> QED BY <3>2, <3>3, <3>4
  <2>2. Written(t) \subseteq Pairs
    BY DEF Written
  <2>3. \A p \in Written(t) : p[1] \in mem.ids /\ mem.block[p[1]] = p[2]
    BY <2>2 DEF Written, Pairs, MemInv, Shared
  <2>4. \A p \in Written(t) : Told(p[1], p[2])
    BY <2>3 DEF Truthful
  <2> QED BY <2>1, <2>2, <2>4, Markers DEF TypeOK, Truthful, JobInv, Told, AttachTrue
<1>11. ASSUME NEW t \in Texts, LoadMap(t) PROVE ToolInv'
  <2>1. /\ job.pc = "idle" /\ UNCHANGED <<mem, maps, said>> /\ attached' = Unattached
        /\ t \in DOMAIN maps
        /\ job' = [Idle EXCEPT !.pc = "put", !.todo = Readable(t, Ids)]
    BY <1>11 DEF LoadMap
  <2>2. Readable(t, Ids) \subseteq maps[t] /\ maps[t] \subseteq Pairs
    BY <2>1 DEF Readable, TypeOK
  <2>3. /\ job' \in Jobs /\ job'.todo = Readable(t, Ids) /\ job'.files = {}
        /\ job'.group = {}
    BY <2>1, <2>2, Markers DEF Jobs
  <2> QED BY <2>1, <2>2, <2>3, Markers DEF TypeOK, Truthful, JobInv, Told, AttachTrue
<1>12. ASSUME NEW t \in Texts, DropFile(t) PROVE ToolInv'
  <2>1. /\ job.pc = "idle" /\ UNCHANGED <<mem, said, job>> /\ attached' = Unattached
        /\ DOMAIN maps' = DOMAIN maps \ {t}
        /\ \A u \in DOMAIN maps' : maps'[u] = maps[u]
    BY <1>12 DEF DropFile, Restrict
  <2> QED BY <2>1, Markers DEF TypeOK, Truthful, JobInv, Told, AttachTrue
<1>13. CASE Restart
  <2>1. mem' = Empty /\ job' = Idle /\ attached' = Unattached /\ UNCHANGED <<maps, said>>
    BY <1>13 DEF Restart
  <2>2. MemInv(mem') /\ mem'.ids = {}
    BY <2>1, EmptyKeeps DEF Empty
  <2> QED BY <2>1, <2>2, Markers DEF TypeOK, MemInv, Truthful, JobInv, Told, AttachTrue
<1>14. CASE UNCHANGED vars
  BY <1>14 DEF vars, TypeOK, Truthful, JobInv, Told, AttachTrue
<1> QED
  BY <1>0, <1>1, <1>2, <1>3, <1>4, <1>5, <1>6, <1>7, <1>8, <1>9, <1>10, <1>11, <1>12,
     <1>13, <1>14 DEF Next
-----------------------------------------------------------------------------
(* The limits.                                                             *)

Limited(m) == m.entries <= MaxEntries /\ m.bytes <= MaxBytes

LEMMA EmptyLimited == Limited(Empty)
BY Constants DEF Limited, Empty

\* A prune that stops for want of entries has nothing left to count.
LEMMA PrunedLimited ==
  ASSUME NEW m, MemInv(m), ~Over(m)
  PROVE  Limited(m)
<1> USE DEF MemInv
<1>1. m.entries \in Nat /\ m.bytes \in Nat /\ m.ids \subseteq Ids
  BY DEF Memory
<1>2. CASE m.tail # Null
  BY <1>1, <1>2, Constants DEF Over, Limited
<1>3. CASE m.tail = Null
  <2>1. m.ids = {}
    BY <1>3 DEF Linked
  <2>2. InUse(m) = {}
    BY <1>1, <2>1, InUseBlocks
  <2>3. m.entries = 0
    BY <2>1, FS_EmptySet
  <2>4. Size({}, {}) = 0
    BY EmptyKeeps DEF BytesExact, Empty, InUse
  <2>5. m.bytes = 0
    BY <2>1, <2>2, <2>4 DEF BytesExact
  <2> QED BY <2>3, <2>5, Constants DEF Limited
<1> QED BY <1>2, <1>3

Pruning == job.pc \in {"put", "prune"}

LEMMA LimitsNext ==
  ToolInv /\ (~Pruning => Limited(mem)) /\ [Next]_vars => (~Pruning => Limited(mem))'
<1> SUFFICES ASSUME ToolInv, ~Pruning => Limited(mem), [Next]_vars, ~Pruning'
             PROVE  Limited(mem')
  OBVIOUS
<1> USE DEF Pruning
<1>a. job \in Jobs /\ MemInv(mem)
  BY DEF ToolInv, TypeOK
<1>1. ASSUME NEW a \in Answers, Remember(a) \/ RememberNone(a) PROVE Limited(mem')
  BY <1>1 DEF Remember, RememberNone
<1>2. CASE Put
  <2>1. PICK p \in job.todo : job' = [job EXCEPT !.pc = "prune", !.todo = @ \ {p}]
    BY <1>2 DEF Put
  <2> QED BY <1>a, <2>1 DEF Jobs
<1>3. CASE PruneOne
  BY <1>3 DEF PruneOne
<1>4. CASE PruneDone
  BY <1>4, <1>a, PrunedLimited DEF PruneDone
<1>5. ASSUME NEW g \in Groups, Request(g) PROVE Limited(mem')
  BY <1>5 DEF Request
<1>6. CASE RestoreFile
  BY <1>6 DEF RestoreFile
<1>7. CASE Message
  BY <1>7 DEF Message
<1>8. CASE LookUp
  <2>1. job.pc = "attach" /\ \E e \in job.rest : IF e \in mem.ids THEN mem' = Touch(mem, e)
                                                              ELSE UNCHANGED mem
    BY <1>8 DEF LookUp
  <2>2. PICK e \in job.rest : IF e \in mem.ids THEN mem' = Touch(mem, e) ELSE UNCHANGED mem
    BY <2>1
  <2>3. e \in mem.ids => Touched(Touch(mem, e), mem, e)
    BY <1>a, TouchKeeps
  <2> QED BY <2>1, <2>2, <2>3 DEF Touched, Limited
<1>9. CASE Attach
  BY <1>9 DEF Attach
<1>10. ASSUME NEW t \in Texts, SaveMap(t) \/ LoadMap(t) \/ DropFile(t) PROVE Limited(mem')
  BY <1>10 DEF SaveMap, LoadMap, DropFile
<1>11. CASE Restart
  BY <1>11, EmptyLimited DEF Restart
<1>12. CASE UNCHANGED vars
  BY <1>12 DEF vars
<1> QED
  BY <1>1, <1>2, <1>3, <1>4, <1>5, <1>6, <1>7, <1>8, <1>9, <1>10, <1>11, <1>12 DEF Next
-----------------------------------------------------------------------------
(* What a restore brings back.                                             *)

\* The pairs of the files that the request has read.
Fetched == UNION {Readable(t, job.wanted) : t \in DOMAIN maps \ job.files}

\* The entries that this request has put: each as a file has it, none gone, and
\* all used after every other entry.
Recent(U) ==
    /\ U \subseteq mem.ids
    /\ \A p \in Fetched \ job.todo : p[1] \in U
    /\ \A e \in U : <<e, mem.block[e]>> \in Held
    /\ \A e \in U, y \in mem.ids \ U : mem.stamp[y] < mem.stamp[e]

Steps ==
    /\ job.pc = "restore" => job.todo = {} /\ job.wanted # {}
    /\ job.pc = "idle" => job.wanted = {}
    /\ job.wanted # {} => job.todo \subseteq Held

Restored ==
    job.wanted # {} /\ Fits =>
      \/ job.pc = "attach" /\ \A p \in Held : p[1] \in mem.ids
      \/ job.pc \in {"put", "prune", "restore"} /\ \E U : Recent(U)

\* Ids are given once, so that an id has one text.
GivenOnce == \A s, t \in said : s.ids \cap t.ids # {} => s = t

RestoreInv == GivenOnce /\ Steps /\ Restored

\* A request keeps its ids and the files stay as they are.
SameRequest == job'.wanted = job.wanted /\ UNCHANGED maps

LEMMA SameHeld ==
  SameRequest => /\ Held' = Held /\ Fits' = Fits
                 /\ \A t : Readable(t, job.wanted)' = Readable(t, job.wanted)
BY DEF SameRequest, Held, Fits, Readable

\* An id has one text, so pairs that are true are no more than the ids.
LEMMA PairsFinite ==
  ASSUME GivenOnce, NEW P, P \subseteq Pairs, \A p \in P : Told(p[1], p[2])
  PROVE  IsFiniteSet(P) /\ IsFiniteSet({p[2] : p \in P}) /\ Cardinality(P) \in Nat
<1> DEFINE f == [p \in P |-> p[1]]
<1> DEFINE g == [p \in P |-> p[2]]
<1>1. \A e, b, c : Told(e, b) /\ Told(e, c) => b = c
  BY DEF GivenOnce, Told
<1>2. \A p \in P : p[1] \in Ids /\ p = <<p[1], p[2]>>
  BY DEF Pairs
<1>3. \A p, q \in P : p[1] = q[1] => p = q
  BY <1>1, <1>2
<1>4. f \in Injection(P, Ids)
  BY <1>2, <1>3 DEF Injection, IsInjective
<1>5. IsFiniteSet(P)
  BY <1>4, Constants, FS_Injection
<1>6. g \in Surjection(P, {p[2] : p \in P})
  BY DEF Surjection
<1> QED BY <1>5, <1>6, FS_Surjection, FS_CardinalityType

LEMMA HeldIsRead ==
  ASSUME ToolInv, GivenOnce
  PROVE  /\ Held = UNION {Readable(t, job.wanted) : t \in DOMAIN maps}
         /\ Held \subseteq Pairs
         /\ \A p \in Held : Told(p[1], p[2])
<1>1. \A t \in DOMAIN maps : maps[t] \subseteq Pairs /\ \A p \in maps[t] : Told(p[1], p[2])
  BY DEF ToolInv, TypeOK, Truthful
<1>2. \A t \in DOMAIN maps : Cardinality(maps[t]) \in Nat
  BY <1>1, PairsFinite
<1>3. MaxEntries \in Nat /\ 4 * MaxEntries \in Nat
  BY Constants
<1>4. ASSUME NEW p
      PROVE  p \in Held <=> \E t \in DOMAIN maps : p \in Readable(t, job.wanted)
  <2>1. p \in Held <=> /\ \E t \in DOMAIN maps : Cardinality(maps[t]) <= 4 * MaxEntries /\ p \in maps[t]
                       /\ p[1] \in job.wanted
    BY DEF Held
  <2>2. \A t \in DOMAIN maps : p \in Readable(t, job.wanted) <=>
           /\ Cardinality(maps[t]) <= 4 * MaxEntries
           /\ p \in maps[t] /\ p[1] \in job.wanted
    BY <1>2, <1>3 DEF Readable
  <2> QED BY <2>1, <2>2
<1> QED BY <1>1, <1>4 DEF Readable

\* If all a request needs fits, then a memory of nothing else does.
LEMMA HeldLimited ==
  ASSUME ToolInv, GivenOnce, Fits, \A e \in mem.ids : <<e, mem.block[e]>> \in Held
  PROVE  Limited(mem)
<1> DEFINE I == {p[1] : p \in Held}
<1> DEFINE B == {p[2] : p \in Held}
<1>1. /\ MemInv(mem) /\ mem.ids \subseteq Ids /\ mem.entries \in Nat /\ mem.bytes \in Nat
      /\ MaxEntries \in Nat /\ MaxBytes \in Nat
  BY Constants DEF ToolInv, MemInv, Memory
<1>2. Held \subseteq Pairs
  BY HeldIsRead
<1>3. I \subseteq Ids /\ B \subseteq Blocks
  BY <1>2 DEF Pairs
<1>a. \A e, b : <<e, b>> \in Held => e \in I /\ b \in B
  <2> SUFFICES ASSUME NEW e, NEW b, <<e, b>> \in Held PROVE e \in I /\ b \in B
    OBVIOUS
  <2>1. PICK p \in Held : p = <<e, b>>
    OBVIOUS
  <2>2. p[1] = e /\ p[2] = b
    BY <2>1
  <2> QED BY <2>2
<1>4. mem.ids \subseteq I
  BY <1>a
<1>5. InUse(mem) \subseteq B
  <2>1. InUse(mem) = {mem.block[e] : e \in mem.ids}
    BY <1>1, InUseBlocks DEF MemInv
  <2> HIDE DEF B
  <2> QED BY <1>a, <2>1
<1>6. Cardinality(I) <= MaxEntries /\ Size(I, B) <= MaxBytes
  BY DEF Fits
<1> HIDE DEF I, B
<1>7. IsFiniteSet(I) /\ Cardinality(I) \in Nat /\ Cardinality(mem.ids) <= Cardinality(I)
  BY <1>3, <1>4, Constants, FS_Subset
<1>8. Cardinality(mem.ids) \in Nat /\ mem.entries = Cardinality(mem.ids)
  BY <1>1, Constants DEF MemInv
<1>9. IsFiniteSet(B)
  BY <1>2, HeldIsRead, PairsFinite DEF B
<1>10. Size(mem.ids, InUse(mem)) <= Size(I, B) /\ Size(I, B) \in Nat
  BY <1>3, <1>4, <1>5, <1>9, SizeGrows
<1> QED BY <1>1, <1>6, <1>7, <1>8, <1>10 DEF Limited, MemInv, BytesExact

LEMMA RestoreInvInit == Init => RestoreInv
BY Markers DEF Init, RestoreInv, GivenOnce, Steps, Restored

LEMMA GivenOnceNext == GivenOnce /\ [Next]_vars => GivenOnce'
<1> SUFFICES ASSUME GivenOnce, [Next]_vars PROVE GivenOnce'
  OBVIOUS
<1>1. ASSUME NEW a \in Answers, Remember(a) \/ RememberNone(a) PROVE GivenOnce'
  <2>1. PICK ids \in SUBSET (Ids \ UNION {s.ids : s \in said}) :
           said' = said \cup {[ids |-> ids, block |-> Raw(a)]}
    BY <1>1 DEF Remember, RememberNone
  <2>2. PICK n : n = [ids |-> ids, block |-> Raw(a)]
    OBVIOUS
  <2>3. n.ids = ids /\ said' = said \cup {n}
    BY <2>1, <2>2
  <2>4. \A s \in said : s.ids \cap ids = {}
    OBVIOUS
  <2> QED BY <2>3, <2>4 DEF GivenOnce
<1>2. CASE UNCHANGED said
  BY <1>2 DEF GivenOnce
<1>3. ASSUME [Next]_vars, ~(\E a \in Answers : Remember(a) \/ RememberNone(a))
      PROVE  UNCHANGED said
  BY <1>3 DEF Next, vars, Put, PruneOne, PruneDone, Request, RestoreFile, Message, LookUp,
     Attach, SaveMap, LoadMap, DropFile, Restart
<1> QED BY <1>1, <1>2, <1>3

\* A step that leaves the request and the memory of ids alone keeps what was
\* restored.
LEMMA StillRecent ==
  ASSUME SameRequest, Fetched' \ job'.todo \subseteq Fetched \ job.todo,
         UNCHANGED mem, NEW U, Recent(U)
  PROVE  Recent(U)'
BY SameHeld DEF Recent

LEMMA FetchedSame ==
  ASSUME SameRequest, job'.files = job.files
  PROVE  Fetched' = Fetched
BY SameHeld DEF Fetched, SameRequest

LEMMA RestoreInvNext == ToolInv /\ RestoreInv /\ [Next]_vars => RestoreInv'
<1> SUFFICES ASSUME ToolInv, RestoreInv, [Next]_vars PROVE RestoreInv'
  OBVIOUS
<1> USE DEF RestoreInv
<1>a. /\ job \in Jobs /\ MemInv(mem) /\ GivenOnce'
      /\ job.files \subseteq DOMAIN maps /\ Held \subseteq Pairs
  BY GivenOnceNext, HeldIsRead DEF ToolInv, TypeOK, JobInv
<1>b. ASSUME job'.wanted = {}, job'.todo = {} \/ job'.pc \in {"put", "prune"}, job'.pc # "restore"
      PROVE  RestoreInv'
  BY <1>a, <1>b DEF Steps, Restored
<1>1. ASSUME NEW a \in Answers, Remember(a) PROVE RestoreInv'
  <2>1. PICK ids : job' = [Idle EXCEPT !.pc = "put", !.todo = ids \X {Raw(a)}]
    BY <1>1 DEF Remember
  <2>2. job'.pc = "put" /\ job'.wanted = {}
    BY <2>1 DEF Idle
  <2> QED BY <1>b, <2>2
<1>0. ASSUME NEW a \in Answers, RememberNone(a) PROVE RestoreInv'
  <2>1. job.pc = "idle" /\ UNCHANGED job
    BY <1>0 DEF RememberNone
  <2>2. job.wanted = {} /\ job'.wanted = {} /\ job'.pc = "idle"
    BY <2>1 DEF Steps
  <2> QED BY <1>a, <2>1, <2>2 DEF Steps, Restored
<1>2. CASE Put
  <2>1. PICK p \in job.todo :
           /\ mem' = PutEntry(mem, p[1], p[2])
           /\ job' = [job EXCEPT !.pc = "prune", !.todo = @ \ {p}]
    BY <1>2 DEF Put
  <2>2. UNCHANGED maps /\ job.pc = "put"
    BY <1>2 DEF Put
  <2>3. /\ job'.todo = job.todo \ {p} /\ job'.files = job.files
        /\ job'.wanted = job.wanted /\ job'.pc = "prune"
    BY <1>a, <2>1 DEF Jobs
  <2>4. SameRequest /\ Fetched' = Fetched /\ Held' = Held /\ Fits' = Fits
    BY <2>2, <2>3, FetchedSame, SameHeld DEF SameRequest
  <2>5. Steps'
    BY <2>3, <2>4 DEF Steps
  <2>6. ASSUME job.wanted # {}, Fits PROVE \E U : Recent(U)'
    <3>1. PICK U : Recent(U)
      BY <2>2, <2>6 DEF Restored
    <3>2. p \in Held /\ p = <<p[1], p[2]>> /\ p[1] \in Ids /\ p[2] \in Blocks
      BY <1>a, <2>6 DEF Steps, Pairs
    <3>3. PutIn(mem', mem, p[1], p[2])
      BY <1>a, <2>1, <3>2, PutKeeps
    <3> DEFINE V == U \cup {p[1]}
    <3>4. /\ mem'.ids = mem.ids \cup {p[1]}
          /\ \A x \in mem'.ids : mem'.block[x] = IF x = p[1] THEN p[2] ELSE mem.block[x]
          /\ \A x \in mem'.ids : x # p[1] => /\ mem'.stamp[x] = mem.stamp[x]
                                            /\ mem.stamp[x] < mem'.stamp[p[1]]
      BY <3>3 DEF PutIn
    <3>5. V \subseteq mem'.ids
      BY <3>1, <3>4 DEF Recent
    <3>6. \A q \in Fetched' \ job'.todo : q[1] \in V
      BY <2>3, <2>4, <3>1 DEF Recent
    <3>7. \A e \in V : <<e, mem'.block[e]>> \in Held'
      BY <2>4, <3>1, <3>2, <3>4, <3>5 DEF Recent
    <3>8. \A e \in V, y \in mem'.ids \ V : mem'.stamp[y] < mem'.stamp[e]
      BY <3>1, <3>4, <3>5 DEF Recent
    <3>9. Recent(V)'
      BY <3>5, <3>6, <3>7, <3>8 DEF Recent
    <3> QED BY <3>9
  <2>7. Restored'
    BY <2>3, <2>4, <2>6 DEF Restored
  <2> QED BY <1>a, <2>5, <2>7
<1>3. CASE PruneOne
  <2>1. /\ Over(mem) /\ mem.tail # Null /\ mem' = RemoveEntry(mem, mem.tail)
        /\ job.pc = "prune" /\ UNCHANGED <<maps, said, job, attached>>
    BY <1>3 DEF PruneOne, Over
  <2>2. SameRequest /\ Fetched' = Fetched /\ Held' = Held /\ Fits' = Fits
    BY <2>1, FetchedSame, SameHeld DEF SameRequest
  <2>3. Steps'
    BY <2>1, <2>2 DEF Steps
  <2>4. ASSUME job.wanted # {}, Fits PROVE \E U : Recent(U)'
    <3>1. PICK U : Recent(U)
      BY <2>1, <2>4 DEF Restored
    <3>2. /\ mem.tail \in mem.ids
          /\ \A x \in mem.ids : mem.stamp[mem.tail] <= mem.stamp[x]
      BY <1>a, <2>1, TailIsOldest
    <3>3. /\ mem'.ids = mem.ids \ {mem.tail}
          /\ \A x \in mem'.ids : mem'.block[x] = mem.block[x] /\ mem'.stamp[x] = mem.stamp[x]
      BY <1>a, <2>1, <3>2, RemoveKeeps
    <3>4. mem.tail \notin U
      \* Else everything is of this request, and that fits.
      <4>1. SUFFICES ASSUME mem.tail \in U PROVE FALSE
        OBVIOUS
      <4>2. \A x \in mem.ids : mem.stamp[x] \in Nat
        BY <1>a DEF MemInv, Memory
      <4>3. \A y \in mem.ids : y \in U
        BY <3>1, <3>2, <4>1, <4>2 DEF Recent
      <4>4. Limited(mem)
        BY <2>4, <3>1, <4>3, HeldLimited DEF Recent
      <4>5. mem.entries \in Nat /\ mem.bytes \in Nat /\ MaxEntries \in Nat /\ MaxBytes \in Nat
        BY <1>a, Constants DEF MemInv, Memory
      <4> QED BY <2>1, <4>4, <4>5 DEF Over, Limited
    <3>5. Recent(U)'
      BY <2>1, <2>2, <3>1, <3>3, <3>4 DEF Recent
    <3> QED BY <3>5
  <2>5. Restored'
    BY <2>1, <2>2, <2>4 DEF Restored
  <2> QED BY <1>a, <2>3, <2>5
<1>4. CASE PruneDone
  <2>1. /\ UNCHANGED <<mem, maps, said, attached>> /\ job.pc = "prune"
        /\ job' = [job EXCEPT !.pc = IF job.todo # {} THEN "put"
                                 ELSE IF job.wanted # {} THEN "restore" ELSE "idle"]
    BY <1>4 DEF PruneDone
  <2>2. /\ job'.todo = job.todo /\ job'.files = job.files /\ job'.wanted = job.wanted
        /\ job'.pc = IF job.todo # {} THEN "put"
                     ELSE IF job.wanted # {} THEN "restore" ELSE "idle"
    BY <1>a, <2>1 DEF Jobs
  <2>3. SameRequest /\ Fetched' = Fetched /\ Held' = Held /\ Fits' = Fits
    BY <2>1, <2>2, FetchedSame, SameHeld DEF SameRequest
  <2>4. Steps'
    BY <2>2, <2>3 DEF Steps
  <2>5. Restored'
    BY <2>1, <2>2, <2>3, StillRecent DEF Restored
  <2> QED BY <1>a, <2>4, <2>5
<1>5. ASSUME NEW g \in Groups, Request(g) PROVE RestoreInv'
  <2>1. /\ UNCHANGED <<mem, maps, said>>
        /\ {} \notin g /\ g # {}
        /\ job' = [Idle EXCEPT !.pc = "restore", !.files = DOMAIN maps,
                               !.wanted = UNION g, !.groups = g]
    BY <1>5 DEF Request
  <2>2. /\ job'.todo = {} /\ job'.files = DOMAIN maps /\ job'.wanted = UNION g
        /\ job'.pc = "restore"
    BY <2>1 DEF Idle
  <2>3. UNION g # {}
    <3>1. PICK h \in g : h # {}
      BY <2>1
    <3> QED BY <3>1
  <2>4. Fetched' = {}
    BY <2>1, <2>2 DEF Fetched
  <2>5. Recent({})'
    BY <2>4 DEF Recent
  <2> QED BY <1>a, <2>2, <2>3, <2>5 DEF Steps, Restored
<1>6. CASE RestoreFile
  <2>1. PICK t \in job.files :
          job' = [job EXCEPT !.files = @ \ {t}, !.todo = Readable(t, job.wanted),
                             !.pc = IF Readable(t, job.wanted) = {} THEN @ ELSE "put"]
    BY <1>6 DEF RestoreFile
  <2>2. job.pc = "restore" /\ UNCHANGED <<mem, maps, said, attached>>
    BY <1>6 DEF RestoreFile
  <2>3. /\ job'.files = job.files \ {t} /\ job'.todo = Readable(t, job.wanted)
        /\ job'.wanted = job.wanted
        /\ job'.pc = IF Readable(t, job.wanted) = {} THEN "restore" ELSE "put"
    BY <1>a, <2>1, <2>2 DEF Jobs
  <2>4. SameRequest /\ Held' = Held /\ Fits' = Fits
        /\ \A u : Readable(u, job.wanted)' = Readable(u, job.wanted)
    BY <2>2, <2>3, SameHeld DEF SameRequest
  <2>5. Fetched' \subseteq Fetched \cup Readable(t, job.wanted)
    BY <2>2, <2>3, <2>4 DEF Fetched
  <2>6. job'.todo \subseteq Held
    BY <1>a, <2>3, HeldIsRead
  <2>7. Steps'
    BY <2>2, <2>3, <2>4, <2>6 DEF Steps
  <2>8. job.todo = {}
    BY <2>2 DEF Steps
  <2>9. Fetched' \ job'.todo \subseteq Fetched \ job.todo
    BY <2>3, <2>5, <2>8
  <2>10. Restored'
    BY <2>2, <2>3, <2>4, <2>9, StillRecent DEF Restored
  <2> QED BY <1>a, <2>7, <2>10
<1>7. CASE Message
  <2>1. PICK g \in job.groups :
          job' = [job EXCEPT !.pc = "attach", !.groups = @ \ {g}, !.group = g, !.rest = g,
                             !.match = Null, !.exact = TRUE]
    BY <1>7 DEF Message
  <2>2. /\ UNCHANGED <<mem, maps, said, attached>>
        /\ job.pc \in {"restore", "attach"} /\ job.files = {}
    BY <1>7 DEF Message
  <2>3. /\ job'.todo = job.todo /\ job'.files = job.files
        /\ job'.wanted = job.wanted /\ job'.pc = "attach"
    BY <1>a, <2>1 DEF Jobs
  <2>4. SameRequest /\ Held' = Held /\ Fits' = Fits
    BY <2>2, <2>3, SameHeld DEF SameRequest
  <2>5. Steps'
    BY <2>3, <2>4 DEF Steps
  <2>6. ASSUME job.wanted # {}, Fits PROVE \A p \in Held : p[1] \in mem.ids
    <3>1. CASE job.pc = "attach"
      BY <2>6, <3>1 DEF Restored
    <3>2. CASE job.pc = "restore"
      <4>1. PICK U : Recent(U)
        BY <2>6, <3>2 DEF Restored
      <4>2. Held = Fetched /\ job.todo = {}
        BY <2>2, <3>2, HeldIsRead DEF Fetched, Steps
      <4> QED BY <4>1, <4>2 DEF Recent
    <3> QED BY <2>2, <3>1, <3>2
  <2>7. Restored'
    BY <2>2, <2>3, <2>4, <2>6 DEF Restored
  <2> QED BY <1>a, <2>5, <2>7
<1>8. CASE LookUp
  <2>1. UNCHANGED <<maps, said, attached>> /\ job.pc = "attach"
    BY <1>8 DEF LookUp
  <2>2. PICK e \in job.rest :
          IF e \in mem.ids
          THEN /\ mem' = Touch(mem, e)
               /\ job' = [job EXCEPT !.rest = @ \ {e},
                                     !.match = IF @ = Null THEN mem.block[e] ELSE @,
                                     !.exact = @ /\ SameBlock(e)]
          ELSE /\ job' = [job EXCEPT !.rest = @ \ {e}, !.exact = FALSE]
               /\ UNCHANGED mem
    BY <1>8 DEF LookUp
  <2>3. /\ job'.todo = job.todo /\ job'.files = job.files
        /\ job'.wanted = job.wanted /\ job'.pc = "attach"
    <3> DEFINE b == IF job.match = Null THEN mem.block[e] ELSE job.match
    <3> DEFINE x == job.exact /\ SameBlock(e)
    <3>1. \/ job' = [job EXCEPT !.rest = @ \ {e}, !.match = b, !.exact = x]
          \/ job' = [job EXCEPT !.rest = @ \ {e}, !.exact = FALSE]
      BY <2>2
    <3> HIDE DEF b, x
    <3> QED BY <1>a, <2>1, <3>1 DEF Jobs
  <2>4. mem'.ids = mem.ids
    <3>1. e \in mem.ids => Touched(Touch(mem, e), mem, e)
      BY <1>a, TouchKeeps
    <3> QED BY <2>2, <3>1 DEF Touched
  <2>5. SameRequest /\ Held' = Held /\ Fits' = Fits
    BY <2>1, <2>3, SameHeld DEF SameRequest
  <2> QED BY <1>a, <2>1, <2>3, <2>4, <2>5 DEF Steps, Restored
<1>9. CASE Attach
  <2>1. /\ UNCHANGED <<mem, maps, said>> /\ job.pc = "attach"
        /\ job' = IF job.groups = {} THEN Idle ELSE [job EXCEPT !.group = {}]
    BY <1>9 DEF Attach
  <2>2. CASE job.groups = {}
    BY <1>b, <2>1, <2>2, Markers
  <2>3. CASE job.groups # {}
    <3>1. /\ job'.todo = job.todo /\ job'.files = job.files
          /\ job'.wanted = job.wanted /\ job'.pc = "attach"
      BY <1>a, <2>1, <2>3 DEF Jobs
    <3>2. SameRequest /\ Held' = Held /\ Fits' = Fits
      BY <2>1, <3>1, SameHeld DEF SameRequest
    <3> QED BY <1>a, <2>1, <3>1, <3>2 DEF Steps, Restored
  <2> QED BY <2>2, <2>3
<1>10. ASSUME NEW t \in Texts, SaveMap(t) \/ DropFile(t) PROVE RestoreInv'
  <2>1. job.pc = "idle" /\ UNCHANGED job
    BY <1>10 DEF SaveMap, DropFile
  <2>2. job.wanted = {} /\ job'.wanted = {} /\ job'.pc = "idle"
    BY <2>1 DEF Steps
  <2> QED BY <1>a, <2>1, <2>2 DEF Steps, Restored
<1>11. ASSUME NEW t \in Texts, LoadMap(t) PROVE RestoreInv'
  <2>1. job' = [Idle EXCEPT !.pc = "put", !.todo = Readable(t, Ids)]
    BY <1>11 DEF LoadMap
  <2>2. job'.pc = "put" /\ job'.wanted = {}
    BY <2>1 DEF Idle
  <2> QED BY <1>b, <2>2
<1>12. CASE Restart
  BY <1>b, <1>12, Markers DEF Restart
<1>13. CASE UNCHANGED vars
  <2>1. UNCHANGED <<mem, maps, job>>
    BY <1>13 DEF vars
  <2>2. SameRequest /\ Fetched' = Fetched /\ Held' = Held /\ Fits' = Fits
    BY <2>1, FetchedSame, SameHeld DEF SameRequest
  <2> QED BY <1>a, <2>1, <2>2, StillRecent DEF Steps, Restored
<1> QED
  BY <1>0, <1>1, <1>2, <1>3, <1>4, <1>5, <1>6, <1>7, <1>8, <1>9, <1>10, <1>11, <1>12,
     <1>13 DEF Next
-----------------------------------------------------------------------------
THEOREM ToolInvariant == Spec => []ToolInv
  BY ToolInvInit, ToolInvNext, PTL DEF Spec

\* Every variable of the tool memory keeps its type.
THEOREM TypeCorrect == Spec => []TypeOK
  BY ToolInvariant, PTL DEF ToolInv

\* by_id, the list, the blocks and the count of entries agree at every step, in
\* the middle of a replacement or a prune too.
THEOREM MemoryIsConsistent == Spec => []Consistent
<1>1. ToolInv => Consistent
  BY DEF ToolInv, MemInv, Consistent
<1> QED BY <1>1, ToolInvariant, PTL

\* The byte count is exact at every step, and both limits hold whenever no put is
\* under way, for every size of an entry, a block and the limits.
THEOREM LimitsHold == Spec => []WithinLimits
<1>1. Init => (~Pruning => Limited(mem))
  BY EmptyLimited DEF Init
<1>2. Spec => [](~Pruning => Limited(mem))
  BY <1>1, LimitsNext, ToolInvariant, PTL DEF Spec
<1>3. ToolInv /\ (~Pruning => Limited(mem)) => WithinLimits
  BY DEF ToolInv, MemInv, BytesExact, InUse, Pruning, Limited, WithinLimits
<1> QED BY <1>2, <1>3, ToolInvariant, PTL

\* When the messages of a request are looked up, all that the files hold of it is
\* in the memory, if it fits.
THEOREM RestoresServe == Spec => []RestoreServes
<1>1. Spec => []RestoreInv
  BY RestoreInvInit, RestoreInvNext, ToolInvariant, PTL DEF Spec
<1>2. RestoreInv => RestoreServes
  <2> SUFFICES ASSUME RestoreInv, job.pc = "attach", Fits, NEW p \in Held
               PROVE  p[1] \in mem.ids
    BY DEF RestoreServes
  <2>1. job.wanted # {}
    BY DEF Held
  <2> QED BY <2>1 DEF RestoreInv, Restored
<1> QED BY <1>1, <1>2, PTL

\* attach gives a message only the text the model produced for each of its calls.
THEOREM AttachIsTrue == Spec => []AttachTrue
  BY ToolInvariant, PTL DEF ToolInv

\* What a prune drops was used before everything that stays.
THEOREM OldestGoesFirst == Spec => OldestGoes
<1>1. ToolInv /\ [Next]_vars =>
        [PruneOne => \A e \in mem.ids \ mem'.ids : \A x \in mem.ids :
                        mem.stamp[e] <= mem.stamp[x]]_vars
  <2> SUFFICES ASSUME ToolInv, PruneOne, NEW e \in mem.ids \ mem'.ids, NEW x \in mem.ids
               PROVE  mem.stamp[e] <= mem.stamp[x]
    OBVIOUS
  <2>1. mem.tail # Null /\ mem' = RemoveEntry(mem, mem.tail) /\ MemInv(mem)
    BY DEF PruneOne, Over, ToolInv
  <2>2. /\ mem.tail \in mem.ids
        /\ \A y \in mem.ids : mem.stamp[mem.tail] <= mem.stamp[y]
    BY <2>1, TailIsOldest
  <2>3. mem'.ids = mem.ids \ {mem.tail}
    BY <2>1, <2>2, RemoveKeeps
  <2> QED BY <2>2, <2>3
<1> QED BY <1>1, ToolInvariant, PTL DEF Spec, OldestGoes
=============================================================================
