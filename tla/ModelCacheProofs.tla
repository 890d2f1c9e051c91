-------------------------- MODULE ModelCacheProofs --------------------------
(***************************************************************************)
(* Proofs about ModelCache for all tensors, budgets, arena sizes, numbers  *)
(* of staging buffers and failures, and operations of any number of        *)
(* tensors: what is listed as cached is complete, a kernel that runs long  *)
(* after its launch still reads its weights through every pointer that its *)
(* own lookups did not evict, and through every pointer at all where       *)
(* nothing is evicted.                                                     *)
(***************************************************************************)
EXTENDS ModelCache, FiniteSetTheorems, SequenceTheorems, WellFoundedInduction, TLAPS

(***************************************************************************)
(* Types.                                                                  *)
(***************************************************************************)

RangeRec == [kind : {"arena", "mapped", "own"}, off : Nat, len : Nat, blk : Nat,
             at : Nat, regOff : Nat, regLen : Nat]
ArenaRec == [blk : Nat, bytes : Nat, used : Nat]
DmaRec == [buf : 0..(Stages - 1), blk : Nat, at : Nat]
Pointer == [blk : Nat, at : Nat]
KernelRec ==
  [kind : {"matmul"}, of : Seq(Tensors), lost : Nat, from : Seq(Pointer)]
    \cup [kind : {"dequant"}, of : Seq(Tensors), lost : Nat, from : Seq(Pointer), to : Nat]
Waiting == [pc : {"acquire", "fallback"}, tensors : Seq(Tensors), got : Seq(Pointer),
            lost : Nat, preload : BOOLEAN, expand : BOOLEAN]
Uploading == [pc : {"upload"}, tensors : Seq(Tensors), got : Seq(Pointer), lost : Nat,
              preload : BOOLEAN, expand : BOOLEAN, blk : Nat, at : Nat, copied : Nat]

CacheTypes ==
  /\ ranges \in Seq(RangeRec) /\ arenas \in Seq(ArenaRec)
  /\ rangeBytes \in Nat /\ rangeBytes <= CacheLimit
  /\ \A o \in DOMAIN byOffset :
       byOffset[o] \in DOMAIN ranges /\ ranges[byOffset[o]].off = o
  /\ IsFiniteSet(DOMAIN mem)
  /\ DOMAIN stage = 0..(Stages - 1)
  /\ dma \in Seq(DmaRec) /\ kernels \in Seq(KernelRec)
  /\ host \in {HostIdle} \cup Waiting \cup Uploading

(***************************************************************************)
(* The parts of the invariant.                                             *)
(***************************************************************************)

ArenaBlocks == {arenas[j].blk : j \in DOMAIN arenas}
RangeBlocks == {ranges[k].blk : k \in DOMAIN ranges}

\* The first units of an arena are taken.
TakenFrom(b, end) == \E j \in DOMAIN arenas : arenas[j].blk = b /\ end <= arenas[j].used

\* An arena is a block of its own.
ArenasInv ==
  /\ \A j \in DOMAIN arenas :
       /\ arenas[j].blk \in DOMAIN mem
       /\ DOMAIN mem[arenas[j].blk] = 0..(arenas[j].bytes - 1)
       /\ arenas[j].used <= arenas[j].bytes
  /\ \A i, j \in DOMAIN arenas : arenas[i].blk = arenas[j].blk => i = j

\* A range holds its part of the file, and registered pages all of theirs; a
\* range lies in the taken part of an arena or in a block without an arena.
RangeInv(r) ==
  /\ Reads([blk |-> r.blk, at |-> r.at], r)
  /\ r.kind = "mapped" => \A u \in 0..(r.regLen - 1) :
        u \in DOMAIN mem[r.blk] /\ mem[r.blk][u] = r.regOff + u
  /\ IF r.kind = "arena" THEN TakenFrom(r.blk, r.at + r.len) ELSE r.blk \notin ArenaBlocks
RangesInv == \A k \in DOMAIN ranges : RangeInv(ranges[k])

\* An expanded copy has a block of its own, and is filled or will be by a
\* kernel that was launched before any that reads it.
Filled(t) == Reads([blk |-> expanded[t], at |-> 0], t)
Fills(k, t) == k.kind = "dequant" /\ k.of = <<t>>
ExpandedInv ==
  /\ DOMAIN expanded \subseteq Tensors
  /\ \A t \in DOMAIN expanded :
       /\ expanded[t] \in Nat
       /\ expanded[t] \in DOMAIN mem
       /\ expanded[t] \notin ArenaBlocks /\ expanded[t] \notin RangeBlocks
       /\ \A u \in DOMAIN expanded : expanded[u] = expanded[t] => u = t
       /\ Filled(t) \/ \E j \in DOMAIN kernels : Fills(kernels[j], t)

\* A copy that is under way goes to the taken part of an arena, where no range
\* is listed.
Within(a, at, len) == at <= a /\ a < at + len
DmaInv ==
  \A k \in DOMAIN dma :
    /\ TakenFrom(dma[k].blk, dma[k].at + 1)
    /\ \A m \in DOMAIN ranges :
         ranges[m].blk = dma[k].blk => ~Within(dma[k].at, ranges[m].at, ranges[m].len)

\* A pointer into a range that is listed.
Backed(p, t) ==
  \E k \in DOMAIN ranges : /\ InRange(ranges[k], t) \/ InPages(ranges[k], t)
                           /\ p = PointerInto(ranges[k], t)

\* What an operation has found and not evicted since leads into listed ranges.
FoundBacked(of, lost, from) == \A i \in (lost + 1)..Len(from) : Backed(from[i], of[i])

\* An operation that would expand its tensor has one, with no copy of it yet.
HostInv ==
  host # HostIdle =>
    /\ host.lost <= Len(host.got) /\ Len(host.got) <= Len(host.tensors)
    /\ host.pc # "acquire" => Len(host.got) < Len(host.tensors)
    /\ FoundBacked(host.tensors, host.lost, host.got)
    /\ host.expand => /\ Len(host.tensors) = 1 /\ host.lost = 0
                      /\ host.tensors[1] \notin DOMAIN expanded

\* The part of an arena that is uploaded to belongs to no range.  What was
\* staged for it has arrived or is under way, with its staging buffer as it was.
UploadInv ==
  host.pc = "upload" =>
    LET t == Wanted IN
    /\ TakenFrom(host.blk, host.at + t.len)
    /\ host.copied <= t.len
    /\ rangeBytes + t.len <= CacheLimit
    /\ \A m \in DOMAIN ranges : ranges[m].blk = host.blk =>
         \/ ranges[m].at + ranges[m].len <= host.at
         \/ host.at + t.len <= ranges[m].at
    /\ \A i \in 0..(host.copied - 1) :
         \/ mem[host.blk][host.at + i] = t.off + i
         \/ \E k \in DOMAIN dma : dma[k].blk = host.blk /\ dma[k].at = host.at + i
    /\ \A k \in DOMAIN dma :
         dma[k].blk = host.blk /\ Within(dma[k].at, host.at, t.len) =>
           /\ dma[k].at < host.at + host.copied
           /\ dma[k].buf = (dma[k].at - host.at) % Stages
           /\ stage[dma[k].buf] = t.off + (dma[k].at - host.at)

\* A kernel reads listed ranges, or the expanded copy of its one tensor, which
\* is filled or will be by a kernel before it.
ReadsRanges(k) ==
  /\ Len(k.from) = Len(k.of)
  /\ FoundBacked(k.of, k.lost, k.from)
  /\ k.kind = "dequant" => /\ Len(k.of) = 1 /\ k.lost = 0
                           /\ k.of[1] \in DOMAIN expanded /\ k.to = expanded[k.of[1]]
ReadsCopy(k, t) ==
  /\ k.kind = "matmul" /\ k.of = <<t>> /\ t \in DOMAIN expanded
  /\ k.from = <<[blk |-> expanded[t], at |-> 0]>>
KernelInv(i) ==
  \/ ReadsRanges(kernels[i])
  \/ \E t \in Tensors :
       /\ ReadsCopy(kernels[i], t)
       /\ Filled(t) \/ \E j \in 1..(i - 1) : Fills(kernels[j], t)
KernelsInv == \A i \in DOMAIN kernels : KernelInv(i)

CacheInv ==
  /\ CacheTypes /\ ArenasInv /\ RangesInv /\ ExpandedInv /\ DmaInv /\ HostInv
  /\ UploadInv /\ KernelsInv
-----------------------------------------------------------------------------
(* Facts about the operators.                                              *)

LEMMA Constants ==
  /\ CacheLimit \in Nat /\ ArenaChunk \in Nat \ {0} /\ ArenaAlign \in Nat \ {0}
  /\ Stages \in Nat \ {0} /\ Page \in Nat \ {0}
  /\ Spans \subseteq Tensors /\ Ops \subseteq Seq(Tensors)
BY ModelCacheAssumption

LEMMA LeastOf ==
  ASSUME NEW S \in SUBSET Nat, S # {}
  PROVE  Min(S) \in S
<1>1. IsWellFoundedOn(OpToRel(<, Nat), Nat)
  BY NatLessThanWellFounded
<1>2. PICK v \in S : \A w \in S : ~(<<w, v>> \in OpToRel(<, Nat))
  BY <1>1, WFMin
<1>3. \A w \in S : ~(w < v)
  BY <1>2 DEF OpToRel
<1>4. \A w \in S : v =< w
  BY <1>3
<1> QED BY <1>4 DEF Min

\* There is always an address for a new block.
LEMMA FreeIsNew ==
  ASSUME IsFiniteSet(DOMAIN mem)
  PROVE  Free \in Nat /\ Free \notin DOMAIN mem
<1> DEFINE c == Cardinality(DOMAIN mem)
<1>1. c \in Nat
  BY FS_CardinalityType
<1>2. IsFiniteSet(0..c) /\ Cardinality(0..c) = c + 1
  BY <1>1, FS_Interval
<1>3. ~((0..c) \subseteq DOMAIN mem)
  <2> SUFFICES ASSUME (0..c) \subseteq DOMAIN mem PROVE FALSE
    OBVIOUS
  <2>1. Cardinality(0..c) <= c
    BY FS_Subset
  <2> QED BY <1>1, <1>2, <2>1
<1>4. \E b \in 0..c : b \notin DOMAIN mem
  BY <1>3
<1>5. Free \in 0..c /\ Free \notin DOMAIN mem
  BY <1>4 DEF Free
<1> QED BY <1>1, <1>5

LEMMA Rounded ==
  ASSUME NEW v \in Nat
  PROVE  /\ RoundDown(v) \in Nat /\ RoundDown(v) <= v
         /\ RoundUp(v) \in Nat /\ v <= RoundUp(v)
<1>1. Page \in Nat \ {0}
  BY Constants
<1>2. \A x \in Nat : /\ (x \div Page) \in Nat
                     /\ (x \div Page) * Page <= x
                     /\ x < (x \div Page) * Page + Page
  BY <1>1
<1>3. v + Page - 1 \in Nat
  BY <1>1
<1> QED BY <1>1, <1>2, <1>3 DEF RoundDown, RoundUp

LEMMA SmallMod ==
  ASSUME NEW s \in Nat \ {0}, NEW x \in 0..(s - 1)
  PROVE  x % s = x
OBVIOUS

LEMMA RangeTyped ==
  ASSUME CacheTypes, NEW k \in DOMAIN ranges
  PROVE  /\ ranges[k] \in RangeRec /\ k \in 1..Len(ranges)
         /\ ranges[k].off \in Nat /\ ranges[k].len \in Nat /\ ranges[k].blk \in Nat
         /\ ranges[k].at \in Nat /\ ranges[k].regOff \in Nat /\ ranges[k].regLen \in Nat
<1>1. ranges[k] \in RangeRec /\ k \in 1..Len(ranges)
  BY DEF CacheTypes
<1> QED BY <1>1 DEF RangeRec

LEMMA ArenaTyped ==
  ASSUME CacheTypes, NEW j \in DOMAIN arenas
  PROVE  /\ arenas[j] \in ArenaRec
         /\ arenas[j].blk \in Nat /\ arenas[j].bytes \in Nat /\ arenas[j].used \in Nat
<1>1. arenas[j] \in ArenaRec
  BY DEF CacheTypes
<1> QED BY <1>1 DEF ArenaRec

LEMMA DmaTyped ==
  ASSUME CacheTypes, NEW k \in DOMAIN dma
  PROVE  /\ dma[k] \in DmaRec
         /\ dma[k].blk \in Nat /\ dma[k].at \in Nat /\ dma[k].buf \in 0..(Stages - 1)
<1>1. dma[k] \in DmaRec
  BY DEF CacheTypes
<1> QED BY <1>1 DEF DmaRec

\* A pointer into a listed range leads to the tensor it was looked up for.
LEMMA BackedReads ==
  ASSUME CacheTypes, RangesInv, NEW t \in Tensors, NEW p, Backed(p, t)
  PROVE  Reads(p, t)
<1>1. PICK k \in DOMAIN ranges : /\ InRange(ranges[k], t) \/ InPages(ranges[k], t)
                                 /\ p = PointerInto(ranges[k], t)
  BY DEF Backed
<1> DEFINE r == ranges[k]
<1>2. /\ r.off \in Nat /\ r.len \in Nat /\ r.at \in Nat
      /\ r.regOff \in Nat /\ r.regLen \in Nat
  BY RangeTyped
<1>3. t.off \in Nat /\ t.len \in Nat
  BY DEF Tensors
<1>4. RangeInv(r)
  BY DEF RangesInv
<1> HIDE DEF r
<1>5. CASE InRange(r, t)
  <2>1. p = [blk |-> r.blk, at |-> r.at + (t.off - r.off)]
    BY <1>1, <1>5 DEF PointerInto, r
  <2>2. /\ r.blk \in DOMAIN mem
        /\ \A i \in 0..(r.len - 1) :
              (r.at + i) \in DOMAIN mem[r.blk] /\ mem[r.blk][r.at + i] = r.off + i
    BY <1>4 DEF RangeInv, Reads
  <2>3. ASSUME NEW i \in 0..(t.len - 1)
        PROVE  /\ (p.at + i) \in DOMAIN mem[p.blk]
               /\ mem[p.blk][p.at + i] = t.off + i
    <3> DEFINE e == (t.off - r.off) + i
    <3>1. e \in 0..(r.len - 1)
      BY <1>2, <1>3, <1>5 DEF InRange
    <3>2. p.at + i = r.at + e /\ r.off + e = t.off + i /\ p.blk = r.blk
      BY <1>2, <1>3, <2>1
    <3> HIDE DEF e
    <3> QED BY <2>2, <3>1, <3>2
  <2> QED BY <2>1, <2>2, <2>3 DEF Reads
<1>6. CASE ~InRange(r, t) /\ InPages(r, t)
  <2>1. p = [blk |-> r.blk, at |-> t.off - r.regOff]
    BY <1>1, <1>6 DEF PointerInto, r
  <2>2. /\ r.blk \in DOMAIN mem
        /\ \A u \in 0..(r.regLen - 1) :
              u \in DOMAIN mem[r.blk] /\ mem[r.blk][u] = r.regOff + u
    BY <1>4, <1>6 DEF RangeInv, Reads, InPages
  <2>3. ASSUME NEW i \in 0..(t.len - 1)
        PROVE  /\ (p.at + i) \in DOMAIN mem[p.blk]
               /\ mem[p.blk][p.at + i] = t.off + i
    <3> DEFINE e == (t.off - r.regOff) + i
    <3>1. e \in 0..(r.regLen - 1)
      BY <1>2, <1>3, <1>6 DEF InPages
    <3>2. p.at + i = e /\ r.regOff + e = t.off + i /\ p.blk = r.blk
      BY <1>2, <1>3, <2>1
    <3> HIDE DEF e
    <3> QED BY <2>2, <3>1, <3>2
  <2> QED BY <2>1, <2>2, <2>3 DEF Reads
<1> QED BY <1>1, <1>5, <1>6 DEF r

\* What a lookup answers is a pointer into a listed range.
LEMMA HitIsBacked ==
  ASSUME CacheTypes, NEW t \in Tensors, Hit(t)
  PROVE  Backed(HitPointer(t), t) /\ HitPointer(t) \in Pointer
<1>1. t.off \in Nat /\ t.len \in Nat
  BY DEF Tensors
<1>2. ASSUME NEW k \in DOMAIN ranges, InRange(ranges[k], t) \/ InPages(ranges[k], t)
      PROVE  PointerInto(ranges[k], t) \in Pointer
  <2>1. /\ ranges[k].blk \in Nat /\ ranges[k].at \in Nat /\ ranges[k].off \in Nat
        /\ ranges[k].regOff \in Nat
    BY RangeTyped
  <2> QED BY <1>1, <1>2, <2>1 DEF PointerInto, Pointer, InRange, InPages
<1>3. CASE ExactHit(t)
  <2> DEFINE k == byOffset[t.off]
  <2>1. k \in DOMAIN ranges /\ ranges[k].off = t.off /\ t.len <= ranges[k].len
    BY <1>3 DEF ExactHit, CacheTypes
  <2>2. ranges[k].at \in Nat /\ ranges[k].len \in Nat
    BY <2>1, RangeTyped
  <2>3. InRange(ranges[k], t)
    BY <1>1, <2>1, <2>2 DEF InRange
  <2>4. HitPointer(t) = PointerInto(ranges[k], t)
    BY <1>1, <1>3, <2>1, <2>2, <2>3 DEF HitPointer, PointerInto
  <2> QED BY <1>2, <2>1, <2>3, <2>4 DEF Backed
<1>4. CASE ~ExactHit(t)
  <2>1. Containing(t) # {} /\ Containing(t) \subseteq Nat
    BY <1>4, RangeTyped DEF Hit, Containing
  <2>2. Min(Containing(t)) \in Containing(t)
    BY <2>1, LeastOf
  <2> QED BY <1>2, <1>4, <2>2 DEF HitPointer, Backed, Containing
<1> QED BY <1>3, <1>4

-----------------------------------------------------------------------------
(* What a step keeps.                                                      *)

\* Blocks that are not written or freed read as before.
LEMMA KeepReads ==
  ASSUME NEW p, NEW t, Reads(p, t), p.blk \in DOMAIN mem', mem'[p.blk] = mem[p.blk]
  PROVE  Reads(p, t)'
BY DEF Reads

LEMMA KeepBacked ==
  ASSUME ranges \in Seq(RangeRec),
         ranges' = ranges \/ \E r : ranges' = Append(ranges, r),
         NEW p, NEW t, Backed(p, t)
  PROVE  Backed(p, t)'
<1>1. PICK k \in DOMAIN ranges : /\ InRange(ranges[k], t) \/ InPages(ranges[k], t)
                                 /\ p = PointerInto(ranges[k], t)
  BY DEF Backed
<1>2. k \in DOMAIN ranges' /\ ranges'[k] = ranges[k]
  OBVIOUS
<1> QED BY <1>1, <1>2 DEF Backed, InRange, InPages, PointerInto

\* What is listed stays listed.
BackedStays == \A x, y : Backed(x, y) => Backed(x, y)'

LEMMA RangesStay ==
  ASSUME ranges \in Seq(RangeRec),
         ranges' = ranges \/ \E r : ranges' = Append(ranges, r)
  PROVE  BackedStays
BY KeepBacked DEF BackedStays

LEMMA SameRanges ==
  ASSUME ranges' = ranges
  PROVE  BackedStays
BY DEF BackedStays, Backed

LEMMA NowBacked ==
  ASSUME NEW r, NEW p, NEW t, \E k \in DOMAIN ranges' : ranges'[k] = r,
         InRange(r, t), p = PointerInto(r, t)
  PROVE  Backed(p, t)'
BY DEF Backed, InRange, PointerInto

\* A taken part of an arena is part of a block.
LEMMA TakenIsThere ==
  ASSUME CacheTypes, ArenasInv, NEW b, NEW end \in Nat, TakenFrom(b, end)
  PROVE  b \in ArenaBlocks /\ b \in DOMAIN mem /\ 0..(end - 1) \subseteq DOMAIN mem[b]
<1>1. PICK j \in DOMAIN arenas : arenas[j].blk = b /\ end <= arenas[j].used
  BY DEF TakenFrom
<1>2. arenas[j].used \in Nat /\ arenas[j].bytes \in Nat
  BY ArenaTyped
<1>3. /\ b \in DOMAIN mem /\ DOMAIN mem[b] = 0..(arenas[j].bytes - 1)
      /\ arenas[j].used <= arenas[j].bytes
  BY <1>1 DEF ArenasInv
<1>4. 0..(end - 1) \subseteq DOMAIN mem[b]
  BY <1>1, <1>2, <1>3
<1> QED BY <1>1, <1>3, <1>4 DEF ArenaBlocks

\* An operation that is not done has found some of its tensors, and looks up one.
LEMMA HostFields ==
  ASSUME CacheTypes, HostInv, host # HostIdle
  PROVE  /\ host.tensors \in Seq(Tensors) /\ host.got \in Seq(Pointer)
         /\ Len(host.got) \in Nat /\ Len(host.tensors) \in Nat
         /\ host.lost \in Nat /\ host.lost <= Len(host.got)
         /\ host.preload \in BOOLEAN /\ host.expand \in BOOLEAN
         /\ FoundBacked(host.tensors, host.lost, host.got)
         /\ host.expand => /\ Len(host.tensors) = 1 /\ host.lost = 0
                           /\ host.tensors[1] \notin DOMAIN expanded
<1>1. host \in Waiting \cup Uploading
  BY DEF CacheTypes
<1>2. /\ host.tensors \in Seq(Tensors) /\ host.got \in Seq(Pointer) /\ host.lost \in Nat
      /\ host.preload \in BOOLEAN /\ host.expand \in BOOLEAN
  BY <1>1 DEF Waiting, Uploading
<1>3. Len(host.got) \in Nat /\ Len(host.tensors) \in Nat
  BY <1>2
<1> QED BY <1>2, <1>3 DEF HostInv

LEMMA WantedTensor ==
  ASSUME CacheTypes, HostInv, host # HostIdle, Len(host.got) < Len(host.tensors)
  PROVE  /\ Wanted \in Tensors /\ Wanted.off \in Nat /\ Wanted.len \in Nat
         /\ Len(host.got) + 1 \in DOMAIN host.tensors
         /\ host.tensors[Len(host.got) + 1] = Wanted
<1>1. /\ host.tensors \in Seq(Tensors) /\ Len(host.got) \in Nat
      /\ Len(host.tensors) \in Nat
  BY HostFields
<1>2. Len(host.got) + 1 \in DOMAIN host.tensors
  BY <1>1
<1>3. Wanted \in Tensors
  BY <1>1, <1>2 DEF Wanted
<1> QED BY <1>2, <1>3 DEF Wanted, Tensors

LEMMA AcquiringTensor ==
  ASSUME CacheTypes, HostInv, Acquiring("acquire")
  PROVE  /\ host # HostIdle /\ host \in Waiting /\ Len(host.got) < Len(host.tensors)
         /\ Wanted \in Tensors /\ Wanted.off \in Nat /\ Wanted.len \in Nat
<1>1. host # HostIdle /\ host \in Waiting /\ Len(host.got) < Len(host.tensors)
  BY DEF Acquiring, CacheTypes, HostIdle, Uploading
<1> QED BY <1>1, WantedTensor

\* A lookup that goes on, or goes on otherwise, with the pointers it has.
LEMMA LookupStays ==
  ASSUME CacheTypes, HostInv, host # HostIdle,
         host'.tensors = host.tensors, host'.got = host.got, host'.expand = host.expand,
         host'.pc # "acquire" => Len(host.got) < Len(host.tensors),
         \/ host'.lost = host.lost /\ BackedStays
         \/ host'.lost = Len(host.got) /\ (host.expand => Len(host.got) = 0),
         UNCHANGED expanded
  PROVE  HostInv'
<1>1. /\ Len(host.got) \in Nat /\ Len(host.tensors) \in Nat
      /\ host.lost \in Nat /\ host.lost <= Len(host.got)
      /\ FoundBacked(host.tensors, host.lost, host.got)
      /\ host.expand => /\ Len(host.tensors) = 1 /\ host.lost = 0
                        /\ host.tensors[1] \notin DOMAIN expanded
  BY HostFields
<1>2. Len(host.got) <= Len(host.tensors)
  BY DEF HostInv
<1>3. FoundBacked(host.tensors, host.lost, host.got)'
  <2>1. CASE host'.lost = host.lost /\ BackedStays
    BY <1>1, <2>1 DEF BackedStays, FoundBacked
  <2>2. CASE host'.lost = Len(host.got)
    <3>1. (Len(host.got) + 1)..Len(host.got) = {}
      BY <1>1
    <3> QED BY <2>2, <3>1 DEF FoundBacked
  <2> QED BY <2>1, <2>2
<1> QED BY <1>1, <1>2, <1>3 DEF HostInv

LEMMA NowFound ==
  ASSUME host'.pc = "acquire",
         host'.lost <= Len(host'.got), Len(host'.got) <= Len(host'.tensors),
         FoundBacked(host.tensors, host.lost, host.got)',
         host'.expand => /\ Len(host'.tensors) = 1 /\ host'.lost = 0
                         /\ host'.tensors[1] \notin DOMAIN expanded'
  PROVE  HostInv'
BY DEF HostInv

\* A lookup that has found its tensor goes on with the next.
LEMMA LookupFound ==
  ASSUME CacheTypes, HostInv, host # HostIdle, Len(host.got) < Len(host.tensors),
         NEW t, t = Wanted, NEW p \in Pointer, Backed(p, t)', BackedStays,
         host' = [pc |-> "acquire", tensors |-> host.tensors, got |-> Append(host.got, p),
                  lost |-> host.lost, preload |-> host.preload, expand |-> host.expand],
         UNCHANGED expanded
  PROVE  host' \in Waiting /\ HostInv' /\ host'.pc = "acquire"
<1> PICK n : n = Len(host.got)
  OBVIOUS
<1> PICK g : g = host'.got
  OBVIOUS
<1>1. /\ host.tensors \in Seq(Tensors) /\ host.got \in Seq(Pointer) /\ n \in Nat
      /\ Len(host.tensors) \in Nat /\ host.lost \in Nat /\ host.lost <= n
      /\ host.preload \in BOOLEAN /\ host.expand \in BOOLEAN
      /\ FoundBacked(host.tensors, host.lost, host.got)
      /\ host.expand => /\ Len(host.tensors) = 1 /\ host.lost = 0
                        /\ host.tensors[1] \notin DOMAIN expanded
  BY HostFields
<1>2. /\ host'.pc = "acquire" /\ host'.tensors = host.tensors /\ g = Append(host.got, p)
      /\ host'.lost = host.lost /\ host'.expand = host.expand
  OBVIOUS
<1>3. /\ g \in Seq(Pointer) /\ Len(g) = n + 1 /\ g[n + 1] = p
      /\ \A i \in 1..n : g[i] = host.got[i]
  BY <1>1, <1>2
<1>4. host' \in Waiting
  BY <1>1, <1>2, <1>3 DEF Waiting
<1>5. host.tensors[n + 1] = t
  BY WantedTensor
<1>6. FoundBacked(host.tensors, host.lost, host.got)'
  <2>1. ASSUME NEW i \in (host.lost + 1)..(n + 1), NEW x, x = g[i], NEW y, y = host.tensors[i]
        PROVE  Backed(x, y)'
    <3>1. CASE i = n + 1
      BY <1>3, <1>5, <2>1, <3>1
    <3>2. CASE i # n + 1
      <4>1. i \in (host.lost + 1)..n /\ i \in 1..n
        BY <1>1, <3>2
      <4>2. Backed(host.got[i], host.tensors[i])
        BY <1>1, <4>1 DEF FoundBacked
      <4> QED BY <1>3, <2>1, <4>1, <4>2 DEF BackedStays
    <3> QED BY <3>1, <3>2
  <2>2. \A i \in (host.lost + 1)..(n + 1) : Backed(g[i], host.tensors[i])'
    <3> SUFFICES ASSUME NEW i \in (host.lost + 1)..(n + 1)
                 PROVE  \E x, y : x = g[i] /\ y = host'.tensors[i] /\ Backed(x, y)'
      BY <1>2
    <3> QED BY <1>2, <2>1
  <2> QED BY <1>2, <1>3, <2>2 DEF FoundBacked
<1>7. Len(host'.got) <= Len(host'.tensors) /\ host'.lost <= Len(host'.got)
  <2>1. Len(g) <= Len(host'.tensors) /\ host'.lost <= Len(g)
    BY <1>1, <1>2, <1>3
  <2> QED BY <2>1
<1>8. host'.expand => /\ Len(host'.tensors) = 1 /\ host'.lost = 0
                      /\ host'.tensors[1] \notin DOMAIN expanded'
  BY <1>1, <1>2
<1>9. HostInv'
  BY <1>2, <1>6, <1>7, <1>8, NowFound
<1> QED BY <1>2, <1>4, <1>9

\* Expanded copies stay what they are while their blocks are not touched.
LEMMA KeepExpanded ==
  ASSUME ExpandedInv, expanded' = expanded,
         \A t \in DOMAIN expanded :
           /\ expanded[t] \in DOMAIN mem' /\ mem'[expanded[t]] = mem[expanded[t]]
           /\ expanded[t] \notin ArenaBlocks' /\ expanded[t] \notin RangeBlocks',
         kernels' = kernels \/ \E k : kernels' = Append(kernels, k),
         kernels \in Seq(KernelRec)
  PROVE  ExpandedInv'
<1> SUFFICES ASSUME NEW t \in DOMAIN expanded
             PROVE  /\ expanded[t] \in Nat
                    /\ \A u \in DOMAIN expanded : expanded[u] = expanded[t] => u = t
                    /\ Filled(t)' \/ \E j \in DOMAIN kernels' : Fills(kernels'[j], t)
  BY DEF ExpandedInv
<1>1. CASE Filled(t)
  <2>1. Filled(t)'
    BY <1>1 DEF Filled, Reads
  <2> QED BY <2>1 DEF ExpandedInv
<1>2. CASE \E j \in DOMAIN kernels : Fills(kernels[j], t)
  <2>1. PICK j \in DOMAIN kernels : Fills(kernels[j], t)
    BY <1>2
  <2>2. j \in DOMAIN kernels' /\ kernels'[j] = kernels[j]
    OBVIOUS
  <2> QED BY <2>1, <2>2 DEF ExpandedInv
<1> QED BY <1>1, <1>2 DEF ExpandedInv

\* The copies that are listed stay listed, and filled where they were.
CopiesStay ==
  \A x \in DOMAIN expanded :
     x \in DOMAIN expanded' /\ expanded'[x] = expanded[x] /\ (Filled(x) => Filled(x)')

LEMMA SameCopies ==
  ASSUME UNCHANGED <<expanded, mem>>
  PROVE  CopiesStay
BY DEF CopiesStay, Filled, Reads

\* A kernel keeps what it was launched with while the kernels before it stay.
LEMMA KeepKernel ==
  ASSUME NEW i \in Nat, i >= 1, KernelInv(i), \A j \in 1..i : kernels'[j] = kernels[j],
         BackedStays, CopiesStay
  PROVE  KernelInv(i)'
<1> PICK k : k = kernels[i]
  OBVIOUS
<1>1. kernels'[i] = k
  OBVIOUS
<1>2. CASE ReadsRanges(k)
  <2>1. FoundBacked(k.of, k.lost, k.from)'
    BY <1>2 DEF ReadsRanges, BackedStays, FoundBacked
  <2>2. ReadsRanges(k)'
    BY <1>2, <2>1 DEF ReadsRanges, CopiesStay
  <2> QED BY <1>1, <2>2 DEF KernelInv
<1>3. ASSUME NEW t \in Tensors, ReadsCopy(k, t),
             Filled(t) \/ \E j \in 1..(i - 1) : Fills(kernels[j], t)
      PROVE  KernelInv(i)'
  <2>1. Filled(t)' \/ \E j \in 1..(i - 1) : Fills(kernels'[j], t)
    BY <1>3 DEF CopiesStay, ReadsCopy
  <2>2. ReadsCopy(k, t)'
    BY <1>3 DEF CopiesStay, ReadsCopy
  <2> QED BY <1>1, <2>1, <2>2 DEF KernelInv, Fills
<1> QED BY <1>2, <1>3 DEF KernelInv

LEMMA KernelsStay ==
  ASSUME CacheTypes, KernelsInv, UNCHANGED kernels, BackedStays, CopiesStay
  PROVE  KernelsInv'
<1> SUFFICES ASSUME NEW i \in DOMAIN kernels PROVE KernelInv(i)'
  BY DEF KernelsInv
<1>1. i \in Nat /\ i >= 1 /\ KernelInv(i)
  BY DEF CacheTypes, KernelsInv
<1> QED BY <1>1, KeepKernel

-----------------------------------------------------------------------------
(* Steps of the host that change nothing of what is cached.                *)

LEMMA HostOnly ==
  ASSUME CacheInv,
         UNCHANGED <<ranges, byOffset, rangeBytes, arenas, expanded, mem, stage, dma, kernels>>,
         host' \in {HostIdle} \cup Waiting, HostInv'
  PROVE  CacheInv'
<1>1. CacheTypes'
  BY DEF CacheInv, CacheTypes
<1>2. ArenasInv'
  BY DEF CacheInv, ArenasInv
<1>3. RangesInv'
  BY DEF CacheInv, RangesInv, RangeInv, Reads, TakenFrom, ArenaBlocks
<1>4. ExpandedInv'
  BY KeepExpanded DEF CacheInv, CacheTypes, ExpandedInv, ArenaBlocks, RangeBlocks
<1>5. DmaInv'
  BY DEF CacheInv, DmaInv, TakenFrom, Within
<1>6. UploadInv'
  BY DEF UploadInv, HostIdle, Waiting
<1>7. KernelsInv'
  BY SameRanges, SameCopies, KernelsStay DEF CacheInv
<1> QED BY <1>1, <1>2, <1>3, <1>4, <1>5, <1>6, <1>7 DEF CacheInv

\* Eviction finds the device at rest, and no pointer in use but those that the
\* operation loses itself.
LEMMA Evicts ==
  ASSUME CacheInv, DeviceQuiet, ReleaseAll,
         UNCHANGED <<expanded, stage, dma, kernels>>,
         \/ host = HostIdle /\ UNCHANGED host
         \/ Acquiring("acquire") /\ LosesItsOwn
  PROVE  CacheInv'
<1>1. /\ ranges' = <<>> /\ byOffset' = <<>> /\ rangeBytes' = 0 /\ arenas' = <<>>
      /\ mem' = Without(RangeBlocks \cup ArenaBlocks)
  BY DEF ReleaseAll, RangeBlocks, ArenaBlocks
<1>2. kernels' = <<>> /\ dma' = <<>> /\ kernels = <<>>
  BY DEF DeviceQuiet
<1>0. host' \in {HostIdle} \cup Waiting /\ HostInv'
  <2>1. CASE host = HostIdle /\ UNCHANGED host
    BY <2>1 DEF HostInv
  <2>2. CASE Acquiring("acquire") /\ LosesItsOwn
    <3>1. CacheTypes /\ HostInv
      BY DEF CacheInv
    <3>2. host # HostIdle /\ host \in Waiting /\ Len(host.got) < Len(host.tensors)
      BY <2>2, <3>1, AcquiringTensor
    <3>3. /\ Len(host.got) \in Nat
          /\ host.expand => Len(host.tensors) = 1
      BY <3>1, <3>2, HostFields
    <3>4. /\ host' \in Waiting /\ host'.pc = host.pc /\ host'.tensors = host.tensors
          /\ host'.got = host.got /\ host'.expand = host.expand /\ host'.lost = Len(host.got)
      BY <2>2, <3>2, <3>3 DEF LosesItsOwn, Waiting
    <3>5. ASSUME host.expand PROVE Len(host.got) = 0
      <4>1. Len(host.tensors) = 1
        BY <3>3, <3>5
      <4>2. \A m \in Nat : m < 1 => m = 0
        OBVIOUS
      <4> QED BY <3>2, <3>3, <4>1, <4>2
    <3>6. HostInv'
      BY <3>1, <3>2, <3>4, <3>5, LookupStays
    <3> QED BY <3>4, <3>6
  <2> QED BY <2>1, <2>2
<1>3. CacheTypes'
  <2>1. DOMAIN mem' \subseteq DOMAIN mem
    BY <1>1 DEF Without
  <2>2. IsFiniteSet(DOMAIN mem')
    BY <2>1, FS_Subset DEF CacheInv, CacheTypes
  <2>3. DOMAIN <<>> = {}
    OBVIOUS
  <2>4. host' \in {HostIdle} \cup Waiting
    BY <1>0
  <2> QED BY <1>1, <1>2, <2>2, <2>3, <2>4, Constants DEF CacheInv, CacheTypes
<1>4. ArenasInv' /\ RangesInv' /\ DmaInv'
  BY <1>1, <1>2 DEF ArenasInv, RangesInv, DmaInv
<1>5. ExpandedInv'
  <2> SUFFICES ASSUME NEW t \in DOMAIN expanded
               PROVE  /\ expanded[t] \in Nat /\ expanded[t] \in DOMAIN mem'
                      /\ \A u \in DOMAIN expanded : expanded[u] = expanded[t] => u = t
                      /\ Filled(t)'
    BY <1>1 DEF ExpandedInv, ArenaBlocks, RangeBlocks, CacheInv
  <2>1. /\ expanded[t] \in Nat /\ expanded[t] \in DOMAIN mem
        /\ expanded[t] \notin ArenaBlocks /\ expanded[t] \notin RangeBlocks
        /\ \A u \in DOMAIN expanded : expanded[u] = expanded[t] => u = t
        /\ Filled(t)
    BY <1>2 DEF CacheInv, ExpandedInv
  <2>2. expanded[t] \in DOMAIN mem' /\ mem'[expanded[t]] = mem[expanded[t]]
    BY <1>1, <2>1 DEF Without
  <2> QED BY <2>1, <2>2 DEF Filled, Reads
<1>6. UploadInv'
  BY <1>0 DEF UploadInv, HostIdle, Waiting
<1>7. KernelsInv'
  BY <1>2 DEF KernelsInv
<1> QED BY <1>0, <1>3, <1>4, <1>5, <1>6, <1>7 DEF CacheInv

LEMMA CacheInvInit == Init => CacheInv
<1> SUFFICES ASSUME Init PROVE CacheInv
  OBVIOUS
<1>1. DOMAIN <<>> = {} /\ IsFiniteSet({})
  BY FS_EmptySet
<1>2. CacheTypes
  BY <1>1, Constants DEF Init, CacheTypes
<1>3. ArenasInv /\ RangesInv /\ DmaInv /\ KernelsInv /\ ExpandedInv
  BY <1>1 DEF Init, ArenasInv, RangesInv, DmaInv, KernelsInv, ExpandedInv
<1>4. HostInv /\ UploadInv
  BY DEF Init, HostInv, UploadInv, HostIdle
<1> QED BY <1>2, <1>3, <1>4 DEF CacheInv

-----------------------------------------------------------------------------
(* The arenas.                                                             *)

\* What an upload finds when it starts: a taken part of an arena that belongs
\* to no range and to which no copy is under way.

LEMMA UploadStarts ==
  ASSUME CacheTypes, HostInv, Uncached,
         NEW t, t = Wanted, NEW b \in Nat, NEW at \in Nat,
         StartUpload(b, at), TakenFrom(b, at + t.len)',
         UNCHANGED <<ranges, rangeBytes, expanded, dma>>,
         \A m \in DOMAIN ranges :
            ranges[m].blk = b => ranges[m].at + ranges[m].len <= at,
         \A k \in DOMAIN dma : dma[k].blk = b => dma[k].at < at
  PROVE  host' \in Uploading /\ HostInv' /\ UploadInv'
<1>1. /\ host # HostIdle /\ Len(host.got) < Len(host.tensors)
      /\ t \in Tensors /\ t.off \in Nat /\ t.len \in Nat /\ ~OverLimit(Wanted)
  BY AcquiringTensor DEF Uncached
<1>2. /\ host' = [pc |-> "upload", tensors |-> host.tensors, got |-> host.got,
                  lost |-> host.lost, preload |-> host.preload, expand |-> host.expand,
                  blk |-> b, at |-> at, copied |-> 0]
      /\ host.tensors \in Seq(Tensors) /\ host.got \in Seq(Pointer) /\ host.lost \in Nat
      /\ host.preload \in BOOLEAN /\ host.expand \in BOOLEAN
  BY <1>1, HostFields DEF StartUpload
<1>3. rangeBytes + t.len <= CacheLimit
  BY <1>1, Constants DEF OverLimit, CacheTypes
<1>4. host' \in Uploading
  BY <1>2 DEF Uploading
<1>5. /\ host'.tensors = host.tensors /\ host'.got = host.got /\ host'.expand = host.expand
      /\ host'.lost = host.lost
      /\ host'.blk = b /\ host'.at = at /\ host'.copied = 0
  BY <1>2
<1>6. HostInv'
  <2>1. BackedStays
    BY SameRanges
  <2> QED BY <1>1, <1>5, <2>1, LookupStays
<1>7. UploadInv'
  <2>1. \A k \in DOMAIN dma : dma[k].at \in Nat
    BY DmaTyped
  <2>2. \A k \in DOMAIN dma : ~(dma[k].blk = b /\ Within(dma[k].at, at, t.len))
    BY <2>1 DEF Within
  <2>3. rangeBytes' + t.len <= CacheLimit
    BY <1>3
  <2>4. \A m \in DOMAIN ranges' : ranges'[m].blk = b =>
           \/ ranges'[m].at + ranges'[m].len <= at
           \/ at + t.len <= ranges'[m].at
    OBVIOUS
  <2>5. 0..(0 - 1) = {} /\ 0 <= t.len
    BY <1>1
  <2>6. Wanted' = t
    BY <1>5 DEF Wanted
  <2> QED BY <1>5, <2>2, <2>3, <2>4, <2>5, <2>6 DEF UploadInv
<1> QED BY <1>4, <1>6, <1>7

\* Arena space is rounded up.
LEMMA AlignedLen ==
  ASSUME NEW v \in Nat
  PROVE  Aligned(v) \in Nat /\ v <= Aligned(v)
<1>1. ArenaAlign \in Nat \ {0}
  BY Constants
<1>2. \A x \in Nat : /\ (x \div ArenaAlign) \in Nat
                     /\ (x \div ArenaAlign) * ArenaAlign \in Nat
                     /\ x < (x \div ArenaAlign) * ArenaAlign + ArenaAlign
  BY <1>1
<1>3. v + ArenaAlign - 1 \in Nat
  BY <1>1
<1> QED BY <1>1, <1>2, <1>3 DEF Aligned

LEMMA ArenaFitsStep ==
  ASSUME CacheInv, ArenaFits
  PROVE  CacheInv'
<1> DEFINE k == Min(Roomy(Needed))
<1> PICK t : t = Wanted
  OBVIOUS
<1> PICK len : len = Needed
  OBVIOUS
<1>0. CacheTypes /\ HostInv /\ ArenasInv
  BY DEF CacheInv
<1>1. Uncached /\ Acquiring("acquire") /\ Roomy(len) # {}
  BY DEF ArenaFits, Uncached
<1>2. t.len \in Nat /\ t \in Tensors /\ len \in Nat /\ t.len <= len
  BY <1>0, <1>1, AcquiringTensor, AlignedLen DEF Needed
<1>3. /\ arenas' = [arenas EXCEPT ![k].used = @ + len]
      /\ StartUpload(arenas[k].blk, arenas[k].used)
      /\ UNCHANGED <<ranges, byOffset, rangeBytes, expanded, mem, stage, dma, kernels>>
  BY DEF ArenaFits
<1>4. k \in DOMAIN arenas /\ arenas[k].bytes - arenas[k].used >= len
  <2>1. Roomy(len) \in SUBSET Nat
    BY <1>0 DEF Roomy, CacheTypes
  <2>2. k \in Roomy(len)
    BY <1>1, <2>1, LeastOf
  <2> QED BY <2>2 DEF Roomy
<1> HIDE DEF k
<1>5. \A j \in DOMAIN arenas :
         arenas[j] \in ArenaRec /\ arenas[j].used \in Nat /\ arenas[j].blk \in Nat
         /\ arenas[j].bytes \in Nat
  BY <1>0, ArenaTyped
<1>6. /\ DOMAIN arenas' = DOMAIN arenas /\ arenas' \in Seq(ArenaRec)
      /\ \A j \in DOMAIN arenas :
           /\ arenas'[j].blk = arenas[j].blk /\ arenas'[j].bytes = arenas[j].bytes
           /\ arenas'[j].used = arenas[j].used + (IF j = k THEN len ELSE 0)
  <2>1. [arenas[k] EXCEPT !.used = @ + len] \in ArenaRec
    BY <1>2, <1>4, <1>5 DEF ArenaRec
  <2>2. arenas' \in Seq(ArenaRec)
    BY <1>0, <1>3, <1>4, <2>1 DEF CacheTypes
  <2>3. arenas'[k] = [blk |-> arenas[k].blk, bytes |-> arenas[k].bytes,
                      used |-> arenas[k].used + len]
    BY <1>3, <1>4, <1>5 DEF ArenaRec
  <2>4. \A j \in DOMAIN arenas : j # k => arenas'[j] = arenas[j]
    BY <1>3
  <2>5. DOMAIN arenas' = DOMAIN arenas
    BY <1>3
  <2> QED BY <1>4, <1>5, <2>2, <2>3, <2>4, <2>5
<1>7. ArenaBlocks' = ArenaBlocks
  BY <1>6 DEF ArenaBlocks
<1>8. \A b, end : end \in Nat /\ TakenFrom(b, end) => TakenFrom(b, end)'
  BY <1>2, <1>5, <1>6 DEF TakenFrom
<1>9. /\ \A end \in Nat : TakenFrom(arenas[k].blk, end) => end <= arenas[k].used
      /\ \A b, end : b = arenas[k].blk /\ end = arenas[k].used + t.len => TakenFrom(b, end)'
  <2>1. ASSUME NEW end \in Nat, TakenFrom(arenas[k].blk, end)
        PROVE  end <= arenas[k].used
    <3>1. PICK j \in DOMAIN arenas : arenas[j].blk = arenas[k].blk /\ end <= arenas[j].used
      BY <2>1 DEF TakenFrom
    <3>2. j = k
      BY <1>0, <1>4, <3>1 DEF ArenasInv
    <3> QED BY <3>1, <3>2
  <2>2. arenas'[k].blk = arenas[k].blk /\ arenas[k].used + t.len <= arenas'[k].used
    BY <1>2, <1>4, <1>5, <1>6
  <2>3. ASSUME NEW b, b = arenas[k].blk, NEW end, end = arenas[k].used + t.len
        PROVE  TakenFrom(b, end)'
    BY <1>4, <1>6, <2>2, <2>3 DEF TakenFrom
  <2> QED BY <2>1, <2>3
<1>10. host' \in Uploading /\ HostInv' /\ UploadInv'
  <2>1. ASSUME NEW m \in DOMAIN ranges, ranges[m].blk = arenas[k].blk
        PROVE  ranges[m].at + ranges[m].len <= arenas[k].used
    <3>1. ranges[m].at \in Nat /\ ranges[m].len \in Nat
      BY <1>0, RangeTyped
    <3>2. TakenFrom(ranges[m].blk, ranges[m].at + ranges[m].len)
      BY <1>4, <2>1 DEF CacheInv, RangesInv, RangeInv, ArenaBlocks
    <3> QED BY <1>9, <2>1, <3>1, <3>2
  <2>2. ASSUME NEW d \in DOMAIN dma, dma[d].blk = arenas[k].blk
        PROVE  dma[d].at < arenas[k].used
    <3>1. dma[d].at \in Nat
      BY <1>0, DmaTyped
    <3>2. TakenFrom(dma[d].blk, dma[d].at + 1)
      BY DEF CacheInv, DmaInv
    <3> QED BY <1>5, <1>4, <1>9, <2>2, <3>1, <3>2
  <2> PICK b : b = arenas[k].blk
    OBVIOUS
  <2> PICK at : at = arenas[k].used
    OBVIOUS
  <2>3. b \in Nat /\ at \in Nat
    BY <1>4, <1>5
  <2>4. TakenFrom(b, at + t.len)'
    BY <1>9
  <2>5. StartUpload(b, at)
    BY <1>3
  <2>6. /\ \A m \in DOMAIN ranges :
              ranges[m].blk = b => ranges[m].at + ranges[m].len <= at
        /\ \A d \in DOMAIN dma : dma[d].blk = b => dma[d].at < at
    BY <2>1, <2>2
  <2> QED BY <1>0, <1>1, <1>3, <2>3, <2>4, <2>5, <2>6, UploadStarts
<1>11. CacheTypes'
  BY <1>3, <1>6, <1>10, <1>0 DEF CacheTypes
<1>12. ArenasInv'
  BY <1>0, <1>2, <1>3, <1>4, <1>5, <1>6 DEF ArenasInv
<1>13. RangesInv'
  <2> SUFFICES ASSUME NEW m \in DOMAIN ranges PROVE RangeInv(ranges[m])'
    BY <1>3 DEF RangesInv
  <2>1. RangeInv(ranges[m]) /\ ranges[m].at + ranges[m].len \in Nat
    BY <1>0, RangeTyped DEF CacheInv, RangesInv
  <2> QED BY <1>3, <1>7, <1>8, <2>1 DEF RangeInv, Reads
<1>14. ExpandedInv'
  BY <1>0, <1>3, <1>7, KeepExpanded DEF CacheInv, CacheTypes, ExpandedInv, RangeBlocks
<1>15. DmaInv'
  <2>1. \A d \in DOMAIN dma : dma[d].at + 1 \in Nat
    BY <1>0, DmaTyped
  <2> QED BY <1>3, <1>8, <2>1 DEF CacheInv, DmaInv, Within
<1>16. KernelsInv'
  BY <1>3, SameRanges, SameCopies, KernelsStay DEF CacheInv
<1> QED BY <1>10, <1>11, <1>12, <1>13, <1>14, <1>15, <1>16 DEF CacheInv

\* What holds a tensor, a copy or an arena is there.
LEMMA BlocksAreThere ==
  ASSUME CacheInv
  PROVE  /\ ArenaBlocks \subseteq DOMAIN mem /\ RangeBlocks \subseteq DOMAIN mem
         /\ \A t \in DOMAIN expanded : expanded[t] \in DOMAIN mem
BY DEF CacheInv, ArenasInv, RangesInv, RangeInv, Reads, ExpandedInv, ArenaBlocks, RangeBlocks

\* A new block leaves the others as they are.
LEMMA NewBlock ==
  ASSUME CacheInv, NEW b, NEW c, b = Free, mem' = WithBlock(Free, c)
  PROVE  /\ b \in Nat /\ b \notin DOMAIN mem /\ b \notin ArenaBlocks /\ b \notin RangeBlocks
         /\ DOMAIN mem' = DOMAIN mem \cup {b} /\ mem'[b] = c
         /\ \A x \in DOMAIN mem : mem'[x] = mem[x]
         /\ IsFiniteSet(DOMAIN mem')
<1>1. IsFiniteSet(DOMAIN mem)
  BY DEF CacheInv, CacheTypes
<1>2. b \in Nat /\ b \notin DOMAIN mem
  BY <1>1, FreeIsNew
<1>3. mem' = [x \in DOMAIN mem \cup {b} |-> IF x = b THEN c ELSE mem[x]]
  BY DEF WithBlock
<1>4. IsFiniteSet(DOMAIN mem \cup {b})
  BY <1>1, FS_AddElement
<1> QED BY <1>2, <1>3, <1>4, BlocksAreThere

LEMMA ArenaNewStep ==
  ASSUME CacheInv, ArenaNew
  PROVE  CacheInv'
<1> PICK t : t = Wanted
  OBVIOUS
<1> PICK b : b = Free
  OBVIOUS
<1>0. CacheTypes /\ HostInv /\ ArenasInv
  BY DEF CacheInv
<1> PICK len : len = Needed
  OBVIOUS
<1>1. Uncached /\ Acquiring("acquire")
  BY DEF ArenaNew, Uncached
<1>2. t.len \in Nat /\ t \in Tensors /\ len \in Nat /\ t.len <= len
  BY <1>0, <1>1, AcquiringTensor, AlignedLen DEF Needed
<1>3. \E bytes \in {ChunkFor(len), len} :
        /\ arenas' = Append(arenas, [blk |-> b, bytes |-> bytes, used |-> len])
        /\ mem' = WithBlock(Free, Block(bytes))
        /\ StartUpload(b, 0)
        /\ UNCHANGED <<ranges, byOffset, rangeBytes, expanded, stage, dma, kernels>>
  BY DEF ArenaNew
<1> PICK bytes \in {ChunkFor(len), len} :
        /\ arenas' = Append(arenas, [blk |-> b, bytes |-> bytes, used |-> len])
        /\ mem' = WithBlock(Free, Block(bytes))
        /\ StartUpload(b, 0)
        /\ UNCHANGED <<ranges, byOffset, rangeBytes, expanded, stage, dma, kernels>>
  BY <1>3
<1>4. bytes \in Nat /\ len <= bytes
  BY <1>2, Constants DEF ChunkFor
<1>5. /\ b \in Nat /\ b \notin DOMAIN mem /\ b \notin ArenaBlocks /\ b \notin RangeBlocks
      /\ DOMAIN mem' = DOMAIN mem \cup {b} /\ mem'[b] = Block(bytes)
      /\ \A x \in DOMAIN mem : mem'[x] = mem[x]
      /\ IsFiniteSet(DOMAIN mem')
  BY NewBlock
<1>6. DOMAIN Block(bytes) = 0..(bytes - 1)
  BY DEF Block
<1> DEFINE n == Len(arenas) + 1
<1>7. /\ arenas' \in Seq(ArenaRec) /\ n \in Nat /\ n \notin DOMAIN arenas
      /\ DOMAIN arenas' = DOMAIN arenas \cup {n}
      /\ arenas'[n] = [blk |-> b, bytes |-> bytes, used |-> len]
      /\ \A j \in DOMAIN arenas : arenas'[j] = arenas[j]
  <2>1. arenas \in Seq(ArenaRec)
    BY <1>0 DEF CacheTypes
  <2>2. [blk |-> b, bytes |-> bytes, used |-> len] \in ArenaRec
    BY <1>2, <1>4, <1>5 DEF ArenaRec
  <2> QED BY <2>1, <2>2
<1> HIDE DEF n
<1>8. ArenaBlocks' = ArenaBlocks \cup {b}
  BY <1>7 DEF ArenaBlocks
<1>9. \A x, end : TakenFrom(x, end) => TakenFrom(x, end)'
  BY <1>7 DEF TakenFrom
<1>10. TakenFrom(b, 0 + t.len)'
  BY <1>2, <1>7 DEF TakenFrom
<1>11. host' \in Uploading /\ HostInv' /\ UploadInv'
  <2>1. \A m \in DOMAIN ranges : ranges[m].blk # b
    BY <1>5 DEF RangeBlocks
  <2>2. ASSUME NEW d \in DOMAIN dma PROVE dma[d].blk # b
    <3>1. TakenFrom(dma[d].blk, dma[d].at + 1)
      BY DEF CacheInv, DmaInv
    <3> QED BY <1>5, <3>1 DEF TakenFrom, ArenaBlocks
  <2>3. UNCHANGED <<ranges, rangeBytes, expanded, dma>>
    OBVIOUS
  <2>4. 0 \in Nat
    OBVIOUS
  <2> QED BY <1>0, <1>1, <1>5, <1>10, <2>1, <2>2, <2>3, <2>4, UploadStarts
<1>12. CacheTypes'
  BY <1>0, <1>5, <1>7, <1>11 DEF CacheTypes
<1>13. ArenasInv'
  <2> SUFFICES ASSUME NEW j \in DOMAIN arenas'
               PROVE  /\ arenas'[j].blk \in DOMAIN mem'
                      /\ DOMAIN mem'[arenas'[j].blk] = 0..(arenas'[j].bytes - 1)
                      /\ arenas'[j].used <= arenas'[j].bytes
                      /\ \A i \in DOMAIN arenas' : arenas'[i].blk = arenas'[j].blk => i = j
    BY DEF ArenasInv
  <2>1. CASE j = n
    BY <1>4, <1>5, <1>6, <1>7, <2>1 DEF ArenaBlocks
  <2>2. CASE j \in DOMAIN arenas
    BY <1>0, <1>5, <1>7, <2>2 DEF ArenaBlocks, ArenasInv
  <2> QED BY <1>7, <2>1, <2>2
<1>14. RangesInv'
  <2> SUFFICES ASSUME NEW m \in DOMAIN ranges PROVE RangeInv(ranges[m])'
    BY DEF RangesInv
  <2>1. RangeInv(ranges[m]) /\ ranges[m].blk \in DOMAIN mem /\ ranges[m].blk # b
    BY <1>5, BlocksAreThere DEF CacheInv, RangesInv, RangeBlocks
  <2>2. mem'[ranges[m].blk] = mem[ranges[m].blk] /\ ranges[m].blk \in DOMAIN mem'
    BY <1>5, <2>1
  <2>3. Reads([blk |-> ranges[m].blk, at |-> ranges[m].at], ranges[m])'
    BY <2>1, <2>2 DEF RangeInv, Reads
  <2> QED BY <1>8, <1>9, <2>1, <2>2, <2>3 DEF RangeInv
<1>15. ExpandedInv'
  <2>1. \A x \in DOMAIN expanded :
          /\ expanded[x] \in DOMAIN mem' /\ mem'[expanded[x]] = mem[expanded[x]]
          /\ expanded[x] \notin ArenaBlocks' /\ expanded[x] \notin RangeBlocks'
    BY <1>5, <1>8 DEF CacheInv, ExpandedInv, RangeBlocks
  <2> QED BY <2>1, KeepExpanded DEF CacheInv, CacheTypes
<1>16. DmaInv'
  BY <1>9 DEF CacheInv, DmaInv, Within
<1>17. KernelsInv'
  <2>1. CopiesStay
    BY <1>5 DEF CopiesStay, Filled, Reads
  <2> QED BY <2>1, SameRanges, KernelsStay DEF CacheInv
<1> QED BY <1>11, <1>12, <1>13, <1>14, <1>15, <1>16, <1>17 DEF CacheInv

-----------------------------------------------------------------------------
(* The upload.                                                             *)

LEMMA UploadingTensor ==
  ASSUME CacheInv, host.pc = "upload"
  PROVE  /\ host # HostIdle /\ host \in Uploading /\ Len(host.got) < Len(host.tensors)
         /\ Wanted \in Tensors /\ Wanted.off \in Nat /\ Wanted.len \in Nat
         /\ host.blk \in Nat /\ host.at \in Nat /\ host.copied \in Nat
         /\ host.copied <= Wanted.len /\ host.at + Wanted.len \in Nat
<1>1. host # HostIdle /\ host \in Uploading /\ CacheTypes /\ HostInv
  BY DEF CacheInv, CacheTypes, HostIdle, Waiting
<1>2. /\ Len(host.got) < Len(host.tensors)
      /\ host.blk \in Nat /\ host.at \in Nat /\ host.copied \in Nat
  BY <1>1 DEF Uploading, HostInv
<1>3. Wanted.off \in Nat /\ Wanted.len \in Nat /\ Wanted \in Tensors
  BY <1>1, <1>2, WantedTensor
<1>4. host.copied <= Wanted.len
  BY <1>3 DEF CacheInv, UploadInv
<1> QED BY <1>1, <1>2, <1>3, <1>4

\* An upload that has staged one more byte.
LEMMA OneMoreCopied ==
  ASSUME NEW h \in Uploading
  PROVE  LET g == [h EXCEPT !.copied = @ + 1]
         IN /\ g \in Uploading
            /\ g.pc = "upload" /\ g.tensors = h.tensors /\ g.got = h.got
            /\ g.lost = h.lost /\ g.expand = h.expand /\ g.blk = h.blk /\ g.at = h.at
            /\ g.copied = h.copied + 1
  BY DEF Uploading

LEMMA StageChunkStep ==
  ASSUME CacheInv, StageChunk
  PROVE  CacheInv'
<1> PICK t : t = Wanted
  OBVIOUS
<1> DEFINE n == host.copied
           e == [buf |-> Buffer, blk |-> host.blk, at |-> host.at + n]
           m == Len(dma) + 1
<1>0. CacheTypes /\ HostInv /\ ArenasInv
  BY DEF CacheInv
<1>1. /\ host.pc = "upload" /\ n < t.len /\ BufferFree
      /\ stage' = [stage EXCEPT ![Buffer] = t.off + n]
      /\ dma' = Append(dma, e)
      /\ host' = [host EXCEPT !.copied = @ + 1]
      /\ UNCHANGED <<ranges, byOffset, rangeBytes, arenas, expanded, mem, kernels>>
  BY DEF StageChunk, cacheVars
<1>2. /\ host # HostIdle /\ host \in Uploading /\ Len(host.got) < Len(host.tensors)
      /\ t \in Tensors /\ t.off \in Nat /\ t.len \in Nat
      /\ host.blk \in Nat /\ host.at \in Nat /\ n \in Nat
  BY <1>1, UploadingTensor
<1>3. Stages \in Nat \ {0} /\ Buffer = n % Stages /\ Buffer \in 0..(Stages - 1)
  BY <1>2, Constants DEF Buffer
<1>4. e \in DmaRec
  BY <1>2, <1>3 DEF DmaRec
<1>5. /\ dma' \in Seq(DmaRec) /\ m \in Nat /\ m \notin DOMAIN dma
      /\ DOMAIN dma' = DOMAIN dma \cup {m} /\ dma'[m] = e
      /\ \A k \in DOMAIN dma : dma'[k] = dma[k]
  <2>1. dma \in Seq(DmaRec)
    BY <1>0 DEF CacheTypes
  <2> HIDE DEF e
  <2> QED BY <1>1, <1>4, <2>1
<1>6. /\ host' \in Uploading
      /\ host'.pc = "upload" /\ host'.tensors = host.tensors /\ host'.got = host.got
      /\ host'.lost = host.lost /\ host'.expand = host.expand
      /\ host'.blk = host.blk /\ host'.at = host.at /\ host'.copied = n + 1
      /\ Wanted' = t
  <2>1. /\ host' \in Uploading
        /\ host'.pc = "upload" /\ host'.tensors = host.tensors /\ host'.got = host.got
        /\ host'.lost = host.lost /\ host'.expand = host.expand
        /\ host'.blk = host.blk /\ host'.at = host.at /\ host'.copied = host.copied + 1
    BY <1>1, <1>2, OneMoreCopied
  <2>2. Wanted' = t
    BY <2>1 DEF Wanted
  <2> QED BY <2>1, <2>2
<1>7. e.buf = Buffer /\ e.blk = host.blk /\ e.at = host.at + n
  OBVIOUS
<1> HIDE DEF e, m
<1>8. /\ TakenFrom(host.blk, host.at + t.len)
      /\ rangeBytes + t.len <= CacheLimit
      /\ \A r \in DOMAIN ranges : ranges[r].blk = host.blk =>
           \/ ranges[r].at + ranges[r].len <= host.at
           \/ host.at + t.len <= ranges[r].at
      /\ \A i \in 0..(n - 1) :
           \/ mem[host.blk][host.at + i] = t.off + i
           \/ \E k \in DOMAIN dma : dma[k].blk = host.blk /\ dma[k].at = host.at + i
      /\ \A k \in DOMAIN dma :
           dma[k].blk = host.blk /\ Within(dma[k].at, host.at, t.len) =>
             /\ dma[k].at < host.at + n
             /\ dma[k].buf = (dma[k].at - host.at) % Stages
             /\ stage[dma[k].buf] = t.off + (dma[k].at - host.at)
  BY <1>1, <1>2 DEF CacheInv, UploadInv
<1>9. CacheTypes'
  BY <1>0, <1>1, <1>3, <1>5, <1>6 DEF CacheTypes
<1>10. ArenasInv' /\ RangesInv' /\ KernelsInv'
  <2>1. ArenasInv' /\ RangesInv'
    BY <1>1 DEF CacheInv, ArenasInv, RangesInv, RangeInv, Reads, TakenFrom, ArenaBlocks
  <2>2. KernelsInv'
    BY <1>1, SameRanges, SameCopies, KernelsStay DEF CacheInv
  <2> QED BY <2>1, <2>2
<1>11. ExpandedInv'
  BY <1>0, <1>1, KeepExpanded
     DEF CacheInv, CacheTypes, ExpandedInv, ArenaBlocks, RangeBlocks
<1>12. DmaInv'
  <2> SUFFICES ASSUME NEW k \in DOMAIN dma'
               PROVE  /\ TakenFrom(dma'[k].blk, dma'[k].at + 1)
                      /\ \A r \in DOMAIN ranges :
                           ranges[r].blk = dma'[k].blk =>
                             ~Within(dma'[k].at, ranges[r].at, ranges[r].len)
    BY <1>1 DEF DmaInv, TakenFrom, Within
  <2>1. CASE k \in DOMAIN dma
    BY <1>5, <2>1 DEF CacheInv, DmaInv
  <2>2. CASE k = m
    <3>1. dma'[k].blk = host.blk /\ dma'[k].at = host.at + n
      BY <1>5, <1>7, <2>2
    <3>2. host.at + n + 1 <= host.at + t.len
      BY <1>1, <1>2
    <3>3. \A j \in DOMAIN arenas : arenas[j].used \in Nat
      BY <1>0, ArenaTyped
    <3>4. TakenFrom(host.blk, host.at + n + 1)
      BY <1>2, <1>8, <3>2, <3>3 DEF TakenFrom
    <3>5. ASSUME NEW r \in DOMAIN ranges, ranges[r].blk = host.blk
          PROVE  ~Within(host.at + n, ranges[r].at, ranges[r].len)
      <4>1. ranges[r].at \in Nat /\ ranges[r].len \in Nat
        BY <1>0, RangeTyped
      <4>2. \/ ranges[r].at + ranges[r].len <= host.at
            \/ host.at + t.len <= ranges[r].at
        BY <1>8, <3>5
      <4>3. host.at \in Nat /\ n \in Nat /\ t.len \in Nat
        BY <1>2
      <4> QED BY <3>2, <4>1, <4>2, <4>3 DEF Within
    <3> QED BY <3>1, <3>4, <3>5
  <2> QED BY <1>5, <2>1, <2>2
<1>13. HostInv'
  <2>1. BackedStays
    BY <1>1, SameRanges
  <2> QED BY <1>0, <1>1, <1>2, <1>6, <2>1, LookupStays
<1>14. UploadInv'
  <2>1. ASSUME NEW i \in 0..n
        PROVE  \/ mem[host.blk][host.at + i] = t.off + i
               \/ \E k \in DOMAIN dma' : dma'[k].blk = host.blk /\ dma'[k].at = host.at + i
    <3>1. CASE i = n
      BY <1>5, <1>7, <3>1
    <3>2. CASE i \in 0..(n - 1)
      BY <1>5, <1>8, <3>2
    <3> QED BY <1>2, <3>1, <3>2
  <2>2. ASSUME NEW k \in DOMAIN dma',
               dma'[k].blk = host.blk, Within(dma'[k].at, host.at, t.len)
        PROVE  /\ dma'[k].at < host.at + (n + 1)
               /\ dma'[k].buf = (dma'[k].at - host.at) % Stages
               /\ stage'[dma'[k].buf] = t.off + (dma'[k].at - host.at)
    <3>1. CASE k = m
      <4>1. dma'[k].buf = n % Stages /\ dma'[k].at = host.at + n
        BY <1>3, <1>5, <1>7, <3>1
      <4>2. (host.at + n) - host.at = n /\ host.at + n < host.at + (n + 1)
        BY <1>2
      <4>3. stage'[n % Stages] = t.off + n
        BY <1>0, <1>1, <1>3 DEF CacheTypes
      <4> QED BY <4>1, <4>2, <4>3
    <3>2. CASE k \in DOMAIN dma
      <4> DEFINE d == dma[k].at - host.at
      <4>1. dma'[k] = dma[k]
        BY <1>5, <3>2
      <4>2. /\ dma[k].at < host.at + n
            /\ dma[k].buf = d % Stages
            /\ stage[dma[k].buf] = t.off + d
        BY <1>8, <2>2, <3>2, <4>1
      <4>3. dma[k].at \in Nat /\ dma[k].buf \in 0..(Stages - 1) /\ d \in Nat /\ d < n
        BY <1>0, <1>2, <2>2, <3>2, <4>1, <4>2, DmaTyped DEF Within
      <4>4. dma[k].buf # Buffer
        <5>1. CASE n < Stages
          <6> HIDE DEF d
          <6>1. d % Stages = d /\ n % Stages = n
            BY <1>2, <1>3, <4>3, <5>1, SmallMod
          <6> QED BY <1>3, <4>2, <4>3, <6>1, <1>2
        <5>2. CASE \A j \in DOMAIN dma : dma[j].buf # Buffer
          BY <3>2, <5>2
        <5> QED BY <1>1, <5>1, <5>2 DEF BufferFree
      <4>5. stage'[dma[k].buf] = stage[dma[k].buf]
        BY <1>0, <1>1, <4>3, <4>4 DEF CacheTypes
      <4>6. dma[k].at < host.at + (n + 1)
        BY <1>2, <4>2, <4>3
      <4> QED BY <4>1, <4>2, <4>5, <4>6
    <3> QED BY <1>5, <3>1, <3>2
  <2>3. /\ n + 1 <= t.len /\ (n + 1) - 1 = n
    BY <1>1, <1>2
  <2> QED BY <1>1, <1>6, <1>8, <2>1, <2>2, <2>3 DEF UploadInv, TakenFrom, Within
<1> QED BY <1>9, <1>10, <1>11, <1>12, <1>13, <1>14 DEF CacheInv

LEMMA DmaStepStep ==
  ASSUME CacheInv, DmaStep
  PROVE  CacheInv'
<1> DEFINE h == Head(dma)
           v == stage[h.buf]
<1>0. CacheTypes /\ HostInv /\ ArenasInv
  BY DEF CacheInv
<1>1. /\ dma # <<>> /\ dma' = Tail(dma)
      /\ UNCHANGED <<ranges, byOffset, rangeBytes, arenas, expanded, stage, kernels, host>>
  BY DEF DmaStep, cacheVars
<1>2. /\ dma \in Seq(DmaRec) /\ dma' \in Seq(DmaRec)
      /\ 1 \in DOMAIN dma /\ h = dma[1]
      /\ \A k \in DOMAIN dma' : k \in Nat /\ (k + 1) \in DOMAIN dma /\ dma'[k] = dma[k + 1]
      /\ \A k \in DOMAIN dma : k = 1 \/ (k - 1 \in DOMAIN dma' /\ dma'[k - 1] = dma[k])
  <2>1. dma \in Seq(DmaRec)
    BY <1>0 DEF CacheTypes
  <2> QED BY <1>1, <2>1
<1>3. h.blk \in Nat /\ h.at \in Nat /\ h.buf \in 0..(Stages - 1)
  BY <1>0, <1>2, DmaTyped
<1>4. /\ TakenFrom(h.blk, h.at + 1)
      /\ \A r \in DOMAIN ranges :
           ranges[r].blk = h.blk => ~Within(h.at, ranges[r].at, ranges[r].len)
  BY <1>2 DEF CacheInv, DmaInv
<1>5. h.blk \in ArenaBlocks /\ h.blk \in DOMAIN mem /\ h.at \in DOMAIN mem[h.blk]
  BY <1>0, <1>3, <1>4, TakenIsThere
<1>6. mem' = [mem EXCEPT ![h.blk][h.at] = v]
  BY <1>5 DEF DmaStep
<1> HIDE DEF h, v
<1>7. /\ DOMAIN mem' = DOMAIN mem
      /\ \A b \in DOMAIN mem : DOMAIN mem'[b] = DOMAIN mem[b]
      /\ \A b \in DOMAIN mem : b # h.blk => mem'[b] = mem[b]
      /\ \A x \in DOMAIN mem[h.blk] : x # h.at => mem'[h.blk][x] = mem[h.blk][x]
      /\ mem'[h.blk][h.at] = v
  BY <1>5, <1>6
<1>8. CacheTypes'
  BY <1>0, <1>1, <1>2, <1>7 DEF CacheTypes
<1>9. ArenasInv'
  BY <1>0, <1>1, <1>7 DEF ArenasInv
<1>10. RangesInv'
  <2> SUFFICES ASSUME NEW m \in DOMAIN ranges PROVE RangeInv(ranges[m])'
    BY <1>1 DEF RangesInv
  <2> PICK r : r = ranges[m]
    OBVIOUS
  <2>1. /\ r.at \in Nat /\ r.len \in Nat /\ r.blk \in DOMAIN mem
        /\ RangeInv(r)
    BY <1>0, RangeTyped DEF CacheInv, RangesInv, RangeInv, Reads
  <2>2. Reads([blk |-> r.blk, at |-> r.at], r)
    BY <2>1 DEF RangeInv
  <2>3. \A i \in 0..(r.len - 1) :
           (r.at + i) \in DOMAIN mem[r.blk] /\ mem[r.blk][r.at + i] = r.off + i
    BY <2>2 DEF Reads
  <2>4. ASSUME NEW i \in 0..(r.len - 1)
        PROVE  (r.at + i) \in DOMAIN mem'[r.blk] /\ mem'[r.blk][r.at + i] = r.off + i
    <3>1. r.blk = h.blk => r.at + i # h.at
      BY <1>3, <1>4, <2>1 DEF Within
    <3> QED BY <1>7, <2>1, <2>3, <3>1
  <2>5. Reads([blk |-> r.blk, at |-> r.at], r)'
    BY <1>7, <2>1, <2>4 DEF Reads
  <2>6. r.kind = "mapped" => r.blk # h.blk
    BY <1>5, <2>1 DEF RangeInv
  <2>7. r.kind = "mapped" => mem'[r.blk] = mem[r.blk]
    BY <1>7, <2>1, <2>6
  <2>8. RangeInv(r)'
    BY <1>1, <2>1, <2>5, <2>7 DEF RangeInv, TakenFrom, ArenaBlocks
  <2> QED BY <1>1, <2>8
<1>11. ExpandedInv'
  <2>1. \A t \in DOMAIN expanded :
          /\ expanded[t] \in DOMAIN mem' /\ mem'[expanded[t]] = mem[expanded[t]]
          /\ expanded[t] \notin ArenaBlocks' /\ expanded[t] \notin RangeBlocks'
    BY <1>1, <1>5, <1>7 DEF CacheInv, ExpandedInv, RangeBlocks, ArenaBlocks
  <2> QED BY <1>1, <2>1, KeepExpanded DEF CacheInv, CacheTypes
<1>12. DmaInv'
  <2>1. ASSUME NEW k \in DOMAIN dma'
        PROVE  /\ TakenFrom(dma'[k].blk, dma'[k].at + 1)
               /\ \A r \in DOMAIN ranges :
                     ranges[r].blk = dma'[k].blk =>
                       ~Within(dma'[k].at, ranges[r].at, ranges[r].len)
    BY <1>2 DEF CacheInv, DmaInv
  <2> QED BY <1>1, <2>1 DEF DmaInv, TakenFrom, Within
<1>13. HostInv'
  BY <1>1 DEF CacheInv, HostInv, FoundBacked, Backed
<1>14. KernelsInv'
  <2>1. \A t \in DOMAIN expanded : Filled(t) => Filled(t)'
    BY <1>1, <1>5, <1>7 DEF CacheInv, ExpandedInv, Filled, Reads
  <2>2. CopiesStay
    BY <1>1, <2>1 DEF CopiesStay
  <2> QED BY <1>1, <2>2, SameRanges, KernelsStay DEF CacheInv
<1>15. ASSUME host.pc = "upload" PROVE UploadInv'
  <2> PICK t : t = Wanted
    OBVIOUS
  <2>1. /\ t.off \in Nat /\ t.len \in Nat /\ Wanted' = t
        /\ host.at \in Nat /\ host.copied \in Nat /\ host.copied <= t.len
    BY <1>1, <1>15, UploadingTensor DEF Wanted
  <2>2. /\ TakenFrom(host.blk, host.at + t.len)
        /\ rangeBytes + t.len <= CacheLimit
        /\ \A r \in DOMAIN ranges : ranges[r].blk = host.blk =>
             \/ ranges[r].at + ranges[r].len <= host.at
             \/ host.at + t.len <= ranges[r].at
        /\ \A i \in 0..(host.copied - 1) :
             \/ mem[host.blk][host.at + i] = t.off + i
             \/ \E k \in DOMAIN dma : dma[k].blk = host.blk /\ dma[k].at = host.at + i
        /\ \A k \in DOMAIN dma :
             dma[k].blk = host.blk /\ Within(dma[k].at, host.at, t.len) =>
               /\ dma[k].at < host.at + host.copied
               /\ dma[k].buf = (dma[k].at - host.at) % Stages
               /\ stage[dma[k].buf] = t.off + (dma[k].at - host.at)
    BY <1>15, <2>1 DEF CacheInv, UploadInv
  <2>3. host.blk \in DOMAIN mem /\ 0..(host.at + t.len - 1) \subseteq DOMAIN mem[host.blk]
    BY <1>0, <2>1, <2>2, TakenIsThere
  <2>4. ASSUME NEW i \in 0..(host.copied - 1)
        PROVE  \/ mem'[host.blk][host.at + i] = t.off + i
               \/ \E k \in DOMAIN dma' : dma'[k].blk = host.blk /\ dma'[k].at = host.at + i
    <3>1. i \in Nat /\ i < t.len /\ host.at + i \in 0..(host.at + t.len - 1)
      BY <2>1
    <3>2. CASE h.blk = host.blk /\ h.at = host.at + i
      <4>1. Within(dma[1].at, host.at, t.len)
        BY <1>2, <2>1, <3>1, <3>2 DEF Within
      <4>2. v = t.off + (h.at - host.at)
        BY <1>2, <2>2, <3>2, <4>1 DEF v
      <4>3. v = t.off + i
        BY <2>1, <3>1, <3>2, <4>2
      <4> QED BY <1>7, <3>2, <4>3
    <3>3. CASE ~(h.blk = host.blk /\ h.at = host.at + i)
      <4>1. mem'[host.blk][host.at + i] = mem[host.blk][host.at + i]
        BY <1>7, <2>3, <3>1, <3>3
      <4>2. CASE mem[host.blk][host.at + i] = t.off + i
        BY <4>1, <4>2
      <4>3. ASSUME NEW k \in DOMAIN dma, dma[k].blk = host.blk, dma[k].at = host.at + i
            PROVE  \E j \in DOMAIN dma' : dma'[j].blk = host.blk /\ dma'[j].at = host.at + i
        <5>1. k # 1
          BY <1>2, <3>3, <4>3
        <5>2. PICK j \in DOMAIN dma' : dma'[j] = dma[k]
          BY <1>2, <5>1
        <5> QED BY <4>3, <5>2
      <4> QED BY <2>2, <4>2, <4>3
    <3> QED BY <3>2, <3>3
  <2>5. ASSUME NEW k \in DOMAIN dma',
               dma'[k].blk = host.blk, Within(dma'[k].at, host.at, t.len)
        PROVE  /\ dma'[k].at < host.at + host.copied
               /\ dma'[k].buf = (dma'[k].at - host.at) % Stages
               /\ stage[dma'[k].buf] = t.off + (dma'[k].at - host.at)
    <3>1. (k + 1) \in DOMAIN dma /\ dma'[k] = dma[k + 1]
      BY <1>2
    <3>2. dma[k + 1].blk = host.blk /\ Within(dma[k + 1].at, host.at, t.len)
      BY <2>5, <3>1
    <3>3. /\ dma[k + 1].at < host.at + host.copied
          /\ dma[k + 1].buf = (dma[k + 1].at - host.at) % Stages
          /\ stage[dma[k + 1].buf] = t.off + (dma[k + 1].at - host.at)
      BY <2>2, <3>1, <3>2
    <3> QED BY <3>1, <3>3
  <2> QED BY <1>1, <2>1, <2>2, <2>4, <2>5 DEF UploadInv, TakenFrom, Within
<1>16. UploadInv'
  <2>1. CASE host.pc # "upload"
    BY <1>1, <2>1 DEF UploadInv
  <2> QED BY <1>15, <2>1
<1> QED BY <1>8, <1>9, <1>10, <1>11, <1>12, <1>13, <1>14, <1>16 DEF CacheInv

\* A range that is listed anew, in a block that is read already or is new.
LEMMA Published ==
  ASSUME CacheTypes, NEW r \in RangeRec, Publish(r)
  PROVE  /\ ranges' = Append(ranges, r) /\ ranges' \in Seq(RangeRec)
         /\ Len(ranges) + 1 \in DOMAIN ranges' /\ ranges'[Len(ranges) + 1] = r
         /\ DOMAIN ranges' = DOMAIN ranges \cup {Len(ranges) + 1}
         /\ \A k \in DOMAIN ranges : ranges'[k] = ranges[k]
         /\ RangeBlocks' = RangeBlocks \cup {r.blk}
         /\ \A o \in DOMAIN byOffset' :
              byOffset'[o] \in DOMAIN ranges' /\ ranges'[byOffset'[o]].off = o
         /\ rangeBytes' = rangeBytes + (IF r.kind = "mapped" THEN 0 ELSE r.len)
<1> DEFINE n == Len(ranges) + 1
<1>1. ranges \in Seq(RangeRec)
  BY DEF CacheTypes
<1>2. /\ ranges' = Append(ranges, r)
      /\ byOffset' = [o \in DOMAIN byOffset \cup {r.off} |->
                        IF o = r.off THEN n ELSE byOffset[o]]
      /\ rangeBytes' = rangeBytes + (IF r.kind = "mapped" THEN 0 ELSE r.len)
  BY DEF Publish
<1>3. /\ ranges' \in Seq(RangeRec) /\ n \in DOMAIN ranges' /\ ranges'[n] = r
      /\ DOMAIN ranges' = DOMAIN ranges \cup {n}
      /\ \A k \in DOMAIN ranges : ranges'[k] = ranges[k]
  BY <1>1, <1>2
<1> HIDE DEF n
<1>4. RangeBlocks' = RangeBlocks \cup {r.blk}
  BY <1>3 DEF RangeBlocks
<1>5. \A o \in DOMAIN byOffset' :
         byOffset'[o] \in DOMAIN ranges' /\ ranges'[byOffset'[o]].off = o
  BY <1>2, <1>3 DEF CacheTypes
<1> QED BY <1>2, <1>3, <1>4, <1>5 DEF n

LEMMA UploadDoneStep ==
  ASSUME CacheInv, UploadDone
  PROVE  CacheInv'
<1> PICK t : t = Wanted
  OBVIOUS
<1> PICK p : p = [blk |-> host.blk, at |-> host.at]
  OBVIOUS
<1> PICK r : r = [kind |-> "arena", off |-> t.off, len |-> t.len,
                  blk |-> host.blk, at |-> host.at, regOff |-> 0, regLen |-> 0]
  OBVIOUS
<1>0. CacheTypes /\ HostInv /\ ArenasInv
  BY DEF CacheInv
<1>1. /\ host.pc = "upload" /\ host.copied = t.len /\ dma = <<>> /\ Publish(r)
      /\ host' = [pc |-> "acquire", tensors |-> host.tensors, got |-> Append(host.got, p),
                  lost |-> host.lost, preload |-> host.preload, expand |-> host.expand]
      /\ UNCHANGED <<arenas, expanded, mem, stage, dma, kernels>>
  BY DEF UploadDone, AllStaged
<1>2. /\ host # HostIdle /\ host \in Uploading /\ Len(host.got) < Len(host.tensors)
      /\ t \in Tensors
      /\ t.off \in Nat /\ t.len \in Nat /\ host.blk \in Nat /\ host.at \in Nat
  BY <1>1, UploadingTensor
<1>3. r \in RangeRec /\ r.kind = "arena" /\ r.blk = host.blk /\ r.at = host.at
      /\ r.len = t.len /\ r.off = t.off
  BY <1>2 DEF RangeRec
<1>4. TakenFrom(host.blk, host.at + t.len) /\ rangeBytes + t.len <= CacheLimit
  BY <1>1, <1>2 DEF CacheInv, UploadInv
<1>5. /\ ranges' = Append(ranges, r) /\ ranges' \in Seq(RangeRec)
      /\ Len(ranges) + 1 \in DOMAIN ranges' /\ ranges'[Len(ranges) + 1] = r
      /\ DOMAIN ranges' = DOMAIN ranges \cup {Len(ranges) + 1}
      /\ \A k \in DOMAIN ranges : ranges'[k] = ranges[k]
      /\ RangeBlocks' = RangeBlocks \cup {r.blk}
      /\ \A o \in DOMAIN byOffset' :
           byOffset'[o] \in DOMAIN ranges' /\ ranges'[byOffset'[o]].off = o
      /\ rangeBytes' = rangeBytes + t.len
  BY <1>0, <1>1, <1>3, Published
<1>6. BackedStays
  BY <1>0, <1>5, RangesStay DEF CacheTypes
<1>7. Backed(p, t)'
  <2>1. InRange(r, t)
    BY <1>2, <1>3 DEF InRange
  <2>2. host.at + (t.off - r.off) = host.at
    BY <1>2, <1>3
  <2>3. p = PointerInto(r, t)
    BY <1>3, <2>1, <2>2 DEF PointerInto
  <2> QED BY <1>5, <2>1, <2>3, NowBacked
<1>8. host' \in Waiting /\ HostInv' /\ host'.pc = "acquire"
  <2>1. p \in Pointer
    BY <1>2 DEF Pointer
  <2> QED BY <1>0, <1>1, <1>2, <1>6, <1>7, <2>1, LookupFound
<1>9. host.blk \in ArenaBlocks /\ host.blk \in DOMAIN mem
      /\ 0..(host.at + t.len - 1) \subseteq DOMAIN mem[host.blk]
  BY <1>0, <1>2, <1>4, TakenIsThere
<1>10. CacheTypes'
  <2>1. rangeBytes' \in Nat /\ rangeBytes' <= CacheLimit
    BY <1>0, <1>2, <1>4, <1>5 DEF CacheTypes
  <2> QED BY <1>0, <1>1, <1>5, <1>8, <2>1 DEF CacheTypes
<1>11. ArenasInv'
  BY <1>0, <1>1 DEF ArenasInv
<1>12. RangesInv'
  <2>1. \A x : RangeInv(x) => RangeInv(x)'
    BY <1>1 DEF RangeInv, Reads, TakenFrom, ArenaBlocks
  <2>2. Reads([blk |-> r.blk, at |-> r.at], r)
    <3>1. \A i \in 0..(host.copied - 1) : mem[host.blk][host.at + i] = t.off + i
      <4>1. \A i \in 0..(host.copied - 1) :
              \/ mem[host.blk][host.at + i] = t.off + i
              \/ \E k \in DOMAIN dma : dma[k].blk = host.blk /\ dma[k].at = host.at + i
        BY <1>1 DEF CacheInv, UploadInv
      <4>2. DOMAIN dma = {}
        BY <1>1
      <4> QED BY <4>1, <4>2
    <3>2. \A i \in 0..(t.len - 1) : (host.at + i) \in DOMAIN mem[host.blk]
      BY <1>2, <1>9
    <3> QED BY <1>1, <1>3, <1>9, <3>1, <3>2 DEF Reads
  <2>3. RangeInv(r)
    BY <1>3, <1>4, <2>2 DEF RangeInv
  <2>4. \A k \in DOMAIN ranges' : RangeInv(ranges'[k])
    BY <1>5, <2>3 DEF CacheInv, RangesInv
  <2>5. \A k \in DOMAIN ranges' : \E x : x = ranges'[k] /\ RangeInv(x)'
    BY <2>1, <2>4
  <2> QED BY <2>5 DEF RangesInv
<1>13. ExpandedInv'
  <2>1. \A x \in DOMAIN expanded :
          /\ expanded[x] \in DOMAIN mem' /\ mem'[expanded[x]] = mem[expanded[x]]
          /\ expanded[x] \notin ArenaBlocks' /\ expanded[x] \notin RangeBlocks'
    BY <1>1, <1>3, <1>5, <1>9 DEF CacheInv, ExpandedInv, ArenaBlocks
  <2> QED BY <1>1, <2>1, KeepExpanded DEF CacheInv, CacheTypes
<1>14. DmaInv'
  BY <1>1 DEF DmaInv
<1>15. UploadInv'
  BY <1>8 DEF UploadInv
<1>16. KernelsInv'
  BY <1>0, <1>1, <1>6, SameCopies, KernelsStay DEF CacheInv
<1> QED BY <1>8, <1>10, <1>11, <1>12, <1>13, <1>14, <1>15, <1>16 DEF CacheInv

-----------------------------------------------------------------------------
(* Ranges in blocks of their own.                                          *)

LEMMA NewRange ==
  ASSUME CacheInv, NEW t \in Tensors, t = Wanted, NEW r \in RangeRec, NEW c,
         r.blk = Free, r.kind # "arena", r.off = t.off, r.len = t.len,
         r.kind # "mapped" => rangeBytes + t.len <= CacheLimit,
         \A i \in 0..(r.len - 1) : (r.at + i) \in DOMAIN c /\ c[r.at + i] = r.off + i,
         r.kind = "mapped" =>
           \A u \in 0..(r.regLen - 1) : u \in DOMAIN c /\ c[u] = r.regOff + u,
         host.pc = "fallback",
         mem' = WithBlock(Free, c), Publish(r), Got([blk |-> r.blk, at |-> r.at]),
         UNCHANGED <<arenas, expanded, stage, dma, kernels>>
  PROVE  CacheInv'
<1> PICK p : p = [blk |-> r.blk, at |-> r.at]
  OBVIOUS
<1> PICK b : b = Free
  OBVIOUS
<1>0. CacheTypes /\ HostInv /\ ArenasInv
  BY DEF CacheInv
<1>1. host # HostIdle /\ host \in Waiting /\ Len(host.got) < Len(host.tensors)
  BY <1>0 DEF CacheTypes, HostIdle, Uploading, HostInv
<1>2. t.off \in Nat /\ t.len \in Nat
  BY DEF Tensors
<1>3. /\ b \in Nat /\ b \notin DOMAIN mem /\ b \notin ArenaBlocks /\ b \notin RangeBlocks
      /\ DOMAIN mem' = DOMAIN mem \cup {b} /\ mem'[b] = c
      /\ \A x \in DOMAIN mem : mem'[x] = mem[x]
      /\ IsFiniteSet(DOMAIN mem')
  BY NewBlock
<1>4. /\ ranges' = Append(ranges, r) /\ ranges' \in Seq(RangeRec)
      /\ Len(ranges) + 1 \in DOMAIN ranges' /\ ranges'[Len(ranges) + 1] = r
      /\ DOMAIN ranges' = DOMAIN ranges \cup {Len(ranges) + 1}
      /\ \A k \in DOMAIN ranges : ranges'[k] = ranges[k]
      /\ RangeBlocks' = RangeBlocks \cup {r.blk}
      /\ \A o \in DOMAIN byOffset' :
           byOffset'[o] \in DOMAIN ranges' /\ ranges'[byOffset'[o]].off = o
      /\ rangeBytes' = rangeBytes + (IF r.kind = "mapped" THEN 0 ELSE r.len)
  BY <1>0, Published
<1>5. r.at \in Nat /\ r.blk = b
  BY DEF RangeRec
<1>6. BackedStays
  BY <1>0, <1>4, RangesStay DEF CacheTypes
<1>7. Backed(p, t)'
  <2>1. InRange(r, t)
    BY <1>2 DEF InRange
  <2>2. r.at + (t.off - r.off) = r.at
    BY <1>2, <1>5
  <2>3. p = PointerInto(r, t)
    BY <2>1, <2>2 DEF PointerInto
  <2> QED BY <1>4, <2>1, <2>3, NowBacked
<1>8. host' \in Waiting /\ HostInv' /\ host'.pc = "acquire"
  <2>1. p \in Pointer
    BY <1>3, <1>5 DEF Pointer
  <2>2. host' = [host EXCEPT !.pc = "acquire", !.got = Append(host.got, p)]
    BY DEF Got
  <2>3. host' = [pc |-> "acquire", tensors |-> host.tensors, got |-> Append(host.got, p),
                 lost |-> host.lost, preload |-> host.preload, expand |-> host.expand]
    BY <1>1, <2>2 DEF Waiting
  <2>4. UNCHANGED expanded
    OBVIOUS
  <2> QED BY <1>0, <1>1, <1>6, <1>7, <2>1, <2>3, <2>4, LookupFound
<1>9. CacheTypes'
  <2>1. rangeBytes' \in Nat /\ rangeBytes' <= CacheLimit
    BY <1>0, <1>2, <1>4 DEF CacheTypes
  <2> QED BY <1>0, <1>3, <1>4, <1>8, <2>1 DEF CacheTypes
<1>10. ArenasInv'
  <2>1. \A j \in DOMAIN arenas : arenas[j].blk \in DOMAIN mem
    BY <1>0 DEF ArenasInv
  <2> QED BY <1>0, <1>3, <2>1 DEF ArenasInv
<1>11. ArenaBlocks' = ArenaBlocks
  BY DEF ArenaBlocks
<1>12. RangesInv'
  <2>1. ASSUME NEW k \in DOMAIN ranges, NEW x, x = ranges[k] PROVE RangeInv(x)'
    <3>1. RangeInv(x) /\ x.blk \in DOMAIN mem
      BY <2>1, BlocksAreThere DEF CacheInv, RangesInv, RangeBlocks
    <3>2. x.blk \in DOMAIN mem' /\ mem'[x.blk] = mem[x.blk]
      BY <1>3, <3>1
    <3> QED BY <1>11, <3>1, <3>2 DEF RangeInv, Reads, TakenFrom
  <2>2. RangeInv(r)'
    <3>1. r.blk \in DOMAIN mem' /\ mem'[r.blk] = c /\ r.blk \notin ArenaBlocks'
      BY <1>3, <1>5, <1>11
    <3> QED BY <3>1 DEF RangeInv, Reads
  <2>3. \A k \in DOMAIN ranges' : \E x : x = ranges'[k] /\ RangeInv(x)'
    BY <1>4, <2>1, <2>2
  <2> QED BY <2>3 DEF RangesInv
<1>13. ExpandedInv'
  <2>1. \A x \in DOMAIN expanded :
          /\ expanded[x] \in DOMAIN mem' /\ mem'[expanded[x]] = mem[expanded[x]]
          /\ expanded[x] \notin ArenaBlocks' /\ expanded[x] \notin RangeBlocks'
    BY <1>3, <1>4, <1>5, <1>11 DEF CacheInv, ExpandedInv
  <2> QED BY <2>1, KeepExpanded DEF CacheInv, CacheTypes
<1>14. DmaInv'
  <2>1. \A k \in DOMAIN dma : dma[k].blk \in ArenaBlocks
    BY DEF CacheInv, DmaInv, TakenFrom, ArenaBlocks
  <2>2. \A k \in DOMAIN dma : dma[k].blk # r.blk
    BY <1>3, <1>5, <2>1
  <2> QED BY <1>4, <2>2 DEF CacheInv, DmaInv, TakenFrom, Within
<1>15. UploadInv'
  BY <1>8 DEF UploadInv
<1>16. KernelsInv'
  <2>1. CopiesStay
    BY <1>3 DEF CopiesStay, Filled, Reads
  <2> QED BY <1>0, <1>6, <2>1, KernelsStay DEF CacheInv
<1> QED BY <1>8, <1>9, <1>10, <1>12, <1>13, <1>14, <1>15, <1>16 DEF CacheInv

LEMMA FallbackTensor ==
  ASSUME CacheInv, host.pc = "fallback"
  PROVE  /\ host # HostIdle /\ host \in Waiting /\ Len(host.got) < Len(host.tensors)
         /\ Wanted \in Tensors /\ Wanted.off \in Nat /\ Wanted.len \in Nat
         /\ Free \in Nat
<1>1. CacheTypes /\ HostInv
  BY DEF CacheInv
<1>2. host # HostIdle /\ host \in Waiting /\ Len(host.got) < Len(host.tensors)
  BY <1>1 DEF CacheTypes, HostIdle, Uploading, HostInv
<1>3. Wanted \in Tensors /\ Wanted.off \in Nat /\ Wanted.len \in Nat
  BY <1>1, <1>2, WantedTensor
<1>4. Free \in Nat
  BY <1>1, FreeIsNew DEF CacheTypes
<1> QED BY <1>2, <1>3, <1>4

LEMMA RegisterMappedStep ==
  ASSUME CacheInv, RegisterMapped
  PROVE  CacheInv'
<1> PICK t : t = Wanted
  OBVIOUS
<1> PICK b : b = Free
  OBVIOUS
<1> DEFINE lo == RoundDown(t.off)
           hi == RoundUp(t.off + t.len)
           r == [kind |-> "mapped", off |-> t.off, len |-> t.len, blk |-> b,
                 at |-> t.off - lo, regOff |-> lo, regLen |-> hi - lo]
           c == Holding(lo, hi - lo)
<1>1. /\ host.pc = "fallback" /\ mem' = WithBlock(Free, c) /\ Publish(r)
      /\ Got([blk |-> b, at |-> t.off - lo])
      /\ UNCHANGED <<arenas, expanded, stage, dma, kernels>>
  BY DEF RegisterMapped
<1>2. t \in Tensors /\ t.off \in Nat /\ t.len \in Nat /\ b \in Nat
  BY <1>1, FallbackTensor
<1>3. lo \in Nat /\ lo <= t.off /\ hi \in Nat /\ t.off + t.len <= hi
  BY <1>2, Rounded
<1>4. \A i \in 0..(hi - lo - 1) : i \in DOMAIN c /\ c[i] = lo + i
  <2> HIDE DEF lo, hi
  <2> QED BY DEF Holding
<1> HIDE DEF lo, hi, c
<1>5. /\ r \in RangeRec /\ r.blk = b /\ r.kind = "mapped" /\ r.off = t.off
      /\ r.len = t.len /\ r.at = t.off - lo /\ r.regOff = lo /\ r.regLen = hi - lo
  BY <1>2, <1>3 DEF RangeRec
<1>6. ASSUME NEW i \in 0..(t.len - 1)
      PROVE  (t.off - lo + i) \in DOMAIN c /\ c[t.off - lo + i] = t.off + i
  <2>1. (t.off - lo + i) \in 0..(hi - lo - 1) /\ lo + (t.off - lo + i) = t.off + i
    BY <1>2, <1>3
  <2> QED BY <1>4, <2>1
<1> HIDE DEF r
<1>7. Got([blk |-> r.blk, at |-> r.at])
  BY <1>1, <1>5
<1> QED BY <1>1, <1>2, <1>4, <1>5, <1>6, <1>7, NewRange

LEMMA CopyPlainStep ==
  ASSUME CacheInv, CopyPlain
  PROVE  CacheInv'
<1> PICK t : t = Wanted
  OBVIOUS
<1> PICK b : b = Free
  OBVIOUS
<1>1. host.pc = "fallback" /\ UNCHANGED <<expanded, stage, dma, kernels>>
  BY DEF CopyPlain
<1>2. t \in Tensors /\ t.off \in Nat /\ t.len \in Nat /\ b \in Nat
  BY <1>1, FallbackTensor
<1>3. CASE cacheFull \/ OverLimit(Wanted)
  <2>1. UNCHANGED <<ranges, byOffset, rangeBytes, arenas, mem>> /\ host' = HostIdle
    BY <1>3 DEF CopyPlain, OpFails
  <2>2. HostInv'
    BY <2>1 DEF HostInv
  <2> QED BY <1>1, <2>1, <2>2, HostOnly
<1>4. CASE ~(cacheFull \/ OverLimit(Wanted))
  <2> DEFINE r == [kind |-> "own", off |-> t.off, len |-> t.len, blk |-> b,
                   at |-> 0, regOff |-> 0, regLen |-> 0]
             c == Holding(t.off, t.len)
  <2>1. /\ mem' = WithBlock(Free, c) /\ Publish(r)
        /\ Got([blk |-> b, at |-> 0]) /\ UNCHANGED arenas
    BY <1>4 DEF CopyPlain
  <2>2. /\ r \in RangeRec /\ r.blk = b /\ r.kind = "own" /\ r.off = t.off
        /\ r.len = t.len /\ r.at = 0
    BY <1>2 DEF RangeRec
  <2>3. \A i \in 0..(t.len - 1) : (0 + i) \in DOMAIN c /\ c[0 + i] = t.off + i
    BY <1>2 DEF Holding
  <2>4. rangeBytes + t.len <= CacheLimit
    BY <1>2, <1>4, Constants DEF OverLimit, CacheInv, CacheTypes
  <2> HIDE DEF r, c
  <2>5. Got([blk |-> r.blk, at |-> r.at])
    BY <2>1, <2>2
  <2> QED BY <1>1, <1>2, <2>1, <2>2, <2>3, <2>4, <2>5, NewRange
<1> QED BY <1>3, <1>4

-----------------------------------------------------------------------------
(* Steps of the host one by one.                                           *)

\* A lookup begins.
LEMMA AskedFor ==
  ASSUME NEW op \in Seq(Tensors), NEW pl \in BOOLEAN, NEW ex \in BOOLEAN,
         host' = [pc |-> "acquire", tensors |-> op, got |-> <<>>, lost |-> 0,
                  preload |-> pl, expand |-> ex],
         ex => Len(op) = 1 /\ op[1] \notin DOMAIN expanded'
  PROVE  host' \in Waiting /\ HostInv'
<1>1. /\ host'.pc = "acquire" /\ host'.got = <<>> /\ host'.expand = ex
      /\ host'.tensors = op /\ host'.lost = 0
  OBVIOUS
<1>2. <<>> \in Seq(Pointer) /\ Len(<<>>) = 0 /\ (0 + 1)..0 = {} /\ Len(op) \in Nat
  OBVIOUS
<1>3. host' \in Waiting
  BY <1>2 DEF Waiting
<1>4. FoundBacked(host.tensors, host.lost, host.got)'
  BY <1>1, <1>2 DEF FoundBacked
<1>5. HostInv'
  BY <1>1, <1>2, <1>4, NowFound
<1> QED BY <1>3, <1>5

LEMMA StartPreloadStep ==
  ASSUME CacheInv, NEW t \in Spans, StartPreload(t)
  PROVE  CacheInv'
<1>1. <<t>> \in Seq(Tensors) /\ TRUE \in BOOLEAN /\ FALSE \in BOOLEAN
  BY Constants
<1>2. /\ host' = [pc |-> "acquire", tensors |-> <<t>>, got |-> <<>>, lost |-> 0,
                  preload |-> TRUE, expand |-> FALSE]
      /\ UNCHANGED <<ranges, byOffset, rangeBytes, arenas, expanded, mem, stage, dma, kernels>>
  BY DEF StartPreload, cacheVars
<1>3. host' \in Waiting /\ HostInv'
  BY <1>1, <1>2, AskedFor
<1> QED BY <1>2, <1>3, HostOnly

LEMMA AcquireHitStep ==
  ASSUME CacheInv, AcquireHit
  PROVE  CacheInv'
<1> PICK t : t = Wanted
  OBVIOUS
<1> PICK p : p = HitPointer(t)
  OBVIOUS
<1>0. CacheTypes /\ HostInv
  BY DEF CacheInv
<1>1. /\ Acquiring("acquire") /\ Hit(t) /\ Got(p)
      /\ UNCHANGED <<ranges, byOffset, rangeBytes, arenas, expanded, mem, stage, dma, kernels>>
  BY DEF AcquireHit, cacheVars
<1>2. /\ host # HostIdle /\ host \in Waiting /\ Len(host.got) < Len(host.tensors)
      /\ t \in Tensors
  BY <1>0, <1>1, AcquiringTensor
<1>3. Backed(p, t) /\ p \in Pointer
  BY <1>0, <1>1, <1>2, HitIsBacked
<1>4. host' = [pc |-> "acquire", tensors |-> host.tensors, got |-> Append(host.got, p),
               lost |-> host.lost, preload |-> host.preload, expand |-> host.expand]
  <2>1. host' = [host EXCEPT !.pc = "acquire", !.got = Append(host.got, p)]
    BY <1>1 DEF Got
  <2> QED BY <1>2, <2>1 DEF Waiting
<1>5. BackedStays /\ Backed(p, t)'
  BY <1>1, <1>3, SameRanges DEF BackedStays
<1>6. host' \in Waiting /\ HostInv'
  BY <1>0, <1>1, <1>2, <1>3, <1>4, <1>5, LookupFound
<1> QED BY <1>1, <1>6, HostOnly

\* A lookup that finds no room, or no memory, falls back.
LEMMA FallsBack ==
  ASSUME CacheInv, Acquiring("acquire"),
         host' = [host EXCEPT !.pc = "fallback"],
         UNCHANGED <<ranges, byOffset, rangeBytes, arenas, expanded, mem, stage, dma, kernels>>
  PROVE  CacheInv'
<1>0. CacheTypes /\ HostInv
  BY DEF CacheInv
<1>1. host # HostIdle /\ host \in Waiting /\ Len(host.got) < Len(host.tensors)
  BY <1>0, AcquiringTensor
<1>2. /\ host' \in Waiting /\ host'.tensors = host.tensors /\ host'.got = host.got
      /\ host'.lost = host.lost /\ host'.expand = host.expand
  BY <1>1 DEF Waiting
<1>3. HostInv'
  BY <1>0, <1>1, <1>2, SameRanges, LookupStays
<1> QED BY <1>2, <1>3, HostOnly

LEMMA MissNoRoomStep ==
  ASSUME CacheInv, MissNoRoom \/ ArenaDenied
  PROVE  CacheInv'
BY FallsBack DEF MissNoRoom, ArenaDenied, Uncached, cacheVars

LEMMA MissEvictStep ==
  ASSUME CacheInv, MissEvict
  PROVE  CacheInv'
<1>1. Acquiring("acquire") /\ DeviceQuiet /\ ReleaseAll /\ LosesItsOwn
      /\ UNCHANGED <<expanded, stage, dma, kernels>>
  BY DEF MissEvict, Evict
<1> QED BY <1>1, Evicts

LEMMA ArenaFailsStep ==
  ASSUME CacheInv, ArenaFails
  PROVE  CacheInv'
<1>1. Acquiring("acquire") /\ UNCHANGED <<expanded, stage, dma, kernels>>
  BY DEF ArenaFails, Uncached
<1>2. CASE Evictable
  <2>1. DeviceQuiet /\ ReleaseAll /\ LosesItsOwn
    BY <1>2 DEF ArenaFails
  <2> QED BY <1>1, <2>1, Evicts
<1>3. CASE ~Evictable
  <2>1. /\ host' = [host EXCEPT !.pc = "fallback"]
        /\ UNCHANGED <<ranges, byOffset, rangeBytes, arenas, mem>>
    BY <1>3 DEF ArenaFails
  <2> QED BY <1>1, <2>1, FallsBack
<1> QED BY <1>2, <1>3

LEMMA EvictBetweenLayersStep ==
  ASSUME CacheInv, EvictBetweenLayers
  PROVE  CacheInv'
BY Evicts DEF EvictBetweenLayers, Evict

LEMMA UploadFailsStep ==
  ASSUME CacheInv, UploadFails
  PROVE  CacheInv'
<1>0. CacheTypes /\ HostInv
  BY DEF CacheInv
<1>1. /\ host.pc = "upload"
      /\ host' = [pc |-> "fallback", tensors |-> host.tensors, got |-> host.got,
                  lost |-> host.lost, preload |-> host.preload, expand |-> host.expand]
      /\ UNCHANGED <<ranges, byOffset, rangeBytes, arenas, expanded, mem, stage, dma, kernels>>
  BY DEF UploadFails, cacheVars
<1>2. host # HostIdle /\ host \in Uploading /\ Len(host.got) < Len(host.tensors)
  BY <1>1, UploadingTensor
<1>3. host' \in Waiting
  BY <1>1, <1>2 DEF Uploading, Waiting
<1>4. /\ host'.tensors = host.tensors /\ host'.got = host.got
      /\ host'.lost = host.lost /\ host'.expand = host.expand
  BY <1>1
<1>5. HostInv'
  BY <1>0, <1>1, <1>2, <1>4, SameRanges, LookupStays
<1> QED BY <1>1, <1>3, <1>5, HostOnly

\* The host gives up, or is done, and has launched nothing.
LEMMA Returns ==
  ASSUME CacheInv, host' = HostIdle,
         UNCHANGED <<ranges, byOffset, rangeBytes, arenas, expanded, mem, stage, dma, kernels>>
  PROVE  CacheInv'
<1>1. HostInv'
  BY DEF HostInv
<1> QED BY <1>1, HostOnly

LEMMA ReturnSteps ==
  ASSUME CacheInv, PreloadStops \/ CopyPlainFails \/ PreloadDone
  PROVE  CacheInv'
BY Returns DEF PreloadStops, CopyPlainFails, PreloadDone, OpFails, cacheVars

-----------------------------------------------------------------------------
(* Launches.                                                               *)

LEMMA KernelTyped ==
  ASSUME CacheTypes, NEW i \in DOMAIN kernels
  PROVE  /\ kernels[i] \in KernelRec /\ i \in 1..Len(kernels)
         /\ kernels[i].of \in Seq(Tensors) /\ kernels[i].from \in Seq(Pointer)
         /\ kernels[i].lost \in Nat
         /\ kernels[i].kind \in {"matmul", "dequant"}
<1>1. kernels[i] \in KernelRec /\ i \in 1..Len(kernels)
  BY DEF CacheTypes
<1> QED BY <1>1 DEF KernelRec

\* A matmul kernel is launched, and the host is done.
LEMMA Launched ==
  ASSUME CacheInv, NEW k \in KernelRec, k.kind = "matmul",
         kernels' = Append(kernels, k),
         ReadsRanges(k) \/ \E t \in Tensors : ReadsCopy(k, t),
         host' = HostIdle,
         UNCHANGED <<ranges, byOffset, rangeBytes, arenas, expanded, mem, stage, dma>>
  PROVE  CacheInv'
<1> PICK n : n = Len(kernels) + 1
  OBVIOUS
<1>0. CacheTypes
  BY DEF CacheInv
<1>2. kernels \in Seq(KernelRec) /\ kernels' = Append(kernels, k)
  BY <1>0 DEF CacheTypes
<1>3. /\ kernels' \in Seq(KernelRec) /\ n \in Nat /\ n >= 1
      /\ DOMAIN kernels = 1..(n - 1) /\ DOMAIN kernels' = 1..n /\ kernels'[n] = k
      /\ \A j \in 1..(n - 1) : kernels'[j] = kernels[j]
  BY <1>2
<1>4. CacheTypes'
  BY <1>0, <1>3 DEF CacheTypes
<1>5. ArenasInv' /\ RangesInv' /\ DmaInv'
  BY DEF CacheInv, ArenasInv, RangesInv, RangeInv, Reads, TakenFrom, ArenaBlocks,
         DmaInv, Within
<1>6. ExpandedInv'
  BY <1>2, KeepExpanded DEF CacheInv, ExpandedInv, ArenaBlocks, RangeBlocks
<1>7. HostInv' /\ UploadInv'
  BY DEF HostInv, UploadInv, HostIdle
<1>8. BackedStays /\ CopiesStay
  BY SameRanges, SameCopies
<1>9. KernelsInv'
  <2>1. ASSUME NEW i \in 1..(n - 1) PROVE KernelInv(i)'
    <3>1. KernelInv(i) /\ i \in Nat /\ i >= 1 /\ \A j \in 1..i : j \in 1..(n - 1)
      BY <1>3 DEF CacheInv, KernelsInv
    <3>2. \A j \in 1..i : kernels'[j] = kernels[j]
      BY <1>3, <3>1
    <3> QED BY <1>8, <3>1, <3>2, KeepKernel
  <2>2. KernelInv(n)'
    <3>1. CASE ReadsRanges(k)
      <4>1. ReadsRanges(k)'
        BY <3>1 DEF ReadsRanges, FoundBacked, Backed
      <4> QED BY <1>3, <4>1 DEF KernelInv
    <3>2. ASSUME NEW t \in Tensors, ReadsCopy(k, t) PROVE KernelInv(n)'
      <4>1. Filled(t) \/ \E j \in DOMAIN kernels : Fills(kernels[j], t)
        BY <3>2 DEF CacheInv, ExpandedInv, ReadsCopy
      <4>2. Filled(t)' \/ \E j \in 1..(n - 1) : Fills(kernels'[j], t)
        BY <1>3, <4>1 DEF Filled, Reads
      <4>3. ReadsCopy(k, t)'
        BY <3>2 DEF ReadsCopy
      <4> QED BY <1>3, <4>2, <4>3 DEF KernelInv, Fills
    <3> QED BY <3>1, <3>2
  <2>3. \A i \in 1..n : i = n \/ i \in 1..(n - 1)
    BY <1>3
  <2>4. \A i \in DOMAIN kernels' : \E x : x = i /\ KernelInv(x)'
    BY <1>3, <2>1, <2>2, <2>3
  <2> QED BY <2>4 DEF KernelsInv
<1> QED BY <1>4, <1>5, <1>6, <1>7, <1>9 DEF CacheInv

\* The pointers of an operation whose lookups are over.
LEMMA FoundPointers ==
  ASSUME CacheInv, AllFound
  PROVE  /\ host # HostIdle /\ host \in Waiting
         /\ host.tensors \in Seq(Tensors) /\ host.got \in Seq(Pointer) /\ host.lost \in Nat
         /\ Len(host.got) = Len(host.tensors)
         /\ FoundBacked(host.tensors, host.lost, host.got)
         /\ host.expand => /\ Len(host.tensors) = 1 /\ host.lost = 0
                           /\ host.tensors[1] \notin DOMAIN expanded
<1>0. CacheTypes /\ HostInv
  BY DEF CacheInv
<1>1. host # HostIdle /\ host \in Waiting
  BY <1>0 DEF AllFound, CacheTypes, HostIdle, Uploading
<1> QED BY <1>0, <1>1, HostFields DEF AllFound

LEMMA LaunchStep ==
  ASSUME CacheInv, Launch
  PROVE  CacheInv'
<1> PICK k : k = [kind |-> "matmul", of |-> host.tensors, lost |-> host.lost,
                  from |-> host.got]
  OBVIOUS
<1>1. AllFound
  BY DEF Launch
<1>2. /\ host.tensors \in Seq(Tensors) /\ host.got \in Seq(Pointer) /\ host.lost \in Nat
      /\ Len(host.got) = Len(host.tensors)
      /\ FoundBacked(host.tensors, host.lost, host.got)
  BY <1>1, FoundPointers
<1>3. /\ k \in KernelRec /\ k.kind = "matmul" /\ k.of = host.tensors
      /\ k.from = host.got /\ k.lost = host.lost
  BY <1>2 DEF KernelRec
<1>4. ReadsRanges(k)
  BY <1>2, <1>3 DEF ReadsRanges
<1>5. /\ kernels' = Append(kernels, k) /\ host' = HostIdle
      /\ UNCHANGED <<ranges, byOffset, rangeBytes, arenas, expanded, mem, stage, dma>>
  BY DEF Launch, cacheVars
<1> QED BY <1>3, <1>4, <1>5, Launched

LEMMA OnlyTensor ==
  ASSUME NEW op \in Seq(Tensors), Len(op) = 1
  PROVE  op[1] \in Tensors /\ op = <<op[1]>>
OBVIOUS

LEMMA StartOpStep ==
  ASSUME CacheInv, NEW op \in Ops, StartOp(op)
  PROVE  CacheInv'
<1> PICK tryExpand : tryExpand = (Len(op) = 1 /\ MayExpand)
  OBVIOUS
<1>1. op \in Seq(Tensors) /\ tryExpand \in BOOLEAN
  BY Constants
<1>2. /\ host = HostIdle
      /\ UNCHANGED <<ranges, byOffset, rangeBytes, arenas, expanded, mem, stage, dma>>
  BY DEF StartOp, cacheVars
<1>3. CASE tryExpand /\ op[1] \in DOMAIN expanded
  <2> PICK t : t = op[1]
    OBVIOUS
  <2> PICK k : k = [kind |-> "matmul", of |-> op, lost |-> 0,
                    from |-> <<[blk |-> expanded[t], at |-> 0]>>]
    OBVIOUS
  <2>1. t \in Tensors /\ op = <<t>>
    BY <1>1, <1>3, OnlyTensor
  <2>2. [blk |-> expanded[t], at |-> 0] \in Pointer
    BY <1>3 DEF Pointer, CacheInv, ExpandedInv
  <2>3. k \in KernelRec /\ k.kind = "matmul"
    BY <1>1, <2>2 DEF KernelRec
  <2>4. ReadsCopy(k, t)
    BY <1>3, <2>1 DEF ReadsCopy
  <2>5. kernels' = Append(kernels, k) /\ host' = HostIdle
    BY <1>2, <1>3 DEF StartOp
  <2> QED BY <1>2, <2>1, <2>3, <2>4, <2>5, Launched
<1>4. CASE ~(tryExpand /\ op[1] \in DOMAIN expanded)
  <2> PICK ex : ex = (tryExpand /\ ~noExpand)
    OBVIOUS
  <2>1. /\ host' = [pc |-> "acquire", tensors |-> op, got |-> <<>>, lost |-> 0,
                    preload |-> FALSE, expand |-> ex]
        /\ UNCHANGED kernels
    BY <1>4 DEF StartOp
  <2>2. ex \in BOOLEAN /\ FALSE \in BOOLEAN /\ (ex => Len(op) = 1 /\ op[1] \notin DOMAIN expanded')
    BY <1>1, <1>2, <1>4
  <2>3. host' \in Waiting /\ HostInv'
    BY <1>1, <2>1, <2>2, AskedFor
  <2> QED BY <1>2, <2>1, <2>3, HostOnly
<1> QED BY <1>3, <1>4

LEMMA ExpandStep ==
  ASSUME CacheInv, Expand
  PROVE  CacheInv'
<1>0. CacheTypes /\ AllFound /\ host.expand
  BY DEF Expand, CacheInv
<1> PICK t : t = host.tensors[1]
  OBVIOUS
<1> PICK of : of = host.tensors
  OBVIOUS
<1> PICK got : got = host.got
  OBVIOUS
<1>1. /\ of \in Seq(Tensors) /\ got \in Seq(Pointer) /\ Len(of) = 1 /\ Len(got) = 1
      /\ FoundBacked(of, 0, got) /\ t \notin DOMAIN expanded /\ host.lost = 0
  BY <1>0, FoundPointers
<1>2. t \in Tensors /\ of = <<t>> /\ of[1] = t
  BY <1>1, OnlyTensor
<1> PICK b : b = Free
  OBVIOUS
<1> PICK p : p = [blk |-> b, at |-> 0]
  OBVIOUS
<1> PICK d : d = [kind |-> "dequant", of |-> of, lost |-> 0, from |-> got, to |-> b]
  OBVIOUS
<1> PICK k : k = [kind |-> "matmul", of |-> of, lost |-> 0, from |-> <<p>>]
  OBVIOUS
<1> PICK n : n = Len(kernels)
  OBVIOUS
<1>3. /\ expanded' = [x \in DOMAIN expanded \cup {t} |-> IF x = t THEN b ELSE expanded[x]]
      /\ mem' = WithBlock(Free, Block(t.len))
      /\ kernels' = kernels \o <<d, k>>
      /\ host' = HostIdle
      /\ UNCHANGED <<ranges, byOffset, rangeBytes, arenas, stage, dma>>
  BY <1>1 DEF Expand, cacheVars
<1>4. /\ b \in Nat /\ b \notin DOMAIN mem /\ b \notin ArenaBlocks /\ b \notin RangeBlocks
      /\ DOMAIN mem' = DOMAIN mem \cup {b} /\ \A x \in DOMAIN mem : mem'[x] = mem[x]
      /\ IsFiniteSet(DOMAIN mem')
  BY <1>3, NewBlock
<1>5. /\ d \in KernelRec /\ d.kind = "dequant" /\ d.of = <<t>> /\ d.lost = 0
      /\ d.from = got /\ d.to = b /\ Len(d.of) = 1 /\ d.of[1] = t
      /\ k \in KernelRec /\ k.kind = "matmul" /\ k.of = <<t>> /\ k.from = <<p>>
  <2>1. p \in Pointer
    BY <1>4 DEF Pointer
  <2>2. d \in KernelRec /\ k \in KernelRec
    BY <1>1, <1>4, <2>1 DEF KernelRec
  <2>3. /\ d.kind = "dequant" /\ d.of = of /\ d.lost = 0 /\ d.from = got /\ d.to = b
        /\ k.kind = "matmul" /\ k.of = of /\ k.from = <<p>>
    OBVIOUS
  <2> QED BY <1>1, <1>2, <2>2, <2>3
<1>6. /\ kernels' \in Seq(KernelRec) /\ n \in Nat
      /\ DOMAIN kernels = 1..n /\ DOMAIN kernels' = 1..(n + 2)
      /\ kernels'[n + 1] = d /\ kernels'[n + 2] = k
      /\ \A j \in 1..n : kernels'[j] = kernels[j]
  <2>1. kernels \in Seq(KernelRec)
    BY <1>0 DEF CacheTypes
  <2>2. <<d, k>> \in Seq(KernelRec)
    BY <1>5
  <2> QED BY <1>3, <2>1, <2>2
<1>7. \A x \in DOMAIN expanded :
        /\ x \in DOMAIN expanded' /\ expanded'[x] = expanded[x] /\ x # t
        /\ expanded[x] \in DOMAIN mem /\ (Filled(x) => Filled(x)')
  <2>1. ASSUME NEW x \in DOMAIN expanded
        PROVE  /\ x \in DOMAIN expanded' /\ expanded'[x] = expanded[x] /\ x # t
               /\ expanded[x] \in DOMAIN mem
    BY <1>1, <1>3, BlocksAreThere
  <2>2. ASSUME NEW x \in DOMAIN expanded, Filled(x)
        PROVE  Filled(x)'
    BY <1>4, <2>1, <2>2 DEF Filled, Reads
  <2> QED BY <2>1, <2>2
<1>8. DOMAIN expanded' = DOMAIN expanded \cup {t} /\ expanded'[t] = b
  BY <1>3
<1>9. CacheTypes'
  BY <1>0, <1>3, <1>4, <1>6 DEF CacheTypes
<1>10. ArenasInv'
  <2>1. \A j \in DOMAIN arenas : arenas[j].blk \in DOMAIN mem
    BY DEF CacheInv, ArenasInv
  <2> QED BY <1>3, <1>4, <2>1 DEF CacheInv, ArenasInv
<1>11. ArenaBlocks' = ArenaBlocks /\ RangeBlocks' = RangeBlocks
  BY <1>3 DEF ArenaBlocks, RangeBlocks
<1>12. RangesInv'
  <2>1. ASSUME NEW m \in DOMAIN ranges, NEW x, x = ranges[m] PROVE RangeInv(x)'
    <3>1. RangeInv(x) /\ x.blk \in DOMAIN mem
      BY <2>1, BlocksAreThere DEF CacheInv, RangesInv, RangeBlocks
    <3>2. x.blk \in DOMAIN mem' /\ mem'[x.blk] = mem[x.blk]
      BY <1>4, <3>1
    <3> QED BY <1>3, <1>11, <3>1, <3>2 DEF RangeInv, Reads, TakenFrom
  <2> QED BY <1>3, <2>1 DEF RangesInv
<1>13. ExpandedInv'
  <2> SUFFICES ASSUME NEW x \in DOMAIN expanded'
               PROVE  /\ expanded'[x] \in Nat /\ expanded'[x] \in DOMAIN mem'
                      /\ expanded'[x] \notin ArenaBlocks /\ expanded'[x] \notin RangeBlocks
                      /\ \A u \in DOMAIN expanded' : expanded'[u] = expanded'[x] => u = x
                      /\ Filled(x)' \/ \E j \in DOMAIN kernels' : Fills(kernels'[j], x)
    BY <1>2, <1>8, <1>11 DEF CacheInv, ExpandedInv
  <2>1. CASE x = t
    <3>1. \A u \in DOMAIN expanded' : expanded'[u] = b => u = t
      BY <1>4, <1>7, <1>8
    <3>2. (n + 1) \in DOMAIN kernels' /\ Fills(kernels'[n + 1], t)
      BY <1>5, <1>6 DEF Fills
    <3> QED BY <1>4, <1>8, <2>1, <3>1, <3>2
  <2>2. CASE x \in DOMAIN expanded
    <3>1. /\ expanded[x] \in Nat /\ expanded[x] \in DOMAIN mem
          /\ expanded[x] \notin ArenaBlocks /\ expanded[x] \notin RangeBlocks
          /\ \A u \in DOMAIN expanded : expanded[u] = expanded[x] => u = x
          /\ Filled(x) \/ \E j \in DOMAIN kernels : Fills(kernels[j], x)
      BY <2>2 DEF CacheInv, ExpandedInv
    <3>2. \A u \in DOMAIN expanded' : expanded'[u] = expanded'[x] => u = x
      BY <1>4, <1>7, <1>8, <2>2, <3>1
    <3>3. \A j \in DOMAIN kernels : j \in DOMAIN kernels' /\ kernels'[j] = kernels[j]
      BY <1>6
    <3>4. Filled(x)' \/ \E j \in DOMAIN kernels' : Fills(kernels'[j], x)
      BY <1>7, <2>2, <3>1, <3>3
    <3> QED BY <1>4, <1>7, <2>2, <3>1, <3>2, <3>4
  <2> QED BY <1>8, <2>1, <2>2
<1>14. DmaInv'
  BY <1>3 DEF CacheInv, DmaInv, TakenFrom, Within
<1>15. HostInv' /\ UploadInv'
  BY <1>3 DEF HostInv, UploadInv, HostIdle
<1>16. BackedStays /\ CopiesStay
  BY <1>3, <1>7, SameRanges DEF CopiesStay
<1>17. KernelsInv'
  <2>1. ASSUME NEW i \in 1..n PROVE KernelInv(i)'
    <3>1. KernelInv(i) /\ i \in Nat /\ i >= 1 /\ \A j \in 1..i : j \in 1..n
      BY <1>6 DEF CacheInv, KernelsInv
    <3>2. \A j \in 1..i : kernels'[j] = kernels[j]
      BY <1>6, <3>1
    <3> QED BY <1>16, <3>1, <3>2, KeepKernel
  <2>2. KernelInv(n + 1)'
    <3>1. FoundBacked(d.of, d.lost, d.from)'
      BY <1>1, <1>3, <1>5 DEF FoundBacked, Backed
    <3>2. ReadsRanges(d)'
      <4>1. Len(d.from) = Len(d.of)
        BY <1>1, <1>5
      <4> QED BY <1>5, <1>8, <3>1, <4>1 DEF ReadsRanges
    <3> QED BY <1>6, <3>2 DEF KernelInv
  <2>3. KernelInv(n + 2)'
    <3>1. (n + 1) \in 1..((n + 2) - 1) /\ Fills(kernels'[n + 1], t)
      BY <1>5, <1>6 DEF Fills
    <3>2. ReadsCopy(k, t)'
      BY <1>5, <1>8 DEF ReadsCopy
    <3> QED BY <1>2, <1>6, <3>1, <3>2 DEF KernelInv, Fills
  <2>4. \A i \in 1..(n + 2) : i \in 1..n \/ i = n + 1 \/ i = n + 2
    BY <1>6
  <2>5. \A i \in DOMAIN kernels' : \E x : x = i /\ KernelInv(x)'
    <3> SUFFICES ASSUME NEW i \in DOMAIN kernels' PROVE KernelInv(i)'
      OBVIOUS
    <3>1. CASE i \in 1..n
      BY <2>1, <3>1
    <3>2. CASE i = n + 1
      BY <2>2, <3>2
    <3>3. CASE i = n + 2
      BY <2>3, <3>3
    <3> QED BY <1>6, <2>4, <3>1, <3>2, <3>3
  <2> QED BY <2>5 DEF KernelsInv
<1> QED BY <1>9, <1>10, <1>12, <1>13, <1>14, <1>15, <1>17 DEF CacheInv

-----------------------------------------------------------------------------
(* The expanded copies are given up, and the device runs.                  *)

LEMMA Disabled ==
  ASSUME CacheInv, Disable, host' \in Waiting, HostInv',
         UNCHANGED <<ranges, byOffset, rangeBytes, arenas, stage, dma, kernels>>
  PROVE  CacheInv'
<1> DEFINE E == {expanded[t] : t \in DOMAIN expanded}
<1>0. CacheTypes /\ ArenasInv
  BY DEF CacheInv
<1>1. expanded' = <<>> /\ mem' = Without(E)
  BY DEF Disable
<1>2. /\ DOMAIN mem' = DOMAIN mem \ E
      /\ \A b \in DOMAIN mem' : mem'[b] = mem[b]
  BY <1>1 DEF Without
<1>3. \A b \in ArenaBlocks \cup RangeBlocks : b \in DOMAIN mem' /\ b \in DOMAIN mem
  BY <1>2, BlocksAreThere DEF CacheInv, ExpandedInv
<1> HIDE DEF E
<1>4. CacheTypes'
  <2>1. IsFiniteSet(DOMAIN mem')
    BY <1>0, <1>2, FS_Subset DEF CacheTypes
  <2> QED BY <1>0, <2>1 DEF CacheTypes
<1>5. ArenasInv'
  BY <1>0, <1>2, <1>3 DEF ArenasInv, ArenaBlocks
<1>6. RangesInv'
  <2>1. ASSUME NEW m \in DOMAIN ranges, NEW x, x = ranges[m] PROVE RangeInv(x)'
    <3>1. RangeInv(x) /\ x.blk \in DOMAIN mem' /\ mem'[x.blk] = mem[x.blk]
      BY <1>2, <1>3, <2>1 DEF CacheInv, RangesInv, RangeBlocks
    <3> QED BY <3>1 DEF RangeInv, Reads, TakenFrom, ArenaBlocks
  <2> QED BY <2>1 DEF RangesInv
<1>7. ExpandedInv'
  <2>1. DOMAIN expanded' = {}
    BY <1>1
  <2> QED BY <2>1 DEF ExpandedInv
<1>8. DmaInv'
  BY DEF CacheInv, DmaInv, TakenFrom, Within
<1>9. UploadInv'
  BY DEF UploadInv, Waiting
<1>10. KernelsInv'
  <2>1. CASE kernels = <<>>
    BY <2>1 DEF KernelsInv
  <2>2. CASE expanded = <<>>
    <3> SUFFICES ASSUME NEW i \in DOMAIN kernels PROVE KernelInv(i)'
      BY DEF KernelsInv
    <3>1. DOMAIN expanded = {}
      BY <2>2
    <3>2. KernelInv(i)
      BY DEF CacheInv, KernelsInv
    <3>3. ReadsRanges(kernels[i]) /\ kernels[i].kind # "dequant"
      BY <3>1, <3>2 DEF KernelInv, ReadsRanges, ReadsCopy
    <3>4. ReadsRanges(kernels[i])'
      BY <3>3 DEF ReadsRanges, FoundBacked, Backed
    <3> QED BY <3>4 DEF KernelInv
  <2> QED BY <2>1, <2>2 DEF Disable, DeviceQuiet
<1> QED BY <1>4, <1>5, <1>6, <1>7, <1>8, <1>9, <1>10 DEF CacheInv

LEMMA ExpandFailsStep ==
  ASSUME CacheInv, ExpandFails
  PROVE  CacheInv'
<1>1. /\ AllFound /\ Disable
      /\ host' = [host EXCEPT !.pc = "acquire", !.expand = FALSE, !.got = <<>>, !.lost = 0]
      /\ UNCHANGED <<ranges, byOffset, rangeBytes, arenas, stage, dma, kernels>>
  BY DEF ExpandFails, cacheVars
<1>2. host \in Waiting /\ host.tensors \in Seq(Tensors)
  BY <1>1, FoundPointers
<1>3. /\ host.preload \in BOOLEAN /\ FALSE \in BOOLEAN
      /\ host' = [pc |-> "acquire", tensors |-> host.tensors, got |-> <<>>, lost |-> 0,
                  preload |-> host.preload, expand |-> FALSE]
  BY <1>1, <1>2 DEF Waiting
<1>4. host' \in Waiting /\ HostInv'
  BY <1>2, <1>3, AskedFor
<1> QED BY <1>1, <1>4, Disabled

LEMMA GemmFailsStep ==
  ASSUME CacheInv, NEW op \in Ops, GemmFails(op)
  PROVE  CacheInv'
<1>1. op \in Seq(Tensors) /\ FALSE \in BOOLEAN
  BY Constants
<1>2. /\ Disable
      /\ host' = [pc |-> "acquire", tensors |-> op, got |-> <<>>, lost |-> 0,
                  preload |-> FALSE, expand |-> FALSE]
      /\ UNCHANGED <<ranges, byOffset, rangeBytes, arenas, stage, dma, kernels>>
  BY DEF GemmFails, cacheVars
<1>3. host' \in Waiting /\ HostInv'
  BY <1>1, <1>2, AskedFor
<1> QED BY <1>2, <1>3, Disabled

LEMMA KernelStepStep ==
  ASSUME CacheInv, KernelStep
  PROVE  CacheInv'
<1> PICK k : k = kernels[1]
  OBVIOUS
<1>0. CacheTypes /\ ArenasInv
  BY DEF CacheInv
<1>1. /\ kernels # <<>> /\ kernels' = Tail(kernels) /\ Head(kernels) = k
      /\ UNCHANGED <<ranges, byOffset, rangeBytes, arenas, expanded, stage, dma, host>>
  BY <1>0 DEF KernelStep, cacheVars, CacheTypes
<1>2. /\ 1 \in DOMAIN kernels /\ kernels' \in Seq(KernelRec)
      /\ \A i \in DOMAIN kernels' :
            i \in Nat /\ i >= 1 /\ (i + 1) \in DOMAIN kernels
      /\ \A j \in Nat : (j + 1) \in DOMAIN kernels /\ j >= 1 =>
            j \in DOMAIN kernels' /\ kernels'[j] = kernels[j + 1]
      /\ \A i \in DOMAIN kernels : i \in Nat /\ (i = 1 \/ (i - 1 \in Nat /\ i - 1 >= 1))
  <2>1. kernels \in Seq(KernelRec)
    BY <1>0 DEF CacheTypes
  <2> QED BY <1>1, <2>1
<1>3. k.of \in Seq(Tensors) /\ k.from \in Seq(Pointer) /\ k.kind \in {"matmul", "dequant"}
  BY <1>0, <1>2, KernelTyped
<1>4. KernelInv(1)
  BY <1>2 DEF CacheInv, KernelsInv
\* The memory after the step: as before, but for the copy a dequant kernel fills.
<1>5. /\ DOMAIN mem' = DOMAIN mem
      /\ \A b \in DOMAIN mem : (\A x \in DOMAIN expanded : expanded[x] # b) => mem'[b] = mem[b]
      /\ \A x \in DOMAIN expanded : Filled(x) \/ Fills(k, x) => Filled(x)'
  <2>1. CASE k.kind = "matmul"
    <3>1. mem' = mem
      BY <1>1, <2>1 DEF KernelStep
    <3>2. \A x : ~Fills(k, x)
      BY <2>1 DEF Fills
    <3>3. \A x \in DOMAIN expanded : Filled(x) => Filled(x)'
      BY <1>1, <3>1 DEF Filled, Reads
    <3> QED BY <3>1, <3>2, <3>3
  <2>2. CASE k.kind = "dequant"
    <3> PICK t : t = k.of[1]
      OBVIOUS
    <3>1. ReadsRanges(k)
      BY <1>4, <2>2 DEF KernelInv, ReadsCopy
    <3>2. /\ Len(k.of) = 1 /\ Len(k.from) = 1 /\ k.lost = 0
          /\ FoundBacked(k.of, k.lost, k.from)
          /\ t \in DOMAIN expanded /\ k.to = expanded[t]
      BY <2>2, <3>1 DEF ReadsRanges
    <3>3. t \in Tensors /\ k.of = <<t>> /\ t.off \in Nat /\ t.len \in Nat
      BY <1>3, <3>2, OnlyTensor DEF Tensors
    <3>4. 1 \in (0 + 1)..1
      OBVIOUS
    <3>5. Backed(k.from[1], t) /\ t \in DOMAIN expanded /\ k.to = expanded[t]
      BY <3>2, <3>4 DEF FoundBacked
    <3>6. Reads(k.from[1], t)
      BY <1>0, <3>5, <3>3, BackedReads DEF CacheInv
    <3>7. k.to \in DOMAIN mem
      BY <3>5, BlocksAreThere
    <3>8. mem' = [mem EXCEPT ![k.to] = Holding(t.off, t.len)]
      BY <1>1, <2>2, <3>6, <3>7 DEF KernelStep
    <3>9. \A i \in 0..(t.len - 1) :
             i \in DOMAIN Holding(t.off, t.len) /\ Holding(t.off, t.len)[i] = t.off + i
      BY <3>3 DEF Holding
    <3>10. ASSUME NEW x \in DOMAIN expanded, Filled(x) \/ Fills(k, x) PROVE Filled(x)'
      <4>1. CASE x = t
        <5>1. expanded'[x] \in DOMAIN mem' /\ mem'[expanded'[x]] = Holding(t.off, t.len)
          BY <1>1, <3>5, <3>7, <3>8, <4>1
        <5>2. \A i \in 0..(t.len - 1) : 0 + i = i
          OBVIOUS
        <5> QED BY <3>9, <4>1, <5>1, <5>2 DEF Filled, Reads
      <4>2. CASE x # t
        <5>1. Filled(x)
          <6>1. ~Fills(k, x)
            BY <3>3, <4>2 DEF Fills
          <6> QED BY <3>10, <6>1
        <5>2. expanded[x] # k.to /\ expanded[x] \in DOMAIN mem
          BY <3>5, <4>2 DEF CacheInv, ExpandedInv
        <5>3. mem'[expanded[x]] = mem[expanded[x]] /\ expanded[x] \in DOMAIN mem'
          BY <3>8, <5>2
        <5> QED BY <1>1, <5>1, <5>3 DEF Filled, Reads
      <4> QED BY <4>1, <4>2
    <3> QED BY <3>5, <3>7, <3>8, <3>10
  <2> QED BY <1>3, <2>1, <2>2
<1>6. \A b \in ArenaBlocks \cup RangeBlocks :
         b \in DOMAIN mem /\ b \in DOMAIN mem' /\ mem'[b] = mem[b]
  BY <1>5, BlocksAreThere DEF CacheInv, ExpandedInv
<1>7. CacheTypes'
  BY <1>0, <1>1, <1>2, <1>5 DEF CacheTypes
<1>8. ArenasInv'
  BY <1>0, <1>1, <1>6 DEF ArenasInv, ArenaBlocks
<1>9. RangesInv'
  <2>1. ASSUME NEW m \in DOMAIN ranges, NEW x, x = ranges[m] PROVE RangeInv(x)'
    <3>1. RangeInv(x) /\ x.blk \in DOMAIN mem' /\ mem'[x.blk] = mem[x.blk]
      BY <1>6, <2>1 DEF CacheInv, RangesInv, RangeBlocks
    <3> QED BY <1>1, <3>1 DEF RangeInv, Reads, TakenFrom, ArenaBlocks
  <2> QED BY <1>1, <2>1 DEF RangesInv
<1>10. ExpandedInv'
  <2> SUFFICES ASSUME NEW x \in DOMAIN expanded
               PROVE  /\ expanded[x] \in Nat /\ expanded[x] \in DOMAIN mem
                      /\ expanded[x] \notin ArenaBlocks /\ expanded[x] \notin RangeBlocks
                      /\ \A u \in DOMAIN expanded : expanded[u] = expanded[x] => u = x
                      /\ Filled(x)' \/ \E j \in DOMAIN kernels' : Fills(kernels'[j], x)
    BY <1>1, <1>5 DEF CacheInv, ExpandedInv, ArenaBlocks, RangeBlocks
  <2>1. Filled(x) \/ \E j \in DOMAIN kernels : Fills(kernels[j], x)
    BY DEF CacheInv, ExpandedInv
  <2>2. ASSUME NEW j \in DOMAIN kernels, Fills(kernels[j], x)
        PROVE  Filled(x)' \/ \E i \in DOMAIN kernels' : Fills(kernels'[i], x)
    <3>1. CASE j = 1
      BY <1>5, <2>2, <3>1
    <3>2. CASE j # 1
      <4>1. (j - 1) + 1 = j /\ j - 1 \in Nat /\ j - 1 >= 1
        BY <1>2, <3>2
      <4>2. j - 1 \in DOMAIN kernels' /\ kernels'[j - 1] = kernels[j]
        BY <1>2, <4>1
      <4> QED BY <2>2, <4>2
    <3> QED BY <3>1, <3>2
  <2> QED BY <1>5, <2>1, <2>2 DEF CacheInv, ExpandedInv
<1>11. DmaInv'
  BY <1>1 DEF CacheInv, DmaInv, TakenFrom, Within
<1>12. HostInv'
  BY <1>1 DEF CacheInv, HostInv, FoundBacked, Backed
<1>13. UploadInv'
  <2>1. CASE host.pc # "upload"
    BY <1>1, <2>1 DEF UploadInv
  <2>2. CASE host.pc = "upload"
    <3>1. Wanted.len \in Nat /\ host.at + Wanted.len \in Nat /\ Wanted' = Wanted
      BY <1>1, <2>2, UploadingTensor DEF Wanted
    <3>2. TakenFrom(host.blk, host.at + Wanted.len)
      BY <2>2, <3>1 DEF CacheInv, UploadInv
    <3>3. host.blk \in ArenaBlocks
      BY <1>0, <3>1, <3>2, TakenIsThere
    <3>4. mem'[host.blk] = mem[host.blk]
      BY <1>6, <3>3
    <3> QED BY <1>1, <3>1, <3>4 DEF CacheInv, UploadInv, TakenFrom, Within
  <2> QED BY <2>1, <2>2
<1>14. KernelsInv'
  <2> SUFFICES ASSUME NEW i \in DOMAIN kernels' PROVE KernelInv(i)'
    BY DEF KernelsInv
  <2>1. i \in Nat /\ i >= 1 /\ (i + 1) \in DOMAIN kernels /\ kernels'[i] = kernels[i + 1]
    BY <1>2
  <2> PICK g : g = kernels[i + 1]
    OBVIOUS
  <2>2. KernelInv(i + 1)
    BY <2>1 DEF CacheInv, KernelsInv
  <2>3. CASE ReadsRanges(g)
    <3>1. ReadsRanges(g)'
      BY <1>1, <2>3 DEF ReadsRanges, FoundBacked, Backed
    <3> QED BY <2>1, <3>1 DEF KernelInv
  <2>4. ASSUME NEW x \in Tensors, ReadsCopy(g, x),
               Filled(x) \/ \E j \in 1..((i + 1) - 1) : Fills(kernels[j], x)
        PROVE  KernelInv(i)'
    <3>1. ASSUME NEW j \in 1..i, Fills(kernels[j], x)
          PROVE  Filled(x)' \/ \E h \in 1..(i - 1) : Fills(kernels'[h], x)
      <4>1. CASE j = 1
        BY <1>5, <2>4, <3>1, <4>1 DEF ReadsCopy
      <4>2. CASE j # 1
        <5>1. j - 1 \in 1..(i - 1) /\ (j - 1) + 1 = j /\ j - 1 \in Nat /\ j - 1 >= 1
          BY <2>1, <4>2
        <5>2. j \in DOMAIN kernels
          BY <1>0, <2>1 DEF CacheTypes
        <5>3. kernels'[j - 1] = kernels[j]
          BY <1>2, <5>1, <5>2
        <5> QED BY <3>1, <5>1, <5>3
      <4> QED BY <4>1, <4>2
    <3>2. (i + 1) - 1 = i
      BY <2>1
    <3>3. Filled(x)' \/ \E h \in 1..(i - 1) : Fills(kernels'[h], x)
      BY <1>5, <2>4, <3>1, <3>2 DEF ReadsCopy
    <3>4. ReadsCopy(g, x)'
      BY <1>1, <2>4 DEF ReadsCopy
    <3> QED BY <2>1, <3>3, <3>4 DEF KernelInv, Fills
  <2> QED BY <2>2, <2>3, <2>4 DEF KernelInv
<1> QED BY <1>7, <1>8, <1>9, <1>10, <1>11, <1>12, <1>13, <1>14 DEF CacheInv

LEMMA ReopenStep ==
  ASSUME CacheInv, Reopen
  PROVE  CacheInv'
<1>1. /\ ranges' = <<>> /\ byOffset' = <<>> /\ rangeBytes' = 0 /\ arenas' = <<>>
      /\ expanded' = <<>> /\ mem' = <<>>
      /\ stage' = [s \in 0..(Stages - 1) |-> Unknown]
      /\ kernels' = <<>> /\ dma' = <<>> /\ host' = HostIdle
  BY DEF Reopen, DeviceQuiet
<1>2. DOMAIN <<>> = {} /\ IsFiniteSet({})
  BY FS_EmptySet
<1>3. CacheTypes'
  BY <1>1, <1>2, Constants DEF CacheTypes
<1>4. ArenasInv' /\ RangesInv' /\ DmaInv' /\ KernelsInv' /\ ExpandedInv'
  BY <1>1, <1>2 DEF ArenasInv, RangesInv, DmaInv, KernelsInv, ExpandedInv
<1>5. HostInv' /\ UploadInv'
  BY <1>1 DEF HostInv, UploadInv, HostIdle
<1> QED BY <1>3, <1>4, <1>5 DEF CacheInv

LEMMA CacheInvNext ==
  ASSUME CacheInv, [Next]_modelCacheVars
  PROVE  CacheInv'
<1>1. CASE \E t \in Spans : StartPreload(t)
  BY <1>1, StartPreloadStep
<1>2. CASE \E op \in Ops : StartOp(op) \/ GemmFails(op)
  BY <1>2, StartOpStep, GemmFailsStep
<1>3. CASE AcquireHit \/ MissEvict \/ MissNoRoom \/ ArenaDenied
  BY <1>3, AcquireHitStep, MissEvictStep, MissNoRoomStep
<1>4. CASE ArenaFits \/ ArenaNew \/ ArenaFails
  BY <1>4, ArenaFitsStep, ArenaNewStep, ArenaFailsStep
<1>5. CASE StageChunk \/ UploadFails \/ UploadDone \/ DmaStep
  BY <1>5, StageChunkStep, UploadFailsStep, UploadDoneStep, DmaStepStep
<1>7. CASE PreloadStops \/ RegisterMapped \/ CopyPlain \/ CopyPlainFails \/ PreloadDone
  BY <1>7, ReturnSteps, RegisterMappedStep, CopyPlainStep
<1>8. CASE Launch \/ Expand \/ ExpandFails \/ KernelStep
  BY <1>8, LaunchStep, ExpandStep, ExpandFailsStep, KernelStepStep
<1>9. CASE EvictBetweenLayers \/ Reopen
  BY <1>9, EvictBetweenLayersStep, ReopenStep
<1>10. CASE UNCHANGED modelCacheVars
  <2>1. UNCHANGED <<ranges, byOffset, rangeBytes, arenas, expanded, mem, stage, dma,
                    kernels, host>>
    BY <1>10 DEF modelCacheVars, cacheVars
  <2>2. CacheTypes' /\ ArenasInv' /\ RangesInv' /\ DmaInv'
    BY <2>1 DEF CacheInv, CacheTypes, ArenasInv, RangesInv, RangeInv, Reads, TakenFrom,
                ArenaBlocks, DmaInv, Within
  <2>3. ExpandedInv' /\ HostInv'
    BY <2>1, KeepExpanded DEF CacheInv, CacheTypes, ExpandedInv, ArenaBlocks, RangeBlocks,
                              HostInv, FoundBacked, Backed
  <2>4. UploadInv'
    BY <2>1 DEF CacheInv, UploadInv, Wanted, TakenFrom, Within
  <2>5. KernelsInv'
    BY <2>1, SameRanges, SameCopies, KernelsStay DEF CacheInv
  <2> QED BY <2>2, <2>3, <2>4, <2>5 DEF CacheInv
<1> QED BY <1>1, <1>2, <1>3, <1>4, <1>5, <1>7, <1>8, <1>9, <1>10 DEF Next

\* The invariant of the weight cache: every lookup, upload, eviction, expansion,
\* launch and failure of sf37_cuda.cu:582-1188 and 5948-6044 keeps it, for
\* operations that look up any number of tensors.
THEOREM CacheInvariant == Spec => []CacheInv
<1>1. CacheInv /\ [Next]_modelCacheVars => CacheInv'
  BY CacheInvNext
<1> QED BY CacheInvInit, <1>1, PTL DEF Spec

\* What the cache lists is on the device, complete and in its place in the file,
\* whichever uploads, evictions and failures came before, and the bytes it counts
\* stay within its limit (sf37_cuda.cu:802-1129).
THEOREM CachedRangesComplete == Spec => []CachedIsComplete
<1>1. CacheInv => CachedIsComplete
  BY DEF CacheInv, CacheTypes, RangesInv, RangeInv, CachedIsComplete
<1> QED BY CacheInvariant, <1>1, PTL

\* The first kernel in the queue reads right through the pointers its lookups kept.
LEMMA KeptPointersRead ==
  ASSUME CacheInv, kernels # <<>>, NEW i \in (kernels[1].lost + 1)..Len(kernels[1].of)
  PROVE  Reads(kernels[1].from[i], kernels[1].of[i])
<1> PICK k : k = kernels[1]
  OBVIOUS
<1>1. 1 \in DOMAIN kernels
  BY DEF CacheInv, CacheTypes
<1>2. k.of \in Seq(Tensors) /\ k.lost \in Nat /\ i \in Nat /\ i >= 1 /\ i <= Len(k.of)
  BY <1>1, KernelTyped DEF CacheInv
<1>3. KernelInv(1)
  BY <1>1 DEF CacheInv, KernelsInv
<1>4. CASE ReadsRanges(k)
  <2>1. Backed(k.from[i], k.of[i])
    BY <1>4 DEF ReadsRanges, FoundBacked
  <2>2. k.of[i] \in Tensors
    BY <1>2
  <2> QED BY <2>1, <2>2, BackedReads DEF CacheInv
<1>5. ASSUME NEW t \in Tensors, ReadsCopy(k, t), Filled(t) PROVE Reads(k.from[i], k.of[i])
  <2>1. k.of = <<t>> /\ k.from = <<[blk |-> expanded[t], at |-> 0]>>
    BY <1>5 DEF ReadsCopy
  <2>2. i = 1
    BY <1>2, <2>1
  <2> QED BY <1>5, <2>1, <2>2 DEF Filled
<1>6. 1..(1 - 1) = {}
  OBVIOUS
<1> QED BY <1>3, <1>4, <1>5, <1>6 DEF KernelInv

\* A kernel that runs long after it was launched reads the weights it was asked
\* for through every pointer that its own operation did not evict while it looked
\* up the rest: no eviction by others, and no expanded copy that is given up,
\* frees or reuses the memory under it (sf37_cuda.cu:582-603, 1131-1188,
\* 5948-6044).  Operations look up any number of tensors.
THEOREM KernelsAreSafe == Spec => []KernelsReadWeights
<1>1. ASSUME CacheInv PROVE KernelsReadWeights
  <2> SUFFICES ASSUME kernels # <<>>,
                      NEW i \in (kernels[1].lost + 1)..Len(kernels[1].of)
               PROVE  Reads(kernels[1].from[i], kernels[1].of[i])
    BY <1>1 DEF KernelsReadWeights, CacheInv, CacheTypes
  <2> QED BY <1>1, KeptPointersRead
<1> QED BY CacheInvariant, <1>1, PTL

-----------------------------------------------------------------------------
(* Without eviction.                                                       *)

\* An operation that is not done, and one that waits to run, has evicted nothing.
NothingLost ==
  /\ host # HostIdle => host.lost = 0
  /\ \A i \in DOMAIN kernels : kernels[i].lost = 0

LEMMA LaunchLosesNothing ==
  ASSUME kernels \in Seq(KernelRec), NothingLost, NEW k, k.lost = 0,
         kernels' = Append(kernels, k)
  PROVE  \A i \in DOMAIN kernels' : kernels'[i].lost = 0
<1>1. \A i \in DOMAIN kernels' :
         kernels'[i] = k \/ (i \in DOMAIN kernels /\ kernels'[i] = kernels[i])
  OBVIOUS
<1> QED BY <1>1 DEF NothingLost

LEMMA NothingLostNext ==
  ASSUME ~MayEvict, CacheInv, NothingLost, [Next]_modelCacheVars
  PROVE  NothingLost'
<1>0. kernels \in Seq(KernelRec) /\ CacheTypes
  BY DEF CacheInv, CacheTypes
<1>1. CASE \/ \E t \in Spans : StartPreload(t)
           \/ \E op \in Ops : GemmFails(op)
           \/ ExpandFails
  <2>1. UNCHANGED kernels /\ host'.lost = 0
    <3>1. ASSUME ExpandFails PROVE UNCHANGED kernels /\ host'.lost = 0
      <4>1. host \in Waiting
        BY <3>1, FoundPointers DEF ExpandFails
      <4> QED BY <3>1, <4>1 DEF ExpandFails, Waiting
    <3> QED BY <1>1, <3>1 DEF StartPreload, GemmFails
  <2> QED BY <2>1 DEF NothingLost
<1>2. CASE \E op \in Ops : StartOp(op)
  <2> PICK op \in Ops : StartOp(op)
    BY <1>2
  <2>1. CASE UNCHANGED kernels
    <3>1. host' = host \/ host'.lost = 0
      BY DEF StartOp
    <3> QED BY <2>1, <3>1 DEF NothingLost
  <2>2. CASE ~UNCHANGED kernels
    <3>1. /\ UNCHANGED host
          /\ \E k : k.lost = 0 /\ kernels' = Append(kernels, k)
      BY <2>2 DEF StartOp
    <3> QED BY <1>0, <3>1, LaunchLosesNothing DEF NothingLost
  <2> QED BY <2>1, <2>2
<1>3. CASE \/ AcquireHit \/ MissNoRoom \/ ArenaDenied \/ ArenaFits \/ ArenaNew
           \/ StageChunk \/ UploadFails \/ UploadDone \/ RegisterMapped
  <2>1. host # HostIdle /\ host \in Waiting \cup Uploading
    <3>1. host.pc \in {"acquire", "upload", "fallback"}
      BY <1>3 DEF AcquireHit, MissNoRoom, ArenaDenied, ArenaFits, ArenaNew, StageChunk,
                  UploadFails, UploadDone, RegisterMapped, Uncached, Acquiring
    <3> QED BY <1>0, <3>1 DEF CacheTypes, HostIdle
  <2>2. UNCHANGED kernels
    BY <1>3 DEF AcquireHit, MissNoRoom, ArenaDenied, ArenaFits, ArenaNew, StageChunk,
                UploadFails, UploadDone, RegisterMapped
  <2>3. host'.lost = host.lost
    <3>1. CASE AcquireHit \/ MissNoRoom \/ ArenaDenied \/ StageChunk \/ RegisterMapped
      BY <2>1, <3>1 DEF AcquireHit, MissNoRoom, ArenaDenied, StageChunk, RegisterMapped,
                        Got, Waiting, Uploading
    <3>2. CASE ArenaFits \/ ArenaNew \/ UploadFails \/ UploadDone
      BY <3>2 DEF ArenaFits, ArenaNew, UploadFails, UploadDone, StartUpload
    <3> QED BY <1>3, <3>1, <3>2
  <2> QED BY <2>1, <2>2, <2>3 DEF NothingLost
<1>4. CASE MissEvict
  BY <1>4 DEF MissEvict, Evictable
<1>5. CASE ArenaFails
  <2>1. /\ host' = [host EXCEPT !.pc = "fallback"] /\ UNCHANGED kernels
        /\ Acquiring("acquire")
    BY <1>5 DEF ArenaFails, Evictable, Uncached
  <2>2. host # HostIdle /\ host \in Waiting
    BY <1>0, <2>1, AcquiringTensor DEF CacheInv
  <2> QED BY <2>1, <2>2 DEF NothingLost, Waiting
<1>6. CASE CopyPlain
  <2>1. UNCHANGED kernels /\ host.pc = "fallback"
    BY <1>6 DEF CopyPlain
  <2>2. host # HostIdle /\ host \in Waiting
    BY <2>1, FallbackTensor
  <2>3. host' = HostIdle \/ host'.lost = host.lost
    BY <1>6, <2>2 DEF CopyPlain, OpFails, Got, Waiting
  <2> QED BY <2>1, <2>2, <2>3 DEF NothingLost
<1>7. CASE PreloadStops \/ CopyPlainFails \/ PreloadDone \/ Reopen
  <2>1. UNCHANGED kernels /\ host' = HostIdle
    BY <1>7 DEF PreloadStops, CopyPlainFails, PreloadDone, OpFails, Reopen
  <2> QED BY <2>1 DEF NothingLost
<1>8. CASE DmaStep \/ EvictBetweenLayers \/ UNCHANGED modelCacheVars
  <2>1. UNCHANGED <<kernels, host>>
    BY <1>8 DEF DmaStep, EvictBetweenLayers, modelCacheVars
  <2> QED BY <2>1 DEF NothingLost
<1>9. CASE Launch
  <2>1. AllFound /\ host' = HostIdle
    BY <1>9 DEF Launch
  <2>2. host # HostIdle
    BY <2>1, FoundPointers
  <2>3. \E k : k.lost = host.lost /\ kernels' = Append(kernels, k)
    BY <1>9 DEF Launch
  <2>4. \A i \in DOMAIN kernels' : kernels'[i].lost = 0
    BY <1>0, <2>2, <2>3, LaunchLosesNothing DEF NothingLost
  <2> QED BY <2>1, <2>4 DEF NothingLost
<1>10. CASE Expand
  <2>1. AllFound /\ host' = HostIdle
    BY <1>10 DEF Expand
  <2>2. host # HostIdle
    BY <2>1, FoundPointers
  <2>3. \E d, k : d.lost = host.lost /\ k.lost = 0 /\ kernels' = kernels \o <<d, k>>
    BY <1>10 DEF Expand
  <2>4. \A i \in DOMAIN kernels' : kernels'[i].lost = 0
    <3> PICK d, k : d.lost = host.lost /\ k.lost = 0 /\ kernels' = kernels \o <<d, k>>
      BY <2>3
    <3>1. \A i \in DOMAIN kernels' :
             \/ kernels'[i] = d \/ kernels'[i] = k
             \/ i \in DOMAIN kernels /\ kernels'[i] = kernels[i]
      BY <1>0
    <3> QED BY <2>2, <3>1 DEF NothingLost
  <2> QED BY <2>1, <2>4 DEF NothingLost
<1>11. CASE KernelStep
  <2>1. kernels # <<>> /\ kernels' = Tail(kernels) /\ UNCHANGED host
    BY <1>11 DEF KernelStep
  <2>2. \A i \in DOMAIN kernels' : i + 1 \in DOMAIN kernels /\ kernels'[i] = kernels[i + 1]
    BY <1>0, <2>1
  <2> QED BY <2>1, <2>2 DEF NothingLost
<1> QED BY <1>1, <1>2, <1>3, <1>4, <1>5, <1>6, <1>7, <1>8, <1>9, <1>10, <1>11 DEF Next

\* Of an engine that does not evict (SF37_CUDA_NO_WEIGHT_EVICT, sf37_cuda.cu:582-603)
\* every kernel reads its weights through every pointer, whatever its operation
\* looked up together (6217-6224, 6492-6499).
THEOREM PinnedKernelsAreSafe ==
  ASSUME ~MayEvict
  PROVE  Spec => []OperationsReadWeights
<1>1. Init => NothingLost
  BY DEF Init, NothingLost
<1>2. CacheInv /\ NothingLost /\ [Next]_modelCacheVars => NothingLost'
  BY NothingLostNext
<1>3. ASSUME CacheInv, NothingLost PROVE OperationsReadWeights
  <2> SUFFICES ASSUME kernels # <<>>, NEW i \in DOMAIN kernels[1].of
               PROVE  Reads(kernels[1].from[i], kernels[1].of[i])
    BY <1>3 DEF OperationsReadWeights, CacheInv, CacheTypes
  <2>1. 1 \in DOMAIN kernels
    BY <1>3 DEF CacheInv, CacheTypes
  <2>2. kernels[1].of \in Seq(Tensors) /\ kernels[1].lost = 0
    BY <1>3, <2>1, KernelTyped DEF CacheInv, NothingLost
  <2>3. i \in (kernels[1].lost + 1)..Len(kernels[1].of)
    BY <2>2
  <2> QED BY <1>3, <2>3, KeptPointersRead
<1> QED BY CacheInvariant, <1>1, <1>2, <1>3, PTL DEF Spec

=============================================================================
