---------------------------- MODULE SessionProofs ----------------------------
(***************************************************************************)
(* Proofs about the session, for every vocabulary and prompt, every window *)
(* and ring size, every chunk, split and context size, and both backends.  *)
(*                                                                         *)
(* While the checkpoint is valid, both layers hold, each in its slot, the  *)
(* rows of the positions the next evaluation attends to, and these rows    *)
(* were computed from what the checkpoint tokens stand for.  Everything    *)
(* else follows from this and from where a sync stands.                    *)
(***************************************************************************)
EXTENDS Session, FiniteSetTheorems, SequenceTheorems, WellFoundedInduction, TLAPS

-----------------------------------------------------------------------------
(* The inductive invariant.                                                *)

\* What an input can be: a token, or row k of the features of an image.
Stimuli == (Tokens \cup Images) \X Nat

\* The inputs a sequence of tokens stands for, but for the image.
Matches(ts, h) ==
  /\ ts \in Seq(Tokens) /\ h \in Seq(Stimuli) /\ Len(h) = Len(ts)
  /\ \A i \in 1..Len(ts) : h[i][2] = IF ts[i] = Patch THEN PatchesIn(ts, i) ELSE 0
  /\ \A i \in 1..Len(ts) : ts[i] # Patch => h[i][1] = ts[i]

\* What cuda_sliding_cache_cap and its caller have to guarantee: a position
\* finds its window in the ring, and a chunk stored at once leaves the window
\* of its first position in it.
ConfFits(c) ==
  /\ c.backend \in Backends
  /\ c.ctx \in Nat \ {0}
  /\ c.cap.full = c.ctx
  /\ c.cap.sliding \in 1..c.ctx
  /\ c.backend # "cuda" => c.cap.sliding = c.ctx
  /\ c.cap.sliding < c.ctx => Window <= c.cap.sliding
  /\ c.prefill \in 1..c.cap.sliding
  /\ c.cap.sliding < c.ctx => c.prefill + Window <= c.cap.sliding + 1

ConfOK == ConfFits(conf)

\* The rows of `cache` for the positions first .. last - 1 are those of h.
Keeps(cache, cap, first, last, h) ==
  \A pos \in first..(last - 1) : cache[pos % cap] = SubSeq(h, 1, pos + 1)

\* A layer's cache holds what the position after history h attends to.
Holds(cache, il, h) ==
  Keeps(cache, conf.cap[il], FirstNeeded(il, Len(h) + 1), Len(h), h)

RowsTyped(r) ==
  /\ DOMAIN r = Layers
  /\ \A il \in Layers : DOMAIN r[il] = 0..(conf.cap[il] - 1)

CheckpointTypes ==
  /\ ConfOK
  /\ Matches(toks, hist)
  /\ Len(toks) <= conf.ctx
  /\ valid \in BOOLEAN
  /\ sig \in Images \cup {NoImage}
  /\ RowsTyped(rows)
  /\ ~Cuda => valid /\ n = [il \in Layers |-> Len(toks)]

CallTypes ==
  /\ \/ task = NoTask
     \/ task \in [pc : {"batch", "token"}, cap : Nat, p : Prompts, start : Nat, pos : Nat]
  /\ \/ ret \in [op : {"create", "none", "failed", "evaluated", "loaded", "restored"}]
     \/ ret \in [op : {"synced"}, p : Prompts, count : Nat]

\* e is what an evaluation of history h leaves.
Evaluated(e, h) ==
  /\ e.out = h
  /\ \A il \in Layers : Holds(e.rows[il], il, h)
  /\ e.n = IF Cuda THEN n ELSE [il \in Layers |-> Len(h)]

RowsInv ==
  valid => \A il \in Layers : Holds(rows[il], il, hist)

SigInv ==
  valid /\ sig # NoImage =>
    \A i \in 1..Len(toks) : toks[i] = Patch => hist[i][1] = sig

PatchFree(p, first) == \A i \in (first + 1)..Len(p.toks) : p.toks[i] # Patch

TaskInv ==
  task # NoTask =>
    LET p == task.p
    IN /\ valid /\ ret.op = "none"
       /\ task.start <= task.pos /\ task.pos <= Len(p.toks) /\ Len(p.toks) <= conf.ctx
       /\ toks = SubSeq(p.toks, 1, task.pos)
       /\ hist = SubSeq(Meaning(p), 1, task.pos)
       /\ task.pc = "batch" => /\ Cuda
                               /\ task.cap \in 1..conf.prefill
                               /\ proj = p.img \/ PatchFree(p, task.start)
       /\ task.pc = "token" => PatchFree(p, task.start)
       /\ task.start < task.pos /\ task.pos = Len(p.toks) => logits = hist
       /\ sig = NoImage \/ p.img = NoImage \/ sig = p.img

RetInv ==
  /\ ret.op \in {"synced", "evaluated", "restored"} => valid
  /\ ret.op = "synced" =>
       /\ hist = Meaning(ret.p)
       /\ ret.count > 0 => logits = hist

\* A payload holds the rows it will be asked for, and on the CPU all of them.
LayerSaved(saved, il, h) ==
  LET count == Len(saved)
      len == Len(h)
  IN /\ count \in 0..len
     /\ DOMAIN saved = 1..count
     /\ ~Cuda => count = len
     /\ \A pos \in FirstNeeded(il, len + 1)..(len - 1) :
          LET k == count - (len - pos) + 1
          IN k >= 1 /\ saved[k] = SubSeq(h, 1, pos + 1)

PayloadInv(f) ==
  f # NoFile =>
    /\ f.kind = "saved"
    /\ Matches(f.toks, f.hist)
    /\ DOMAIN f.rows = Layers
    /\ \A il \in Layers : LayerSaved(f.rows[il], il, f.hist)

\* A payload's rows have room in the caches of this session.
Loadable(f) ==
  /\ Len(f.toks) <= conf.ctx
  /\ \A il \in Layers : Len(f.rows[il]) <= conf.cap[il]

CheckpointInv == CheckpointTypes /\ RowsInv /\ SigInv

CallInv == CallTypes /\ TaskInv /\ RetInv

FilesInv ==
  /\ PayloadInv(file) /\ PayloadInv(snap)
  /\ snap # NoFile => Loadable(snap)

SessionInv == CheckpointInv /\ CallInv /\ FilesInv

-----------------------------------------------------------------------------
(* Slots of a ring.                                                        *)

LEMMA Least2 ==
  ASSUME NEW a \in Int, NEW b \in Int
  PROVE  /\ Least(a, b) \in {a, b} /\ Least(a, b) <= a /\ Least(a, b) <= b
         /\ Most(a, b) \in {a, b} /\ a <= Most(a, b) /\ b <= Most(a, b)
  BY DEF Least, Most

LEMMA DivMod ==
  ASSUME NEW s \in Nat \ {0}, NEW a \in Nat
  PROVE  /\ a \div s \in Nat /\ a % s \in 0..(s - 1)
         /\ a = s * (a \div s) + (a % s)
  OBVIOUS

LEMMA SmallMod ==
  ASSUME NEW s \in Nat \ {0}, NEW a \in 0..(s - 1)
  PROVE  a % s = a
  OBVIOUS

\* Positions closer than the size of a ring have different slots.
LEMMA RingSlots ==
  ASSUME NEW s \in Nat \ {0}, NEW a \in Nat, NEW b \in Nat, a < b, b - a < s
  PROVE  a % s # b % s
<1> SUFFICES ASSUME a % s = b % s PROVE FALSE
  OBVIOUS
<1>1. PICK p, q, r : p = a \div s /\ q = b \div s /\ r = a % s
  OBVIOUS
<1>2. p \in Int /\ q \in Int /\ r \in Int /\ a = s * p + r /\ b = s * q + r
  BY <1>1, DivMod
<1>3. s * q - s * p = s * (q - p)
  BY <1>2
<1>4. PICK d \in Int : d = q - p
  BY <1>2
<1>5. 0 < s * d /\ s * d < s
  BY <1>2, <1>3, <1>4
<1>6. CASE d <= 0
  BY <1>5, <1>6
<1>7. CASE d >= 1
  <2>1. s * d = s + s * (d - 1) /\ s * d \in Int
    BY <1>4
  <2>2. s * (d - 1) >= 0
    BY <1>4, <1>7
  <2> QED BY <1>5, <2>1, <2>2
<1> QED BY <1>4, <1>6, <1>7

-----------------------------------------------------------------------------
(* The window of a position and the ring.                                  *)

\* The positions first .. last - 1 have slots of their own.
Fits(il, first, last) ==
  /\ last <= conf.ctx
  /\ conf.cap[il] = conf.ctx \/ last - first <= conf.cap[il]

LEMMA Caps ==
  ASSUME ConfOK, NEW il \in Layers
  PROVE  /\ conf.ctx \in Nat \ {0} /\ conf.cap[il] \in Nat \ {0} /\ conf.cap[il] <= conf.ctx
         /\ ~Cuda => conf.cap[il] = conf.ctx
         /\ conf.prefill \in Nat \ {0} /\ Window \in Nat \ {0}
         /\ conf.cap[il] < conf.ctx =>
              /\ il = "sliding"
              /\ Window <= conf.cap[il] /\ conf.prefill + Window <= conf.cap[il] + 1
<1>1. CASE il = "full"
  BY <1>1, SessionAssumption DEF ConfOK, ConfFits, Cuda
<1>2. CASE il = "sliding"
  BY <1>2, SessionAssumption DEF ConfOK, ConfFits, Cuda
<1> QED BY <1>1, <1>2 DEF Layers

LEMMA FirstIs ==
  ASSUME NEW il \in Layers, NEW have \in Nat
  PROVE  /\ FirstNeeded(il, have) \in 0..have
         /\ have > 0 => FirstNeeded(il, have) < have
         /\ \A more \in Nat : have <= more => FirstNeeded(il, have) <= FirstNeeded(il, more)
         /\ il = "sliding" => have <= FirstNeeded(il, have) + Window
         /\ Window \in Nat \ {0}
<1>1. Window \in Nat \ {0}
  BY SessionAssumption
<1> QED BY <1>1 DEF FirstNeeded

LEMMA SlotsDiffer ==
  ASSUME ConfOK, NEW il \in Layers, NEW first \in Nat, NEW last \in Nat,
         Fits(il, first, last),
         NEW a \in first..(last - 1), NEW b \in first..(last - 1), a # b
  PROVE  a % conf.cap[il] # b % conf.cap[il]
<1>1. PICK s : s = conf.cap[il]
  OBVIOUS
<1>2. s \in Nat \ {0}
  BY <1>1, Caps
<1>3. conf.ctx \in Nat /\ last <= conf.ctx /\ (s = conf.ctx \/ last - first <= s)
  BY <1>1, Caps DEF Fits
<1>4. a \in Nat /\ b \in Nat /\ a - b < s /\ b - a < s
  BY <1>2, <1>3
<1>5. a % s # b % s
  <2>1. CASE a < b
    BY <1>2, <1>4, <2>1, RingSlots
  <2>2. CASE b < a
    BY <1>2, <1>4, <2>2, RingSlots
  <2> QED BY <1>4, <2>1, <2>2
<1> QED BY <1>1, <1>5

LEMMA SlotIs ==
  ASSUME ConfOK, NEW il \in Layers, NEW pos \in Nat
  PROVE  /\ pos % conf.cap[il] \in 0..(conf.cap[il] - 1)
         /\ ~Cuda /\ pos < conf.ctx => pos % conf.cap[il] = pos
<1>1. PICK s : s = conf.cap[il]
  OBVIOUS
<1>2. s \in Nat \ {0} /\ (~Cuda => s = conf.ctx)
  BY <1>1, Caps
<1>3. pos % s \in 0..(s - 1) /\ (pos < s => pos % s = pos)
  BY <1>2, DivMod, SmallMod
<1> QED BY <1>1, <1>2, <1>3

\* A chunk that is not longer than conf.prefill leaves the window of its first
\* position in the ring.
LEMMA ChunkFits ==
  ASSUME ConfOK, NEW il \in Layers, NEW pos0 \in Nat, NEW c \in Nat \ {0},
         pos0 + c <= conf.ctx, c <= conf.prefill
  PROVE  Fits(il, FirstNeeded(il, pos0 + 1), pos0 + c)
<1>1. PICK f \in Nat : f = FirstNeeded(il, pos0 + 1)
  BY FirstIs
<1>2. pos0 + 1 \in Nat
  OBVIOUS
<1>3. il = "sliding" => pos0 + 1 <= f + Window
  BY <1>1, <1>2, FirstIs
<1>4. PICK s : s = conf.cap[il]
  OBVIOUS
<1>5. /\ conf.ctx \in Nat /\ s \in Nat /\ s <= conf.ctx /\ Window \in Nat /\ conf.prefill \in Nat
      /\ s < conf.ctx => il = "sliding" /\ conf.prefill + Window <= s + 1
  BY <1>4, Caps
<1>6. s = conf.ctx \/ pos0 + c - f <= s
  BY <1>3, <1>5
<1> QED BY <1>1, <1>4, <1>6 DEF Fits

\* On the device the ring never starts behind the window.
LEMMA StartIsFirst ==
  ASSUME ConfOK, NEW il \in Layers, NEW pos \in Nat, pos < conf.ctx
  PROVE  StartRow(il, pos) = FirstNeeded(il, pos + 1)
<1>1. PICK f \in Nat : f = FirstNeeded(il, pos + 1)
  BY FirstIs
<1>2. PICK s : s = conf.cap[il]
  OBVIOUS
<1>3. /\ conf.ctx \in Nat /\ s \in Nat /\ s <= conf.ctx /\ Window \in Nat
      /\ s < conf.ctx => il = "sliding" /\ Window <= s
  BY <1>2, Caps
<1>4. CASE pos + 1 <= s
  BY <1>1, <1>2, <1>3, <1>4 DEF StartRow, Most
<1>5. CASE s < pos + 1
  <2>1. il = "sliding" /\ Window <= s
    BY <1>3, <1>5
  <2>2. f = pos + 1 - Window
    BY <1>1, <1>3, <1>5, <2>1 DEF FirstNeeded
  <2>3. StartRow(il, pos) = Most(pos + 1 - s, f)
    BY <1>1, <1>2, <1>3, <1>5 DEF StartRow
  <2> QED BY <1>1, <1>3, <1>5, <2>1, <2>2, <2>3 DEF Most
<1> QED BY <1>3, <1>4, <1>5

-----------------------------------------------------------------------------
(* Histories and their prefixes.                                           *)

LEMMA Prefix ==
  ASSUME NEW S, NEW h \in Seq(S), NEW m \in 0..Len(h)
  PROVE  /\ SubSeq(h, 1, m) \in Seq(S) /\ Len(SubSeq(h, 1, m)) = m
         /\ \A i \in 1..m : SubSeq(h, 1, m)[i] = h[i]
         /\ m > 0 => SubSeq(h, 1, m) # <<>>
<1>1. Len(h) \in Nat /\ \A i \in 1..m : h[i] \in S
  BY ElementOfSeq
<1>2. m \in Int /\ 1 \in Int
  OBVIOUS
<1>3. /\ SubSeq(h, 1, m) \in Seq(S)
      /\ Len(SubSeq(h, 1, m)) = IF 1 <= m THEN m - 1 + 1 ELSE 0
      /\ \A i \in 1..(m - 1 + 1) : SubSeq(h, 1, m)[i] = h[1 + i - 1]
  BY <1>1, <1>2, SubSeqProperties
<1>4. Len(SubSeq(h, 1, m)) = m /\ \A i \in 1..m : SubSeq(h, 1, m)[i] = h[i]
  BY <1>1, <1>3
<1> QED BY <1>3, <1>4

LEMMA PrefixOfPrefix ==
  ASSUME NEW S, NEW h \in Seq(S), NEW m \in 0..Len(h), NEW k \in 0..m
  PROVE  SubSeq(SubSeq(h, 1, m), 1, k) = SubSeq(h, 1, k)
<1> DEFINE g == SubSeq(h, 1, m)
<1>1. g \in Seq(S) /\ Len(g) = m /\ \A i \in 1..m : g[i] = h[i]
  BY Prefix
<1>2. Len(h) \in Nat /\ k \in 0..Len(h)
  OBVIOUS
<1> HIDE DEF g
<1>3. SubSeq(g, 1, k) \in Seq(S) /\ Len(SubSeq(g, 1, k)) = k
      /\ \A i \in 1..k : SubSeq(g, 1, k)[i] = g[i]
  BY <1>1, Prefix
<1>4. SubSeq(h, 1, k) \in Seq(S) /\ Len(SubSeq(h, 1, k)) = k
      /\ \A i \in 1..k : SubSeq(h, 1, k)[i] = h[i]
  BY <1>2, Prefix
<1>5. \A i \in 1..k : SubSeq(g, 1, k)[i] = SubSeq(h, 1, k)[i]
  BY <1>1, <1>3, <1>4
<1>6. SubSeq(g, 1, k) = SubSeq(h, 1, k)
  BY <1>3, <1>4, <1>5, SeqEqual
<1> QED BY <1>6 DEF g

\* What Append and \o add does not change the prefixes.
LEMMA PrefixOfMore ==
  ASSUME NEW S, NEW h \in Seq(S), NEW g \in Seq(S), NEW k \in 0..Len(h)
  PROVE  SubSeq(h \o g, 1, k) = SubSeq(h, 1, k)
<1>1. /\ h \o g \in Seq(S) /\ Len(h \o g) = Len(h) + Len(g)
      /\ \A i \in 1..k : (h \o g)[i] = h[i]
      /\ Len(h) \in Nat /\ Len(g) \in Nat
  BY ConcatProperties
<1> DEFINE f == h \o g
<1> HIDE DEF f
<1>2. f \in Seq(S) /\ k \in 0..Len(f)
  BY <1>1 DEF f
<1>3. SubSeq(f, 1, k) \in Seq(S) /\ Len(SubSeq(f, 1, k)) = k
      /\ \A i \in 1..k : SubSeq(f, 1, k)[i] = f[i]
  BY <1>2, Prefix
<1>4. SubSeq(h, 1, k) \in Seq(S) /\ Len(SubSeq(h, 1, k)) = k
      /\ \A i \in 1..k : SubSeq(h, 1, k)[i] = h[i]
  BY Prefix
<1>5. \A i \in 1..k : SubSeq(f, 1, k)[i] = SubSeq(h, 1, k)[i]
  BY <1>1, <1>3, <1>4 DEF f
<1>6. SubSeq(f, 1, k) = SubSeq(h, 1, k)
  BY <1>3, <1>4, <1>5, SeqEqual
<1> QED BY <1>6 DEF f

\* A prefix continued by what follows it.
LEMMA PrefixGrows ==
  ASSUME NEW S, NEW h \in Seq(S), NEW k \in 0..Len(h), NEW m \in k..Len(h)
  PROVE  SubSeq(h, 1, k) \o SubSeq(h, k + 1, m) = SubSeq(h, 1, m)
<1>1. 1 \in 1..(Len(h) + 1) /\ k \in (1 - 1)..Len(h) /\ m \in k..Len(h)
  OBVIOUS
<1> QED BY <1>1, ConcatAdjacentSubSeq

-----------------------------------------------------------------------------
(* What a layer leaves and attends to.                                     *)

\* A chunk's rows are in their slots, those of first .. pos0 - 1 where they were.
Stored(s, cache, cap, hs, pos0, first) ==
  /\ DOMAIN s = DOMAIN cache
  /\ \A t \in DOMAIN hs : s[(pos0 + t - 1) % cap] = hs[t]
  /\ \A q \in first..(pos0 - 1) : s[q % cap] = cache[q % cap]

LEMMA StoredRows ==
  ASSUME ConfOK, NEW il \in Layers, NEW cache, DOMAIN cache = 0..(conf.cap[il] - 1),
         NEW c \in Nat, NEW hs, DOMAIN hs = 1..c, NEW pos0 \in Nat, NEW first \in 0..pos0,
         Fits(il, first, pos0 + c)
  PROVE  Stored(StoreRows(cache, il, hs, pos0), cache, conf.cap[il], hs, pos0, first)
<1> DEFINE slot(t) == (pos0 + t - 1) % conf.cap[il]
           s == StoreRows(cache, il, hs, pos0)
<1>1. s = [i \in DOMAIN cache |->
             IF \E t \in 1..c : slot(t) = i
             THEN hs[CHOOSE t \in 1..c : slot(t) = i] ELSE cache[i]]
  BY DEF StoreRows
<1>2. \A q \in Nat : q % conf.cap[il] \in DOMAIN cache
  BY SlotIs
<1>3. \A t, u \in 1..c : slot(t) = slot(u) => t = u
  <2> SUFFICES ASSUME NEW t \in 1..c, NEW u \in 1..c, t # u PROVE slot(t) # slot(u)
    OBVIOUS
  <2>1. PICK a \in first..(pos0 + c - 1) : a = pos0 + t - 1
    OBVIOUS
  <2>2. PICK b \in first..(pos0 + c - 1) : b = pos0 + u - 1
    OBVIOUS
  <2>3. a # b /\ first \in Nat /\ pos0 + c \in Nat
    BY <2>1, <2>2
  <2>4. a % conf.cap[il] # b % conf.cap[il]
    BY <2>3, SlotsDiffer
  <2> QED BY <2>1, <2>2, <2>4
<1>4. \A t \in 1..c, q \in first..(pos0 - 1) : slot(t) # q % conf.cap[il]
  <2> SUFFICES ASSUME NEW t \in 1..c, NEW q \in first..(pos0 - 1)
               PROVE  slot(t) # q % conf.cap[il]
    OBVIOUS
  <2>1. PICK a \in first..(pos0 + c - 1) : a = pos0 + t - 1
    OBVIOUS
  <2>2. a # q /\ q \in first..(pos0 + c - 1) /\ first \in Nat /\ pos0 + c \in Nat
    BY <2>1
  <2>3. a % conf.cap[il] # q % conf.cap[il]
    BY <2>2, SlotsDiffer
  <2> QED BY <2>1, <2>3
<1>5. \A t \in 1..c : slot(t) \in DOMAIN cache
  <2> SUFFICES ASSUME NEW t \in 1..c PROVE slot(t) \in DOMAIN cache
    OBVIOUS
  <2>1. pos0 + t - 1 \in Nat
    OBVIOUS
  <2> QED BY <1>2, <2>1
<1> HIDE DEF slot, s
<1>6. DOMAIN s = DOMAIN cache
  BY <1>1
<1>7. ASSUME NEW t \in 1..c PROVE s[slot(t)] = hs[t]
  <2>1. s[slot(t)] = hs[CHOOSE u \in 1..c : slot(u) = slot(t)]
    BY <1>1, <1>5
  <2>2. (CHOOSE u \in 1..c : slot(u) = slot(t)) = t
    BY <1>3
  <2> QED BY <2>1, <2>2
<1>8. ASSUME NEW q \in first..(pos0 - 1)
      PROVE  s[q % conf.cap[il]] = cache[q % conf.cap[il]]
  <2>1. q \in Nat
    OBVIOUS
  <2> QED BY <1>1, <1>2, <1>4, <2>1
<1> QED BY <1>6, <1>7, <1>8 DEF s, slot, Stored

\* A position whose rows are in their slots attends to what it must attend to.
LEMMA AttendsRight ==
  ASSUME ConfOK, NEW il \in Layers, NEW cache, NEW h \in Seq(Stimuli), NEW m \in 1..Len(h),
         Keeps(cache, conf.cap[il], FirstNeeded(il, m), m, h)
  PROVE  LET g == SubSeq(h, 1, m)
             att == RowsBetween(cache, il, FirstNeeded(il, m), m)
         IN /\ Len(g) = m /\ att = Required(il, g)
            /\ Attending(il, g, att) = g
<1> DEFINE g == SubSeq(h, 1, m)
<1>1. PICK f \in 0..m : f = FirstNeeded(il, m)
  BY FirstIs
<1>2. Len(g) = m /\ g # <<>>
  BY Prefix
<1>3. ASSUME NEW k \in 1..(m - f)
      PROVE  cache[(f + k - 1) % conf.cap[il]] = SubSeq(g, 1, f + k)
  <2>1. PICK q \in f..(m - 1) : q = f + k - 1
    OBVIOUS
  <2>2. cache[q % conf.cap[il]] = SubSeq(h, 1, q + 1)
    BY <1>1, <2>1 DEF Keeps
  <2>3. q + 1 = f + k /\ m \in 0..Len(h) /\ q + 1 \in 0..m
    BY <2>1
  <2>4. SubSeq(g, 1, q + 1) = SubSeq(h, 1, q + 1)
    BY <2>3, PrefixOfPrefix
  <2> QED BY <2>1, <2>2, <2>3, <2>4
<1> HIDE DEF g
<1>4. Required(il, g) = [k \in 1..(m - f) |-> SubSeq(g, 1, f + k)]
  BY <1>1, <1>2 DEF Required
<1>5. RowsBetween(cache, il, f, m)
        = [k \in 1..(m - f) |-> cache[(f + k - 1) % conf.cap[il]]]
  BY DEF RowsBetween
<1>6. RowsBetween(cache, il, f, m) = Required(il, g)
  BY <1>3, <1>4, <1>5
<1>7. Attending(il, g, RowsBetween(cache, il, f, m)) = g
  BY <1>2, <1>6 DEF Attending, Bad
<1> QED BY <1>1, <1>2, <1>6, <1>7 DEF g

\* The rows of a chunk stored over those of the positions before it.
LEMMA ChunkKept ==
  ASSUME ConfOK, NEW il \in Layers, NEW cache, DOMAIN cache = 0..(conf.cap[il] - 1),
         NEW h \in Seq(Stimuli), NEW pos0 \in Nat, NEW c \in Nat \ {0}, pos0 + c <= Len(h),
         NEW hs \in [1..c -> Seq(Stimuli)], \A t \in 1..c : hs[t] = SubSeq(h, 1, pos0 + t),
         NEW first \in 0..pos0, Fits(il, first, pos0 + c),
         Keeps(cache, conf.cap[il], first, pos0, h)
  PROVE  LET s == StoreRows(cache, il, hs, pos0)
         IN /\ DOMAIN s = 0..(conf.cap[il] - 1)
            /\ Keeps(s, conf.cap[il], first, pos0 + c, h)
<1> DEFINE s == StoreRows(cache, il, hs, pos0)
<1>0. c \in Nat /\ DOMAIN hs = 1..c
  OBVIOUS
<1>1. /\ DOMAIN s = DOMAIN cache
      /\ \A t \in 1..c : s[(pos0 + t - 1) % conf.cap[il]] = hs[t]
      /\ \A q \in first..(pos0 - 1) : s[q % conf.cap[il]] = cache[q % conf.cap[il]]
  <2>1. Stored(s, cache, conf.cap[il], hs, pos0, first)
    BY <1>0, StoredRows
  <2> HIDE DEF s
  <2> QED BY <1>0, <2>1 DEF Stored
<1> HIDE DEF s
<1>2. ASSUME NEW pos \in first..(pos0 + c - 1)
      PROVE  s[pos % conf.cap[il]] = SubSeq(h, 1, pos + 1)
  <2>1. CASE pos < pos0
    <3>1. pos \in first..(pos0 - 1)
      BY <2>1
    <3> QED BY <1>1, <3>1 DEF Keeps
  <2>2. CASE pos >= pos0
    <3>1. PICK t \in 1..c : t = pos - pos0 + 1
      BY <2>2
    <3>2. pos0 + t - 1 = pos /\ pos0 + t = pos + 1
      BY <3>1
    <3> QED BY <1>1, <3>2
  <2> QED BY <2>1, <2>2
<1>3. Keeps(s, conf.cap[il], first, pos0 + c, h)
  BY <1>2 DEF Keeps
<1> QED BY <1>1, <1>3 DEF s

LEMMA KeepsLess ==
  ASSUME NEW cache, NEW cap, NEW h, NEW a \in Nat, NEW b \in Nat, NEW first \in Nat,
         NEW last \in Nat, Keeps(cache, cap, first, last, h), first <= a, b <= last
  PROVE  Keeps(cache, cap, a, b, h)
  BY DEF Keeps

\* What a layer returns when its cache held what the history h needs.
Served(d, il, h, out) ==
  /\ d.out = out
  /\ DOMAIN d.cache = 0..(conf.cap[il] - 1)
  /\ Holds(d.cache, il, h)

\* cuda_prefill_layer: each position of a chunk attends to what it must, the
\* rows of the whole chunk being stored before.
LEMMA PrefillServes ==
  ASSUME ConfOK, NEW il \in Layers, NEW cache, DOMAIN cache = 0..(conf.cap[il] - 1),
         NEW h \in Seq(Stimuli), NEW pos0 \in Nat, NEW c \in Nat \ {0}, pos0 + c = Len(h),
         Len(h) <= conf.ctx, c <= conf.prefill,
         NEW hs \in [1..c -> Seq(Stimuli)], \A t \in 1..c : hs[t] = SubSeq(h, 1, pos0 + t),
         Keeps(cache, conf.cap[il], FirstNeeded(il, pos0 + 1), pos0, h)
  PROVE  Served(PrefillLayer(cache, il, hs, pos0), il, h, hs)
<1>0. Len(h) \in Nat
  OBVIOUS
<1>1. PICK f : f = FirstNeeded(il, pos0 + 1)
  OBVIOUS
<1>2. f \in 0..pos0 /\ f \in Nat
  BY <1>1, FirstIs
<1>3. Fits(il, f, pos0 + c)
  BY <1>1, ChunkFits
<1> DEFINE s == StoreRows(cache, il, hs, pos0)
<1>4. DOMAIN s = 0..(conf.cap[il] - 1) /\ Keeps(s, conf.cap[il], f, pos0 + c, h)
  <2>1. pos0 + c <= Len(h) /\ Keeps(cache, conf.cap[il], f, pos0, h)
    BY <1>0, <1>1
  <2> QED BY <1>2, <1>3, <2>1, ChunkKept
<1> HIDE DEF s
<1>5. ASSUME NEW t \in 1..c
      PROVE  Attending(il, hs[t], PrefillAttended(s, il, pos0 + t - 1)) = hs[t]
  <2>1. PICK m \in 1..Len(h) : m = pos0 + t
    BY <1>0
  <2>2. pos0 + t - 1 \in Nat /\ pos0 + t - 1 < conf.ctx /\ pos0 + t - 1 + 1 = m
    <3>1. conf.ctx \in Nat
      BY Caps
    <3> QED BY <1>0, <2>1, <3>1
  <2>3. StartRow(il, pos0 + t - 1) = FirstNeeded(il, m)
    BY <2>2, StartIsFirst
  <2>4. FirstNeeded(il, m) \in Nat /\ f <= FirstNeeded(il, m)
    BY <1>1, <2>1, FirstIs
  <2>5. Keeps(s, conf.cap[il], FirstNeeded(il, m), m, h)
    BY <1>2, <1>4, <2>1, <2>4, KeepsLess
  <2>6. Attending(il, SubSeq(h, 1, m), RowsBetween(s, il, FirstNeeded(il, m), m))
          = SubSeq(h, 1, m)
    BY <2>5, AttendsRight
  <2>7. hs[t] = SubSeq(h, 1, m)
    BY <2>1
  <2> QED BY <2>2, <2>3, <2>6, <2>7 DEF PrefillAttended
<1>6. PrefillLayer(cache, il, hs, pos0)
        = [cache |-> s,
           out |-> [t \in 1..c |->
                      Attending(il, hs[t], PrefillAttended(s, il, pos0 + t - 1))]]
  BY DEF PrefillLayer, s
<1>7. PrefillLayer(cache, il, hs, pos0).cache = s /\ PrefillLayer(cache, il, hs, pos0).out = hs
  <2>1. hs = [t \in 1..c |-> hs[t]]
    OBVIOUS
  <2> QED BY <1>5, <1>6, <2>1
<1>8. Keeps(s, conf.cap[il], FirstNeeded(il, Len(h) + 1), Len(h), h)
  <2>1. pos0 + 1 \in Nat /\ Len(h) + 1 \in Nat /\ pos0 + 1 <= Len(h) + 1
    BY <1>0
  <2>2. FirstNeeded(il, Len(h) + 1) \in Nat /\ f <= FirstNeeded(il, Len(h) + 1)
    BY <1>1, <2>1, FirstIs
  <2>3. Keeps(s, conf.cap[il], f, Len(h), h)
    BY <1>4
  <2> QED BY <1>0, <1>2, <2>2, <2>3, KeepsLess
<1> QED BY <1>4, <1>7, <1>8 DEF Holds, Served

\* The split launch reads the rows the other kernels read, in their order.
LEMMA SplitAttends ==
  ASSUME NEW cache, NEW il \in Layers, NEW first \in Nat, NEW last \in Nat, first <= last
  PROVE  SplitAttended(cache, il, first, last) = RowsBetween(cache, il, first, last)
<1> DEFINE w == SplitChunk
           blocks == (last - first + w - 1) \div w
           rowsOf(b) == RowsBetween(cache, il, first + b * w,
                                    Least(first + (b + 1) * w, last))
<1>1. w \in Nat \ {0}
  BY SessionAssumption
<1>2. Least(last - first, blocks * w) = last - first
  <2>1. PICK x \in Nat : x = last - first + w - 1
    BY <1>1
  <2>2. x \div w \in Nat /\ x % w \in 0..(w - 1) /\ x = w * (x \div w) + (x % w)
    BY <1>1, <2>1, DivMod
  <2>3. w * (x \div w) = blocks * w
    BY <1>1, <2>1, <2>2
  <2>4. blocks * w \in Nat
    BY <1>1, <2>1, <2>2, <2>3
  <2>5. last - first <= blocks * w
    BY <1>1, <2>1, <2>2, <2>3, <2>4
  <2> QED BY <2>5 DEF Least
<1>3. ASSUME NEW k \in 1..(last - first)
      PROVE  rowsOf((k - 1) \div w)[k - ((k - 1) \div w) * w]
               = cache[(first + k - 1) % conf.cap[il]]
  <2>1. PICK x \in Nat : x = k - 1
    OBVIOUS
  <2>2. PICK b : b = x \div w
    OBVIOUS
  <2>3. b \in Nat /\ x % w \in 0..(w - 1) /\ x = w * b + (x % w)
    BY <1>1, <2>1, <2>2, DivMod
  <2>4. PICK y \in Nat : y = b * w
    BY <1>1, <2>3
  <2>5. w * b = y /\ (b + 1) * w = y + w
    BY <1>1, <2>3, <2>4
  <2>6. y <= x /\ x < y + w
    BY <1>1, <2>3, <2>5
  <2>7. PICK z : z = Least(first + (y + w), last)
    OBVIOUS
  <2>8. z \in Nat /\ k - y \in 1..(z - (first + y))
    BY <1>1, <2>1, <2>6, <2>7 DEF Least
  <2>9. RowsBetween(cache, il, first + y, z)[k - y]
          = cache[(first + y + (k - y) - 1) % conf.cap[il]]
    BY <2>8 DEF RowsBetween
  <2>10. first + y + (k - y) - 1 = first + k - 1
    OBVIOUS
  <2>11. rowsOf((k - 1) \div w) = RowsBetween(cache, il, first + y, z)
    BY <2>1, <2>2, <2>4, <2>5, <2>7
  <2> QED BY <2>1, <2>2, <2>4, <2>9, <2>10, <2>11
<1>4. SplitAttended(cache, il, first, last)
        = [k \in 1..Least(last - first, blocks * w) |->
             rowsOf((k - 1) \div w)[k - ((k - 1) \div w) * w]]
  BY DEF SplitAttended
<1>5. RowsBetween(cache, il, first, last)
        = [k \in 1..(last - first) |-> cache[(first + k - 1) % conf.cap[il]]]
  BY DEF RowsBetween
<1> HIDE DEF rowsOf, blocks
<1> QED BY <1>2, <1>3, <1>4, <1>5

\* The rows of a history are those of any that continues it.
LEMMA KeepsGrown ==
  ASSUME NEW cache, NEW cap, NEW h \in Seq(Stimuli), NEW m \in 0..Len(h), NEW first \in Nat,
         Keeps(cache, cap, first, m, SubSeq(h, 1, m))
  PROVE  Keeps(cache, cap, first, m, h)
<1> SUFFICES ASSUME NEW pos \in first..(m - 1)
             PROVE  cache[pos % cap] = SubSeq(h, 1, pos + 1)
  BY DEF Keeps
<1>1. cache[pos % cap] = SubSeq(SubSeq(h, 1, m), 1, pos + 1)
  BY DEF Keeps
<1>2. pos + 1 \in 0..m
  OBVIOUS
<1> QED BY <1>1, <1>2, PrefixOfPrefix

\* cuda_decode_layer, with whichever kernel its rows are read.
LEMMA DecodeServes ==
  ASSUME ConfOK, NEW il \in Layers, NEW cache, DOMAIN cache = 0..(conf.cap[il] - 1),
         NEW h \in Seq(Stimuli), NEW pos \in Nat, Len(h) = pos + 1, Len(h) <= conf.ctx,
         Keeps(cache, conf.cap[il], FirstNeeded(il, pos + 1), pos, h)
  PROVE  Served(DecodeLayer(cache, il, h, pos), il, h, h)
<1> DEFINE s == StoreRows(cache, il, <<h>>, pos)
<1>1. PICK f \in 0..pos : f = FirstNeeded(il, pos + 1)
  BY FirstIs
<1>2. conf.ctx \in Nat /\ pos + 1 <= conf.ctx /\ conf.prefill >= 1 /\ 1 \in Nat \ {0}
  BY Caps
<1>3. Fits(il, f, pos + 1)
  BY <1>1, <1>2, ChunkFits
<1>4. DOMAIN s = 0..(conf.cap[il] - 1) /\ Keeps(s, conf.cap[il], f, pos + 1, h)
  <2>1. SubSeq(h, 1, pos + 1) = h
    BY SubSeqFull
  <2>2. <<h>> \in [1..1 -> Seq(Stimuli)] /\ \A t \in 1..1 : <<h>>[t] = SubSeq(h, 1, pos + t)
    BY <2>1
  <2>3. Keeps(cache, conf.cap[il], f, pos, h) /\ pos + 1 <= Len(h)
    BY <1>1
  <2> QED BY <1>2, <1>3, <2>2, <2>3, ChunkKept
<1> HIDE DEF s
<1>5. StartRow(il, pos) = f
  BY <1>1, <1>2, StartIsFirst
<1>6. DecodeAttended(s, il, pos) = RowsBetween(s, il, f, pos + 1)
  <2>1. f \in Nat /\ pos + 1 \in Nat /\ f <= pos + 1
    BY <1>1
  <2>2. SplitAttended(s, il, f, pos + 1) = RowsBetween(s, il, f, pos + 1)
    BY <2>1, SplitAttends
  <2> QED BY <1>5, <2>2 DEF DecodeAttended
<1>7. Attending(il, h, DecodeAttended(s, il, pos)) = h
  <2>1. PICK m \in 1..Len(h) : m = pos + 1
    OBVIOUS
  <2>2. Keeps(s, conf.cap[il], FirstNeeded(il, m), m, h)
    BY <1>1, <1>4, <2>1
  <2>3. Attending(il, SubSeq(h, 1, m), RowsBetween(s, il, FirstNeeded(il, m), m))
          = SubSeq(h, 1, m)
    BY <2>2, AttendsRight
  <2>4. SubSeq(h, 1, m) = h
    BY <2>1, SubSeqFull
  <2> QED BY <1>1, <1>6, <2>1, <2>3, <2>4
<1>8. DecodeLayer(cache, il, h, pos)
        = [cache |-> s, out |-> Attending(il, h, DecodeAttended(s, il, pos))]
  BY DEF DecodeLayer, s
<1>9. Holds(s, il, h)
  <2>1. FirstNeeded(il, pos + 1 + 1) \in Nat /\ f <= FirstNeeded(il, pos + 1 + 1)
    BY <1>1, FirstIs
  <2>2. Keeps(s, conf.cap[il], FirstNeeded(il, pos + 1 + 1), pos + 1, h)
    BY <1>1, <1>4, <2>1, KeepsLess
  <2> QED BY <2>2 DEF Holds
<1> QED BY <1>4, <1>7, <1>8, <1>9 DEF Served

\* run_layer_decode: the cache is not full, so that no row is dropped.
LEMMA HostServes ==
  ASSUME ConfOK, ~Cuda, NEW il \in Layers, NEW cache, DOMAIN cache = 0..(conf.cap[il] - 1),
         NEW h \in Seq(Stimuli), NEW pos \in Nat, Len(h) = pos + 1, Len(h) <= conf.ctx,
         Keeps(cache, conf.cap[il], FirstNeeded(il, pos + 1), pos, h)
  PROVE  /\ Served(HostLayer(cache, pos, il, h), il, h, h)
         /\ HostLayer(cache, pos, il, h).n = pos + 1
<1> DEFINE s == [cache EXCEPT ![pos] = h]
<1>1. PICK f \in 0..pos : f = FirstNeeded(il, pos + 1)
  BY FirstIs
<1>2. PICK cap \in Nat \ {0} : cap = conf.cap[il]
  BY Caps
<1>3. cap = conf.ctx /\ pos < cap
  BY <1>2, Caps
<1>4. \A q \in 0..pos : q % cap = q
  BY <1>2, <1>3, SmallMod
<1>5. Push(cache, pos, h) = s
  <2>1. Cardinality(0..(cap - 1)) = cap
    <3>1. PICK b \in Int : b = cap - 1
      BY <1>2
    <3>2. 0 \in Int /\ 0 <= b /\ b - 0 + 1 = cap
      BY <1>2, <3>1
    <3>3. Cardinality(0..b) = IF 0 <= b THEN b - 0 + 1 ELSE 0
      BY <3>2, FS_Interval
    <3> QED BY <3>1, <3>2, <3>3
  <2> QED BY <1>2, <1>3, <2>1 DEF Push
<1>6. DOMAIN s = 0..(cap - 1) /\ s[pos] = h /\ \A q \in 0..(pos - 1) : s[q] = cache[q]
  BY <1>2, <1>3
<1> HIDE DEF s
<1>7. ASSUME NEW q \in f..pos PROVE s[q] = SubSeq(h, 1, q + 1)
  <2>1. CASE q = pos
    BY <1>6, <2>1, SubSeqFull
  <2>2. CASE q # pos
    <3>1. q \in f..(pos - 1) /\ q \in 0..(pos - 1) /\ q \in 0..pos
      BY <2>2
    <3>2. cache[q % cap] = SubSeq(h, 1, q + 1)
      BY <1>1, <1>2, <3>1 DEF Keeps
    <3> QED BY <1>4, <1>6, <3>1, <3>2
  <2> QED BY <2>1, <2>2
<1>8. Keeps(s, cap, f, pos + 1, h)
  <2> SUFFICES ASSUME NEW q \in f..(pos + 1 - 1) PROVE s[q % cap] = SubSeq(h, 1, q + 1)
    BY DEF Keeps
  <2>1. q \in f..pos /\ q \in 0..pos
    OBVIOUS
  <2> QED BY <1>4, <1>7, <2>1
<1>9. Attending(il, h, AttendedCpu(s, il, pos + 1)) = h
  <2>1. AttendedCpu(s, il, pos + 1) = [k \in 1..(pos + 1 - f) |-> s[f + k - 1]]
    BY <1>1 DEF AttendedCpu
  <2>2. Required(il, h) = [k \in 1..(pos + 1 - f) |-> SubSeq(h, 1, f + k)]
    BY <1>1 DEF Required
  <2>3. \A k \in 1..(pos + 1 - f) : s[f + k - 1] = SubSeq(h, 1, f + k)
    <3> TAKE k \in 1..(pos + 1 - f)
    <3>1. PICK q \in f..pos : q = f + k - 1
      OBVIOUS
    <3>2. q + 1 = f + k
      BY <3>1
    <3> QED BY <1>7, <3>1, <3>2
  <2>4. AttendedCpu(s, il, pos + 1) = Required(il, h)
    BY <2>1, <2>2, <2>3
  <2>5. h # <<>>
    OBVIOUS
  <2> QED BY <2>4, <2>5 DEF Attending, Bad
<1>10. Least(pos + 1, conf.cap[il]) = pos + 1
  BY <1>2, <1>3 DEF Least
<1>11. HostLayer(cache, pos, il, h)
         = [cache |-> s, n |-> pos + 1, out |-> Attending(il, h, AttendedCpu(s, il, pos + 1))]
  BY <1>5, <1>10 DEF HostLayer
<1>12. Holds(s, il, h)
  <2>1. FirstNeeded(il, pos + 1 + 1) \in Nat /\ f <= FirstNeeded(il, pos + 1 + 1)
    BY <1>1, FirstIs
  <2>2. Keeps(s, cap, FirstNeeded(il, pos + 1 + 1), pos + 1, h)
    BY <1>1, <1>8, <2>1, KeepsLess
  <2> QED BY <1>2, <2>2 DEF Holds
<1> QED BY <1>2, <1>6, <1>9, <1>11, <1>12 DEF Served

-----------------------------------------------------------------------------
(* What prompts stand for.                                                 *)

LEMMA PatchCount ==
  ASSUME NEW ts \in Seq(Tokens), NEW i \in 0..Len(ts)
  PROVE  /\ PatchesIn(ts, i) \in Nat
         /\ i > 0 /\ ts[i] = Patch => PatchesIn(ts, i) > 0
         /\ \A m \in i..Len(ts) :
              /\ PatchesIn(SubSeq(ts, 1, m), i) = PatchesIn(ts, i)
              /\ PatchesIn(ts, i) >= PatchesIn(ts, m) =>
                   \A k \in (i + 1)..m : ts[k] # Patch
<1> DEFINE P(k) == {j \in 1..k : ts[j] = Patch}
<1>0. Len(ts) \in Nat /\ i \in Nat
  OBVIOUS
<1>1. ASSUME NEW k \in 0..Len(ts) PROVE IsFiniteSet(P(k)) /\ Cardinality(P(k)) \in Nat
  <2>1. IsFiniteSet(1..k) /\ P(k) \subseteq 1..k
    BY <1>0, FS_Interval
  <2> QED BY <2>1, FS_Subset, FS_CardinalityType
<1>2. i > 0 /\ ts[i] = Patch => Cardinality(P(i)) > 0
  <2> SUFFICES ASSUME i > 0, ts[i] = Patch PROVE Cardinality(P(i)) > 0
    OBVIOUS
  <2>1. i \in P(i) /\ IsFiniteSet(P(i)) /\ Cardinality(P(i)) \in Nat
    BY <1>0, <1>1
  <2>2. Cardinality(P(i)) # 0
    BY <2>1, FS_EmptySet
  <2> QED BY <2>1, <2>2
<1>3. ASSUME NEW m \in i..Len(ts)
      PROVE  PatchesIn(SubSeq(ts, 1, m), i) = PatchesIn(ts, i)
  <2>1. m \in 0..Len(ts)
    BY <1>0
  <2>2. \A k \in 1..m : SubSeq(ts, 1, m)[k] = ts[k]
    BY <2>1, Prefix
  <2>3. {k \in 1..i : SubSeq(ts, 1, m)[k] = Patch} = {k \in 1..i : ts[k] = Patch}
    BY <1>0, <2>2
  <2> QED BY <2>3 DEF PatchesIn
<1>4. ASSUME NEW m \in i..Len(ts), Cardinality(P(i)) >= Cardinality(P(m)),
             NEW k \in (i + 1)..m
      PROVE  ts[k] # Patch
  <2>1. m \in 0..Len(ts) /\ P(i) \subseteq P(m)
    BY <1>0
  <2>2. IsFiniteSet(P(m)) /\ Cardinality(P(m)) \in Nat /\ Cardinality(P(i)) \in Nat
    BY <1>1, <2>1
  <2>3. P(i) = P(m)
    <3> DEFINE A == P(i)
               B == P(m)
    <3>1. A \subseteq B /\ IsFiniteSet(B) /\ Cardinality(A) >= Cardinality(B)
          /\ Cardinality(A) \in Nat /\ Cardinality(B) \in Nat
      BY <1>4, <2>1, <2>2
    <3> HIDE DEF A, B
    <3>2. Cardinality(A) <= Cardinality(B) /\ (Cardinality(A) = Cardinality(B) => A = B)
      BY <3>1, FS_Subset
    <3>3. A = B
      BY <3>1, <3>2
    <3> QED BY <3>3 DEF A, B
  <2>4. k \in 1..m /\ k \notin P(i)
    BY <1>0
  <2> QED BY <2>3, <2>4
<1>5. \A k : PatchesIn(ts, k) = Cardinality(P(k))
  BY DEF PatchesIn
<1> HIDE DEF P
<1> QED BY <1>0, <1>1, <1>2, <1>3, <1>4, <1>5

LEMMA PromptTyped ==
  ASSUME NEW p \in Prompts
  PROVE  /\ p.toks \in Seq(Tokens) /\ Len(p.toks) \in Nat
         /\ p.img \in Images \cup {NoImage}
         /\ \A i \in 1..Len(p.toks) : p.toks[i] = Patch => p.img \in Images /\ p.img # NoImage
  BY SessionAssumption

LEMMA MeaningTyped ==
  ASSUME NEW p \in Prompts
  PROVE  /\ Meaning(p) \in Seq(Stimuli) /\ Len(Meaning(p)) = Len(p.toks)
         /\ \A i \in 1..Len(p.toks) :
              Meaning(p)[i] = IF p.toks[i] = Patch THEN <<p.img, PatchesIn(p.toks, i)>>
                                                   ELSE <<p.toks[i], 0>>
<1>1. /\ p.toks \in Seq(Tokens) /\ Len(p.toks) \in Nat
      /\ \A i \in 1..Len(p.toks) : p.toks[i] = Patch => p.img \in Images
  BY PromptTyped
<1>2. \A i \in 1..Len(p.toks) : PatchesIn(p.toks, i) \in Nat /\ p.toks[i] \in Tokens
  BY <1>1, PatchCount
<1>3. Meaning(p) = [i \in 1..Len(p.toks) |->
                      IF p.toks[i] = Patch THEN <<p.img, PatchesIn(p.toks, i)>>
                                           ELSE <<p.toks[i], 0>>]
  BY <1>1 DEF Meaning
<1>4. \A i \in 1..Len(p.toks) : Meaning(p)[i] \in Stimuli
  BY <1>1, <1>2, <1>3 DEF Stimuli
<1>5. Meaning(p) \in [1..Len(p.toks) -> Stimuli]
  BY <1>3, <1>4
<1>6. Meaning(p) \in Seq(Stimuli) /\ Len(Meaning(p)) = Len(p.toks)
  BY <1>1, <1>5
<1> QED BY <1>3, <1>6

LEMMA PrefixMatches ==
  ASSUME NEW p \in Prompts, NEW m \in 0..Len(p.toks)
  PROVE  Matches(SubSeq(p.toks, 1, m), SubSeq(Meaning(p), 1, m))
<1>1. p.toks \in Seq(Tokens) /\ Len(p.toks) \in Nat
  BY PromptTyped
<1>2. /\ Meaning(p) \in Seq(Stimuli) /\ Len(Meaning(p)) = Len(p.toks)
      /\ \A i \in 1..Len(p.toks) :
           Meaning(p)[i] = IF p.toks[i] = Patch THEN <<p.img, PatchesIn(p.toks, i)>>
                                                ELSE <<p.toks[i], 0>>
  BY MeaningTyped
<1> DEFINE ts == SubSeq(p.toks, 1, m)
           h == SubSeq(Meaning(p), 1, m)
<1>3. ts \in Seq(Tokens) /\ Len(ts) = m /\ \A i \in 1..m : ts[i] = p.toks[i]
  BY <1>1, Prefix
<1>4. h \in Seq(Stimuli) /\ Len(h) = m /\ \A i \in 1..m : h[i] = Meaning(p)[i]
  BY <1>2, Prefix
<1>5. \A i \in 1..m : PatchesIn(ts, i) = PatchesIn(p.toks, i)
  BY <1>1, PatchCount
<1> HIDE DEF ts, h
<1>6. \A i \in 1..m : /\ h[i][2] = IF ts[i] = Patch THEN PatchesIn(ts, i) ELSE 0
                      /\ ts[i] # Patch => h[i][1] = ts[i]
  <2> SUFFICES ASSUME NEW i \in 1..m
               PROVE  /\ h[i][2] = IF ts[i] = Patch THEN PatchesIn(ts, i) ELSE 0
                      /\ ts[i] # Patch => h[i][1] = ts[i]
    OBVIOUS
  <2>1. i \in 1..Len(p.toks) /\ ts[i] = p.toks[i] /\ h[i] = Meaning(p)[i]
    BY <1>1, <1>3, <1>4
  <2>2. h[i] = IF ts[i] = Patch THEN <<p.img, PatchesIn(ts, i)>> ELSE <<ts[i], 0>>
    BY <1>2, <1>5, <2>1
  <2> QED BY <2>2
<1>7. Matches(ts, h)
  BY <1>3, <1>4, <1>6 DEF Matches
<1> QED BY <1>7 DEF ts, h

-----------------------------------------------------------------------------
(* Evaluations.                                                            *)

\* A device call that fails leaves caches of the same shape.
BrokenTyped(e) == \A r \in e.broken : RowsTyped(r)

LEMMA BrokenRows ==
  ASSUME RowsTyped(rows), NEW a, NEW b,
         DOMAIN a = 0..(conf.cap["full"] - 1), DOMAIN b = 0..(conf.cap["sliding"] - 1)
  PROVE  /\ RowsTyped([full |-> a, sliding |-> b])
         /\ \A r \in {rows, [rows EXCEPT !.full = a], [full |-> a, sliding |-> b]} : RowsTyped(r)
<1>1. RowsTyped([full |-> a, sliding |-> b])
  BY DEF RowsTyped, Layers
<1>2. RowsTyped([rows EXCEPT !.full = a])
  BY DEF RowsTyped, Layers
<1> QED BY <1>1, <1>2

LEMMA InputsAre ==
  ASSUME NEW p \in Prompts, NEW pos0 \in Nat, NEW c \in Nat, pos0 + c <= Len(p.toks),
         hist = SubSeq(Meaning(p), 1, pos0),
         proj = p.img \/ PatchFree(p, pos0)
  PROVE  LET h == SubSeq(Meaning(p), 1, pos0 + c)
         IN /\ Inputs(p, pos0, c) \in [1..c -> Seq(Stimuli)]
            /\ \A t \in 1..c : Inputs(p, pos0, c)[t] = SubSeq(h, 1, pos0 + t)
<1> DEFINE M == Meaning(p)
           h == SubSeq(M, 1, pos0 + c)
<1>1. M \in Seq(Stimuli) /\ Len(M) = Len(p.toks) /\ Len(M) \in Nat
  BY MeaningTyped, PromptTyped
<1> HIDE DEF M
<1>2. ASSUME NEW t \in 1..c
      PROVE  /\ hist \o SubSeq(M, pos0 + 1, pos0 + t) = SubSeq(h, 1, pos0 + t)
             /\ SubSeq(h, 1, pos0 + t) \in Seq(Stimuli)
             /\ ~\E i \in 1..t : p.toks[pos0 + i] = Patch /\ proj # p.img
  <2>1. PICK m \in pos0..Len(M) : m = pos0 + t
    BY <1>1
  <2>2. pos0 \in 0..Len(M) /\ pos0 + c \in 0..Len(M) /\ m \in 0..(pos0 + c)
    BY <1>1, <2>1
  <2>3. SubSeq(M, 1, pos0) \o SubSeq(M, pos0 + 1, m) = SubSeq(M, 1, m)
    BY <1>1, <2>2, PrefixGrows
  <2>4. SubSeq(h, 1, m) = SubSeq(M, 1, m)
    BY <1>1, <2>2, PrefixOfPrefix
  <2>5. SubSeq(M, 1, m) \in Seq(Stimuli)
    BY <1>1, <2>2, Prefix
  <2>6. ASSUME NEW i \in 1..t, p.toks[pos0 + i] = Patch, proj # p.img PROVE FALSE
    <3>1. pos0 + i \in (pos0 + 1)..Len(p.toks)
      BY PromptTyped
    <3> QED BY <2>6, <3>1 DEF PatchFree
  <2> QED BY <2>1, <2>3, <2>4, <2>5, <2>6 DEF M
<1>3. Inputs(p, pos0, c)
        = [t \in 1..c |->
             IF \E i \in 1..t : p.toks[pos0 + i] = Patch /\ proj # p.img
             THEN Bad ELSE hist \o SubSeq(M, pos0 + 1, pos0 + t)]
  BY DEF Inputs, M
<1> HIDE DEF h
<1>4. Inputs(p, pos0, c) = [t \in 1..c |-> SubSeq(h, 1, pos0 + t)]
  BY <1>2, <1>3
<1> QED BY <1>2, <1>4 DEF h, M

\* What RowsInv says of the caches before an evaluation, in the terms of it.
LEMMA HoldsBefore ==
  ASSUME NEW cache, NEW il \in Layers, NEW h \in Seq(Stimuli), NEW pos \in 0..Len(h),
         Holds(cache, il, SubSeq(h, 1, pos))
  PROVE  Keeps(cache, conf.cap[il], FirstNeeded(il, pos + 1), pos, h)
<1>1. Len(SubSeq(h, 1, pos)) = pos
  BY Prefix
<1>2. Keeps(cache, conf.cap[il], FirstNeeded(il, pos + 1), pos, SubSeq(h, 1, pos))
  BY <1>1 DEF Holds
<1>3. FirstNeeded(il, pos + 1) \in Nat
  BY FirstIs
<1> QED BY <1>2, <1>3, KeepsGrown

LEMMA ChunkServes ==
  ASSUME CheckpointTypes, RowsInv, valid, Cuda,
         NEW p \in Prompts, NEW pos0 \in Nat, NEW c \in Nat \ {0}, pos0 + c <= Len(p.toks),
         Len(p.toks) <= conf.ctx, c <= conf.prefill,
         hist = SubSeq(Meaning(p), 1, pos0),
         proj = p.img \/ PatchFree(p, pos0)
  PROVE  LET e == Chunk(p, pos0, c)
         IN /\ Evaluated(e, SubSeq(Meaning(p), 1, pos0 + c))
            /\ RowsTyped(e.rows) /\ BrokenTyped(e)
<1> DEFINE h == SubSeq(Meaning(p), 1, pos0 + c)
           hs == Inputs(p, pos0, c)
           d1 == PrefillLayer(rows.full, "full", hs, pos0)
           d2 == PrefillLayer(rows.sliding, "sliding", d1.out, pos0)
           both == [full |-> d1.cache, sliding |-> d2.cache]
<1>1. ConfOK /\ RowsTyped(rows) /\ conf.ctx \in Nat /\ "full" \in Layers /\ "sliding" \in Layers
  BY DEF CheckpointTypes, ConfOK, ConfFits, Layers
<1>2. Meaning(p) \in Seq(Stimuli) /\ Len(Meaning(p)) = Len(p.toks) /\ Len(p.toks) \in Nat
  BY MeaningTyped, PromptTyped
<1>3. pos0 + c \in 0..Len(Meaning(p)) /\ pos0 \in 0..(pos0 + c)
  BY <1>2
<1>4. h \in Seq(Stimuli) /\ Len(h) = pos0 + c /\ SubSeq(h, 1, pos0) = hist
  BY <1>2, <1>3, Prefix, PrefixOfPrefix
<1>5. hs \in [1..c -> Seq(Stimuli)] /\ \A t \in 1..c : hs[t] = SubSeq(h, 1, pos0 + t)
  BY InputsAre
<1>6. Chunk(p, pos0, c)
        = [rows |-> both, n |-> n, out |-> d2.out[c],
           broken |-> {rows, [rows EXCEPT !.full = d1.cache], both}]
  BY DEF Chunk
<1> HIDE DEF h, hs
<1>7. ASSUME NEW il \in Layers
      PROVE  /\ DOMAIN rows[il] = 0..(conf.cap[il] - 1)
             /\ Keeps(rows[il], conf.cap[il], FirstNeeded(il, pos0 + 1), pos0, h)
  <2>1. Holds(rows[il], il, SubSeq(h, 1, pos0)) /\ DOMAIN rows[il] = 0..(conf.cap[il] - 1)
    BY <1>1, <1>4 DEF RowsInv, RowsTyped
  <2>2. pos0 \in 0..Len(h)
    BY <1>4
  <2> QED BY <1>4, <2>1, <2>2, HoldsBefore
<1>8. pos0 + c = Len(h) /\ Len(h) <= conf.ctx
  BY <1>1, <1>2, <1>4
<1>9. /\ d1.out = hs /\ DOMAIN d1.cache = 0..(conf.cap["full"] - 1)
      /\ Holds(d1.cache, "full", h)
  <2>1. Served(d1, "full", h, hs)
    BY <1>1, <1>4, <1>5, <1>7, <1>8, PrefillServes
  <2> HIDE DEF d1
  <2> QED BY <2>1 DEF Served
<1> HIDE DEF d1
<1>10. /\ d2.out = hs /\ DOMAIN d2.cache = 0..(conf.cap["sliding"] - 1)
       /\ Holds(d2.cache, "sliding", h)
  <2>1. Served(PrefillLayer(rows.sliding, "sliding", hs, pos0), "sliding", h, hs)
    BY <1>1, <1>4, <1>5, <1>7, <1>8, PrefillServes
  <2>2. Served(d2, "sliding", h, hs)
    BY <1>9, <2>1
  <2> HIDE DEF d2
  <2> QED BY <2>2 DEF Served
<1> HIDE DEF d2
<1>11. both["full"] = d1.cache /\ both["sliding"] = d2.cache
  OBVIOUS
<1>12. RowsTyped(both) /\ \A r \in {rows, [rows EXCEPT !.full = d1.cache], both} : RowsTyped(r)
  BY <1>1, <1>9, <1>10, BrokenRows
<1>13. \A il \in Layers : Holds(both[il], il, h)
  BY <1>9, <1>10, <1>11 DEF Layers
<1> HIDE DEF both
<1>14. hs[c] = h
  <2>1. c \in 1..c /\ SubSeq(h, 1, pos0 + c) = h
    BY <1>4, SubSeqFull
  <2> QED BY <1>5, <2>1
<1>15. Evaluated(Chunk(p, pos0, c), h)
  BY <1>6, <1>10, <1>13, <1>14 DEF Evaluated
<1>16. RowsTyped(Chunk(p, pos0, c).rows) /\ BrokenTyped(Chunk(p, pos0, c))
  BY <1>6, <1>12 DEF BrokenTyped
<1> QED BY <1>15, <1>16 DEF h

LEMMA OneTokenServes ==
  ASSUME CheckpointTypes, RowsInv, valid, Len(toks) < conf.ctx, NEW x \in Stimuli
  PROVE  LET e == OneToken(x)
         IN /\ Evaluated(e, Append(hist, x))
            /\ RowsTyped(e.rows) /\ BrokenTyped(e)
<1> DEFINE h == Append(hist, x)
           pos == Len(toks)
           d1 == DecodeLayer(rows.full, "full", h, pos)
           d2 == DecodeLayer(rows.sliding, "sliding", d1.out, pos)
           both == [full |-> d1.cache, sliding |-> d2.cache]
           h1 == HostLayer(rows.full, n.full, "full", h)
           h2 == HostLayer(rows.sliding, n.sliding, "sliding", h1.out)
<1>1. ConfOK /\ RowsTyped(rows) /\ conf.ctx \in Nat /\ "full" \in Layers /\ "sliding" \in Layers
  BY DEF CheckpointTypes, ConfOK, ConfFits, Layers
<1>2. hist \in Seq(Stimuli) /\ Len(hist) = pos /\ pos \in Nat
  BY DEF CheckpointTypes, Matches
<1>3. h \in Seq(Stimuli) /\ Len(h) = pos + 1 /\ pos \in 0..Len(h) /\ SubSeq(h, 1, pos) = hist
  <2>1. <<x>> \in Seq(Stimuli) /\ h = hist \o <<x>>
    BY <1>2, AppendIsConcat
  <2>2. Len(hist) \in 0..Len(hist)
    BY <1>2
  <2>3. SubSeq(hist \o <<x>>, 1, Len(hist)) = SubSeq(hist, 1, Len(hist))
    BY <1>2, <2>1, <2>2, PrefixOfMore
  <2>4. SubSeq(hist, 1, Len(hist)) = hist
    BY <1>2, SubSeqFull
  <2> QED BY <1>2, <2>1, <2>3, <2>4
<1> HIDE DEF h
<1>4. ASSUME NEW il \in Layers
      PROVE  /\ DOMAIN rows[il] = 0..(conf.cap[il] - 1)
             /\ Keeps(rows[il], conf.cap[il], FirstNeeded(il, pos + 1), pos, h)
  <2>1. Holds(rows[il], il, SubSeq(h, 1, pos)) /\ DOMAIN rows[il] = 0..(conf.cap[il] - 1)
    BY <1>1, <1>3 DEF RowsInv, RowsTyped
  <2> QED BY <1>3, <2>1, HoldsBefore
<1>5. Len(h) <= conf.ctx
  BY <1>1, <1>2, <1>3
<1>6. CASE Cuda
  <2>1. OneToken(x)
          = [rows |-> both, n |-> n, out |-> d2.out,
             broken |-> {rows, [rows EXCEPT !.full = d1.cache], both}]
    BY <1>6 DEF OneToken, h
  <2>2. /\ d1.out = h /\ DOMAIN d1.cache = 0..(conf.cap["full"] - 1)
        /\ Holds(d1.cache, "full", h)
    <3>1. Served(d1, "full", h, h)
      BY <1>1, <1>2, <1>3, <1>4, <1>5, DecodeServes
    <3> HIDE DEF d1
    <3> QED BY <3>1 DEF Served
  <2> HIDE DEF d1
  <2>3. /\ d2.out = h /\ DOMAIN d2.cache = 0..(conf.cap["sliding"] - 1)
        /\ Holds(d2.cache, "sliding", h)
    <3>1. Served(DecodeLayer(rows.sliding, "sliding", h, pos), "sliding", h, h)
      BY <1>1, <1>2, <1>3, <1>4, <1>5, DecodeServes
    <3>2. Served(d2, "sliding", h, h)
      BY <2>2, <3>1
    <3> HIDE DEF d2
    <3> QED BY <3>2 DEF Served
  <2> HIDE DEF d2
  <2>4. RowsTyped(both) /\ \A r \in {rows, [rows EXCEPT !.full = d1.cache], both} : RowsTyped(r)
    BY <1>1, <2>2, <2>3, BrokenRows
  <2>5. \A il \in Layers : Holds(both[il], il, h)
    BY <2>2, <2>3 DEF Layers
  <2> HIDE DEF both
  <2>6. Evaluated(OneToken(x), h)
    BY <1>6, <2>1, <2>3, <2>5 DEF Evaluated
  <2>7. RowsTyped(OneToken(x).rows) /\ BrokenTyped(OneToken(x))
    BY <2>1, <2>4 DEF BrokenTyped
  <2> QED BY <2>6, <2>7 DEF h
<1>7. CASE ~Cuda
  <2> DEFINE r == [full |-> h1.cache, sliding |-> h2.cache]
  <2>1. OneToken(x)
          = [rows |-> r, n |-> [full |-> h1.n, sliding |-> h2.n], out |-> h2.out,
             broken |-> {}]
    BY <1>7 DEF OneToken, h
  <2>2. n.full = pos /\ n.sliding = pos
    BY <1>1, <1>7 DEF CheckpointTypes
  <2>3. /\ h1.out = h /\ h1.n = pos + 1 /\ DOMAIN h1.cache = 0..(conf.cap["full"] - 1)
        /\ Holds(h1.cache, "full", h)
    <3>1. LET d == HostLayer(rows.full, pos, "full", h)
          IN Served(d, "full", h, h) /\ d.n = pos + 1
      BY <1>1, <1>2, <1>3, <1>4, <1>5, <1>7, HostServes
    <3>2. Served(h1, "full", h, h) /\ h1.n = pos + 1
      BY <2>2, <3>1
    <3> HIDE DEF h1
    <3> QED BY <3>2 DEF Served
  <2> HIDE DEF h1
  <2>4. /\ h2.out = h /\ h2.n = pos + 1 /\ DOMAIN h2.cache = 0..(conf.cap["sliding"] - 1)
        /\ Holds(h2.cache, "sliding", h)
    <3>1. LET d == HostLayer(rows.sliding, pos, "sliding", h)
          IN Served(d, "sliding", h, h) /\ d.n = pos + 1
      BY <1>1, <1>2, <1>3, <1>4, <1>5, <1>7, HostServes
    <3>2. Served(h2, "sliding", h, h) /\ h2.n = pos + 1
      BY <2>2, <2>3, <3>1
    <3> HIDE DEF h2
    <3> QED BY <3>2 DEF Served
  <2> HIDE DEF h2
  <2>5. RowsTyped(r)
    BY <1>1, <2>3, <2>4, BrokenRows
  <2>6. \A il \in Layers : Holds(r[il], il, h)
    BY <2>3, <2>4 DEF Layers
  <2>7. [full |-> h1.n, sliding |-> h2.n] = [il \in Layers |-> Len(h)]
    BY <1>3, <2>3, <2>4 DEF Layers
  <2> HIDE DEF r
  <2>8. Evaluated(OneToken(x), h)
    BY <1>7, <2>1, <2>4, <2>6, <2>7 DEF Evaluated
  <2>9. RowsTyped(OneToken(x).rows) /\ BrokenTyped(OneToken(x))
    BY <2>1, <2>5 DEF BrokenTyped
  <2> QED BY <2>8, <2>9 DEF h
<1> QED BY <1>6, <1>7

-----------------------------------------------------------------------------
(* Capacities.                                                             *)

LEMMA SlidingCapFits ==
  ASSUME NEW ctx \in Contexts, NEW k \in Chunks
  PROVE  /\ SlidingCap(ctx, k) \in 1..ctx
         /\ SlidingCap(ctx, k) < ctx => Window <= SlidingCap(ctx, k)
<1>1. /\ Window \in Nat \ {0} /\ Align \in Nat \ {0} /\ SlidingMax \in Nat \ {0}
      /\ ctx \in Nat \ {0} /\ k \in Nat \ {0}
  BY SessionAssumption
<1> DEFINE win == Least(Window, ctx)
           wanted == Least(win + k, ctx)
           aligned == ((wanted + Align - 1) \div Align) * Align
<1>2. win \in Nat \ {0} /\ win <= ctx /\ (win = Window \/ win = ctx)
  BY <1>1 DEF Least
<1>3. wanted \in Nat
  BY <1>1, <1>2 DEF Least
<1>4. aligned \in Int
  <2>1. PICK x \in Nat : x = wanted + Align - 1
    BY <1>1, <1>3
  <2>2. x \div Align \in Nat
    BY <1>1, <2>1, DivMod
  <2> QED BY <1>1, <2>1, <2>2
<1>5. SlidingCap(ctx, k) = Most(Least(Least(aligned, ctx), SlidingMax), win)
  BY DEF SlidingCap
<1> HIDE DEF win, aligned
<1>6. PICK y \in Int : y = Least(Least(aligned, ctx), SlidingMax) /\ y <= ctx
  BY <1>1, <1>4 DEF Least
<1>7. PICK z : z = SlidingCap(ctx, k)
  OBVIOUS
<1>8. z \in 1..ctx /\ (z < ctx => Window <= z)
  BY <1>1, <1>2, <1>5, <1>6, <1>7 DEF Most
<1> QED BY <1>7, <1>8

LEMMA NewConfFits ==
  ASSUME NEW b \in Backends, NEW ctx \in Contexts, NEW k \in Chunks
  PROVE  ConfFits(NewConf(b, ctx, k)) /\ NewConf(b, ctx, k).backend = b
<1>1. Window \in Nat \ {0} /\ ctx \in Nat \ {0}
  BY SessionAssumption
<1>2. PICK cap : cap = IF b = "cuda" THEN SlidingCap(ctx, k) ELSE ctx
  OBVIOUS
<1>3. cap \in 1..ctx /\ (b # "cuda" => cap = ctx) /\ (cap < ctx => Window <= cap)
  BY <1>1, <1>2, SlidingCapFits
<1>4. PICK pre : pre = PrefillCap(ctx, cap)
  OBVIOUS
<1>5. pre \in 1..cap /\ (cap < ctx => pre + Window <= cap + 1)
  BY <1>1, <1>3, <1>4 DEF PrefillCap, Least
<1>6. NewConf(b, ctx, k) = [backend |-> b, ctx |-> ctx,
                            cap |-> [full |-> ctx, sliding |-> cap], prefill |-> pre]
  BY <1>2, <1>4 DEF NewConf
<1> QED BY <1>1, <1>3, <1>5, <1>6 DEF ConfFits

-----------------------------------------------------------------------------
(* Payloads.                                                               *)

LEMMA FunctionLen ==
  ASSUME NEW m \in Nat, NEW f, f = [k \in 1..m |-> f[k]]
  PROVE  Len(f) = m
<1>1. f \in [1..m -> {f[k] : k \in 1..m}]
  OBVIOUS
<1>2. f \in Seq({f[k] : k \in 1..m})
  BY <1>1
<1> QED BY <1>1, <1>2

LEMMA LiveRowsAre ==
  ASSUME CheckpointTypes, NEW il \in Layers
  PROVE  /\ LiveRows(il) \in 0..Len(toks) /\ LiveRows(il) <= conf.cap[il]
         /\ ~Cuda => LiveRows(il) = Len(toks) /\ n[il] = Len(toks)
         /\ LiveRows(il) < Len(toks) => LiveRows(il) = conf.cap[il] /\ conf.cap[il] < conf.ctx
<1>1. ConfOK /\ Len(toks) \in Nat /\ Len(toks) <= conf.ctx
      /\ (~Cuda => n[il] = Len(toks))
  BY DEF CheckpointTypes, Matches
<1>2. conf.cap[il] \in Nat \ {0} /\ conf.ctx \in Nat /\ conf.cap[il] <= conf.ctx
      /\ (~Cuda => conf.cap[il] = conf.ctx)
  BY <1>1, Caps
<1> QED BY <1>1, <1>2 DEF LiveRows, Least

LEMMA SavedRowsAre ==
  ASSUME CheckpointTypes, NEW il \in Layers
  PROVE  /\ DOMAIN SavedRows(il) = 1..LiveRows(il) /\ Len(SavedRows(il)) = LiveRows(il)
         /\ \A pos \in (Len(toks) - LiveRows(il))..(Len(toks) - 1) :
              SavedRows(il)[LiveRows(il) - (Len(toks) - pos) + 1]
                = rows[il][pos % conf.cap[il]]
<1>1. ConfOK /\ Len(toks) \in Nat /\ Len(toks) <= conf.ctx
  BY DEF CheckpointTypes, Matches
<1>2. PICK c \in 0..Len(toks) : c = LiveRows(il)
  BY LiveRowsAre
<1>3. ~Cuda => c = Len(toks) /\ n[il] = Len(toks)
  BY <1>2, LiveRowsAre
<1>4. SavedRows(il) = [k \in 1..c |->
        IF Cuda THEN rows[il][(Len(toks) - c + k - 1) % conf.cap[il]]
                ELSE rows[il][n[il] - c + k - 1]]
  BY <1>2 DEF SavedRows
<1>5. Len(SavedRows(il)) = c /\ DOMAIN SavedRows(il) = 1..c
  BY <1>1, <1>4, FunctionLen
<1>6. ASSUME NEW pos \in (Len(toks) - c)..(Len(toks) - 1)
      PROVE  SavedRows(il)[c - (Len(toks) - pos) + 1] = rows[il][pos % conf.cap[il]]
  <2>1. PICK k \in 1..c : k = c - (Len(toks) - pos) + 1
    BY <1>1
  <2>2. Len(toks) - c + k - 1 = pos /\ pos \in Nat /\ pos < conf.ctx
    BY <1>1, <2>1, Caps
  <2>3. CASE Cuda
    BY <1>4, <2>1, <2>2, <2>3
  <2>4. CASE ~Cuda
    <3>1. n[il] - c + k - 1 = pos
      BY <1>3, <2>2, <2>4
    <3>2. pos % conf.cap[il] = pos
      BY <1>1, <2>2, <2>4, SlotIs
    <3> QED BY <1>4, <2>1, <2>4, <3>1, <3>2
  <2> QED BY <2>3, <2>4
<1> QED BY <1>2, <1>5, <1>6

\* What is saved while the checkpoint is valid is complete, and fits back.
LEMMA SavedComplete ==
  ASSUME CheckpointTypes, RowsInv, valid
  PROVE  PayloadInv(Saved) /\ Loadable(Saved) /\ Saved # NoFile
<1>1. /\ ConfOK /\ Matches(toks, hist) /\ Len(toks) \in Nat /\ Len(hist) = Len(toks)
      /\ Len(toks) <= conf.ctx
  BY DEF CheckpointTypes, Matches
<1>2. /\ Saved.kind = "saved" /\ Saved.toks = toks /\ Saved.hist = hist
      /\ DOMAIN Saved.rows = Layers /\ \A il \in Layers : Saved.rows[il] = SavedRows(il)
  BY DEF Saved
<1> HIDE DEF Saved
<1>3. ASSUME NEW il \in Layers
      PROVE  LayerSaved(SavedRows(il), il, hist) /\ Len(SavedRows(il)) <= conf.cap[il]
  <2>1. PICK c \in 0..Len(toks) : c = LiveRows(il)
    BY LiveRowsAre
  <2>2. /\ ~Cuda => c = Len(toks)
        /\ c <= conf.cap[il]
        /\ c < Len(toks) => c = conf.cap[il] /\ conf.cap[il] < conf.ctx
    BY <2>1, LiveRowsAre
  <2>3. DOMAIN SavedRows(il) = 1..c /\ Len(SavedRows(il)) = c
    BY <2>1, SavedRowsAre
  <2>4. ASSUME NEW pos \in FirstNeeded(il, Len(hist) + 1)..(Len(hist) - 1)
        PROVE  LET k == c - (Len(hist) - pos) + 1
               IN k >= 1 /\ SavedRows(il)[k] = SubSeq(hist, 1, pos + 1)
    <3>1. PICK f \in Nat : f = FirstNeeded(il, Len(toks) + 1)
      BY <1>1, FirstIs
    <3>2. f \in Nat /\ (il = "sliding" => Len(toks) + 1 <= f + Window) /\ Window \in Nat
      BY <1>1, <3>1, FirstIs
    <3>3. c < Len(toks) => il = "sliding" /\ Window <= c
      BY <1>1, <2>2, Caps
    <3>4. pos \in f..(Len(toks) - 1)
      BY <1>1, <3>1
    <3>5. pos \in (Len(toks) - c)..(Len(toks) - 1)
      BY <1>1, <3>2, <3>3, <3>4
    <3>6. SavedRows(il)[c - (Len(toks) - pos) + 1] = rows[il][pos % conf.cap[il]]
      BY <2>1, <3>5, SavedRowsAre
    <3>7. rows[il][pos % conf.cap[il]] = SubSeq(hist, 1, pos + 1)
      BY DEF RowsInv, Holds, Keeps
    <3> QED BY <1>1, <3>5, <3>6, <3>7
  <2> QED BY <1>1, <2>2, <2>3, <2>4 DEF LayerSaved
<1>4. PayloadInv(Saved)
  BY <1>1, <1>2, <1>3 DEF PayloadInv
<1>5. Loadable(Saved)
  BY <1>1, <1>2, <1>3 DEF Loadable
<1> QED BY <1>2, <1>4, <1>5 DEF NoFile

\* The rows of a payload, written back to where their positions belong.
LEMMA RestoredHolds ==
  ASSUME ConfOK, RowsTyped(rows), NEW il \in Layers, NEW f, PayloadInv(f), f # NoFile,
         Loadable(f)
  PROVE  LET r == Restored(il, f.rows[il], Len(f.toks))
         IN DOMAIN r = 0..(conf.cap[il] - 1) /\ Holds(r, il, f.hist)
<1> DEFINE saved == f.rows[il]
           r == Restored(il, saved, Len(f.toks))
<1>0. Matches(f.toks, f.hist) /\ LayerSaved(saved, il, f.hist)
  BY DEF PayloadInv
<1>1. Len(f.toks) \in Nat /\ Len(f.hist) = Len(f.toks)
  BY <1>0 DEF Matches
<1>2. PICK len \in Nat : len = Len(f.toks)
  BY <1>1
<1>3. PICK c \in 0..len : c = Len(saved)
  BY <1>0, <1>1, <1>2 DEF LayerSaved
<1>4. /\ ~Cuda => c = len
      /\ \A pos \in FirstNeeded(il, len + 1)..(len - 1) :
           c - (len - pos) + 1 >= 1 /\ saved[c - (len - pos) + 1] = SubSeq(f.hist, 1, pos + 1)
  BY <1>0, <1>1, <1>2, <1>3 DEF LayerSaved
<1>5. len <= conf.ctx /\ c <= conf.cap[il]
  BY <1>2, <1>3 DEF Loadable
<1>6. DOMAIN rows[il] = 0..(conf.cap[il] - 1)
  BY DEF RowsTyped
<1> DEFINE slot(k) == IF Cuda THEN (len - c + k - 1) % conf.cap[il] ELSE k - 1
<1>7. r = [i \in DOMAIN rows[il] |->
             IF \E k \in 1..c : slot(k) = i
             THEN saved[CHOOSE k \in 1..c : slot(k) = i] ELSE rows[il][i]]
  BY <1>2, <1>3 DEF Restored
<1> HIDE DEF saved, r
<1>8. ASSUME NEW k \in 1..c PROVE slot(k) = (len - c + k - 1) % conf.cap[il]
  <2>1. CASE Cuda
    BY <2>1
  <2>2. CASE ~Cuda
    <3>1. PICK q \in Nat : q = k - 1
      OBVIOUS
    <3>2. len - c + k - 1 = q /\ q < conf.ctx
      BY <1>4, <1>5, <2>2, <3>1, Caps
    <3>3. q % conf.cap[il] = q
      BY <2>2, <3>2, SlotIs
    <3> QED BY <2>2, <3>1, <3>2, <3>3
  <2> QED BY <2>1, <2>2
<1>9. PICK first \in Nat : first = len - c
  OBVIOUS
<1>10. Fits(il, first, len)
  BY <1>5, <1>9 DEF Fits
<1>11. ASSUME NEW k \in 1..c, NEW j \in 1..c, slot(k) = slot(j) PROVE k = j
  <2>1. PICK a \in first..(len - 1) : a = len - c + k - 1
    BY <1>9
  <2>2. PICK b \in first..(len - 1) : b = len - c + j - 1
    BY <1>9
  <2>3. a % conf.cap[il] = b % conf.cap[il]
    BY <1>8, <1>11, <2>1, <2>2
  <2>4. a = b
    BY <1>10, <2>3, SlotsDiffer
  <2> QED BY <2>1, <2>2, <2>4
<1>12. ASSUME NEW pos \in FirstNeeded(il, len + 1)..(len - 1)
       PROVE  r[pos % conf.cap[il]] = SubSeq(f.hist, 1, pos + 1)
  <2>1. FirstNeeded(il, len + 1) \in Nat
    BY FirstIs
  <2>2. pos \in Nat /\ pos % conf.cap[il] \in DOMAIN rows[il]
    BY <1>6, <2>1, SlotIs
  <2>3. PICK k \in 1..c : k = c - (len - pos) + 1
    BY <1>4, <2>2
  <2>4. slot(k) = pos % conf.cap[il]
    <3>1. len - c + k - 1 = pos
      BY <2>2, <2>3
    <3> QED BY <1>8, <3>1
  <2> HIDE DEF slot
  <2>5. (CHOOSE j \in 1..c : slot(j) = pos % conf.cap[il]) = k
    BY <1>11, <2>4
  <2>6. r[pos % conf.cap[il]] = saved[k]
    BY <1>7, <2>2, <2>4, <2>5
  <2> QED BY <1>4, <2>3, <2>6
<1>13. Holds(r, il, f.hist)
  BY <1>1, <1>2, <1>12 DEF Holds, Keeps
<1> QED BY <1>6, <1>7, <1>13 DEF r, saved

-----------------------------------------------------------------------------
(* Where a sync starts.                                                    *)

\* sf37_session_common_prefix.
LEMMA CommonPrefixIs ==
  ASSUME toks \in Seq(Tokens), NEW p \in Prompts
  PROVE  /\ CommonPrefix(p) \in 0..Len(p.toks) /\ CommonPrefix(p) <= Len(toks)
         /\ \A i \in 1..CommonPrefix(p) : toks[i] = p.toks[i]
<1>1. p.toks \in Seq(Tokens) /\ Len(p.toks) \in Nat /\ Len(toks) \in Nat
  BY PromptTyped
<1>2. PICK L : L = Least(Len(toks), Len(p.toks))
  OBVIOUS
<1>3. L \in Nat /\ L <= Len(toks) /\ L <= Len(p.toks)
  BY <1>1, <1>2, Least2
<1> DEFINE Ends(k) == k = L \/ toks[k + 1] # p.toks[k + 1]
           Common(k) == (\A i \in 1..k : toks[i] = p.toks[i]) /\ Ends(k)
           S == {k \in 0..L : Ends(k)}
<1>4. \E k \in 0..L : Common(k)
  <2>1. S \subseteq Nat /\ S # {}
    BY <1>3
  <2> HIDE DEF S
  <2>2. PICK k \in S : \A w \in S : ~(<<w, k>> \in OpToRel(<, Nat))
    <3>1. IsWellFoundedOn(OpToRel(<, Nat), Nat)
      BY NatLessThanWellFounded
    <3> QED BY <2>1, <3>1, WFMin
  <2>3. \A w \in S : ~(w < k)
    BY <2>1, <2>2 DEF OpToRel
  <2>4. k \in 0..L /\ Ends(k)
    BY DEF S
  <2>5. ASSUME NEW i \in 1..k PROVE toks[i] = p.toks[i]
    <3>1. PICK j \in 0..L : j = i - 1
      BY <1>3, <2>4
    <3>2. j < k /\ j \notin S /\ j # L /\ j + 1 = i
      BY <1>3, <2>3, <2>4, <3>1
    <3> QED BY <3>1, <3>2 DEF S
  <2> QED BY <2>4, <2>5
<1>5. CASE ~valid
  BY <1>1, <1>5 DEF CommonPrefix
<1>6. CASE valid
  <2>1. CommonPrefix(p) = CHOOSE k \in 0..L : Common(k)
    BY <1>2, <1>6 DEF CommonPrefix
  <2> HIDE DEF Common
  <2>2. PICK k \in 0..L : k = CommonPrefix(p) /\ Common(k)
    BY <1>4, <2>1
  <2>3. \A i \in 1..k : toks[i] = p.toks[i]
    BY <2>2 DEF Common
  <2> QED BY <1>1, <1>3, <2>2, <2>3
<1> QED BY <1>5, <1>6

\* What a sync keeps is the front of its prompt, images included.
LEMMA KeptPrefix ==
  ASSUME CheckpointTypes, SigInv, NEW p \in Prompts, ~StartsOver(p, CommonPrefix(p))
  PROVE  /\ valid /\ CommonPrefix(p) = Len(toks) /\ Len(toks) <= Len(p.toks)
         /\ toks = SubSeq(p.toks, 1, Len(toks)) /\ hist = SubSeq(Meaning(p), 1, Len(toks))
         /\ p.img = NoImage \/ sig = p.img
<1>1. p.toks \in Seq(Tokens) /\ Len(p.toks) \in Nat
  BY PromptTyped
<1>2. /\ toks \in Seq(Tokens) /\ hist \in Seq(Stimuli) /\ Len(hist) = Len(toks)
      /\ Len(toks) \in Nat
      /\ \A i \in 1..Len(toks) : hist[i][2] = IF toks[i] = Patch THEN PatchesIn(toks, i) ELSE 0
      /\ \A i \in 1..Len(toks) : toks[i] # Patch => hist[i][1] = toks[i]
  BY DEF CheckpointTypes, Matches
<1>3. /\ valid /\ Len(toks) <= CommonPrefix(p) /\ (p.img = NoImage \/ sig = p.img)
  <2>1. CommonPrefix(p) \in Int
    BY <1>2, CommonPrefixIs
  <2> QED BY <1>2, <2>1 DEF StartsOver, SameSignature
<1>4. /\ CommonPrefix(p) = Len(toks) /\ Len(toks) <= Len(p.toks)
      /\ \A i \in 1..Len(toks) : toks[i] = p.toks[i]
  BY <1>1, <1>2, <1>3, CommonPrefixIs
<1>5. PICK m \in 0..Len(p.toks) : m = Len(toks)
  BY <1>1, <1>2, <1>4
<1>6. SubSeq(p.toks, 1, m) \in Seq(Tokens) /\ Len(SubSeq(p.toks, 1, m)) = m
      /\ \A i \in 1..m : SubSeq(p.toks, 1, m)[i] = p.toks[i]
  BY <1>1, Prefix
<1>7. toks = SubSeq(p.toks, 1, m)
  BY <1>2, <1>4, <1>5, <1>6, SeqEqual
<1>8. /\ Meaning(p) \in Seq(Stimuli) /\ Len(Meaning(p)) = Len(p.toks)
      /\ \A i \in 1..Len(p.toks) :
           Meaning(p)[i] = IF p.toks[i] = Patch THEN <<p.img, PatchesIn(p.toks, i)>>
                                                ELSE <<p.toks[i], 0>>
  BY MeaningTyped
<1>9. SubSeq(Meaning(p), 1, m) \in Seq(Stimuli) /\ Len(SubSeq(Meaning(p), 1, m)) = m
      /\ \A i \in 1..m : SubSeq(Meaning(p), 1, m)[i] = Meaning(p)[i]
  BY <1>8, Prefix
<1>10. ASSUME NEW i \in 1..m PROVE hist[i] = Meaning(p)[i]
  <2>1. toks[i] = p.toks[i] /\ i \in 1..Len(toks) /\ i \in 1..Len(p.toks) /\ i \in 0..Len(p.toks)
        /\ m \in i..Len(p.toks)
    BY <1>1, <1>4, <1>5
  <2>2. hist[i] \in Stimuli
    BY <1>2, <2>1, ElementOfSeq
  <2>3. hist[i] = <<hist[i][1], hist[i][2]>>
    BY <2>2 DEF Stimuli
  <2>4. CASE toks[i] = Patch
    <3>1. PatchesIn(toks, i) = PatchesIn(p.toks, i)
      BY <1>1, <1>7, <2>1, PatchCount
    <3>2. p.img # NoImage
      BY <2>1, <2>4, PromptTyped
    <3>3. hist[i][1] = p.img
      BY <1>3, <2>1, <2>4, <3>2 DEF SigInv
    <3>4. Meaning(p)[i] = <<p.img, PatchesIn(p.toks, i)>>
      BY <1>8, <2>1, <2>4
    <3>5. hist[i][2] = PatchesIn(p.toks, i)
      BY <1>2, <2>1, <2>4, <3>1
    <3> QED BY <2>3, <3>3, <3>4, <3>5
  <2>5. CASE toks[i] # Patch
    <3>1. Meaning(p)[i] = <<toks[i], 0>>
      BY <1>8, <2>1, <2>5
    <3>2. hist[i][1] = toks[i] /\ hist[i][2] = 0
      BY <1>2, <2>1, <2>5
    <3> QED BY <2>3, <3>1, <3>2
  <2> QED BY <2>4, <2>5
<1>11. hist = SubSeq(Meaning(p), 1, m)
  BY <1>2, <1>5, <1>9, <1>10, SeqEqual
<1> QED BY <1>3, <1>4, <1>5, <1>7, <1>11

\* What is left of the prompt is evaluated in chunks that fit, with its own
\* features on the device if it needs them, or token by token without patches.
LEMMA ModesFit ==
  ASSUME ConfOK, NEW p \in Prompts, NEW kept \in 0..Len(p.toks),
         NEW mode \in SyncModes(p, kept), mode.pc # "error"
  PROVE  /\ mode.pc \in {"batch", "token"} /\ mode.cap \in Nat
         /\ mode.pc = "batch" => /\ Cuda /\ mode.cap \in 1..conf.prefill
                                 /\ mode.proj = p.img \/ PatchFree(p, kept)
         /\ mode.pc = "token" => PatchFree(p, kept)
<1>1. p.toks \in Seq(Tokens) /\ Len(p.toks) \in Nat /\ Chunks \subseteq Nat \ {0}
  BY PromptTyped, SessionAssumption
<1>2. conf.prefill \in Nat \ {0}
  <2>1. "full" \in Layers
    BY DEF Layers
  <2> QED BY <2>1, Caps
<1> DEFINE suffix == Len(p.toks) - kept
           images == PatchesIn(p.toks, Len(p.toks)) > PatchesIn(p.toks, kept)
           caps == IF Cuda /\ suffix > 0 /\ suffix >= ResumeMin
                   THEN ChunkCaps(suffix) ELSE {0}
           error == [pc |-> "error", cap |-> 0, proj |-> NoImage]
           made(c) == IF c > 0 THEN [pc |-> "batch", cap |-> c, proj |-> Prepared(p, images)]
                      ELSE IF images THEN [error EXCEPT !.proj = proj]
                      ELSE [pc |-> "token", cap |-> 0, proj |-> proj]
<1>3. PICK c \in caps : mode = made(c)
  BY DEF SyncModes
<1>4. c \in Nat /\ (c > 0 => Cuda /\ c <= conf.prefill)
  <2>1. suffix \in Nat
    BY <1>1
  <2> HIDE DEF suffix
  <2>2. CASE c \in ChunkCaps(suffix) /\ Cuda
    <3>1. CASE c = 0
      BY <1>2, <3>1
    <3>2. CASE c # 0
      <4>1. PICK d \in Chunks \cup {suffix} : c = Least(Least(d, conf.prefill), suffix)
        BY <2>2, <3>2 DEF ChunkCaps
      <4>2. d \in Nat
        BY <1>1, <2>1, <4>1
      <4> QED BY <1>2, <2>1, <2>2, <4>1, <4>2 DEF Least
    <3> QED BY <3>1, <3>2
  <2>3. CASE c = 0
    BY <1>2, <2>3
  <2> QED BY <2>2, <2>3
<1>5. ~images => PatchFree(p, kept)
  <2>1. PatchesIn(p.toks, kept) \in Nat /\ PatchesIn(p.toks, Len(p.toks)) \in Nat
    BY <1>1, PatchCount
  <2>2. Len(p.toks) \in kept..Len(p.toks)
    BY <1>1
  <2>3. PatchesIn(p.toks, kept) >= PatchesIn(p.toks, Len(p.toks)) =>
          \A i \in (kept + 1)..Len(p.toks) : p.toks[i] # Patch
    BY <1>1, <2>2, PatchCount
  <2> QED BY <2>1, <2>3 DEF PatchFree
<1> HIDE DEF images, caps
<1>6. CASE c > 0
  BY <1>3, <1>4, <1>5, <1>6 DEF Prepared
<1>7. CASE c = 0
  BY <1>3, <1>5, <1>7
<1> QED BY <1>4, <1>6, <1>7

\* A round of the loop leaves what its prompt stands for so far.
After(t) == t.pos + (IF t.pc = "batch" THEN ChunkAt(t) ELSE 1)

LEMMA RoundServes ==
  ASSUME SessionInv, task.pc \in {"batch", "token"}, task.pos < Len(task.p.toks)
  PROVE  LET p == task.p
             m == After(task)
         IN /\ m \in (task.pos + 1)..Len(p.toks)
            /\ Evaluated(Round(task), SubSeq(Meaning(p), 1, m))
            /\ RowsTyped(Round(task).rows) /\ BrokenTyped(Round(task))
            /\ toks \o SubSeq(p.toks, task.pos + 1, m) = SubSeq(p.toks, 1, m)
            /\ hist \o SubSeq(Meaning(p), task.pos + 1, m) = SubSeq(Meaning(p), 1, m)
<1>0. task # NoTask
  BY DEF NoTask
<1>1. /\ task \in [pc : {"batch", "token"}, cap : Nat, p : Prompts, start : Nat, pos : Nat]
      /\ CheckpointTypes /\ RowsInv /\ TaskInv /\ ConfOK
  BY <1>0 DEF SessionInv, CheckpointInv, CheckpointTypes, CallInv, CallTypes
<1>2. PICK p \in Prompts : p = task.p
  BY <1>1
<1>3. PICK pos \in Nat : pos = task.pos
  BY <1>1
<1>4. p.toks \in Seq(Tokens) /\ Len(p.toks) \in Nat /\ Meaning(p) \in Seq(Stimuli)
      /\ Len(Meaning(p)) = Len(p.toks)
  BY PromptTyped, MeaningTyped
<1>5. /\ valid /\ task.start \in Nat /\ task.start <= pos /\ pos < Len(p.toks)
      /\ Len(p.toks) <= conf.ctx
      /\ toks = SubSeq(p.toks, 1, pos) /\ hist = SubSeq(Meaning(p), 1, pos)
      /\ task.pc = "batch" => /\ Cuda /\ task.cap \in 1..conf.prefill
                              /\ proj = p.img \/ PatchFree(p, task.start)
      /\ task.pc = "token" => PatchFree(p, task.start)
  BY <1>0, <1>1, <1>2, <1>3 DEF TaskInv
<1>6. pos \in 0..Len(p.toks) /\ Len(toks) = pos /\ (PatchFree(p, task.start) => PatchFree(p, pos))
  <2>1. pos \in 0..Len(p.toks)
    BY <1>4, <1>5
  <2>2. Len(toks) = pos
    BY <1>4, <1>5, <2>1, Prefix
  <2>3. PatchFree(p, task.start) => PatchFree(p, pos)
    BY <1>4, <1>5 DEF PatchFree
  <2> QED BY <2>1, <2>2, <2>3
<1>7. PICK m : m = After(task)
  OBVIOUS
<1>8. m \in (pos + 1)..Len(p.toks) /\ (task.pc = "batch" => m - pos <= conf.prefill)
  <2>1. CASE task.pc = "batch"
    <3>1. conf.prefill \in Nat /\ task.cap \in Nat \ {0} /\ task.cap <= conf.prefill
      BY <1>1, <1>5, <2>1 DEF ConfOK, ConfFits
    <3>2. pos % task.cap \in 0..(task.cap - 1)
      BY <3>1, DivMod
    <3>3. ChunkAt(task) \in 1..(Len(p.toks) - pos) /\ ChunkAt(task) <= task.cap
      <4>1. PICK c : c = Least(Len(p.toks) - pos, task.cap)
        OBVIOUS
      <4>2. c \in 1..(Len(p.toks) - pos) /\ c <= task.cap
        BY <1>4, <1>5, <3>1, <4>1 DEF Least
      <4>3. PICK d : d = task.cap - (pos % task.cap)
        OBVIOUS
      <4>4. d \in Nat \ {0}
        BY <3>1, <3>2, <4>3
      <4>5. Least(c, d) \in 1..c
        BY <4>2, <4>4 DEF Least
      <4>6. ChunkAt(task) \in {c, Least(c, d)}
        BY <1>2, <1>3, <4>1, <4>3 DEF ChunkAt
      <4> QED BY <1>4, <3>1, <4>2, <4>5, <4>6
    <3>4. m = pos + ChunkAt(task)
      BY <1>3, <1>7, <2>1 DEF After
    <3> QED BY <1>4, <3>1, <3>3, <3>4
  <2>2. CASE task.pc = "token"
    BY <1>3, <1>4, <1>5, <1>7, <2>2 DEF After
  <2> QED BY <2>1, <2>2
<1>9. toks \o SubSeq(p.toks, pos + 1, m) = SubSeq(p.toks, 1, m)
  BY <1>4, <1>5, <1>6, <1>8, PrefixGrows
<1>10. hist \o SubSeq(Meaning(p), pos + 1, m) = SubSeq(Meaning(p), 1, m)
  BY <1>4, <1>5, <1>6, <1>8, PrefixGrows
<1>11. CASE task.pc = "batch"
  <2>1. PICK c \in Nat \ {0} : c = m - pos
    BY <1>8
  <2>2. c = ChunkAt(task) /\ pos + c = m /\ c <= conf.prefill /\ pos + c <= Len(p.toks)
    <3>1. m = pos + ChunkAt(task)
      BY <1>3, <1>7, <1>11 DEF After
    <3>2. ChunkAt(task) \in Int
      BY <1>1, <1>2, <1>3, <1>4, <1>5, <1>11 DEF ChunkAt, Least
    <3> QED BY <1>4, <1>8, <1>11, <2>1, <3>1, <3>2
  <2>3. Cuda /\ (proj = p.img \/ PatchFree(p, pos))
    BY <1>5, <1>6, <1>11
  <2>4. /\ Evaluated(Chunk(p, pos, c), SubSeq(Meaning(p), 1, pos + c))
        /\ RowsTyped(Chunk(p, pos, c).rows) /\ BrokenTyped(Chunk(p, pos, c))
    BY <1>1, <1>5, <2>2, <2>3, ChunkServes
  <2>5. Round(task) = Chunk(p, pos, c)
    BY <1>2, <1>3, <1>11, <2>2 DEF Round
  <2> QED BY <1>2, <1>3, <1>7, <1>8, <1>9, <1>10, <2>2, <2>4, <2>5
<1>12. CASE task.pc = "token"
  <2>1. m = pos + 1
    BY <1>3, <1>7, <1>12 DEF After
  <2>2. pos + 1 \in 1..Len(p.toks) /\ p.toks[pos + 1] # Patch
    <3>1. PatchFree(p, pos)
      BY <1>5, <1>6, <1>12
    <3>2. pos + 1 \in (pos + 1)..Len(p.toks) /\ pos + 1 \in 1..Len(p.toks)
      BY <1>4, <1>5
    <3> QED BY <3>1, <3>2 DEF PatchFree
  <2>3. PICK x : x = <<p.toks[pos + 1], 0>>
    OBVIOUS
  <2>4. Meaning(p)[pos + 1] = x /\ x \in Stimuli
    <3>1. Meaning(p)[pos + 1] = x
      BY <2>2, <2>3, MeaningTyped
    <3>2. Meaning(p)[pos + 1] \in Stimuli
      BY <1>4, <2>2, ElementOfSeq
    <3> QED BY <3>1, <3>2
  <2>5. SubSeq(Meaning(p), pos + 1, m) = <<x>>
    <3>1. PICK M \in Seq(Stimuli) : M = Meaning(p)
      BY <1>4
    <3>2. SubSeq(M, m, m) = [i \in 1..(m - m + 1) |-> M[m + i - 1]]
      BY <2>1
    <3>3. m - m + 1 = 1 /\ \A i \in 1..1 : m + i - 1 = m
      BY <1>8
    <3>4. SubSeq(M, m, m) = <<M[m]>>
      BY <3>2, <3>3
    <3> QED BY <2>1, <2>4, <3>1, <3>4
  <2>6. Append(hist, x) = SubSeq(Meaning(p), 1, m)
    <3>1. hist \in Seq(Stimuli)
      BY <1>1 DEF CheckpointTypes, Matches
    <3>2. Append(hist, x) = hist \o <<x>>
      BY <2>4, <3>1, AppendIsConcat
    <3> QED BY <1>10, <2>5, <3>2
  <2>7. Len(toks) < conf.ctx
    <3>1. conf.ctx \in Nat
      BY <1>1 DEF ConfOK, ConfFits
    <3> QED BY <1>4, <1>5, <1>6, <3>1
  <2>8. /\ Evaluated(OneToken(x), Append(hist, x))
        /\ RowsTyped(OneToken(x).rows) /\ BrokenTyped(OneToken(x))
    BY <1>1, <1>5, <2>4, <2>7, OneTokenServes
  <2>9. Round(task) = OneToken(x)
    BY <1>2, <1>3, <1>12, <2>3 DEF Round
  <2> QED BY <1>2, <1>3, <1>7, <1>8, <1>9, <1>10, <2>6, <2>8, <2>9
<1> QED BY <1>11, <1>12

-----------------------------------------------------------------------------
(* The steps of the invariant.                                             *)

\* session_reset and a new session: nothing is attended to before it is stored.
Empty ==
  /\ toks = <<>> /\ hist = <<>>
  /\ valid = TRUE
  /\ sig = NoImage
  /\ rows = EmptyRows(conf)
  /\ Cuda \/ n = NoRows

LEMMA EmptyServes == ConfOK /\ Empty => CheckpointInv
<1> SUFFICES ASSUME ConfOK, Empty PROVE CheckpointInv
  OBVIOUS
<1>1. /\ toks = <<>> /\ hist = <<>> /\ valid = TRUE /\ sig = NoImage
      /\ rows = EmptyRows(conf) /\ (Cuda \/ n = NoRows)
  BY DEF Empty
<1>2. Matches(toks, hist)
  BY <1>1 DEF Matches
<1>3. conf.ctx \in Nat /\ Len(toks) = 0 /\ Len(hist) = 0
  BY <1>1 DEF ConfOK, ConfFits
<1>4. RowsTyped(rows)
  BY <1>1 DEF RowsTyped, EmptyRows
<1>5. ~Cuda => n = [il \in Layers |-> Len(toks)]
  BY <1>1, <1>3 DEF NoRows
<1>6. CheckpointTypes
  BY <1>1, <1>2, <1>3, <1>4, <1>5 DEF CheckpointTypes
<1>7. RowsInv
  <2> SUFFICES ASSUME NEW il \in Layers PROVE Holds(rows[il], il, hist)
    BY DEF RowsInv
  <2>1. FirstNeeded(il, Len(hist) + 1) \in Nat
    BY <1>3, FirstIs
  <2> QED BY <1>3, <2>1 DEF Holds, Keeps
<1> QED BY <1>1, <1>6, <1>7 DEF CheckpointInv, SigInv

LEMMA EmptyServesNext == ConfOK' /\ Empty' => CheckpointInv'
  BY EmptyServes, PTL

LEMMA ResetServes ==
  ASSUME ConfOK, conf' = conf, Reset
  PROVE  CheckpointInv'
<1>1. ConfOK'
  BY DEF ConfOK, ConfFits
<1>2. Empty'
  BY DEF Empty, Reset, Cuda, EmptyRows
<1> QED BY <1>1, <1>2, EmptyServesNext

\* The checkpoint as it was.
LEMMA CheckpointKept ==
  ASSUME CheckpointInv, UNCHANGED <<conf, toks, sig, rows, n, hist>>,
         valid' = valid \/ (Cuda /\ valid' = FALSE)
  PROVE  CheckpointInv'
<1>1. CheckpointTypes'
  BY DEF CheckpointInv, CheckpointTypes, ConfOK, ConfFits, Matches, RowsTyped, Cuda
<1>2. RowsInv'
  BY DEF CheckpointInv, RowsInv, Holds
<1>3. SigInv'
  BY DEF CheckpointInv, SigInv
<1> QED BY <1>1, <1>2, <1>3 DEF CheckpointInv

\* The files as they were.
LEMMA FileKept ==
  ASSUME PayloadInv(file), file' = file, conf'.backend = conf.backend
  PROVE  PayloadInv(file)'
  BY DEF PayloadInv, LayerSaved, Cuda

LEMMA SnapKept ==
  ASSUME FilesInv, snap' = snap, conf' = conf
  PROVE  PayloadInv(snap)' /\ (snap' # NoFile => Loadable(snap)')
<1>1. PayloadInv(snap)'
  BY DEF FilesInv, PayloadInv, LayerSaved, Cuda
<1>2. snap' # NoFile => Loadable(snap)'
  BY DEF FilesInv, Loadable
<1> QED BY <1>1, <1>2

LEMMA FilesKept ==
  ASSUME FilesInv, UNCHANGED <<conf, file, snap>>
  PROVE  FilesInv'
  BY FileKept, SnapKept DEF FilesInv

\* An evaluation that succeeded.
LEMMA EvaluatedKept ==
  ASSUME CheckpointTypes, conf' = conf, sig' = sig, valid' = TRUE,
         NEW e, rows' = e.rows, n' = e.n, Evaluated(e, hist'), RowsTyped(e.rows),
         Matches(toks, hist)', Len(toks') <= conf.ctx
  PROVE  CheckpointTypes' /\ RowsInv'
<1>1. /\ \A il \in Layers : Holds(rows'[il], il, hist')
      /\ n' = IF Cuda THEN n ELSE [il \in Layers |-> Len(hist')]
  BY DEF Evaluated
<1>2. RowsInv'
  BY <1>1 DEF RowsInv, Holds
<1>3. ConfOK' /\ RowsTyped(rows)' /\ (Cuda' <=> Cuda)
  BY DEF CheckpointTypes, ConfOK, ConfFits, RowsTyped, Cuda
<1>4. Len(hist') = Len(toks')
  BY DEF Matches
<1>5. sig' \in Images \cup {NoImage}
  BY DEF CheckpointTypes
<1>6. CheckpointTypes'
  BY <1>1, <1>3, <1>4, <1>5 DEF CheckpointTypes
<1> QED BY <1>2, <1>6

\* A device call that failed.
LEMMA BrokenKept ==
  ASSUME CheckpointTypes, Cuda, UNCHANGED <<conf, toks, hist, n>>,
         sig' \in {sig, NoImage}, valid' = FALSE, RowsTyped(rows')
  PROVE  CheckpointInv'
<1>1. CheckpointTypes'
  BY DEF CheckpointTypes, ConfOK, ConfFits, Matches, RowsTyped, Cuda
<1>2. RowsInv' /\ SigInv'
  BY DEF RowsInv, SigInv
<1> QED BY <1>1, <1>2 DEF CheckpointInv

\* A payload that is taken over.
LEMMA TakeServes ==
  ASSUME CheckpointTypes, conf' = conf, NEW f, PayloadInv(f), f # NoFile, Loadable(f), Take(f),
         sig' \in Images \cup {NoImage}
  PROVE  CheckpointTypes' /\ RowsInv'
<1>1. /\ toks' = f.toks /\ hist' = f.hist /\ valid' = TRUE
      /\ rows' = [il \in Layers |-> Restored(il, f.rows[il], Len(f.toks))]
      /\ n' = IF Cuda THEN n ELSE [il \in Layers |-> Len(f.rows[il])]
  BY DEF Take
<1>2. /\ Matches(f.toks, f.hist) /\ Len(f.toks) <= conf.ctx
      /\ \A il \in Layers : LayerSaved(f.rows[il], il, f.hist)
  BY DEF PayloadInv, Loadable
<1>3. Len(f.hist) = Len(f.toks)
  BY <1>2 DEF Matches
<1>4. ConfOK /\ RowsTyped(rows)
  BY DEF CheckpointTypes
<1>5. ASSUME NEW il \in Layers
      PROVE  /\ DOMAIN rows'[il] = 0..(conf.cap[il] - 1)
             /\ Holds(rows'[il], il, f.hist)
  <2>1. LET r == Restored(il, f.rows[il], Len(f.toks))
        IN DOMAIN r = 0..(conf.cap[il] - 1) /\ Holds(r, il, f.hist)
    BY <1>4, RestoredHolds
  <2>2. rows'[il] = Restored(il, f.rows[il], Len(f.toks))
    BY <1>1
  <2> QED BY <2>1, <2>2
<1>6. RowsInv'
  BY <1>1, <1>5 DEF RowsInv, Holds
<1>7. RowsTyped(rows)'
  BY <1>1, <1>5 DEF RowsTyped
<1>8. ConfOK' /\ (Cuda' <=> Cuda)
  BY <1>4 DEF ConfOK, ConfFits, Cuda
<1>9. ~Cuda => n' = [il \in Layers |-> Len(f.toks)]
  <2>1. ASSUME ~Cuda, NEW il \in Layers PROVE Len(f.rows[il]) = Len(f.toks)
    BY <1>2, <1>3, <2>1 DEF LayerSaved
  <2> QED BY <1>1, <2>1
<1>10. Matches(toks, hist)'
  BY <1>1, <1>2 DEF Matches
<1>11. CheckpointTypes'
  BY <1>1, <1>2, <1>7, <1>8, <1>9, <1>10 DEF CheckpointTypes
<1> QED BY <1>6, <1>11

\* The patches of a prompt, or of its front, are rows of its image.
LEMMA OwnPatches ==
  ASSUME NEW p \in Prompts, NEW m \in 0..Len(p.toks), NEW i \in 1..m
  PROVE  SubSeq(p.toks, 1, m)[i] = Patch =>
           SubSeq(Meaning(p), 1, m)[i][1] = p.img /\ p.img # NoImage
<1>1. p.toks \in Seq(Tokens) /\ Len(p.toks) \in Nat
      /\ Meaning(p) \in Seq(Stimuli) /\ Len(Meaning(p)) = Len(p.toks)
  BY PromptTyped, MeaningTyped
<1>2. i \in 1..Len(p.toks) /\ SubSeq(p.toks, 1, m)[i] = p.toks[i]
      /\ SubSeq(Meaning(p), 1, m)[i] = Meaning(p)[i]
  BY <1>1, Prefix
<1>3. Meaning(p)[i] = IF p.toks[i] = Patch THEN <<p.img, PatchesIn(p.toks, i)>>
                                           ELSE <<p.toks[i], 0>>
  BY <1>2, MeaningTyped
<1>4. p.toks[i] = Patch => p.img # NoImage
  BY <1>2, PromptTyped
<1> QED BY <1>2, <1>3, <1>4

\* Calls that returned, with nothing running.
LEMMA Returned ==
  ASSUME task' = NoTask,
         \/ ret' \in [op : {"create", "none", "failed", "loaded"}]
         \/ ret' \in [op : {"evaluated", "restored"}] /\ valid'
  PROVE  CallInv'
<1>1. CallTypes'
  BY DEF CallTypes
<1>2. TaskInv'
  BY DEF TaskInv
<1>3. RetInv'
  BY DEF RetInv
<1> QED BY <1>1, <1>2, <1>3 DEF CallInv

LEMMA CallKept ==
  ASSUME CallInv, UNCHANGED <<conf, toks, valid, sig, logits, proj, task, ret, hist>>
  PROVE  CallInv'
<1>1. CallTypes'
  BY DEF CallInv, CallTypes
<1>2. TaskInv'
  BY DEF CallInv, TaskInv, Cuda, PatchFree
<1>3. RetInv'
  BY DEF CallInv, RetInv
<1> QED BY <1>1, <1>2, <1>3 DEF CallInv

\* A call that is allowed finds a valid checkpoint.
LEMMA ReadyValid ==
  ASSUME CallInv, Ready
  PROVE  valid /\ task = NoTask
  BY DEF CallInv, RetInv, Ready

LEMMA ReopenedKeeps ==
  ASSUME SessionInv, NEW c \in Contexts, NEW k \in Chunks, Reopened(c, k)
  PROVE  SessionInv'
<1>1. conf.backend \in Backends /\ FilesInv
  BY DEF SessionInv, CheckpointInv, CheckpointTypes, ConfOK, ConfFits
<1>2. PICK d : d = NewConf(conf.backend, c, k)
  OBVIOUS
<1>3. ConfFits(d) /\ d.backend = conf.backend
  BY <1>1, <1>2, NewConfFits
<1>4. /\ conf' = d /\ task' = NoTask /\ snap' = NoFile /\ file' = file
      /\ ret' = [op |-> "create"]
  BY <1>2 DEF Reopened, Created
<1>5. ConfOK'
  BY <1>3, <1>4 DEF ConfOK, ConfFits
<1>6. Empty'
  BY <1>2 DEF Reopened, Created, Empty, EmptyRows, NoRows
<1>7. CheckpointInv'
  BY <1>5, <1>6, EmptyServesNext
<1>8. CallInv'
  BY <1>4, Returned
<1>9. PayloadInv(file)'
  BY <1>1, <1>3, <1>4, FileKept DEF FilesInv
<1>10. PayloadInv(snap)'
  BY <1>4 DEF PayloadInv
<1> QED BY <1>4, <1>7, <1>8, <1>9, <1>10 DEF SessionInv, FilesInv

LEMMA LoadFailsKeeps ==
  ASSUME SessionInv, NEW p \in Prompts, LoadFails(p)
  PROVE  SessionInv'
<1>1. ConfOK /\ FilesInv
  BY DEF SessionInv, CheckpointInv, CheckpointTypes
<1>2. /\ conf' = conf /\ Reset /\ task' = NoTask /\ file' = NoFile /\ snap' = snap
      /\ ret' = [op |-> "failed"]
  BY DEF LoadFails
<1>3. CheckpointInv'
  BY <1>1, <1>2, ResetServes
<1>4. CallInv'
  BY <1>2, Returned
<1>5. FilesInv'
  <2>1. PayloadInv(snap)' /\ (snap' # NoFile => Loadable(snap)')
    BY <1>1, <1>2, SnapKept
  <2>2. PayloadInv(file)'
    BY <1>2 DEF PayloadInv
  <2> QED BY <2>1, <2>2 DEF FilesInv
<1> QED BY <1>3, <1>4, <1>5 DEF SessionInv

LEMMA LoadKeeps ==
  ASSUME SessionInv, NEW p \in Prompts, LoadPayload(p)
  PROVE  SessionInv'
<1>1. ConfOK /\ CheckpointTypes /\ FilesInv
  BY DEF SessionInv, CheckpointInv, CheckpointTypes
<1>2. /\ task' = NoTask /\ FileServes(p) /\ LoadFits(file) /\ ret' = [op |-> "loaded"]
      /\ UNCHANGED <<conf, file, snap>>
      /\ \/ Reset
         \/ Take(file) /\ sig' = Noted(p)
  BY DEF LoadPayload
<1>3. CASE Reset
  BY <1>1, <1>2, <1>3, ResetServes, FilesKept, Returned DEF SessionInv
<1>4. CASE Take(file) /\ sig' = Noted(p)
  <2>1. PICK f : f = file
    OBVIOUS
  <2>2. f # NoFile /\ PayloadInv(f) /\ Take(f)
    BY <1>1, <1>2, <1>4, <2>1 DEF FileServes, FilesInv
  <2>3. Loadable(f)
    BY <1>2, <2>1 DEF LoadFits, Loadable
  <2>4. Matches(f.toks, f.hist) /\ toks' = f.toks /\ hist' = f.hist
    BY <2>2 DEF PayloadInv, Take
  <2>5. /\ f.hist \in Seq(Stimuli) /\ Len(f.hist) = Len(f.toks) /\ f.toks \in Seq(Tokens)
        /\ Len(f.hist) <= Len(p.toks) /\ SubSeq(Meaning(p), 1, Len(f.hist)) = f.hist
    BY <1>2, <2>1, <2>4 DEF FileServes, Matches
  <2>6. ASSUME NEW i \in 1..Len(f.toks), f.toks[i] = Patch
        PROVE  f.hist[i][2] > 0 /\ f.hist[i][1] = p.img /\ p.img # NoImage
    <3>1. i \in 0..Len(f.toks) /\ i > 0 /\ Len(f.toks) \in Nat
      BY <2>5
    <3>2. PatchesIn(f.toks, i) > 0
      BY <2>5, <2>6, <3>1, PatchCount
    <3>3. f.hist[i][2] > 0
      BY <2>4, <2>6, <3>2 DEF Matches
    <3>4. /\ Meaning(p) \in Seq(Stimuli) /\ Len(Meaning(p)) = Len(p.toks) /\ Len(p.toks) \in Nat
      BY PromptTyped, MeaningTyped
    <3>5. PICK m \in 0..Len(p.toks) : m = Len(f.hist)
      BY <2>5, <3>1, <3>4
    <3>6. i \in 1..Len(p.toks) /\ f.hist[i] = Meaning(p)[i]
      BY <2>5, <3>4, <3>5, Prefix
    <3>7. Meaning(p)[i] = IF p.toks[i] = Patch THEN <<p.img, PatchesIn(p.toks, i)>>
                                               ELSE <<p.toks[i], 0>>
      BY <3>6, MeaningTyped
    <3>8. p.toks[i] = Patch
      BY <3>3, <3>6, <3>7
    <3> QED BY <3>3, <3>6, <3>7, <3>8, PromptTyped
  <2>7. sig' \in Images \cup {NoImage}
    BY <1>4, PromptTyped DEF Noted
  <2>8. CheckpointTypes' /\ RowsInv'
    BY <1>1, <1>2, <2>2, <2>3, <2>7, TakeServes
  <2>9. SigInv'
    <3> SUFFICES ASSUME NEW i \in 1..Len(toks'), toks'[i] = Patch, sig' # NoImage
                 PROVE  hist'[i][1] = sig'
      BY DEF SigInv
    <3>1. sig' = p.img
      BY <1>4, PromptTyped DEF Noted
    <3> QED BY <2>4, <2>6, <3>1
  <2>10. CheckpointInv'
    BY <2>8, <2>9 DEF CheckpointInv
  <2> QED BY <1>1, <1>2, <2>10, FilesKept, Returned DEF SessionInv
<1> QED BY <1>2, <1>3, <1>4

LEMMA SnapshotKeeps ==
  ASSUME SessionInv, LoadSnapshot
  PROVE  SessionInv'
<1>1. ConfOK /\ CheckpointTypes /\ FilesInv
  BY DEF SessionInv, CheckpointInv, CheckpointTypes
<1>2. PICK f : f = snap
  OBVIOUS
<1>3. /\ f # NoFile /\ Take(f) /\ sig' = NoImage /\ task' = NoTask
      /\ ret' = [op |-> "restored"] /\ UNCHANGED <<conf, file, snap>>
  BY <1>2 DEF LoadSnapshot, Ready
<1>4. PayloadInv(f) /\ Loadable(f)
  BY <1>1, <1>2, <1>3 DEF FilesInv
<1>5. CheckpointTypes' /\ RowsInv'
  BY <1>1, <1>3, <1>4, TakeServes
<1>6. CheckpointInv'
  BY <1>3, <1>5 DEF CheckpointInv, SigInv
<1>7. CallInv'
  <2>1. valid' = TRUE
    BY <1>3 DEF Take
  <2> QED BY <1>3, <2>1, Returned
<1> QED BY <1>1, <1>3, <1>6, <1>7, FilesKept DEF SessionInv

\* A load that fails gives the checkpoint up; the rows that it wrote are those
\* of a payload that fits.
LEMMA SnapshotFailsKeeps ==
  ASSUME SessionInv, LoadSnapshotFails
  PROVE  SessionInv'
<1>1. /\ ConfOK /\ RowsTyped(rows) /\ CheckpointTypes /\ FilesInv
      /\ CheckpointInv /\ CallInv
  BY DEF SessionInv, CheckpointInv, CheckpointTypes
<1>2. PICK f : f = snap
  OBVIOUS
<1>3. PICK back : back = [il \in Layers |-> Restored(il, f.rows[il], Len(f.toks))]
  OBVIOUS
<1>4. "full" \in Layers
  BY DEF Layers
<1>5. /\ Cuda /\ Ready /\ f # NoFile /\ valid' = FALSE /\ sig' = NoImage
      /\ ret' = [op |-> "failed"]
      /\ rows' \in {rows, [rows EXCEPT !.full = back["full"]], back}
      /\ UNCHANGED <<conf, toks, hist, n, task, file, snap>>
  BY <1>2, <1>3, <1>4 DEF LoadSnapshotFails
<1>6. PayloadInv(f) /\ Loadable(f)
  BY <1>1, <1>2, <1>5 DEF FilesInv
<1>7. ASSUME NEW il \in Layers PROVE DOMAIN back[il] = 0..(conf.cap[il] - 1)
  <2>1. back[il] = Restored(il, f.rows[il], Len(f.toks))
    BY <1>3
  <2> QED BY <1>1, <1>5, <1>6, <2>1, RestoredHolds
<1>8. RowsTyped(rows')
  <2>1. DOMAIN back = Layers /\ RowsTyped(back)
    BY <1>3, <1>7 DEF RowsTyped
  <2>2. CASE rows' = [rows EXCEPT !.full = back["full"]]
    BY <1>1, <1>4, <1>7, <2>2 DEF RowsTyped
  <2> QED BY <1>1, <1>5, <2>1, <2>2
<1>9. valid /\ task' = NoTask
  BY <1>1, <1>5, ReadyValid
<1>10. CheckpointInv'
  BY <1>1, <1>5, <1>8, BrokenKept
<1> QED BY <1>1, <1>5, <1>9, <1>10, Returned, FilesKept DEF SessionInv

LEMMA RefusedKeeps ==
  ASSUME SessionInv, NEW p \in Prompts, SyncRefused(p)
  PROVE  SessionInv'
<1>1. CheckpointInv /\ CallInv /\ FilesInv
  BY DEF SessionInv
<1>2. /\ task' = NoTask /\ ret' = [op |-> "failed"]
      /\ UNCHANGED <<conf, toks, valid, sig, rows, n, task, file, snap, hist>>
  BY DEF SyncRefused
<1> QED BY <1>1, <1>2, CheckpointKept, Returned, FilesKept DEF SessionInv

LEMMA BeginKeeps ==
  ASSUME SessionInv, NEW p \in Prompts, SyncBegin(p)
  PROVE  SessionInv'
<1> DEFINE common == CommonPrefix(p)
           over == StartsOver(p, common)
<1>1. /\ ConfOK /\ CheckpointTypes /\ SigInv /\ CheckpointInv /\ FilesInv
      /\ toks \in Seq(Tokens) /\ conf.ctx \in Nat
  BY DEF SessionInv, CheckpointInv, CheckpointTypes, Matches, ConfOK, ConfFits
<1>2. PICK kept : kept = IF over THEN 0 ELSE common
  OBVIOUS
<1>3. PICK mode \in SyncModes(p, kept) :
        /\ proj' = mode.proj
        /\ mode.pc = "error" => task' = NoTask /\ ret' = [op |-> "failed"]
        /\ mode.pc # "error" =>
             /\ task' = [pc |-> mode.pc, cap |-> mode.cap, p |-> p,
                         start |-> kept, pos |-> kept]
             /\ ret' = [op |-> "none"]
  BY <1>2 DEF SyncBegin
<1>4. /\ Len(p.toks) <= conf.ctx /\ UNCHANGED <<conf, file, snap>>
      /\ \/ over /\ Reset
         \/ ~over /\ RewindToEnd
         \/ ~over /\ UNCHANGED <<toks, hist, valid, sig, rows, n>>
  BY DEF SyncBegin
<1>5. p.toks \in Seq(Tokens) /\ Len(p.toks) \in Nat /\ common \in 0..Len(p.toks)
      /\ Meaning(p) \in Seq(Stimuli)
  BY <1>1, PromptTyped, MeaningTyped, CommonPrefixIs
<1>6. kept \in 0..Len(p.toks)
  BY <1>2, <1>5
<1>7. /\ CheckpointInv' /\ valid' = TRUE
      /\ toks' = SubSeq(p.toks, 1, kept) /\ hist' = SubSeq(Meaning(p), 1, kept)
      /\ sig' = NoImage \/ p.img = NoImage \/ sig' = p.img
  <2>1. CASE over
    <3>1. Reset /\ kept = 0
      BY <1>2, <1>4, <2>1
    <3>2. CheckpointInv'
      BY <1>1, <1>4, <3>1, ResetServes
    <3>3. toks' = <<>> /\ hist' = <<>> /\ valid' = TRUE /\ sig' = NoImage
      BY <3>1 DEF Reset
    <3>4. SubSeq(p.toks, 1, 0) = <<>> /\ SubSeq(Meaning(p), 1, 0) = <<>>
      BY SubSeqEmpty
    <3> QED BY <3>1, <3>2, <3>3, <3>4
  <2>2. CASE ~over
    <3>1. /\ valid /\ kept = Len(toks)
          /\ toks = SubSeq(p.toks, 1, Len(toks)) /\ hist = SubSeq(Meaning(p), 1, Len(toks))
          /\ p.img = NoImage \/ sig = p.img
      BY <1>1, <1>2, <2>2, KeptPrefix
    <3> HIDE DEF over, common
    <3>2. ~Cuda => n = [il \in Layers |-> Len(toks)]
      BY <1>1 DEF CheckpointTypes
    <3>3. UNCHANGED <<toks, hist, sig, rows>> /\ valid' = TRUE /\ n' = n
      <4>1. CASE RewindToEnd
        BY <3>2, <4>1 DEF RewindToEnd
      <4>2. CASE UNCHANGED <<toks, hist, valid, sig, rows, n>>
        <5>1. valid = TRUE
          BY <1>1, <3>1 DEF CheckpointTypes
        <5> QED BY <4>2, <5>1
      <4> QED BY <1>4, <2>2, <4>1, <4>2
    <3>4. valid = TRUE
      BY <1>1, <3>1 DEF CheckpointTypes
    <3>5. CheckpointInv'
      BY <1>1, <1>4, <3>3, <3>4, CheckpointKept
    <3> QED BY <3>1, <3>3, <3>5
  <2> QED BY <2>1, <2>2
<1> HIDE DEF over, common
<1>8. CallInv'
  <2>1. CASE mode.pc = "error"
    BY <1>3, <2>1, Returned
  <2>2. CASE mode.pc # "error"
    <3>1. /\ mode.pc \in {"batch", "token"} /\ mode.cap \in Nat
          /\ mode.pc = "batch" => /\ Cuda /\ mode.cap \in 1..conf.prefill
                                  /\ mode.proj = p.img \/ PatchFree(p, kept)
          /\ mode.pc = "token" => PatchFree(p, kept)
      BY <1>1, <1>6, <2>2, ModesFit
    <3>2. /\ task'.pc = mode.pc /\ task'.cap = mode.cap /\ task'.p = p
          /\ task'.start = kept /\ task'.pos = kept /\ ret' = [op |-> "none"]
          /\ task' = [pc |-> mode.pc, cap |-> mode.cap, p |-> p, start |-> kept, pos |-> kept]
      BY <1>3, <2>2
    <3>3. CallTypes'
      BY <1>5, <1>6, <3>1, <3>2 DEF CallTypes
    <3>4. (Cuda' <=> Cuda) /\ conf' = conf
      BY <1>4 DEF Cuda
    <3>5. TaskInv'
      BY <1>3, <1>4, <1>5, <1>6, <1>7, <3>1, <3>2, <3>4 DEF TaskInv, PatchFree
    <3>6. RetInv'
      BY <3>2 DEF RetInv
    <3> QED BY <3>3, <3>5, <3>6 DEF CallInv
  <2> QED BY <2>1, <2>2
<1> QED BY <1>1, <1>4, <1>7, <1>8, FilesKept DEF SessionInv

LEMMA StepKeeps ==
  ASSUME SessionInv, SyncStep
  PROVE  SessionInv'
<1>1. PICK t : t = task
  OBVIOUS
<1>2. PICK e : e = Round(task)
  OBVIOUS
<1>3. PICK m : m = After(task)
  OBVIOUS
<1>4. /\ t.pc \in {"batch", "token"} /\ t.pos < Len(t.p.toks)
      /\ rows' = e.rows /\ n' = e.n
      /\ m = Len(t.p.toks) => logits' = e.out
      /\ toks' = toks \o SubSeq(t.p.toks, t.pos + 1, m)
      /\ hist' = hist \o SubSeq(Meaning(t.p), t.pos + 1, m)
      /\ valid' = TRUE /\ task' = [t EXCEPT !.pos = m]
      /\ UNCHANGED <<conf, sig, proj, file, snap, ret>>
  BY <1>1, <1>2, <1>3 DEF SyncStep, After
<1>5. t # NoTask
  BY <1>4 DEF NoTask
<1>6. /\ t \in [pc : {"batch", "token"}, cap : Nat, p : Prompts, start : Nat, pos : Nat]
      /\ CheckpointTypes /\ TaskInv /\ FilesInv
  BY <1>1, <1>5 DEF SessionInv, CheckpointInv, CallInv, CallTypes
<1>7. PICK p \in Prompts : p = t.p
  BY <1>6
<1>8. /\ m \in (t.pos + 1)..Len(p.toks)
      /\ Evaluated(e, SubSeq(Meaning(p), 1, m)) /\ RowsTyped(e.rows)
      /\ toks' = SubSeq(p.toks, 1, m) /\ hist' = SubSeq(Meaning(p), 1, m)
  BY <1>1, <1>2, <1>3, <1>4, <1>7, RoundServes
<1>9. /\ t.pos \in Nat /\ t.start \in Nat /\ p.toks \in Seq(Tokens) /\ Len(p.toks) \in Nat
      /\ conf.ctx \in Nat
  BY <1>6, PromptTyped DEF CheckpointTypes, ConfOK, ConfFits
<1>10. /\ t.start <= t.pos /\ Len(p.toks) <= conf.ctx /\ ret.op = "none"
       /\ t.pc = "batch" => /\ Cuda /\ t.cap \in 1..conf.prefill
                            /\ proj = p.img \/ PatchFree(p, t.start)
       /\ t.pc = "token" => PatchFree(p, t.start)
       /\ sig = NoImage \/ p.img = NoImage \/ sig = p.img
  BY <1>1, <1>5, <1>6, <1>7 DEF TaskInv
<1>11. m \in 0..Len(p.toks) /\ m \in Nat
  BY <1>8, <1>9
<1>12. Matches(toks', hist') /\ Len(toks') = m
  BY <1>8, <1>9, <1>11, PrefixMatches, Prefix
<1>13. CheckpointTypes' /\ RowsInv'
  <2>1. Evaluated(e, hist') /\ Len(toks') <= conf.ctx /\ Matches(toks, hist)'
    BY <1>8, <1>9, <1>10, <1>11, <1>12
  <2> QED BY <1>4, <1>6, <1>8, <2>1, EvaluatedKept
<1>14. SigInv'
  <2> SUFFICES ASSUME sig' # NoImage, NEW i \in 1..Len(toks'), toks'[i] = Patch
               PROVE  hist'[i][1] = sig'
    BY DEF SigInv
  <2>1. i \in 1..m
    BY <1>12
  <2>2. hist'[i][1] = p.img /\ p.img # NoImage
    BY <1>8, <1>11, <2>1, OwnPatches
  <2> QED BY <1>4, <1>10, <2>2
<1>15. CallInv'
  <2>1. /\ task'.pc = t.pc /\ task'.cap = t.cap /\ task'.p = p /\ task'.start = t.start
        /\ task'.pos = m
    BY <1>4, <1>6, <1>7
  <2>2. CallTypes'
    BY <1>4, <1>6, <1>11 DEF SessionInv, CallInv, CallTypes
  <2>3. (Cuda' <=> Cuda) /\ conf' = conf
    BY <1>4 DEF Cuda
  <2>4. m = Len(p.toks) => logits' = hist'
    BY <1>4, <1>7, <1>8 DEF Evaluated
  <2>5. /\ valid' /\ ret'.op = "none"
        /\ t.start <= m /\ m <= Len(p.toks) /\ Len(p.toks) <= conf'.ctx
        /\ sig' = NoImage \/ p.img = NoImage \/ sig' = p.img
    BY <1>4, <1>8, <1>9, <1>10, <1>11
  <2>6. /\ t.pc = "batch" => /\ Cuda' /\ t.cap \in 1..conf'.prefill
                             /\ proj' = p.img \/ PatchFree(p, t.start)
        /\ t.pc = "token" => PatchFree(p, t.start)
    BY <1>4, <1>10, <2>3
  <2>7. TaskInv'
    BY <1>8, <2>1, <2>4, <2>5, <2>6 DEF TaskInv, PatchFree
  <2>8. RetInv'
    BY <1>4, <1>10 DEF RetInv
  <2> QED BY <2>2, <2>7, <2>8 DEF CallInv
<1> QED BY <1>4, <1>6, <1>13, <1>14, <1>15, FilesKept DEF SessionInv, CheckpointInv

LEMMA StepFailsKeeps ==
  ASSUME SessionInv, SyncStepFails
  PROVE  SessionInv'
<1>1. CheckpointTypes /\ FilesInv
  BY DEF SessionInv, CheckpointInv
<1>2. /\ Cuda /\ task.pc \in {"batch", "token"} /\ task.pos < Len(task.p.toks)
      /\ rows' \in Round(task).broken /\ valid' = FALSE /\ task' = NoTask
      /\ ret' = [op |-> "failed"]
      /\ UNCHANGED <<conf, toks, hist, sig, n, file, snap>>
  BY DEF SyncStepFails
<1>3. RowsTyped(rows')
  <2>1. BrokenTyped(Round(task))
    BY <1>2, RoundServes
  <2> QED BY <1>2, <2>1 DEF BrokenTyped
<1> QED BY <1>1, <1>2, <1>3, BrokenKept, Returned, FilesKept DEF SessionInv

LEMMA CancelledKeeps ==
  ASSUME SessionInv, SyncCancelled
  PROVE  SessionInv'
<1>1. CheckpointInv /\ FilesInv /\ TaskInv
  BY DEF SessionInv, CallInv
<1>2. /\ task.pc \in {"batch", "token"} /\ task' = NoTask /\ ret' = [op |-> "failed"]
      /\ valid' = IF task.pc = "batch" THEN FALSE ELSE valid
      /\ UNCHANGED <<conf, toks, hist, sig, rows, n, file, snap>>
  BY DEF SyncCancelled
<1>3. task.pc = "batch" => Cuda
  BY <1>1, <1>2 DEF TaskInv, NoTask
<1> QED BY <1>1, <1>2, <1>3, CheckpointKept, Returned, FilesKept DEF SessionInv

LEMMA DoneKeeps ==
  ASSUME SessionInv, SyncDone
  PROVE  SessionInv'
<1>1. PICK t : t = task
  OBVIOUS
<1>2. /\ t.pc \in {"batch", "token"} /\ t.pos = Len(t.p.toks) /\ task' = NoTask
      /\ sig' = IF t.p.img # NoImage THEN t.p.img ELSE sig
      /\ ret' = [op |-> "synced", p |-> t.p, count |-> t.pos - t.start]
      /\ UNCHANGED <<conf, toks, valid, rows, n, logits, file, snap, hist>>
  BY <1>1 DEF SyncDone
<1>3. t # NoTask
  BY <1>2 DEF NoTask
<1>4. /\ t \in [pc : {"batch", "token"}, cap : Nat, p : Prompts, start : Nat, pos : Nat]
      /\ CheckpointInv /\ CheckpointTypes /\ RowsInv /\ SigInv /\ TaskInv /\ FilesInv
  BY <1>1, <1>3 DEF SessionInv, CheckpointInv, CallInv, CallTypes
<1>5. PICK p \in Prompts : p = t.p
  BY <1>4
<1>6. /\ t.pos \in Nat /\ t.start \in Nat /\ t.start <= t.pos /\ t.pos = Len(p.toks)
      /\ p.toks \in Seq(Tokens) /\ Meaning(p) \in Seq(Stimuli)
      /\ Len(Meaning(p)) = Len(p.toks)
      /\ valid /\ toks = SubSeq(p.toks, 1, t.pos) /\ hist = SubSeq(Meaning(p), 1, t.pos)
      /\ t.start < t.pos => logits = hist
  BY <1>1, <1>2, <1>3, <1>4, <1>5, PromptTyped, MeaningTyped DEF TaskInv
<1>7. toks = p.toks /\ hist = Meaning(p)
  BY <1>6, SubSeqFull
<1>8. sig' \in Images \cup {NoImage}
  BY <1>2, <1>4, <1>5, PromptTyped DEF CheckpointTypes
<1>9. CheckpointTypes'
  BY <1>2, <1>4, <1>8 DEF CheckpointTypes, ConfOK, ConfFits, Matches, RowsTyped, Cuda
<1>10. RowsInv'
  BY <1>2, <1>4 DEF RowsInv, Holds
<1>11. SigInv'
  <2>1. CASE p.img = NoImage
    BY <1>2, <1>4, <1>5, <2>1 DEF SigInv
  <2>2. CASE p.img # NoImage
    <3> SUFFICES ASSUME NEW i \in 1..Len(toks), toks[i] = Patch PROVE hist[i][1] = p.img
      BY <1>2, <1>5, <2>2 DEF SigInv
    <3>1. t.pos \in 0..Len(p.toks) /\ i \in 1..t.pos
      BY <1>6, <1>7
    <3> QED BY <1>6, <3>1, OwnPatches
  <2> QED BY <2>1, <2>2
<1>12. CallInv'
  <2>1. t.pos - t.start \in Nat
    BY <1>6
  <2>2. CallTypes'
    BY <1>2, <1>5, <2>1 DEF CallTypes
  <2>3. TaskInv'
    BY <1>2 DEF TaskInv
  <2>4. RetInv'
    BY <1>2, <1>5, <1>6, <1>7 DEF RetInv
  <2> QED BY <2>2, <2>3, <2>4 DEF CallInv
<1> QED BY <1>2, <1>4, <1>9, <1>10, <1>11, <1>12, FilesKept DEF SessionInv, CheckpointInv

\* A token that is evaluated continues the checkpoint without a patch.
NoNewPatch(ts, h, ts1, h1) ==
  \A i \in 1..Len(ts1) :
    ts1[i] = Patch => i \in 1..Len(ts) /\ ts[i] = Patch /\ h1[i] = h[i]

LEMMA MatchesMore ==
  ASSUME NEW ts, NEW h, Matches(ts, h), NEW token \in Replies
  PROVE  /\ <<token, 0>> \in Stimuli /\ Len(Append(ts, token)) = Len(ts) + 1
         /\ Matches(Append(ts, token), Append(h, <<token, 0>>))
         /\ NoNewPatch(ts, h, Append(ts, token), Append(h, <<token, 0>>))
<1> DEFINE ts1 == Append(ts, token)
           h1 == Append(h, <<token, 0>>)
<1>1. token \in Tokens /\ token # Patch
  BY SessionAssumption
<1>2. <<token, 0>> \in Stimuli
  BY <1>1 DEF Stimuli
<1>3. /\ ts \in Seq(Tokens) /\ h \in Seq(Stimuli) /\ Len(h) = Len(ts) /\ Len(ts) \in Nat
      /\ \A i \in 1..Len(ts) : h[i][2] = IF ts[i] = Patch THEN PatchesIn(ts, i) ELSE 0
      /\ \A i \in 1..Len(ts) : ts[i] # Patch => h[i][1] = ts[i]
  BY DEF Matches
<1>4. /\ ts1 \in Seq(Tokens) /\ Len(ts1) = Len(ts) + 1 /\ ts1[Len(ts) + 1] = token
      /\ \A i \in 1..Len(ts) : ts1[i] = ts[i]
  BY <1>1, <1>3, AppendProperties
<1>5. /\ h1 \in Seq(Stimuli) /\ Len(h1) = Len(ts) + 1 /\ h1[Len(ts) + 1] = <<token, 0>>
      /\ \A i \in 1..Len(ts) : h1[i] = h[i]
  BY <1>2, <1>3, AppendProperties
<1> HIDE DEF ts1, h1
<1>6. ASSUME NEW i \in 1..Len(ts) PROVE PatchesIn(ts1, i) = PatchesIn(ts, i)
  <2>1. {k \in 1..i : ts1[k] = Patch} = {k \in 1..i : ts[k] = Patch}
    BY <1>3, <1>4
  <2> QED BY <2>1 DEF PatchesIn
<1>7. ASSUME NEW i \in 1..(Len(ts) + 1)
      PROVE  /\ h1[i][2] = IF ts1[i] = Patch THEN PatchesIn(ts1, i) ELSE 0
             /\ ts1[i] # Patch => h1[i][1] = ts1[i]
             /\ ts1[i] = Patch => i \in 1..Len(ts) /\ ts[i] = Patch /\ h1[i] = h[i]
  <2>1. CASE i \in 1..Len(ts)
    BY <1>3, <1>4, <1>5, <1>6, <2>1
  <2>2. CASE i = Len(ts) + 1
    BY <1>1, <1>4, <1>5, <2>2
  <2> QED BY <1>3, <2>1, <2>2
<1>8. Matches(ts1, h1)
  BY <1>4, <1>5, <1>7 DEF Matches
<1>9. NoNewPatch(ts, h, ts1, h1)
  BY <1>4, <1>7 DEF NoNewPatch
<1> QED BY <1>2, <1>4, <1>8, <1>9 DEF ts1, h1

LEMMA EvalKeeps ==
  ASSUME SessionInv, NEW token \in Replies, NEW need \in BOOLEAN, Eval(token, need)
  PROVE  SessionInv'
<1>1. PICK x : x = <<token, 0>>
  OBVIOUS
<1>2. PICK e : e = OneToken(x)
  OBVIOUS
<1>3. /\ CheckpointTypes /\ RowsInv /\ SigInv /\ CallInv /\ FilesInv /\ Matches(toks, hist)
      /\ conf.ctx \in Nat /\ Len(toks) \in Nat
  BY DEF SessionInv, CheckpointInv, CheckpointTypes, ConfOK, ConfFits, Matches
<1>4. /\ Ready /\ Len(toks) < conf.ctx
      /\ rows' = e.rows /\ n' = e.n
      /\ toks' = Append(toks, token) /\ hist' = Append(hist, x)
      /\ valid' = TRUE /\ ret' = [op |-> "evaluated"]
      /\ UNCHANGED <<conf, sig, proj, task, file, snap>>
  BY <1>1, <1>2 DEF Eval
<1>5. valid /\ task' = NoTask
  BY <1>3, <1>4, ReadyValid
<1>6. /\ x \in Stimuli /\ Len(toks') = Len(toks) + 1 /\ Matches(toks', hist')
      /\ NoNewPatch(toks, hist, toks', hist')
  <2>1. /\ x \in Stimuli /\ Len(Append(toks, token)) = Len(toks) + 1
        /\ Matches(Append(toks, token), Append(hist, x))
        /\ NoNewPatch(toks, hist, Append(toks, token), Append(hist, x))
    BY <1>1, <1>3, MatchesMore
  <2> QED BY <1>4, <2>1
<1>7. Evaluated(e, hist') /\ RowsTyped(e.rows)
  BY <1>2, <1>3, <1>4, <1>5, <1>6, OneTokenServes
<1>8. CheckpointTypes' /\ RowsInv'
  <2>1. Len(toks') <= conf.ctx /\ Matches(toks, hist)'
    BY <1>3, <1>4, <1>6
  <2> QED BY <1>3, <1>4, <1>7, <2>1, EvaluatedKept
<1>9. SigInv'
  <2> SUFFICES ASSUME sig' # NoImage, NEW i \in 1..Len(toks'), toks'[i] = Patch
               PROVE  hist'[i][1] = sig'
    BY DEF SigInv
  <2>1. i \in 1..Len(toks) /\ toks[i] = Patch /\ hist'[i] = hist[i]
    BY <1>6 DEF NoNewPatch
  <2> QED BY <1>3, <1>4, <1>5, <2>1 DEF SigInv
<1>10. CallInv'
  BY <1>4, <1>5, Returned
<1> QED BY <1>3, <1>4, <1>8, <1>9, <1>10, FilesKept DEF SessionInv, CheckpointInv

LEMMA EvalFailsKeeps ==
  ASSUME SessionInv, NEW token \in Replies, EvalFails(token)
  PROVE  SessionInv'
<1>1. PICK x : x = <<token, 0>>
  OBVIOUS
<1>2. CheckpointTypes /\ RowsInv /\ CallInv /\ FilesInv /\ Matches(toks, hist)
  BY DEF SessionInv, CheckpointInv, CheckpointTypes
<1>3. /\ Cuda /\ Ready /\ Len(toks) < conf.ctx
      /\ rows' \in OneToken(x).broken /\ valid' = FALSE /\ ret' = [op |-> "failed"]
      /\ UNCHANGED <<conf, toks, hist, sig, n, task, file, snap>>
  BY <1>1 DEF EvalFails
<1>4. valid /\ task' = NoTask
  BY <1>2, <1>3, ReadyValid
<1>5. RowsTyped(rows')
  <2>1. x \in Stimuli
    BY <1>1, <1>2, MatchesMore
  <2>2. BrokenTyped(OneToken(x))
    BY <1>2, <1>3, <1>4, <2>1, OneTokenServes
  <2> QED BY <1>3, <2>2 DEF BrokenTyped
<1> QED BY <1>2, <1>3, <1>4, <1>5, BrokenKept, Returned, FilesKept DEF SessionInv

LEMMA OutputKeeps ==
  ASSUME SessionInv, OutputLogits
  PROVE  SessionInv'
<1>1. CheckpointInv /\ CallInv /\ FilesInv
  BY DEF SessionInv
<1>2. /\ Ready /\ ret.op = "evaluated"
      /\ UNCHANGED <<conf, toks, valid, sig, rows, n, proj, task, file, snap, ret, hist>>
  BY DEF OutputLogits
<1>3. valid /\ task' = NoTask
  BY <1>1, <1>2, ReadyValid
<1>4. ret' \in [op : {"evaluated", "restored"}]
  BY <1>1, <1>2 DEF CallInv, CallTypes
<1> QED BY <1>1, <1>2, <1>3, <1>4, CheckpointKept, Returned, FilesKept DEF SessionInv

LEMMA SaveKeeps ==
  ASSUME SessionInv, SavePayload
  PROVE  SessionInv'
<1>1. CheckpointInv /\ CheckpointTypes /\ RowsInv /\ CallInv /\ FilesInv
  BY DEF SessionInv, CheckpointInv
<1>2. PICK f : f = Saved
  OBVIOUS
<1>3. /\ valid /\ file' = f
      /\ UNCHANGED <<conf, toks, valid, sig, rows, n, logits, proj, task, snap, ret, hist>>
  BY <1>2 DEF SavePayload
<1>4. PayloadInv(f)
  BY <1>1, <1>2, <1>3, SavedComplete
<1>5. PayloadInv(file)'
  BY <1>3, <1>4 DEF PayloadInv, LayerSaved, Cuda
<1>6. FilesInv'
  BY <1>1, <1>3, <1>5, SnapKept DEF FilesInv
<1> QED BY <1>1, <1>3, <1>6, CheckpointKept, CallKept DEF SessionInv

LEMMA SnapshotTakenKeeps ==
  ASSUME SessionInv, SaveSnapshot
  PROVE  SessionInv'
<1>1. CheckpointInv /\ CheckpointTypes /\ RowsInv /\ CallInv /\ FilesInv
  BY DEF SessionInv, CheckpointInv
<1>2. PICK f : f = Saved
  OBVIOUS
<1>3. /\ valid /\ snap' = f
      /\ UNCHANGED <<conf, toks, valid, sig, rows, n, logits, proj, task, file, ret, hist>>
  BY <1>2 DEF SaveSnapshot
<1>4. PayloadInv(f) /\ Loadable(f)
  BY <1>1, <1>2, <1>3, SavedComplete
<1>5. PayloadInv(snap)'
  BY <1>3, <1>4 DEF PayloadInv, LayerSaved, Cuda
<1>6. Loadable(snap)'
  BY <1>3, <1>4 DEF Loadable
<1>7. PayloadInv(file)'
  BY <1>1, <1>3, FileKept DEF FilesInv
<1> QED BY <1>1, <1>3, <1>5, <1>6, <1>7, CheckpointKept, CallKept DEF SessionInv, FilesInv

LEMMA InitHolds == SessionInit => SessionInv
<1> SUFFICES ASSUME SessionInit PROVE SessionInv
  OBVIOUS
<1>1. /\ task = NoTask /\ file = NoFile /\ snap = NoFile /\ ret = [op |-> "create"]
      /\ \E b \in Backends, c \in Contexts, k \in Chunks : conf = NewConf(b, c, k)
  BY DEF SessionInit
<1>2. ConfOK
  BY <1>1, NewConfFits DEF ConfOK
<1>3. Empty
  BY DEF SessionInit, Empty
<1>4. CheckpointInv
  BY <1>2, <1>3, EmptyServes
<1>5. CallInv
  BY <1>1 DEF CallInv, CallTypes, TaskInv, RetInv
<1>6. FilesInv
  BY <1>1 DEF FilesInv, PayloadInv
<1> QED BY <1>4, <1>5, <1>6 DEF SessionInv

LEMMA NextKeeps == SessionInv /\ [SessionNext]_sessionVars => SessionInv'
<1> SUFFICES ASSUME SessionInv, [SessionNext]_sessionVars PROVE SessionInv'
  OBVIOUS
<1>1. CASE \E c \in Contexts, k \in Chunks : Reopened(c, k)
  BY <1>1, ReopenedKeeps
<1>2. CASE \E p \in Prompts :
             SyncRefused(p) \/ SyncBegin(p) \/ LoadPayload(p) \/ LoadFails(p)
  BY <1>2, RefusedKeeps, BeginKeeps, LoadKeeps, LoadFailsKeeps
<1>3. CASE SyncStep \/ SyncStepFails \/ SyncCancelled \/ SyncDone
  BY <1>3, StepKeeps, StepFailsKeeps, CancelledKeeps, DoneKeeps
<1>4. CASE \E t \in Replies : (\E need \in BOOLEAN : Eval(t, need)) \/ EvalFails(t)
  BY <1>4, EvalKeeps, EvalFailsKeeps
<1>5. CASE OutputLogits \/ SavePayload \/ SaveSnapshot \/ LoadSnapshot \/ LoadSnapshotFails
  BY <1>5, OutputKeeps, SaveKeeps, SnapshotTakenKeeps, SnapshotKeeps, SnapshotFailsKeeps
<1>6. CASE UNCHANGED sessionVars
  <2>1. UNCHANGED <<conf, toks, valid, sig, rows, n, logits, proj, task, file, snap, ret, hist>>
    BY <1>6 DEF sessionVars
  <2> QED BY <2>1, CheckpointKept, CallKept, FilesKept DEF SessionInv
<1> QED BY <1>1, <1>2, <1>3, <1>4, <1>5, <1>6 DEF SessionNext

-----------------------------------------------------------------------------
(* The theorems.                                                           *)

\* The inductive invariant: the rows follow the checkpoint, a running sync
\* stands where its prompt says, a payload holds what it will be asked for
\* (sf37_session_sync_multimodal, sf37_session_eval_internal,
\* sf37_session_save_payload, sf37_session_load_payload).
THEOREM SessionInvariant == SessionSpec => []SessionInv
<1>1. SessionInit => SessionInv
  BY InitHolds
<1>2. SessionInv /\ [SessionNext]_sessionVars => SessionInv'
  BY NextKeeps
<1> QED BY <1>1, <1>2, PTL DEF SessionSpec

\* While the checkpoint is valid, every row the next position attends to, in
\* both kinds of layer, is where the kernels and the CPU look for it and was
\* computed from exactly what the checkpoint tokens stand for: for any window,
\* ring, chunk and context sizes, prompts and images, and after any mixture of
\* syncs, failures, cancels, restarts, loads and snapshots.
THEOREM RowsAlwaysFollow == SessionSpec => []RowsFollowTokens
<1>1. SessionInv => RowsFollowTokens
  <2> SUFFICES ASSUME SessionInv, valid, NEW il \in Layers,
                      NEW pos \in FirstNeeded(il, Len(hist) + 1)..(Len(hist) - 1)
               PROVE  RowOf(il, pos) = SubSeq(hist, 1, pos + 1)
    BY DEF RowsFollowTokens
  <2>1. CheckpointTypes /\ RowsInv
    BY DEF SessionInv, CheckpointInv
  <2>2. /\ ConfOK /\ RowsTyped(rows) /\ Len(hist) = Len(toks) /\ Len(toks) \in Nat
        /\ Len(toks) <= conf.ctx /\ (~Cuda => n[il] = Len(toks))
    BY <2>1 DEF CheckpointTypes, Matches
  <2>3. pos \in Nat /\ pos < Len(toks)
    <3>1. FirstNeeded(il, Len(hist) + 1) \in Nat
      BY <2>2, FirstIs
    <3> QED BY <2>2, <3>1
  <2>4. rows[il][pos % conf.cap[il]] = SubSeq(hist, 1, pos + 1)
    BY <2>1 DEF RowsInv, Holds, Keeps
  <2>5. pos % conf.cap[il] \in DOMAIN rows[il]
    BY <2>2, <2>3, SlotIs DEF RowsTyped
  <2>6. CASE Cuda
    BY <2>4, <2>5, <2>6 DEF RowOf
  <2>7. CASE ~Cuda
    <3>1. pos < conf.ctx
      BY <2>2, <2>3 DEF ConfOK, ConfFits
    <3>2. pos % conf.cap[il] = pos
      BY <2>2, <2>3, <2>7, <3>1, SlotIs
    <3>3. n[il] - (Len(hist) - pos) = pos
      BY <2>2, <2>3, <2>7
    <3> QED BY <2>4, <2>5, <2>7, <3>2, <3>3 DEF RowOf
  <2> QED BY <2>6, <2>7
<1> QED BY <1>1, SessionInvariant, PTL

\* A sync that returns 0 leaves exactly its prompt, its own images' features
\* at the patches, and the logits of its last position when it evaluated
\* anything (sf37_session_sync_multimodal).
THEOREM SyncAlwaysServes == SessionSpec => []SyncServesPrompt
<1>1. SessionInv => SyncServesPrompt
  BY DEF SessionInv, CallInv, RetInv, SyncServesPrompt
<1> QED BY <1>1, SessionInvariant, PTL

\* A checkpoint file holds every row that the position after its tokens needs,
\* in order and of these tokens, whatever was saved when
\* (sf37_session_save_payload).
THEOREM PayloadAlwaysComplete == SessionSpec => []PayloadComplete
<1>1. SessionInv => PayloadComplete
  <2> SUFFICES ASSUME SessionInv, file # NoFile, NEW il \in Layers
               PROVE  LET len == Len(file.hist)
                          count == Len(file.rows[il])
                      IN \A pos \in FirstNeeded(il, len + 1)..(len - 1) :
                           LET k == count - (len - pos) + 1
                           IN k >= 1 /\ file.rows[il][k] = SubSeq(file.hist, 1, pos + 1)
    BY DEF PayloadComplete
  <2>1. LayerSaved(file.rows[il], il, file.hist)
    BY DEF SessionInv, FilesInv, PayloadInv
  <2> QED BY <2>1 DEF LayerSaved
<1> QED BY <1>1, SessionInvariant, PTL

=============================================================================
