----------------------------- MODULE ModelCache -----------------------------
(***************************************************************************)
(* The model weights on the device: the range cache of sf37_cuda.cu with   *)
(* its arenas, its staged uploads and its eviction, the expanded copies of *)
(* Q8_0 tensors, and the kernels that read both.                           *)
(*                                                                         *)
(* One host thread calls the backend.  Kernels run later, in the order of  *)
(* the default stream; uploads are performed by the DMA engine in the      *)
(* order of the upload stream.  Device memory is a set of blocks with what *)
(* each unit of them holds: unit u of the model file, or nothing known.  A *)
(* freed block's address may be handed out again.                          *)
(***************************************************************************)
EXTENDS Integers, Sequences, FiniteSets, FiniteSetsExt

CONSTANTS
  Spans,        \* ranges [off, len] that are preloaded
  Ops,          \* operations: sequences of the tensors [off, len] they read
  CacheLimit,   \* cuda_model_cache_limit_bytes
  ArenaChunk,   \* cuda_model_arena_chunk_bytes
  ArenaAlign,   \* what arena space is a multiple of (256 bytes)
  Stages,       \* staging buffers (4)
  Page,         \* the page size of cudaHostRegister
  MayEvict,     \* cuda_model_eviction_allowed
  MayExpand,    \* cuda_q8_f16_cache_allowed
  MaxKernels,   \* bound: kernels launched and not finished
  MaxFaults     \* bound: calls of the runtime and reads that fail

Tensors == [off : Nat, len : Nat]

(* No single tensor exceeds the budget: a larger one is never cached.       *)
ASSUME ModelCacheAssumption ==
  /\ CacheLimit \in Nat /\ {ArenaChunk, ArenaAlign, Stages, Page} \subseteq Nat \ {0}
  /\ Spans \subseteq Tensors /\ Ops \subseteq Seq(Tensors)
  /\ \A op \in Ops : \A i \in DOMAIN op : op[i].len \in 1..CacheLimit

VARIABLES
  ranges,       \* g_model_ranges
  byOffset,     \* g_model_range_by_offset
  rangeBytes,   \* g_model_range_bytes
  arenas,       \* g_model_arenas
  cacheFull,    \* g_model_cache_full
  mappable,     \* g_model_range_mapping_supported
  expanded,     \* g_q8_f16_by_offset: the block of a tensor's expanded copy
  noExpand,     \* g_q8_f16_disabled_after_oom
  mem,          \* the blocks of device memory, and mapped host pages
  stage,        \* g_model_stage
  dma,          \* copies enqueued on g_model_upload_stream
  kernels,      \* kernels launched on the default stream
  host,         \* where the host thread is; `lost` is kept for the properties:
                \* how many of the pointers it found it has evicted itself
  faults        \* failures so far

cacheVars == <<ranges, byOffset, rangeBytes, arenas, cacheFull, mappable>>
modelCacheVars == <<cacheVars, expanded, noExpand, mem, stage, dma, kernels,
                    host, faults>>

HostIdle == [pc |-> "idle"]
Unknown == -1
Block(len) == [i \in 0..(len - 1) |-> Unknown]
Holding(off, len) == [i \in 0..(len - 1) |-> off + i]
Free == CHOOSE b \in 0..Cardinality(DOMAIN mem) : b \notin DOMAIN mem
WithBlock(b, content) == [x \in DOMAIN mem \cup {b} |-> IF x = b THEN content ELSE mem[x]]
Without(bs) == [x \in DOMAIN mem \ bs |-> mem[x]]

(* What a kernel finds at p: its tensor, or not.                           *)
Reads(p, t) ==
  /\ p.blk \in DOMAIN mem
  /\ \A i \in 0..(t.len - 1) :
       /\ (p.at + i) \in DOMAIN mem[p.blk]
       /\ mem[p.blk][p.at + i] = t.off + i

(* cudaDeviceSynchronize and cudaFree return when nothing is running.      *)
DeviceQuiet == kernels = <<>> /\ dma = <<>>

Init ==
  /\ ranges = <<>> /\ byOffset = <<>> /\ rangeBytes = 0 /\ arenas = <<>>
  /\ cacheFull = FALSE /\ mappable = TRUE
  /\ expanded = <<>> /\ noExpand = FALSE
  /\ mem = <<>>
  /\ stage = [s \in 0..(Stages - 1) |-> Unknown]
  /\ dma = <<>> /\ kernels = <<>>
  /\ host = HostIdle
  /\ faults = 0

-----------------------------------------------------------------------------
(* Lookup.                                                                 *)

RoundDown(v) == (v \div Page) * Page
RoundUp(v) == ((v + Page - 1) \div Page) * Page

(* The pages registered for a mapped range; other ranges have none.        *)
InRange(r, t) == t.off >= r.off /\ t.off + t.len <= r.off + r.len
InPages(r, t) ==
  r.kind = "mapped" /\ t.off >= r.regOff /\ t.off + t.len <= r.regOff + r.regLen
PointerInto(r, t) ==
  IF InRange(r, t) THEN [blk |-> r.blk, at |-> r.at + (t.off - r.off)]
  ELSE [blk |-> r.blk, at |-> t.off - r.regOff]

ExactHit(t) == t.off \in DOMAIN byOffset /\ t.len <= ranges[byOffset[t.off]].len
Containing(t) == {k \in DOMAIN ranges : InRange(ranges[k], t) \/ InPages(ranges[k], t)}
Hit(t) == ExactHit(t) \/ Containing(t) # {}
HitPointer(t) ==
  IF ExactHit(t)
  THEN [blk |-> ranges[byOffset[t.off]].blk, at |-> ranges[byOffset[t.off]].at]
  ELSE PointerInto(ranges[Min(Containing(t))], t)

IsCached(t) == Containing(t) # {}

(* A new range is appended; a range of the same offset loses its index.    *)
Publish(r) ==
  /\ ranges' = Append(ranges, r)
  /\ byOffset' = [o \in DOMAIN byOffset \cup {r.off} |->
                    IF o = r.off THEN Len(ranges) + 1 ELSE byOffset[o]]
  /\ rangeBytes' = rangeBytes + (IF r.kind = "mapped" THEN 0 ELSE r.len)

-----------------------------------------------------------------------------
(* The calls of the host thread.                                           *)

(* The layer-aware and the startup preload: nothing is evicted for it.     *)
StartPreload(t) ==
  /\ host = HostIdle
  /\ ~IsCached(t)
  /\ host' = [pc |-> "acquire", tensors |-> <<t>>, got |-> <<>>, lost |-> 0,
              preload |-> TRUE, expand |-> FALSE]
  /\ UNCHANGED <<cacheVars, expanded, noExpand, mem, stage, dma, kernels, faults>>

(* One operation on mapped weights.  An operation of one Q8_0 tensor first *)
(* looks for, or makes, the expanded copy of the tensor.                   *)
StartOp(op) ==
  /\ host = HostIdle
  /\ Len(kernels) < MaxKernels
  /\ LET tryExpand == Len(op) = 1 /\ MayExpand IN
     IF tryExpand /\ op[1] \in DOMAIN expanded
     THEN /\ kernels' = Append(kernels,
               [kind |-> "matmul", of |-> op, lost |-> 0,
                from |-> <<[blk |-> expanded[op[1]], at |-> 0]>>])
          /\ UNCHANGED host
     ELSE /\ host' = [pc |-> "acquire", tensors |-> op, got |-> <<>>, lost |-> 0,
                      preload |-> FALSE, expand |-> tryExpand /\ ~noExpand]
          /\ UNCHANGED kernels
  /\ UNCHANGED <<cacheVars, expanded, noExpand, mem, stage, dma, faults>>

Wanted == host.tensors[Len(host.got) + 1]
Acquiring(pc) == host.pc = pc /\ Len(host.got) < Len(host.tensors)
Got(p) == host' = [host EXCEPT !.pc = "acquire", !.got = Append(@, p)]

AcquireHit ==
  /\ Acquiring("acquire")
  /\ Hit(Wanted)
  /\ Got(HitPointer(Wanted))
  /\ UNCHANGED <<cacheVars, expanded, noExpand, mem, stage, dma, kernels, faults>>

(* cuda_model_range_release_all, and the eviction that calls it after the  *)
(* device has come to rest.                                                *)
ReleaseAll ==
  /\ ranges' = <<>> /\ byOffset' = <<>> /\ rangeBytes' = 0 /\ arenas' = <<>>
  /\ cacheFull' = FALSE
  /\ mem' = Without({ranges[k].blk : k \in DOMAIN ranges}
                    \cup {arenas[k].blk : k \in DOMAIN arenas})
EvictUnsynchronised == ReleaseAll
Evict ==
  /\ DeviceQuiet
  /\ ReleaseAll

Evictable == ~host.preload /\ MayEvict /\ rangeBytes > 0
OverLimit(t) == rangeBytes > CacheLimit \/ t.len > CacheLimit - rangeBytes

(* A miss that does not fit, or that comes when the cache is full, evicts  *)
(* everything and starts again, or leaves the fd cache.  What the operation *)
(* itself has found so far is evicted with the rest, and it keeps the      *)
(* pointers.                                                               *)
LosesItsOwn == host' = [host EXCEPT !.lost = Len(host.got)]
MissEvict ==
  /\ Acquiring("acquire")
  /\ ~Hit(Wanted)
  /\ OverLimit(Wanted) \/ cacheFull
  /\ Evictable
  /\ Evict
  /\ LosesItsOwn
  /\ UNCHANGED <<mappable, expanded, noExpand, stage, dma, kernels, faults>>

MissNoRoom ==
  /\ Acquiring("acquire")
  /\ ~Hit(Wanted)
  /\ OverLimit(Wanted) \/ cacheFull
  /\ ~Evictable
  /\ cacheFull' = (cacheFull \/ OverLimit(Wanted))
  /\ host' = [host EXCEPT !.pc = "fallback"]
  /\ UNCHANGED <<ranges, byOffset, rangeBytes, arenas, mappable, expanded,
                 noExpand, mem, stage, dma, kernels, faults>>

(* cuda_model_arena_alloc: first fit in the arenas, else a new arena of a  *)
(* chunk, or of just what is needed when the chunk cannot be had.  What is *)
(* aligned beyond the limit gets no arena, and the cache is not full yet.  *)
Aligned(len) == ((len + ArenaAlign - 1) \div ArenaAlign) * ArenaAlign
Needed == Aligned(Wanted.len)
Roomy(len) == {k \in DOMAIN arenas : arenas[k].bytes - arenas[k].used >= len}
ChunkFor(len) == IF len > ArenaChunk \div 2 THEN len ELSE ArenaChunk
Uncached == Acquiring("acquire") /\ ~Hit(Wanted) /\ ~OverLimit(Wanted) /\ ~cacheFull
NewArenaAllowed == Roomy(Needed) = {} /\ Needed <= CacheLimit - rangeBytes
StartUpload(b, at) ==
  host' = [pc |-> "upload", tensors |-> host.tensors, got |-> host.got,
           lost |-> host.lost, preload |-> host.preload, expand |-> host.expand,
           blk |-> b, at |-> at, copied |-> 0]

ArenaFits ==
  /\ Uncached
  /\ Roomy(Needed) # {}
  /\ LET k == Min(Roomy(Needed)) IN
     /\ arenas' = [arenas EXCEPT ![k].used = @ + Needed]
     /\ StartUpload(arenas[k].blk, arenas[k].used)
  /\ UNCHANGED <<ranges, byOffset, rangeBytes, cacheFull, mappable, expanded,
                 noExpand, mem, stage, dma, kernels, faults>>

ArenaDenied ==
  /\ Uncached
  /\ Roomy(Needed) = {} /\ Needed > CacheLimit - rangeBytes
  /\ host' = [host EXCEPT !.pc = "fallback"]
  /\ UNCHANGED <<cacheVars, expanded, noExpand, mem, stage, dma, kernels, faults>>

ArenaNew ==
  /\ Uncached
  /\ NewArenaAllowed
  /\ \E bytes \in {ChunkFor(Needed), Needed} :
       /\ \/ bytes = ChunkFor(Needed) /\ UNCHANGED faults
          \/ bytes # ChunkFor(Needed) /\ faults < MaxFaults /\ faults' = faults + 1
       /\ arenas' = Append(arenas, [blk |-> Free, bytes |-> bytes, used |-> Needed])
       /\ mem' = WithBlock(Free, Block(bytes))
  /\ StartUpload(Free, 0)
  /\ UNCHANGED <<ranges, byOffset, rangeBytes, cacheFull, mappable, expanded,
                 noExpand, stage, dma, kernels>>

(* No memory for an arena: what is cached is given up and the allocation   *)
(* tried again, else the cache counts as full.                             *)
ArenaFails ==
  /\ Uncached
  /\ NewArenaAllowed
  /\ faults < MaxFaults /\ faults' = faults + 1
  /\ IF Evictable
     THEN /\ DeviceQuiet
          /\ ReleaseAll
          /\ LosesItsOwn
     ELSE /\ cacheFull' = TRUE
          /\ host' = [host EXCEPT !.pc = "fallback"]
          /\ UNCHANGED <<ranges, byOffset, rangeBytes, arenas, mem>>
  /\ UNCHANGED <<mappable, expanded, noExpand, stage, dma, kernels>>

-----------------------------------------------------------------------------
(* The staged upload of cuda_model_range_ptr_from_fd.                      *)

Buffer == host.copied % Stages
(* The event of a buffer that is used again has to have passed.            *)
BufferAssumedFree == TRUE
BufferFree == host.copied < Stages \/ \A k \in DOMAIN dma : dma[k].buf # Buffer

StageChunk ==
  /\ host.pc = "upload"
  /\ host.copied < Wanted.len
  /\ BufferFree
  /\ stage' = [stage EXCEPT ![Buffer] = Wanted.off + host.copied]
  /\ dma' = Append(dma, [buf |-> Buffer, blk |-> host.blk, at |-> host.at + host.copied])
  /\ host' = [host EXCEPT !.copied = @ + 1]
  /\ UNCHANGED <<cacheVars, expanded, noExpand, mem, kernels, faults>>

(* A read, a copy or an event that fails ends the upload where it is: the  *)
(* arena keeps what was taken from it, the copies enqueued so far go on.   *)
UploadFails ==
  /\ host.pc = "upload"
  /\ faults < MaxFaults /\ faults' = faults + 1
  /\ host' = [pc |-> "fallback", tensors |-> host.tensors, got |-> host.got,
              lost |-> host.lost, preload |-> host.preload, expand |-> host.expand]
  /\ UNCHANGED <<cacheVars, expanded, noExpand, mem, stage, dma, kernels>>

DmaStep ==
  /\ dma # <<>>
  /\ dma' = Tail(dma)
  /\ mem' = IF Head(dma).blk \in DOMAIN mem
            THEN [mem EXCEPT ![Head(dma).blk][Head(dma).at] = stage[Head(dma).buf]]
            ELSE mem
  /\ UNCHANGED <<cacheVars, expanded, noExpand, stage, kernels, host, faults>>

AllStaged == host.copied = Wanted.len /\ dma = <<>>

UploadDone ==
  /\ host.pc = "upload"
  /\ AllStaged
  /\ Publish([kind |-> "arena", off |-> Wanted.off, len |-> Wanted.len,
              blk |-> host.blk, at |-> host.at, regOff |-> 0, regLen |-> 0])
  /\ host' = [pc |-> "acquire", tensors |-> host.tensors,
              got |-> Append(host.got, [blk |-> host.blk, at |-> host.at]),
              lost |-> host.lost, preload |-> host.preload, expand |-> host.expand]
  /\ UNCHANGED <<arenas, cacheFull, mappable, expanded, noExpand, mem, stage,
                 dma, kernels, faults>>

-----------------------------------------------------------------------------
(* The ways on when the fd cache gave nothing.                             *)

OpFails ==
  /\ host' = HostIdle

Registered == {ranges[k] : k \in {j \in DOMAIN ranges : ranges[j].kind = "mapped"}}
PagesTaken(t) ==
  \E r \in Registered :
     /\ RoundDown(t.off) < r.regOff + r.regLen
     /\ r.regOff < RoundUp(t.off + t.len)

PreloadStops ==
  /\ host.pc = "fallback" /\ host.preload /\ cacheFull
  /\ OpFails
  /\ UNCHANGED <<cacheVars, expanded, noExpand, mem, stage, dma, kernels, faults>>

(* cuda_model_range_register_mapped.                                       *)
RegisterMapped ==
  /\ host.pc = "fallback" /\ ~(host.preload /\ cacheFull)
  /\ mappable
  /\ ~PagesTaken(Wanted)
  /\ LET lo == RoundDown(Wanted.off)
         hi == RoundUp(Wanted.off + Wanted.len) IN
     /\ mem' = WithBlock(Free, Holding(lo, hi - lo))
     /\ Publish([kind |-> "mapped", off |-> Wanted.off, len |-> Wanted.len,
                 blk |-> Free, at |-> Wanted.off - lo,
                 regOff |-> lo, regLen |-> hi - lo])
     /\ Got([blk |-> Free, at |-> Wanted.off - lo])
  /\ UNCHANGED <<arenas, cacheFull, mappable, expanded, noExpand, stage, dma,
                 kernels, faults>>

(* Pages that are registered already, or a device that cannot map at all:  *)
(* the second is remembered.  Then a copy of the range alone, if there is  *)
(* room for it (cuda_model_range_populate_device_copy).                    *)
CopyPlain ==
  /\ host.pc = "fallback" /\ ~(host.preload /\ cacheFull)
  /\ \/ (~mappable \/ PagesTaken(Wanted)) /\ UNCHANGED <<mappable, faults>>
     \/ /\ mappable /\ faults < MaxFaults
        /\ faults' = faults + 1
        /\ mappable' \in BOOLEAN
  /\ IF cacheFull \/ OverLimit(Wanted)
     THEN /\ cacheFull' = TRUE
          /\ OpFails
          /\ UNCHANGED <<ranges, byOffset, rangeBytes, arenas, mem>>
     ELSE /\ mem' = WithBlock(Free, Holding(Wanted.off, Wanted.len))
          /\ Publish([kind |-> "own", off |-> Wanted.off, len |-> Wanted.len,
                      blk |-> Free, at |-> 0, regOff |-> 0, regLen |-> 0])
          /\ Got([blk |-> Free, at |-> 0])
          /\ UNCHANGED <<arenas, cacheFull>>
  /\ UNCHANGED <<expanded, noExpand, stage, dma, kernels>>

CopyPlainFails ==
  /\ host.pc = "fallback" /\ ~(host.preload /\ cacheFull)
  /\ ~mappable \/ PagesTaken(Wanted)
  /\ ~cacheFull /\ ~OverLimit(Wanted)
  /\ faults < MaxFaults /\ faults' = faults + 1
  /\ OpFails
  /\ UNCHANGED <<cacheVars, expanded, noExpand, mem, stage, dma, kernels>>

-----------------------------------------------------------------------------
(* All the pointers are there.                                             *)

AllFound == host.pc = "acquire" /\ Len(host.got) = Len(host.tensors)

PreloadDone ==
  /\ AllFound /\ host.preload
  /\ host' = HostIdle
  /\ UNCHANGED <<cacheVars, expanded, noExpand, mem, stage, dma, kernels, faults>>

Launch ==
  /\ AllFound /\ ~host.preload
  /\ kernels' = Append(kernels, [kind |-> "matmul", of |-> host.tensors,
                                 lost |-> host.lost, from |-> host.got])
  /\ host' = HostIdle
  /\ UNCHANGED <<cacheVars, expanded, noExpand, mem, stage, dma, faults>>

(* cuda_q8_f16_ptr: the copy is made by a kernel of the same stream, and   *)
(* is listed when that kernel is launched.                                 *)
Expand ==
  /\ AllFound /\ host.expand
  /\ LET t == host.tensors[1] IN
     /\ expanded' = [x \in DOMAIN expanded \cup {t} |-> IF x = t THEN Free ELSE expanded[x]]
     /\ mem' = WithBlock(Free, Block(t.len))
     /\ kernels' = kernels \o
          <<[kind |-> "dequant", of |-> host.tensors, lost |-> host.lost,
             from |-> host.got, to |-> Free],
            [kind |-> "matmul", of |-> host.tensors, lost |-> 0,
             from |-> <<[blk |-> Free, at |-> 0]>>]>>
  /\ host' = HostIdle
  /\ UNCHANGED <<cacheVars, noExpand, stage, dma, faults>>

(* Without memory for a copy all copies are given up for good.             *)
Disable ==
  /\ expanded = <<>> \/ DeviceQuiet
  /\ expanded' = <<>>
  /\ mem' = Without({expanded[t] : t \in DOMAIN expanded})
ExpandFails ==
  /\ AllFound /\ host.expand
  /\ faults < MaxFaults /\ faults' = faults + 1
  /\ Disable
  /\ noExpand' = TRUE
  /\ host' = [host EXCEPT !.pc = "acquire", !.expand = FALSE, !.got = <<>>, !.lost = 0]
  /\ UNCHANGED <<cacheVars, stage, dma, kernels>>

(* A GEMM on a listed copy that fails gives up the copies too, and goes on *)
(* with the packed weights.                                                *)
GemmFails(op) ==
  /\ host = HostIdle
  /\ Len(op) = 1 /\ op[1] \in DOMAIN expanded
  /\ faults < MaxFaults /\ faults' = faults + 1
  /\ Disable
  /\ noExpand' = TRUE
  /\ host' = [pc |-> "acquire", tensors |-> op, got |-> <<>>, lost |-> 0,
              preload |-> FALSE, expand |-> FALSE]
  /\ UNCHANGED <<cacheVars, stage, dma, kernels>>

(* The device runs the oldest kernel.                                      *)
KernelStep ==
  /\ kernels # <<>>
  /\ kernels' = Tail(kernels)
  /\ LET k == Head(kernels) IN
     IF k.kind = "dequant" /\ k.to \in DOMAIN mem
     THEN mem' = [mem EXCEPT ![k.to] =
                    IF Reads(k.from[1], k.of[1]) THEN Holding(k.of[1].off, k.of[1].len)
                    ELSE Block(k.of[1].len)]
     ELSE UNCHANGED mem
  /\ UNCHANGED <<cacheVars, expanded, noExpand, stage, dma, host, faults>>

-----------------------------------------------------------------------------
(* The collector evicts between layers; an engine that is closed gives up  *)
(* everything, the next one starts with an empty cache.                    *)
EvictBetweenLayers ==
  /\ host = HostIdle
  /\ ranges # <<>> \/ arenas # <<>>
  /\ Evict
  /\ UNCHANGED <<mappable, expanded, noExpand, stage, dma, kernels, host, faults>>

Reopen ==
  /\ host = HostIdle
  /\ DeviceQuiet
  /\ ranges' = <<>> /\ byOffset' = <<>> /\ rangeBytes' = 0 /\ arenas' = <<>>
  /\ cacheFull' = FALSE /\ mappable' = TRUE
  /\ expanded' = <<>> /\ noExpand' = FALSE
  /\ mem' = <<>>
  /\ stage' = [s \in 0..(Stages - 1) |-> Unknown]
  /\ UNCHANGED <<dma, kernels, host, faults>>

Next ==
  \/ \E t \in Spans : StartPreload(t)
  \/ \E op \in Ops : StartOp(op) \/ GemmFails(op)
  \/ AcquireHit \/ MissEvict \/ MissNoRoom
  \/ ArenaFits \/ ArenaDenied \/ ArenaNew \/ ArenaFails
  \/ StageChunk \/ UploadFails \/ UploadDone \/ DmaStep
  \/ PreloadStops \/ RegisterMapped \/ CopyPlain \/ CopyPlainFails
  \/ PreloadDone \/ Launch \/ Expand \/ ExpandFails \/ KernelStep
  \/ EvictBetweenLayers \/ Reopen

Spec == Init /\ [][Next]_modelCacheVars

-----------------------------------------------------------------------------
(* Properties.                                                             *)

(* When a kernel runs, every pointer that its operation did not evict      *)
(* itself while it looked up the rest still leads to the weights it was    *)
(* asked for: whatever was uploaded, evicted by others, expanded or given  *)
(* up between the lookup and the run, and though a launch only enqueues it *)
(* (sf37_cuda.cu:582-603, 1131-1188, 5948-6044).  Operations look up one   *)
(* tensor or several (6217-6224, 6492-6499).                               *)
KernelsReadWeights ==
  kernels # <<>> =>
    LET k == Head(kernels) IN
      \A i \in (k.lost + 1)..Len(k.of) : Reads(k.from[i], k.of[i])

(* Every pointer does.  It is not so where an operation of several tensors *)
(* may evict: its lookups free what the ones before them found, and only   *)
(* NULL is checked before the launch (sf37_cuda.cu:6492-6499, 1021-1023).  *)
(* It holds of an engine that does not evict (SF37_CUDA_NO_WEIGHT_EVICT).  *)
OperationsReadWeights ==
  kernels # <<>> =>
    LET k == Head(kernels) IN \A i \in DOMAIN k.of : Reads(k.from[i], k.of[i])

(* What is listed as cached is on the device, complete and of its place in *)
(* the file, whatever failed on the way; and all that the budget counts    *)
(* stays below the limit (sf37_cuda.cu:802-1129).                          *)
CachedIsComplete ==
  /\ \A k \in DOMAIN ranges : Reads([blk |-> ranges[k].blk, at |-> ranges[k].at], ranges[k])
  /\ rangeBytes <= CacheLimit
=============================================================================
