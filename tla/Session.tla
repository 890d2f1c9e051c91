------------------------------- MODULE Session -------------------------------
(***************************************************************************)
(* The inference session of sf37.c: checkpoint tokens, logits and the rows *)
(* of the KV caches, over sync, evaluation, payloads in checkpoint files,  *)
(* snapshots and restarts.                                                 *)
(*                                                                         *)
(* A row, a hidden state or logits are known by the history they were      *)
(* computed from: the sequence of inputs up to their position.  A row      *)
(* computed from anything else than the rows its layer had to attend to is *)
(* Bad, and so is what is computed from it.  The 45 layers are represented *)
(* by one with full and one with sliding attention, in this order.         *)
(***************************************************************************)
EXTENDS Integers, Sequences, FiniteSets

CONSTANTS
  Tokens,       \* the vocabulary
  Patch,        \* the <im_patch> token
  Images,       \* the contents of the images of a prompt, by their hash
  NoImage,
  Prompts,      \* records [toks, img]: the prompts that are synced
  Replies,      \* the tokens a decode evaluates
  Window,       \* SF37_SLIDING_WINDOW
  Align,        \* the 256 of cuda_sliding_cache_cap
  SlidingMax,   \* SF37_CUDA_SLIDING_CACHE_MAX
  SplitMin,     \* cuda_attention_split_min_rows
  SplitChunk,   \* cuda_attention_split_chunk_rows
  ResumeMin,    \* cuda_resume_prefill_min_tokens
  Chunks,       \* what cuda_prefill_default_chunk answers, now or later
  Contexts,     \* the --ctx values of successive processes
  Backends,     \* "cpu", "cuda" or both
  MayFail       \* whether device calls, reads and writes may fail

\* The environment variables of the chunk and split sizes are refused unless
\* positive.  The prompts are those whose <im_patch> tokens are the rows of an
\* image, as the renderers write them: a text or a reply that spells the token
\* out is left out.
ASSUME SessionAssumption ==
  /\ {Window, Align, SlidingMax, SplitChunk} \subseteq Nat \ {0}
  /\ {SplitMin, ResumeMin} \subseteq Nat
  /\ Chunks \subseteq Nat \ {0} /\ Contexts \subseteq Nat \ {0}
  /\ Backends \subseteq {"cpu", "cuda"}
  /\ MayFail \in BOOLEAN
  /\ NoImage \notin Images
  /\ Replies \subseteq Tokens \ {Patch}
  /\ Prompts \subseteq [toks : Seq(Tokens), img : Images \cup {NoImage}]
  /\ \A p \in Prompts : p.img = NoImage => \A i \in DOMAIN p.toks : p.toks[i] # Patch

VARIABLES
  conf,     \* backend, ctx_size and the capacities chosen with them
  toks,     \* checkpoint.tokens
  valid,    \* checkpoint_valid
  sig,      \* image_signature, NoImage when it is not valid
  rows,     \* k_cache / v_cache of the two layers, by slot
  n,        \* cpu_cache.layer[].n
  logits,   \* the history s->logits were computed from
  hidden,   \* the same for s->hidden (cuda_state.hidden)
  proj,     \* the image whose features are in cuda_prefill.image_proj
  task,     \* the sync that is running, and where
  file,     \* a checkpoint file's payload
  snap,     \* a snapshot in memory
  ret,      \* what the last call returned
  hist      \* history variable: what the checkpoint tokens stand for

sessionVars == <<conf, toks, valid, sig, rows, n, logits, hidden, proj, task,
                 file, snap, ret, hist>>

Layers == {"full", "sliding"}
Bad == <<>>
NoFile == [kind |-> "none"]
NoTask == [pc |-> "idle"]

Least(a, b) == IF a <= b THEN a ELSE b
Most(a, b) == IF a >= b THEN a ELSE b

-----------------------------------------------------------------------------
(* Prompts and what they stand for.                                        *)

(* The inputs of a prompt: a text token is itself, the k-th patch is row k *)
(* of the image features.                                                  *)
PatchesIn(ts, last) == Cardinality({i \in 1..last : ts[i] = Patch})

Meaning(p) ==
  [i \in DOMAIN p.toks |->
     IF p.toks[i] = Patch THEN <<p.img, PatchesIn(p.toks, i)>>
                          ELSE <<p.toks[i], 0>>]

(* sf37_session_common_prefix *)
CommonPrefix(p) ==
  IF ~valid THEN 0
  ELSE CHOOSE k \in 0..Least(Len(toks), Len(p.toks)) :
         /\ \A i \in 1..k : toks[i] = p.toks[i]
         /\ \/ k = Least(Len(toks), Len(p.toks))
            \/ toks[k + 1] # p.toks[k + 1]

-----------------------------------------------------------------------------
(* Capacities.                                                             *)

(* cuda_sliding_cache_cap *)
SlidingCap(ctx, chunk) ==
  LET win == Least(Window, ctx)
      wanted == Least(win + chunk, ctx)
      aligned == ((wanted + Align - 1) \div Align) * Align
  IN Most(Least(Least(aligned, ctx), SlidingMax), win)

(* cuda_sliding_cache_prefill_cap, at least 1 (cuda_decode_state_init) *)
PrefillCap(ctx, cap) ==
  LET win == Least(Window, ctx)
  IN IF ctx <= win THEN cap ELSE IF cap <= win THEN 1 ELSE cap - win

NewConf(backend, ctx, chunk) ==
  LET cap == IF backend = "cuda" THEN SlidingCap(ctx, chunk) ELSE ctx
  IN [backend |-> backend, ctx |-> ctx,
      cap |-> [full |-> ctx, sliding |-> cap],
      prefill |-> PrefillCap(ctx, cap)]

(* cuda_prefill_select_chunk_cap: the wanted chunk or a smaller one whose *)
(* scratch can be allocated; 0 when none can.                             *)
ChunkCaps(suffix) ==
  {Least(Least(c, conf.prefill), suffix) : c \in Chunks \cup {suffix}}
    \cup (IF MayFail THEN {0} ELSE {})

-----------------------------------------------------------------------------
(* The layers.                                                             *)

Cuda == conf.backend = "cuda"

(* The rows the position after history h must attend to, its own included. *)
FirstNeeded(il, have) ==
  IF il = "sliding" /\ have > Window THEN have - Window ELSE 0

Required(il, h) ==
  LET first == FirstNeeded(il, Len(h))
  IN [k \in 1..(Len(h) - first) |-> SubSeq(h, 1, first + k)]

(* The first of the rows a position attends to on the device: the start of *)
(* the ring or of the window, whichever is later.                          *)
StartRow(il, pos) ==
  LET have == pos + 1
      ring == IF have > conf.cap[il] THEN have - conf.cap[il] ELSE 0
  IN Most(ring, FirstNeeded(il, have))

(* The rows first .. last - 1, each from its slot of the ring. *)
RowsBetween(cache, il, first, last) ==
  [k \in 1..(last - first) |-> cache[(first + k - 1) % conf.cap[il]]]

(* attention_prefill_heads128_warp_kernel, each position for itself. *)
PrefillAttended(cache, il, pos) ==
  RowsBetween(cache, il, StartRow(il, pos), pos + 1)

(* The grid of the split launch: each block has at most SplitChunk rows    *)
(* and the partial results are put together in the order of the blocks;    *)
(* with a single block the launch is refused.                              *)
SplitAttended(cache, il, first, last) ==
  LET blocks == (last - first + SplitChunk - 1) \div SplitChunk
      from(b) == first + b * SplitChunk
      rowsOf(b) == RowsBetween(cache, il, from(b), Least(from(b + 1), last))
      block(k) == (k - 1) \div SplitChunk
  IN [k \in 1..Least(last - first, blocks * SplitChunk) |->
        rowsOf(block(k))[k - block(k) * SplitChunk]]

(* sf37_cuda_attention_decode_heads_at: long rows are split over blocks. *)
DecodeAttended(cache, il, pos) ==
  LET first == StartRow(il, pos)
      count == pos + 1 - first
  IN IF count >= SplitMin /\ count > SplitChunk
     THEN SplitAttended(cache, il, first, pos + 1)
     ELSE RowsBetween(cache, il, first, pos + 1)

(* attention_decode on the CPU: the last rows of the first m. *)
AttendedCpu(cache, il, m) ==
  LET start == FirstNeeded(il, m)
  IN [k \in 1..(m - start) |-> cache[start + k - 1]]

(* sf37_cuda_store_kv_cache_batch: the rows of a chunk, in their slots. *)
StoreRows(cache, il, hs, pos0) ==
  LET slot(t) == (pos0 + t - 1) % conf.cap[il]
  IN [i \in DOMAIN cache |->
        IF \E t \in DOMAIN hs : slot(t) = i
        THEN hs[CHOOSE t \in DOMAIN hs : slot(t) = i]
        ELSE cache[i]]

(* What a layer makes of the state h after attending to the rows att. *)
Attending(il, h, att) == IF h # Bad /\ att = Required(il, h) THEN h ELSE Bad

(* cuda_prefill_layer: the rows of the whole chunk are stored before any   *)
(* of its positions attends.                                               *)
PrefillLayer(cache, il, hs, pos0) ==
  LET stored == StoreRows(cache, il, hs, pos0)
  IN [cache |-> stored,
      out |-> [t \in DOMAIN hs |->
                 Attending(il, hs[t], PrefillAttended(stored, il, pos0 + t - 1))]]

(* cuda_decode_layer *)
DecodeLayer(cache, il, h, pos) ==
  LET stored == StoreRows(cache, il, <<h>>, pos)
  IN [cache |-> stored,
      out |-> Attending(il, h, DecodeAttended(stored, il, pos))]

(* kv_cache_push: a full cache drops its first row. *)
Push(cache, m, h) ==
  LET cap == Cardinality(DOMAIN cache)
  IN IF m < cap THEN [cache EXCEPT ![m] = h]
     ELSE [i \in DOMAIN cache |-> IF i < cap - 1 THEN cache[i + 1] ELSE h]

(* run_layer_decode: push the row, attend to the cache. *)
HostLayer(cache, m, il, h) ==
  LET pushed == Push(cache, m, h)
      m1 == Least(m + 1, conf.cap[il])
  IN [cache |-> pushed, n |-> m1,
      out |-> Attending(il, h, AttendedCpu(pushed, il, m1))]

(* The states a chunk begins with: its tokens' embeddings, and at patches  *)
(* the rows of image_proj (cuda_prefill_apply_image_features), whatever    *)
(* image that holds.                                                       *)
Inputs(p, pos0, count) ==
  [t \in 1..count |->
     IF \E i \in 1..t : p.toks[pos0 + i] = Patch /\ proj # p.img
     THEN Bad ELSE hist \o SubSeq(Meaning(p), pos0 + 1, pos0 + t)]

(* What a chunk leaves on the device (cuda_prefill_chunk): the caches, the *)
(* hidden state of its last position, and what a device call that fails in *)
(* between can leave of the caches.                                        *)
Chunk(p, pos0, count) ==
  LET d1 == PrefillLayer(rows.full, "full", Inputs(p, pos0, count), pos0)
      d2 == PrefillLayer(rows.sliding, "sliding", d1.out, pos0)
      both == [full |-> d1.cache, sliding |-> d2.cache]
  IN [rows |-> both, n |-> n, out |-> d2.out[count],
      broken |-> {rows, [rows EXCEPT !.full = d1.cache], both}]

(* What one token leaves (the layers of sf37_session_eval_internal), x being *)
(* its embedding.                                                            *)
OneToken(x) ==
  LET h == Append(hist, x)
      pos == Len(toks)
      d1 == DecodeLayer(rows.full, "full", h, pos)
      d2 == DecodeLayer(rows.sliding, "sliding", d1.out, pos)
      both == [full |-> d1.cache, sliding |-> d2.cache]
      h1 == HostLayer(rows.full, n.full, "full", h)
      h2 == HostLayer(rows.sliding, n.sliding, "sliding", h1.out)
  IN IF Cuda
     THEN [rows |-> both, n |-> n, out |-> d2.out,
           broken |-> {rows, [rows EXCEPT !.full = d1.cache], both}]
     ELSE [rows |-> [full |-> h1.cache, sliding |-> h2.cache],
           n |-> [full |-> h1.n, sliding |-> h2.n],
           out |-> h2.out, broken |-> {}]

-----------------------------------------------------------------------------
(* Create, reset, rewind.                                                  *)

EmptyRows(c) == [il \in Layers |-> [i \in 0..(c.cap[il] - 1) |-> Bad]]
NoRows == [il \in Layers |-> 0]

(* sf37_session_create *)
Created(c) ==
  /\ conf' = c
  /\ toks' = <<>> /\ hist' = <<>>
  /\ valid' = TRUE
  /\ sig' = NoImage
  /\ rows' = EmptyRows(c)
  /\ n' = NoRows
  /\ logits' = Bad /\ hidden' = Bad
  /\ proj' = NoImage
  /\ task' = NoTask
  /\ snap' = NoFile
  /\ ret' = [op |-> "create"]

(* session_reset; sf37_session_rewind(s, 0) does the same.  The code leaves *)
(* the rows of the checkpoint it gives up where they are; no later position *)
(* may attend to one, so the model calls them all Bad.                     *)
Reset ==
  /\ toks' = <<>> /\ hist' = <<>>
  /\ valid' = TRUE
  /\ sig' = NoImage
  /\ rows' = EmptyRows(conf)
  /\ n' = IF Cuda THEN n ELSE NoRows

(* sf37_session_rewind to the whole checkpoint, as sync and the benchmark  *)
(* call it: on the CPU every layer is given that many rows.                *)
RewindToEnd ==
  /\ valid' = TRUE
  /\ n' = IF Cuda THEN n ELSE [il \in Layers |-> Len(toks)]
  /\ UNCHANGED <<toks, hist, sig, rows>>

(* A cache directory is used with one backend: bound of the model, and a   *)
(* limit of the code (see the README).                                     *)
Reopened(ctx, chunk) ==
  /\ task = NoTask
  /\ Created(NewConf(conf.backend, ctx, chunk))
  /\ UNCHANGED file

-----------------------------------------------------------------------------
(* sf37_session_sync_multimodal.                                           *)

(* What image_proj holds before the first chunk: the prompt's features are *)
(* uploaded when a patch is left to evaluate.                              *)
Prepared(p, images) == IF images THEN p.img ELSE proj

(* How the rest of the prompt is evaluated: in chunks on the device, token *)
(* by token, or not at all (an error is returned).  The upload may fail.   *)
SyncModes(p, common) ==
  LET suffix == Len(p.toks) - common
      images == PatchesIn(p.toks, Len(p.toks)) > PatchesIn(p.toks, common)
      caps == IF Cuda /\ suffix > 0 /\ suffix >= ResumeMin
              THEN ChunkCaps(suffix) ELSE {0}
      error == [pc |-> "error", cap |-> 0, proj |-> NoImage]
      mode(c) == IF c > 0 THEN [pc |-> "batch", cap |-> c,
                                proj |-> Prepared(p, images)]
                 ELSE IF images THEN [error EXCEPT !.proj = proj]
                 ELSE [pc |-> "token", cap |-> 0, proj |-> proj]
  IN {mode(c) : c \in caps}
       \cup (IF MayFail /\ images /\ caps # {0} THEN {error} ELSE {})

(* The signature is a hash of the features or pixels: equal for equal ones.*)
SameSignature(p) == sig = p.img

StartsOverUnsigned(p, common) ==
  \/ ~valid
  \/ common = 0
  \/ common < Len(toks)

(* Whether nothing is kept of the checkpoint: a prompt with images keeps   *)
(* nothing unless the session's signature is that of its features.         *)
StartsOver(p, common) ==
  \/ p.img # NoImage /\ ~SameSignature(p)
  \/ ~valid
  \/ common = 0
  \/ common < Len(toks)

(* A prompt beyond the context, and one whose <im_patch> tokens are not as *)
(* many as the rows of the image features it comes with, is refused first. *)
SyncRefused(p) ==
  /\ task = NoTask
  /\ Len(p.toks) > conf.ctx \/ p.img # NoImage
  /\ ret' = [op |-> "failed"]
  /\ UNCHANGED <<conf, toks, valid, sig, rows, n, logits, hidden, proj, task,
                 file, snap, hist>>

(* The front of the sync, up to the loop. *)
SyncBegin(p) ==
  LET common == CommonPrefix(p)
      over == StartsOver(p, common)
      kept == IF over THEN 0 ELSE common
  IN /\ task = NoTask
     /\ Len(p.toks) <= conf.ctx
     /\ \/ over /\ Reset
        \/ ~over /\ common < Len(p.toks) /\ RewindToEnd
        \/ /\ ~over
           /\ common = Len(p.toks)
           /\ UNCHANGED <<toks, hist, valid, sig, rows, n>>
     /\ \E mode \in SyncModes(p, kept) :
          /\ proj' = mode.proj
          /\ IF mode.pc = "error"
             THEN /\ task' = NoTask
                  /\ ret' = [op |-> "failed"]
             ELSE /\ task' = [pc |-> mode.pc, cap |-> mode.cap, p |-> p,
                              start |-> kept, pos |-> kept]
                  /\ ret' = [op |-> "none"]
     /\ UNCHANGED <<conf, logits, hidden, file, snap>>

(* The chunk of cuda_prefill_chunked_range at pos: a resumed prefill ends  *)
(* its first chunk at a multiple of the chunk size.                        *)
ChunkAt(t) ==
  LET left == Len(t.p.toks) - t.pos
      chunk == Least(left, t.cap)
  IN IF t.start # 0 /\ t.pos % t.cap # 0
     THEN Least(chunk, t.cap - (t.pos % t.cap)) ELSE chunk

(* What a round of the loop evaluates: a chunk or a token. *)
Round(t) ==
  IF t.pc = "batch" THEN Chunk(t.p, t.pos, ChunkAt(t))
                    ELSE OneToken(<<t.p.toks[t.pos + 1], 0>>)

(* One round, logits being read at the end.  The progress callback of the  *)
(* caller runs after it.                                                   *)
SyncStep ==
  LET t == task
      next == t.pos + (IF t.pc = "batch" THEN ChunkAt(t) ELSE 1)
      e == Round(t)
  IN /\ t.pc \in {"batch", "token"}
     /\ t.pos < Len(t.p.toks)
     /\ rows' = e.rows /\ n' = e.n
     /\ hidden' = e.out
     /\ logits' = IF next = Len(t.p.toks) THEN e.out ELSE logits
     /\ toks' = toks \o SubSeq(t.p.toks, t.pos + 1, next)
     /\ hist' = hist \o SubSeq(Meaning(t.p), t.pos + 1, next)
     /\ valid' = TRUE
     /\ task' = [t EXCEPT !.pos = next]
     /\ UNCHANGED <<conf, sig, proj, file, snap, ret>>

(* A device call of the round fails: some layers have stored their rows. *)
SyncStepFails ==
  /\ MayFail /\ Cuda
  /\ task.pc \in {"batch", "token"}
  /\ task.pos < Len(task.p.toks)
  /\ rows' \in Round(task).broken
  /\ valid' = FALSE
  /\ hidden' = Bad
  /\ task' = NoTask
  /\ ret' = [op |-> "failed"]
  /\ UNCHANGED <<conf, toks, hist, sig, n, logits, proj, file, snap>>

(* The cancel callback, before or after a round: a batch gives the         *)
(* checkpoint up, the loop over tokens keeps what it has.                  *)
SyncCancelled ==
  /\ task.pc \in {"batch", "token"}
  /\ valid' = IF task.pc = "batch" THEN FALSE ELSE valid
  /\ task' = NoTask
  /\ ret' = [op |-> "failed"]
  /\ UNCHANGED <<conf, toks, hist, sig, rows, n, logits, hidden, proj, file,
                 snap>>

SyncDone ==
  /\ task.pc \in {"batch", "token"}
  /\ task.pos = Len(task.p.toks)
  /\ sig' = IF task.p.img # NoImage THEN task.p.img ELSE sig
  /\ task' = NoTask
  /\ ret' = [op |-> "synced", p |-> task.p, count |-> task.pos - task.start]
  /\ UNCHANGED <<conf, toks, valid, rows, n, logits, hidden, proj, file, snap,
                 hist>>

-----------------------------------------------------------------------------
(* Evaluation.                                                             *)

(* The callers evaluate only what follows a call that succeeded. *)
Ready == task = NoTask /\ ret.op \in {"synced", "evaluated", "restored"}

(* sf37_session_eval_internal; without logits (sf37_session_eval_no_logits *)
(* and, on the device, sf37_session_eval_argmax) s->logits keep an older   *)
(* state.                                                                  *)
Eval(token, need) ==
  LET x == <<token, 0>>
      e == OneToken(x)
  IN /\ Ready
     /\ Len(toks) < conf.ctx
     /\ rows' = e.rows /\ n' = e.n
     /\ hidden' = e.out
     /\ logits' = IF need THEN e.out ELSE logits
     /\ toks' = Append(toks, token)
     /\ hist' = Append(hist, x)
     /\ valid' = TRUE
     /\ ret' = [op |-> "evaluated"]
     /\ UNCHANGED <<conf, sig, proj, task, file, snap>>

EvalFails(token) ==
  LET e == OneToken(<<token, 0>>)
  IN /\ MayFail /\ Cuda /\ Ready
     /\ Len(toks) < conf.ctx
     /\ rows' \in e.broken
     /\ hidden' = Bad
     /\ valid' = FALSE
     /\ ret' = [op |-> "failed"]
     /\ UNCHANGED <<conf, toks, hist, sig, n, logits, proj, task, file, snap>>

(* sf37_session_output_logits: the logits of the last hidden state. *)
OutputLogits ==
  /\ Ready
  /\ ret.op = "evaluated"
  /\ logits' = hidden
  /\ UNCHANGED <<conf, toks, valid, sig, rows, n, hidden, proj, task, file,
                 snap, ret, hist>>

-----------------------------------------------------------------------------
(* Payloads and snapshots.                                                 *)

(* session_layer_live_kv_rows *)
LiveRows(il) ==
  LET live == Least(Len(toks), conf.cap[il])
  IN IF ~Cuda /\ il = "sliding" /\ n[il] # 0 THEN Least(live, n[il]) ELSE live

SavedRowsUnrolled(il) == [k \in 1..LiveRows(il) |-> rows[il][k - 1]]

(* The rows as they are written: oldest first, from the ring or from the   *)
(* end of the CPU's cache.                                                 *)
SavedRows(il) ==
  LET count == LiveRows(il)
      first == Len(toks) - count
  IN [k \in 1..count |->
        IF Cuda THEN rows[il][(first + k - 1) % conf.cap[il]]
                ELSE rows[il][n[il] - count + k - 1]]

(* On the device s->hidden is what the last chunk left, not the last token:*)
(* Bad, as nobody may read it before the next evaluation.                  *)
Saved == [kind |-> "saved", ctx |-> conf.ctx, toks |-> toks, hist |-> hist,
          logits |-> logits, hidden |-> IF Cuda THEN Bad ELSE hidden,
          rows |-> [il \in Layers |-> SavedRows(il)]]

(* sf37_session_save_payload for a checkpoint file: between requests, or   *)
(* from the progress callback of a sync, which is called after each round  *)
(* and before the first chunk, when it is about what was kept.             *)
SavePayload ==
  /\ valid
  /\ \/ Ready
     \/ task.pc = "batch"
     \/ task.pc = "token" /\ task.pos > task.start
  /\ Len(toks) > 0
  /\ snap = NoFile
  /\ Cuda \/ \A il \in Layers : n[il] >= LiveRows(il)
  /\ file' = Saved
  /\ UNCHANGED <<conf, toks, valid, sig, rows, n, logits, hidden, proj, task,
                 snap, ret, hist>>

(* sf37_session_save_snapshot, taken by the benchmark after a sync; the    *)
(* benchmark has no checkpoint files.                                      *)
SaveSnapshot ==
  /\ Ready /\ valid
  /\ file = NoFile
  /\ ret.op = "synced"
  /\ Cuda \/ \A il \in Layers : n[il] >= LiveRows(il)
  /\ snap' = Saved
  /\ UNCHANGED <<conf, toks, valid, sig, rows, n, logits, hidden, proj, task,
                 file, ret, hist>>

(* The checks of sf37_session_load_payload against this session's shape. *)
LoadFits(f) ==
  LET live == Least(Len(f.toks), f.ctx)
  IN /\ f.ctx <= conf.ctx
     /\ Len(f.toks) <= conf.ctx
     /\ \A il \in Layers :
          /\ Len(f.rows[il]) <= conf.cap[il]
          /\ Len(f.rows[il]) >=
               (IF il = "full" THEN live ELSE Least(live, Window))

RestoredUnrolled(il, saved, len) ==
  [i \in DOMAIN rows[il] |->
     IF i < Len(saved) THEN saved[i + 1] ELSE rows[il][i]]

(* The rows are written back where the positions belong: a ring slot on    *)
(* the device, from the start of the cache on the CPU.                     *)
Restored(il, saved, len) ==
  LET count == Len(saved)
      slot(k) == IF Cuda THEN (len - count + k - 1) % conf.cap[il] ELSE k - 1
  IN [i \in DOMAIN rows[il] |->
        IF \E k \in 1..count : slot(k) = i
        THEN saved[CHOOSE k \in 1..count : slot(k) = i]
        ELSE rows[il][i]]

Take(f) ==
  /\ toks' = f.toks /\ hist' = f.hist
  /\ valid' = TRUE
  /\ logits' = f.logits /\ hidden' = f.hidden
  /\ rows' = [il \in Layers |-> Restored(il, f.rows[il], Len(f.toks))]
  /\ n' = IF Cuda THEN n ELSE [il \in Layers |-> Len(f.rows[il])]

HasPatch(h) == \E i \in DOMAIN h : h[i][2] > 0

(* A file is found for request p when its text, which carries the hash of  *)
(* the images, is at the front of the request's.                           *)
FileServes(p) ==
  /\ file # NoFile
  /\ Len(file.hist) <= Len(p.toks)
  /\ SubSeq(Meaning(p), 1, Len(file.hist)) = file.hist

(* sf37_session_note_image_features, called when the file has an image key.*)
Noted(p) == IF HasPatch(file.hist) THEN p.img ELSE NoImage

(* A file that ends before the last patch of its request. *)
EndsInImage(p) ==
  /\ p.img # NoImage
  /\ PatchesIn(p.toks, Len(p.toks)) > PatchesIn(p.toks, Len(file.hist))

(* sf37_session_load_payload for request p, and what the server does with  *)
(* it: the image features are noted for a file with an image key; a file   *)
(* that ends before the last patch is given up again.                      *)
LoadPayload(p) ==
  /\ task = NoTask
  /\ FileServes(p)
  /\ LoadFits(file)
  /\ \/ /\ EndsInImage(p)
        /\ Reset
        /\ logits' = file.logits /\ hidden' = file.hidden
     \/ /\ ~EndsInImage(p)
        /\ Take(file)
        /\ sig' = Noted(p)
  /\ ret' = [op |-> "loaded"]
  /\ UNCHANGED <<conf, proj, task, file, snap>>

(* The payload does not fit or cannot be read to its end; the caller       *)
(* rewinds to 0 whatever was replaced.                                     *)
LoadFails(p) ==
  /\ task = NoTask
  /\ FileServes(p)
  /\ MayFail \/ ~LoadFits(file)
  /\ Reset
  /\ logits' \in {logits} \cup (IF LoadFits(file) THEN {file.logits} ELSE {})
  /\ file' = NoFile
  /\ ret' = [op |-> "failed"]
  /\ UNCHANGED <<conf, hidden, proj, task, snap>>

(* sf37_session_load_snapshot, after the benchmark has decoded. *)
LoadSnapshot ==
  /\ Ready
  /\ snap # NoFile
  /\ Take(snap)
  /\ sig' = NoImage
  /\ ret' = [op |-> "restored"]
  /\ UNCHANGED <<conf, proj, task, file, snap>>

(* A write to the device fails: the logits are the snapshot's by then, the *)
(* rows of some layers too, and the checkpoint is not valid.               *)
LoadSnapshotFails ==
  /\ MayFail /\ Cuda
  /\ Ready
  /\ snap # NoFile
  /\ LET back(il) == Restored(il, snap.rows[il], Len(snap.toks)) IN
     rows' \in {rows, [rows EXCEPT !.full = back("full")], [il \in Layers |-> back(il)]}
  /\ logits' = snap.logits /\ hidden' = snap.hidden
  /\ valid' = FALSE
  /\ sig' = NoImage
  /\ ret' = [op |-> "failed"]
  /\ UNCHANGED <<conf, toks, hist, n, proj, task, file, snap>>

-----------------------------------------------------------------------------
SessionInit ==
  /\ \E b \in Backends, c \in Contexts, k \in Chunks : conf = NewConf(b, c, k)
  /\ toks = <<>> /\ hist = <<>>
  /\ valid = TRUE
  /\ sig = NoImage
  /\ rows = EmptyRows(conf)
  /\ n = NoRows
  /\ logits = Bad /\ hidden = Bad
  /\ proj = NoImage
  /\ task = NoTask
  /\ file = NoFile /\ snap = NoFile
  /\ ret = [op |-> "create"]

SessionNext ==
  \/ \E c \in Contexts, k \in Chunks : Reopened(c, k)
  \/ \E p \in Prompts : SyncRefused(p) \/ SyncBegin(p) \/ LoadPayload(p) \/ LoadFails(p)
  \/ SyncStep \/ SyncStepFails \/ SyncCancelled \/ SyncDone
  \/ \E t \in Replies :
       \/ \E need \in BOOLEAN : Eval(t, need)
       \/ EvalFails(t)
  \/ OutputLogits
  \/ SavePayload \/ SaveSnapshot \/ LoadSnapshot \/ LoadSnapshotFails

SessionSpec == SessionInit /\ [][SessionNext]_sessionVars

-----------------------------------------------------------------------------
(* Properties.                                                             *)

(* The row of position pos, where the next evaluation looks for it: in its *)
(* ring slot on the device, counted from the last row on the CPU.          *)
RowOf(il, pos) ==
  LET slot == IF Cuda THEN pos % conf.cap[il] ELSE n[il] - (Len(hist) - pos)
  IN IF slot \in DOMAIN rows[il] THEN rows[il][slot] ELSE Bad

(* While the checkpoint is valid, every row the next position will attend  *)
(* to, in both kinds of layer, was computed from exactly the inputs the    *)
(* checkpoint tokens stand for (sf37_session_sync_multimodal,              *)
(* session_reset, sf37_session_load_payload, the ring of the sliding       *)
(* layers): after any mixture of syncs, failures, cancels, restarts with   *)
(* other capacities, loads and snapshots.                                  *)
RowsFollowTokens ==
  valid => \A il \in Layers :
             \A pos \in FirstNeeded(il, Len(hist) + 1)..(Len(hist) - 1) :
               RowOf(il, pos) = SubSeq(hist, 1, pos + 1)

(* A sync that returns 0 leaves the prompt it was given, the rows of its   *)
(* own images at its patches, and, when it evaluated anything, the logits  *)
(* of its last position: never an earlier request's tokens or image        *)
(* (sf37_session_sync_multimodal, sf37_session_note_image_features).       *)
SyncServesPrompt ==
  ret.op = "synced" =>
    /\ valid
    /\ hist = Meaning(ret.p)
    /\ ret.count > 0 => logits = hist

(* Whatever moment the checkpoint was saved at, from the ring or the CPU's *)
(* cache, the file holds every row that the position after its tokens      *)
(* needs, in order and of these tokens (sf37_session_save_payload).        *)
PayloadComplete ==
  file # NoFile =>
    \A il \in Layers :
      LET len == Len(file.hist)
          count == Len(file.rows[il])
      IN \A pos \in FirstNeeded(il, len + 1)..(len - 1) :
           LET k == count - (len - pos) + 1
           IN k >= 1 /\ file.rows[il][k] = SubSeq(file.hist, 1, pos + 1)

=============================================================================
