# Verification of sf37

sf37 is a local LLM inference engine with a command line client, a benchmark
and an HTTP server (`sf37_server.c`) that offers OpenAI and Anthropic style
endpoints over one session and keeps session snapshots in a directory of
checkpoint files (`sf37_kvstore.c`). It runs on the CPU or on one CUDA device.
This directory holds TLA+ models of the parts that keep state or share memory,
TLC configurations that check them on small instances, and theorems proved with
TLAPS for all values of the constants. Line numbers refer to the sources as
they are next to this directory.

## The system and its parts

| component | state it keeps | operations | talks to |
|---|---|---|---|
| server process (`sf37_server.c` 8346-8465, 8558-8757) | `g_stop_requested`, `g_listen_fd`, `clients`, `gen_mu`, `clients_mu`/`clients_cv`, one detached thread per connection | accept, create thread, handle client, lock/unlock the generation mutex, signal handler, drain, shutdown store, teardown | everything below, under `gen_mu` |
| generation request (7385-8132) | image state, live states, `continued_last_store_tokens` | find what can be reused, evict store, disk load, cold store, prefill, continued store, decode, finish, remember | session, disk cache, tool memory, streaming |
| live states (5638-5775, 6302-6462) | `responses_live`, `anthropic_live`, `thinking_live`: ids or visible text with the position they belong to | clear, remember, match | generation request |
| response streaming (915-1013, 4694-4985, 5018-5333, 6513-7383) | raw text, how much of it was sent, open items, where a stop string may still begin | begin, emit, hold back, cut, parse, close, repair | socket, tool memory |
| tool memory (5387-5425, 5464-5631, 5777-6118) | LRU list of call ids, blocks of sampled text shared by ids, byte count | put, lookup, prune, attach to messages, save to and restore from checkpoint files | request parser, disk cache |
| disk KV cache (`sf37_kvstore.c`) | `*.kv` files named by the SHA-1 of their text, the entry list, the continued-store counter | open, store, rewrite tool map, evict, look up, load, touch, consume | session payloads, file system |
| session (`sf37.c` 4510-7830) | token checkpoint, logits, hidden state, KV rows, image signature, `valid` | create, reset, sync, evaluate, rewind, save and load payload, snapshots | forward pass |
| forward pass on the GPU (`sf37.c` 2900-6180, `sf37_cuda.cu`) | prefill and decode buffers, `g_tmp`, the rings, the logits | a chunk, a token, output, argmax, smoke commands; each call with fused, quantised, cuBLAS, per-row and fallback paths | weight cache |
| routed experts (`sf37_cuda.cu` 4430-6300) | selected experts, counts, offsets, sorted pairs, tiles, mids, imatrix sums | route, sort, compute, sum, fall back, collect | forward pass |
| thread blocks (`sf37_cuda.cu`) | shared arrays between barriers | reductions of argmax, norms, split attention | - |
| weight cache (`sf37_cuda.cu` 380-1500) | ranges, arenas, staging buffers, expanded copies, enqueued kernels | preload, acquire, evict, stage, upload, expand, launch | the mapped model file |
| pictures (`sf37_image.c`, `sf37.c` 4800-5700, `sf37_server.c` 714-800) | batch of windows and mains, placeholder text, `image_proj`, encoder scratch | cut up, announce, encode, copy over the prompt's patches | request parser, forward pass |
| sampling (`sf37.c` 4554-4800) | logits, candidates | argmax, full vocabulary, top-k with top-p and min-p | generation request |
| parsing and rendering of requests, tokenizer, GGUF loader, quantised arithmetic, CLI, bench, `gguf-tools`, `rax`, `stb_image` | tables, buffers | pure computation or vendored code | - |

What is hard here: the signal handler runs on any thread, at any point; main
reads the session at shutdown without the mutex; a store is a sequence of file
operations that a second signal (`_exit(130)`) can cut anywhere, and the files
outlive the process and its `--ctx`; unlink, rename and reads fail one at a
time; a request leaves `run_generation` through a dozen early returns and every
one of them has to leave session, live states and counters consistent for the
next request; limits (budget, context size, tool memory entries and bytes) are
hit in the middle of an operation; text is sent while its meaning (stop string,
tag, tool call, half a character) is still open; the device's buffers are shared by
layers of different widths, by chunks and by abandoned attempts; kernels run
later than their launch, over weights that may be evicted; threads of a block are
ordered by nothing but barriers, and their atomic adds by nothing at all.

The properties that make each part correct:

* server process: one thread at a time uses the session; nothing is freed while
  a thread is left; the count is exact; a stop ends the process; no path keeps
  the mutex.
* disk cache: a file stands for its text; a hit represents the front of the
  prompt; what was stored is found; the budget holds after a store that wrote its
  file; eviction follows its priors; a store returns.
* tool memory: list, map, blocks and byte count agree; the limits hold; the
  least recently used goes first; a message gets only its own text.
* live states and generation: a live state names a position only while the
  session still is the state it was recorded for; a checkpoint is filed only
  under a text its tokens stand for.
* streaming: what was sent is the whole answer and nothing of a stop string;
  items open and close in order.
* session: KV rows, logits and images are those of the checkpoint tokens
  whenever it is valid, through chunks, rings, failures, files and snapshots.
* forward pass, experts, blocks: every path computes what the CPU's layers do,
  in every order of the threads, whatever the buffers held.
* weight cache: a kernel reads nothing but the weights it was launched for, which the
  code keeps through every pointer that the operation itself has not evicted.
* pictures: a patch of the prompt shows what the text around it announces.
* sampling: a token comes from the nucleus the request describes, as often as
  its weight says.

## Modules

| module | models | role |
|---|---|---|
| `KvCache` | - | what the disk cache promises: a partial map from texts to snapshots, filled only with the live snapshot, emptied at will, answering with a prefix of the prompt |
| `KvStore`, `KvStoreProofs` | `sf37_kvstore.c` | the files and the steps of a store, implementing `KvCache`; theorems for all texts, snapshots, budgets and faults |
| `Server`, `ServerProofs` | `sf37_server.c` 8346-8465, 8558-8757 | threads, `gen_mu`, the count of clients, signals, drain; theorems for any finite set of connections |
| `Generation`, `GenerationProofs` | `run_generation` (7385-8132), live states (5638-5775, 6302-6462), the policy part of `sf37_kvstore.c`, sync and evaluation of `sf37.c` | what one request after the other does to the session, the live states and the files; theorems for all vocabularies, texts, contexts and thresholds |
| `ToolMemory`, `ToolMemoryProofs` | tool memory (5335-5344, 5387-5425, 5464-5636, 5777-6118), the blocks of 4987-5016 and 5892-5919 | entries, list, blocks, limits; tool maps in checkpoint files; what attach gives to messages; theorems for all ids, answers, texts and limits |
| `Stream` | the live streams, stop strings, tool markers, final parse and repair of an answer | the events a client receives for every text and every way to cut it into tokens; a theorem about the items for all requests, texts and failing sends, in `ServerProofs` |
| `Session`, `SessionProofs` | `sf37.c` 4510-7830 | tokens, rows, logits and images over sync, evaluation, payloads, snapshots and restarts; theorems for all windows, rings, chunks and prompts |
| `Layer` | the host's programs for the layers and the kernels they launch | one chunk or token through all layers, on every path |
| `RoutedMoe`, `RoutedMoeProofs` | router, sorted batch, tiles, row kernels, imatrix collection | the experts of a batch with its blocks and threads in any order; theorems for all numbers of experts, tokens and lanes, all tiles and scores |
| `Blocks`, `BlocksProofs` | reductions in shared memory | threads of a block, warp by warp, between barriers; theorems for any number of threads, warps and elements, any values, and splits up to the lanes of a warp |
| `ModelCache`, `ModelCacheProofs` | the weight cache | ranges, arenas, staged uploads, eviction, expanded copies and late kernels; theorems for all tensors, budgets, arenas, staging buffers and failures |
| `Vision` | windows, batch, placeholders, encoder, scatter | from the pictures of a request to the rows of its prompt |
| `Sampling` | the samplers | every draw over every setting; a theorem for all vocabularies, logits, settings and draws, in `RoutedMoeProofs` |
| `MCKvStore`, `MCServer`, `MCGeneration`, `MCAnswer`, `MCSession`, `MCForward`, `MCToolMemory`, `MCModelCache`, `MCBlocks`, `MCVision` | - | the values of the constants for TLC |

`Server` shows that the steps between `LockGen` and `UnlockGen` belong to one
thread. `Generation` builds on that: its requests run one after the other and
only the stop of the process comes in between. `KvStore` shows that a store,
whatever interrupts it, leaves either its file or none, under a text the
snapshot may be filed under. `Generation` uses the cache through that promise:
`StoreOutcomes` adds the file or not and may lose others, `LoadHit` takes the
longest text at the front of the prompt. `ToolMemory` stands beside them: requests
use it while they hold `gen_mu`, and its tool maps are the trailers whose sizes
`KvStore` counts. `Session` is what `Generation` abstracts to tokens and
`sess.valid`; `Layer` shows what `Session` takes for granted of a chunk and a
token, `RoutedMoe` and `Blocks` what `Layer` takes for granted of an expert call
and of a reduction, `ModelCache` what all of them take for granted of a weight, and
`Vision` what `Session` takes for granted of the image whose rows are in
`image_proj`. The interfaces are these promises; the products would only repeat
what the separate models show.

Modules that share no state are checked in one run: `MCAnswer` (`Stream`,
`ToolMemory`), `MCSession` (`Session`, `ModelCache`) and `MCForward` (`Layer`,
`Blocks`, `Sampling`, `RoutedMoe`, `Vision`) hold a variable `part` that says which
module moves; the others stay in one idle initial state, and the `VIEW` of the run
is the state of the moving part, so that the state space is the sum of the parts and
not their product.

### KvStore

| model | code |
|---|---|
| `files` | the `*.kv` files; a file is known by its text, as SHA-1 does not collide on the texts of the model. `kc->entry` is rebuilt by `kv_cache_refresh` in every operation that reads it, so it is no state of its own but the operator `Entries` |
| `leftover` | bytes of `*.tmp.<pid>` files of processes killed between `open` and `rename` |
| `live` | the snapshot the session holds: number of tokens, rendered text, visible transcript, payload size |
| `job` | the locals of `sf37_kvstore_store_live_prefix_text`: step, key, reason, trailer size, whether an eviction pass gave up |
| `result` | what the operation that just returned told its caller |
| `StoreBegin`, `Stage`, `EvictVictim`, `EvictDone`, `CreateTemp`, `Publish` | 929-1158, one action between any two points where a file changes or a call may fail. The early returns (too short, compatible file exists, over budget) are in the action of the line they follow |
| `RewriteTrailer` | `kv_cache_rewrite_trailer`, in place |
| `LoadHit`, `LoadMiss`, `LoadCorrupt` | `sf37_kvstore_try_load_text`: the longest prefix, touch (hit counter), consume beyond `cold_max_tokens`, removal of a file whose payload does not restore |
| `Open` | a start of the server, with any `--ctx`, and the budget pass of `sf37_kvstore_open` |
| `Crash` | a second signal (`_exit`) or the loss of the process at any step; a trailer cut off in the middle keeps the payload |
| `Damage` | a file changed by something else |

The contents of a file are its snapshot, reason, hits, context, trailer size and
whether header, text and payload are whole. Time stamps are left out except
where they break ties, which is a choice of the model.

### Server

`main`, `cur` and `woken` are where the main thread is, `pc` where each
connection's thread is, `gen` the holder of `gen_mu`, `clients` the counter
under `clients_mu`, `signals` the number of signals handled, `listening`
`g_listen_fd >= 0`. `FirstSignal(thread)` is the handler on a given thread: it
closes the listening socket whoever runs it, but makes a blocked `accept` return
only on main's own stack. Every early return of `handle_generation_request` is a
disjunct of `TestStop` or `Parse`; `Reply` models `send_all` with its test of
`g_stop_requested` before every write. What a request computes in `Run` is
module `Generation`.

### Generation

A token renders to a piece of text, and a text can be spelled by several
sequences of tokens: the model vocabulary has the letters 1 and 2, the token 12
that spells both, and the letter 0 for reasoning, which clients never send back.
`Tokenize` merges greedily as the BPE does, so what the model decodes as `1 2`
comes back as `12`: the case for which the live states and the text prefix
exist.

| model | code |
|---|---|
| `sess` | `checkpoint.tokens`, `checkpoint_valid` and, as the tokens after which they were computed, `logits` |
| `live` | `responses_live`, `anthropic_live`, `thinking_live`, with the history variable `of`: the checkpoint at the time of remembering |
| `last` | `continued_last_store_tokens` |
| `disk` | the cache as `KvCache` promises it, with the tokens and logits of each file |
| `job` | the locals of `run_generation`; `job.pc` names the stretch of code |
| `said` | the clients: the transcript each would send back |
| `Receive` | 7385-7491: the five ways to reuse the session, in the code's order, and the effective prompt |
| `EvictStore`, `LoadHit`, `LoadMiss` | 7493-7533: store the session that is about to be lost, then look on disk |
| `CheckContext` | 7534-7600: the 400 for long prompts, the choice of the cold checkpoint and the suppression of a continued one |
| `BeginSync`, `Prefill`, `SyncEnds`, `SyncCancelled`, `SyncFails`, `StoreColdPrefix`, `Synced`, `StoreCold` | 7618-7710 and `sf37_session_sync_multimodal`: one or two syncs, token by token or in aligned CUDA chunks, the progress callback that stores continued checkpoints (of a reused prefix too, which a chunked prefill reports before its first chunk, `sf37.c` 6167), the aborts |
| `StartDecode`, `DecodeToken`, `DecodeStops`, `DecodeFails`, `DecodeEnds`, `ClientGone` | 7710-7931 |
| `Finish` | 7932-7997: finish reasons, repair of open tool calls, a tool block that gives no call, what is remembered or cleared |
| `Stop`, `Restart` | the signal, the shutdown store of `main` and a new process over the same files |

A tool block that does not parse becomes the text of the answer. Two details of that are left
out: the reasoning in front of it, which becomes text too, and an empty
`<tool_calls></tool_calls>` block, which disappears.

Where the cold checkpoint is put (chat anchor, trim, alignment) is any length
between the minimum and the prompt; which files an eviction takes is any set.
Both are supersets of what the code does.

### ToolMemory

| model | code |
|---|---|
| `mem` | `tool_memory`: `ids` is `by_id`, `refs[b] > 0` is membership in `by_block`, `users[b]` the chain `block_next`; `prev`, `next`, `head`, `tail`, `stamp`, `clock`, `entries`, `bytes` are the fields of these names. An entry is known by its id |
| `maps` | the tool maps of the checkpoint files, by the text of the file |
| `said` | which calls clients were sent, and the block of the model's text they were in |
| `job` | the locals of remember, restore and attach, and where they are |
| `attached` | the last message attach has finished and the `raw_dsml` it was given |
| `LinkHead`, `Unlink`, `Touch`, `Share`, `Release`, `Detach`, `RemoveEntry`, `Insert`, `PutEntry` | the functions of 5485-5629, one operator each, on the record `mem` |
| `Remember`, `RememberNone`, `Put`, `PruneOne`, `PruneDone` | 5335-5344, 5796-5814, 5577-5582: each call of an answer is put and followed by the prune, one entry at a time; an answer cut off by a limit (7965) is sent with its ids and not remembered |
| `Request`, `RestoreFile`, `Message`, `LookUp`, `Attach` | 6019-6091, 5816-5869: ids collected, every file read for them, every message looked up call by call |
| `SaveMap`, `LoadMap`, `DropFile`, `Restart` | 5921-6017 with 889-927 of `sf37_kvstore.c`, 6093-6118, an eviction, 5631-5636 |
| `Raw`, `Found` | the block an answer's calls are remembered under (4987-5016), the blocks looked for in a text (5892-5919) |

A text is a sequence of characters of which one stands for a whole
`<tool_call>...</tool_call>` and one for a blank line; a remembered block runs from
the first call over the calls and white space after it. The order of the calls of a message, of a chain and of the
directory is left open. Left out are the source of an entry (statistics), the
block formats of other models, and maps cut off or damaged (`KvStore` has those).
A client may send any of the calls of its answers, in messages of their own or joined in one.

### Stream

| model | code |
|---|---|
| `req`, `raw`, `tokens`, `finish`, `scanFrom`, `sawStart`, `sawEnd` | the request and the locals of the decode loop (`stop_scan_from`, `saw_official_tool_start`, ...) |
| `sent` | the live stream: what it is in (thinking or text), how far it has looked, how much it has sent, the items it has open |
| `wire` | the events the client has received |
| `Begin` | 7712-7767: headers and first events, the `init` of the four live streams |
| `Token` | 7805-7921: append, look for a stop string, look for tool markers, `Update` of the stream |
| `DecodeEnds`, `Interrupted`, `Finish` | 7786-7804, 7936-7939, 7932-8106: end of sequence and limit, a complete answer that a shutdown or a failed evaluation makes an error, repair of an open call, final parse, last events |
| `Find`, `Trim`, `Hold`, `StopPos`, `StopSafe`, `TextLimit`, `Split`, `BlockEnd`, `Parse` ... | the text functions of these names in `sf37_server.c` |

The text is made of symbols; every marker is two of them, a character may have two
bytes, so that each can be cut in the middle by a token. `StreamWellFormed` reads the events as a
client would (`Client`): what is open after the first n of them. `StreamedIsWhole` is
stated for texts that are `Plain`. Outside it the streams and the final parse
disagree by design of the formats, and nothing documents which is right: a tool
block that is terminated but malformed, think tags when thinking is off, more than one
`</think>`, tool markers in a request without tools, a stop string that overlaps
a tool marker, a text that ends in half a character. A stop string completed by
the last allowed token reports "length". One shape of a call is modelled; the
older `invoke` form and JSON escaping are not.

### Session

| model | code |
|---|---|
| `toks`, `valid`, `sig`, `logits`, `hidden` | the fields of `sf37_session`; logits and hidden states are the history they were computed from |
| `rows`, `n` | the KV rows by slot (the ring of the sliding layer included) and the CPU's row counts; two layers, one full and one sliding, stand for the 45 |
| `conf` | backend, `--ctx` and the capacities computed from them (3059-3091, 3185-3211, 5143-5195) |
| `proj` | the image whose features `cuda_prefill` holds |
| `task` | the locals of a sync in progress |
| `file`, `snap` | a payload on disk, a snapshot in memory |
| `hist` | history variable: what the checkpoint tokens stand for, pixels included |
| `SyncRefused`, `SyncBegin`, `SyncStep`, `SyncStepFails`, `SyncCancelled`, `SyncDone` | 7703-7801 with the chunks of 6089-6202: the refusals (context, image rows), what is kept, where a resumed prefill starts, one chunk or token, its failure, the cancel callback |
| `Eval`, `EvalFails`, `OutputLogits` | 7508-7629 |
| `SavePayload`, `LoadPayload`, `LoadFails` | 6922-7233 with the caller's tests in 7496-7534 of the server and 1239-1309 of the cache |
| `SaveSnapshot`, `LoadSnapshot`, `LoadSnapshotFails` | 7235-7500; a write to the device that fails leaves the snapshot's logits and some of its rows under an invalid checkpoint |
| `Reopened` | a new process with another `--ctx`, another chunk and the same files |

The rows of an abandoned checkpoint are called `Bad` at once in `Reset`, which only
makes the properties stronger. A restart keeps its backend: the header's
`backend_kind` (h[10]) is never checked, and a payload written on CUDA, loaded on the
CPU and then rewound gives every layer a row count (`sf37.c` 6546) that does not match
the rows the load (6516-6519) put in the sliding ones; this was met while modelling. A model
state holds a file or a snapshot, not both. The host's copy of `hidden` is not updated on
CUDA; what a payload would carry of it is `Bad` in `Saved`, and nothing reads it.

### ModelCache

| model | code |
|---|---|
| `ranges`, `byOffset`, `rangeBytes`, `arenas`, `cacheFull`, `mappable` | the globals `g_model_*` of these names |
| `expanded`, `noExpand` | `g_q8_f16_by_offset`, `g_q8_f16_disabled_after_oom`; the f32 copies work in the same way |
| `mem` | what each unit of each block of device memory holds |
| `stage`, `dma` | the staging buffers and the copies enqueued on the upload stream |
| `kernels` | kernels launched and not run yet, with the pointers they were given |
| `host` | where the one host thread is; `lost` is a history variable: how many of the pointers it holds its own lookups have evicted |
| `AcquireHit`, `MissEvict`, `MissNoRoom`, `ArenaFits`, `ArenaDenied`, `ArenaNew`, `ArenaFails`, `StageChunk`, `UploadFails`, `UploadDone`, `DmaStep` | `cuda_model_range_ptr` and `..._from_fd`, 533-1167 |
| `StartPreload`, `RegisterMapped`, `CopyPlain`, `CopyPlainFails`, `PreloadStops`, `PreloadDone` | 876-1010, 1178-1181, 1556-1577, `sf37.c` 3596-3630 |
| `StartOp`, `Launch`, `KernelStep`, `GemmFails` | an operation that looks up its tensors, one or several, and enqueues a kernel |
| `Expand`, `ExpandFails` | 5948-6044 |
| `EvictBetweenLayers`, `Reopen` | 605-607, 1636-1710 |

Only the default mode is modelled: no copy or registration of the whole file, no direct
access. A fused operation (6217-6224, 6492-6499) keeps the pointers of its first tensors while it
looks up the others, and one of these lookups may evict everything: `KernelsReadWeights` is about
the pointers beyond those, which `lost` counts, and `OperationsReadWeights` about all of them. The
first holds always, the second where nothing may be evicted. Arena space is handed out in
multiples of `ArenaAlign` (256 bytes). A single tensor fits the budget (`ModelCacheAssumption`). The second
registration attempt for files of 88 GiB and more is ignored. Arena space that a
failed upload took is lost until the next eviction, and `cacheFull` with no bytes in
ranges is never left by an eviction; both are as in the code and harmless to the properties.

### Layer

| model | code |
|---|---|
| `gpu` | the prefill and decode buffers, `g_tmp`, the rings, the logits: for each cell the name of the intermediate of the CPU's `run_layer_decode` it equals, or `Bad` |
| `todo`, `pos`, `n`, `asked` | the calls the host still has to make for the chunk or token in flight |
| `check` | the smoke command that runs |
| `LayerCalls`, `AttentionPaths`, `MatmulQ8`, `MatvecPair`, `FusedArgmax` ... | one operator for each entry point: the set of kernel sequences it may run, with every path that fails halfway followed by its fallback |
| `PrefillChunk`, `EvalToken`, `Output`, `Step`, `FallBack`, `Abandon`, `Finish` | 6089-6146, 7508-7602: a chunk or token is begun, a call is made, an attempt is given up, the whole fails, the checkpoint grows |
| `Diagnose`, `SecondToken`, `EndDiagnostic` | 3666-4443 |

Arithmetic is opaque; a kernel keeps a cell right when all its operands are the
CPU's. What it cannot tell apart: the rotary width and base, the clamp of the swiglu.
Errors that CUDA reports late end in `Abandon`. The growth of `g_tmp` and
`cuda_bench_decode` are left out; images are in `Session` and `Vision`.

### RoutedMoe

`score`, `selected` are the router's arrays; `counts`, `offsets`, `cursors`, `sortedPairs`,
`tiles` the scratch of the sort; `mid`, `routedMid`, `down`, `out` the activations, known by
the expert, token and weight they came from, `out` a bag of contributions; `stats` the
imatrix sums. `Route` is either router, `ChooseSorted` and `ChooseRows` the path a batch
takes; `CountPair`, `PrefixPairs`, `ScatterPair`, `BuildTiles`, `GateUp`, `ExportAndClear`,
`Down`, `SumPairs` are the kernels, one thread or block at a time in any order;
`ComputeRow`, `RowsDone` the row path; `Collect` reads the buffers into the
imatrix; `NextLayer` and `LayerFails` leave what is in the buffers to the next
layer. A NaN score, and the invalid ids it leads to, are not modelled.

### Blocks

A kernel is a list of instructions for a warp: `Barrier`, `Fold` (one level of a
reduction), `Keep` (a register read from shared memory), `Compute`. `at` is where each
warp is; the threads of a warp step together, as on the devices the code is built for.
A number is opaque: the name of the operation it came from with its operands, and a sum is the bag of its
terms, so that no term may be lost or counted twice, in whatever order they are added; only what is
compared, a logit or the maximum of a part, is an integer (`BestPair`, `Largest`). `BlockPart` is what a
block of the fused argmax's first stage leaves for the second.
The combine of a split attention is checked and proved for as many splits as a warp has
lanes, as the comment of `BlockAsOnCpu` says. With more it races as the layer norm does (`sf37_cuda.cu`
2698, 2707: the maximum is read from the cell that the next sum overwrites), which `BlocksSplit.cfg`
shows; that takes more than 32 splits of 256 rows, a context above 8192 tokens.

### Sampling

`with` is the request, `logits` the row (both infinities and NaN included), `sorted` the order `qsort` gives (ties in any order); the token is
an operator of these and of the draw, so one state stands for every draw. `Falloff` gives the weight by the
gap to the largest logit, `expf(-d / temperature)` for whatever temperature, down to where it
underflows. Weights are exact:
the fallbacks for rounding at the end of each loop are not reached. `top_k` is capped at 1024
(`MaxTopK`) and `min_p` at 1, the latter by the request parser. Met while modelling: a draw of exactly 0 with
`top_p` 1 returns the first id with a finite logit, also when its weight underflowed to zero;
and `sample_argmax` returns 0 when the first logit is
NaN.

### Vision

| model | code |
|---|---|
| `given` | ghost: the size each picture was prepared to |
| `batch`, `raw` | `sf37_image_batch`, `image_pixels` of a request |
| `prompt` | the placeholder tokens among the text |
| `scratch`, `proj`, `encoded` | `cuda_vision_state` of both sizes, `image_proj`, the loop of 5491-5564 |
| `evaluated` | the positions of a prefill and the rows they were given |
| `AddPicture`, `AddPixels` | `multimodal_push_image_source` with `process_source_image`; squares sent ready |
| `RequestRead`, `CliPrompt` | the prompt of the server and of the command line |
| `PrepareImages` | 5051-5095: counts compared, the request refused when they differ |
| `UploadPixels`, `EncodeCall`, `CopyProjected`, `EncodeFails`, `Encoded` | 5273-5564: one call of the encoder after the other, for the windows first and then the main picture |
| `ApplyImages` | 5646-5698, for each chunk |

Sizes keep the code's rules at a smaller scale (`MainSize` 8 for 728 and so on). Scaling
to `MaxSize` multiplies by a rounded quotient, so a side may come out one less (`Scaled`). Pixels
and features are opaque. Ready-made feature rows have no caller. A literal
`<im_patch>` in a user's text is refused by the count; that is not modelled.

## Runs

All runs together take about ten minutes on two workers each. "Distinct" is the number of
distinct states TLC visits.

| run | question | bounds | distinct |
|---|---|---|---|
| `kv_store` | do files, hits, stores, budget and evictions keep their promises, with unlinks that fail, kills anywhere and restarts under another context? | three texts (a system prompt, its continuation, a branch), four snapshots of 0, 2, 3 and 5 tokens around the minimum 2 and the cold limit 4, a budget that holds any two files but neither all three nor the two largest with trailers, trailers of 0 or 2 bytes, one hit counted | 1,501,904 |
| `kv_faults` | do the files implement `KvCache`, does a store return, with damage and failing i/o as well? | a snapshot with reasoning that is filed under either of two texts; six bytes of leftovers (one temporary file) | 189,990 |
| `server` | exclusion, teardown, count, and that requests and the process end | three connections: one in the mutex, one waiting, one in the backlog; signals to main or a client; clients that vanish, failing `accept` and `pthread_create` | 122,533 |
| `gen_reuse` | is what is reused always the client's own transcript, and is the first token drawn from the prompt's logits? | CPU, Responses and Anthropic, three requests, growing prompts, turns that resend the transcript unchanged, answers of up to two tokens, clients that go away | 3,633,335 |
| `gen_faults` | do requests end, and do live states and files stay true, with stops and restarts, failing stores, loads and device calls? | CUDA with chunks of two tokens, Responses, chat and completions, two requests, stop strings on completions, tool calls left open on chat, continued checkpoints every three tokens | 1,505,058 |
| `answer` | does a stream add up to the answer, do its items close in order; do the tool memory's structures agree, do its limits hold, does a message get only its own text? | every text of up to four tokens over ten pieces (markers, halves of markers, white space, both bytes of a character) for seven requests: four endpoints, stop strings of one to three symbols; four ids and three answers (two single calls, two parallel ones), three entries and six bytes where a single call takes two and an entry one, so that either limit is hit first; six uses of the clock | 1,756,533 |
| `session` | do rows, logits, tokens and image stay of one history; does a kernel read its weights? | a conversation of four tokens and an image of two patches with text after it, in two versions of its pixels (symmetric), window 2, contexts of 3 and 5 tokens and chunks of 1 and 2 (rings of 3 and 4 slots, chosen anew at every restart), both backends, payloads and snapshots, failures, refusals and cancels; a weight budget of 5 units with arenas of 4 in steps of 2, an operation of two tensors and two of one, two staging buffers, two kernels in flight, one failure | 773,770 |
| `forward` | does every path of the device compute what the CPU's layers do? | two layers (dense and full, expert and sliding with wider heads), four tokens in chunks of two, ring 3; blocks of four threads in two warps; four logits of three values, all settings, eight draws; three experts of which two are chosen, tiles of two, one or three tokens; two pictures of six proportions, a vision encoder of two blocks, prefill chunks of five | 1,384,037 |

Why the bounds are enough: an interference between requests needs one request
that leaves something behind, one that displaces it and one that picks it up,
so three requests; with two live states, two conversations and prompts of two
and three tokens, positions coincide between conversations, which is what every
match by `live_tokens` has to survive. The context of 20 is never reached in the
passing runs (a request adds at most six tokens); `gen_context` is the instance
where it is. `Step = 20` in `gen_reuse` turns continued checkpoints off, since
`FirstTokenFollowsPrompt` is about a configuration without them (see
`gen_payload` for why it cannot hold with them); `gen_faults` stores them every three tokens.
In `answer` the clock bound ends a behaviour
after six puts and lookups, which is enough to fill the memory, lose an entry, restart,
restore it and look it up; `Restart` begins a new clock. In `session` the conversation is longer than
the window, the smaller ring and two of the smaller chunks, and a reply takes it past the larger ring, so that rings wrap within a sync, in a decode and in a payload; the
two contexts and chunks give a payload that is written from a wrapped ring of one size and loaded into
one of another. A budget of 5 does not hold all tensors, so that operations evict each other's, and the
fused one its own. In
`forward` two layers are enough for a buffer to be reused with another width and for the second
chunk to meet what the first one left. Two pictures are enough for the rows of two sizes
to be interleaved in `image_proj`. Each property has a mutant of a mapped definition
that the run refutes (`PROJECT.json`, "mutants"); the mutated operators stand
before the definition they mutate, marked "Mutant".

`RowsFollowTokens`, `PayloadComplete` and the other state properties of `session` are
about valid checkpoints only, as the code asks `checkpoint_valid` before it uses one;
`SyncServesPrompt` is what makes an invalid one harmless.

Seven configurations are kept to be run by hand, for disagreements whose runs the table
has no room for: `GenerationStop.cfg` and `GenerationTail.cfg` (`MCGeneration`), `ServerRefusal.cfg`
(`MCServer`), `ToolMemorySaved.cfg` (`MCToolMemory`), `ModelCacheFused.cfg` (`MCModelCache`),
`BlocksSplit.cfg` (`MCBlocks`) and `VisionCrop.cfg` (`MCVision`). TLC finds the violation described below in each of them.

### Fairness

* `KvStore`: weak fairness of `Step`. A store is straight-line code that waits for
  nobody; loads, signals and damage are not fair. `StoreReturns` holds although
  `EvictVictim` may fail for ever, because the pass gives up.
* `Server`: weak fairness of main's own steps, of the `accept` that was
  interrupted or has a connection, and of every client thread. Reading ends by
  `SO_RCVTIMEO`, a generation by its token limit; mutexes need no fairness of their own as
  every connection makes one request. Connections, signals and failures are not fair.
* `Generation`: weak fairness of `Serve`, the thread that runs the request. The
  failures (`SyncFails`, `DecodeFails`, `ClientGone`, `Stop`) are outside it.
* The other modules state safety only: their steps are straight-line code of one caller
  or one kernel, and their loops are bounded by their input.

### What the violations show

Four runs and the seven configurations above check a statement of the repository that the
code does not keep; the quotations are in `PROJECT.json`, "findings".

* `gen_payload`: on CUDA a greedy decode reads back only the token; the session is
  stored with tokens of one state and logits of an earlier one. A prompt equal to
  the checkpoint is not evaluated and samples from the old logits. Continued
  checkpoints of a chunked prefill store logits in the same way.
* `gen_context`: the 400 for a long prompt comes after the disk load has replaced
  the session. Live states are matched by position, so a state of another
  conversation at that length is continued. A CUDA sync that fails leaves the same
  (`checkpoint_valid` is not asked), so `PromptContinues` would fail in `gen_faults` too, which
  checks `LiveStatesTrue` (about valid sessions) and `FiledUnderItsText` instead.
* `gen_cut`: a stop string is seen when its last token is sampled; those before it
  are in the session by then, and only the text is cut. A chat with thinking remembers,
  and files, the session under the shorter text.
* `block_race`: `layer_norm_bf16_batch_kernel` reads the mean from the cell that its
  second partial sum overwrites, with no barrier between.
* `GenerationStop.cfg`: a stop cancels a token-by-token prefill exactly at the length a live
  state remembers; the shutdown store files the new tokens under the old transcript.
* `GenerationTail.cfg`: after tool outputs sent without their history the remembered
  transcript is the tail alone, and the session is filed under it.
* `ServerRefusal.cfg`: a request that waited for `gen_mu` while a stop arrived is to
  be answered 503, but `send_all` refuses to write once the stop flag is set: the
  client sees the connection closed.
* `ToolMemorySaved.cfg`: parallel calls are remembered as one block and searched for in a
  checkpoint's text one by one; a call after a blank line is remembered without
  it and searched for with it. Neither is found, so neither is in the tool map,
  and after a restart the calls are rendered anew instead of as sampled.
* `ModelCacheFused.cfg`: fused operations keep the pointers of their first tensors while a
  lookup of a later one may evict everything, so `OperationsReadWeights` is violated. The run `session`
  has the same operation and checks `KernelsReadWeights`, which leaves such pointers out;
  `PinnedKernelsAreSafe` proves that nothing is lost without eviction.
* `BlocksSplit.cfg`: `attention_decode_heads128_split_reduce_kernel` reads the common maximum from
  the cell that its sums overwrite, with no barrier between; more parts than a warp has lanes are needed.
* `VisionCrop.cfg`: a wide, low picture (800 x 300) is refused because its first window does
  not fit into it.

Stop strings in the passing runs are kept to completions, which remember no transcript, and
tool calls left open to chat: a repair appends text that was never evaluated, so a
remembered transcript with it would name more than the session holds.

Met while modelling, without a run:

* rewriting the tool map of an existing file (`sf37_kvstore.c` 1000) runs no budget pass, so
  the directory may stay over `--kv-disk-space-mb` until the next store that writes a file,
  which is why `StoreWithinBudget` speaks of such stores only, and says nothing of this one;
* temporary files of killed processes are never removed and no budget counts them
  (`sf37_kvstore.c` 1061);
* `continued_last_store_tokens` is lowered only by a disk load, so that a new and shorter
  conversation stores no continued checkpoint until it passes the old length (`sf37_kvstore.c` 752);
* a session that shares a prefix with the prompt is announced as a "live token-prefix rewind"
  (`sf37_server.c` 7440), but the sync drops a checkpoint that is not itself a prefix of the
  prompt (`sf37.c` 7747): the prompt is evaluated from its first token, without the evict
  store and the disk lookup;
* a message with some of the calls of an answer is given the text of all of them
  (`sf37_server.c` 5857); no document says what it should get;
* the signal handler clears `g_listen_fd` and closes the descriptor between main's test
  and its own close (`sf37_server.c` 8732); descriptors are not modelled.

## Theorems

`KvStoreProofs` (1094 obligations). The invariant is
`StoreInv == TypeOK /\ FiledUnderItsText /\ JobInv /\ HitRepresentsPrompt`.
`FiledUnderItsText` alone is not inductive: `Publish` writes the live snapshot
under `job.key`, so `JobInv` says that from staging on the key is one of the live
snapshot's keys (no step of the session comes in between) and that a job's reason
and step fit. The lemmas `UnlinkKeepsFiles`, `PublishKeepsFiles`, `RewriteKeepsFiles`,
`TouchKeepsFiles` and `DamageKeepsFiles` say what each change of `files` preserves.
From the invariant follow `TypeCorrect`, `FilesAreFaithful` and `HitsAreFaithful`;
`StoreImplementsCache` maps every step to one of `Advance`,
`Publish`, `Serve` of `KvCache` or to a stutter (`StepImplements`), with the faults
and crashes included. `StoresAreFound` needs a second invariant, `FoundInv`: every file is long enough to be looked
up, the file a store keeps is one the process may load, and stays so until the caller has the
result; `FullPrefix` makes the longest match unique. `EvictionsFollowPriors` is arithmetic: `WeightFactor`
bounds what hits and standing add to a weight, `Denser` compares two quotients.
`StoresStayInBudget` needs `BudgetInv`: from the end of the budget pass to the rename the room the
file takes is reserved (`TotalBytes` and `ExtraBytes` together stay within the budget, unless the pass
gave up because an unlink failed). The bytes of a directory are counted as the cardinality of a set of pairs, one for
every byte of every file, so that a publication (`PublishAdds`) is a disjoint union. Assumed
is `StoreAssumption` only.

`ServerProofs` (1880 obligations with those about `Stream` below). The invariant `ServerInv` adds two facts to
`TypeOK`, `SessionExclusive`, `ClientsCounted` and `NoUseAfterFree`: `InHand`, that a connection which
accept returned has no thread yet, so that creating its thread moves the count
by one; and `HolderInside`, that the holder of `gen_mu` is between `LockGen` and
`UnlockGen`, so that a mutex is free when no thread is left. Cardinality is handled by
`OneMoreThread`, `OneThreadLess` and `NoneCounted`. The theorems hold for any finite set of
connections (`ServerAssumption`).

`ToolMemoryProofs` (1980 obligations). The invariant is
`ToolInv == TypeOK /\ MemInv(mem) /\ Truthful /\ JobInv /\ AttachTrue`. `MemInv` is about a
memory record alone: `Linked` (the links in both directions, with stamps falling
along `next`), `Shared` (chains and reference counts), the number of entries, and
no stamp ahead of the clock. That stamps fall is what makes a list of links a single list: whatever set
of entries is linked, the one with the least stamp has no next one and so is the
tail (`LeastStamp`, from the well-foundedness of the naturals); without it `Unlink` could leave a
cycle behind, and `TailIsOldest` would not hold. The field lemmas (`LinkHeadFields`
... `FreeFields`) say what each operator changes; `TouchKeeps`, `RemoveKeeps`, `InsertKeeps`
and `PutKeeps` carry `MemInv` over the operations; `ToolInvNext` has one step per action. `Truthful`
says that no id stands for another text in the memory, in a file or in a put to
come, and `JobInv` that what attach has matched is the text of every call it has looked
up: `AttachTrue` follows when none is left. From the invariant follow `TypeCorrect`,
`MemoryIsConsistent`, `AttachIsTrue` and `OldestGoesFirst`. `MemInv` also counts: `BytesExact` says
that `bytes` is the size of what is linked, and with the loop of the prune `LimitsHold`
follows. `RestoresServe` is about a whole request: what its load restored and was put before its
attach is there for it. Its invariant `RestoreInv == GivenOnce /\ Steps /\ Restored` says that the entries put
by the request are the most recently used ones, so that a prune reaches one of them only when
nothing else is left, and then the limits, which hold what one request brings, are kept; `GivenOnce` makes
the text of an id unique, so that these entries are finitely many. Assumed is
`ToolAssumption` only: the ids are a finite set and the limits numbers.

`ModelCacheProofs` (2565 obligations). The operations, of any number of tensors, the budget, the chunk and
the alignment of an arena, the number of staging buffers, the page size and the failures are any
(`ModelCacheAssumption`). The invariant is `CacheInv`, in parts:

* `ArenasInv`, `RangesInv`: an arena is a block of its own; a listed range holds its part of the
  file and lies in the taken part of an arena, or in a block without one.
* `DmaInv`: a copy that is under way goes to a taken part of an arena where no range is listed.
  This carries the copies that a failed upload leaves behind: they may still
  write, from a staging buffer that has been reused, but never where something is listed.
* `UploadInv`: what was staged has arrived or is under way with its staging buffer unchanged, so
  that an upload is complete when the stream is empty. That needs `BufferFree`: a buffer
  that is used a second time in an upload has no copy left.
* `ExpandedInv`: an expanded copy has a block of its own, and is filled or will be by a kernel
  launched before any that reads it.
* `HostInv`, `KernelsInv`: a pointer of the host or of a kernel leads into a listed range
  (`Backed`), or to an expanded copy, unless it is one of the first `lost` pointers of its operation,
  which this operation evicted. An eviction comes only when `DeviceQuiet` says that nothing is
  enqueued, so that it takes no pointers but those of the operation that causes it.

`FreeIsNew` shows that there is always an address for a block, `BackedReads` that a backed pointer leads
to its tensor, `HitIsBacked` that every lookup answers one; the actions follow in groups
(`HostOnly`, `Evicts`, `UploadStarts`, `NewRange`, `Launched`, `Disabled`). From `CacheInvariant` follow
`CachedRangesComplete` and `KernelsAreSafe`. `PinnedKernelsAreSafe` assumes `~MayEvict`
(`SF37_CUDA_NO_WEIGHT_EVICT` set) and adds that then nothing is ever lost (`NothingLost`), so that every
kernel reads its weights through every pointer; with eviction that is false (`ModelCacheFused.cfg`).

`SessionProofs` (2699 obligations). The invariant is `SessionInv == CheckpointInv /\ CallInv /\
FilesInv`. `CheckpointInv`: while the checkpoint is valid, every layer holds, each in its slot,
the rows of the positions the next evaluation attends to, computed from what the tokens stand for, and
every patch is of the image that `sig` names. `CallInv`: where the call stands, what of the prompt
it has evaluated, that the logits follow it, and what it has to return. `FilesInv`: a payload and a snapshot are of one history.
`RingSlots` says that the positions of a window lie in different slots of a ring that holds the
window and a chunk, `StoredRows` what a chunk leaves in the ring, `AttendsRight` that what is attended to then
has the right rows; `PrefillServes`, `DecodeServes`, `HostServes` and `SplitAttends` apply this to the
four ways to evaluate; `KeptPrefix`, `ModesFit`, `RoundServes`, `RestoredHolds` and
`SavedComplete` carry it through a sync, a rewind, a load and a save. From `SessionInvariant`
follow `RowsAlwaysFollow`, `SyncAlwaysServes` and `PayloadAlwaysComplete`, for any window, ring, chunk
and context that `SessionAssumption` (the code's own checks) allows, both backends and any
failures.

`GenerationProofs` (3649 obligations). The texts are rendered with `FlattenSeq`, a recursive function. The
induction theorems of the library take an operator, which no prover at hand can instantiate; `Least` (the
well-foundedness of the naturals) and `Induct` (induction stated for a set) do without: `SumsExist`
builds the recursive function, and `FlattenConcat` says that rendering distributes over
concatenation. From it come `RenderConcat`, `VisibleConcat` and `SpellsMore`, that the tokens of a suffix
add the suffix to what is spelled. Assumed of the tokenizer is `Tokenizer`: it answers tokens of the
vocabulary that render to the text. The invariants:

* `TypeInv`: types, and where a request stands: what part of the prompt the session holds in each
  step of a sync, and that an answer follows it. `TypeCorrect` needs nothing but `Tokenizer`.
* `LiveInv`: no live state can match the wrong session. A live state is recognised by its position
  alone. So the prompt of a request that continues one is longer than the session
  (`LiveWays`, `AppendsMore`); once it is evaluated, every live state that is left is of a shorter
  session (`LiveBehind`), and until then the session is the one that was there, or no
  request can end with it (`MatchTrue`). Without `LiveBehind` the step `Finish` would not
  keep `LiveStatesTrue`. `LiveStatesMatch` assumes `Undisturbed`.
* `TextInv`: what the session, the prompt, the live states and the files spell.
  `PromptsContinue` and `FilesFiled` assume `Undisturbed` and `Replayed`.
* `LogitsInv`: after which tokens the logits were computed. `FirstTokensFollow` assumes
  `Undisturbed`, no greedy decodes, and `LoadsUsable`.

The hypotheses are what the disagreements listed above leave over, one for each:
`Undisturbed` excludes the 400 after a load (`gen_context`) and the stop that interrupts a token-by-token
sync (`GenerationStop.cfg`); `Replayed` excludes a device that fails (`gen_context`), stop strings
and repairs where a transcript is remembered (`gen_cut`) and tool outputs without their
history (`GenerationTail.cfg`); greedy decodes and files with old logits are `gen_payload`. TLC finds
`Undisturbed` an invariant of `gen_reuse` and of `gen_faults`, and `LoadsUsable` one of `gen_reuse`: states
under these hypotheses are what the runs explore.

`RoutedMoeProofs` (6484 obligations with those about `Sampling` below). The theorems hold for any number of experts, tokens and slots, any tile, any
warp whose shuffle distances halve down to one, and any scores (`RoutedMoeAssumption`). Three arguments:

* The routers. `Lead` says that a set of experts is ahead of all others in the order of
  `router_score_better_sf37`; two such sets of one size are equal (`LeadersUnique`).
  `PlaceRanks` carries through the insertion that the list is the top of what was scanned, in order, ties to the
  lower id; `TreeStep` that after a shuffle each lane has the best of all lanes congruent to it
  modulo the distance, so that `WarpBestIs` the best of all. `RoutersAgree` follows: both choose
  the same experts, each once.
* The sort. `Counted`, `Ordered` and `Scattered` say what the counters are while the threads run in any
  order; `OneMore` is one thread. `Segments`: the places of different experts are disjoint and cover the
  batch; `TileListIs`: the tiles start at the multiples of `TileM` and fit in `TileCapacity`.
  `PartitionHolds`: every pair of the batch is in exactly one block, and this block reads the weights of
  its expert. It needs all three, for the tiles and for the kernels with a block per pair.
* The sums. `Activating` and `Adding` say what the buffers hold for the pairs whose blocks have run,
  whatever is in the rest of them; `BagsJoin` makes an atomic addition the union of two disjoint sets of
  parts. `Exported` says which of the activations are in `routedMid` before `Collect` reads them.

The invariant `MoeInv` is inductive; `NextInv` has one lemma per action. From it follow `RoutedMatchesCpu`
and `ImatrixIsExact`. The loops of the model are recursive functions whose existence `Recursion` proves.

`Stream` (in `ServerProofs`). `ItemsInOrder` holds for any requests and tokens
(`StreamAssumption`: stop strings are finitely many and not empty, as `stop_list_push` sees to). What a
client has open is a function of the events it has read, so more events, or fewer when sending fails,
change nothing about the earlier ones (`SameBeginning`, `FramedPrefix`). The invariant `StreamInv`: the
server's open item, its index and its text are the client's (`Good`), and the mode says which item may
be open (`Fit`): none once the text is suppressed. `OpenMoves`, `DeltaMoves`, `EmitMoves` and
`EndMoves` keep `Good` over the events of one operation, `ThoughtMoves`, `SpokenMoves` and `UpdateMoves`
over an update, `CallsMove` and `LastMoves` over the end of the stream. Nothing is needed of the text but
that the calls counted in it are a number (`AnswerCalls`): `CountExists` builds the function that counts them
from the end of the text, as every block ends after it begins (`BlockEndIs`).

`BlocksProofs` (4013 obligations). `BlockCorrect` holds for any block of 4 to 1024 threads and warps that divide
it, any number of elements and any values (`BlocksAssumption`), and splits of at most the lanes of a warp:
beyond them the kernel races, see above. The layer norm is left out because it races with any number of elements
(`block_race`). An entry of the shared array is not what one would like it to be all the time: a
warp that is ahead overwrites what another has not read yet, unless a barrier is between. So the invariant
`Good` names, for each thread and level, the stretch of the program in which the entry can be relied on:

* `Together`: no warp is past a barrier that another has not come to.
* `LevelsHold`: from the fold of level i until the next fold thread t takes part in (`Holds`), its entry
  is the reduction of the columns t, t + stride, ... (`Column`). `Spoilt` ends the stretch of the first tree of
  a split attention, whose array the second one reuses: here one needs that the parts, and so the threads
  that write early, lie in the first warp, the one that reads.
* `HeadHolds`, `SplitHolds`, `AnswerHolds`: what the cells of the global memory are, by the position of the
  one warp that writes each.

`Operands` says that both entries a fold reads can be relied on, `NotHit` that no other warp's write
falls into a stretch, `BestJoin`, `LargestJoin` and `SumJoin` that a level joins disjoint sets of elements,
and `CodeIs` and `Where` which instruction stands at which place. `BlockInductive` has one lemma per
action. At the end entry 0 is the reduction of all the columns, that is of all elements (`Shares`); for the argmax over
the parts of a fused matrix product `PartOf` and `Winner` show that the best of the parts' best, with ties
to the lower index, is the first largest logit.

`Sampling` (in `RoutedMoeProofs`, whose lemmas on cardinality it shares). `SamplingCorrect` holds for any vocabulary,
logits, settings, weights by gap and number of draws (`SamplingAssumption`): every draw gives a token of
the nucleus the request describes (`InNucleus`), and each token comes as often as its share of what is left, to
within one draw (`ByWeight`). The scans of the code are recursive functions over the ids, each with its
invariant: `ArgmaxIs`, `WideEnds`, and `TopmostEnds`, that the list of the k best after n ids is the top of these
n, in order, ties to the lower id, which needs that an insertion finds its place (`PlaceExists`) and
keeps this (`InsertedTop`). `CutIs` and `CutDrawable` say where the walk over a sorted list ends and that what it
keeps is the nucleus; `TopmostConsidered` that the list is the set `Considered` counts; `TakenIs` which
draws end at which candidate, and `PlaceShare` and `StepsBetween` how many these are.

Model-checked only:

* `ForwardAsOnCpu` (`Layer`): an inductive invariant has to say, after every launch of every attempt of a
  call, which buffers already hold the row of which layer and which are spoiled until the fallback writes
  them again. That is a property of whole programs (`LayerCalls`, the alternatives and fallbacks of `Paths`)
  and needs an induction over the layers and one over each path, which has not been carried out. TLC runs every path of two layers that between
  them have both kinds of attention and of feed-forward network; more layers repeat the same calls.
* `StreamedIsWhole` (`Stream`) and `PicturesReachTheirPatches` (`Vision`): both compare the outcome of
  folds over data (the events of a text with the final parse of it, the rows of windows and mains with the
  placeholders of a prompt), written with the recursive operators of the community modules. Each of these
  folds would have to be rewritten as a recursive function and given its own induction by hand, as in
  `GenerationProofs` and for `Sampling`.
* The liveness properties `StoreReturns`, `EveryRequestEnds`, `StopExits` and `RequestEnds`: the proof system
  does not handle fairness and ENABLED.

## Not modelled

* Requests with images in `Generation` (they skip the live states; their checkpoints are in `Session`);
  the text of chat templates, JSON, HTTP framing and the tokenizer: functions of their input, tested
  by example in `tests/`.
* The values of floating-point arithmetic, on the CPU and on the device, and what quantisation
  does to them.
* GGUF loading (once, before anything else runs), the binary layout of the payload, the modes of the
  weight cache that copy or register the whole file.
* The generator of random numbers and the reported log probabilities.
* CLI loop, benchmark and `gguf-tools`: sequential programs over the same calls; `rax` and
  `stb_image`: vendored.
* Reuse of descriptors between the signal handler's `close` and main's.

## Plan

Done: `KvCache`, `KvStore`, `Server`, `ToolMemory`, `ModelCache`, `Session`, `Generation`, `RoutedMoe`, `Stream`,
`Blocks`, `Sampling` with proofs; `Layer`, `Vision`. Left, in this order:

1. `ForwardAsOnCpu` for any number of layers, and the folds of `Vision`.
2. The split attention beyond a warp of parts, once its race is gone, and the reduction kernels of `Blocks`
   that are not there yet; requests with images in `Generation`.
