-------------------------------- MODULE Vision --------------------------------
(* From a request's images to the rows of the prompt that show them: the     *)
(* windows an image is cut into, the placeholder text that announces them,   *)
(* the batch both are kept in, the encoder that turns each picture into      *)
(* feature rows, the rows' order in image_proj, and the chunks of a prefill  *)
(* that copy them over the embeddings of <im_patch>.  Sizes keep the code's  *)
(* rules at a smaller scale.  A pixel value or a feature is opaque: a cell   *)
(* names the intermediate it equals, of which picture and place, or is Junk. *)
EXTENDS Integers, Sequences, FiniteSets
LOCAL INSTANCE SequencesExt
LOCAL INSTANCE FiniteSetsExt

CONSTANTS
  MainSize, PatchSize,   \* 728 and 504: sides of the encoder's two inputs
  MaxSize,               \* 3024: the longest side that is kept
  MinSide,               \* 32: a long picture thinner than this is squared
  VisionPatch,           \* 14: pixels of a side of a cell of the encoder
  VisionLayers,          \* 47
  PictureSizes,          \* the <<width, height>> a picture can have
  MaxPictures,           \* pictures of a request
  VisionChunk            \* positions a prefill evaluates at a time

ASSUME VisionAssumption ==
  /\ {MainSize, PatchSize, MaxSize, MinSide, VisionPatch} \subseteq Nat \ {0}
  /\ \A s \in {MainSize, PatchSize} : s % (4 * VisionPatch) = 0
  /\ PictureSizes \subseteq (Nat \ {0}) \X (Nat \ {0})

VARIABLES
  visionStage,  \* "collect", "prepare", "encode", "chunks", "done", ...
  fromCli,      \* the command line's request: the text comes last
  given,        \* ghost: the size each picture was prepared to
  batch,        \* sf37_image_batch: mains, patches, newlines, per image
  raw,          \* image_pixels of a request: side and squares
  prompt,       \* the prompt's tokens
  proj,         \* rows of cuda_prefill.image_proj
  encoded,      \* pictures encoded, the row the next one is copied to, the
                \* calls left for the one that is being encoded
  scratch,      \* cuda_vision_state for each of the two sizes
  evaluated     \* first position evaluated, and the rows since

visionVars == <<visionStage, fromCli, given, batch, raw, prompt, proj, encoded,
                scratch, evaluated>>

-----------------------------------------------------------------------------
(* Sizes.                                                                  *)

LOCAL Longer(d) == IF d[1] > d[2] THEN d[1] ELSE d[2]
LOCAL Shorter(d) == IF d[1] < d[2] THEN d[1] ELSE d[2]

(* get_size_for_padding *)
Squared(d) ==
  IF Shorter(d) < MinSide /\ Longer(d) > 4 * Shorter(d)
  THEN <<Longer(d), Longer(d)>> ELSE d

(* get_size_for_preprocess: the product with a rounded quotient may fall *)
(* short of a whole number, which the conversion then cuts off.          *)
Scaled(side, longest) ==
  LET q == (side * MaxSize) \div longest
      exact == (side * MaxSize) % longest = 0 IN
  {IF x = 0 THEN 1 ELSE x : x \in IF exact THEN {q, q - 1} ELSE {q}}

Resized(d) ==
  IF Longer(d) > MaxSize
  THEN Scaled(d[1], Longer(d)) \X Scaled(d[2], Longer(d)) ELSE {d}

(* determine_window_size: 0 for a picture that is not cut *)
WindowSide(long, short) ==
  IF long <= MainSize THEN IF 2 * long > 3 * short THEN short ELSE 0
  ELSE IF long > 4 * short /\ short < PatchSize THEN short ELSE PatchSize

(* get_size_for_crop, one side: whole windows, one more for a rest over 0.2 *)
CropSide(side, win) ==
  IF side < win THEN side
  ELSE win * ((side \div win) + (IF 5 * (side % win) > win THEN 1 ELSE 0))

(* process_source_image: windows along a side, and where the i-th begins *)
WindowsAlong(side, win) == IF side <= win THEN 1 ELSE (side + win - 1) \div win
WindowStart(i, side, win) ==
  IF WindowsAlong(side, win) > 1 /\ (i + 1) * win > side THEN side - win ELSE i * win

(* image_crop *)
CropFits(x, y, win, w, h) == x <= w /\ y <= h /\ win <= w - x /\ win <= h - y

-----------------------------------------------------------------------------
(* The batch and the text that announces it.                               *)

(* The square of side `side` around area <<x, y, w, h>> of picture src when *)
(* the picture is scaled to the size `on`.                                  *)
Square(src, on, area, side) == [src |-> src, on |-> on, area |-> area, side |-> side]

MainPicture(src, d) == Square(src, d, <<0, 0, d[1], d[2]>>, MainSize)

(* The windows of a picture of size d in the order they are appended, each *)
(* with its newline flag; process_source_image's two loops.                *)
Windows(src, d) ==
  LET win == WindowSide(Longer(d), Shorter(d))
      w == CropSide(d[1], win)
      h == CropSide(d[2], win)
      nx == WindowsAlong(w, win)
      ny == WindowsAlong(h, win)
      At(k) == LET x == (k - 1) % nx
                   y == (k - 1) \div nx IN
        [square |-> Square(src, <<w, h>>, <<WindowStart(x, w, win),
                             WindowStart(y, h, win), win, win>>, PatchSize),
         newline |-> x + 1 = nx /\ y + 1 # ny]
  IN IF win = 0 THEN <<>> ELSE [k \in 1..(nx * ny) |-> At(k)]

Cuttable(d) ==
  \A k \in DOMAIN Windows(0, d) :
    LET s == Windows(0, d)[k].square IN
    CropFits(s.area[1], s.area[2], s.area[3], s.on[1], s.on[2])

NoBatch == [mains |-> <<>>, patches |-> <<>>, newlines |-> <<>>, per |-> <<>>]

(* append_patch_pixels for each window, append_main_pixels *)
Appended(b, src, d) ==
  LET ws == Windows(src, d) IN
  [mains |-> Append(b.mains, MainPicture(src, d)),
   patches |-> b.patches \o [k \in DOMAIN ws |-> ws[k].square],
   newlines |-> b.newlines \o [k \in DOMAIN ws |-> ws[k].newline],
   per |-> Append(b.per, Len(ws))]

FeatureRows(side) == (side \div (4 * VisionPatch)) * (side \div (4 * VisionPatch))

(* append_placeholder_rows, append_image_placeholder *)
PlaceholderRows(side) ==
  LET tag == IF side = MainSize THEN <<"im_start", "im_end">>
                                ELSE <<"patch_start", "patch_end">> IN
  <<tag[1]>> \o [k \in 1..FeatureRows(side) |-> "im_patch"] \o <<tag[2]>>

(* sf37_image_batch_placeholder_for_image *)
Placeholder(b, i) ==
  LET base == FoldSeq(+, 0, SubSeq(b.per, 1, i - 1))
      One(k) == PlaceholderRows(PatchSize)
                  \o (IF b.newlines[base + k] THEN <<"patch_newline">> ELSE <<>>) IN
  FlattenSeq([k \in 1..b.per[i] |-> One(k)]) \o PlaceholderRows(MainSize)

(* sf37_image_batch_apply_placeholders to a text that holds `count`        *)
(* placeholders with words between them                                    *)
AppliedTo(b, count) ==
  LET all == [i \in DOMAIN b.per |-> Placeholder(b, i)]
      Word(s) == s \o <<"word">> IN
  <<"word">> \o
  (IF count = 0 THEN FlattenSeq(all)
   ELSE FlattenSeq([i \in DOMAIN all |-> Word(all[i])]))

-----------------------------------------------------------------------------
(* A request is put together.                                              *)

NoRaw == [side |-> 0, squares |-> <<>>]
NoScratch == <<>>
Junk == [name |-> "junk"]

(* image_proj holds the rows of an earlier request with two windows: it is *)
(* too small for some requests, and larger than others need.               *)
OldFeatures ==
  [r \in 1..((2 * FeatureRows(PatchSize)) + FeatureRows(MainSize)) |-> Junk]

VisionInit ==
  /\ visionStage = "collect" /\ fromCli \in BOOLEAN
  /\ given = <<>> /\ batch = NoBatch /\ raw = NoRaw /\ prompt = <<>>
  /\ proj = OldFeatures
  /\ encoded = [n |-> 0, row |-> 0, busy |-> FALSE, calls |-> <<>>] /\ scratch = NoScratch
  /\ evaluated = [from |-> 0, rows |-> <<>>]

Refused(why) ==
  /\ visionStage' = why
  /\ UNCHANGED <<fromCli, given, batch, raw, prompt, proj, encoded, scratch,
                 evaluated>>

(* multimodal_push_image_source; sf37_image_batch_add_source for the command *)
(* line.  The request is refused, once it is read, for the first error.      *)
AddPicture(size) ==
  /\ visionStage = "collect" /\ Len(given) < MaxPictures
  /\ IF raw # NoRaw THEN Refused("mixed")
     ELSE \E d \in Resized(Squared(size)) :
       IF ~Cuttable(d) THEN Refused("crop failed")
       ELSE /\ batch' = Appended(batch, Len(given) + 1, d)
            /\ given' = Append(given, d)
            /\ prompt' = IF fromCli THEN prompt
                         ELSE prompt \o Placeholder(batch', Len(given) + 1)
            /\ UNCHANGED <<visionStage, fromCli, raw, proj, encoded, scratch,
                           evaluated>>

(* multimodal_push_pixels and the caller's append_image_placeholder: squares *)
(* of one size.  The debug option of the command line gives one square.      *)
AddPixels(side) ==
  /\ visionStage = "collect" /\ Len(given) < MaxPictures
  /\ fromCli => raw = NoRaw
  /\ IF batch # NoBatch \/ (raw # NoRaw /\ raw.side # side)
     THEN Refused("mixed")
     ELSE LET src == Len(given) + 1
              d == <<side, side>> IN
          /\ raw' = [side |-> side,
                     squares |-> Append(raw.squares,
                        Square(src, d, <<0, 0, side, side>>, side))]
          /\ given' = Append(given, d)
          /\ prompt' = IF fromCli THEN prompt ELSE prompt \o PlaceholderRows(side)
          /\ UNCHANGED <<visionStage, fromCli, batch, proj, encoded, scratch,
                         evaluated>>

(* The server's request is read: the batch or the squares are its own, its *)
(* text holds the placeholders where its pictures stood.                   *)
RequestRead ==
  /\ visionStage = "collect" /\ ~fromCli /\ given # <<>>
  /\ visionStage' = "prepare"
  /\ prompt' = <<"word">> \o prompt \o <<"word">>
  /\ UNCHANGED <<fromCli, given, batch, raw, proj, encoded, scratch, evaluated>>

(* The command line puts the placeholders of all its pictures into a text  *)
(* that holds as many, or behind one that holds none.                      *)
CliPrompt ==
  /\ visionStage = "collect" /\ fromCli /\ given # <<>>
  /\ \E count \in 0..MaxPictures :
       IF count \notin {0, Len(given)} THEN Refused("placeholders")
       ELSE /\ visionStage' = "prepare"
            /\ prompt' = IF raw # NoRaw THEN <<"word">> \o PlaceholderRows(raw.side)
                         ELSE AppliedTo(batch, count)
            /\ UNCHANGED <<fromCli, given, batch, raw, proj, encoded, scratch,
                           evaluated>>

-----------------------------------------------------------------------------
(* The encoder.                                                            *)

(* cuda_vision_state_init *)
GridOf(side) == side \div VisionPatch
Cells1(grid) == 0..((grid * grid) - 1)
Alloc(grid) == [c \in Cells1(grid) |-> Junk]

VisionState(side) ==
  LET g == GridOf(side) IN
  [pixels |-> Alloc(side),
   hidden |-> Alloc(g), norm |-> Alloc(g), qkv |-> Alloc(g), q |-> Alloc(g),
   k |-> Alloc(g), v |-> Alloc(g), attn |-> Alloc(g), mlp |-> Alloc(g),
   down1 |-> Alloc(g \div 2), down2 |-> Alloc(g \div 4),
   projected |-> Alloc(g \div 4)]

(* Cell `at` of the intermediate `name` of block l, for one square *)
Feature(name, l, square, at) == [name |-> name, l |-> l, of |-> square, at |-> at]

(* What the tensors (and the functions without one) are applied to: an      *)
(* intermediate of the same block, "hidden" being the block's input.        *)
VisionOperand ==
  [conv1 |-> "pixels", embedded |-> "conv1", ln_pre |-> "embedded",
   ln1 |-> "hidden", in_proj |-> "ln1",
   q |-> "in_proj", k |-> "in_proj", v |-> "in_proj",
   out_proj |-> "attention", out_bias |-> "out_proj",
   ln2 |-> "attn_sum", fc |-> "ln2", fc_bias |-> "fc", gelu |-> "fc_bias",
   mlp_proj |-> "gelu", mlp_bias |-> "mlp_proj",
   down1 |-> "hidden", down2 |-> "down1", projected |-> "down2"]

(* The input of the next block is ln_pre's output or the last sum. *)
OutputName(w) == IF w \in {"ln_pre", "mlp_sum"} THEN "hidden" ELSE w
OutputLayer(w, l) == IF w = "mlp_sum" THEN l + 1 ELSE l

Given(w, l, old) == Feature(VisionOperand[w], l, old.of, old.at)
Product(w, l, old) ==
  IF old = Junk THEN Junk
  ELSE IF old = Given(w, l, old)
       THEN Feature(OutputName(w), OutputLayer(w, l), old.of, old.at) ELSE Junk

(* Kernels that treat each cell alone, in place or not: matmul_q8_0 and       *)
(* matmul_bf16 of one row, layer_norm, add_pos, add_bias, quick_gelu          *)
PerCell(m, c) == [m EXCEPT ![c.out] = [i \in DOMAIN @ |-> Product(c.w, c.l, m[c.in][i])]]

LayerNormRows(m, c) == PerCell(m, c)
AddPos(m, c) == PerCell(m, c)
AddBias(m, c) == PerCell(m, c)
QuickGelu(m, c) == PerCell(m, c)
MatmulRows(m, c) == PerCell(m, c)

(* vision_qkv_split_rope_bf16_kernel *)
SplitRope(m, c) ==
  LET Part(w) == [i \in DOMAIN m.qkv |-> Product(w, c.l, m.qkv[i])] IN
  [m EXCEPT !.q = Part("q"), !.k = Part("k"), !.v = Part("v")]

(* vision_attention_warp_kernel: one query, the keys and values of all cells *)
AttendAll(m, c) ==
  LET Of(i) == m.q[i].of
      Cpu(i) == m.q[i] # Junk /\ m.q[i] = Feature("q", c.l, Of(i), i)
      Right(i) == /\ Cpu(i)
                  /\ \A j \in DOMAIN m.k :
                       /\ m.k[j] = Feature("k", c.l, Of(i), j)
                       /\ m.v[j] = Feature("v", c.l, Of(i), j)
  IN [m EXCEPT !.attn = [i \in DOMAIN @ |->
        IF Right(i) THEN Feature("attention", c.l, Of(i), i) ELSE Junk]]

(* add_scaled_bf16_kernel: hidden += gamma * norm *)
AddScaled(m, c) ==
  LET base == IF c.w = "attn_sum" THEN "hidden" ELSE "attn_sum"
      term == IF c.w = "attn_sum" THEN "out_bias" ELSE "mlp_bias"
      One(a, b) ==
        IF a = Junk \/ b = Junk THEN Junk
        ELSE IF /\ a = Feature(base, c.l, a.of, a.at)
                /\ b = Feature(term, c.l, a.of, a.at)
        THEN Feature(OutputName(c.w), OutputLayer(c.w, c.l), a.of, a.at) ELSE Junk
  IN [m EXCEPT !.hidden = [i \in DOMAIN @ |-> One(@[i], m.norm[i])]]

(* vision_conv2d_bf16_kernel: cell (oy, ox) sums the cells of its window that *)
(* lie inside the input, row by row of an input of side c.side                *)
Conv2d(m, c) ==
  LET outSide == ((c.side + (2 * c.pad) - c.size) \div c.stride) + 1
      Inside(o) == {i \in (o * c.stride - c.pad)..(o * c.stride - c.pad + c.size - 1) :
                      i >= 0 /\ i < c.side}
      Read(o) == {y * c.side + x : y \in Inside(o \div outSide), x \in Inside(o % outSide)}
      One(o) ==
        LET some == m[c.in][CHOOSE i \in Read(o) : TRUE] IN
        IF /\ some # Junk
           /\ \A i \in Read(o) :
                m[c.in][i] = Feature(VisionOperand[c.w], c.l, some.of, i)
        THEN Feature(c.w, c.l, some.of, o) ELSE Junk
  IN [m EXCEPT ![c.out] = [o \in DOMAIN @ |-> One(o)]]

(* The calls of cuda_vision_encode_one *)
VisionCall(kernel, w, l, in, out) ==
  [kernel |-> kernel, w |-> w, l |-> l, in |-> in, out |-> out]

ConvCall(w, l, in, out, side, size, stride, pad) ==
  [kernel |-> "conv2d", w |-> w, l |-> l, in |-> in, out |-> out,
   side |-> side, size |-> size, stride |-> stride, pad |-> pad]

EmbedCalls(side) ==
  <<ConvCall("conv1", 1, "pixels", "hidden", side, VisionPatch, VisionPatch, 0),
    VisionCall("add_pos", "embedded", 1, "hidden", "hidden"),
    VisionCall("layer_norm", "ln_pre", 1, "hidden", "norm"),
    VisionCall("swap", "", 1, "hidden", "norm")>>

VisionBlock(l) ==
  <<VisionCall("layer_norm", "ln1", l, "hidden", "norm"),
    VisionCall("matmul", "in_proj", l, "norm", "qkv"),
    VisionCall("split_rope", "q", l, "qkv", "q"),
    VisionCall("attention", "attention", l, "q", "attn"),
    VisionCall("matmul", "out_proj", l, "attn", "norm"),
    VisionCall("add_bias", "out_bias", l, "norm", "norm"),
    VisionCall("add_scaled", "attn_sum", l, "norm", "hidden"),
    VisionCall("layer_norm", "ln2", l, "hidden", "norm"),
    VisionCall("matmul", "fc", l, "norm", "mlp"),
    VisionCall("add_bias", "fc_bias", l, "mlp", "mlp"),
    VisionCall("gelu", "gelu", l, "mlp", "mlp"),
    VisionCall("matmul", "mlp_proj", l, "mlp", "norm"),
    VisionCall("add_bias", "mlp_bias", l, "norm", "norm"),
    VisionCall("add_scaled", "mlp_sum", l, "norm", "hidden")>>

ProjectCalls(grid) ==
  LET l == VisionLayers + 1 IN
  <<ConvCall("down1", l, "hidden", "down1", grid, 3, 2, 1),
    ConvCall("down2", l, "down1", "down2", grid \div 2, 3, 2, 1),
    VisionCall("matmul", "projected", l, "down2", "projected")>>

EncodeCalls(side) ==
  EmbedCalls(side) \o FlattenSeq([l \in 1..VisionLayers |-> VisionBlock(l)])
    \o ProjectCalls(GridOf(side))

VisionKernel(c, m) ==
  CASE c.kernel = "conv2d" -> Conv2d(m, c)
    [] c.kernel = "add_pos" -> AddPos(m, c)
    [] c.kernel = "layer_norm" -> LayerNormRows(m, c)
    [] c.kernel = "swap" -> [m EXCEPT !.hidden = m.norm, !.norm = m.hidden]
    [] c.kernel = "matmul" -> MatmulRows(m, c)
    [] c.kernel = "split_rope" -> SplitRope(m, c)
    [] c.kernel = "attention" -> AttendAll(m, c)
    [] c.kernel = "add_bias" -> AddBias(m, c)
    [] c.kernel = "add_scaled" -> AddScaled(m, c)
    [] c.kernel = "gelu" -> QuickGelu(m, c)

UploadedPixels(m, square) ==
  [m EXCEPT !.pixels = [i \in DOMAIN @ |-> Feature("pixels", 1, square, i)]]

-----------------------------------------------------------------------------
(* The rows of the request's pictures.                                     *)

(* cuda_prefill_prepare_image_pixels: the order pictures are encoded in,   *)
(* the windows of an image before its whole.                               *)
EncodeOrder ==
  IF raw # NoRaw THEN raw.squares
  ELSE LET Base(i) == FoldSeq(+, 0, SubSeq(batch.per, 1, i - 1)) IN
       FlattenSeq([i \in DOMAIN batch.per |->
          Append(SubSeq(batch.patches, Base(i) + 1, Base(i) + batch.per[i]),
                 batch.mains[i])])

(* image_features_effective_rows: image_pixels_mixed_feature_rows, and *)
(* image_pixels_feature_rows for each square of one size                *)
EffectiveRows ==
  IF raw # NoRaw THEN Len(raw.squares) * FeatureRows(raw.side)
  ELSE Len(batch.mains) * FeatureRows(MainSize)
         + Len(batch.patches) * FeatureRows(PatchSize)

(* prompt_count_im_patch *)
PatchTokens(from, to) ==
  Cardinality({i \in (from + 1)..to : prompt[i] = "im_patch"})

(* session_prepare_image_signature, then the allocations of                 *)
(* cuda_prefill_prepare_image_pixels: rows of an earlier request stay where *)
(* image_proj is large enough.                                              *)
PrepareImages ==
  /\ visionStage = "prepare"
  /\ IF PatchTokens(0, Len(prompt)) # EffectiveRows THEN Refused("count")
     ELSE /\ visionStage' = "encode"
          /\ proj' = IF Len(proj) < EffectiveRows
                     THEN [r \in 1..EffectiveRows |-> Junk] ELSE proj
          /\ scratch' = [side \in {MainSize, PatchSize} |-> VisionState(side)]
          /\ UNCHANGED <<fromCli, given, batch, raw, prompt, encoded, evaluated>>

(* cuda_vision_encode_one: the pixels are uploaded, the calls made one after  *)
(* the other, and the result copied to image_proj from row encoded.row on.    *)
Encoding == EncodeOrder[encoded.n + 1]

UploadPixels ==
  /\ visionStage = "encode" /\ ~encoded.busy
  /\ encoded.n < Len(EncodeOrder)
  /\ scratch' = [scratch EXCEPT ![Encoding.side] = UploadedPixels(@, Encoding)]
  /\ encoded' = [encoded EXCEPT !.busy = TRUE, !.calls = EncodeCalls(Encoding.side)]
  /\ UNCHANGED <<visionStage, fromCli, given, batch, raw, prompt, proj, evaluated>>

EncodeCall ==
  /\ visionStage = "encode" /\ encoded.calls # <<>>
  /\ scratch' = [scratch EXCEPT ![Encoding.side] = VisionKernel(Head(encoded.calls), @)]
  /\ encoded' = [encoded EXCEPT !.calls = Tail(@)]
  /\ UNCHANGED <<visionStage, fromCli, given, batch, raw, prompt, proj, evaluated>>

CopyProjected ==
  LET projected == scratch[Encoding.side].projected IN
  /\ visionStage = "encode" /\ encoded.busy /\ encoded.calls = <<>>
  /\ proj' = [r \in DOMAIN proj |->
                IF r - 1 - encoded.row \in DOMAIN projected
                THEN projected[r - 1 - encoded.row] ELSE proj[r]]
  /\ encoded' = [n |-> encoded.n + 1, busy |-> FALSE, calls |-> <<>>,
                 row |-> encoded.row + FeatureRows(Encoding.side)]
  /\ UNCHANGED <<visionStage, fromCli, given, batch, raw, prompt, scratch, evaluated>>

(* Any call of the encoder, or an allocation, fails: the prefill gives up. *)
EncodeFails ==
  /\ visionStage = "encode"
  /\ Refused("device")

(* The first position a chunk evaluates: the prompt's, or where a remembered *)
(* prompt with the same images ends.                                         *)
Encoded ==
  /\ visionStage = "encode" /\ encoded.n = Len(EncodeOrder)
  /\ visionStage' = "chunks" /\ scratch' = NoScratch
  /\ \E from \in 0..(Len(prompt) - 1) : evaluated' = [from |-> from, rows |-> <<>>]
  /\ UNCHANGED <<fromCli, given, batch, raw, prompt, proj, encoded>>

-----------------------------------------------------------------------------
(* cuda_prefill_apply_image_features: the chunk's embeddings, and over its *)
(* patches the next rows of image_proj.                                    *)

(* A mistake: rows are counted from the first chunk of this prefill. *)
FeatureRowOfPrefill(pos0) == PatchTokens(evaluated.from, pos0)
FeatureRow(pos0) == PatchTokens(0, pos0)

(* scatter_image_features_f32_kernel: each block counts the patches before it *)
ScatterRow(pos0, t) ==
  IF prompt[pos0 + t] # "im_patch" THEN prompt[pos0 + t]
  ELSE proj[FeatureRow(pos0) + PatchTokens(pos0, pos0 + t - 1) + 1]

Scattered(pos0, count) == [t \in 1..count |-> ScatterRow(pos0, t)]

(* SF37_CUDA_NO_IMAGE_SCATTER: one copy after the other *)
Copied(pos0, count) ==
  LET Next(s, t) ==
        IF prompt[pos0 + t] # "im_patch"
        THEN [s EXCEPT !.rows = Append(@, prompt[pos0 + t])]
        ELSE [rows |-> Append(s.rows, proj[s.row + 1]), row |-> s.row + 1]
  IN FoldLeft(Next, [rows |-> <<>>, row |-> FeatureRow(pos0)],
              [t \in 1..count |-> t]).rows

(* cuda_prefill_chunked_range: up to the next multiple of the chunk *)
NextChunk(pos0) ==
  LET rest == Len(prompt) - pos0
      chunk == IF rest < VisionChunk THEN rest ELSE VisionChunk
      left == VisionChunk - (pos0 % VisionChunk)
  IN IF evaluated.from # 0 /\ pos0 % VisionChunk # 0 /\ left < chunk
     THEN left ELSE chunk

ApplyImages ==
  LET pos0 == evaluated.from + Len(evaluated.rows)
      count == NextChunk(pos0)
      enough == /\ FeatureRow(pos0) <= EffectiveRows
                /\ PatchTokens(pos0, pos0 + count) <= EffectiveRows - FeatureRow(pos0)
  IN /\ visionStage = "chunks"
     /\ IF ~enough THEN Refused("rows")
        ELSE /\ \E rows \in {Scattered(pos0, count), Copied(pos0, count)} :
                  evaluated' = [evaluated EXCEPT !.rows = @ \o rows]
             /\ visionStage' = IF pos0 + count = Len(prompt) THEN "done" ELSE "chunks"
             /\ UNCHANGED <<fromCli, given, batch, raw, prompt, proj, encoded, scratch>>

VisionNext ==
  \/ \E size \in PictureSizes : AddPicture(size)
  \/ \E side \in {MainSize, PatchSize} : AddPixels(side)
  \/ RequestRead \/ CliPrompt
  \/ PrepareImages \/ UploadPixels \/ EncodeCall \/ CopyProjected
  \/ EncodeFails \/ Encoded
  \/ ApplyImages

VisionSpec == VisionInit /\ [][VisionNext]_visionVars

-----------------------------------------------------------------------------
(* What the placeholder text promises, read as the model reads it.         *)

TokensBefore(i, set) == {j \in 1..(i - 1) : prompt[j] \in set}
LastOf(js) == IF js = {} THEN 0 ELSE Max(js)
CountAfter(i, set, j) == Cardinality({t \in TokensBefore(i, set) : t > j})

Starts == {"im_start", "patch_start"}

(* The picture: one <im_end> ends each decoded image, any end a square. *)
PictureAt(i) ==
  1 + Cardinality(TokensBefore(i, IF raw # NoRaw THEN {"im_end", "patch_end"}
                                                 ELSE {"im_end"}))

CellAt(i) == CountAfter(i, {"im_patch"}, LastOf(TokensBefore(i, Starts)))

(* In its picture, the line ends at <patch_newline>, the column counts the *)
(* windows of the line.                                                    *)
LineAt(i) == CountAfter(i, {"patch_newline"}, LastOf(TokensBefore(i, {"im_end"})))
ColumnAt(i) ==
  CountAfter(i, {"patch_end"}, LastOf(TokensBefore(i, {"im_end", "patch_newline"})))

IsWhole(i) == raw # NoRaw \/ prompt[LastOf(TokensBefore(i, Starts))] = "im_start"

PromisedSquare(i) ==
  LET src == PictureAt(i)
      d == given[src]
      win == WindowSide(Longer(d), Shorter(d)) IN
  IF raw # NoRaw THEN Square(src, d, <<0, 0, d[1], d[2]>>, raw.side)
  ELSE IF IsWhole(i) THEN MainPicture(src, d)
  ELSE Square(src, <<CropSide(d[1], win), CropSide(d[2], win)>>,
              <<ColumnAt(i) * win, LineAt(i) * win, win, win>>, PatchSize)

EvaluatedAt(i) == evaluated.rows[i - evaluated.from]
EvaluatedPatches ==
  {i \in (evaluated.from + 1)..(evaluated.from + Len(evaluated.rows)) :
     prompt[i] = "im_patch"}

(* At every <im_patch> a prefill evaluates stands the encoder's feature of    *)
(* exactly the picture, window and cell that the text around it announces,    *)
(* however many pictures and windows there are, wherever the prefill resumes  *)
(* and the chunks end, and whatever earlier pictures left in the buffers      *)
(* (cuda_prefill_prepare_image_pixels, cuda_prefill_apply_image_features).    *)
PatchesShowTheirPictures ==
  \A i \in EvaluatedPatches :
    EvaluatedAt(i) = Feature("projected", VisionLayers + 1, PromisedSquare(i), CellAt(i))

(* The windows announced for an image are a full grid over what it was scaled *)
(* to, and no request is refused because its text and its rows disagree.      *)
LastPatches(src) ==
  {i \in DOMAIN prompt : prompt[i] = "patch_end" /\ PictureAt(i) = src}
WindowsCoverPictures ==
  raw = NoRaw /\ visionStage = "encode" =>
    \A src \in DOMAIN given :
      LET d == given[src]
          win == WindowSide(Longer(d), Shorter(d)) IN
      win # 0 =>
        {<<ColumnAt(i) * win, LineAt(i) * win>> : i \in LastPatches(src)} =
        {<<x * win, y * win>> : x \in 0..((CropSide(d[1], win) \div win) - 1),
                                y \in 0..((CropSide(d[2], win) \div win) - 1)}

PicturesReachTheirPatches ==
  /\ PatchesShowTheirPictures
  /\ WindowsCoverPictures
  /\ visionStage \notin {"count", "rows"}

(* A picture the decoder accepts is not refused for its proportions:       *)
(* README.md and the API accept local JPEG and PNG files of any size.      *)
EveryPictureAccepted == visionStage # "crop failed"
=============================================================================
