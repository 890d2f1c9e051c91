-------------------------------- MODULE Layer --------------------------------
(* The forward pass on the GPU: the sequence of calls by which the host runs *)
(* a prompt chunk or one token through the layers, the kernels each call     *)
(* launches on each of its paths (fused, cuBLAS, quantised, fallback), and   *)
(* the scratch buffers the layers, the chunks and the abandoned attempts     *)
(* share.  A number is opaque: a cell holds the name of the intermediate of  *)
(* the CPU's run_layer_decode it equals, of which layer, token and head, or  *)
(* Bad when the operands were not the CPU's.                                 *)
EXTENDS Integers, Sequences, TLC
LOCAL INSTANCE SequencesExt

CONSTANTS
  Shape,          \* for each layer from 1 on: [full, dense, heads]
  KvHeads,        \* heads of a K or V row
  DenseFf,        \* cells of a dense feed-forward row (an expert's has one)
  Window, Ctx,    \* sliding window and context size
  Chunk,          \* rows of the prefill buffers
  SlidingCap      \* ring rows of a sliding layer

ASSUME LayerAssumption ==
  /\ SlidingCap >= Window + Chunk \/ SlidingCap = Ctx
  /\ \A l \in 1..Len(Shape) : Shape[l].heads % KvHeads = 0

VARIABLES
  gpu,        \* prefill and decode buffers, g_tmp, the rings, the logits read
  todo,       \* calls the host still has to make
  pos,        \* tokens of the checkpoint
  n,          \* tokens in flight, 0 when none
  asked,      \* the calls end by reading the logits or the best token
  check       \* the diagnostic that runs, and the rows it compares

layerVars == <<gpu, todo, pos, n, asked, check>>

Layers == 1..Len(Shape)
OutputStage == Len(Shape) + 1          \* the index of the output "layer"

(***************************************************************************)
(* What the CPU computes.                                                  *)
(***************************************************************************)

Bad == [name |-> "bad", l |-> 0, tok |-> <<"old", 0>>, j |-> 0, form |-> "f32"]

T(name, l, tok, j) ==
  [name |-> name, l |-> l, tok |-> tok, j |-> j, form |-> "f32"]

\* the operand each tensor (or rotation) of a layer is applied to
CpuOperand ==
  [input_norm |-> "hidden",
   q_proj |-> "input_norm", k_proj |-> "input_norm",
   v_proj |-> "input_norm", g_proj |-> "input_norm",
   q_norm |-> "q_proj", k_norm |-> "k_proj",
   q_rope |-> "q_norm", k_rope |-> "k_norm",
   o_proj |-> "attention", post_norm |-> "attn_sum",
   mlp_gate |-> "post_norm", mlp_up |-> "post_norm", mlp_down |-> "mlp_mid",
   router_gate |-> "post_norm",
   share_gate |-> "post_norm", share_up |-> "post_norm",
   share_down |-> "share_mid",
   final_norm |-> "hidden", lm_head |-> "final_norm"]

CpuSwiglu == {<<"mlp_gate", "mlp_up", "mlp_mid">>,
              <<"share_gate", "share_up", "share_mid">>}

CpuSums == {<<"hidden", "o_proj", "attn_sum">>,
            <<"share_down", "routed", "moe_sum">>,
            <<"attn_sum", "mlp_down", "hidden">>,
            <<"attn_sum", "moe_sum", "hidden">>}

QHeads(l) == Shape[l].heads
Width(name, l) ==
  CASE name \in {"q_proj", "q_norm", "q_rope", "g_proj", "attention"} ->
         QHeads(l)
    [] name \in {"k_proj", "k_norm", "k_rope", "v_proj"} -> KvHeads
    [] name \in {"mlp_gate", "mlp_up", "mlp_mid"} -> DenseFf
    [] OTHER -> 1

Row(name, l, tok) == [j \in 0..(Width(name, l) - 1) |-> T(name, l, tok, j)]

(***************************************************************************)
(* The buffers.  A row of width w starts at cell t * w: the width, and so  *)
(* the place of every row but the first, changes from layer to layer.      *)
(***************************************************************************)

MaxHeads == CHOOSE h \in {QHeads(l) : l \in Layers} :
              \A l \in Layers : QHeads(l) <= h

BufferWidth ==
  [hidden |-> 1, attn_norm |-> 1, q |-> MaxHeads, k |-> KvHeads,
   v |-> KvHeads, head_gate |-> MaxHeads, attn_heads |-> MaxHeads,
   attn_out |-> 1, ffn_norm |-> 1, gate |-> DenseFf, up |-> DenseFf,
   mid |-> DenseFf, ffn_out |-> 1, router_logits |-> 1,
   router_selected |-> 1, routed_out |-> 1]
OutputWidth == [output_norm |-> 1, logits |-> 1]

\* g_tmp grows to the widest rows that are converted into it (cuda_tmp_alloc)
Widest == IF DenseFf > MaxHeads THEN DenseFf ELSE MaxHeads

Cells(w) == [i \in 0..(w - 1) |-> Bad]

Prefill == [b \in DOMAIN BufferWidth |-> Cells(Chunk * BufferWidth[b])]
Decode == [b \in DOMAIN BufferWidth |-> Cells(BufferWidth[b])]
            @@ [b \in DOMAIN OutputWidth |-> Cells(1)]

Cap(l) == IF Shape[l].full THEN Ctx ELSE SlidingCap
OldRing(l, name) ==
  [i \in 0..((Cap(l) * KvHeads) - 1) |->
     T(name, l, <<"old", i \div KvHeads>>, i % KvHeads)]

\* Memory no call of this prompt has written, fresh or left by a prompt that
\* was abandoned (the two are one state): the rings hold the rows of that
\* prompt, and what the scratch holds equals nothing of this one.
Left ==
  [p |-> Prefill, d |-> Decode, tmp |-> Cells(Chunk * Widest),
   k |-> [l \in Layers |-> OldRing(l, "k_rope")],
   v |-> [l \in Layers |-> OldRing(l, "v_proj")], next |-> Bad]

NoCheck == [of |-> "none", rows |-> {}]

LayerInit ==
  /\ gpu = Left
  /\ todo = <<>> /\ pos = 0 /\ n = 0 /\ asked = FALSE /\ check = NoCheck

Read(cells, t, w) == [j \in 0..(w - 1) |-> cells[t * w + j]]

(***************************************************************************)
(* The kernels: what one launch does to the memory g of the GPU.           *)
(***************************************************************************)

\* quantize_q8_0, f32_to_f16, f32_to_bf16: the activations, packed in g_tmp
Converted(g, k) ==
  [g EXCEPT !.tmp = [i \in DOMAIN @ |->
     IF i < k.rows * k.width THEN [g[k.side][k.x][i] EXCEPT !.form = k.form]
     ELSE @[i]]]

\* One row of the result of tensor w: the CPU's if the operand row, in the
\* form the kernel reads, is the CPU's operand of w.
Applied(k, w, row) ==
  LET tok == row[0].tok
      cpu == [j \in DOMAIN row |->
                [T(CpuOperand[w], k.l, tok, j) EXCEPT !.form = k.form]]
  IN IF row = cpu THEN Row(w, k.l, tok) ELSE Cells(Width(w, k.l))

Fill(cells, width, rows, Value(_, _)) ==
  [i \in DOMAIN cells |->
     IF i < rows * width THEN Value(i \div width, i % width) ELSE cells[i]]

OperandRow(g, k, t) ==
  Read(IF k.form = "f32" THEN g[k.side][k.x] ELSE g.tmp, t,
       Width(CpuOperand[k.w[1]], k.l))

RmsNorm(g, k) ==
  [g EXCEPT ![k.side][k.y[1]] =
     Fill(@, 1, k.rows,
          LAMBDA t, j : Applied(k, k.w[1], OperandRow(g, k, t))[j])]

\* output o of a kernel that reads its operand once for all its outputs
Output1(g, k, o) ==
  LET w == k.w[o] IN
  [g EXCEPT ![k.side][k.y[o]] =
     Fill(@, Width(w, k.l), k.rows,
          LAMBDA t, j : Applied(k, w, OperandRow(g, k, t))[j])]

Multiplied(g, k) == Output1(g, k, 1)
MultipliedPair(g, k) == Output1(Output1(g, k, 1), k, 2)

\* the fused projection: warp r of the launch finds its matrix by subtraction
QkvgRow(l, r) ==
  LET q == Width("q_proj", l)
      kv == Width("k_proj", l) IN
  CASE r < q -> <<"q_proj", r>>
    [] r >= q /\ r < q + kv -> <<"k_proj", r - q>>
    [] r >= q + kv /\ r < q + 2 * kv -> <<"v_proj", r - q - kv>>
    [] OTHER -> <<"g_proj", r - q - 2 * kv>>

MultipliedQkvg(g, k) ==
  LET total == 2 * Width("q_proj", k.l) + 2 * Width("k_proj", k.l)
      Cell(w, old, i) ==
        LET j == i % Width(w, k.l)
            t == i \div Width(w, k.l)
        IN IF t < k.rows
              /\ \E r \in 0..(total - 1) : QkvgRow(k.l, r) = <<w, j>>
           THEN Applied(k, w, OperandRow(g, k, t))[j] ELSE old
  IN [g EXCEPT ![k.side] = [b \in DOMAIN @ |->
        IF \E o \in 1..4 : k.y[o] = b
        THEN LET w == k.w[CHOOSE o \in 1..4 : k.y[o] = b] IN
             [i \in DOMAIN @[b] |-> Cell(w, @[b][i], i)]
        ELSE @[b]]]

\* a failed cuBLAS call, or a kernel's own scratch rows
Spoiled(g, k) ==
  [g EXCEPT ![k.side] = [b \in DOMAIN @ |->
     IF b \in k.y THEN [i \in DOMAIN @[b] |-> Bad] ELSE @[b]]]

\* the norm of each head, in place
HeadNorm(g, k) ==
  LET One(c) == IF c = T(CpuOperand[k.w[1]], k.l, c.tok, c.j)
                THEN [c EXCEPT !.name = k.w[1]] ELSE Bad
      old == g[k.side][k.y[1]]
      width == Width(k.w[1], k.l)
  IN [g EXCEPT ![k.side][k.y[1]] =
        Fill(@, width, k.rows, LAMBDA t, j : One(old[(t * width) + j]))]

\* the rotation of each head by the position of its row, in place
Rope(g, k) ==
  LET One(c, t) == IF /\ c = T(CpuOperand[k.w[1]], k.l, c.tok, c.j)
                      /\ c.tok[2] = pos + t
                   THEN [c EXCEPT !.name = k.w[1]] ELSE Bad
      old == g[k.side][k.y[1]]
      width == Width(k.w[1], k.l)
  IN [g EXCEPT ![k.side][k.y[1]] =
        Fill(@, width, k.rows, LAMBDA t, j : One(old[(t * width) + j], t))]

\* the fused kernel: a block per head does the norm, then the rotation
NormRope(g, k) ==
  LET On(w, b) == [k EXCEPT !.w = <<w>>, !.y = <<b>>]
      normed == HeadNorm(HeadNorm(g, On("q_norm", "q")), On("k_norm", "k"))
  IN Rope(Rope(normed, On("q_rope", "q")), On("k_rope", "k"))

\* an element-wise kernel over rows * width cells of two buffers
Paired(table, a, b) ==
  LET rows == {s \in table : a = T(s[1], a.l, a.tok, a.j)
                              /\ b = T(s[2], a.l, a.tok, a.j)}
  IN IF rows = {} THEN Bad
     ELSE LET out == (CHOOSE s \in rows : TRUE)[3] IN
          T(out, IF out = "hidden" THEN a.l + 1 ELSE a.l, a.tok, a.j)

Elementwise(g, k, table) ==
  LET a == g[k.side][k.x]
      b == g[k.side][k.x2] IN
  [g EXCEPT ![k.side][k.y[1]] = [i \in DOMAIN @ |->
     IF i < k.rows * k.width THEN Paired(table, a[i], b[i]) ELSE @[i]]]

Slot(l, r) == r % Cap(l)

StoreKv(g, k) ==
  LET Put(ring, b) ==
        [i \in DOMAIN ring |->
           LET mine == {t \in 0..(k.rows - 1) :
                          Slot(k.l, pos + t) = i \div KvHeads}
           IN IF mine = {} THEN ring[i]
              ELSE LET t == CHOOSE u \in mine : \A w \in mine : w <= u
                   IN g[k.side][b][(t * KvHeads) + (i % KvHeads)]]
  IN [g EXCEPT !.k[k.l] = Put(@, "k"), !.v[k.l] = Put(@, "v")]

\* head h reads head h \div repeat of the rows it may see, and its gate
Attended(g, k, t, h) ==
  LET q == g[k.side].q[t * QHeads(k.l) + h]
      tok == q.tok
      kvh == h \div (QHeads(k.l) \div KvHeads)
      first == IF Shape[k.l].full \/ pos + t + 1 <= Window THEN 0
               ELSE pos + t + 1 - Window
      cpu == /\ q = T("q_rope", k.l, tok, h)
             /\ g[k.side].head_gate[t * QHeads(k.l) + h]
                  = T("g_proj", k.l, tok, h)
             /\ \A r \in first..(pos + t) :
                  LET i == (Slot(k.l, r) * KvHeads) + kvh IN
                  /\ g.k[k.l][i] = T("k_rope", k.l, <<tok[1], r>>, kvh)
                  /\ g.v[k.l][i] = T("v_proj", k.l, <<tok[1], r>>, kvh)
  IN IF cpu THEN T("attention", k.l, tok, h) ELSE Bad

Attention(g, k) ==
  LET width == QHeads(k.l) IN
  [g EXCEPT ![k.side].attn_heads = [i \in DOMAIN @ |->
     IF i \div width \in k.only THEN Attended(g, k, i \div width, i % width)
     ELSE @[i]]]

\* attention over the one row there is: the value, weighted by the head's gate
SingleToken(g, k) ==
  LET Cpu(h) ==
        LET tok == g.d.head_gate[h].tok
            kvh == h \div (QHeads(k.l) \div KvHeads)
        IN IF /\ g.d.head_gate[h] = T("g_proj", k.l, tok, h)
              /\ g.d.v[kvh] = T("v_proj", k.l, tok, kvh) /\ tok[2] = 0
           THEN T("attention", k.l, tok, h) ELSE Bad
  IN [g EXCEPT !.d.attn_heads =
        Fill(@, QHeads(k.l), 1, LAMBDA t, h : Cpu(h))]

\* a row the CPU computed
Uploaded(g, k) ==
  [g EXCEPT !.d[k.y[1]] =
     Fill(@, 1, 1, LAMBDA t, j : T(k.w[1], k.l, <<"new", pos>>, j))]

\* the router's selection, and the experts' sum over it
Selected(g, k) ==
  [g EXCEPT ![k.side].router_selected = [i \in DOMAIN @ |->
     LET c == g[k.side].router_logits[i] IN
     IF i >= k.rows THEN @[i]
     ELSE IF c = T("router_gate", k.l, c.tok, 0)
     THEN T("selected", k.l, c.tok, 0) ELSE Bad]]

Routed(g, k) ==
  [g EXCEPT ![k.side].routed_out = [i \in DOMAIN @ |->
     LET c == g[k.side].router_selected[i] IN
     IF i >= k.rows THEN @[i]
     ELSE IF /\ c = T("selected", k.l, c.tok, 0)
             /\ g[k.side].ffn_norm[i] = T("post_norm", k.l, c.tok, 0)
     THEN T("routed", k.l, c.tok, 0) ELSE Bad]]

Embedded(g, k) ==
  [g EXCEPT ![k.side].hidden = [i \in DOMAIN @ |->
     IF i < k.rows THEN T("hidden", 1, <<"new", pos + i>>, 0) ELSE @[i]]]

LastRow(g) ==
  [g EXCEPT !.d.hidden[0] = g.p.hidden[n - 1]]

\* the fused argmax keeps its partial results in g_tmp, not in logits
FusedArgmax(g, k) ==
  LET c == g.d.output_norm[0] IN
  [g EXCEPT !.tmp = Cells(Chunk * Widest),
            !.next = IF c = T("final_norm", OutputStage, c.tok, 0)
                          THEN T("lm_head", OutputStage, c.tok, 0) ELSE Bad]
ReadNext(g) == [g EXCEPT !.next = g.d.logits[0]]

Run(g, k) ==
  CASE k.kernel = "convert" -> Converted(g, k)
    [] k.kernel = "rms" -> RmsNorm(g, k)
    [] k.kernel = "multiply" -> Multiplied(g, k)
    [] k.kernel = "pair" -> MultipliedPair(g, k)
    [] k.kernel = "qkvg" -> MultipliedQkvg(g, k)
    [] k.kernel = "spoil" -> Spoiled(g, k)
    [] k.kernel = "norm" -> HeadNorm(g, k)
    [] k.kernel = "rope" -> Rope(g, k)
    [] k.kernel = "normrope" -> NormRope(g, k)
    [] k.kernel = "swiglu" -> Elementwise(g, k, CpuSwiglu)
    [] k.kernel = "add" -> Elementwise(g, k, CpuSums)
    [] k.kernel = "store" -> StoreKv(g, k)
    [] k.kernel = "attend" -> Attention(g, k)
    [] k.kernel = "single" -> SingleToken(g, k)
    [] k.kernel = "upload" -> Uploaded(g, k)
    [] k.kernel = "select" -> Selected(g, k)
    [] k.kernel = "routed" -> Routed(g, k)
    [] k.kernel = "embed" -> Embedded(g, k)
    [] k.kernel = "last" -> LastRow(g)
    [] k.kernel = "fused_argmax" -> FusedArgmax(g, k)
    [] k.kernel = "read" -> ReadNext(g)

(***************************************************************************)
(* The calls: for each, the sequences of launches by which it succeeds.    *)
(***************************************************************************)

Call(op, side, l, w, x, y) ==
  [op |-> op, side |-> side, l |-> l, w |-> w, x |-> x, y |-> y,
   alt |-> "none"]
OnFail(c, alt) == [c EXCEPT !.alt = alt]

Rows(c) == IF c.side = "p" THEN n ELSE 1

Kernel(kernel, c) ==
  [kernel |-> kernel, side |-> c.side, l |-> c.l, w |-> c.w, x |-> c.x,
   y |-> c.y, rows |-> Rows(c), form |-> "f32"]

Convert(c, form) ==
  [kernel |-> "convert", side |-> c.side, x |-> c.x, rows |-> Rows(c),
   form |-> form, width |-> Width(CpuOperand[c.w[1]], c.l)]
Multiply(c, form) == [Kernel("multiply", c) EXCEPT !.form = form]
Spoil(side, bs) == [kernel |-> "spoil", side |-> side, y |-> bs]

\* a cuBLAS attempt, or the same after it failed part way and the rest
Or(c, attempt, rest) ==
  {attempt} \cup rest
    \cup {Append(Front(attempt), Spoil(c.side, {c.y[1]})) \o q : q \in rest}

MatvecQ8(c) == {<<Convert(c, "q8"), Multiply(c, "q8")>>}

MatmulQ8(c) ==
  IF Rows(c) = 1 THEN MatvecQ8(c)
  ELSE Or(c, <<Multiply(c, "f32")>>,
          Or(c, <<Convert(c, "f16"), Multiply(c, "f16")>>, MatvecQ8(c)))

\* matrices of the other types: cuBLAS in bf16 or f32, else the own kernel
MatvecBf16(c) ==
  Or(c, <<Convert(c, "bf16"), Multiply(c, "bf16")>>, {<<Multiply(c, "f32")>>})
MatmulBf16(c) ==
  Or(c, <<Convert(c, "bf16"), Multiply(c, "bf16")>>, {<<Multiply(c, "f32")>>})
MatvecF32(c) == {<<Multiply(c, "f32")>>}
MatmulF32(c) == Or(c, <<Multiply(c, "f32")>>, {<<Multiply(c, "f32")>>})

MatvecDense(c) == MatvecQ8(c) \cup MatvecBf16(c) \cup MatvecF32(c)
MatmulDense(c) == MatmulQ8(c) \cup MatmulBf16(c) \cup MatmulF32(c)

\* two matrices of one input: one quantisation serves both
Single(c, i) == [c EXCEPT !.w = <<c.w[i]>>, !.y = <<c.y[i]>>]
Fused(c) == <<Convert(c, "q8"), [Kernel(c.op, c) EXCEPT !.form = "q8"]>>

MatvecPair(c) ==
  {Fused(c), <<Convert(c, "q8"), Multiply(Single(c, 1), "q8"),
               Multiply(Single(c, 2), "q8")>>}

MatmulPair(c) ==
  {a \o b : a \in MatmulQ8(Single(c, 1)), b \in MatmulQ8(Single(c, 2))}
    \cup (IF Rows(c) = 1 THEN MatvecPair(c) ELSE {Fused(c)})

MatvecQkvg(c) == {Fused(c)}
MatmulQkvg(c) == {Fused(c)}

\* the prefill attention in one launch, or one launch for each row
AttentionPaths(c) ==
  LET On(rows) == Kernel("attend", c) @@ [only |-> rows] IN
  {<<On(0..(Rows(c) - 1))>>, [i \in 1..Rows(c) |-> On({i - 1})]}

RoutedPaths(c) ==
  LET rows == Spoil("d", {"ffn_norm", "router_selected", "routed_out",
                          "gate", "up", "mid"})
      scratch == Spoil("d", {"gate", "up", "mid"})
  IN IF c.side = "d" THEN {<<scratch, Kernel("routed", c)>>}
     ELSE {<<Kernel("routed", c)>>, <<rows, Kernel("routed", c)>>}

SwigluPaths(c) ==
  {<<Kernel("swiglu", c) @@ [x2 |-> "up", width |-> Width(c.w[1], c.l)]>>}
AddPaths(c) == {<<Kernel("add", c) @@ [x2 |-> c.w[1], width |-> 1]>>}

Paths(c) ==
  LET p == c.side = "p" IN
  CASE c.op = "q8" -> IF p THEN MatmulQ8(c) ELSE MatvecQ8(c)
    [] c.op = "qkvg" -> IF p THEN MatmulQkvg(c) ELSE MatvecQkvg(c)
    [] c.op = "pair" -> IF p THEN MatmulPair(c) ELSE MatvecPair(c)
    [] c.op = "dense" -> IF p THEN MatmulDense(c) ELSE MatvecDense(c)
    [] c.op = "lm" -> MatvecBf16(c)
    [] c.op = "attend" -> AttentionPaths(c)
    [] c.op = "routed" -> RoutedPaths(c)
    [] c.op = "swiglu" -> SwigluPaths(c)
    [] c.op = "add" -> AddPaths(c)
    [] OTHER -> {<<Kernel(c.op, c)>>}

(***************************************************************************)
(* The host's programs.                                                    *)
(***************************************************************************)

Q8(side, l, w, x, y) == Call("q8", side, l, <<w>>, x, <<y>>)
Add(side, l, a, b) == Call("add", side, l, <<b>>, a, <<a>>)

HeadNorms(side, l) ==
  <<Call("norm", side, l, <<"q_norm">>, "q", <<"q">>),
    Call("norm", side, l, <<"k_norm">>, "k", <<"k">>)>>
Ropes(side, l) ==
  <<Call("rope", side, l, <<"q_rope">>, "q", <<"q">>),
    Call("rope", side, l, <<"k_rope">>, "k", <<"k">>)>>

Projections(side, l) ==
  <<Call("rms", side, l, <<"input_norm">>, "hidden", <<"attn_norm">>),
    OnFail(Call("qkvg", side, l, <<"q_proj", "k_proj", "v_proj", "g_proj">>,
                "attn_norm", <<"q", "k", "v", "head_gate">>), "projections")>>

AfterRope(side, l) ==
  <<Call("store", side, l, <<>>, "k", <<>>),
    Call("attend", side, l, <<>>, "q", <<"attn_heads">>),
    Q8(side, l, "o_proj", "attn_heads", "attn_out"),
    Add(side, l, "hidden", "attn_out"),
    Call("rms", side, l, <<"post_norm">>, "hidden", <<"ffn_norm">>)>>

DecodeAttention(l) ==
  Projections("d", l)
    \o <<OnFail(Call("normrope", "d", l, <<>>, "q", <<>>), "heads")>>
    \o AfterRope("d", l)

PrefillAttention(l) ==
  Projections("p", l) \o HeadNorms("p", l) \o Ropes("p", l)
    \o AfterRope("p", l)

FeedForward(side, l, gate, up, mid, down) ==
  <<Call("pair", side, l, <<gate, up>>, "ffn_norm", <<"gate", "up">>),
    Call("swiglu", side, l, <<mid>>, "gate", <<"mid">>),
    Q8(side, l, down, "mid", "ffn_out")>>

DenseFfn(side, l) ==
  FeedForward(side, l, "mlp_gate", "mlp_up", "mlp_mid", "mlp_down")

MoeFfnRoutedFirst(side, l) ==
  LET share == FeedForward(side, l, "share_gate", "share_up", "share_mid",
                           "share_down") IN
  <<Call("dense", side, l, <<"router_gate">>, "ffn_norm",
         <<"router_logits">>),
    Call("select", side, l, <<>>, "router_logits", <<>>)>>
  \o SubSeq(share, 1, 2)
  \o <<Call("routed", side, l, <<>>, "ffn_norm", <<>>), share[3],
       Add(side, l, "ffn_out", "routed_out")>>

MoeFfn(side, l) ==
  <<Call("dense", side, l, <<"router_gate">>, "ffn_norm",
         <<"router_logits">>),
    Call("select", side, l, <<>>, "router_logits", <<>>)>>
  \o FeedForward(side, l, "share_gate", "share_up", "share_mid", "share_down")
  \o <<Call("routed", side, l, <<>>, "ffn_norm", <<>>),
       Add(side, l, "ffn_out", "routed_out")>>

FfnCalls(side, l) ==
  (IF Shape[l].dense THEN DenseFfn(side, l) ELSE MoeFfn(side, l))
    \o <<Add(side, l, "hidden", "ffn_out")>>

LayerCalls(side, l) ==
  (IF side = "d" THEN DecodeAttention(l) ELSE PrefillAttention(l))
    \o FfnCalls(side, l)

Forward(side) ==
  <<Call("embed", side, 0, <<>>, "hidden", <<>>)>>
    \o FlattenSeq([l \in Layers |-> LayerCalls(side, l)])

FinalNorm == Call("rms", "d", OutputStage, <<"final_norm">>, "hidden",
                  <<"output_norm">>)
LmHead == Call("lm", "d", OutputStage, <<"lm_head">>, "output_norm", <<"logits">>)
ReadLogits == Call("read", "d", OutputStage, <<>>, "logits", <<>>)

LogitCalls == <<FinalNorm, LmHead, ReadLogits>>
ArgmaxCalls ==
  <<OnFail(FinalNorm, "logits"),
    OnFail(Call("fused_argmax", "d", OutputStage, <<>>, "output_norm", <<>>),
           "matvec")>>

(***************************************************************************)
(* The diagnostics: what the smoke commands run with weights copied to     *)
(* tensors of their own, and compare with the CPU.                         *)
(***************************************************************************)

Upload(l, name, b) == Call("upload", "d", l, <<name>>, "", <<b>>)

Apart(l) ==
  <<Call("rms", "d", l, <<"input_norm">>, "hidden", <<"attn_norm">>),
    Q8("d", l, "q_proj", "attn_norm", "q"),
    Q8("d", l, "k_proj", "attn_norm", "k"),
    Q8("d", l, "v_proj", "attn_norm", "v"),
    Q8("d", l, "g_proj", "attn_norm", "head_gate")>>

FfnApart(l, gate, up, mid, down) ==
  <<Q8("d", l, gate, "ffn_norm", "gate"), Q8("d", l, up, "ffn_norm", "up"),
    Call("swiglu", "d", l, <<mid>>, "gate", <<"mid">>),
    Q8("d", l, down, "mid", "ffn_out")>>

DenseApart(l) ==
  FfnApart(l, "mlp_gate", "mlp_up", "mlp_mid", "mlp_down")
    \o <<Add("d", l, "hidden", "ffn_out")>>

Expect(b, name, l) == [b |-> b, name |-> name, l |-> l]
HiddenAfter(l) == {Expect("hidden", "hidden", l + 1)}

\* the first layers of the decode state on one token
SmokeDecode(last) ==
  [of |-> "decode", rows |-> HiddenAfter(last),
   calls |-> <<Upload(1, "hidden", "hidden")>>
     \o FlattenSeq([l \in 1..last |-> LayerCalls("d", l)])]

\* one layer of it, on the row the CPU has before that layer
LayerReplay(l) ==
  [of |-> "replay", rows |-> HiddenAfter(l),
   calls |-> <<Upload(l, "hidden", "hidden")>> \o LayerCalls("d", l)]

\* the first layer without a cache, every stage compared
LayerSmoke ==
  [of |-> "layer",
   rows |-> HiddenAfter(1) \cup
     {Expect("attn_norm", "input_norm", 1), Expect("q", "q_proj", 1),
      Expect("k", "k_proj", 1), Expect("v", "v_proj", 1),
      Expect("head_gate", "g_proj", 1), Expect("attn_heads", "attention", 1),
      Expect("attn_out", "o_proj", 1), Expect("ffn_norm", "post_norm", 1),
      Expect("gate", "mlp_gate", 1), Expect("up", "mlp_up", 1),
      Expect("mid", "mlp_mid", 1), Expect("ffn_out", "mlp_down", 1)},
   calls |-> <<Upload(1, "hidden", "hidden")>> \o Apart(1)
     \o <<Call("single", "d", 1, <<>>, "v", <<>>),
          Q8("d", 1, "o_proj", "attn_heads", "attn_out"),
          Add("d", 1, "hidden", "attn_out"),
          Call("rms", "d", 1, <<"post_norm">>, "hidden", <<"ffn_norm">>)>>
     \o DenseApart(1)]

\* the first layer with a cache of two rows, for each of two tokens
SequenceSmoke ==
  [of |-> "sequence", rows |-> HiddenAfter(1),
   calls |-> <<Upload(1, "hidden", "hidden")>> \o Apart(1)
     \o HeadNorms("d", 1) \o Ropes("d", 1) \o AfterRope("d", 1)
     \o DenseApart(1)]

\* the experts of one layer, on any row
MoeSmoke(l) ==
  [of |-> "moe", rows |-> {Expect("ffn_out", "moe_sum", l)},
   calls |-> <<Upload(l, "post_norm", "ffn_norm"),
               Call("dense", "d", l, <<"router_gate">>, "ffn_norm",
                    <<"router_logits">>),
               Call("select", "d", l, <<>>, "router_logits", <<>>)>>
     \o FfnApart(l, "share_gate", "share_up", "share_mid", "share_down")
     \o <<Call("routed", "d", l, <<>>, "ffn_norm", <<>>),
          Add("d", l, "ffn_out", "routed_out")>>]

Diagnostics ==
  {SmokeDecode(l) : l \in Layers} \cup {LayerReplay(l) : l \in Layers}
    \cup {MoeSmoke(l) : l \in {k \in Layers : ~Shape[k].dense}}
    \cup (IF Shape[1].dense THEN {LayerSmoke, SequenceSmoke} ELSE {})

\* what replaces a call that failed, and all that was to follow it
Instead(c) ==
  CASE c.alt = "projections" ->
         [i \in 1..4 |-> Q8(c.side, c.l, c.w[i], c.x, c.y[i])] \o Tail(todo)
    [] c.alt = "heads" -> 
         HeadNorms(c.side, c.l) \o Ropes(c.side, c.l) \o Tail(todo)
    [] c.alt = "matvec" ->
         <<OnFail(LmHead, "logits"), OnFail(ReadLogits, "logits")>>
    [] c.alt = "logits" -> LogitCalls

(***************************************************************************)
(* The host.                                                               *)
(***************************************************************************)

Idle == todo = <<>> /\ n = 0 /\ check = NoCheck

\* cuda_prefill_chunk: the last row becomes the decode state's hidden.  The
\* logits, when the caller needs them, are the calls of Output right after.
PrefillChunk(m) ==
  /\ Idle /\ m <= Chunk /\ pos + m <= Ctx
  /\ todo' = Append(Forward("p"), Call("last", "p", 0, <<>>, "hidden", <<>>))
  /\ n' = m /\ asked' = FALSE /\ gpu' = [gpu EXCEPT !.next = Bad]
  /\ UNCHANGED <<pos, check>>

\* sf37_session_eval_internal
EvalToken ==
  /\ Idle /\ pos < Ctx
  /\ todo' = Forward("d")
  /\ n' = 1 /\ asked' = FALSE /\ gpu' = [gpu EXCEPT !.next = Bad]
  /\ UNCHANGED <<pos, check>>

\* sf37_session_output_logits and sf37_session_output_argmax
Output(calls) ==
  /\ Idle /\ pos > 0
  /\ todo' = calls /\ asked' = TRUE /\ gpu' = [gpu EXCEPT !.next = Bad]
  /\ UNCHANGED <<pos, n, check>>

Step ==
  /\ todo # <<>>
  /\ \E path \in Paths(Head(todo)) : gpu' = FoldLeft(Run, gpu, path)
  /\ todo' = Tail(todo)
  /\ UNCHANGED <<pos, n, asked, check>>

\* a launch, a copy or an allocation fails after some launches of the call
FallBack ==
  /\ todo # <<>> /\ Head(todo).alt # "none"
  /\ \E path \in Paths(Head(todo)) : \E i \in 0..(Len(path) - 1) :
       gpu' = FoldLeft(Run, gpu, SubSeq(path, 1, i))
  /\ todo' = Instead(Head(todo))
  /\ UNCHANGED <<pos, n, asked, check>>

\* without an alternative the checkpoint is invalid: the next prompt starts
\* at zero over what the abandoned one left in the buffers
Abandon ==
  /\ todo # <<>> /\ Head(todo).alt = "none"
  /\ gpu' = Left
  /\ todo' = <<>> /\ n' = 0 /\ pos' = 0 /\ asked' = FALSE
  /\ check' = NoCheck

Finish ==
  /\ todo = <<>> /\ n > 0
  /\ pos' = pos + n /\ n' = 0
  /\ UNCHANGED <<gpu, todo, asked, check>>

\* a smoke command: on an engine without a session
Diagnose(d) ==
  /\ Idle /\ pos = 0 /\ gpu = Left
  /\ todo' = d.calls /\ check' = [of |-> d.of, rows |-> d.rows]
  /\ UNCHANGED <<gpu, pos, n, asked>>

SecondToken ==
  /\ todo = <<>> /\ check.of = "sequence" /\ pos = 0
  /\ todo' = SequenceSmoke.calls /\ pos' = 1
  /\ UNCHANGED <<gpu, n, asked, check>>

\* cleanup: the tensors are freed
EndDiagnostic ==
  /\ todo = <<>> /\ check # NoCheck
  /\ gpu' = Left /\ pos' = 0 /\ check' = NoCheck
  /\ UNCHANGED <<todo, n, asked>>

LayerNext ==
  \/ \E m \in 1..Chunk : PrefillChunk(m)
  \/ EvalToken
  \/ Output(LogitCalls)
  \/ Output(ArgmaxCalls)
  \/ Step
  \/ FallBack
  \/ Abandon
  \/ Finish
  \/ \E d \in Diagnostics : Diagnose(d)
  \/ SecondToken
  \/ EndDiagnostic

LayerSpec == LayerInit /\ [][LayerNext]_layerVars

DiagnosticAgrees ==
  \A e \in check.rows :
    Read(gpu.d[e.b], 0, Width(e.name, e.l))
      = Row(e.name, e.l, <<"new", pos>>)

PromptAsOnCpu ==
  LET last == pos + n - 1
      first(l) == IF Shape[l].full \/ last + 1 <= Window THEN 0
                  ELSE last + 1 - Window
  IN /\ gpu.d.hidden[0] = T("hidden", OutputStage, <<"new", last>>, 0)
     /\ asked => gpu.next = T("lm_head", OutputStage, <<"new", last>>, 0)
     /\ \A l \in Layers : \A r \in first(l)..last, h \in 0..(KvHeads - 1) :
          LET i == (Slot(l, r) * KvHeads) + h IN
          /\ gpu.k[l][i] = T("k_rope", l, <<"new", r>>, h)
          /\ gpu.v[l][i] = T("v_proj", l, <<"new", r>>, h)

\* Whatever paths the calls take, whichever attempts fail and whatever an
\* abandoned prompt or an earlier layer left in the shared buffers, when the
\* host has made its calls the hidden row, every K and V row a later token
\* can see and the logits (or the token) it read are those that the CPU's
\* run_layer_decode computes for the tokens of this prompt; and every row a
\* smoke command compares with the CPU's is equal to it.
ForwardAsOnCpu ==
  todo = <<>> =>
    IF check # NoCheck THEN DiagnosticAgrees ELSE pos + n > 0 => PromptAsOnCpu
=============================================================================
