------------------------------ MODULE Inference -----------------------------
(***************************************************************************)
(* The forward pass (crates/nr-model/src/infer.rs): a token at a time      *)
(* (forward) or a batch of them (prefill_chunk, prefill), over a KV cache  *)
(* that reset does not clear.                                              *)
(*                                                                         *)
(* A vector is the term that says how it was computed: <<op, operands>>.   *)
(* Equal terms went through equal operations, so their numbers have equal  *)
(* bits.  Scratch buffers start each call with Stale, what an earlier call *)
(* left in them; the caches keep their rows from call to call.             *)
(***************************************************************************)
EXTENDS Integers, Sequences

CONSTANTS
    Tokens,
    Layers,         \* n_layers
    Heads, KvHeads, \* n_heads, n_kv_heads
    Ctx,            \* length of the window
    MaxBatch,       \* MAX_BATCH
    Models          \* traits of the family, and the dtype of every weight matrix

Matrices == {"embed", "wq", "wk", "wv", "wo", "gate", "up", "down", "output"}

ASSUME InferenceAssumption ==
    /\ {Layers, Heads, KvHeads, Ctx, MaxBatch} \subseteq Nat \ {0}
    /\ Heads % KvHeads = 0
    /\ Models \subseteq [traits : SUBSET {"qk_norm", "neox", "embed_scale", "logit_scale"},
                          dtypes : [Matrices -> {"Q8", "Q4K", "Q6K"}]]

VARIABLES
    model,          \* the one that was loaded
    pos,
    key_cache, val_cache,   \* by layer, position and KV head
    logits,        \* the logits of the last call
    fed             \* the tokens run through the model since reset

infervars == <<model, pos, key_cache, val_cache, logits, fed>>

Stale   == <<"stale">>
NoCache == [l \in 0..Layers - 1 |-> [t \in 0..Ctx - 1 |-> [h \in 0..KvHeads - 1 |-> Stale]]]

NoModel == <<>>
InferIdle ==
    /\ model = NoModel /\ pos = 0 /\ key_cache = <<>> /\ val_cache = <<>>
    /\ logits = Stale /\ fed = <<>>
InferInit ==
    /\ model \in Models
    /\ pos = 0 /\ key_cache = NoCache /\ val_cache = NoCache /\ logits = Stale /\ fed = <<>>

-----------------------------------------------------------------------------
(* Vector operations: what they are applied to, in the code's order. *)

Embed(tok)        == LET e == <<"row", model.dtypes["embed"], tok>>
                     IN  IF "embed_scale" \in model.traits THEN <<"scale", e>> ELSE e
rmsnorm(x, w)     == <<"rmsnorm", x, w>>
saxpy(x, xb)      == <<"saxpy", x, xb>>
swiglu(g, u)      == <<"swiglu", g, u>>
\* A vector of heads is taken apart, normalised for Qwen3 and rotated.
HeadOf(v, h)      == <<"head", h, v>>
qk_norm(v, w)     == IF "qk_norm" \in model.traits THEN <<"headnorm", v, w>> ELSE v
rope(v, p)        == <<IF "neox" \in model.traits THEN "neox" ELSE "adjacent", p, v>>
AsF16(v)          == <<"f16", v>>
softmax(scores)   == <<"softmax", scores>>
Scaled(v)         == IF "logit_scale" \in model.traits THEN <<"scale", v>> ELSE v

\* The matrix w of layer l
Mat(w, l)         == <<w, l>>

\* Acts: activations are quantized to the format of the matrix.
ActFormat(w)      == IF model.dtypes[w] = "Q8" THEN "q8" ELSE "q8k"
NoActs            == [f \in {"q8", "q8k"} |-> [b \in 0..MaxBatch - 1 |-> Stale]]
QuantizeRows(acts, f, xs) ==
    [acts EXCEPT ![f] = [b \in 0..MaxBatch - 1 |-> IF b < Len(xs) THEN <<f, xs[b + 1]>> ELSE @[b]]]

\* Mutant of GroupStep: one flag for both formats.
GroupStepOneFlag(g, w, l, xs) ==
    LET f    == ActFormat(w)
        acts == IF g.ready # {} THEN g.acts ELSE QuantizeRows(g.acts, f, xs)
    IN  [acts |-> acts, ready |-> g.ready \cup {f},
         y |-> [b \in 1..Len(xs) |-> <<"mul", model.dtypes[w], Mat(w, l), acts[f][b - 1]>>]]

\* matmul_group: the jobs of one input, each format quantized once.  One after
\* the other, with the flags, the buffers and the result of the last one.
GroupStep(g, w, l, xs) ==
    LET f    == ActFormat(w)
        acts == IF f \in g.ready THEN g.acts ELSE QuantizeRows(g.acts, f, xs)
    IN  [acts |-> acts, ready |-> g.ready \cup {f},
         y |-> [b \in 1..Len(xs) |-> <<"mul", model.dtypes[w], Mat(w, l), acts[f][b - 1]>>]]

matmul_group(ws, l, xs) ==
    LET g[j \in 0..Len(ws)] ==
            IF j = 0 THEN [acts |-> NoActs, ready |-> {}, y |-> <<>>]
            ELSE GroupStep(g[j - 1], ws[j], l, xs)
    IN  [j \in 1..Len(ws) |-> g[j].y]
\* matmul: one job, always quantized.
matmul(w, l, xs) == matmul_group(<<w>>, l, xs)[1]
\* matvec_group and matvec: one row.
matvec_group(ws, l, x) == LET ys == matmul_group(ws, l, <<x>>) IN [j \in 1..Len(ws) |-> ys[j][1]]
matvec(w, l, x)        == matmul(w, l, <<x>>)[1]

\* One query head against the cache of a layer, up to and including position
\* p; a KV head serves Heads / KvHeads query heads.
Attend(kc, vc, q, h, p) ==
    LET kvh == h \div (Heads \div KvHeads)
    IN  <<"sum", softmax([t \in 0..p |-> <<"dot", kc[t][kvh], HeadOf(q, h)>>]),
                 [t \in 0..p |-> vc[t][kvh]]>>

CacheRow(v) == [h \in 0..KvHeads - 1 |-> AsF16(HeadOf(v, h))]
Classify(x) == Scaled(matvec("output", Layers, rmsnorm(x, Mat("out_norm", Layers))))

-----------------------------------------------------------------------------
(* forward *)

\* A layer for the token at pos: s holds its residual and the caches.
ForwardLayer(s, l) ==
    LET xb   == rmsnorm(s.x, Mat("attn_norm", l))
        qkv  == matvec_group(<<"wq", "wk", "wv">>, l, xb)
        q    == rope(qk_norm(qkv[1], Mat("q_norm", l)), pos)
        k    == rope(qk_norm(qkv[2], Mat("k_norm", l)), pos)
        kc   == [s.kc EXCEPT ![l][pos] = CacheRow(k)]
        vc   == [s.vc EXCEPT ![l][pos] = CacheRow(qkv[3])]
        attn == [h \in 0..Heads - 1 |-> Attend(kc[l], vc[l], q, h, pos)]
        x    == saxpy(s.x, matvec("wo", l, attn))
        gu   == matvec_group(<<"gate", "up">>, l, rmsnorm(x, Mat("ffn_norm", l)))
    IN  [x |-> saxpy(x, matvec("down", l, swiglu(gu[1], gu[2]))), kc |-> kc, vc |-> vc]

ForwardLayers(tok) ==
    LET s[l \in 0..Layers] == IF l = 0 THEN [x |-> Embed(tok), kc |-> key_cache, vc |-> val_cache]
                              ELSE ForwardLayer(s[l - 1], l - 1)
    IN  s[Layers]

Forward(tok) ==
    LET s == ForwardLayers(tok)
    IN  /\ pos < Ctx
        /\ key_cache' = s.kc /\ val_cache' = s.vc
        /\ logits' = Classify(s.x)
        /\ pos' = pos + 1
        /\ fed' = Append(fed, tok)
        /\ UNCHANGED model

-----------------------------------------------------------------------------
(* prefill_chunk and prefill *)

\* The keys and values of the batch written behind base.
Appended(cache, l, base, vs) ==
    [cache EXCEPT ![l] = [t \in 0..Ctx - 1 |->
        IF t \in base..base + Len(vs) - 1 THEN CacheRow(vs[t - base + 1]) ELSE @[t]]]

\* A layer for the whole batch: bx its residuals.
ChunkLayer(s, l, base) ==
    LET rows == DOMAIN s.bx
        bxb  == [i \in rows |-> rmsnorm(s.bx[i], Mat("attn_norm", l))]
        qkv  == matmul_group(<<"wq", "wk", "wv">>, l, bxb)
        bq   == [i \in rows |-> rope(qk_norm(qkv[1][i], Mat("q_norm", l)), base + i - 1)]
        bk   == [i \in rows |-> rope(qk_norm(qkv[2][i], Mat("k_norm", l)), base + i - 1)]
        kc   == Appended(s.kc, l, base, bk)
        vc   == Appended(s.vc, l, base, qkv[3])
        attn == [i \in rows |-> [h \in 0..Heads - 1 |-> Attend(kc[l], vc[l], bq[i], h, base + i - 1)]]
        wo   == matmul("wo", l, attn)
        bx   == [i \in rows |-> saxpy(s.bx[i], wo[i])]
        gu   == matmul_group(<<"gate", "up">>, l, [i \in rows |-> rmsnorm(bx[i], Mat("ffn_norm", l))])
        down == matmul("down", l, [i \in rows |-> swiglu(gu[1][i], gu[2][i])])
    IN  [bx |-> [i \in rows |-> saxpy(bx[i], down[i])], kc |-> kc, vc |-> vc]

ChunkLayers(s, toks) ==
    LET r[l \in 0..Layers] ==
            IF l = 0 THEN [bx |-> [i \in 1..Len(toks) |-> Embed(toks[i])], kc |-> s.kc, vc |-> s.vc]
            ELSE ChunkLayer(r[l - 1], l - 1, s.pos)
    IN  r[Layers]

\* The state after a chunk: s holds position, caches and logits.
Chunk(s, toks) ==
    LET r == ChunkLayers(s, toks)
    IN  [pos |-> s.pos + Len(toks), kc |-> r.kc, vc |-> r.vc, logits |-> Classify(r.bx[Len(toks)])]

\* tokens.chunks(MAX_BATCH)
Chunks(toks)   == (Len(toks) + MaxBatch - 1) \div MaxBatch
ChunkOf(toks, c) ==
    SubSeq(toks, (c - 1) * MaxBatch + 1,
           IF c * MaxBatch < Len(toks) THEN c * MaxBatch ELSE Len(toks))

PrefillChunks(toks) ==
    LET s[c \in 0..Chunks(toks)] ==
            IF c = 0 THEN [pos |-> pos, kc |-> key_cache, vc |-> val_cache, logits |-> logits]
            ELSE Chunk(s[c - 1], ChunkOf(toks, c))
    IN  s[Chunks(toks)]

\* prefill_chunk is a prefill of one chunk.
Prefill(toks) ==
    LET s == PrefillChunks(toks)
    IN  /\ toks # <<>> /\ pos + Len(toks) <= Ctx
        /\ pos' = s.pos /\ key_cache' = s.kc /\ val_cache' = s.vc /\ logits' = s.logits
        /\ fed' = fed \o toks
        /\ UNCHANGED model

\* reset: the caches keep their rows.
Reset ==
    /\ pos' = 0 /\ fed' = <<>>
    /\ UNCHANGED <<model, key_cache, val_cache, logits>>

InferNext ==
    \/ \E tok \in Tokens : Forward(tok)
    \/ \E toks \in UNION {[1..k -> Tokens] : k \in 1..Ctx} : Prefill(toks)
    \/ Reset

InferSpec == InferInit /\ [][InferNext]_infervars

-----------------------------------------------------------------------------
\* The definition: all positions at once, without cache, buffers or batches.
Product(w, l, x) == <<"mul", model.dtypes[w], Mat(w, l), <<ActFormat(w), x>>>>
KeyOf(x, l, p)   == rope(qk_norm(Product("wk", l, rmsnorm(x, Mat("attn_norm", l))), Mat("k_norm", l)), p)
QueryOf(x, l, p) == rope(qk_norm(Product("wq", l, rmsnorm(x, Mat("attn_norm", l))), Mat("q_norm", l)), p)
ValueOf(x, l)    == Product("wv", l, rmsnorm(x, Mat("attn_norm", l)))
\* The query q of a position against the keys K and the values V of the n
\* positions up to and including its own.
Attention(K, V, q, n) ==
    [h \in 0..Heads - 1 |->
        LET group == h \div (Heads \div KvHeads)
        IN  <<"sum", softmax([t \in 0..n - 1 |-> <<"dot", AsF16(HeadOf(K[t], group)), HeadOf(q, h)>>]),
                     [t \in 0..n - 1 |-> AsF16(HeadOf(V[t], group))]>>]
FeedForward(x, l) ==
    LET n == rmsnorm(x, Mat("ffn_norm", l))
    IN  saxpy(x, Product("down", l, swiglu(Product("gate", l, n), Product("up", l, n))))
LayerAt(xs, l, n) ==
    LET K == [t \in 0..n - 1 |-> KeyOf(xs[t + 1], l, t)]
        V == [t \in 0..n - 1 |-> ValueOf(xs[t + 1], l)]
    IN  FeedForward(saxpy(xs[n], Product("wo", l, Attention(K, V, QueryOf(xs[n], l, n - 1), n))), l)
LayerOf(xs, l) == [n \in DOMAIN xs |-> LayerAt(xs, l, n)]
Residuals(toks) ==
    LET xs[l \in 0..Layers] == IF l = 0 THEN [n \in 1..Len(toks) |-> Embed(toks[n])]
                               ELSE LayerOf(xs[l - 1], l - 1)
    IN  xs
Reference(toks) ==
    Scaled(Product("output", Layers,
                   rmsnorm(Residuals(toks)[Layers][Len(toks)], Mat("out_norm", Layers))))

\* The logits depend on nothing but the tokens fed since reset: not on how they
\* were cut into single tokens and batches ("Numerically bit-identical to
\* calling `forward` per token", infer.rs:597), not on rows that an earlier
\* conversation left in the caches, nor on which matrices share a format.
ContextDecides == fed # <<>> => pos = Len(fed) /\ logits = Reference(fed)
=============================================================================
