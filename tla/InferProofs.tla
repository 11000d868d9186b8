---------------------------- MODULE InferProofs -----------------------------
(***************************************************************************)
(* Proofs about the arithmetic of a forward pass: Inference (the logits    *)
(* are those of the tokens fed so far), Matmul and Kernels (every backend  *)
(* computes the exact integer products, tile by tile as one by one), Half  *)
(* (conversions round to the nearest half) and Sampler (the token is one   *)
(* that top-k and top-p leave).                                            *)
(*                                                                         *)
(* Recursive functions are unfolded into their steps first (GroupUnfolds,  *)
(* SumUnfolds, ...); induction over the steps is the lemma Climb, from the *)
(* well-foundedness of < on the naturals.  A lemma with many hypotheses    *)
(* has them under one name, such as ChunkCase or WriteCase.                *)
(***************************************************************************)
EXTENDS Inference, Matmul, Half, Sampler, FiniteSetTheorems, TLAPS

-----------------------------------------------------------------------------
(* Induction *)

\* A nonempty set of naturals has a least element.
LEMMA Least ==
    ASSUME NEW T \in SUBSET Nat, T # {}
    PROVE  \E x \in T : \A z0 \in T : x <= z0
<1> DEFINE R == {ss \in Nat \X Nat : ss[1] < ss[2]}
<1>1. IsWellFoundedOn(R, Nat)
  BY NatLessThanWellFounded DEF OpToRel
<1>2. PICK x \in T : \A z0 \in T : ~(<<z0, x>> \in R)
  BY <1>1, WFMin, Zenon
<1>3. ASSUME NEW z0 \in T PROVE x <= z0
  <2>1. ~(<<z0, x>> \in R) /\ x \in Nat /\ z0 \in Nat
    BY <1>2
  <2> QED
    BY <2>1
<1> QED
  BY <1>3

\* Induction over the naturals, on a set instead of a predicate.
LEMMA Induction ==
    ASSUME NEW S, 0 \in S, \A n \in Nat : n \in S => n + 1 \in S
    PROVE  Nat \subseteq S
<1> SUFFICES ASSUME Nat \ S # {} PROVE FALSE
  OBVIOUS
<1>1. PICK m \in Nat \ S : \A z0 \in Nat \ S : m <= z0
  BY Least
<1>2. m - 1 \in Nat /\ m - 1 \notin Nat \ S
  BY <1>1
<1> QED
  BY <1>1, <1>2

\* The same up to a bound N.
LEMMA Climb ==
    ASSUME NEW N \in Nat, NEW S, 0 \in S, \A n \in 0..N - 1 : n \in S => n + 1 \in S
    PROVE  0..N \subseteq S
<1> DEFINE T == S \cup {n \in Nat : n > N}
<1>1. 0 \in T /\ \A n \in Nat : n \in T => n + 1 \in T
  OBVIOUS
<1>2. Nat \subseteq T
  <2> HIDE DEF T
  <2> QED
    BY <1>1, Induction
<1> QED
  BY <1>2

\* An exact division.
LEMMA Divided ==
    ASSUME NEW a \in Nat, NEW b \in Nat \ {0}, a % b = 0
    PROVE  a = b * (a \div b) /\ a \div b \in Nat
OBVIOUS

\* The KV head of a query head.
LEMMA KvHead ==
    ASSUME NEW h \in 0..Heads - 1
    PROVE  h \div (Heads \div KvHeads) \in 0..KvHeads - 1
<1>1. Heads \in Nat \ {0} /\ KvHeads \in Nat \ {0} /\ Heads % KvHeads = 0
  BY InferenceAssumption
<1>2. PICK q \in Nat : q = Heads \div KvHeads /\ Heads = KvHeads * q
  BY <1>1, Divided
<1>3. q > 0
  BY <1>1, <1>2
<1>4. PICK d \in Int : d = h \div q
  BY <1>1, <1>3
<1>5. q * d <= h /\ h < q * d + q
  BY <1>1, <1>3, <1>4
<1>6. d >= 0
  <2> SUFFICES ASSUME d <= -1 PROVE FALSE
    OBVIOUS
  <2>1. q * d <= q * (-1)
    BY <1>3
  <2> QED
    BY <1>1, <1>5, <2>1
<1>7. d < KvHeads
  <2> SUFFICES ASSUME d >= KvHeads PROVE FALSE
    BY <1>1
  <2>1. q * d >= q * KvHeads
    BY <1>1, <1>3
  <2>2. q * KvHeads = KvHeads * q
    BY <1>1
  <2> QED
    BY <1>1, <1>2, <1>5, <2>1, <2>2
<1> QED
  BY <1>1, <1>2, <1>4, <1>6, <1>7

-----------------------------------------------------------------------------
(* Products: a format that several matrices share is quantized once. *)

\* The state in which a group of products starts: nothing quantized yet.
GroupStart == [acts |-> NoActs, ready |-> {}, y |-> <<>>]

\* The jobs of a group, one after the other.
GroupRun(g, ws, l, xs) ==
    /\ matmul_group(ws, l, xs) = [j \in 1..Len(ws) |-> g[j].y]
    /\ g[0] = GroupStart
    /\ \A j \in 1..Len(ws) : g[j] = GroupStep(g[j - 1], ws[j], l, xs)

\* The recursion over the matrices of a group has its steps.
LEMMA GroupUnfolds ==
    ASSUME NEW ws, NEW l, NEW xs, Len(ws) \in Nat
    PROVE  \E g : GroupRun(g, ws, l, xs)
<1> DEFINE Body(g, n) == [j \in 0..n |-> IF j = 0 THEN GroupStart ELSE GroupStep(g[j - 1], ws[j], l, xs)]
           S == {n \in Nat : \E g : g = Body(g, n)}
<1>1. 0 \in S
  <2>1. [j \in 0..0 |-> GroupStart] = Body([j \in 0..0 |-> GroupStart], 0)
    OBVIOUS
  <2> QED
    BY <2>1
<1>2. ASSUME NEW n \in Nat, n \in S PROVE n + 1 \in S
  <2>1. PICK g : g = Body(g, n)
    BY <1>2
  <2> DEFINE h == [j \in 0..n + 1 |-> IF j <= n THEN g[j] ELSE GroupStep(g[n], ws[n + 1], l, xs)]
  <2>2. ASSUME NEW j \in 0..n + 1
        PROVE  h[j] = IF j = 0 THEN GroupStart ELSE GroupStep(h[j - 1], ws[j], l, xs)
    <3>1. CASE j = 0
      BY <2>1, <3>1
    <3>2. CASE j # 0 /\ j <= n
      <4>1. g[j] = GroupStep(g[j - 1], ws[j], l, xs)
        BY <2>1, <3>2
      <4>2. h[j] = g[j] /\ h[j - 1] = g[j - 1]
        BY <3>2
      <4> QED
        BY <3>2, <4>1, <4>2
    <3>3. CASE j = n + 1
      BY <3>3
    <3> QED
      BY <3>1, <3>2, <3>3
  <2>3. h = Body(h, n + 1)
    BY <2>2
  <2> HIDE DEF h, Body
  <2> QED
    BY <2>3
<1>3. Len(ws) \in S
  <2> HIDE DEF S
  <2> QED
    BY <1>1, <1>2, Induction
<1>4. \E g : g = Body(g, Len(ws))
  BY <1>3
<1> DEFINE G == CHOOSE g : g = Body(g, Len(ws))
<1>5. G = Body(G, Len(ws))
  BY <1>4
<1>6. matmul_group(ws, l, xs) = [j \in 1..Len(ws) |-> G[j].y]
  BY DEF matmul_group, GroupStart
<1> HIDE DEF G
<1>7. G[0] = GroupStart /\ \A j \in 1..Len(ws) : G[j] = GroupStep(G[j - 1], ws[j], l, xs)
  BY <1>5
<1> QED
  BY <1>6, <1>7 DEF GroupRun

\* The rows of every format that is ready are those of the input.
Acts(g, xs) ==
    /\ DOMAIN g.acts = {"q8", "q8k"} /\ g.ready \subseteq {"q8", "q8k"}
    /\ \A f \in g.ready, b \in 0..Len(xs) - 1 : g.acts[f][b] = <<f, xs[b + 1]>>

\* One matrix of a group: its format's activations are the ones it needs,
\* whether it computed them or an earlier matrix did, so its rows are the
\* products.
LEMMA GroupStepActs ==
    ASSUME NEW g, NEW w, NEW l, NEW xs, Len(xs) \in 0..MaxBatch, Acts(g, xs)
    PROVE  /\ Acts(GroupStep(g, w, l, xs), xs)
           /\ \A b \in 1..Len(xs) : GroupStep(g, w, l, xs).y[b] = Product(w, l, xs[b])
<1>0. MaxBatch \in Nat
  BY InferenceAssumption
<1>1. PICK f \in {"q8", "q8k"} : f = ActFormat(w)
  BY DEF ActFormat
<1>2. PICK acts : acts = IF f \in g.ready THEN g.acts ELSE QuantizeRows(g.acts, f, xs)
  OBVIOUS
<1>3. DOMAIN acts = {"q8", "q8k"}
  BY <1>2 DEF Acts, QuantizeRows
<1>4. ASSUME NEW e \in g.ready \cup {f}, NEW b \in 0..Len(xs) - 1 PROVE acts[e][b] = <<e, xs[b + 1]>>
  <2>1. CASE f \in g.ready
    BY <1>2, <1>4, <2>1 DEF Acts
  <2>2. CASE f \notin g.ready
    <3>1. acts = [g.acts EXCEPT ![f] = [c \in 0..MaxBatch - 1 |-> IF c < Len(xs) THEN <<f, xs[c + 1]>> ELSE g.acts[f][c]]]
      BY <1>2, <2>2 DEF QuantizeRows
    <3>2. CASE e = f
      <4>1. acts[f] = [c \in 0..MaxBatch - 1 |-> IF c < Len(xs) THEN <<f, xs[c + 1]>> ELSE g.acts[f][c]]
        BY <3>1 DEF Acts
      <4>2. b \in 0..MaxBatch - 1 /\ b < Len(xs)
        BY <1>0
      <4> QED
        BY <3>2, <4>1, <4>2
    <3>3. CASE e # f
      <4>1. e \in g.ready /\ acts[e] = g.acts[e]
        BY <1>4, <3>1, <3>3 DEF Acts
      <4> QED
        BY <4>1 DEF Acts
    <3> QED
      BY <3>2, <3>3
  <2> QED
    BY <2>1, <2>2
<1>5. GroupStep(g, w, l, xs) =
        [acts |-> acts, ready |-> g.ready \cup {f},
         y |-> [b \in 1..Len(xs) |-> <<"mul", model.dtypes[w], Mat(w, l), acts[f][b - 1]>>]]
  BY <1>1, <1>2 DEF GroupStep
<1>6. Acts(GroupStep(g, w, l, xs), xs)
  <2>1. PICK r : r = GroupStep(g, w, l, xs)
    OBVIOUS
  <2>2. r.acts = acts /\ r.ready = g.ready \cup {f}
    BY <1>5, <2>1
  <2>3. Acts(r, xs)
    BY <1>3, <1>4, <2>2 DEF Acts
  <2> QED
    BY ONLY <2>1, <2>3
<1>7. ASSUME NEW b \in 1..Len(xs) PROVE GroupStep(g, w, l, xs).y[b] = Product(w, l, xs[b])
  <2>1. GroupStep(g, w, l, xs).y[b] = <<"mul", model.dtypes[w], Mat(w, l), acts[f][b - 1]>>
    BY <1>5
  <2>2. b - 1 \in 0..Len(xs) - 1 /\ (b - 1) + 1 = b
    BY <1>0
  <2>3. acts[f][b - 1] = <<f, xs[(b - 1) + 1]>>
    BY <1>4, <2>2
  <2> QED
    BY <1>1, <2>1, <2>2, <2>3 DEF Product
<1> QED
  BY <1>6, <1>7

\* Whatever the matrices of a group are quantized to, and whichever of them
\* share a format, every result is the product of its own matrix.
LEMMA GroupProducts ==
    ASSUME NEW ws, NEW l, NEW xs, Len(ws) \in Nat, Len(xs) \in 0..MaxBatch,
           NEW j \in 1..Len(ws), NEW b \in 1..Len(xs)
    PROVE  matmul_group(ws, l, xs)[j][b] = Product(ws[j], l, xs[b])
<1>0. PICK g : GroupRun(g, ws, l, xs)
  BY GroupUnfolds
<1>1. /\ matmul_group(ws, l, xs) = [i \in 1..Len(ws) |-> g[i].y]
      /\ g[0] = GroupStart
      /\ \A i \in 1..Len(ws) : g[i] = GroupStep(g[i - 1], ws[i], l, xs)
  BY <1>0 DEF GroupRun
<1> DEFINE S == {i \in Nat : i \in 0..Len(ws) /\ Acts(g[i], xs)}
<1>2. 0 \in S
  BY <1>1 DEF Acts, GroupStart, NoActs
<1>3. ASSUME NEW n \in 0..Len(ws) - 1, n \in S PROVE n + 1 \in S
  <2>1. g[n + 1] = GroupStep(g[n], ws[n + 1], l, xs)
    <3>1. n + 1 \in 1..Len(ws) /\ (n + 1) - 1 = n
      OBVIOUS
    <3> QED
      BY <1>1, <3>1
  <2>2. Acts(g[n], xs)
    BY <1>3
  <2>3. Acts(g[n + 1], xs)
    BY <2>1, <2>2, GroupStepActs
  <2> QED
    BY <2>3
<1>4. 0..Len(ws) \subseteq S
  <2> HIDE DEF S
  <2> QED
    BY <1>2, <1>3, Climb
<1>5. Acts(g[j - 1], xs) /\ g[j] = GroupStep(g[j - 1], ws[j], l, xs)
  BY <1>1, <1>4
<1>6. g[j].y[b] = Product(ws[j], l, xs[b])
  BY <1>5, GroupStepActs
<1> QED
  BY <1>1, <1>6

\* A result has a row for every row of the input.
LEMMA GroupRows ==
    ASSUME NEW ws, NEW l, NEW xs, Len(ws) \in Nat, NEW j \in 1..Len(ws), Len(xs) \in Nat,
           NEW z, z = matmul_group(ws, l, xs)[j]
    PROVE  Len(z) = Len(xs)
<1>0. PICK g : GroupRun(g, ws, l, xs)
  BY GroupUnfolds
<1>1. matmul_group(ws, l, xs)[j] = g[j].y /\ g[j] = GroupStep(g[j - 1], ws[j], l, xs)
  BY <1>0 DEF GroupRun
<1>2. PICK z0 : z0 = g[j].y /\ z0 = [b \in 1..Len(xs) |-> z0[b]]
  <2>1. PICK a, w : a = g[j - 1] /\ w = ws[j]
    OBVIOUS
  <2>2. PICK r : r = GroupStep(a, w, l, xs)
    OBVIOUS
  <2>3. r.y = [b \in 1..Len(xs) |-> r.y[b]]
    BY <2>2 DEF GroupStep
  <2> QED
    BY ONLY <1>1, <2>1, <2>2, <2>3
<1>3. z0 \in Seq({z0[b] : b \in 1..Len(xs)})
  BY <1>2
<1>4. Len(z0) = Len(xs)
  BY <1>2, <1>3
<1> QED
  BY <1>1, <1>2, <1>4

\* A batched matrix product gives each input its own product.
LEMMA Matmul1 ==
    ASSUME NEW w, NEW l, NEW xs, Len(xs) \in 0..MaxBatch, NEW b \in 1..Len(xs)
    PROVE  matmul(w, l, xs)[b] = Product(w, l, xs[b])
<1>1. PICK ws : ws = <<w>>
  OBVIOUS
<1>2. Len(ws) \in Nat /\ 1 \in 1..Len(ws) /\ ws[1] = w
  BY <1>1
<1>3. matmul_group(ws, l, xs)[1][b] = Product(ws[1], l, xs[b])
  BY <1>2, GroupProducts
<1> QED
  BY <1>1, <1>2, <1>3 DEF matmul

\* A group of products that share activations gives each matrix its product.
LEMMA MatvecGroup ==
    ASSUME NEW ws, NEW l, NEW x, Len(ws) \in Nat, NEW j \in 1..Len(ws)
    PROVE  matvec_group(ws, l, x)[j] = Product(ws[j], l, x)
<1>0. MaxBatch \in Nat \ {0}
  BY InferenceAssumption
<1>1. PICK xs : xs = <<x>>
  OBVIOUS
<1>2. xs[1] = x /\ 1 \in 1..Len(xs) /\ Len(xs) \in 0..MaxBatch
  BY <1>0, <1>1
<1>3. matmul_group(ws, l, xs)[j][1] = Product(ws[j], l, xs[1])
  BY <1>2, GroupProducts
<1> QED
  BY <1>1, <1>2, <1>3 DEF matvec_group

\* So does a single one.
LEMMA Matvec1 ==
    ASSUME NEW w, NEW l, NEW x
    PROVE  matvec(w, l, x) = Product(w, l, x)
<1>0. MaxBatch \in Nat \ {0}
  BY InferenceAssumption
<1>1. PICK xs : xs = <<x>>
  OBVIOUS
<1>2. xs[1] = x /\ 1 \in 1..Len(xs) /\ Len(xs) \in 0..MaxBatch
  BY <1>0, <1>1
<1>3. matmul(w, l, xs)[1] = Product(w, l, xs[1])
  BY <1>2, Matmul1
<1> QED
  BY <1>1, <1>2, <1>3 DEF matvec

-----------------------------------------------------------------------------
(* A layer: the caches hold the keys and values of the positions so far. *)

\* A KV cache with its rows, whatever they hold.
Shape(c) == DOMAIN c = 0..Layers - 1 /\ \A l \in 0..Layers - 1 : DOMAIN c[l] = 0..Ctx - 1

\* The rows of layer l for the first n positions, whose inputs are xs.
Rows(kc, vc, l, xs, n) ==
    \A t \in 0..n - 1 : /\ kc[l][t] = CacheRow(KeyOf(xs[t + 1], l, t))
                        /\ vc[l][t] = CacheRow(ValueOf(xs[t + 1], l))

\* Attention of every head at position p, from the caches.
AttendHeads(kc, vc, q, p) == [h \in 0..Heads - 1 |-> Attend(kc, vc, q, h, p)]

\* Rows 0..n-1 of one layer's caches hold keys K and values V.
Holds(kc, vc, K, V, n) == \A t \in 0..n - 1 : kc[t] = CacheRow(K[t]) /\ vc[t] = CacheRow(V[t])

\* Attention over cache rows is attention over the keys and values they hold.
LEMMA AttendsAll ==
    ASSUME NEW kc, NEW vc, NEW q, NEW n \in Nat \ {0}, NEW K, NEW V, Holds(kc, vc, K, V, n)
    PROVE  AttendHeads(kc, vc, q, n - 1) = Attention(K, V, q, n)
<1>1. ASSUME NEW h \in 0..Heads - 1
      PROVE  Attend(kc, vc, q, h, n - 1) = Attention(K, V, q, n)[h]
  <2>1. PICK g \in 0..KvHeads - 1 : g = h \div (Heads \div KvHeads)
    BY KvHead
  <2>2. ASSUME NEW t \in 0..n - 1 PROVE kc[t][g] = AsF16(HeadOf(K[t], g)) /\ vc[t][g] = AsF16(HeadOf(V[t], g))
    <3>1. kc[t] = CacheRow(K[t]) /\ vc[t] = CacheRow(V[t])
      BY DEF Holds
    <3> QED
      BY <3>1 DEF CacheRow
  <2>3. Attend(kc, vc, q, h, n - 1) =
          <<"sum", softmax([t \in 0..n - 1 |-> <<"dot", kc[t][g], HeadOf(q, h)>>]), [t \in 0..n - 1 |-> vc[t][g]]>>
    BY <2>1 DEF Attend
  <2>4. Attention(K, V, q, n)[h] =
          <<"sum", softmax([t \in 0..n - 1 |-> <<"dot", AsF16(HeadOf(K[t], g)), HeadOf(q, h)>>]),
                   [t \in 0..n - 1 |-> AsF16(HeadOf(V[t], g))]>>
    BY <2>1 DEF Attention
  <2>5. [t \in 0..n - 1 |-> <<"dot", kc[t][g], HeadOf(q, h)>>]
          = [t \in 0..n - 1 |-> <<"dot", AsF16(HeadOf(K[t], g)), HeadOf(q, h)>>]
    BY <2>2
  <2>6. [t \in 0..n - 1 |-> vc[t][g]] = [t \in 0..n - 1 |-> AsF16(HeadOf(V[t], g))]
    BY <2>2
  <2> QED
    BY <2>3, <2>4, <2>5, <2>6
<1>2. DOMAIN Attention(K, V, q, n) = 0..Heads - 1 /\ Attention(K, V, q, n) = [h \in 0..Heads - 1 |-> Attention(K, V, q, n)[h]]
  BY DEF Attention
<1> QED
  BY <1>1, <1>2 DEF AttendHeads

\* Position n - 1 of layer l, against rows that hold what comes before it and itself.
LEMMA AtPosition ==
    ASSUME NEW kc, NEW vc, NEW l, NEW xs, NEW n \in Nat \ {0}, Rows(kc, vc, l, xs, n),
           NEW q, q = QueryOf(xs[n], l, n - 1),
           NEW a, a = AttendHeads(kc[l], vc[l], q, n - 1)
    PROVE  FeedForward(saxpy(xs[n], Product("wo", l, a)), l) = LayerAt(xs, l, n)
<1>1. PICK K, V : /\ K = [t \in 0..n - 1 |-> KeyOf(xs[t + 1], l, t)]
                  /\ V = [t \in 0..n - 1 |-> ValueOf(xs[t + 1], l)]
  OBVIOUS
<1>2. Holds(kc[l], vc[l], K, V, n)
  BY <1>1 DEF Rows, Holds
<1>3. a = Attention(K, V, q, n)
  BY <1>2, AttendsAll
<1> QED
  BY <1>1, <1>3 DEF LayerAt

\* One layer of forward: with the rows of the earlier positions in the cache,
\* the layer's result is the reference's, and the position's own row joins them.
LEMMA ForwardLayerIs ==
    ASSUME NEW s, NEW l \in 0..Layers - 1, NEW xs, NEW p \in 0..Ctx - 1, p = pos,
           Shape(s.kc), Shape(s.vc), s.x = xs[p + 1], Rows(s.kc, s.vc, l, xs, p),
           NEW r, r = ForwardLayer(s, l)
    PROVE  /\ r.x = LayerAt(xs, l, p + 1)
           /\ Shape(r.kc) /\ Shape(r.vc) /\ Rows(r.kc, r.vc, l, xs, p + 1)
           /\ \A m \in 0..Layers - 1 : m # l => r.kc[m] = s.kc[m] /\ r.vc[m] = s.vc[m]
<1>0. Layers \in Nat /\ Ctx \in Nat
  BY InferenceAssumption
<1> DEFINE dxb   == rmsnorm(s.x, Mat("attn_norm", l))
           dqkv  == matvec_group(<<"wq", "wk", "wv">>, l, dxb)
           dq    == rope(qk_norm(dqkv[1], Mat("q_norm", l)), pos)
           dk    == rope(qk_norm(dqkv[2], Mat("k_norm", l)), pos)
           dkc   == [s.kc EXCEPT ![l][pos] = CacheRow(dk)]
           dvc   == [s.vc EXCEPT ![l][pos] = CacheRow(dqkv[3])]
           dattn == [h \in 0..Heads - 1 |-> Attend(dkc[l], dvc[l], dq, h, pos)]
           dx    == saxpy(s.x, matvec("wo", l, dattn))
           dgu   == matvec_group(<<"gate", "up">>, l, rmsnorm(dx, Mat("ffn_norm", l)))
<1>r. r = [x |-> saxpy(dx, matvec("down", l, swiglu(dgu[1], dgu[2]))), kc |-> dkc, vc |-> dvc]
  BY DEF ForwardLayer
<1>1. PICK xb : xb = dxb /\ xb = rmsnorm(xs[p + 1], Mat("attn_norm", l))
  OBVIOUS
<1> HIDE DEF dxb
<1>2. PICK qkv : qkv = dqkv /\ qkv = matvec_group(<<"wq", "wk", "wv">>, l, xb)
  BY <1>1
<1> HIDE DEF dqkv
<1>3. qkv[1] = Product("wq", l, xb) /\ qkv[2] = Product("wk", l, xb) /\ qkv[3] = Product("wv", l, xb)
  <2>1. PICK ws : ws = <<"wq", "wk", "wv">>
    OBVIOUS
  <2>2. /\ Len(ws) \in Nat /\ 1 \in 1..Len(ws) /\ 2 \in 1..Len(ws) /\ 3 \in 1..Len(ws)
        /\ ws[1] = "wq" /\ ws[2] = "wk" /\ ws[3] = "wv"
    BY <2>1
  <2>3. /\ matvec_group(ws, l, xb)[1] = Product(ws[1], l, xb)
        /\ matvec_group(ws, l, xb)[2] = Product(ws[2], l, xb)
        /\ matvec_group(ws, l, xb)[3] = Product(ws[3], l, xb)
    BY <2>2, MatvecGroup
  <2> QED
    BY <1>2, <2>1, <2>2, <2>3
<1>4. PICK q, k : /\ q = rope(qk_norm(qkv[1], Mat("q_norm", l)), p)
                  /\ k = rope(qk_norm(qkv[2], Mat("k_norm", l)), p)
                  /\ q = dq /\ k = dk
  BY <1>2
<1> HIDE DEF dq, dk
<1>5. q = QueryOf(xs[p + 1], l, p) /\ k = KeyOf(xs[p + 1], l, p) /\ qkv[3] = ValueOf(xs[p + 1], l)
  BY <1>1, <1>3, <1>4 DEF QueryOf, KeyOf, ValueOf
<1>6. PICK kc, vc : /\ kc = [s.kc EXCEPT ![l][p] = CacheRow(k)]
                    /\ vc = [s.vc EXCEPT ![l][p] = CacheRow(qkv[3])]
                    /\ kc = dkc /\ vc = dvc
  BY <1>2, <1>4
<1> HIDE DEF dkc, dvc
<1>7. /\ Shape(kc) /\ Shape(vc)
      /\ \A m \in 0..Layers - 1 : m # l => kc[m] = s.kc[m] /\ vc[m] = s.vc[m]
      /\ kc[l] = [s.kc[l] EXCEPT ![p] = CacheRow(k)] /\ vc[l] = [s.vc[l] EXCEPT ![p] = CacheRow(qkv[3])]
  BY <1>6 DEF Shape
<1>8. Rows(kc, vc, l, xs, p + 1)
  <2> SUFFICES ASSUME NEW t \in 0..p
               PROVE  /\ kc[l][t] = CacheRow(KeyOf(xs[t + 1], l, t))
                      /\ vc[l][t] = CacheRow(ValueOf(xs[t + 1], l))
    BY DEF Rows
  <2>0. p \in DOMAIN s.kc[l] /\ p \in DOMAIN s.vc[l] /\ t \in DOMAIN s.kc[l] /\ t \in DOMAIN s.vc[l]
    BY <1>0 DEF Shape
  <2>1. CASE t = p
    BY <1>5, <1>7, <2>0, <2>1
  <2>2. CASE t # p
    <3>1. t \in 0..p - 1
      BY <1>0, <2>2
    <3>2. kc[l][t] = s.kc[l][t] /\ vc[l][t] = s.vc[l][t]
      BY <1>7, <2>0, <2>2
    <3> QED
      BY <3>1, <3>2 DEF Rows
  <2> QED
    BY <2>1, <2>2
<1>9. PICK a : a = AttendHeads(kc[l], vc[l], q, p) /\ a = dattn
  BY <1>4, <1>6 DEF AttendHeads
<1> HIDE DEF dattn
<1>10. PICK x : x = dx /\ x = saxpy(xs[p + 1], Product("wo", l, a))
  <2>1. matvec("wo", l, a) = Product("wo", l, a)
    BY Matvec1
  <2> QED
    BY <1>9, <2>1
<1> HIDE DEF dx
<1>11. FeedForward(x, l) = LayerAt(xs, l, p + 1)
  <2>1. PICK n \in Nat \ {0} : n = p + 1 /\ n - 1 = p
    BY <1>0
  <2>2. Rows(kc, vc, l, xs, n) /\ q = QueryOf(xs[n], l, n - 1)
    BY <1>5, <1>8, <2>1
  <2>3. a = AttendHeads(kc[l], vc[l], q, n - 1)
    BY <1>9, <2>1
  <2>4. FeedForward(saxpy(xs[n], Product("wo", l, a)), l) = LayerAt(xs, l, n)
    BY <2>2, <2>3, AtPosition
  <2> QED
    BY <1>10, <2>1, <2>4
<1>12. PICK z0 : z0 = rmsnorm(x, Mat("ffn_norm", l))
  OBVIOUS
<1>13. PICK gu : gu = dgu /\ gu = matvec_group(<<"gate", "up">>, l, z0)
  BY <1>10, <1>12
<1> HIDE DEF dgu
<1>14. gu[1] = Product("gate", l, z0) /\ gu[2] = Product("up", l, z0)
  <2>1. PICK ws : ws = <<"gate", "up">>
    OBVIOUS
  <2>2. Len(ws) \in Nat /\ 1 \in 1..Len(ws) /\ 2 \in 1..Len(ws) /\ ws[1] = "gate" /\ ws[2] = "up"
    BY <2>1
  <2>3. /\ matvec_group(ws, l, z0)[1] = Product(ws[1], l, z0)
        /\ matvec_group(ws, l, z0)[2] = Product(ws[2], l, z0)
    BY <2>2, MatvecGroup
  <2> QED
    BY <1>13, <2>1, <2>2, <2>3
<1>15. saxpy(x, matvec("down", l, swiglu(gu[1], gu[2]))) = FeedForward(x, l)
  <2>1. PICK z : z = swiglu(gu[1], gu[2])
    OBVIOUS
  <2>2. matvec("down", l, z) = Product("down", l, z)
    BY Matvec1
  <2> QED
    BY <1>12, <1>14, <2>1, <2>2 DEF FeedForward
<1>16. r = [x |-> saxpy(x, matvec("down", l, swiglu(gu[1], gu[2]))), kc |-> kc, vc |-> vc]
  BY <1>r, <1>6, <1>10, <1>13
<1>17. r.x = FeedForward(x, l) /\ r.kc = kc /\ r.vc = vc
  BY <1>15, <1>16
<1> QED
  BY <1>7, <1>8, <1>11, <1>17

\* The length of a batch.
LEMMA BatchLen ==
    ASSUME NEW k \in Nat, NEW f, f = [i \in 1..k |-> f[i]]
    PROVE  Len(f) = k
<1>1. f \in Seq({f[i] : i \in 1..k})
  OBVIOUS
<1> QED
  BY <1>1

\* A batch of k positions from base on: their inputs, and what layer l makes of them.
BatchOf(bx, xs, base, k) == bx = [i \in 1..k |-> xs[base + i]]

\* bx holds the results of layer l for k positions from base.
LayerBatch(bx, xs, l, base, k) == bx = [i \in 1..k |-> LayerAt(xs, l, base + i)]

\* Fewer rows of the same cache.
LEMMA RowsBelow ==
    ASSUME NEW kc, NEW vc, NEW l, NEW xs, NEW m \in Nat, NEW n \in Nat, n <= m, Rows(kc, vc, l, xs, m)
    PROVE  Rows(kc, vc, l, xs, n)
BY DEF Rows

\* What a layer of prefill_chunk finds: the batch's inputs and the rows of the
\* positions before it.
ChunkBefore(s, l, xs, base, k) ==
    /\ l \in 0..Layers - 1 /\ base \in Nat /\ k \in 1..MaxBatch /\ base + k <= Ctx
    /\ Shape(s.kc) /\ Shape(s.vc) /\ BatchOf(s.bx, xs, base, k) /\ Rows(s.kc, s.vc, l, xs, base)

\* What it leaves: the batch's results and the rows of the batch too; the other
\* layers keep their rows.
ChunkAfter(r, s, l, xs, base, k) ==
    /\ LayerBatch(r.bx, xs, l, base, k)
    /\ Shape(r.kc) /\ Shape(r.vc) /\ Rows(r.kc, r.vc, l, xs, base + k)
    /\ \A m \in 0..Layers - 1 : m # l => r.kc[m] = s.kc[m] /\ r.vc[m] = s.vc[m]

\* One layer of prefill_chunk.  Every position of the batch is in the cache
\* before any attends, so each sees exactly the rows up to its own.
LEMMA ChunkLayerIs ==
    ASSUME NEW s, NEW l, NEW xs, NEW base, NEW k, ChunkBefore(s, l, xs, base, k),
           NEW r, r = ChunkLayer(s, l, base)
    PROVE  ChunkAfter(r, s, l, xs, base, k)
<1> SUFFICES ASSUME l \in 0..Layers - 1, base \in Nat, k \in 1..MaxBatch, base + k <= Ctx,
                    Shape(s.kc), Shape(s.vc), BatchOf(s.bx, xs, base, k), Rows(s.kc, s.vc, l, xs, base)
             PROVE  ChunkAfter(r, s, l, xs, base, k)
  BY DEF ChunkBefore
<1>0. Layers \in Nat /\ Ctx \in Nat /\ MaxBatch \in Nat /\ k \in Nat /\ k \in 0..MaxBatch
  BY InferenceAssumption
<1> DEFINE rws  == DOMAIN s.bx
           dbxb  == [i \in rws |-> rmsnorm(s.bx[i], Mat("attn_norm", l))]
           dqkv  == matmul_group(<<"wq", "wk", "wv">>, l, dbxb)
           dbq   == [i \in rws |-> rope(qk_norm(dqkv[1][i], Mat("q_norm", l)), base + i - 1)]
           dbk   == [i \in rws |-> rope(qk_norm(dqkv[2][i], Mat("k_norm", l)), base + i - 1)]
           dkc   == Appended(s.kc, l, base, dbk)
           dvc   == Appended(s.vc, l, base, dqkv[3])
           dattn == [i \in rws |-> [h \in 0..Heads - 1 |-> Attend(dkc[l], dvc[l], dbq[i], h, base + i - 1)]]
           dwo   == matmul("wo", l, dattn)
           dbx   == [i \in rws |-> saxpy(s.bx[i], dwo[i])]
           dgu   == matmul_group(<<"gate", "up">>, l, [i \in rws |-> rmsnorm(dbx[i], Mat("ffn_norm", l))])
           ddown == matmul("down", l, [i \in rws |-> swiglu(dgu[1][i], dgu[2][i])])
<1>r. r = [bx |-> [i \in rws |-> saxpy(dbx[i], ddown[i])], kc |-> dkc, vc |-> dvc]
  BY DEF ChunkLayer
<1>b. s.bx = [i \in 1..k |-> xs[base + i]]
  BY DEF BatchOf
<1>d. rws = 1..k
  BY <1>b
<1> HIDE DEF rws
<1>1. PICK bxb : bxb = dbxb /\ bxb = [i \in 1..k |-> rmsnorm(xs[base + i], Mat("attn_norm", l))]
  BY <1>b, <1>d
<1> HIDE DEF dbxb
<1>2. PICK qkv : qkv = dqkv /\ qkv = matmul_group(<<"wq", "wk", "wv">>, l, bxb)
  BY <1>1
<1> HIDE DEF dqkv
<1>3. ASSUME NEW i \in 1..k
      PROVE  /\ qkv[1][i] = Product("wq", l, bxb[i]) /\ qkv[2][i] = Product("wk", l, bxb[i])
             /\ qkv[3][i] = Product("wv", l, bxb[i])
  <2>1. PICK ws : ws = <<"wq", "wk", "wv">>
    OBVIOUS
  <2>2. /\ Len(ws) \in Nat /\ 1 \in 1..Len(ws) /\ 2 \in 1..Len(ws) /\ 3 \in 1..Len(ws)
        /\ ws[1] = "wq" /\ ws[2] = "wk" /\ ws[3] = "wv"
    BY <2>1
  <2>3. Len(bxb) = k
    BY <1>0, <1>1, BatchLen
  <2>4. Len(bxb) \in 0..MaxBatch /\ i \in 1..Len(bxb)
    BY <1>0, <2>3
  <2>5. /\ matmul_group(ws, l, bxb)[1][i] = Product(ws[1], l, bxb[i])
        /\ matmul_group(ws, l, bxb)[2][i] = Product(ws[2], l, bxb[i])
        /\ matmul_group(ws, l, bxb)[3][i] = Product(ws[3], l, bxb[i])
    BY <2>2, <2>4, GroupProducts
  <2> QED
    BY <1>2, <2>1, <2>2, <2>5
<1>4. PICK bq, bk : /\ bq = dbq /\ bk = dbk
                    /\ bq = [i \in 1..k |-> rope(qk_norm(qkv[1][i], Mat("q_norm", l)), base + i - 1)]
                    /\ bk = [i \in 1..k |-> rope(qk_norm(qkv[2][i], Mat("k_norm", l)), base + i - 1)]
  BY <1>2, <1>d
<1> HIDE DEF dbq, dbk
<1>5. ASSUME NEW i \in 1..k
      PROVE  /\ bq[i] = QueryOf(xs[base + i], l, base + i - 1) /\ bk[i] = KeyOf(xs[base + i], l, base + i - 1)
             /\ qkv[3][i] = ValueOf(xs[base + i], l)
  <2>1. bxb[i] = rmsnorm(xs[base + i], Mat("attn_norm", l))
    BY <1>1
  <2> QED
    BY <1>3, <1>4, <2>1 DEF QueryOf, KeyOf, ValueOf
<1>6. PICK kc, vc : kc = dkc /\ vc = dvc /\ kc = Appended(s.kc, l, base, bk) /\ vc = Appended(s.vc, l, base, qkv[3])
  BY <1>2, <1>4
<1> HIDE DEF dkc, dvc
<1>l. Len(bk) = k /\ Len(qkv[3]) = k
  <2>1. bk = [i \in 1..k |-> bk[i]]
    BY <1>4
  <2>2. PICK ws : ws = <<"wq", "wk", "wv">>
    OBVIOUS
  <2>3. Len(ws) \in Nat /\ 3 \in 1..Len(ws) /\ ws[3] = "wv"
    BY <2>2
  <2>4. Len(bxb) = k
    BY <1>0, <1>1, BatchLen
  <2>5. Len(matmul_group(ws, l, bxb)[3]) = Len(bxb)
    <3>1. Len(bxb) \in Nat
      BY <1>0, <2>4
    <3>2. PICK j \in 1..Len(ws) : j = 3
      BY <2>3
    <3>3. PICK z : z = matmul_group(ws, l, bxb)[j]
      OBVIOUS
    <3>4. Len(z) = Len(bxb)
      BY <2>3, <3>1, <3>3, GroupRows
    <3> QED
      BY <3>2, <3>3, <3>4
  <2> QED
    BY <1>0, <1>2, <2>1, <2>2, <2>4, <2>5, BatchLen
<1>7. /\ Shape(kc) /\ Shape(vc)
      /\ \A m \in 0..Layers - 1 : m # l => kc[m] = s.kc[m] /\ vc[m] = s.vc[m]
      /\ kc[l] = [t \in 0..Ctx - 1 |->
                    IF t \in base..base + k - 1 THEN CacheRow(bk[t - base + 1]) ELSE s.kc[l][t]]
      /\ vc[l] = [t \in 0..Ctx - 1 |->
                    IF t \in base..base + k - 1 THEN CacheRow(qkv[3][t - base + 1]) ELSE s.vc[l][t]]
  BY <1>6, <1>l DEF Shape, Appended
<1>8. Rows(kc, vc, l, xs, base + k)
  <2> SUFFICES ASSUME NEW t \in 0..base + k - 1
               PROVE  /\ kc[l][t] = CacheRow(KeyOf(xs[t + 1], l, t))
                      /\ vc[l][t] = CacheRow(ValueOf(xs[t + 1], l))
    BY DEF Rows
  <2>0. t \in 0..Ctx - 1
    BY <1>0
  <2>1. CASE t >= base
    <3>1. PICK i \in 1..k : i = t - base + 1 /\ base + i = t + 1 /\ base + i - 1 = t
      BY <1>0, <2>1
    <3>2. kc[l][t] = CacheRow(bk[i]) /\ vc[l][t] = CacheRow(qkv[3][i])
      BY <1>0, <1>7, <2>0, <2>1, <3>1
    <3>3. bk[i] = KeyOf(xs[t + 1], l, t) /\ qkv[3][i] = ValueOf(xs[t + 1], l)
      BY <1>5, <3>1
    <3> QED
      BY <3>2, <3>3
  <2>2. CASE t < base
    <3>1. t \in 0..base - 1 /\ t \notin base..base + k - 1
      BY <1>0, <2>2
    <3>2. kc[l][t] = s.kc[l][t] /\ vc[l][t] = s.vc[l][t]
      BY <1>7, <2>0, <3>1
    <3> QED
      BY <3>1, <3>2 DEF Rows
  <2> QED
    BY <1>0, <2>1, <2>2
<1>9. PICK a : a = dattn /\ a = [i \in 1..k |-> AttendHeads(kc[l], vc[l], bq[i], base + i - 1)]
  BY <1>4, <1>6, <1>d DEF AttendHeads
<1> HIDE DEF dattn
<1>10. PICK bx : bx = dbx /\ bx = [i \in 1..k |-> saxpy(xs[base + i], Product("wo", l, a[i]))]
  <2>1. Len(a) = k
    BY <1>0, <1>9, BatchLen
  <2>2. PICK wo : wo = matmul("wo", l, a) /\ wo = dwo
    BY <1>9
  <2>3. ASSUME NEW i \in 1..k PROVE wo[i] = Product("wo", l, a[i])
    <3>1. Len(a) \in 0..MaxBatch /\ i \in 1..Len(a)
      BY <1>0, <2>1
    <3> QED
      BY <2>2, <3>1, Matmul1
  <2> HIDE DEF dwo
  <2>4. dbx = [i \in 1..k |-> saxpy(xs[base + i], wo[i])]
    BY <1>b, <1>d, <2>2
  <2> QED
    BY <2>3, <2>4
<1> HIDE DEF dbx
<1>11. ASSUME NEW i \in 1..k PROVE FeedForward(bx[i], l) = LayerAt(xs, l, base + i)
  <2>1. PICK n \in Nat \ {0} : n = base + i /\ n - 1 = base + i - 1
    BY <1>0
  <2>2. PICK q : q = bq[i] /\ q = QueryOf(xs[n], l, n - 1)
    BY <1>5, <2>1
  <2>3. PICK ai : ai = a[i] /\ ai = AttendHeads(kc[l], vc[l], q, n - 1)
    BY <1>9, <2>1, <2>2
  <2>4. Rows(kc, vc, l, xs, n)
    <3>1. PICK m \in Nat : m = base + k /\ n <= m
      BY <1>0, <2>1
    <3> QED
      BY <1>8, <3>1, RowsBelow
  <2>5. FeedForward(saxpy(xs[n], Product("wo", l, ai)), l) = LayerAt(xs, l, n)
    BY <2>2, <2>3, <2>4, AtPosition
  <2>6. bx[i] = saxpy(xs[n], Product("wo", l, ai))
    BY <1>10, <2>1, <2>3
  <2> QED
    BY <2>1, <2>5, <2>6
<1>12. PICK z0 : z0 = [i \in 1..k |-> rmsnorm(bx[i], Mat("ffn_norm", l))]
  OBVIOUS
<1>13. PICK gu : gu = dgu /\ gu = matmul_group(<<"gate", "up">>, l, z0)
  BY <1>10, <1>12, <1>d
<1> HIDE DEF dgu
<1>14. ASSUME NEW i \in 1..k
       PROVE  gu[1][i] = Product("gate", l, z0[i]) /\ gu[2][i] = Product("up", l, z0[i])
  <2>1. PICK ws : ws = <<"gate", "up">>
    OBVIOUS
  <2>2. Len(ws) \in Nat /\ 1 \in 1..Len(ws) /\ 2 \in 1..Len(ws) /\ ws[1] = "gate" /\ ws[2] = "up"
    BY <2>1
  <2>3. Len(z0) = k
    BY <1>0, <1>12, BatchLen
  <2>4. Len(z0) \in 0..MaxBatch /\ i \in 1..Len(z0)
    BY <1>0, <2>3
  <2>5. /\ matmul_group(ws, l, z0)[1][i] = Product(ws[1], l, z0[i])
        /\ matmul_group(ws, l, z0)[2][i] = Product(ws[2], l, z0[i])
    BY <2>2, <2>4, GroupProducts
  <2> QED
    BY <1>13, <2>1, <2>2, <2>5
<1>15. PICK z : z = [i \in 1..k |-> swiglu(gu[1][i], gu[2][i])]
  OBVIOUS
<1>16. PICK down : down = ddown /\ down = matmul("down", l, z)
  BY <1>13, <1>15, <1>d
<1> HIDE DEF ddown
<1>17. ASSUME NEW i \in 1..k PROVE saxpy(bx[i], down[i]) = LayerAt(xs, l, base + i)
  <2>1. Len(z) = k
    BY <1>0, <1>15, BatchLen
  <2>2. down[i] = Product("down", l, z[i])
    BY <1>0, <1>16, <2>1, Matmul1
  <2>3. z0[i] = rmsnorm(bx[i], Mat("ffn_norm", l)) /\ z[i] = swiglu(gu[1][i], gu[2][i])
    BY <1>12, <1>15
  <2>4. saxpy(bx[i], down[i]) = FeedForward(bx[i], l)
    BY <1>14, <2>2, <2>3 DEF FeedForward
  <2> QED
    BY <1>11, <2>4
<1>18. r.bx = [i \in 1..k |-> saxpy(bx[i], down[i])] /\ r.kc = kc /\ r.vc = vc
  BY <1>r, <1>6, <1>10, <1>16, <1>d
<1>19. r.bx = [i \in 1..k |-> LayerAt(xs, l, base + i)]
  BY <1>17, <1>18
<1> QED
  BY <1>7, <1>8, <1>18, <1>19 DEF LayerBatch, ChunkAfter

-----------------------------------------------------------------------------
(* The layers, one on top of the other. *)

\* The embeddings of a list of tokens.
EmbedAll(toks) == [n \in 1..Len(toks) |-> Embed(toks[n])]

\* The definition, layer by layer.
ResidualsRun(g, toks) ==
    /\ Residuals(toks) = g
    /\ g[0] = EmbedAll(toks)
    /\ \A j \in 1..Layers : g[j] = LayerOf(g[j - 1], j - 1)

\* The reference's recursion over the layers has its steps.
LEMMA ResidualsUnfold ==
    ASSUME NEW toks, Layers \in Nat
    PROVE  \E g : ResidualsRun(g, toks)
<1> DEFINE Body(g, n) == [j \in 0..n |-> IF j = 0 THEN EmbedAll(toks) ELSE LayerOf(g[j - 1], j - 1)]
           S == {n \in Nat : \E g : g = Body(g, n)}
<1>1. 0 \in S
  <2>1. [j \in 0..0 |-> EmbedAll(toks)] = Body([j \in 0..0 |-> EmbedAll(toks)], 0)
    OBVIOUS
  <2> QED
    BY <2>1
<1>2. ASSUME NEW n \in Nat, n \in S PROVE n + 1 \in S
  <2>1. PICK g : g = Body(g, n)
    BY <1>2
  <2> DEFINE h == [j \in 0..n + 1 |-> IF j <= n THEN g[j] ELSE LayerOf(g[n], n + 1 - 1)]
  <2>2. ASSUME NEW j \in 0..n + 1
        PROVE  h[j] = IF j = 0 THEN EmbedAll(toks) ELSE LayerOf(h[j - 1], j - 1)
    <3>1. CASE j = 0
      BY <2>1, <3>1
    <3>2. CASE j # 0 /\ j <= n
      <4>1. g[j] = LayerOf(g[j - 1], j - 1)
        BY <2>1, <3>2
      <4>2. h[j] = g[j] /\ h[j - 1] = g[j - 1]
        BY <3>2
      <4> QED
        BY <3>2, <4>1, <4>2
    <3>3. CASE j = n + 1
      BY <3>3
    <3> QED
      BY <3>1, <3>2, <3>3
  <2>3. h = Body(h, n + 1)
    BY <2>2
  <2> HIDE DEF h, Body
  <2> QED
    BY <2>3
<1>3. Layers \in S
  <2> HIDE DEF S
  <2> QED
    BY <1>1, <1>2, Induction
<1>4. \E g : g = Body(g, Layers)
  BY <1>3
<1> DEFINE G == CHOOSE g : g = Body(g, Layers)
<1>5. G = Body(G, Layers)
  BY <1>4
<1>6. Residuals(toks) = G
  BY DEF Residuals, EmbedAll
<1> HIDE DEF G
<1>7. G[0] = EmbedAll(toks) /\ \A j \in 1..Layers : G[j] = LayerOf(G[j - 1], j - 1)
  BY <1>5
<1> QED
  BY <1>6, <1>7 DEF ResidualsRun

\* The constants are positive.
LEMMA LayersNat == Layers \in Nat \ {0} /\ Ctx \in Nat \ {0} /\ MaxBatch \in Nat \ {0}
BY InferenceAssumption

\* One residual per token at every layer.
LEMMA ResidualDomain ==
    ASSUME NEW toks, Len(toks) \in Nat, NEW j \in 0..Layers
    PROVE  DOMAIN Residuals(toks)[j] = 1..Len(toks)
<1>0. Layers \in Nat
  BY LayersNat
<1>1. PICK g : ResidualsRun(g, toks)
  BY <1>0, ResidualsUnfold
<1>2. g = Residuals(toks) /\ g[0] = EmbedAll(toks) /\ \A i \in 1..Layers : g[i] = LayerOf(g[i - 1], i - 1)
  BY <1>1 DEF ResidualsRun
<1> DEFINE S == {i \in 0..Layers : DOMAIN g[i] = 1..Len(toks)}
<1>3. 0 \in S
  BY <1>0, <1>2 DEF EmbedAll
<1>4. ASSUME NEW n \in 0..Layers - 1, n \in S PROVE n + 1 \in S
  <2>1. n + 1 \in 1..Layers /\ (n + 1) - 1 = n
    BY <1>0
  <2>2. g[n + 1] = LayerOf(g[n], n)
    BY <1>2, <2>1
  <2> QED
    BY <1>0, <1>4, <2>2 DEF LayerOf
<1>5. 0..Layers \subseteq S
  <2> HIDE DEF S
  <2> QED
    BY <1>0, <1>3, <1>4, Climb
<1> QED
  BY <1>2, <1>5

\* Below the first layer it is the embedding.
LEMMA ResidualFirst ==
    ASSUME NEW toks, NEW n \in 1..Len(toks)
    PROVE  Residuals(toks)[0][n] = Embed(toks[n])
<1>0. Layers \in Nat
  BY LayersNat
<1>1. PICK g : ResidualsRun(g, toks)
  BY <1>0, ResidualsUnfold
<1> QED
  BY <1>1 DEF ResidualsRun, EmbedAll

\* Above a layer it is that layer's result.
LEMMA ResidualNext ==
    ASSUME NEW toks, Len(toks) \in Nat, NEW j \in 0..Layers - 1, NEW n \in 1..Len(toks)
    PROVE  Residuals(toks)[j + 1][n] = LayerAt(Residuals(toks)[j], j, n)
<1>0. Layers \in Nat
  BY LayersNat
<1>1. PICK g : ResidualsRun(g, toks)
  BY <1>0, ResidualsUnfold
<1>2. g = Residuals(toks) /\ \A i \in 1..Layers : g[i] = LayerOf(g[i - 1], i - 1)
  BY <1>1 DEF ResidualsRun
<1>3. j + 1 \in 1..Layers /\ (j + 1) - 1 = j /\ j \in 0..Layers
  BY <1>0
<1>4. g[j + 1] = LayerOf(g[j], j)
  BY <1>2, <1>3
<1>5. DOMAIN g[j] = 1..Len(toks)
  BY <1>2, <1>3, ResidualDomain
<1> QED
  BY <1>2, <1>4, <1>5 DEF LayerOf

\* Two lists of residuals agree on the first n.
Same(xs, ys, n) == \A t \in 1..n : xs[t] = ys[t]

\* A position depends on those before it and itself.
LEMMA LayerAtCausal ==
    ASSUME NEW xs, NEW ys, NEW l, NEW n \in Nat \ {0}, Same(xs, ys, n)
    PROVE  LayerAt(xs, l, n) = LayerAt(ys, l, n)
<1>1. ASSUME NEW t \in 0..n - 1 PROVE xs[t + 1] = ys[t + 1]
  BY DEF Same
<1>2. xs[n] = ys[n]
  BY DEF Same
<1>3. [t \in 0..n - 1 |-> KeyOf(xs[t + 1], l, t)] = [t \in 0..n - 1 |-> KeyOf(ys[t + 1], l, t)]
  BY <1>1
<1>4. [t \in 0..n - 1 |-> ValueOf(xs[t + 1], l)] = [t \in 0..n - 1 |-> ValueOf(ys[t + 1], l)]
  BY <1>1
<1> QED
  BY <1>2, <1>3, <1>4 DEF LayerAt

\* more begins with toks.
Extends(toks, more) ==
    /\ Len(toks) \in Nat /\ Len(more) \in Nat /\ Len(toks) <= Len(more)
    /\ \A i \in 1..Len(toks) : more[i] = toks[i]

\* The reference is causal: tokens fed later do not change the residuals of the
\* earlier ones.
LEMMA Causal ==
    ASSUME NEW toks, NEW more, Extends(toks, more), NEW j \in 0..Layers
    PROVE  Same(Residuals(toks)[j], Residuals(more)[j], Len(toks))
<1>0. Layers \in Nat
  BY LayersNat
<1>1. PICK n \in Nat : n = Len(toks)
  BY DEF Extends
<1>2. PICK R0, Y : R0 = Residuals(toks) /\ Y = Residuals(more)
  OBVIOUS
<1> DEFINE S == {i \in 0..Layers : Same(R0[i], Y[i], n)}
<1>3. 0 \in S
  <2>1. ASSUME NEW t \in 1..n PROVE R0[0][t] = Y[0][t]
    <3>1. t \in 1..Len(toks) /\ t \in 1..Len(more) /\ more[t] = toks[t]
      BY <1>1 DEF Extends
    <3> QED
      BY <1>2, <3>1, ResidualFirst
  <2> QED
    BY <1>0, <2>1 DEF Same
<1>4. ASSUME NEW i \in 0..Layers - 1, i \in S PROVE i + 1 \in S
  <2>1. ASSUME NEW t \in 1..n PROVE R0[i + 1][t] = Y[i + 1][t]
    <3>1. t \in 1..Len(toks) /\ t \in 1..Len(more) /\ Len(toks) \in Nat /\ Len(more) \in Nat
      BY <1>1 DEF Extends
    <3>2. R0[i + 1][t] = LayerAt(R0[i], i, t) /\ Y[i + 1][t] = LayerAt(Y[i], i, t)
      BY <1>2, <3>1, ResidualNext
    <3>3. Same(R0[i], Y[i], t) /\ t \in Nat \ {0}
      BY <1>4 DEF Same
    <3>4. LayerAt(R0[i], i, t) = LayerAt(Y[i], i, t)
      BY <3>3, LayerAtCausal
    <3> QED
      BY <3>2, <3>4
  <2> QED
    BY <1>0, <2>1 DEF Same
<1>5. 0..Layers \subseteq S
  <2> HIDE DEF S
  <2> QED
    BY <1>0, <1>3, <1>4, Climb
<1> QED
  BY <1>1, <1>2, <1>5

\* Cache rows depend only on the residuals of their positions.
LEMMA RowsSame ==
    ASSUME NEW kc, NEW vc, NEW l, NEW xs, NEW ys, NEW n \in Nat, Rows(kc, vc, l, xs, n), Same(xs, ys, n)
    PROVE  Rows(kc, vc, l, ys, n)
<1> SUFFICES ASSUME NEW t \in 0..n - 1
             PROVE  /\ kc[l][t] = CacheRow(KeyOf(ys[t + 1], l, t))
                    /\ vc[l][t] = CacheRow(ValueOf(ys[t + 1], l))
  BY DEF Rows
<1>1. ys[t + 1] = xs[t + 1]
  BY DEF Same
<1> QED
  BY <1>1 DEF Rows

\* The caches hold the keys and values of toks, in every layer.
CacheOf(kc, vc, toks) ==
    /\ Shape(kc) /\ Shape(vc)
    /\ \A l \in 0..Layers - 1 : Rows(kc, vc, l, Residuals(toks)[l], Len(toks))

\* The classifier on the last residual gives the reference's logits.
LEMMA Classified ==
    ASSUME NEW toks, NEW x, x = Residuals(toks)[Layers][Len(toks)]
    PROVE  Classify(x) = Reference(toks)
<1>1. PICK z0 : z0 = rmsnorm(x, Mat("out_norm", Layers))
  OBVIOUS
<1>2. matvec("output", Layers, z0) = Product("output", Layers, z0)
  BY Matvec1
<1> QED
  BY <1>1, <1>2 DEF Classify, Reference

-----------------------------------------------------------------------------
(* forward and prefill_chunk *)

\* The state in which forward's layers start.
ForwardStart(tok) == [x |-> Embed(tok), kc |-> key_cache, vc |-> val_cache]

\* forward, layer by layer.
ForwardRun(g, tok) ==
    /\ ForwardLayers(tok) = g[Layers]
    /\ g[0] = ForwardStart(tok)
    /\ \A j \in 1..Layers : g[j] = ForwardLayer(g[j - 1], j - 1)

\* forward's recursion over the layers has its steps.
LEMMA ForwardUnfolds ==
    ASSUME NEW tok, Layers \in Nat
    PROVE  \E g : ForwardRun(g, tok)
<1> DEFINE Body(g, n) == [j \in 0..n |-> IF j = 0 THEN ForwardStart(tok) ELSE ForwardLayer(g[j - 1], j - 1)]
           S == {n \in Nat : \E g : g = Body(g, n)}
<1>1. 0 \in S
  <2>1. [j \in 0..0 |-> ForwardStart(tok)] = Body([j \in 0..0 |-> ForwardStart(tok)], 0)
    OBVIOUS
  <2> QED
    BY <2>1
<1>2. ASSUME NEW n \in Nat, n \in S PROVE n + 1 \in S
  <2>1. PICK g : g = Body(g, n)
    BY <1>2
  <2> DEFINE h == [j \in 0..n + 1 |-> IF j <= n THEN g[j] ELSE ForwardLayer(g[n], n + 1 - 1)]
  <2>2. ASSUME NEW j \in 0..n + 1
        PROVE  h[j] = IF j = 0 THEN ForwardStart(tok) ELSE ForwardLayer(h[j - 1], j - 1)
    <3>1. CASE j = 0
      BY <2>1, <3>1
    <3>2. CASE j # 0 /\ j <= n
      <4>1. g[j] = ForwardLayer(g[j - 1], j - 1)
        BY <2>1, <3>2
      <4>2. h[j] = g[j] /\ h[j - 1] = g[j - 1]
        BY <3>2
      <4> QED
        BY <3>2, <4>1, <4>2
    <3>3. CASE j = n + 1
      BY <3>3
    <3> QED
      BY <3>1, <3>2, <3>3
  <2>3. h = Body(h, n + 1)
    BY <2>2
  <2> HIDE DEF h, Body
  <2> QED
    BY <2>3
<1>3. Layers \in S
  <2> HIDE DEF S
  <2> QED
    BY <1>1, <1>2, Induction
<1>4. \E g : g = Body(g, Layers)
  BY <1>3
<1> DEFINE G == CHOOSE g : g = Body(g, Layers)
<1>5. G = Body(G, Layers)
  BY <1>4
<1>6. ForwardLayers(tok) = G[Layers]
  BY DEF ForwardLayers, ForwardStart
<1> HIDE DEF G
<1>7. G[0] = ForwardStart(tok) /\ \A j \in 1..Layers : G[j] = ForwardLayer(G[j - 1], j - 1)
  BY <1>5
<1> QED
  BY <1>6, <1>7 DEF ForwardRun

\* After j layers of forward at position p: the caches of the first j hold the
\* row of p too, those of the others are as they were.
ForwardInv(s, j, toks, p, kc, vc) ==
    /\ s.x = Residuals(toks)[j][p + 1]
    /\ Shape(s.kc) /\ Shape(s.vc)
    /\ \A l \in 0..Layers - 1 :
           /\ l < j => Rows(s.kc, s.vc, l, Residuals(toks)[l], p + 1)
           /\ l >= j => s.kc[l] = kc[l] /\ s.vc[l] = vc[l]

\* forward: with the cache of the tokens fed so far, one token more leaves the
\* cache of the longer list and its last residual.
LEMMA ForwardIs ==
    ASSUME NEW f, NEW toks, NEW tok, NEW p \in 0..Ctx - 1, p = pos, Len(f) = p, Len(toks) = p + 1,
           Extends(f, toks), toks[p + 1] = tok,
           NEW kc, NEW vc, kc = key_cache, vc = val_cache, CacheOf(kc, vc, f),
           NEW r, r = ForwardLayers(tok)
    PROVE  CacheOf(r.kc, r.vc, toks) /\ r.x = Residuals(toks)[Layers][Len(toks)]
<1>0. Layers \in Nat /\ Ctx \in Nat /\ p \in Nat
  BY LayersNat
<1>1. PICK g : ForwardRun(g, tok)
  BY <1>0, ForwardUnfolds
<1>2. r = g[Layers] /\ g[0] = ForwardStart(tok) /\ \A i \in 1..Layers : g[i] = ForwardLayer(g[i - 1], i - 1)
  BY <1>1 DEF ForwardRun
<1>3. PICK R0 : R0 = Residuals(toks)
  OBVIOUS
<1> DEFINE S == {i \in 0..Layers : ForwardInv(g[i], i, toks, p, kc, vc)}
<1>4. 0 \in S
  <2>1. p + 1 \in 1..Len(toks)
    BY <1>0
  <2>2. Residuals(toks)[0][p + 1] = Embed(tok)
    BY <2>1, ResidualFirst
  <2>3. g[0].x = Embed(tok) /\ g[0].kc = kc /\ g[0].vc = vc
    BY <1>2 DEF ForwardStart
  <2> QED
    BY <1>0, <2>2, <2>3 DEF ForwardInv, CacheOf
<1>5. ASSUME NEW i \in 0..Layers - 1, i \in S PROVE i + 1 \in S
  <2>1. i + 1 \in 1..Layers /\ (i + 1) - 1 = i /\ i \in 0..Layers
    BY <1>0
  <2>2. PICK s, q : s = g[i] /\ q = g[i + 1] /\ q = ForwardLayer(s, i) /\ ForwardInv(s, i, toks, p, kc, vc)
    BY <1>2, <1>5, <2>1
  <2>3. PICK xs : xs = Residuals(toks)[i]
    OBVIOUS
  <2>4. Rows(s.kc, s.vc, i, xs, p)
    <3>1. Rows(kc, vc, i, Residuals(f)[i], p)
      BY DEF CacheOf
    <3>2. s.kc[i] = kc[i] /\ s.vc[i] = vc[i]
      BY <1>0, <2>2 DEF ForwardInv
    <3>3. Same(Residuals(f)[i], xs, p)
      BY <2>1, <2>3, Causal
    <3>4. Rows(kc, vc, i, xs, p)
      BY <1>0, <3>1, <3>3, RowsSame
    <3> QED
      BY <3>2, <3>4 DEF Rows
  <2>5. s.x = xs[p + 1] /\ Shape(s.kc) /\ Shape(s.vc)
    BY <2>2, <2>3 DEF ForwardInv
  <2>6. /\ q.x = LayerAt(xs, i, p + 1)
        /\ Shape(q.kc) /\ Shape(q.vc) /\ Rows(q.kc, q.vc, i, xs, p + 1)
        /\ \A m \in 0..Layers - 1 : m # i => q.kc[m] = s.kc[m] /\ q.vc[m] = s.vc[m]
    BY <2>2, <2>4, <2>5, ForwardLayerIs
  <2>7. q.x = Residuals(toks)[i + 1][p + 1]
    <3>1. p + 1 \in 1..Len(toks) /\ Len(toks) \in Nat
      BY <1>0
    <3>2. Residuals(toks)[i + 1][p + 1] = LayerAt(xs, i, p + 1)
      BY <2>3, <3>1, ResidualNext
    <3> QED
      BY <2>6, <3>2
  <2>8. ASSUME NEW l \in 0..Layers - 1
        PROVE  /\ l < i + 1 => Rows(q.kc, q.vc, l, Residuals(toks)[l], p + 1)
               /\ l >= i + 1 => q.kc[l] = kc[l] /\ q.vc[l] = vc[l]
    <3>1. CASE l = i
      BY <1>0, <2>3, <2>6, <3>1
    <3>2. CASE l < i
      <4>1. Rows(s.kc, s.vc, l, Residuals(toks)[l], p + 1) /\ q.kc[l] = s.kc[l] /\ q.vc[l] = s.vc[l]
        BY <1>0, <2>2, <2>6, <3>2 DEF ForwardInv
      <4>2. Rows(q.kc, q.vc, l, Residuals(toks)[l], p + 1)
        BY <4>1 DEF Rows
      <4> QED
        BY <1>0, <3>2, <4>2
    <3>3. CASE l > i
      <4>1. s.kc[l] = kc[l] /\ s.vc[l] = vc[l] /\ q.kc[l] = s.kc[l] /\ q.vc[l] = s.vc[l]
        BY <1>0, <2>2, <2>6, <3>3 DEF ForwardInv
      <4> QED
        BY <1>0, <3>3, <4>1
    <3> QED
      BY <1>0, <3>1, <3>2, <3>3
  <2>9. ForwardInv(q, i + 1, toks, p, kc, vc)
    BY <2>6, <2>7, <2>8 DEF ForwardInv
  <2>10. g[i + 1] = q /\ i + 1 \in 0..Layers
    BY <1>0, <2>1, <2>2
  <2> QED
    BY <2>9, <2>10
<1>6. 0..Layers \subseteq S
  <2> HIDE DEF S
  <2> QED
    BY <1>0, <1>4, <1>5, Climb
<1>7. ForwardInv(r, Layers, toks, p, kc, vc)
  BY <1>0, <1>2, <1>6
<1>8. ASSUME NEW l \in 0..Layers - 1 PROVE Rows(r.kc, r.vc, l, Residuals(toks)[l], Len(toks))
  BY <1>0, <1>7 DEF ForwardInv
<1> QED
  BY <1>7, <1>8 DEF ForwardInv, CacheOf

\* The state in which prefill_chunk's layers start.
ChunkStart(s, toks) == [bx |-> EmbedAll(toks), kc |-> s.kc, vc |-> s.vc]

\* prefill_chunk, layer by layer.
ChunkRun(g, s, toks) ==
    /\ ChunkLayers(s, toks) = g[Layers]
    /\ g[0] = ChunkStart(s, toks)
    /\ \A j \in 1..Layers : g[j] = ChunkLayer(g[j - 1], j - 1, s.pos)

\* prefill_chunk's recursion over the layers has its steps.
LEMMA ChunkUnfolds ==
    ASSUME NEW s, NEW toks, Layers \in Nat
    PROVE  \E g : ChunkRun(g, s, toks)
<1> DEFINE Body(g, n) == [j \in 0..n |-> IF j = 0 THEN ChunkStart(s, toks) ELSE ChunkLayer(g[j - 1], j - 1, s.pos)]
           S == {n \in Nat : \E g : g = Body(g, n)}
<1>1. 0 \in S
  <2>1. [j \in 0..0 |-> ChunkStart(s, toks)] = Body([j \in 0..0 |-> ChunkStart(s, toks)], 0)
    OBVIOUS
  <2> QED
    BY <2>1
<1>2. ASSUME NEW n \in Nat, n \in S PROVE n + 1 \in S
  <2>1. PICK g : g = Body(g, n)
    BY <1>2
  <2> DEFINE h == [j \in 0..n + 1 |-> IF j <= n THEN g[j] ELSE ChunkLayer(g[n], n + 1 - 1, s.pos)]
  <2>2. ASSUME NEW j \in 0..n + 1
        PROVE  h[j] = IF j = 0 THEN ChunkStart(s, toks) ELSE ChunkLayer(h[j - 1], j - 1, s.pos)
    <3>1. CASE j = 0
      BY <2>1, <3>1
    <3>2. CASE j # 0 /\ j <= n
      <4>1. g[j] = ChunkLayer(g[j - 1], j - 1, s.pos)
        BY <2>1, <3>2
      <4>2. h[j] = g[j] /\ h[j - 1] = g[j - 1]
        BY <3>2
      <4> QED
        BY <3>2, <4>1, <4>2
    <3>3. CASE j = n + 1
      BY <3>3
    <3> QED
      BY <3>1, <3>2, <3>3
  <2>3. h = Body(h, n + 1)
    BY <2>2
  <2> HIDE DEF h, Body
  <2> QED
    BY <2>3
<1>3. Layers \in S
  <2> HIDE DEF S
  <2> QED
    BY <1>1, <1>2, Induction
<1>4. \E g : g = Body(g, Layers)
  BY <1>3
<1> DEFINE G == CHOOSE g : g = Body(g, Layers)
<1>5. G = Body(G, Layers)
  BY <1>4
<1>6. ChunkLayers(s, toks) = G[Layers]
  BY DEF ChunkLayers, ChunkStart, EmbedAll
<1> HIDE DEF G
<1>7. G[0] = ChunkStart(s, toks) /\ \A j \in 1..Layers : G[j] = ChunkLayer(G[j - 1], j - 1, s.pos)
  BY <1>5
<1> QED
  BY <1>6, <1>7 DEF ChunkRun

\* The same, for the k positions of a batch from base on.
ChunkInv(s, j, toks, base, k, kc, vc) ==
    /\ s.bx = [i \in 1..k |-> Residuals(toks)[j][base + i]]
    /\ Shape(s.kc) /\ Shape(s.vc)
    /\ \A l \in 0..Layers - 1 :
           /\ l < j => Rows(s.kc, s.vc, l, Residuals(toks)[l], base + k)
           /\ l >= j => s.kc[l] = kc[l] /\ s.vc[l] = vc[l]

\* The batch is to follow the tokens f, and toks is both.
ChunkCase(s, f, toks, piece, base, k) ==
    /\ base \in Nat /\ k \in 1..MaxBatch /\ base + k <= Ctx
    /\ Len(f) = base /\ Len(piece) = k /\ Len(toks) = base + k
    /\ Extends(f, toks) /\ \A i \in 1..k : toks[base + i] = piece[i]
    /\ s.pos = base /\ CacheOf(s.kc, s.vc, f)

\* prefill_chunk: the same for a batch of tokens.
LEMMA ChunkIs ==
    ASSUME NEW s, NEW f, NEW toks, NEW piece, NEW base, NEW k, ChunkCase(s, f, toks, piece, base, k),
           NEW r, r = ChunkLayers(s, piece)
    PROVE  CacheOf(r.kc, r.vc, toks) /\ r.bx[k] = Residuals(toks)[Layers][Len(toks)]
<1> SUFFICES ASSUME base \in Nat, k \in 1..MaxBatch,
                    Len(f) = base, Len(piece) = k, Len(toks) = base + k, base + k <= Ctx,
                    Extends(f, toks), \A i \in 1..k : toks[base + i] = piece[i],
                    s.pos = base, CacheOf(s.kc, s.vc, f)
             PROVE  CacheOf(r.kc, r.vc, toks) /\ r.bx[k] = Residuals(toks)[Layers][Len(toks)]
  BY DEF ChunkCase
<1>0. Layers \in Nat /\ Ctx \in Nat /\ MaxBatch \in Nat /\ k \in Nat /\ base + k \in Nat
  BY LayersNat
<1>1. PICK g : ChunkRun(g, s, piece)
  BY <1>0, ChunkUnfolds
<1>2. r = g[Layers] /\ g[0] = ChunkStart(s, piece) /\ \A i \in 1..Layers : g[i] = ChunkLayer(g[i - 1], i - 1, base)
  BY <1>1 DEF ChunkRun
<1> DEFINE S == {i \in 0..Layers : ChunkInv(g[i], i, toks, base, k, s.kc, s.vc)}
<1>4. 0 \in S
  <2>1. ASSUME NEW i \in 1..k PROVE Residuals(toks)[0][base + i] = Embed(piece[i])
    <3>1. base + i \in 1..Len(toks) /\ toks[base + i] = piece[i]
      BY <1>0
    <3> QED
      BY <3>1, ResidualFirst
  <2>2. g[0].bx = [i \in 1..k |-> Embed(piece[i])] /\ g[0].kc = s.kc /\ g[0].vc = s.vc
    BY <1>2 DEF ChunkStart, EmbedAll
  <2>3. g[0].bx = [i \in 1..k |-> Residuals(toks)[0][base + i]]
    BY <2>1, <2>2
  <2> QED
    BY <1>0, <2>2, <2>3 DEF ChunkInv, CacheOf
<1>5. ASSUME NEW i \in 0..Layers - 1, i \in S PROVE i + 1 \in S
  <2>1. i + 1 \in 1..Layers /\ (i + 1) - 1 = i /\ i \in 0..Layers
    BY <1>0
  <2>2. PICK a, q : a = g[i] /\ q = g[i + 1] /\ q = ChunkLayer(a, i, base) /\ ChunkInv(a, i, toks, base, k, s.kc, s.vc)
    BY <1>2, <1>5, <2>1
  <2>3. PICK xs : xs = Residuals(toks)[i]
    OBVIOUS
  <2>4. Rows(a.kc, a.vc, i, xs, base)
    <3>1. Rows(s.kc, s.vc, i, Residuals(f)[i], base)
      BY DEF CacheOf
    <3>2. a.kc[i] = s.kc[i] /\ a.vc[i] = s.vc[i]
      BY <1>0, <2>2 DEF ChunkInv
    <3>3. Same(Residuals(f)[i], xs, base)
      BY <2>1, <2>3, Causal
    <3>4. Rows(s.kc, s.vc, i, xs, base)
      BY <1>0, <3>1, <3>3, RowsSame
    <3> QED
      BY <3>2, <3>4 DEF Rows
  <2>5. BatchOf(a.bx, xs, base, k) /\ Shape(a.kc) /\ Shape(a.vc)
    BY <2>2, <2>3 DEF ChunkInv, BatchOf
  <2>6. /\ LayerBatch(q.bx, xs, i, base, k)
        /\ Shape(q.kc) /\ Shape(q.vc) /\ Rows(q.kc, q.vc, i, xs, base + k)
        /\ \A m \in 0..Layers - 1 : m # i => q.kc[m] = a.kc[m] /\ q.vc[m] = a.vc[m]
    <3>1. ChunkBefore(a, i, xs, base, k)
      BY <2>4, <2>5 DEF ChunkBefore
    <3>2. ChunkAfter(q, a, i, xs, base, k)
      BY <2>2, <3>1, ChunkLayerIs
    <3> QED
      BY <3>2 DEF ChunkAfter
  <2>7. q.bx = [n \in 1..k |-> Residuals(toks)[i + 1][base + n]]
    <3>1. ASSUME NEW n \in 1..k PROVE Residuals(toks)[i + 1][base + n] = LayerAt(xs, i, base + n)
      <4>1. base + n \in 1..Len(toks) /\ Len(toks) \in Nat
        BY <1>0
      <4> QED
        BY <2>3, <4>1, ResidualNext
    <3> QED
      BY <2>6, <3>1 DEF LayerBatch
  <2>8. ASSUME NEW l \in 0..Layers - 1
        PROVE  /\ l < i + 1 => Rows(q.kc, q.vc, l, Residuals(toks)[l], base + k)
               /\ l >= i + 1 => q.kc[l] = s.kc[l] /\ q.vc[l] = s.vc[l]
    <3>1. CASE l = i
      BY <1>0, <2>3, <2>6, <3>1
    <3>2. CASE l < i
      <4>1. Rows(a.kc, a.vc, l, Residuals(toks)[l], base + k) /\ q.kc[l] = a.kc[l] /\ q.vc[l] = a.vc[l]
        BY <1>0, <2>2, <2>6, <3>2 DEF ChunkInv
      <4>2. Rows(q.kc, q.vc, l, Residuals(toks)[l], base + k)
        BY <4>1 DEF Rows
      <4> QED
        BY <1>0, <3>2, <4>2
    <3>3. CASE l > i
      <4>1. a.kc[l] = s.kc[l] /\ a.vc[l] = s.vc[l] /\ q.kc[l] = a.kc[l] /\ q.vc[l] = a.vc[l]
        BY <1>0, <2>2, <2>6, <3>3 DEF ChunkInv
      <4> QED
        BY <1>0, <3>3, <4>1
    <3> QED
      BY <1>0, <3>1, <3>2, <3>3
  <2>9. ChunkInv(q, i + 1, toks, base, k, s.kc, s.vc)
    BY <2>6, <2>7, <2>8 DEF ChunkInv
  <2>10. g[i + 1] = q /\ i + 1 \in 0..Layers
    BY <1>0, <2>1, <2>2
  <2> QED
    BY <2>9, <2>10
<1>6. 0..Layers \subseteq S
  <2> HIDE DEF S
  <2> QED
    BY <1>0, <1>4, <1>5, Climb
<1>7. ChunkInv(r, Layers, toks, base, k, s.kc, s.vc)
  BY <1>0, <1>2, <1>6
<1>8. ASSUME NEW l \in 0..Layers - 1 PROVE Rows(r.kc, r.vc, l, Residuals(toks)[l], Len(toks))
  BY <1>0, <1>7 DEF ChunkInv
<1>9. r.bx[k] = Residuals(toks)[Layers][Len(toks)]
  BY <1>0, <1>7 DEF ChunkInv
<1> QED
  BY <1>7, <1>8, <1>9 DEF ChunkInv, CacheOf

-----------------------------------------------------------------------------
(* prefill *)

\* The state in which prefill's chunks start.
PrefillStart == [pos |-> pos, kc |-> key_cache, vc |-> val_cache, logits |-> logits]

\* prefill, chunk by chunk.
PrefillRun(g, toks) ==
    /\ PrefillChunks(toks) = g[Chunks(toks)]
    /\ g[0] = PrefillStart
    /\ \A j \in 1..Chunks(toks) : g[j] = Chunk(g[j - 1], ChunkOf(toks, j))

\* prefill's recursion over the chunks has its steps.
LEMMA PrefillUnfolds ==
    ASSUME NEW toks, Chunks(toks) \in Nat
    PROVE  \E g : PrefillRun(g, toks)
<1> DEFINE Body(g, n) == [j \in 0..n |-> IF j = 0 THEN PrefillStart ELSE Chunk(g[j - 1], ChunkOf(toks, j))]
           S == {n \in Nat : \E g : g = Body(g, n)}
<1>1. 0 \in S
  <2>1. [j \in 0..0 |-> PrefillStart] = Body([j \in 0..0 |-> PrefillStart], 0)
    OBVIOUS
  <2> QED
    BY <2>1
<1>2. ASSUME NEW n \in Nat, n \in S PROVE n + 1 \in S
  <2>1. PICK g : g = Body(g, n)
    BY <1>2
  <2> DEFINE h == [j \in 0..n + 1 |-> IF j <= n THEN g[j] ELSE Chunk(g[n], ChunkOf(toks, n + 1))]
  <2>2. ASSUME NEW j \in 0..n + 1
        PROVE  h[j] = IF j = 0 THEN PrefillStart ELSE Chunk(h[j - 1], ChunkOf(toks, j))
    <3>1. CASE j = 0
      BY <2>1, <3>1
    <3>2. CASE j # 0 /\ j <= n
      <4>1. g[j] = Chunk(g[j - 1], ChunkOf(toks, j))
        BY <2>1, <3>2
      <4>2. h[j] = g[j] /\ h[j - 1] = g[j - 1]
        BY <3>2
      <4> QED
        BY <3>2, <4>1, <4>2
    <3>3. CASE j = n + 1
      BY <3>3
    <3> QED
      BY <3>1, <3>2, <3>3
  <2>3. h = Body(h, n + 1)
    BY <2>2
  <2> HIDE DEF h, Body
  <2> QED
    BY <2>3
<1>3. Chunks(toks) \in S
  <2> HIDE DEF S
  <2> QED
    BY <1>1, <1>2, Induction
<1>4. \E g : g = Body(g, Chunks(toks))
  BY <1>3
<1> DEFINE G == CHOOSE g : g = Body(g, Chunks(toks))
<1>5. G = Body(G, Chunks(toks))
  BY <1>4
<1>6. PrefillChunks(toks) = G[Chunks(toks)]
  BY DEF PrefillChunks, PrefillStart
<1> HIDE DEF G
<1>7. G[0] = PrefillStart /\ \A j \in 1..Chunks(toks) : G[j] = Chunk(G[j - 1], ChunkOf(toks, j))
  BY <1>5
<1> QED
  BY <1>6, <1>7 DEF PrefillRun

\* The first n tokens, and how many of n are done after c chunks.
Upto(all, n) == [i \in 1..n |-> all[i]]

\* Tokens consumed when c chunks of a prompt of n are done.
DoneBy(n, c) == IF c * MaxBatch < n THEN c * MaxBatch ELSE n

\* A longer prefix extends a shorter one.
LEMMA UptoExtends ==
    ASSUME NEW all, NEW m \in Nat, NEW n \in Nat, m <= n
    PROVE  Extends(Upto(all, m), Upto(all, n)) /\ Len(Upto(all, m)) = m
<1>1. Len(Upto(all, m)) = m /\ Len(Upto(all, n)) = n
  BY BatchLen DEF Upto
<1>2. \A i \in 1..m : Upto(all, m)[i] = Upto(all, n)[i]
  BY DEF Upto
<1> QED
  BY <1>1, <1>2 DEF Extends

\* Every chunk starts where the last one stopped and takes 1..MaxBatch tokens.
LEMMA ChunkBounds ==
    ASSUME NEW n \in Nat, NEW N, N = (n + MaxBatch - 1) \div MaxBatch, NEW c \in 0..N - 1
    PROVE  /\ DoneBy(n, c) = c * MaxBatch /\ c * MaxBatch \in Nat
           /\ DoneBy(n, c + 1) - DoneBy(n, c) \in 1..MaxBatch
           /\ DoneBy(n, c + 1) \in 1..n
<1>0. MaxBatch \in Nat \ {0}
  BY LayersNat
<1>1. PICK d \in Nat : d = n + MaxBatch - 1
  BY <1>0
<1>2. N \in Nat /\ N * MaxBatch <= d
  BY <1>0, <1>1
<1>3. PICK e \in Nat : e = N - (c + 1)
  BY <1>2
<1>4. N = (c + 1) + e
  BY <1>2, <1>3
<1>5. PICK w \in Nat : w = e * MaxBatch
  BY <1>0
<1>6. PICK u \in Nat : u = c * MaxBatch
  BY <1>0, <1>2
<1>7. (c + 1) * MaxBatch = u + MaxBatch /\ N * MaxBatch = (u + MaxBatch) + w
  BY <1>0, <1>2, <1>4, <1>5, <1>6
<1>8. u < n
  BY <1>0, <1>1, <1>2, <1>7
<1> HIDE DEF DoneBy
<1>9. DoneBy(n, c) = u
  BY <1>6, <1>8 DEF DoneBy
<1>10. DoneBy(n, c + 1) = IF u + MaxBatch < n THEN u + MaxBatch ELSE n
  BY <1>7 DEF DoneBy
<1> QED
  BY <1>0, <1>6, <1>8, <1>9, <1>10

\* The chunks take every token of the prompt.
LEMMA ChunksDone ==
    ASSUME NEW n \in Nat, NEW N, N = (n + MaxBatch - 1) \div MaxBatch
    PROVE  N \in Nat /\ DoneBy(n, N) = n /\ DoneBy(n, 0) = 0
<1>0. MaxBatch \in Nat \ {0}
  BY LayersNat
<1>1. PICK d \in Nat : d = n + MaxBatch - 1
  BY <1>0
<1>2. N \in Nat /\ d < N * MaxBatch + MaxBatch
  BY <1>0, <1>1
<1>3. PICK u \in Nat : u = N * MaxBatch
  BY <1>0, <1>2
<1>4. ~ (u < n)
  BY <1>0, <1>1, <1>2, <1>3
<1>5. 0 * MaxBatch = 0
  BY <1>0
<1> QED
  BY <1>2, <1>3, <1>4, <1>5 DEF DoneBy

\* One chunk, at the end of f.
LEMMA ChunkAdds ==
    ASSUME NEW f, NEW toks, NEW piece, NEW base, NEW k, NEW s, ChunkCase(s, f, toks, piece, base, k),
           NEW q, q = Chunk(s, piece)
    PROVE  q.pos = base + k /\ CacheOf(q.kc, q.vc, toks) /\ q.logits = Reference(toks)
<1>1. PICK r : r = ChunkLayers(s, piece)
  OBVIOUS
<1>2. CacheOf(r.kc, r.vc, toks) /\ r.bx[k] = Residuals(toks)[Layers][Len(toks)]
  BY <1>1, ChunkIs
<1>3. PICK x : x = r.bx[k]
  OBVIOUS
<1>4. Classify(x) = Reference(toks)
  BY <1>2, <1>3, Classified
<1>5. q = [pos |-> base + k, kc |-> r.kc, vc |-> r.vc, logits |-> Classify(x)]
  BY <1>1, <1>3 DEF Chunk, ChunkCase
<1> QED
  BY <1>2, <1>4, <1>5

\* After m of the tokens behind the first b ones.
PrefillInv(s, all, b, m) ==
    /\ s.pos = b + m
    /\ CacheOf(s.kc, s.vc, Upto(all, b + m))
    /\ m > 0 => s.logits = Reference(Upto(all, b + m))

\* part is the k tokens of toks after the first u.
SliceOf(part, toks, u, k) == u \in Nat /\ k \in Nat \ {0} /\ part = SubSeq(toks, u + 1, u + k)

\* Its tokens.
LEMMA Slice ==
    ASSUME NEW part, NEW toks, NEW u, NEW k, SliceOf(part, toks, u, k)
    PROVE  Len(part) = k /\ \A i \in 1..k : part[i] = toks[u + i]
<1>0. PICK m \in Nat, n \in Nat \ {0} : m = u /\ n = k
  BY DEF SliceOf
<1> SUFFICES ASSUME part = SubSeq(toks, m + 1, m + n)
             PROVE  Len(part) = n /\ \A i \in 1..n : part[i] = toks[m + i]
  BY <1>0 DEF SliceOf
<1>1. Len(part) = n
  OBVIOUS
<1>2. ASSUME NEW i \in 1..n PROVE part[i] = toks[m + i]
  OBVIOUS
<1> QED
  BY <1>1, <1>2

\* prefill: after the last chunk the cache, the position and the logits are
\* those of the whole prompt after what was fed before it.
LEMMA PrefillIs ==
    ASSUME NEW all, NEW b \in Nat, NEW n \in Nat \ {0}, b + n <= Ctx,
           NEW toks, Len(toks) = n, \A i \in 1..n : toks[i] = all[b + i],
           pos = b, CacheOf(key_cache, val_cache, Upto(all, b)),
           NEW r, r = PrefillChunks(toks)
    PROVE  PrefillInv(r, all, b, n)
<1>0. MaxBatch \in Nat \ {0} /\ Ctx \in Nat
  BY LayersNat
<1>1. PICK N : N = Chunks(toks) /\ N = (n + MaxBatch - 1) \div MaxBatch
  BY DEF Chunks
<1>2. N \in Nat /\ DoneBy(n, N) = n /\ DoneBy(n, 0) = 0
  BY <1>1, ChunksDone
<1>3. PICK g : PrefillRun(g, toks)
  BY <1>1, <1>2, PrefillUnfolds
<1>4. r = g[N] /\ g[0] = PrefillStart /\ \A c \in 1..N : g[c] = Chunk(g[c - 1], ChunkOf(toks, c))
  BY <1>1, <1>3 DEF PrefillRun
<1> DEFINE S == {c \in 0..N : PrefillInv(g[c], all, b, DoneBy(n, c))}
<1>5. 0 \in S
  <2>1. g[0].pos = b /\ g[0].kc = key_cache /\ g[0].vc = val_cache
    BY <1>4 DEF PrefillStart
  <2>2. b + 0 = b
    OBVIOUS
  <2>3. PrefillInv(g[0], all, b, 0)
    BY <2>1, <2>2 DEF PrefillInv
  <2> QED
    BY <1>2, <2>3
<1>6. ASSUME NEW c \in 0..N - 1, c \in S PROVE c + 1 \in S
  <2>1. PICK u, v, k, piece : u = DoneBy(n, c) /\ v = DoneBy(n, c + 1) /\ k = v - u /\ piece = ChunkOf(toks, c + 1)
    OBVIOUS
  <2>2. u = c * MaxBatch /\ u \in Nat /\ k \in 1..MaxBatch /\ v \in 1..n
    BY <1>1, <2>1, ChunkBounds
  <2>3. u \in Nat /\ k \in Nat \ {0} /\ v = u + k /\ v \in 1..n
    <3>1. u \in Nat /\ k \in 1..MaxBatch /\ v \in 1..n /\ k = v - u
      BY <2>1, <2>2
    <3> QED
      BY ONLY n \in Nat \ {0}, <1>0, <3>1
  <2>4. piece = SubSeq(toks, u + 1, v)
    <3>1. (c + 1) - 1 = c
      OBVIOUS
    <3>2. piece = SubSeq(toks, c * MaxBatch + 1, DoneBy(n, c + 1))
      BY <2>1, <3>1 DEF ChunkOf, DoneBy
    <3> QED
      BY <2>1, <2>2, <3>2
  <2>8. Len(piece) = k /\ \A i \in 1..k : piece[i] = toks[u + i]
    <3>1. piece = SubSeq(toks, u + 1, u + k)
      BY <2>3, <2>4
    <3> QED
      BY <2>3, <3>1, Slice DEF SliceOf
  <2>9. ASSUME NEW i \in 1..k PROVE piece[i] = all[(b + u) + i]
    <3>1. u + i \in 1..n /\ b + (u + i) = (b + u) + i
      BY <2>3
    <3> QED
      BY <2>8, <3>1
  <2>10. PICK f, f2 : f = Upto(all, b + u) /\ f2 = Upto(all, b + v)
    OBVIOUS
  <2>11. b + u \in Nat /\ b + v \in Nat /\ b + u <= b + v /\ b + v = (b + u) + k /\ b + v <= Ctx
    BY <1>0, <2>3
  <2>12. Extends(f, f2) /\ Len(f) = b + u /\ Len(f2) = (b + u) + k
    BY <2>10, <2>11, UptoExtends
  <2>13. ASSUME NEW i \in 1..k PROVE f2[(b + u) + i] = piece[i]
    BY <2>3, <2>9, <2>10, <2>11 DEF Upto
  <2>14. PICK s, q : s = g[c] /\ q = g[c + 1] /\ q = Chunk(s, piece)
    BY <1>2, <1>4, <2>1
  <2>15. s.pos = b + u /\ CacheOf(s.kc, s.vc, f)
    BY <1>6, <2>1, <2>10, <2>14 DEF PrefillInv
  <2>16. PICK base : base = b + u /\ base \in Nat /\ base + k = b + v
    BY <2>11
  <2>17. q.pos = base + k /\ CacheOf(q.kc, q.vc, f2) /\ q.logits = Reference(f2)
    <3>1. Len(f) = base /\ Len(f2) = base + k /\ base + k <= Ctx /\ s.pos = base
      BY <2>11, <2>12, <2>15, <2>16
    <3>2. \A i \in 1..k : f2[base + i] = piece[i]
      BY <2>13, <2>16
    <3>3. ChunkCase(s, f, f2, piece, base, k)
      BY <2>2, <2>8, <2>12, <2>15, <2>16, <3>1, <3>2 DEF ChunkCase
    <3> QED
      BY <2>14, <3>3, ChunkAdds
  <2>18. PrefillInv(q, all, b, v)
    BY <2>10, <2>16, <2>17 DEF PrefillInv
  <2>19. c + 1 \in 0..N
    BY <1>2
  <2> QED
    BY <2>1, <2>14, <2>18, <2>19
<1>7. 0..N \subseteq S
  <2> HIDE DEF S
  <2> QED
    BY <1>2, <1>5, <1>6, Climb
<1> QED
  BY <1>2, <1>4, <1>7

-----------------------------------------------------------------------------
(* The reference reads nothing but the model. *)

\* The reference reads the model's weights only: a step that leaves the model
\* alone leaves a layer,
LEMMA SameLayer ==
    ASSUME model' = model, NEW xs, NEW l PROVE LayerOf(xs, l)' = LayerOf(xs, l)
BY DEF LayerOf, LayerAt, FeedForward, Attention, QueryOf, KeyOf, ValueOf, Product, ActFormat, rope, qk_norm,
       rmsnorm, saxpy, swiglu, softmax, HeadOf, AsF16, Mat

\* the residuals,
LEMMA SameResiduals ==
    ASSUME model' = model, NEW toks PROVE Residuals(toks)' = Residuals(toks)
BY DEF Residuals, Embed, LayerOf, LayerAt, FeedForward, Attention, QueryOf, KeyOf, ValueOf, Product, ActFormat, rope, qk_norm,
       rmsnorm, saxpy, swiglu, softmax, HeadOf, AsF16, Mat

\* the logits,
LEMMA SameReference ==
    ASSUME model' = model, NEW toks PROVE Reference(toks)' = Reference(toks)
BY SameResiduals DEF Reference, Scaled, Product, ActFormat, rmsnorm, Mat

\* the rows that the cache should hold,
LEMMA SameRows ==
    ASSUME model' = model, NEW kc, NEW vc, NEW l, NEW xs, NEW n, Rows(kc, vc, l, xs, n)
    PROVE  Rows(kc, vc, l, xs, n)'
BY DEF Rows, CacheRow, AsF16, HeadOf, KeyOf, ValueOf, Product, ActFormat, rope, qk_norm, rmsnorm, Mat

\* and the whole cache as they are.
LEMMA SameCache ==
    ASSUME model' = model, NEW kc, NEW vc, NEW toks, CacheOf(kc, vc, toks)
    PROVE  CacheOf(kc, vc, toks)'
<1>1. PICK R0 : R0 = Residuals(toks)
  OBVIOUS
<1>2. Residuals(toks)' = R0
  BY <1>1, SameResiduals
<1>3. ASSUME NEW l \in 0..Layers - 1 PROVE Rows(kc, vc, l, Residuals(toks)[l], Len(toks))'
  <2>1. PICK xs, n : xs = R0[l] /\ n = Len(toks)
    OBVIOUS
  <2>2. Rows(kc, vc, l, xs, n)
    BY <1>1, <2>1 DEF CacheOf
  <2>3. Rows(kc, vc, l, xs, n)'
    BY <2>2, SameRows
  <2> QED
    BY <1>2, <2>1, <2>3
<1> QED
  BY <1>3 DEF CacheOf, Shape

\* Between two calls: the window holds as many tokens as were fed since reset,
\* the caches hold their keys and values, and the logits are theirs.
InferInv ==
    /\ Len(fed) \in Nat /\ pos = Len(fed) /\ pos <= Ctx /\ fed = Upto(fed, pos)
    /\ CacheOf(key_cache, val_cache, fed)
    /\ pos > 0 => logits = Reference(fed)

\* A fresh engine has an empty context and a cache of it.
LEMMA Initially == InferInit => InferInv
<1> SUFFICES ASSUME InferInit PROVE InferInv
  OBVIOUS
<1>1. fed = <<>> /\ pos = 0 /\ Len(fed) = 0 /\ key_cache = NoCache /\ val_cache = NoCache
  BY DEF InferInit
<1>2. Ctx \in Nat
  BY LayersNat
<1>3. fed = Upto(fed, pos)
  BY <1>1 DEF Upto
<1>4. CacheOf(key_cache, val_cache, fed)
  <2>1. Shape(NoCache)
    BY DEF Shape, NoCache
  <2>2. ASSUME NEW l \in 0..Layers - 1 PROVE Rows(key_cache, val_cache, l, Residuals(fed)[l], 0)
    BY DEF Rows
  <2> QED
    BY <1>1, <2>1, <2>2 DEF CacheOf
<1> QED
  BY <1>1, <1>2, <1>3, <1>4 DEF InferInv

\* What a call leaves behind, read before the step.
LEMMA Afterwards ==
    ASSUME model' = model, NEW toks, NEW n \in Nat, n <= Ctx, Len(toks) = n, toks = Upto(toks, n),
           NEW kc, NEW vc, CacheOf(kc, vc, toks), NEW z0, n > 0 => z0 = Reference(toks),
           fed' = toks, pos' = n, key_cache' = kc, val_cache' = vc, logits' = z0
    PROVE  InferInv'
<1>1. CacheOf(kc, vc, toks)'
  BY SameCache
<1>2. Reference(toks)' = Reference(toks)
  BY SameReference
<1>3. CacheOf(key_cache, val_cache, fed)'
  BY <1>1
<1>4. (pos > 0 => logits = Reference(fed))'
  BY <1>2
<1>5. (Len(fed) \in Nat /\ pos = Len(fed) /\ pos <= Ctx /\ fed = Upto(fed, pos))'
  BY DEF Upto
<1> QED
  BY <1>3, <1>4, <1>5 DEF InferInv

\* forward preserves the invariant,
LEMMA ForwardKeeps ==
    ASSUME InferInv, NEW tok, Forward(tok) PROVE InferInv'
<1>0. Ctx \in Nat
  BY LayersNat
<1>1. PICK p, f, kc, vc : p = pos /\ f = fed /\ kc = key_cache /\ vc = val_cache
  OBVIOUS
<1>2. p \in Nat /\ p < Ctx /\ Len(f) = p /\ f = Upto(f, p) /\ CacheOf(kc, vc, f)
  BY <1>1 DEF InferInv, Forward
<1>3. PICK r : r = ForwardLayers(tok)
  OBVIOUS
<1>4. PICK toks : toks = Append(f, tok)
  OBVIOUS
<1>5. f \in Seq({f[i] : i \in 1..p} \cup {tok})
  <2>1. f \in [1..p -> {f[i] : i \in 1..p} \cup {tok}]
    BY <1>2 DEF Upto
  <2> QED
    BY <1>2, <2>1
<1>6. Len(toks) = p + 1 /\ toks[p + 1] = tok /\ (\A i \in 1..p : toks[i] = f[i])
  BY <1>2, <1>4, <1>5
<1>7. toks = Upto(toks, p + 1)
  BY <1>2, <1>4, <1>5, <1>6 DEF Upto
<1>8. Extends(f, toks)
  BY <1>2, <1>6 DEF Extends
<1>9. CacheOf(r.kc, r.vc, toks) /\ r.x = Residuals(toks)[Layers][Len(toks)]
  BY <1>0, <1>1, <1>2, <1>3, <1>6, <1>8, ForwardIs
<1>10. PICK x, kc2, vc2, z0 : x = r.x /\ kc2 = r.kc /\ vc2 = r.vc /\ z0 = Classify(x)
  OBVIOUS
<1>11. z0 = Reference(toks)
  BY <1>9, <1>10, Classified
<1>12. fed' = toks /\ pos' = p + 1 /\ key_cache' = kc2 /\ val_cache' = vc2 /\ logits' = z0 /\ model' = model
  BY <1>1, <1>3, <1>4, <1>10 DEF Forward
<1>13. PICK n \in Nat : n = p + 1 /\ n <= Ctx
  BY <1>0, <1>2
<1> QED
  BY <1>6, <1>7, <1>9, <1>10, <1>11, <1>12, <1>13, Afterwards

\* so does prefill, for a prompt of any length,
LEMMA PrefillKeeps ==
    ASSUME InferInv, NEW toks, NEW n \in Nat \ {0}, toks \in [1..n -> Tokens], Prefill(toks) PROVE InferInv'
<1>0. Ctx \in Nat
  BY LayersNat
<1>1. PICK b, f, kc, vc : b = pos /\ f = fed /\ kc = key_cache /\ vc = val_cache
  OBVIOUS
<1>2. b \in Nat /\ Len(f) = b /\ f = Upto(f, b) /\ CacheOf(kc, vc, f)
  BY <1>1 DEF InferInv
<1>3. toks \in Seq(Tokens) /\ Len(toks) = n
  OBVIOUS
<1>4. b + n <= Ctx
  BY <1>1, <1>3 DEF Prefill
<1>5. PICK T : T = {f[i] : i \in 1..b} \cup Tokens
  OBVIOUS
<1>6. f \in Seq(T) /\ toks \in Seq(T)
  <2>1. f \in [1..b -> T]
    BY <1>2, <1>5 DEF Upto
  <2>2. toks \in [1..n -> T]
    BY <1>5
  <2> QED
    BY <1>2, <2>1, <2>2
<1>7. PICK all : all = f \o toks
  OBVIOUS
<1>8. /\ Len(all) = b + n
      /\ \A i \in 1..b : all[i] = f[i]
      /\ \A i \in 1..n : all[b + i] = toks[i]
      /\ all \in Seq(T)
  <2>1. Len(all) = b + n /\ all \in Seq(T)
    BY SMTT(30), <1>2, <1>3, <1>6, <1>7
  <2>2. ASSUME NEW i \in 1..b PROVE all[i] = f[i]
    BY <1>2, <1>3, <1>6, <1>7
  <2>3. ASSUME NEW i \in 1..n PROVE all[b + i] = toks[i]
    <3>1. b + i \in 1..Len(f) + Len(toks) /\ ~ (b + i <= Len(f)) /\ (b + i) - Len(f) = i
      BY <1>2, <1>3
    <3> QED
      BY <1>2, <1>3, <1>6, <1>7, <3>1
  <2> QED
    BY <2>1, <2>2, <2>3
<1>9. f = Upto(all, b)
  BY <1>2, <1>8 DEF Upto
<1>10. all = Upto(all, b + n)
  BY <1>2, <1>8 DEF Upto
<1>11. PICK r : r = PrefillChunks(toks)
  OBVIOUS
<1>12. PrefillInv(r, all, b, n)
  <2>1. pos = b /\ CacheOf(key_cache, val_cache, Upto(all, b))
    BY <1>1, <1>2, <1>9
  <2> QED
    BY <1>2, <1>3, <1>4, <1>8, <1>11, <2>1, PrefillIs
<1>13. PICK m \in Nat : m = b + n /\ m > 0 /\ m <= Ctx
  BY <1>2, <1>4
<1>14. r.pos = m /\ CacheOf(r.kc, r.vc, all) /\ r.logits = Reference(all)
  BY <1>10, <1>12, <1>13 DEF PrefillInv
<1>15. PICK kc2, vc2, z0 : kc2 = r.kc /\ vc2 = r.vc /\ z0 = r.logits
  OBVIOUS
<1>16. fed' = all /\ pos' = m /\ key_cache' = kc2 /\ val_cache' = vc2 /\ logits' = z0 /\ model' = model
  BY <1>1, <1>7, <1>11, <1>14, <1>15 DEF Prefill
<1>17. Len(all) = m /\ all = Upto(all, m)
  BY <1>8, <1>10, <1>13
<1> QED
  BY <1>13, <1>14, <1>15, <1>16, <1>17, Afterwards

\* and so does reset, which leaves stale rows behind position 0.
LEMMA ResetKeeps ==
    ASSUME InferInv, Reset PROVE InferInv'
<1>1. PICK kc, vc, z0, e : kc = key_cache /\ vc = val_cache /\ z0 = logits /\ e = <<>>
  OBVIOUS
<1>2. Len(e) = 0 /\ e = Upto(e, 0) /\ 0 <= Ctx
  BY <1>1, LayersNat DEF Upto
<1>3. CacheOf(kc, vc, e)
  <2>1. ASSUME NEW l \in 0..Layers - 1 PROVE Rows(kc, vc, l, Residuals(e)[l], 0)
    BY DEF Rows
  <2> QED
    BY <1>1, <1>2, <2>1 DEF InferInv, CacheOf
<1>4. fed' = e /\ pos' = 0 /\ key_cache' = kc /\ val_cache' = vc /\ logits' = z0 /\ model' = model
  BY <1>1 DEF Reset
<1> QED
  BY <1>2, <1>3, <1>4, Afterwards

\* Every step preserves it.
LEMMA InferInduction == InferInv /\ [InferNext]_infervars => InferInv'
<1> SUFFICES ASSUME InferInv, [InferNext]_infervars PROVE InferInv'
  OBVIOUS
<1>1. ASSUME NEW tok \in Tokens, Forward(tok) PROVE InferInv'
  BY <1>1, ForwardKeeps
<1>2. ASSUME NEW k \in 1..Ctx, NEW toks \in [1..k -> Tokens], Prefill(toks) PROVE InferInv'
  BY <1>2, PrefillKeeps, LayersNat
<1>3. CASE Reset
  BY <1>3, ResetKeeps
<1>4. CASE UNCHANGED infervars
  <2>1. PICK f, n, kc, vc, z0 : f = fed /\ n = pos /\ kc = key_cache /\ vc = val_cache /\ z0 = logits
    OBVIOUS
  <2>2. /\ n \in Nat /\ n <= Ctx /\ Len(f) = n /\ f = Upto(f, n) /\ CacheOf(kc, vc, f)
        /\ n > 0 => z0 = Reference(f)
    BY <2>1 DEF InferInv
  <2>3. fed' = f /\ pos' = n /\ key_cache' = kc /\ val_cache' = vc /\ logits' = z0 /\ model' = model
    BY <1>4, <2>1 DEF infervars
  <2> QED
    BY <2>2, <2>3, Afterwards
<1> QED
  BY <1>1, <1>2, <1>3, <1>4 DEF InferNext

\* The logits an Engine holds are the reference's for the tokens fed since the
\* last reset (ContextDecides), for every model shape, batch size and context
\* length, whatever forward, prefill and reset did before: batching a prompt,
\* sharing quantized activations within a group and the stale cache rows that
\* reset leaves change nothing.
THEOREM LogitsAreTheContexts == InferSpec => []ContextDecides
<1>1. InferInv => ContextDecides
  <2> SUFFICES ASSUME InferInv, fed # <<>> PROVE pos = Len(fed) /\ logits = Reference(fed)
    BY DEF ContextDecides
  <2>1. pos = Len(fed) /\ pos \in Nat /\ fed = Upto(fed, pos)
    BY DEF InferInv
  <2>2. pos # 0
    <3> SUFFICES ASSUME pos = 0 PROVE FALSE
      OBVIOUS
    <3>1. fed = [i \in 1..0 |-> fed[i]]
      BY <2>1 DEF Upto
    <3> QED
      BY <3>1
  <2> QED
    BY <2>1, <2>2 DEF InferInv
<1> QED
  BY <1>1, Initially, InferInduction, PTL DEF InferSpec

-----------------------------------------------------------------------------
(* Sums *)

\* A sum, term by term.
SumRun(g, f, n) ==
    /\ SumTo(f, n) = g[n]
    /\ g[0] = 0
    /\ \A j \in 1..n : g[j] = g[j - 1] + f[j - 1]

\* The recursion of a sum has its steps.
LEMMA SumUnfolds ==
    ASSUME NEW f, NEW n, n \in Nat
    PROVE  \E g : SumRun(g, f, n)
<1> DEFINE Body(g, i) == [j \in 0..i |-> IF j = 0 THEN 0 ELSE g[j - 1] + f[j - 1]]
           S == {i \in Nat : \E g : g = Body(g, i)}
<1>1. 0 \in S
  <2>1. [j \in 0..0 |-> 0] = Body([j \in 0..0 |-> 0], 0)
    OBVIOUS
  <2> QED
    BY <2>1
<1>2. ASSUME NEW i \in Nat, i \in S PROVE i + 1 \in S
  <2>1. PICK g : g = Body(g, i)
    BY <1>2
  <2> DEFINE h == [j \in 0..i + 1 |-> IF j <= i THEN g[j] ELSE g[i] + f[i + 1 - 1]]
  <2>2. ASSUME NEW j \in 0..i + 1
        PROVE  h[j] = IF j = 0 THEN 0 ELSE h[j - 1] + f[j - 1]
    <3>1. CASE j = 0
      BY <2>1, <3>1
    <3>2. CASE j # 0 /\ j <= i
      <4>1. g[j] = g[j - 1] + f[j - 1]
        BY <2>1, <3>2
      <4>2. h[j] = g[j] /\ h[j - 1] = g[j - 1]
        BY <3>2
      <4> QED
        BY <3>2, <4>1, <4>2
    <3>3. CASE j = i + 1
      BY <3>3
    <3> QED
      BY <3>1, <3>2, <3>3
  <2>3. h = Body(h, i + 1)
    BY <2>2
  <2> HIDE DEF h, Body
  <2> QED
    BY <2>3
<1>3. n \in S
  <2> HIDE DEF S
  <2> QED
    BY <1>1, <1>2, Induction
<1>4. \E g : g = Body(g, n)
  BY <1>3
<1> DEFINE G == CHOOSE g : g = Body(g, n)
<1>5. G = Body(G, n)
  BY <1>4
<1>6. SumTo(f, n) = G[n]
  BY DEF SumTo
<1> HIDE DEF G
<1>7. G[0] = 0 /\ \A j \in 1..n : G[j] = G[j - 1] + f[j - 1]
  BY <1>5
<1> QED
  BY <1>6, <1>7 DEF SumRun

\* The first n terms are integers.
Ints(f, n) == \A k \in 0..n - 1 : f[k] \in Int

\* The empty sum,
LEMMA SumZero == ASSUME NEW f PROVE SumTo(f, 0) = 0
<1>1. PICK g : SumRun(g, f, 0)
  BY SumUnfolds
<1> QED
  BY <1>1 DEF SumRun

\* and one term more.
LEMMA SumNext == ASSUME NEW f, NEW n \in Nat PROVE SumTo(f, n + 1) = SumTo(f, n) + f[n]
<1>1. PICK g : SumRun(g, f, n)
  BY SumUnfolds
<1>2. PICK h : SumRun(h, f, n + 1)
  BY SumUnfolds
<1>3. SumTo(f, n) = g[n] /\ g[0] = 0 /\ \A j \in 1..n : g[j] = g[j - 1] + f[j - 1]
  BY <1>1 DEF SumRun
<1>4. SumTo(f, n + 1) = h[n + 1] /\ h[0] = 0 /\ \A j \in 1..n + 1 : h[j] = h[j - 1] + f[j - 1]
  BY <1>2 DEF SumRun
<1> DEFINE S == {j \in 0..n : g[j] = h[j]}
<1>5. 0 \in S
  BY <1>3, <1>4
<1>6. ASSUME NEW j \in 0..n - 1, j \in S PROVE j + 1 \in S
  <2>1. j + 1 \in 1..n /\ j + 1 \in 1..n + 1 /\ (j + 1) - 1 = j /\ j + 1 \in 0..n
    OBVIOUS
  <2>2. g[j + 1] = g[j] + f[j] /\ h[j + 1] = h[j] + f[j]
    BY <1>3, <1>4, <2>1
  <2> QED
    BY <1>6, <2>1, <2>2
<1>7. 0..n \subseteq S
  <2> HIDE DEF S
  <2> QED
    BY <1>5, <1>6, Climb
<1>8. g[n] = h[n]
  BY <1>7
<1>9. n + 1 \in 1..n + 1 /\ (n + 1) - 1 = n
  OBVIOUS
<1>10. h[n + 1] = h[n] + f[n]
  BY <1>4, <1>9
<1> QED
  BY <1>3, <1>4, <1>8, <1>10

\* A sum of integers is an integer.
LEMMA SumInt == ASSUME NEW f, NEW n \in Nat, Ints(f, n) PROVE SumTo(f, n) \in Int
<1> DEFINE S == {k \in 0..n : SumTo(f, k) \in Int}
<1>1. 0 \in S
  BY SumZero
<1>2. ASSUME NEW k \in 0..n - 1, k \in S PROVE k + 1 \in S
  <2>1. SumTo(f, k + 1) = SumTo(f, k) + f[k] /\ f[k] \in Int
    BY SumNext DEF Ints
  <2> QED
    BY <1>2, <2>1
<1> HIDE DEF S
<1>3. 0..n \subseteq S
  BY <1>1, <1>2, Climb
<1> QED
  BY <1>3 DEF S

\* Equal terms.
Agree(f, h, n) == \A k \in 0..n - 1 : f[k] = h[k]

\* A sum depends only on the terms it adds.
LEMMA SumSame == ASSUME NEW f, NEW h, NEW n \in Nat, Agree(f, h, n) PROVE SumTo(f, n) = SumTo(h, n)
<1> DEFINE S == {k \in 0..n : SumTo(f, k) = SumTo(h, k)}
<1>1. 0 \in S
  BY SumZero
<1>2. ASSUME NEW k \in 0..n - 1, k \in S PROVE k + 1 \in S
  <2>1. SumTo(f, k + 1) = SumTo(f, k) + f[k] /\ SumTo(h, k + 1) = SumTo(h, k) + h[k] /\ f[k] = h[k]
    BY SumNext DEF Agree
  <2> QED
    BY <1>2, <2>1
<1> HIDE DEF S
<1>3. 0..n \subseteq S
  BY <1>1, <1>2, Climb
<1> QED
  BY <1>3 DEF S

\* The sum of sums, and of multiples.
SumOf(f, g, h, n) == Ints(g, n) /\ Ints(h, n) /\ \A k \in 0..n - 1 : f[k] = g[k] + h[k]

\* The sum of a sum.
LEMMA SumAdds ==
    ASSUME NEW f, NEW g, NEW h, NEW n \in Nat, SumOf(f, g, h, n)
    PROVE  SumTo(f, n) = SumTo(g, n) + SumTo(h, n) /\ SumTo(g, n) \in Int /\ SumTo(h, n) \in Int
<1> DEFINE S == {k \in 0..n : SumTo(f, k) = SumTo(g, k) + SumTo(h, k) /\ SumTo(g, k) \in Int /\ SumTo(h, k) \in Int}
<1>1. 0 \in S
  BY SumZero
<1>2. ASSUME NEW k \in 0..n - 1, k \in S PROVE k + 1 \in S
  <2>1. /\ SumTo(f, k + 1) = SumTo(f, k) + f[k] /\ SumTo(g, k + 1) = SumTo(g, k) + g[k]
        /\ SumTo(h, k + 1) = SumTo(h, k) + h[k]
    BY SumNext
  <2>2. f[k] = g[k] + h[k] /\ g[k] \in Int /\ h[k] \in Int
    BY DEF SumOf, Ints
  <2> QED
    BY <1>2, <2>1, <2>2
<1> HIDE DEF S
<1>3. 0..n \subseteq S
  BY <1>1, <1>2, Climb
<1> QED
  BY <1>3 DEF S

\* Every term is c times the other's.
Multiple(f, c, h, n) == c \in Int /\ Ints(h, n) /\ \A k \in 0..n - 1 : f[k] = c * h[k]

\* A common factor comes out.
LEMMA SumScales ==
    ASSUME NEW f, NEW c, NEW h, NEW n \in Nat, Multiple(f, c, h, n)
    PROVE  SumTo(f, n) = c * SumTo(h, n) /\ SumTo(h, n) \in Int
<1> DEFINE S == {k \in 0..n : SumTo(f, k) = c * SumTo(h, k) /\ SumTo(h, k) \in Int}
<1>0. c \in Int
  BY DEF Multiple
<1>1. 0 \in S
  BY <1>0, SumZero
<1>2. ASSUME NEW k \in 0..n - 1, k \in S PROVE k + 1 \in S
  <2>1. SumTo(f, k + 1) = SumTo(f, k) + f[k] /\ SumTo(h, k + 1) = SumTo(h, k) + h[k]
    BY SumNext
  <2>2. f[k] = c * h[k] /\ h[k] \in Int
    BY DEF Multiple, Ints
  <2>3. PICK a \in Int, b \in Int : a = SumTo(h, k) /\ b = h[k]
    BY <1>2, <2>2
  <2>4. c * (a + b) = c * a + c * b
    BY <1>0
  <2>5. SumTo(f, k) = c * a
    BY <1>2, <2>3
  <2> QED
    BY <1>0, <2>1, <2>2, <2>3, <2>4, <2>5
<1> HIDE DEF S
<1>3. 0..n \subseteq S
  BY <1>1, <1>2, Climb
<1> QED
  BY <1>3 DEF S

\* A sum in two parts, and in parts of equal length.
LEMMA SumSplits ==
    ASSUME NEW f, NEW m \in Nat, NEW n \in Nat, Ints(f, m + n)
    PROVE  SumTo(f, m + n) = SumTo(f, m) + SumTo(Load(f, m, n), n)
<1> DEFINE L == Load(f, m, n)
           S == {k \in 0..n : SumTo(f, m + k) = SumTo(f, m) + SumTo(L, k) /\ SumTo(L, k) \in Int}
<1>0. SumTo(f, m) \in Int
  BY SumInt DEF Ints
<1>1. 0 \in S
  BY <1>0, SumZero
<1>2. ASSUME NEW k \in 0..n - 1, k \in S PROVE k + 1 \in S
  <2>1. L[k] = f[m + k] /\ f[m + k] \in Int
    BY DEF Load, Ints
  <2> HIDE DEF L
  <2>2. SumTo(f, (m + k) + 1) = SumTo(f, m + k) + f[m + k] /\ SumTo(L, k + 1) = SumTo(L, k) + L[k]
    BY SumNext
  <2>3. (m + k) + 1 = m + (k + 1)
    OBVIOUS
  <2> QED
    BY <1>0, <1>2, <2>1, <2>2, <2>3
<1> HIDE DEF S, L
<1>3. 0..n \subseteq S
  BY <1>1, <1>2, Climb
<1> QED
  BY <1>3 DEF S, L

\* p[j] is the sum of the j-th run of m terms.
PartSums(p, f, m, n) == \A j \in 0..n - 1 : p[j] = SumTo(Load(f, j * m, m), m)

\* A sum run by run.
LEMMA SumParts ==
    ASSUME NEW p, NEW f, NEW m \in Nat, NEW n \in Nat, Ints(f, n * m), PartSums(p, f, m, n)
    PROVE  SumTo(f, n * m) = SumTo(p, n)
<1> DEFINE S == {j \in 0..n : SumTo(f, j * m) = SumTo(p, j)}
<1>1. 0 \in S
  BY SumZero
<1>2. ASSUME NEW j \in 0..n - 1, j \in S PROVE j + 1 \in S
  <2>1. PICK u \in Nat : u = j * m
    OBVIOUS
  <2>2. u + m = (j + 1) * m
    BY <2>1
  <2>3. PICK e \in Nat : e = n - (j + 1)
    OBVIOUS
  <2>4. n = (j + 1) + e
    BY <2>3
  <2>5. n * m = (j + 1) * m + e * m /\ e * m \in Nat
    BY <2>3, <2>4
  <2>6. Ints(f, u + m)
    BY <2>1, <2>2, <2>5 DEF Ints
  <2>7. SumTo(f, u + m) = SumTo(f, u) + SumTo(Load(f, u, m), m)
    BY <2>1, <2>6, SumSplits
  <2>8. SumTo(p, j + 1) = SumTo(p, j) + p[j]
    BY SumNext
  <2>9. p[j] = SumTo(Load(f, u, m), m)
    BY <2>1 DEF PartSums
  <2> QED
    BY <1>2, <2>1, <2>2, <2>7, <2>8, <2>9
<1> HIDE DEF S
<1>3. 0..n \subseteq S
  BY <1>1, <1>2, Climb
<1> QED
  BY <1>3 DEF S

-----------------------------------------------------------------------------
(* Quantization *)

\* The block sizes.
LEMMA Sizes == QK_K = 256 /\ QK8_0 = 32 /\ QK_K \in Nat \ {0} /\ QK8_0 \in Nat \ {0} /\ QK8_0 <= QK_K
BY DEF QK_K, QK8_0

\* The absolute value.
LEMMA AbsNat == ASSUME NEW v \in Int PROVE Abs(v) \in Nat /\ (Abs(v) = v \/ Abs(v) = -v) /\ (Abs(v) = 0 <=> v = 0)
BY DEF Abs

\* The loop finds the first of the largest magnitudes.
FirstLargest(src, n, i) ==
    \A j \in 0..n - 1 : IF j < i THEN Abs(src[j]) < Abs(src[i]) ELSE Abs(src[j]) <= Abs(src[i])

\* A nonempty block has a first element of greatest magnitude,
LEMMA LargestExists ==
    ASSUME NEW src, NEW n \in Nat \ {0}, Ints(src, n)
    PROVE  \E i \in 0..n - 1 : FirstLargest(src, n, i)
<1> DEFINE S == {m \in 0..n - 1 : \E i \in 0..m : FirstLargest(src, m + 1, i)}
<1>0. \A k \in 0..n - 1 : Abs(src[k]) \in Nat
  BY AbsNat DEF Ints
<1>1. 0 \in S
  <2>1. FirstLargest(src, 1, 0)
    BY <1>0 DEF FirstLargest
  <2> QED
    BY <2>1
<1>2. ASSUME NEW m \in 0..(n - 1) - 1, m \in S PROVE m + 1 \in S
  <2>1. PICK i \in 0..m : FirstLargest(src, m + 1, i)
    BY <1>2
  <2>2. CASE Abs(src[m + 1]) > Abs(src[i])
    <3>1. ASSUME NEW j \in 0..(m + 1 + 1) - 1
          PROVE  IF j < m + 1 THEN Abs(src[j]) < Abs(src[m + 1]) ELSE Abs(src[j]) <= Abs(src[m + 1])
      <4>1. CASE j = m + 1
        BY <1>0, <4>1
      <4>2. CASE j # m + 1
        <5>1. j \in 0..(m + 1) - 1 /\ j \in 0..n - 1 /\ i \in 0..n - 1 /\ m + 1 \in 0..n - 1
          BY <4>2
        <5>2. Abs(src[j]) <= Abs(src[i]) /\ Abs(src[j]) \in Nat /\ Abs(src[i]) \in Nat /\ Abs(src[m + 1]) \in Nat
          BY <1>0, <2>1, <5>1 DEF FirstLargest
        <5> QED
          BY <2>2, <4>2, <5>1, <5>2
      <4> QED
        BY <4>1, <4>2
    <3>2. FirstLargest(src, m + 1 + 1, m + 1)
      BY <3>1 DEF FirstLargest
    <3> QED
      BY <3>2
  <2>3. CASE ~ (Abs(src[m + 1]) > Abs(src[i]))
    <3>1. ASSUME NEW j \in 0..(m + 1 + 1) - 1
          PROVE  IF j < i THEN Abs(src[j]) < Abs(src[i]) ELSE Abs(src[j]) <= Abs(src[i])
      <4>1. CASE j = m + 1
        <5>1. m + 1 \in 0..n - 1 /\ i \in 0..n - 1 /\ ~ (j < i)
          BY <4>1
        <5>2. Abs(src[i]) \in Nat /\ Abs(src[m + 1]) \in Nat
          BY <1>0, <5>1
        <5> QED
          BY <2>3, <4>1, <5>1, <5>2
      <4>2. CASE j # m + 1
        BY <2>1, <4>2 DEF FirstLargest
      <4> QED
        BY <4>1, <4>2
    <3>2. FirstLargest(src, m + 1 + 1, i)
      BY <3>1 DEF FirstLargest
    <3> QED
      BY <3>2
  <2> QED
    BY <2>2, <2>3
<1> HIDE DEF S
<1>3. 0..n - 1 \subseteq S
  BY <1>1, <1>2, Climb
<1>4. n - 1 \in S
  BY <1>3
<1>5. (n - 1) + 1 = n
  OBVIOUS
<1> QED
  BY <1>4, <1>5 DEF S

\* and the scan of quantize_q8k finds one.
LEMMA Largest ==
    ASSUME NEW src, NEW n \in Nat \ {0}, Ints(src, n)
    PROVE  /\ MaxOf(src, n) \in Int /\ \A j \in 0..n - 1 : Abs(src[j]) <= Abs(MaxOf(src, n))
           /\ \E j \in 0..n - 1 : MaxOf(src, n) = src[j]
<1> DEFINE i == CHOOSE k \in 0..n - 1 : FirstLargest(src, n, k)
<1>1. i \in 0..n - 1 /\ FirstLargest(src, n, i)
  BY LargestExists
<1>2. MaxOf(src, n) = src[i]
  BY DEF MaxOf, FirstLargest
<1> HIDE DEF i
<1>3. ASSUME NEW j \in 0..n - 1 PROVE Abs(src[j]) <= Abs(src[i])
  <2>1. Abs(src[j]) \in Nat /\ Abs(src[i]) \in Nat
    BY <1>1, AbsNat DEF Ints
  <2> QED
    BY <1>1, <2>1 DEF FirstLargest
<1> QED
  BY <1>1, <1>2, <1>3 DEF Ints

\* a / b, off by a half at most.
LEMMA NearestClose ==
    ASSUME NEW a \in Int, NEW b \in Int \ {0}
    PROVE  nearest_int(a, b) \in Int /\ 2 * Abs(a - nearest_int(a, b) * b) <= Abs(b)
<1>1. PICK A \in Nat, B \in Nat \ {0} : A = Abs(a) /\ B = Abs(b)
  BY AbsNat
<1>2. PICK q : q = (2 * A + B) \div (2 * B)
  OBVIOUS
<1>3. q \in Nat /\ (2 * B) * q <= 2 * A + B /\ 2 * A + B < (2 * B) * q + 2 * B
  BY <1>1, <1>2
<1>4. PICK z \in Nat : z = q * B
  BY <1>1, <1>3
<1>5. (2 * B) * q = 2 * z
  BY <1>1, <1>3, <1>4
<1>6. 2 * z <= 2 * A + B /\ 2 * A <= 2 * z + B
  BY <1>1, <1>3, <1>4, <1>5
<1>7. PICK r : r = nearest_int(a, b)
  OBVIOUS
<1>8. r = IF (IF b < 0 THEN -a ELSE a) < 0 THEN -q ELSE q
  BY <1>1, <1>2, <1>7 DEF nearest_int
<1>9. r \in Int
  BY <1>3, <1>8
<1>10. a - r * b = A - z \/ a - r * b = z - A
  <2>1. CASE b > 0 /\ a >= 0
    <3>1. r = q /\ B = b /\ A = a
      BY <1>1, <1>8, <2>1 DEF Abs
    <3> QED
      BY <1>1, <1>3, <1>4, <3>1
  <2>2. CASE b > 0 /\ a < 0
    <3>1. r = -q /\ B = b /\ A = -a
      BY <1>1, <1>8, <2>2 DEF Abs
    <3>2. r * b = -z
      BY <1>1, <1>3, <1>4, <3>1
    <3> QED
      BY <1>1, <1>4, <3>1, <3>2
  <2>3. CASE b < 0 /\ a <= 0
    <3>1. r = q /\ B = -b /\ A = -a
      BY <1>1, <1>8, <2>3 DEF Abs
    <3>2. r * b = -z
      BY <1>1, <1>3, <1>4, <3>1
    <3> QED
      BY <1>1, <1>4, <3>1, <3>2
  <2>4. CASE b < 0 /\ a > 0
    <3>1. r = -q /\ B = -b /\ A = a
      BY <1>1, <1>8, <2>4 DEF Abs
    <3>2. r * b = z
      BY <1>1, <1>3, <1>4, <3>1
    <3> QED
      BY <1>1, <1>4, <3>1, <3>2
  <2> QED
    BY <2>1, <2>2, <2>3, <2>4
<1>11. 2 * Abs(a - r * b) <= B
  BY <1>1, <1>4, <1>6, <1>10 DEF Abs
<1> QED
  BY <1>1, <1>7, <1>9, <1>11

\* A value that fits an i8 survives the cast.
LEMMA Wrapped8 == ASSUME NEW v \in Int PROVE Wrap8(v) \in -128..127 /\ (v \in -128..127 => Wrap8(v) = v)
BY DEF Wrap8

\* quantize_q8k: the quant of an element s below the largest one.
QuantK(v, s, max) ==
    /\ s \in Int /\ max \in Int \ {0} /\ Abs(s) <= Abs(max)
    /\ v = LET n == nearest_int(-128 * s, max) IN Wrap8(IF n > 127 THEN 127 ELSE n)

\* A quant of Q8_K is within half a step of its source, or within one where the
\* largest value takes the far end of the range and 127 is clamped.
LEMMA QuantizeK ==
    ASSUME NEW v, NEW s, NEW max, QuantK(v, s, max)
    PROVE  v \in Int /\ -128 <= v /\ v <= 127 /\ 2 * Abs(s * (-128) - v * max) <= Abs(max) * (IF v = 127 THEN 2 ELSE 1)
<1> SUFFICES ASSUME s \in Int, max \in Int \ {0}, Abs(s) <= Abs(max),
                    NEW n, n = nearest_int(-128 * s, max), v = Wrap8(IF n > 127 THEN 127 ELSE n)
             PROVE  v \in Int /\ -128 <= v /\ v <= 127 /\ 2 * Abs(s * (-128) - v * max) <= Abs(max) * (IF v = 127 THEN 2 ELSE 1)
  BY DEF QuantK
<1>1. n \in Int /\ 2 * Abs((-128 * s) - n * max) <= Abs(max)
  BY NearestClose
<1>2. PICK z \in Int, M \in Nat \ {0}, N \in Nat : z = n * max /\ M = Abs(max) /\ N = Abs(s)
  BY <1>1, AbsNat
<1>3. /\ (max = M \/ max = -M) /\ (s = N \/ s = -N) /\ N <= M
      /\ 2 * ((-128 * s) - z) <= M /\ 2 * (z - (-128 * s)) <= M
  BY <1>1, <1>2 DEF Abs
<1>4. n \in -128..128
  <2>1. (max = M => z = n * M) /\ (max = -M => z = -(n * M))
    BY <1>1, <1>2
  <2>2. PICK w \in Int : w = n * M
    BY <1>1
  <2>3. 2 * w <= 257 * M /\ -257 * M <= 2 * w
    BY <1>1, <1>2, <1>3, <2>1, <2>2
  <2>4. ~ (n >= 129)
    <3> SUFFICES ASSUME n >= 129 PROVE FALSE
      OBVIOUS
    <3>1. PICK e \in Nat : n = 129 + e
      BY <1>1
    <3>2. w = 129 * M + e * M /\ e * M \in Nat
      BY <2>2, <3>1
    <3> QED
      BY <2>3, <3>2
  <2>5. ~ (n <= -129)
    <3> SUFFICES ASSUME n <= -129 PROVE FALSE
      OBVIOUS
    <3>1. PICK e \in Nat : n = -129 - e
      BY <1>1
    <3>2. w = (-129) * M - e * M /\ e * M \in Nat
      BY <2>2, <3>1
    <3> QED
      BY <2>3, <3>2
  <2> QED
    BY <1>1, <2>4, <2>5
<1>5. CASE n <= 127
  <2>1. v = n
    BY <1>4, <1>5, Wrapped8
  <2>2. Abs(s * (-128) - v * max) = Abs((-128 * s) - n * max)
    BY <2>1
  <2>3. 2 * Abs(s * (-128) - v * max) <= M
    BY <1>1, <1>2, <2>2
  <2>4. Abs(s * (-128) - v * max) \in Nat
    BY <1>1, <2>1, AbsNat
  <2> QED
    BY <1>2, <1>4, <1>5, <2>1, <2>3, <2>4
<1>6. CASE n > 127
  <2>1. n = 128 /\ v = 127
    BY <1>4, <1>6, Wrapped8
  <2>2. z = 128 * max /\ v * max = 127 * max
    BY <1>2, <2>1
  <2>3. 2 * Abs(s * (-128) - v * max) <= M * 2
    BY <1>2, <1>3, <2>2 DEF Abs
  <2> QED
    BY <1>2, <2>1, <2>3
<1> QED
  BY <1>1, <1>5, <1>6

\* What f32_to_f16 makes of a / b: infinity only beyond the largest half, and
\* else a half that is at most half of its distance to the next one below a / b.
RoundsTo(a, b, h) ==
    \/ h = <<1, 0>> /\ \A p \in HalfSteps : 2047 * (p * b) <= a
    \/ \E p \in HalfSteps, m \in Nat :
         h = <<m * p, 1>> /\ 2 * a <= (2 * m + 1) * (p * b) /\ (p = 1 \/ m >= 1024)

LEMMA Rounded ==
    ASSUME NEW a \in Nat, NEW b \in Nat \ {0}
    PROVE  RoundsTo(a, b, RoundToHalf(a, b))
<1> DEFINE fits == {p \in HalfSteps : a < 2048 * p * b}
           step == CHOOSE q \in fits : \A r \in fits : q <= r
           quot == a \div (step * b)
           rem  == 2 * (a % (step * b))
           up   == rem > step * b \/ (rem = step * b /\ (quot < 1024 \/ quot % 2 = 1))
           mant == IF up THEN quot + 1 ELSE quot
<1>0. RoundToHalf(a, b) = IF fits = {} \/ (mant = 2048 /\ \A q \in HalfSteps : q <= step)
                          THEN <<1, 0>> ELSE <<mant * step, 1>>
  BY DEF RoundToHalf
<1>1. fits = {p \in HalfSteps : a < 2048 * p * b}
  OBVIOUS
<1>11. quot = a \div (step * b) /\ rem = 2 * (a % (step * b))
  OBVIOUS
<1>12. mant = IF rem > step * b \/ (rem = step * b /\ (quot < 1024 \/ quot % 2 = 1)) THEN quot + 1 ELSE quot
  OBVIOUS
<1> HIDE DEF fits, quot, rem, mant
<1>2. \A p \in HalfSteps : p \in Nat \ {0} /\ p * b \in Nat \ {0} /\ 2048 * p * b = 2048 * (p * b)
  BY HalfStepsAssumption
<1>3. CASE fits = {}
  <2>1. RoundToHalf(a, b) = <<1, 0>>
    BY <1>0, <1>3
  <2>2. ASSUME NEW p \in HalfSteps PROVE 2047 * (p * b) <= a
    <3>1. PICK w : w = p * b
      OBVIOUS
    <3>2. ~(a < 2048 * w) /\ w \in Nat
      BY <1>1, <1>2, <1>3, <3>1
    <3> QED
      BY <3>1, <3>2
  <2> QED
    BY <2>1, <2>2 DEF RoundsTo
<1>4. CASE fits # {}
  <2>1. PICK p : p = step
    OBVIOUS
  <2>2. p \in fits /\ \A r \in fits : p <= r
    <3>1. fits \in SUBSET Nat
      BY <1>1, <1>2
    <3>2. \E q \in fits : \A r \in fits : q <= r
      BY <1>4, <3>1, Least
    <3> QED
      BY <2>1, <3>2
  <2> HIDE DEF step
  <2>3. PICK w \in Nat \ {0} : w = p * b
    BY <1>1, <1>2, <2>2
  <2>4. p \in HalfSteps /\ p \in Nat \ {0} /\ a < 2048 * w
    BY <1>1, <1>2, <2>2, <2>3
  <2>5. PICK n, rest : n = quot /\ rest = rem /\ n = a \div w /\ rest = 2 * (a % w)
    BY <1>11, <2>1, <2>3
  <2>6. n \in Nat /\ rest \in Nat /\ rest < 2 * w /\ 2 * a = 2 * (w * n) + rest
    <3>1. a \div w \in Nat /\ a % w \in 0..w - 1
      BY <2>3
    <3>2. a = w * (a \div w) + (a % w)
      BY <2>3
    <3>3. PICK u \in Nat, z \in Nat : u = a % w /\ z = w * n
      BY <2>3, <2>5, <3>1
    <3>4. a = z + u /\ u < w
      BY <2>3, <2>5, <3>1, <3>2, <3>3
    <3>5. rest = 2 * u /\ n \in Nat
      BY <2>5, <3>1, <3>3
    <3>6. rest \in Nat /\ rest < 2 * w /\ 2 * a = 2 * z + rest
      BY ONLY <2>3, <3>3, <3>4, <3>5, a \in Nat
    <3> QED
      BY <3>3, <3>5, <3>6
  <2>7. PICK m : m = mant /\ m = IF rest > w \/ (rest = w /\ (n < 1024 \/ n % 2 = 1)) THEN n + 1 ELSE n
    BY <1>12, <2>1, <2>3, <2>5
  <2>8. PICK z \in Nat : z = w * n
    BY <2>3, <2>6
  <2>9. m \in Nat /\ n <= m /\ (m = n \/ m = n + 1)
    BY <2>6, <2>7
  <2>10. 2 * a <= (2 * m + 1) * w
    <3>1. CASE m = n
      <4>1. (2 * m + 1) * w = 2 * z + w
        BY <2>3, <2>6, <2>8, <3>1
      <4>2. rest <= w
        BY <2>3, <2>6, <2>7, <3>1
      <4> QED
        BY <2>3, <2>6, <2>8, <4>1, <4>2
    <3>2. CASE m = n + 1
      <4>1. (2 * m + 1) * w = 2 * z + 3 * w
        BY <2>3, <2>6, <2>8, <3>2
      <4> QED
        BY <2>3, <2>6, <2>8, <4>1
    <3> QED
      BY <2>9, <3>1, <3>2
  <2>11. p = 1 \/ n >= 1024
    <3> SUFFICES ASSUME p # 1, ~(n >= 1024) PROVE FALSE
      OBVIOUS
    <3>1. PICK q \in HalfSteps : p = 2 * q
      BY <2>4, HalfStepsAssumption
    <3>2. q \notin fits
      BY <1>2, <2>2, <3>1
    <3>3. PICK u \in Nat \ {0} : u = q * b
      BY <1>2
    <3>4. ~(a < 2048 * u)
      BY <1>1, <1>2, <3>2, <3>3
    <3>5. w = 2 * u
      BY <1>2, <2>3, <3>1, <3>3
    <3>6. PICK e \in Nat : n = 1023 - e
      <4>1. 1023 - n \in Nat /\ n = 1023 - (1023 - n)
        BY <2>6
      <4> QED
        BY <4>1
    <3>7. z = 1023 * w - e * w /\ e * w \in Nat
      BY <2>3, <2>8, <3>6
    <3> QED
      BY <2>6, <2>8, <3>3, <3>4, <3>5, <3>7
  <2>12. RoundToHalf(a, b) = IF m = 2048 /\ \A q \in HalfSteps : q <= p THEN <<1, 0>> ELSE <<m * p, 1>>
    BY <1>0, <1>4, <2>1, <2>7
  <2>13. CASE m = 2048 /\ \A q \in HalfSteps : q <= p
    <3>1. ASSUME NEW q \in HalfSteps PROVE 2047 * (q * b) <= a
      <4>1. n >= 2047
        BY <2>6, <2>9, <2>13
      <4>2. PICK e \in Nat, g \in Nat : n = 2047 + e /\ p = q + g
        <5>1. n - 2047 \in Nat /\ n = 2047 + (n - 2047) /\ p - q \in Nat /\ p = q + (p - q)
          BY <1>2, <2>4, <2>6, <2>13, <4>1
        <5> QED
          BY <5>1
      <4>3. z = 2047 * w + e * w /\ e * w \in Nat
        BY <2>3, <2>8, <4>2
      <4>4. PICK u \in Nat : u = q * b
        BY <1>2
      <4>5. w = u + g * b /\ g * b \in Nat
        BY <1>2, <2>3, <4>2, <4>4
      <4> QED
        BY <2>3, <2>6, <2>8, <4>3, <4>4, <4>5
    <3> QED
      BY <2>12, <2>13, <3>1 DEF RoundsTo
  <2>14. CASE ~(m = 2048 /\ \A q \in HalfSteps : q <= p)
    <3>1. RoundToHalf(a, b) = <<m * p, 1>> /\ 2 * a <= (2 * m + 1) * (p * b)
      BY <2>3, <2>10, <2>12, <2>14
    <3>2. p = 1 \/ m >= 1024
      BY <2>6, <2>9, <2>11
    <3> QED
      BY <2>4, <2>9, <3>1, <3>2 DEF RoundsTo
  <2> QED
    BY <2>13, <2>14
<1> QED
  BY <1>3, <1>4

\* t / dn is rounded and clamped; that costs half a step, or what t is over 127
\* steps.
Clamps(v, t, dn, e) ==
    /\ t \in Int /\ dn \in Nat \ {0} /\ e \in Nat
    /\ 2 * t <= 254 * dn + e /\ -2 * t <= 254 * dn + e
    /\ v = Clamp(nearest_int(t, dn), -127, 127)

LEMMA ClampClose ==
    ASSUME NEW v, NEW t, NEW dn, NEW e, Clamps(v, t, dn, e)
    PROVE  /\ v \in Int /\ -127 <= v /\ v <= 127
           /\ 2 * Abs(t - v * dn) <= dn \/ 2 * Abs(t - v * dn) <= e
<1> SUFFICES ASSUME t \in Int, dn \in Nat \ {0}, e \in Nat,
                    2 * t <= 254 * dn + e, -2 * t <= 254 * dn + e,
                    v = Clamp(nearest_int(t, dn), -127, 127)
             PROVE  /\ v \in Int /\ -127 <= v /\ v <= 127
                    /\ 2 * Abs(t - v * dn) <= dn \/ 2 * Abs(t - v * dn) <= e
  BY DEF Clamps
<1>1. PICK n : n = nearest_int(t, dn)
  OBVIOUS
<1>2. n \in Int /\ 2 * Abs(t - n * dn) <= dn
  <2>1. Abs(dn) = dn /\ dn \in Int \ {0}
    BY DEF Abs
  <2> QED
    BY <1>1, <2>1, NearestClose
<1>3. PICK z \in Int : z = n * dn
  BY <1>2
<1>4. 2 * (t - z) <= dn /\ 2 * (z - t) <= dn
  BY <1>2, <1>3 DEF Abs
<1>5. CASE n \in -127..127
  <2>1. v = n
    BY <1>1, <1>2, <1>5 DEF Clamp
  <2> QED
    BY <1>2, <1>5, <2>1
<1>6. CASE n >= 128
  <2>1. v = 127
    BY <1>1, <1>2, <1>6 DEF Clamp
  <2>2. PICK c \in Nat : n = 128 + c
    BY <1>2, <1>6
  <2>3. z = 128 * dn + c * dn /\ c * dn \in Nat
    BY <1>3, <2>2
  <2>4. t - 127 * dn >= 0
    BY <1>4, <2>3
  <2>5. 2 * Abs(t - 127 * dn) <= e
    BY <2>4 DEF Abs
  <2> QED
    BY <2>1, <2>5
<1>7. CASE n <= -128
  <2>1. v = -127
    BY <1>1, <1>2, <1>7 DEF Clamp
  <2>2. PICK c \in Nat : n = -128 - c
    BY <1>2, <1>7
  <2>3. z = (-128) * dn - c * dn /\ c * dn \in Nat
    BY <1>3, <2>2
  <2>4. t + 127 * dn <= 0
    BY <1>4, <2>3
  <2>5. 2 * Abs(t - (-127) * dn) <= e
    BY <2>4 DEF Abs
  <2> QED
    BY <2>1, <2>5
<1> QED
  BY <1>2, <1>5, <1>6, <1>7

\* quantize of an element s of a block whose scale is the half m * p.
Quant8(v, s, amax, num, den, m, p) ==
    /\ s \in Int /\ amax \in Nat /\ Abs(s) <= amax /\ num \in Nat \ {0} /\ den \in Nat \ {0}
    /\ m \in Nat /\ p \in Nat \ {0} /\ (p = 1 \/ m >= 1024)
    /\ 2 * (amax * num) <= (2 * m + 1) * (p * (127 * den))
    /\ v = IF (m * p) * den = 0 THEN 0 ELSE Clamp(nearest_int(s * num, (m * p) * den), -127, 127)

\* A quant of Q8_0 is within half a step of its source, or within 127 halves of
\* the smallest half.
LEMMA Quantize8 ==
    ASSUME NEW v, NEW s, NEW amax, NEW num, NEW den, NEW m, NEW p, Quant8(v, s, amax, num, den, m, p)
    PROVE  /\ v \in Int /\ -127 <= v /\ v <= 127
           /\ \/ 2 * Abs(s * num - v * ((m * p) * den)) <= (m * p) * den
              \/ 2 * Abs(s * num - v * ((m * p) * den)) <= 127 * den
<1>1. /\ s \in Int /\ amax \in Nat /\ Abs(s) <= amax /\ num \in Nat \ {0} /\ den \in Nat \ {0}
      /\ m \in Nat /\ p \in Nat \ {0} /\ (p = 1 \/ m >= 1024)
      /\ 2 * (amax * num) <= (2 * m + 1) * (p * (127 * den))
  BY DEF Quant8
<1>2. PICK K \in Nat \ {0}, dn \in Nat : K = p * den /\ dn = m * K
  BY <1>1
<1>3. dn = (m * p) * den
  BY <1>1, <1>2
<1>4. PICK t \in Int, T \in Nat : t = s * num /\ T = amax * num
  BY <1>1
<1>5. t <= T /\ -t <= T
  <2>1. PICK g \in Nat, N \in Nat : N = Abs(s) /\ amax = N + g
    <3>1. Abs(s) \in Nat
      BY <1>1, AbsNat
    <3>2. amax - Abs(s) \in Nat /\ amax = Abs(s) + (amax - Abs(s))
      BY <1>1, <3>1
    <3> QED
      BY <3>1, <3>2
  <2>2. PICK yy \in Nat : yy = N * num
    BY <1>1, <2>1
  <2>3. T = yy + g * num /\ g * num \in Nat
    BY <1>1, <1>4, <2>1, <2>2
  <2>4. t = yy \/ t = -yy
    <3>1. s = N \/ s = -N
      BY <1>1, <2>1 DEF Abs
    <3>2. CASE s = N
      BY <1>4, <2>2, <3>2
    <3>3. CASE s = -N
      <4>1. (-N) * num = -(N * num)
        BY <1>1, <2>1
      <4> QED
        BY <1>4, <2>2, <3>3, <4>1
    <3> QED
      BY <3>1, <3>2, <3>3
  <2> QED
    BY <2>2, <2>3, <2>4
<1>6. 2 * T <= 254 * dn + 127 * K
  <2>1. (2 * m + 1) * (p * (127 * den)) = 254 * (m * K) + 127 * K
    <3>1. p * (127 * den) = 127 * K
      BY <1>1, <1>2
    <3>2. (2 * m + 1) * (127 * K) = 254 * (m * K) + 127 * K
      BY <1>1, <1>2
    <3> QED
      BY <3>1, <3>2
  <2> QED
    BY <1>1, <1>2, <1>4, <2>1
<1>7. (p = 1 /\ K = den) \/ 127 * K <= dn
  <2>1. CASE p = 1
    BY <1>1, <1>2, <2>1
  <2>2. CASE m >= 1024
    <3>1. PICK g \in Nat : m = 1024 + g
      BY <1>1, <2>2
    <3>2. dn = 1024 * K + g * K /\ g * K \in Nat
      BY <1>2, <3>1
    <3> QED
      BY <1>2, <3>2
  <2> QED
    BY <1>1, <2>1, <2>2
<1>8. CASE dn = 0
  <2>1. v = 0
    BY <1>3, <1>8 DEF Quant8
  <2>2. K = den
    BY <1>2, <1>7, <1>8
  <2>3. 2 * Abs(t) <= 127 * den
    BY <1>4, <1>5, <1>6, <1>8, <2>2 DEF Abs
  <2>4. t - v * dn = t
    BY <1>4, <1>8, <2>1
  <2> QED
    BY <1>3, <1>4, <2>1, <2>3, <2>4
<1>9. CASE dn # 0
  <2>1. v = Clamp(nearest_int(t, dn), -127, 127)
    BY <1>3, <1>4, <1>9 DEF Quant8
  <2>2. PICK e \in Nat : e = 127 * K
    BY <1>2
  <2>3. 2 * t <= 254 * dn + e /\ -2 * t <= 254 * dn + e
    BY <1>2, <1>4, <1>5, <1>6, <2>2
  <2>4. /\ v \in Int /\ -127 <= v /\ v <= 127
        /\ 2 * Abs(t - v * dn) <= dn \/ 2 * Abs(t - v * dn) <= e
    <3>1. Clamps(v, t, dn, e)
      BY <1>2, <1>4, <1>9, <2>1, <2>2, <2>3 DEF Clamps
    <3> QED
      BY ONLY <3>1, ClampClose
  <2>5. Abs(t - v * dn) \in Nat
    BY <1>2, <1>4, <2>4, AbsNat
  <2>6. 2 * Abs(t - v * dn) <= dn \/ 2 * Abs(t - v * dn) <= 127 * den
    BY <1>1, <1>2, <1>7, <2>2, <2>4, <2>5
  <2> QED
    BY <1>3, <1>4, <2>4, <2>6
<1> QED
  BY <1>8, <1>9

\* A quantized block: its quants are bytes, close to the numbers they stand for,
\* and the sums kept with them are theirs.
Quants(x, n, lo) == DOMAIN x.qs = 0..n - 1 /\ \A k \in 0..n - 1 : x.qs[k] \in Int /\ lo <= x.qs[k] /\ x.qs[k] <= 127

\* The quants of block x are close to the source s, as the format promises.
Close(x, s, fmt, unit) ==
    \A k \in DOMAIN x.qs :
        LET error2 == 2 * Abs(s[k] * x.d[2] - x.qs[k] * x.d[1]) IN
        IF fmt # "Q8"
        THEN error2 <= Abs(x.d[1]) * (IF x.qs[k] = 127 THEN 2 ELSE 1)
        ELSE IF x.d[2] # 0
             THEN error2 <= x.d[1] \/ error2 <= 127 * unit[2]
             ELSE x.qs[k] = 0 /\ Overflows(s, unit)

\* The sums a Q8_K block carries are those of its runs of 16 quants.
Sums(x) == \A j \in 0..15 : x.bsums[j] = SumTo(Load(x.qs, 16 * j, 16), 16)

\* Sixteen quants.
SmallInts(f) == \A k \in 0..15 : f[k] \in Int /\ -128 <= f[k] /\ f[k] <= 127

\* Their sum fits an i16,
LEMMA SmallSum ==
    ASSUME NEW f, SmallInts(f)
    PROVE  SumTo(f, 16) \in Int /\ -2048 <= SumTo(f, 16) /\ SumTo(f, 16) <= 2032
<1> DEFINE S == {k \in 0..16 : SumTo(f, k) \in Int /\ -128 * k <= SumTo(f, k) /\ SumTo(f, k) <= 127 * k}
<1>1. 0 \in S
  BY SumZero
<1>2. ASSUME NEW k \in 0..16 - 1, k \in S PROVE k + 1 \in S
  <2>1. SumTo(f, k + 1) = SumTo(f, k) + f[k]
    BY SumNext
  <2>2. f[k] \in Int /\ -128 <= f[k] /\ f[k] <= 127
    BY DEF SmallInts
  <2> QED
    BY <1>2, <2>1, <2>2
<1> HIDE DEF S
<1>3. 0..16 \subseteq S
  BY <1>1, <1>2, Climb
<1>4. 16 \in S
  BY <1>3
<1> QED
  BY <1>4 DEF S

\* and what fits an i16 survives the cast.
LEMMA Wrapped16 == ASSUME NEW v \in Int, -32768 <= v, v <= 32767 PROVE Wrap16(v) = v
BY DEF Wrap16

\* quantize_q8k makes a close block, with its sums.
LEMMA BlockK ==
    ASSUME NEW s \in [0..QK_K - 1 -> Int], NEW x, x = quantize_q8k(s), NEW fmt, fmt # "Q8", NEW unit
    PROVE  Quants(x, QK_K, -128) /\ Close(x, s, fmt, unit) /\ Sums(x)
<1>0. QK_K = 256 /\ QK_K \in Nat \ {0} /\ Ints(s, QK_K)
  BY Sizes DEF Ints
<1>1. PICK max : max = MaxOf(s, QK_K)
  OBVIOUS
<1>2. max \in Int /\ \A k \in 0..QK_K - 1 : Abs(s[k]) <= Abs(max)
  BY <1>0, <1>1, Largest
<1> DEFINE N(k) == nearest_int(-128 * s[k], max)
           V(k) == IF max = 0 THEN 0 ELSE Wrap8(IF N(k) > 127 THEN 127 ELSE N(k))
           Q == [k \in 0..QK_K - 1 |-> V(k)]
<1>3. /\ x.d = <<max, -128>> /\ x.qs = Q
      /\ x.bsums = [j \in 0..15 |-> Wrap16(SumTo(Load(Q, 16 * j, 16), 16))]
  BY <1>1 DEF quantize_q8k
<1>4. ASSUME NEW k \in 0..QK_K - 1
      PROVE  /\ V(k) \in Int /\ -128 <= V(k) /\ V(k) <= 127
             /\ 2 * Abs(s[k] * (-128) - V(k) * max) <= Abs(max) * (IF V(k) = 127 THEN 2 ELSE 1)
  <2>1. CASE max = 0
    <3>1. V(k) = 0 /\ Abs(max) = 0 /\ s[k] = 0
      BY <1>2, <2>1 DEF Abs
    <3> QED
      BY <2>1, <3>1 DEF Abs
  <2>2. CASE max # 0
    <3>1. PICK e, v : e = s[k] /\ v = Wrap8(IF N(k) > 127 THEN 127 ELSE N(k))
      OBVIOUS
    <3>2. QuantK(v, e, max)
      BY <1>2, <2>2, <3>1 DEF QuantK
    <3>3. V(k) = v
      BY <2>2, <3>1
    <3>5. v \in Int /\ -128 <= v /\ v <= 127 /\ 2 * Abs(e * (-128) - v * max) <= Abs(max) * (IF v = 127 THEN 2 ELSE 1)
      BY <3>2, QuantizeK
    <3> HIDE DEF V, N
    <3> QED
      BY <3>1, <3>3, <3>5
  <2> QED
    BY <2>1, <2>2
<1> HIDE DEF V, N
<1>5. Quants(x, QK_K, -128)
  BY <1>3, <1>4 DEF Quants
<1>6. Close(x, s, fmt, unit)
  <2> SUFFICES ASSUME NEW k \in 0..QK_K - 1
               PROVE  2 * Abs(s[k] * x.d[2] - x.qs[k] * x.d[1])
                        <= Abs(x.d[1]) * (IF x.qs[k] = 127 THEN 2 ELSE 1)
    BY <1>5 DEF Close, Quants
  <2>1. x.d[2] = -128 /\ x.d[1] = max /\ x.qs[k] = V(k)
    BY <1>3
  <2> QED
    BY <1>4, <2>1
<1>7. ASSUME NEW j \in 0..15 PROVE x.bsums[j] = SumTo(Load(x.qs, 16 * j, 16), 16)
  <2>1. PICK f : f = Load(x.qs, 16 * j, 16)
    OBVIOUS
  <2>2. ASSUME NEW k \in 0..15 PROVE f[k] \in Int /\ -128 <= f[k] /\ f[k] <= 127
    <3>1. 16 * j + k \in 0..QK_K - 1 /\ f[k] = x.qs[16 * j + k]
      BY <1>0, <2>1 DEF Load
    <3> QED
      BY <1>5, <3>1 DEF Quants
  <2>3. SumTo(f, 16) \in Int /\ -2048 <= SumTo(f, 16) /\ SumTo(f, 16) <= 2032
    <3>1. SmallInts(f)
      BY <2>2 DEF SmallInts
    <3> QED
      BY <3>1, SmallSum
  <2>4. Wrap16(SumTo(f, 16)) = SumTo(f, 16)
    BY <2>3, Wrapped16
  <2>5. x.bsums[j] = Wrap16(SumTo(f, 16))
    BY <1>3, <2>1
  <2> QED
    BY <2>1, <2>4, <2>5
<1> QED
  BY <1>5, <1>6, <1>7 DEF Sums

\* Q8_0's quantize makes a close block, whatever its scale rounds to.
LEMMA Block8 ==
    ASSUME NEW s, Ints(s, QK8_0), NEW unit \in (Nat \ {0}) \X (Nat \ {0}), NEW x, x = quantize(s, unit)
    PROVE  Quants(x, QK8_0, -127) /\ Close(x, s, "Q8", unit)
<1>0. QK8_0 \in Nat \ {0}
  BY Sizes
<1>1. PICK amax : amax = Abs(MaxOf(s, QK8_0))
  OBVIOUS
<1>2. /\ amax \in Nat /\ \A k \in 0..QK8_0 - 1 : s[k] \in Int /\ Abs(s[k]) <= amax
      /\ \E k \in 0..QK8_0 - 1 : amax = Abs(s[k])
  BY <1>0, <1>1, Largest, AbsNat DEF Ints
<1>3. PICK num \in Nat \ {0}, den \in Nat \ {0} : unit[1] = num /\ unit[2] = den
  OBVIOUS
<1>4. PICK h : h = RoundToHalf(amax * num, 127 * den)
  OBVIOUS
<1>5. RoundsTo(amax * num, 127 * den, h)
  <2>1. amax * num \in Nat /\ 127 * den \in Nat \ {0}
    BY <1>2
  <2> QED
    BY <1>4, <2>1, Rounded
<1>6. PICK dn, dd : dn = h[1] * den /\ dd = h[2] * num
  OBVIOUS
<1> DEFINE V(k) == IF dn = 0 THEN 0 ELSE Clamp(nearest_int(s[k] * dd, dn), -127, 127)
<1>7. x.d = <<dn, dd>> /\ x.qs = [k \in 0..QK8_0 - 1 |-> V(k)]
  BY <1>1, <1>3, <1>4, <1>6 DEF quantize
<1>8. CASE h = <<1, 0>> /\ \A p \in HalfSteps : 2047 * (p * (127 * den)) <= amax * num
  <2>1. dd = 0 /\ dn = den
    BY <1>6, <1>8
  <2>2. ASSUME NEW k \in 0..QK8_0 - 1 PROVE V(k) = 0
    <3>1. PICK e \in Int : e = s[k]
      BY <1>2
    <3>2. nearest_int(0, den) = 0
      <4>1. (2 * 0 + den) \div (2 * den) = 0
        OBVIOUS
      <4>2. Abs(0) = 0 /\ Abs(den) = den
        BY DEF Abs
      <4> QED
        BY <4>1, <4>2 DEF nearest_int
    <3>3. V(k) = Clamp(nearest_int(e * 0, den), -127, 127)
      BY <2>1, <3>1
    <3>4. e * 0 = 0 /\ Clamp(0, -127, 127) = 0
      BY DEF Clamp
    <3> HIDE DEF V
    <3> QED
      BY <3>2, <3>3, <3>4
  <2>3. Overflows(s, unit)
    <3>1. PICK k \in 0..QK8_0 - 1 : amax = Abs(s[k])
      BY <1>2
    <3>2. ASSUME NEW p \in HalfSteps PROVE amax * num >= 127 * den * 2047 * p
      <4>1. p \in Nat
        BY HalfStepsAssumption
      <4>2. 127 * den * 2047 * p = 2047 * (p * (127 * den))
        BY <4>1
      <4>3. amax * num \in Int /\ 2047 * (p * (127 * den)) \in Int
        BY <1>2, <4>1
      <4> QED
        BY <1>8, <4>2, <4>3
    <3> QED
      BY <1>3, <3>1, <3>2 DEF Overflows
  <2> HIDE DEF V
  <2>4. \A k \in 0..QK8_0 - 1 : x.qs[k] = 0
    BY <1>7, <2>2
  <2>5. DOMAIN x.qs = 0..QK8_0 - 1 /\ x.d[2] = 0
    BY <1>7, <2>1
  <2>6. Quants(x, QK8_0, -127)
    BY <2>4, <2>5 DEF Quants
  <2> QED
    BY <2>3, <2>4, <2>5, <2>6 DEF Close
<1>9. CASE \E p \in HalfSteps, m \in Nat :
             /\ h = <<m * p, 1>> /\ 2 * (amax * num) <= (2 * m + 1) * (p * (127 * den))
             /\ (p = 1 \/ m >= 1024)
  <2>1. PICK p \in HalfSteps, m \in Nat :
             /\ h = <<m * p, 1>> /\ 2 * (amax * num) <= (2 * m + 1) * (p * (127 * den))
             /\ (p = 1 \/ m >= 1024)
    BY <1>9
  <2>2. p \in Nat \ {0}
    BY HalfStepsAssumption
  <2>3. dn = (m * p) * den /\ dd = num
    BY <1>6, <2>1
  <2>4. ASSUME NEW k \in 0..QK8_0 - 1
        PROVE  /\ V(k) \in Int /\ -127 <= V(k) /\ V(k) <= 127
               /\ 2 * Abs(s[k] * dd - V(k) * dn) <= dn \/ 2 * Abs(s[k] * dd - V(k) * dn) <= 127 * den
    <3>1. PICK e, v : e = s[k] /\ v = V(k)
      OBVIOUS
    <3>2. e \in Int /\ Abs(e) <= amax
      BY <1>2, <3>1
    <3>3. v = IF (m * p) * den = 0 THEN 0 ELSE Clamp(nearest_int(e * num, (m * p) * den), -127, 127)
      BY <2>3, <3>1
    <3>4. Quant8(v, e, amax, num, den, m, p)
      BY <1>2, <2>1, <2>2, <3>2, <3>3 DEF Quant8
    <3>5. /\ v \in Int /\ -127 <= v /\ v <= 127
          /\ \/ 2 * Abs(e * num - v * ((m * p) * den)) <= (m * p) * den
             \/ 2 * Abs(e * num - v * ((m * p) * den)) <= 127 * den
      BY <3>4, Quantize8
    <3> HIDE DEF V
    <3> QED
      BY <2>3, <3>1, <3>5
  <2> HIDE DEF V
  <2>5. Quants(x, QK8_0, -127)
    BY <1>7, <2>4 DEF Quants
  <2>6. x.d[1] = dn /\ x.d[2] = num /\ num # 0 /\ DOMAIN x.qs = 0..QK8_0 - 1
    BY <1>7, <2>3
  <2>7. Close(x, s, "Q8", unit)
    BY <1>3, <1>7, <2>3, <2>4, <2>6 DEF Close
  <2> QED
    BY <2>5, <2>7
<1> QED
  BY <1>5, <1>8, <1>9 DEF RoundsTo

\* Every block of activations of a job.
LEMMA JobParts ==
    ASSUME NEW j \in Jobs
    PROVE  /\ j.fmt \in {"Q4K", "Q6K", "Q8"} /\ j.backend \in {"scalar", "avx2", "neon", "dotprod"}
           /\ j.unit \in (Nat \ {0}) \X (Nat \ {0})
           /\ Len(j.rows) \in Nat /\ DOMAIN j.rows = 1..Len(j.rows)
           /\ Len(j.xs) \in Nat /\ DOMAIN j.xs = 1..Len(j.xs)
           /\ \A r \in 1..Len(j.rows) : WeightRow(j.rows[r]) \in Seq(BlocksOf(j.fmt))
           /\ \A b \in 1..Len(j.xs) : Source(j.xs[b]) \in Seq([0..QK_K - 1 -> Int])
           /\ \A r \in 1..Len(j.rows), b \in 1..Len(j.xs) : Len(WeightRow(j.rows[r])) <= Len(Source(j.xs[b]))
BY MatmulAssumption

\* Everything the kernels need of the activation x made of source s.
ActOf(x, s, fmt, unit) ==
    /\ Close(x, s, fmt, unit)
    /\ IF fmt = "Q8" THEN Quants(x, QK8_0, -127) ELSE Quants(x, QK_K, -128) /\ Sums(x)

\* The activations of a job have it, block by block.
LEMMA JobActs ==
    ASSUME NEW j \in Jobs, NEW b \in 1..Len(j.xs),
           NEW src, src = Source(j.xs[b]), NEW xs, xs = Quantized(j.fmt, j.xs[b], j.unit)
    PROVE  /\ DOMAIN xs = 1..Len(src) /\ Len(src) \in Nat
           /\ \A i \in 1..Len(src) : ActOf(xs[i], src[i], j.fmt, j.unit)
<1>1. src \in Seq([0..QK_K - 1 -> Int]) /\ j.fmt \in {"Q4K", "Q6K", "Q8"} /\ j.unit \in (Nat \ {0}) \X (Nat \ {0})
  BY JobParts
<1>2. DOMAIN src = 1..Len(src) /\ Len(src) \in Nat /\ \A i \in 1..Len(src) : src[i] \in [0..QK_K - 1 -> Int]
  BY <1>1
<1>3. xs = IF j.fmt = "Q8" THEN [i \in DOMAIN src |-> quantize(src[i], j.unit)]
           ELSE [i \in DOMAIN src |-> quantize_q8k(src[i])]
  BY DEF Quantized
<1>4. ASSUME NEW i \in 1..Len(src) PROVE ActOf(xs[i], src[i], j.fmt, j.unit)
  <2>1. PICK s \in [0..QK_K - 1 -> Int] : s = src[i]
    BY <1>2
  <2>2. PICK x : x = xs[i]
    OBVIOUS
  <2>3. CASE j.fmt = "Q8"
    <3>1. x = quantize(s, j.unit)
      BY <1>2, <1>3, <2>1, <2>2, <2>3
    <3>2. Ints(s, QK8_0)
      <4>1. QK8_0 = 32 /\ QK_K = 256
        BY Sizes
      <4>2. \A k \in 0..QK8_0 - 1 : k \in 0..QK_K - 1
        BY <4>1
      <4> QED
        BY <4>2 DEF Ints
    <3>3. Quants(x, QK8_0, -127) /\ Close(x, s, "Q8", j.unit)
      BY <1>1, <3>1, <3>2, Block8
    <3> QED
      BY <2>1, <2>2, <2>3, <3>3 DEF ActOf
  <2>4. CASE j.fmt # "Q8"
    <3>1. x = quantize_q8k(s)
      BY <1>2, <1>3, <2>1, <2>2, <2>4
    <3>2. PICK fmt : fmt = j.fmt
      OBVIOUS
    <3>3. Quants(x, QK_K, -128) /\ Close(x, s, fmt, j.unit) /\ Sums(x)
      BY <2>4, <3>1, <3>2, BlockK
    <3> QED
      BY <2>1, <2>2, <2>4, <3>2, <3>3 DEF ActOf
  <2> QED
    BY <2>3, <2>4
<1> QED
  BY <1>2, <1>3, <1>4

\* The quantized activations of a product are within the format's error of the
\* values they stand for (QuantizeClose): quantize_q8k and quantize lose at most
\* the rounding, with no wrapped quant and no wrapped block sum, for every
\* activation, also where the scale of a Q8_0 block is subnormal or rounds to
\* zero; where it is infinite, the quants are 0.
THEOREM ActivationsClose == MulSpec => []QuantizeClose
<1> DEFINE Inv == job \in Jobs
<1>1. MulInit => Inv
  BY DEF MulInit
<1>2. Inv /\ [MulNext]_mulvars => Inv'
  BY DEF MulNext, Tile, One, Write, mulvars
<1>3. Inv => QuantizeClose
  <2> SUFFICES ASSUME job \in Jobs, NEW b \in 0..batch - 1, NEW i \in DOMAIN X(b), NEW k \in DOMAIN X(b)[i].qs
               PROVE  LET x == X(b)[i]
                          s == Source(job.xs[b + 1])[i]
                          error2 == 2 * Abs(s[k] * x.d[2] - x.qs[k] * x.d[1])
                      IN  IF job.fmt # "Q8"
                          THEN error2 <= Abs(x.d[1]) * (IF x.qs[k] = 127 THEN 2 ELSE 1)
                          ELSE IF x.d[2] # 0
                               THEN error2 <= x.d[1] \/ error2 <= 127 * job.unit[2]
                               ELSE x.qs[k] = 0 /\ Overflows(s, job.unit)
    BY DEF QuantizeClose
  <2>1. PICK j \in Jobs : j = job
    OBVIOUS
  <2>2. PICK c \in 1..Len(j.xs) : c = b + 1
    BY <2>1, JobParts DEF batch
  <2>3. PICK src, xs : src = Source(j.xs[c]) /\ xs = Quantized(j.fmt, j.xs[c], j.unit)
    OBVIOUS
  <2>4. DOMAIN xs = 1..Len(src) /\ \A n \in 1..Len(src) : ActOf(xs[n], src[n], j.fmt, j.unit)
    BY <2>3, JobActs
  <2>5. X(b) = xs /\ Source(job.xs[b + 1]) = src
    BY <2>1, <2>2, <2>3 DEF X
  <2>6. PICK x, s : x = xs[i] /\ s = src[i] /\ Close(x, s, j.fmt, j.unit) /\ k \in DOMAIN x.qs
    BY <2>4, <2>5 DEF ActOf
  <2> QED
    BY <2>1, <2>5, <2>6 DEF Close
<1> HIDE DEF Inv
<1> QED
  BY <1>1, <1>2, <1>3, PTL DEF MulSpec

-----------------------------------------------------------------------------
(* NEON *)

\* Four terms.
LEMMA Sum4 == ASSUME NEW f, Ints(f, 4) PROVE SumTo(f, 4) = f[0] + f[1] + f[2] + f[3]
<1>1. f[0] \in Int /\ f[1] \in Int /\ f[2] \in Int /\ f[3] \in Int
  BY DEF Ints
<1>2. /\ SumTo(f, 0 + 1) = SumTo(f, 0) + f[0] /\ SumTo(f, 1 + 1) = SumTo(f, 1) + f[1]
      /\ SumTo(f, 2 + 1) = SumTo(f, 2) + f[2] /\ SumTo(f, 3 + 1) = SumTo(f, 3) + f[3]
  BY SumNext
<1> QED
  BY <1>1, <1>2, SumZero

\* An element of a vector load.
LEMMA Loaded == ASSUME NEW f, NEW off, NEW n, NEW k \in 0..n - 1 PROVE Load(f, off, n)[k] = f[off + k]
BY DEF Load

\* Eight terms.
LEMMA Sum8 ==
    ASSUME NEW f, Ints(f, 8)
    PROVE  SumTo(f, 8) = f[0] + f[1] + f[2] + f[3] + f[4] + f[5] + f[6] + f[7]
<1>1. /\ f[0] \in Int /\ f[1] \in Int /\ f[2] \in Int /\ f[3] \in Int
      /\ f[4] \in Int /\ f[5] \in Int /\ f[6] \in Int /\ f[7] \in Int
  BY DEF Ints
<1>2. SumTo(f, 4) = f[0] + f[1] + f[2] + f[3]
  BY Sum4 DEF Ints
<1>3. /\ SumTo(f, 4 + 1) = SumTo(f, 4) + f[4] /\ SumTo(f, 5 + 1) = SumTo(f, 5) + f[5]
      /\ SumTo(f, 6 + 1) = SumTo(f, 6) + f[6] /\ SumTo(f, 7 + 1) = SumTo(f, 7) + f[7]
  BY SumNext
<1> QED
  BY <1>1, <1>2, <1>3

\* Sixteen terms.
LEMMA Sum16 ==
    ASSUME NEW f, Ints(f, 16)
    PROVE  SumTo(f, 16) = f[0] + f[1] + f[2] + f[3] + f[4] + f[5] + f[6] + f[7]
                          + f[8] + f[9] + f[10] + f[11] + f[12] + f[13] + f[14] + f[15]
<1>1. PICK h : h = Load(f, 8, 8)
  OBVIOUS
<1>2. Ints(f, 8) /\ Ints(f, 8 + 8) /\ Ints(h, 8)
  BY <1>1, Loaded DEF Ints
<1>3. SumTo(f, 8 + 8) = SumTo(f, 8) + SumTo(h, 8)
  BY <1>1, <1>2, SumSplits
<1>4. h[0] = f[8] /\ h[1] = f[9] /\ h[2] = f[10] /\ h[3] = f[11] /\ h[4] = f[12] /\ h[5] = f[13] /\ h[6] = f[14] /\ h[7] = f[15]
  BY <1>1, Loaded
<1>5. /\ SumTo(f, 8) = f[0] + f[1] + f[2] + f[3] + f[4] + f[5] + f[6] + f[7]
      /\ SumTo(h, 8) = h[0] + h[1] + h[2] + h[3] + h[4] + h[5] + h[6] + h[7]
  BY <1>2, Sum8
<1>6. /\ f[0] \in Int /\ f[1] \in Int /\ f[2] \in Int /\ f[3] \in Int
      /\ f[4] \in Int /\ f[5] \in Int /\ f[6] \in Int /\ f[7] \in Int
      /\ f[8] \in Int /\ f[9] \in Int /\ f[10] \in Int /\ f[11] \in Int
      /\ f[12] \in Int /\ f[13] \in Int /\ f[14] \in Int /\ f[15] \in Int
  BY DEF Ints
<1> QED
  BY <1>3, <1>4, <1>5, <1>6

\* p are the products of w and x.
Products(p, w, x, n) == Ints(p, n) /\ \A k \in 0..n - 1 : p[k] = w[k] * x[k]

\* One NEON dot step adds sixteen products to the lanes, with the sdot
\* instruction and with the widening multiplies.
LEMMA Accumulates ==
    ASSUME NEW sdot, NEW acc, NEW w, NEW x, NEW p, Ints(acc, 4), Products(p, w, x, 16),
           NEW a, a = Acc16(sdot, acc, w, x)
    PROVE  Ints(a, 4) /\ vaddv(a) = vaddv(acc) + SumTo(p, 16)
<1>1. acc[0] \in Int /\ acc[1] \in Int /\ acc[2] \in Int /\ acc[3] \in Int
  BY DEF Ints
<1>2. /\ p[0] \in Int /\ p[1] \in Int /\ p[2] \in Int /\ p[3] \in Int
      /\ p[4] \in Int /\ p[5] \in Int /\ p[6] \in Int /\ p[7] \in Int
      /\ p[8] \in Int /\ p[9] \in Int /\ p[10] \in Int /\ p[11] \in Int
      /\ p[12] \in Int /\ p[13] \in Int /\ p[14] \in Int /\ p[15] \in Int
  BY DEF Products, Ints
<1>3. /\ p[0] = w[0] * x[0] /\ p[1] = w[1] * x[1] /\ p[2] = w[2] * x[2] /\ p[3] = w[3] * x[3]
      /\ p[4] = w[4] * x[4] /\ p[5] = w[5] * x[5] /\ p[6] = w[6] * x[6] /\ p[7] = w[7] * x[7]
      /\ p[8] = w[8] * x[8] /\ p[9] = w[9] * x[9] /\ p[10] = w[10] * x[10] /\ p[11] = w[11] * x[11]
      /\ p[12] = w[12] * x[12] /\ p[13] = w[13] * x[13] /\ p[14] = w[14] * x[14] /\ p[15] = w[15] * x[15]
  BY DEF Products
<1>4. SumTo(p, 16) = p[0] + p[1] + p[2] + p[3] + p[4] + p[5] + p[6] + p[7]
                     + p[8] + p[9] + p[10] + p[11] + p[12] + p[13] + p[14] + p[15]
  BY Sum16 DEF Products
<1>5. CASE sdot
  <2>1. /\ a[0] = acc[0] + w[0] * x[0] + w[1] * x[1] + w[2] * x[2] + w[3] * x[3]
        /\ a[1] = acc[1] + w[4] * x[4] + w[5] * x[5] + w[6] * x[6] + w[7] * x[7]
        /\ a[2] = acc[2] + w[8] * x[8] + w[9] * x[9] + w[10] * x[10] + w[11] * x[11]
        /\ a[3] = acc[3] + w[12] * x[12] + w[13] * x[13] + w[14] * x[14] + w[15] * x[15]
    BY <1>5 DEF Acc16, sdot_acc
  <2>2. /\ a[0] = acc[0] + p[0] + p[1] + p[2] + p[3]
        /\ a[1] = acc[1] + p[4] + p[5] + p[6] + p[7]
        /\ a[2] = acc[2] + p[8] + p[9] + p[10] + p[11]
        /\ a[3] = acc[3] + p[12] + p[13] + p[14] + p[15]
    BY <1>3, <2>1
  <2>3. a[0] \in Int /\ a[1] \in Int /\ a[2] \in Int /\ a[3] \in Int
    BY <1>1, <1>2, <2>2
  <2>4. Ints(a, 4)
    BY <2>3 DEF Ints
  <2>5. vaddv(a) = vaddv(acc) + SumTo(p, 16)
    BY <1>1, <1>2, <1>4, <2>2 DEF vaddv
  <2> QED
    BY <2>4, <2>5
<1>6. CASE ~sdot
  <2>0. PICK c : c = vpadal_vmull(acc, w, x, 0)
    OBVIOUS
  <2>1. /\ c[0] = acc[0] + w[0] * x[0] + w[1] * x[1] /\ c[1] = acc[1] + w[2] * x[2] + w[3] * x[3]
        /\ c[2] = acc[2] + w[4] * x[4] + w[5] * x[5] /\ c[3] = acc[3] + w[6] * x[6] + w[7] * x[7]
    BY <2>0 DEF vpadal_vmull
  <2>2. /\ a[0] = c[0] + w[8] * x[8] + w[9] * x[9] /\ a[1] = c[1] + w[10] * x[10] + w[11] * x[11]
        /\ a[2] = c[2] + w[12] * x[12] + w[13] * x[13] /\ a[3] = c[3] + w[14] * x[14] + w[15] * x[15]
    BY <1>6, <2>0 DEF Acc16, vpadal_vmull
  <2>3. /\ a[0] = acc[0] + p[0] + p[1] + p[8] + p[9] /\ a[1] = acc[1] + p[2] + p[3] + p[10] + p[11]
        /\ a[2] = acc[2] + p[4] + p[5] + p[12] + p[13] /\ a[3] = acc[3] + p[6] + p[7] + p[14] + p[15]
    BY <1>3, <2>1, <2>2
  <2>4. a[0] \in Int /\ a[1] \in Int /\ a[2] \in Int /\ a[3] \in Int
    BY <1>1, <1>2, <2>3
  <2>5. Ints(a, 4)
    BY <2>4 DEF Ints
  <2>6. vaddv(a) = vaddv(acc) + SumTo(p, 16)
    BY <1>1, <1>2, <1>4, <2>3 DEF vaddv
  <2> QED
    BY <2>5, <2>6
<1> QED
  BY <1>5, <1>6

\* The horizontal sums are the sums of the products.
LEMMA Dot16 ==
    ASSUME NEW sdot, NEW w, NEW x, NEW p, Products(p, w, x, 16)
    PROVE  dot_i8x16(sdot, w, x) = SumTo(p, 16)
<1>1. PICK z, a : z = set1(0, 4) /\ a = Acc16(sdot, z, w, x)
  OBVIOUS
<1>2. Ints(z, 4) /\ vaddv(z) = 0
  BY <1>1 DEF set1, Ints, vaddv
<1>3. vaddv(a) = vaddv(z) + SumTo(p, 16)
  BY <1>1, <1>2, Accumulates
<1>4. SumTo(p, 16) \in Int
  BY SumInt DEF Products
<1> QED
  BY <1>1, <1>2, <1>3, <1>4 DEF dot_i8x16

\* Two of them from zero make thirty-two products,
LEMMA Dot32 ==
    ASSUME NEW sdot, NEW w, NEW x, NEW v, NEW u, NEW p, NEW q, Products(p, w, x, 16), Products(q, v, u, 16)
    PROVE  dot_i8x32(sdot, w, v, x, u) = SumTo(p, 16) + SumTo(q, 16)
<1>1. PICK z, a, c : z = set1(0, 4) /\ a = Acc16(sdot, z, w, x) /\ c = Acc16(sdot, a, v, u)
  OBVIOUS
<1>2. Ints(z, 4) /\ vaddv(z) = 0
  BY <1>1 DEF set1, Ints, vaddv
<1>3. Ints(a, 4) /\ vaddv(a) = vaddv(z) + SumTo(p, 16)
  BY <1>1, <1>2, Accumulates
<1>4. vaddv(c) = vaddv(a) + SumTo(q, 16)
  BY <1>1, <1>3, Accumulates
<1>5. SumTo(p, 16) \in Int /\ SumTo(q, 16) \in Int
  BY SumInt DEF Products
<1> QED
  BY <1>1, <1>2, <1>3, <1>4, <1>5 DEF dot_i8x32

\* p lists the products of two halves, one after the other.
Halves(p, w, x, v, u) == Ints(p, 32) /\ \A k \in 0..15 : p[k] = w[k] * x[k] /\ p[16 + k] = v[k] * u[k]

\* whose sum is dot_i8x32.
LEMMA DotHalves ==
    ASSUME NEW sdot, NEW w, NEW x, NEW v, NEW u, NEW p, Halves(p, w, x, v, u)
    PROVE  dot_i8x32(sdot, w, v, x, u) = SumTo(p, 32)
<1>1. PICK q : q = Load(p, 16, 16)
  OBVIOUS
<1>2. Products(p, w, x, 16)
  BY DEF Halves, Products, Ints
<1>3. Products(q, v, u, 16)
  <2>1. ASSUME NEW k \in 0..15 PROVE q[k] = p[16 + k] /\ 16 + k \in 0..32 - 1
    BY <1>1, Loaded
  <2> QED
    BY <2>1 DEF Halves, Products, Ints
<1>4. SumTo(p, 16 + 16) = SumTo(p, 16) + SumTo(q, 16)
  <2>1. Ints(p, 16 + 16)
    BY DEF Halves, Ints
  <2> QED
    BY <1>1, <2>1, SumSplits
<1> QED
  BY <1>2, <1>3, <1>4, Dot32

\* A byte.
LEMMA ByteInt == ASSUME NEW v \in Byte PROVE v \in Int /\ 0 <= v /\ v <= 255
BY DEF Byte

\* A signed byte.
LEMMA SByteInt == ASSUME NEW v \in SByte PROVE v \in Int /\ -128 <= v /\ v <= 127
BY DEF SByte

\* The fields of a Q8_0 block.
LEMMA Block8Fields ==
    ASSUME NEW bw \in BlockQ8_0
    PROVE  bw.d \in Int /\ \A k \in 0..31 : bw.qs[k] \in Int /\ -128 <= bw.qs[k] /\ bw.qs[k] <= 127
<1>1. bw.d \in Int /\ bw.qs \in [0..QK8_0 - 1 -> SByte] /\ QK8_0 = 32
  BY Sizes DEF BlockQ8_0
<1>2. ASSUME NEW k \in 0..31 PROVE bw.qs[k] \in SByte
  BY <1>1
<1> QED
  BY <1>1, <1>2, SByteInt

\* NEON computes exactly what the scalar Q8_0 kernel computes.
LEMMA Neon8 ==
    ASSUME NEW sdot, NEW bw \in BlockQ8_0, NEW bx, Quants(bx, QK8_0, -127)
    PROVE  Q8Neon(sdot, bw, bx) = Q8Scalar(bw, bx)
<1>0. QK8_0 = 32
  BY Sizes
<1>1. PICK p : p = [i \in 0..QK8_0 - 1 |-> bw.qs[i] * bx.qs[i]]
  OBVIOUS
<1>2. ASSUME NEW k \in 0..31 PROVE p[k] = bw.qs[k] * bx.qs[k] /\ p[k] \in Int
  <2>1. bw.qs[k] \in Int /\ bx.qs[k] \in Int
    BY <1>0, Block8Fields DEF Quants
  <2> QED
    BY <1>0, <1>1, <2>1
<1>3. PICK w, x, v, u : /\ w = Load(bw.qs, 0, 16) /\ v = Load(bw.qs, 16, 16)
                        /\ x = Load(bx.qs, 0, 16) /\ u = Load(bx.qs, 16, 16)
  OBVIOUS
<1>4. Halves(p, w, x, v, u)
  <2>1. ASSUME NEW k \in 0..15
        PROVE  /\ w[k] = bw.qs[k] /\ x[k] = bx.qs[k] /\ k \in 0..31
               /\ v[k] = bw.qs[16 + k] /\ u[k] = bx.qs[16 + k] /\ 16 + k \in 0..31
    BY <1>3, Loaded
  <2> QED
    BY <1>2, <2>1 DEF Halves, Ints
<1>5. dot_i8x32(sdot, w, v, x, u) = SumTo(p, QK8_0)
  BY <1>0, <1>4, DotHalves
<1> QED
  BY <1>1, <1>3, <1>5 DEF Q8Neon, Q8Scalar

\* The fields of a Q4_K block.
LEMMA Block4Fields ==
    ASSUME NEW bw \in BlockQ4K
    PROVE  /\ bw.d \in Int /\ bw.dmin \in Int
           /\ \A k \in 0..127 : bw.qs[k] \in Int /\ 0 <= bw.qs[k] /\ bw.qs[k] <= 255
           /\ \A k \in 0..11 : bw.scales[k] \in Int /\ 0 <= bw.scales[k] /\ bw.scales[k] <= 255
<1>1. bw.d \in Int /\ bw.dmin \in Int /\ bw.qs \in [0..127 -> Byte] /\ bw.scales \in [0..11 -> Byte]
  BY DEF BlockQ4K
<1>2. ASSUME NEW k \in 0..127 PROVE bw.qs[k] \in Byte
  BY <1>1
<1>3. ASSUME NEW k \in 0..11 PROVE bw.scales[k] \in Byte
  BY <1>1
<1> QED
  BY <1>1, <1>2, <1>3, ByteInt

\* The nibble k of sub-block j.
Nibble(bw, j, k) == LET byte == bw.qs[(j \div 2) * 32 + k] IN IF j % 2 = 1 THEN byte \div 16 ELSE byte % 16

\* A weight's four bits.
LEMMA Nibbles ==
    ASSUME NEW bw \in BlockQ4K, NEW j \in 0..7, NEW k \in 0..31
    PROVE  Nibble(bw, j, k) \in Int /\ 0 <= Nibble(bw, j, k) /\ Nibble(bw, j, k) <= 15
<1>1. (j \div 2) * 32 + k \in 0..127
  OBVIOUS
<1>2. PICK b \in Int : b = bw.qs[(j \div 2) * 32 + k] /\ 0 <= b /\ b <= 255
  BY <1>1, Block4Fields
<1> QED
  BY <1>2 DEF Nibble

\* The products of sub-block j.
Terms4(bw, bx, j) == [k \in 0..31 |-> Nibble(bw, j, k) * bx.qs[j * 32 + k]]

\* The products of sub-block j are integers.
LEMMA Terms4Ints ==
    ASSUME NEW bw \in BlockQ4K, NEW bx, Quants(bx, QK_K, -128), NEW j \in 0..7
    PROVE  Ints(Terms4(bw, bx, j), 32)
<1>1. ASSUME NEW k \in 0..31 PROVE Terms4(bw, bx, j)[k] \in Int
  <2>1. j * 32 + k \in 0..QK_K - 1
    BY Sizes
  <2>2. bx.qs[j * 32 + k] \in Int /\ Nibble(bw, j, k) \in Int
    BY <2>1, Nibbles DEF Quants
  <2> QED
    BY <2>2 DEF Terms4
<1> QED
  BY <1>1 DEF Ints

\* NEON computes exactly what the scalar Q4_K kernel computes.
LEMMA Neon4 ==
    ASSUME NEW sdot, NEW bw \in BlockQ4K, NEW bx, Quants(bx, QK_K, -128)
    PROVE  Q4kNeon(sdot, bw, bx) = Q4kScalar(bw, bx)
<1> DEFINE R(j) == q4k_sub(bw.qs, j)
           D(j) == dot_i8x32(sdot, R(j)[1], R(j)[2], Load(bx.qs, j * 32, 16), Load(bx.qs, j * 32 + 16, 16))
<1>1. ASSUME NEW j \in 0..7 PROVE D(j) = SumTo(Terms4(bw, bx, j), 32)
  <2>1. PICK p : p = Terms4(bw, bx, j)
    OBVIOUS
  <2>2. PICK w, x, v, u : /\ w = R(j)[1] /\ v = R(j)[2]
                          /\ x = Load(bx.qs, j * 32, 16) /\ u = Load(bx.qs, j * 32 + 16, 16)
    OBVIOUS
  <2>3. ASSUME NEW k \in 0..15
        PROVE  /\ w[k] = Nibble(bw, j, k) /\ v[k] = Nibble(bw, j, 16 + k)
               /\ x[k] = bx.qs[j * 32 + k] /\ u[k] = bx.qs[j * 32 + (16 + k)]
    <3>1. PICK m \in Nat : m = (j \div 2) * 32
      OBVIOUS
    <3>2. PICK a, b : a = Load(bw.qs, m, 16) /\ b = Load(bw.qs, m + 16, 16)
      OBVIOUS
    <3>3. /\ w = [i \in 0..15 |-> IF j % 2 = 0 THEN a[i] % 16 ELSE a[i] \div 16]
          /\ v = [i \in 0..15 |-> IF j % 2 = 0 THEN b[i] % 16 ELSE b[i] \div 16]
      BY <2>2, <3>1, <3>2 DEF q4k_sub
    <3>4. a[k] = bw.qs[m + k] /\ b[k] = bw.qs[(m + 16) + k] /\ (m + 16) + k = m + (16 + k)
      BY <3>1, <3>2, Loaded
    <3>5. j % 2 = 0 \/ j % 2 = 1
      OBVIOUS
    <3>6. w[k] = Nibble(bw, j, k) /\ v[k] = Nibble(bw, j, 16 + k)
      BY <3>1, <3>3, <3>4, <3>5 DEF Nibble
    <3>7. x[k] = bx.qs[j * 32 + k] /\ u[k] = bx.qs[(j * 32 + 16) + k] /\ (j * 32 + 16) + k = j * 32 + (16 + k)
      BY <2>2, Loaded
    <3> QED
      BY <3>6, <3>7
  <2>4. Ints(p, 32)
    BY <2>1, Terms4Ints
  <2>5. ASSUME NEW k \in 0..15 PROVE p[k] = w[k] * x[k] /\ p[16 + k] = v[k] * u[k]
    <3>1. k \in 0..31 /\ 16 + k \in 0..31
      OBVIOUS
    <3> QED
      BY <2>1, <2>3, <3>1 DEF Terms4
  <2>6. Halves(p, w, x, v, u)
    BY <2>4, <2>5 DEF Halves
  <2>7. D(j) = dot_i8x32(sdot, w, v, x, u)
    BY <2>2
  <2> HIDE DEF D, R
  <2> QED
    BY <2>1, <2>6, <2>7, DotHalves
<1>2. Q4kNeon(sdot, bw, bx) =
        [d |-> <<bw.d, bx.d>>, q |-> [j \in 0..7 |-> <<q4k_scale_min(bw.scales, j)[1], D(j)>>],
         dmin |-> <<bw.dmin, bx.d>>, m |-> MinSum(bw, bx)]
  BY DEF Q4kNeon
<1>3. Q4kScalar(bw, bx) =
        [d |-> <<bw.d, bx.d>>,
         q |-> [j \in 0..7 |-> <<q4k_scale_min(bw.scales, j)[1], SumTo(Terms4(bw, bx, j), 32)>>],
         dmin |-> <<bw.dmin, bx.d>>, m |-> MinSum(bw, bx)]
  BY DEF Q4kScalar, Terms4, Nibble
<1> HIDE DEF D
<1>4. [j \in 0..7 |-> <<q4k_scale_min(bw.scales, j)[1], D(j)>>]
        = [j \in 0..7 |-> <<q4k_scale_min(bw.scales, j)[1], SumTo(Terms4(bw, bx, j), 32)>>]
  BY <1>1
<1> QED
  BY <1>2, <1>3, <1>4

\* The fields of a Q6_K block.
LEMMA Block6Fields ==
    ASSUME NEW bw \in BlockQ6K
    PROVE  /\ bw.d \in Int
           /\ \A k \in 0..127 : bw.ql[k] \in Int /\ 0 <= bw.ql[k] /\ bw.ql[k] <= 255
           /\ \A k \in 0..63 : bw.qh[k] \in Int /\ 0 <= bw.qh[k] /\ bw.qh[k] <= 255
           /\ \A k \in 0..15 : bw.scales[k] \in Int /\ -128 <= bw.scales[k] /\ bw.scales[k] <= 127
<1>1. bw.d \in Int /\ bw.ql \in [0..127 -> Byte] /\ bw.qh \in [0..63 -> Byte] /\ bw.scales \in [0..15 -> SByte]
  BY DEF BlockQ6K
<1>2. ASSUME NEW k \in 0..127 PROVE bw.ql[k] \in Byte
  BY <1>1
<1>3. ASSUME NEW k \in 0..63 PROVE bw.qh[k] \in Byte
  BY <1>1
<1>4. ASSUME NEW k \in 0..15 PROVE bw.scales[k] \in SByte
  BY <1>1
<1> QED
  BY <1>1, <1>2, <1>3, <1>4, ByteInt, SByteInt

\* A byte of a Q4_K block,
LEMMA QsByte == ASSUME NEW bw \in BlockQ4K, NEW i \in 0..127 PROVE bw.qs[i] \in Int /\ 0 <= bw.qs[i] /\ bw.qs[i] <= 255
BY Block4Fields

\* one of ql,
LEMMA QlByte == ASSUME NEW bw \in BlockQ6K, NEW i \in 0..127 PROVE bw.ql[i] \in Int /\ 0 <= bw.ql[i] /\ bw.ql[i] <= 255
BY Block6Fields

\* and one of qh.
LEMMA QhByte == ASSUME NEW bw \in BlockQ6K, NEW i \in 0..63 PROVE bw.qh[i] \in Int /\ 0 <= bw.qh[i] /\ bw.qh[i] <= 255
BY Block6Fields

\* Six bits of a quant: four of a byte of ql, two of a byte of qh.
LEMMA SixBits ==
    ASSUME NEW a \in Int, 0 <= a, a <= 255, NEW c \in Int, 0 <= c, c <= 255, NEW n \in 0..3
    PROVE  /\ 4^n \in Nat \ {0} /\ 4^n = 2^(2 * n)
           /\ (c \div 4^n) % 4 \in Int /\ 0 <= (c \div 4^n) % 4 /\ (c \div 4^n) % 4 <= 3
           /\ a % 16 \in Int /\ 0 <= a % 16 /\ a % 16 <= 15
           /\ a \div 16 \in Int /\ 0 <= a \div 16 /\ a \div 16 <= 15
<1>1. 4^n \in Nat \ {0} /\ 4^n = 2^(2 * n)
  <2>1. 4^0 = 1 /\ 4^1 = 4 /\ 4^2 = 16 /\ 4^3 = 64 /\ 2^0 = 1 /\ 2^2 = 4 /\ 2^4 = 16 /\ 2^6 = 64
    OBVIOUS
  <2>2. CASE n = 0
    BY <2>1, <2>2
  <2>3. CASE n = 1
    BY <2>1, <2>3
  <2>4. CASE n = 2
    BY <2>1, <2>4
  <2>5. CASE n = 3
    BY <2>1, <2>5
  <2> QED
    BY <2>2, <2>3, <2>4, <2>5
<1>2. PICK e \in Nat \ {0} : e = 4^n
  BY <1>1
<1>3. PICK f \in Int : f = c \div e
  BY <1>2
<1> QED
  BY <1>1, <1>2, <1>3

\* A weight's six bits.
LEMMA SixBitQuants ==
    ASSUME NEW bw \in BlockQ6K, NEW hv \in 0..1, NEW n \in 0..3, NEW l \in 0..31
    PROVE  q6(bw, hv, n, l) \in Int /\ 0 <= q6(bw, hv, n, l) /\ q6(bw, hv, n, l) <= 63
<1>1. hv * 64 + (n % 2) * 32 + l \in 0..127 /\ hv * 32 + l \in 0..63
  OBVIOUS
<1>2. PICK a \in Int : a = bw.ql[hv * 64 + (n % 2) * 32 + l] /\ 0 <= a /\ a <= 255
  <2>1. PICK i \in 0..127 : i = hv * 64 + (n % 2) * 32 + l
    BY <1>1
  <2>2. bw.ql[i] \in Int /\ 0 <= bw.ql[i] /\ bw.ql[i] <= 255
    BY QlByte
  <2> QED
    BY ONLY <2>1, <2>2
<1>3. PICK c \in Int : c = bw.qh[hv * 32 + l] /\ 0 <= c /\ c <= 255
  <2>1. PICK i \in 0..63 : i = hv * 32 + l
    BY <1>1
  <2>2. bw.qh[i] \in Int /\ 0 <= bw.qh[i] /\ bw.qh[i] <= 255
    BY QhByte
  <2> QED
    BY ONLY <2>1, <2>2
<1>4. PICK h \in Int : h = (c \div 4^n) % 4 /\ 0 <= h /\ h <= 3
  BY <1>3, SixBits
<1>5. q6(bw, hv, n, l) = (IF n < 2 THEN a % 16 ELSE a \div 16) + 16 * h
  BY <1>2, <1>3, <1>4 DEF q6
<1> QED
  BY <1>2, <1>4, <1>5

\* The products of group g.
Terms6(bw, bx, g) ==
    [l \in 0..15 |-> (q6(bw, g \div 8, (g % 8) \div 2, 16 * (g % 2) + l) - 32)
                     * bx.qs[(g \div 8) * 128 + ((g % 8) \div 2) * 32 + 16 * (g % 2) + l]]

\* The products of a group of sixteen are integers.
LEMMA Terms6Ints ==
    ASSUME NEW bw \in BlockQ6K, NEW bx, Quants(bx, QK_K, -128), NEW g \in 0..15
    PROVE  Ints(Terms6(bw, bx, g), 16)
<1>1. PICK hv \in 0..1, n \in 0..3, l0 \in Int : hv = g \div 8 /\ n = (g % 8) \div 2 /\ l0 = 16 * (g % 2) /\ (l0 = 0 \/ l0 = 16)
  OBVIOUS
<1>2. ASSUME NEW l \in 0..15 PROVE Terms6(bw, bx, g)[l] \in Int
  <2>1. hv * 128 + n * 32 + l0 + l \in 0..QK_K - 1 /\ l0 + l \in 0..31
    BY <1>1, Sizes
  <2>2. bx.qs[hv * 128 + n * 32 + l0 + l] \in Int /\ q6(bw, hv, n, l0 + l) \in Int
    BY <1>1, <2>1, SixBitQuants DEF Quants
  <2>3. Terms6(bw, bx, g)[l] = (q6(bw, hv, n, l0 + l) - 32) * bx.qs[hv * 128 + n * 32 + l0 + l]
    BY <1>1 DEF Terms6
  <2> QED
    BY <2>2, <2>3
<1> QED
  BY <1>2 DEF Ints

\* NEON computes exactly what the scalar Q6_K kernel computes.
LEMMA Neon6 ==
    ASSUME NEW sdot, NEW bw \in BlockQ6K, NEW bx, Quants(bx, QK_K, -128)
    PROVE  Q6kNeon(sdot, bw, bx) = Q6kScalar(bw, bx)
<1> DEFINE H(g) == g \div 8
           N(g) == (g % 8) \div 2
           B(g) == 16 * (g % 2)
           P(g) == q6k_plane(Load(bw.ql, H(g) * 64 + 32 * (N(g) % 2) + B(g), 16), Load(bw.qh, H(g) * 32 + B(g), 16),
                             2 * N(g), N(g) >= 2)
           D(g) == dot_i8x16(sdot, P(g), Load(bx.qs, H(g) * 128 + N(g) * 32 + B(g), 16))
<1>1. ASSUME NEW g \in 0..15 PROVE D(g) = SumTo(Terms6(bw, bx, g), 16)
  <2>1. PICK hv \in 0..1, n \in 0..3, b \in Int : hv = H(g) /\ n = N(g) /\ b = B(g) /\ (b = 0 \/ b = 16)
    OBVIOUS
  <2>2. PICK p, w, x : p = Terms6(bw, bx, g) /\ w = P(g) /\ x = Load(bx.qs, hv * 128 + n * 32 + b, 16)
    OBVIOUS
  <2>3. ASSUME NEW l \in 0..15 PROVE p[l] = w[l] * x[l]
    <3>1. PICK lo, hi : lo = Load(bw.ql, hv * 64 + 32 * (n % 2) + b, 16) /\ hi = Load(bw.qh, hv * 32 + b, 16)
      OBVIOUS
    <3>2. /\ lo[l] = bw.ql[hv * 64 + (n % 2) * 32 + (b + l)] /\ hi[l] = bw.qh[hv * 32 + (b + l)]
          /\ x[l] = bx.qs[hv * 128 + n * 32 + b + l]
      <4>1. /\ lo[l] = bw.ql[(hv * 64 + 32 * (n % 2) + b) + l] /\ hi[l] = bw.qh[(hv * 32 + b) + l]
            /\ x[l] = bx.qs[(hv * 128 + n * 32 + b) + l]
        <5>1. PICK i, m, t : i = hv * 64 + 32 * (n % 2) + b /\ m = hv * 32 + b /\ t = hv * 128 + n * 32 + b
          OBVIOUS
        <5>2. lo = Load(bw.ql, i, 16) /\ hi = Load(bw.qh, m, 16) /\ x = Load(bx.qs, t, 16)
          BY <2>2, <3>1, <5>1
        <5>3. lo[l] = bw.ql[i + l] /\ hi[l] = bw.qh[m + l] /\ x[l] = bx.qs[t + l]
          BY <5>2, Loaded
        <5> QED
          BY <5>1, <5>3
      <4>2. /\ (hv * 64 + 32 * (n % 2) + b) + l = hv * 64 + (n % 2) * 32 + (b + l)
            /\ (hv * 32 + b) + l = hv * 32 + (b + l)
        BY <2>1
      <4> QED
        BY <4>1, <4>2
    <3>3. w = [i \in 0..15 |-> Wrap8((IF n >= 2 THEN lo[i] \div 16 ELSE lo[i] % 16) + 16 * ((hi[i] \div 2^(2 * n)) % 4) - 32)]
      BY <2>1, <2>2, <3>1 DEF q6k_plane
    <3>4. b + l \in 0..31
      BY <2>1
    <3>5. PICK v \in Int : v = q6(bw, hv, n, b + l) /\ 0 <= v /\ v <= 63
      BY <3>4, SixBitQuants
    <3>6. hv * 32 + (b + l) \in 0..63
      BY <3>4
    <3>7. bw.qh[hv * 32 + (b + l)] \in Int /\ 0 <= bw.qh[hv * 32 + (b + l)] /\ bw.qh[hv * 32 + (b + l)] <= 255
      <4>1. PICK i \in 0..63 : i = hv * 32 + (b + l)
        BY ONLY <3>6
      <4>2. bw.qh[i] \in Int /\ 0 <= bw.qh[i] /\ bw.qh[i] <= 255
        BY QhByte
      <4> QED
        BY ONLY <4>1, <4>2
    <3>8. 4^n = 2^(2 * n)
      BY <3>7, SixBits
    <3>9. v = (IF n >= 2 THEN lo[l] \div 16 ELSE lo[l] % 16) + 16 * ((hi[l] \div 2^(2 * n)) % 4)
      <4>1. v = (IF n < 2 THEN lo[l] % 16 ELSE lo[l] \div 16) + 16 * ((hi[l] \div 4^n) % 4)
        BY <3>2, <3>5 DEF q6
      <4> QED
        BY <3>8, <4>1
    <3>10. w[l] = Wrap8(v - 32)
      <4>1. PICK a, c : a = (IF n >= 2 THEN lo[l] \div 16 ELSE lo[l] % 16) /\ c = 16 * ((hi[l] \div 2^(2 * n)) % 4)
        OBVIOUS
      <4>2. w[l] = Wrap8(a + c - 32)
        BY <3>3, <4>1
      <4>3. v = a + c
        BY <3>9, <4>1
      <4>4. a \in Int /\ c \in Int
        <5>1. hv * 64 + (n % 2) * 32 + (b + l) \in 0..127
          BY <3>4
        <5>2. PICK e, f : e = lo[l] /\ f = hi[l]
          OBVIOUS
        <5>6. f \in Int /\ 0 <= f /\ f <= 255
          BY <3>2, <3>7, <5>2
        <5>7. e \in Int /\ 0 <= e /\ e <= 255
          <6>1. PICK i \in 0..127 : i = hv * 64 + (n % 2) * 32 + (b + l)
            BY <5>1
          <6>2. e = bw.ql[i]
            BY <3>2, <5>2, <6>1
          <6>3. bw.ql[i] \in Int /\ 0 <= bw.ql[i] /\ bw.ql[i] <= 255
            BY QlByte
          <6> QED
            BY ONLY <6>2, <6>3
        <5>3. PICK h : h = (f \div 4^n) % 4
          OBVIOUS
        <5>4. h \in Int /\ e % 16 \in Int /\ e \div 16 \in Int
          BY <5>3, <5>6, <5>7, SixBits
        <5>5. c = 16 * h
          BY <3>8, <4>1, <5>2, <5>3
        <5> QED
          BY <4>1, <5>2, <5>4, <5>5
      <4> QED
        BY <4>2, <4>3, <4>4
    <3>11. Wrap8(v - 32) = v - 32
      BY <3>5 DEF Wrap8
    <3>12. p[l] = (v - 32) * bx.qs[hv * 128 + n * 32 + b + l]
      BY <2>1, <2>2, <3>5 DEF Terms6
    <3> QED
      BY <3>2, <3>10, <3>11, <3>12
  <2>4. Ints(p, 16)
    BY <2>2, Terms6Ints
  <2>5. Products(p, w, x, 16)
    BY <2>3, <2>4 DEF Products
  <2>6. D(g) = dot_i8x16(sdot, w, x)
    BY <2>1, <2>2
  <2> HIDE DEF D, P
  <2> QED
    BY <2>2, <2>5, <2>6, Dot16
<1>2. Q6kNeon(sdot, bw, bx) = [d |-> <<bw.d, bx.d>>, q |-> [g \in 0..15 |-> <<bw.scales[g], D(g)>>]]
  BY DEF Q6kNeon
<1>3. Q6kScalar(bw, bx) =
        [d |-> <<bw.d, bx.d>>, q |-> [g \in 0..15 |-> <<bw.scales[g], SumTo(Terms6(bw, bx, g), 16)>>]]
  BY DEF Q6kScalar, Terms6
<1> HIDE DEF D
<1>4. [g \in 0..15 |-> <<bw.scales[g], D(g)>>] = [g \in 0..15 |-> <<bw.scales[g], SumTo(Terms6(bw, bx, g), 16)>>]
  BY <1>1
<1> QED
  BY <1>2, <1>3, <1>4

-----------------------------------------------------------------------------
(* Rows *)

\* A row of weights and a row of activations of a job.
Operands(fmt, w, x) ==
    /\ fmt \in {"Q4K", "Q6K", "Q8"} /\ w \in Seq(BlocksOf(fmt))
    /\ \A i \in DOMAIN w : \E s, unit : ActOf(x[i], s, fmt, unit)

\* The NEON kernels, with and without dot product instructions.
LEMMA NeonDot ==
    ASSUME NEW fmt, NEW w, NEW x, Operands(fmt, w, x), NEW backend \in {"neon", "dotprod"}
    PROVE  Dot(fmt, backend, w, x) = Dot(fmt, "scalar", w, x)
<1>0. PICK sdot : sdot = (backend = "dotprod")
  OBVIOUS
<1>1. CASE fmt = "Q4K"
  <2>1. ASSUME NEW i \in DOMAIN w PROVE Q4kNeon(sdot, w[i], x[i]) = Q4kScalar(w[i], x[i])
    <3>1. PICK bw, bx : bw = w[i] /\ bx = x[i]
      OBVIOUS
    <3>2. bw \in BlockQ4K /\ Quants(bx, QK_K, -128)
      BY <1>1, <3>1 DEF Operands, ActOf, BlocksOf
    <3> QED
      BY <3>1, <3>2, Neon4
  <2>2. Dot(fmt, backend, w, x) = [i \in DOMAIN w |-> Q4kNeon(sdot, w[i], x[i])]
    BY <1>0, <1>1 DEF Dot, dot_q4k_neon, Blocks
  <2>3. Dot(fmt, "scalar", w, x) = [i \in DOMAIN w |-> Q4kScalar(w[i], x[i])]
    BY <1>1 DEF Dot, dot_q4k_scalar, Blocks
  <2> QED
    BY <2>1, <2>2, <2>3
<1>2. CASE fmt = "Q6K"
  <2>1. ASSUME NEW i \in DOMAIN w PROVE Q6kNeon(sdot, w[i], x[i]) = Q6kScalar(w[i], x[i])
    <3>1. PICK bw, bx : bw = w[i] /\ bx = x[i]
      OBVIOUS
    <3>2. bw \in BlockQ6K /\ Quants(bx, QK_K, -128)
      BY <1>2, <3>1 DEF Operands, ActOf, BlocksOf
    <3> QED
      BY <3>1, <3>2, Neon6
  <2>2. Dot(fmt, backend, w, x) = [i \in DOMAIN w |-> Q6kNeon(sdot, w[i], x[i])]
    BY <1>0, <1>2 DEF Dot, dot_q6k_neon, Blocks
  <2>3. Dot(fmt, "scalar", w, x) = [i \in DOMAIN w |-> Q6kScalar(w[i], x[i])]
    BY <1>2 DEF Dot, dot_q6k_scalar, Blocks
  <2> QED
    BY <2>1, <2>2, <2>3
<1>3. CASE fmt = "Q8"
  <2>1. ASSUME NEW i \in DOMAIN w PROVE Q8Neon(sdot, w[i], x[i]) = Q8Scalar(w[i], x[i])
    <3>1. PICK bw, bx : bw = w[i] /\ bx = x[i]
      OBVIOUS
    <3>2. bw \in BlockQ8_0 /\ Quants(bx, QK8_0, -127)
      BY <1>3, <3>1 DEF Operands, ActOf, BlocksOf
    <3> QED
      BY <3>1, <3>2, Neon8
  <2>2. Dot(fmt, backend, w, x) = [i \in DOMAIN w |-> Q8Neon(sdot, w[i], x[i])]
    BY <1>0, <1>3 DEF Dot, dot_q8_neon, Blocks
  <2>3. Dot(fmt, "scalar", w, x) = [i \in DOMAIN w |-> Q8Scalar(w[i], x[i])]
    BY <1>3 DEF Dot, dot_q8_scalar, Blocks
  <2> QED
    BY <2>1, <2>2, <2>3
<1> QED
  BY <1>1, <1>2, <1>3 DEF Operands

\* A tile is four single products.
LEMMA LanesAreDots ==
    ASSUME NEW fmt \in {"Q4K", "Q6K", "Q8"}, NEW backend \in {"avx2", "neon", "dotprod"},
           NEW w, NEW xs, NEW lane \in 0..3
    PROVE  Dot4(fmt, backend, w, xs)[lane] = Dot(fmt, backend, w, xs[lane])
<1>1. CASE backend = "avx2"
  BY <1>1 DEF Dot4, Dot, dot_q4k_avx2_x4, dot_q6k_avx2_x4, dot_q8_avx2_x4, dot_q4k_avx2, dot_q6k_avx2, dot_q8_avx2,
              Lanes, Blocks
<1>2. CASE backend # "avx2"
  BY <1>2 DEF Dot4, Dot, dot_q4k_neon_x4, dot_q6k_neon_x4, dot_q8_neon_x4, dot_q4k_neon, dot_q6k_neon, dot_q8_neon,
              Lanes, Blocks
<1> QED
  BY <1>1, <1>2

\* The operands of a job's dot products are blocks of its format.
LEMMA JobOperands ==
    ASSUME NEW j \in Jobs, NEW r \in 1..Len(j.rows), NEW b \in 1..Len(j.xs),
           NEW w, w = WeightRow(j.rows[r]), NEW x, x = Quantized(j.fmt, j.xs[b], j.unit)
    PROVE  Operands(j.fmt, w, x) /\ DOMAIN w = 1..Len(w) /\ Len(w) \in Nat
<1>1. w \in Seq(BlocksOf(j.fmt)) /\ j.fmt \in {"Q4K", "Q6K", "Q8"} /\ Len(w) <= Len(Source(j.xs[b]))
  BY JobParts
<1>2. PICK src : src = Source(j.xs[b])
  OBVIOUS
<1>3. Len(src) \in Nat /\ \A i \in 1..Len(src) : ActOf(x[i], src[i], j.fmt, j.unit)
  BY <1>2, JobActs
<1>4. DOMAIN w = 1..Len(w) /\ Len(w) \in Nat
  BY <1>1
<1>5. ASSUME NEW i \in DOMAIN w PROVE \E s, unit : ActOf(x[i], s, j.fmt, unit)
  BY <1>1, <1>2, <1>3, <1>4
<1> QED
  BY <1>1, <1>4, <1>5 DEF Operands

-----------------------------------------------------------------------------
(* The product *)

\* What the cell of row r and batch element b is to hold.
CellOf(j, r, b) == Dot(j.fmt, j.backend, WeightRow(j.rows[r + 1]), Quantized(j.fmt, j.xs[b + 1], j.unit))

\* The first a[r + 1] elements of every row are written.
Filled(f, j, a) ==
    \A r \in 0..Len(j.rows) - 1 : \A b \in 0..a[r + 1] - 1 :
        b * Len(j.rows) + r \in DOMAIN f /\ f[b * Len(j.rows) + r] = CellOf(j, r, b)

\* The inductive invariant: the cells of each row up to the row's cursor hold
\* the one-by-one dot products, and nothing else is written.
MulInv ==
    /\ job \in Jobs /\ DOMAIN at = 1..Len(job.rows)
    /\ \A r \in 1..Len(job.rows) : at[r] \in 0..Len(job.xs)
    /\ Filled(y, job, at)

\* Cells of different rows and elements are different.
SameCell(n, a, r, c, s) == n \in Nat /\ r \in 0..n - 1 /\ s \in 0..n - 1 /\ a \in Nat /\ c \in Nat /\ a * n + r = c * n + s

\* Two output cells are the same only for the same row and input.
LEMMA CellsDiffer == ASSUME NEW n, NEW a, NEW r, NEW c, NEW s, SameCell(n, a, r, c, s) PROVE a = c /\ r = s
<1>0. n \in Nat /\ r \in 0..n - 1 /\ s \in 0..n - 1 /\ a \in Nat /\ c \in Nat /\ a * n + r = c * n + s
  BY DEF SameCell
<1>1. ASSUME NEW e \in Nat, NEW u \in 0..n - 1, NEW v \in 0..n - 1, NEW k \in Nat, NEW m \in Nat,
             m = k + 1 + e, k * n + u = m * n + v
      PROVE  FALSE
  <2>1. m * n = k * n + n + e * n /\ e * n \in Nat /\ k * n \in Nat
    BY <1>0, <1>1
  <2> QED
    BY <1>0, <1>1, <2>1
<1>2. ~ (a < c)
  <2> SUFFICES ASSUME a < c PROVE FALSE
    OBVIOUS
  <2>1. PICK e \in Nat : c = a + 1 + e
    <3>1. c - (a + 1) \in Nat /\ c = a + 1 + (c - (a + 1))
      BY <1>0
    <3> QED
      BY <3>1
  <2> QED
    BY <1>0, <1>1, <2>1
<1>3. ~ (c < a)
  <2> SUFFICES ASSUME c < a PROVE FALSE
    OBVIOUS
  <2>1. PICK e \in Nat : a = c + 1 + e
    <3>1. a - (c + 1) \in Nat /\ a = c + 1 + (a - (c + 1))
      BY <1>0
    <3> QED
      BY <3>1
  <2> QED
    BY <1>0, <1>1, <2>1
<1>4. a = c
  BY <1>0, <1>2, <1>3
<1>5. PICK z \in Nat : z = a * n
  BY <1>0
<1>6. z + r = z + s
  BY <1>0, <1>4, <1>5
<1> QED
  BY <1>0, <1>4, <1>6

\* The input of an output cell, from its index.
LEMMA CellIndex == ASSUME NEW n \in Nat \ {0}, NEW r \in 0..n - 1, NEW a \in Nat, NEW k, k = a * n + r PROVE (k - r) \div n = a
<1>1. PICK z \in Nat : z = a * n
  OBVIOUS
<1>2. k - r = z
  BY <1>1
<1>3. z \div n = a
  BY <1>1
<1> QED
  BY <1>2, <1>3

\* What Write does: the cells of row r for the elements b..b + n - 1, and no other.
WriteCase(j, f, a, g, c, r, b, n, vs, cells) ==
    /\ j \in Jobs /\ r \in 0..Len(j.rows) - 1 /\ b \in Nat /\ n \in Nat
    /\ DOMAIN a = 1..Len(j.rows) /\ a[r + 1] = b /\ \A i \in 1..Len(j.rows) : a[i] \in Nat
    /\ Filled(f, j, a) /\ \A i \in 0..n - 1 : vs[i] = CellOf(j, r, b + i)
    /\ cells = {(b + i) * Len(j.rows) + r : i \in 0..n - 1}
    /\ g = [k \in cells \cup DOMAIN f |-> IF k \in cells THEN vs[(k - r) \div Len(j.rows) - b] ELSE f[k]]
    /\ c = [a EXCEPT ![r + 1] = b + n]

\* A write of n results at a row's cursor extends the filled cells by exactly
\* those and disturbs no other worker's row.
LEMMA WriteFills ==
    ASSUME NEW j, NEW f, NEW a, NEW g, NEW c, NEW r, NEW b, NEW n, NEW vs, NEW cells,
           WriteCase(j, f, a, g, c, r, b, n, vs, cells)
    PROVE  Filled(g, j, c)
<1> j \in Jobs /\ r \in 0..Len(j.rows) - 1 /\ b \in Nat /\ n \in Nat
  BY DEF WriteCase
<1> DOMAIN a = 1..Len(j.rows) /\ a[r + 1] = b /\ \A i \in 1..Len(j.rows) : a[i] \in Nat
  BY DEF WriteCase
<1> Filled(f, j, a) /\ \A i \in 0..n - 1 : vs[i] = CellOf(j, r, b + i)
  BY DEF WriteCase
<1> cells = {(b + i) * Len(j.rows) + r : i \in 0..n - 1}
  BY DEF WriteCase
<1> g = [k \in cells \cup DOMAIN f |-> IF k \in cells THEN vs[(k - r) \div Len(j.rows) - b] ELSE f[k]]
  BY DEF WriteCase
<1> c = [a EXCEPT ![r + 1] = b + n]
  BY DEF WriteCase
<1>0. PICK N \in Nat \ {0} : N = Len(j.rows)
  BY JobParts
<1>1. r + 1 \in 1..N /\ c[r + 1] = b + n /\ \A i \in 1..N : i # r + 1 => c[i] = a[i]
  BY <1>0
<1> SUFFICES ASSUME NEW s \in 0..N - 1, NEW m \in 0..c[s + 1] - 1
             PROVE  m * N + s \in DOMAIN g /\ g[m * N + s] = CellOf(j, s, m)
  BY <1>0 DEF Filled
<1>2. s + 1 \in 1..N /\ c[s + 1] \in Nat /\ a[s + 1] \in Nat
  BY <1>0, <1>1
<1>3. PICK k : k = m * N + s
  OBVIOUS
<1>4. CASE k \in cells
  <2>1. PICK i \in 0..n - 1 : k = (b + i) * N + r
    BY <1>0, <1>4
  <2>2. PICK t \in Nat : t = b + i
    OBVIOUS
  <2>3. t * N + r = m * N + s
    BY <1>3, <2>1, <2>2
  <2>4. t = m /\ r = s
    <3>1. N \in Nat /\ r \in 0..N - 1 /\ s \in 0..N - 1
      BY <1>0
    <3>2. t \in Nat /\ m \in Nat
      BY <1>2, <2>2
    <3>3. SameCell(N, t, r, m, s)
      BY <2>3, <3>1, <3>2 DEF SameCell
    <3> QED
      BY <3>3, CellsDiffer
  <2>5. (k - r) \div N = t
    <3>1. k = t * N + r
      BY <2>1, <2>2
    <3>2. N \in Nat \ {0} /\ r \in 0..N - 1 /\ t \in Nat
      BY <1>0, <2>2
    <3> QED
      BY <3>1, <3>2, CellIndex
  <2>6. g[k] = vs[t - b] /\ k \in DOMAIN g
    BY <1>0, <1>4, <2>5
  <2>7. t - b = i
    BY <2>2
  <2>8. vs[i] = CellOf(j, r, t)
    BY <2>2
  <2> QED
    BY <1>3, <2>4, <2>6, <2>7, <2>8
<1>5. CASE k \notin cells
  <2>1. m < a[s + 1]
    <3>1. CASE s # r
      BY <1>1, <1>2, <3>1
    <3>2. CASE s = r
      <4>1. a[s + 1] = b /\ c[s + 1] = b + n
        BY <1>1, <3>2
      <4>2. CASE m < b
        BY <4>1, <4>2
      <4>3. CASE m >= b
        <5>1. m - b \in 0..n - 1 /\ b + (m - b) = m
          BY <1>2, <4>1, <4>3
        <5>2. k = (b + (m - b)) * N + r
          BY <1>3, <3>2, <5>1
        <5>3. k \in cells
          BY <1>0, <5>1, <5>2
        <5> QED
          BY <1>5, <5>3
      <4> QED
        BY <1>2, <4>2, <4>3
    <3> QED
      BY <3>1, <3>2
  <2>2. m \in 0..a[s + 1] - 1
    BY <1>2, <2>1
  <2>3. k \in DOMAIN f /\ f[k] = CellOf(j, s, m)
    BY <1>0, <1>3, <2>2 DEF Filled
  <2> QED
    BY <1>3, <1>5, <2>3
<1> QED
  BY <1>4, <1>5

\* Nothing is written at first.
LEMMA MulInitially == MulInit => MulInv
<1> SUFFICES ASSUME MulInit PROVE MulInv
  OBVIOUS
<1>1. PICK j \in Jobs : j = job
  BY DEF MulInit
<1>2. DOMAIN j.rows = 1..Len(j.rows) /\ Len(j.rows) \in Nat /\ Len(j.xs) \in Nat
  BY JobParts
<1>3. at = [r \in 1..Len(j.rows) |-> 0]
  BY <1>1, <1>2 DEF MulInit
<1>4. Filled(y, j, at)
  <2> SUFFICES ASSUME NEW r \in 0..Len(j.rows) - 1, NEW b \in 0..at[r + 1] - 1 PROVE FALSE
    BY DEF Filled
  <2>1. at[r + 1] = 0
    BY <1>2, <1>3
  <2> QED
    BY <2>1
<1> QED
  BY <1>1, <1>2, <1>3, <1>4 DEF MulInv

\* One step writes one row's next element, or its next four.
LEMMA MulWrites ==
    ASSUME MulInv, NEW r \in 0..rows - 1, NEW n \in Nat, NEW vs, Write(r, at[r + 1], vs, n), at[r + 1] + n <= batch,
           \A i \in 0..n - 1 : vs[i] = CellOf(job, r, at[r + 1] + i)
    PROVE  MulInv'
<1>1. PICK j \in Jobs : j = job
  BY DEF MulInv
<1>2. PICK a, f : a = at /\ f = y
  OBVIOUS
<1>3. PICK N \in Nat, M \in Nat : N = Len(j.rows) /\ M = Len(j.xs)
  BY JobParts
<1>4. r \in 0..N - 1 /\ r + 1 \in 1..N
  BY <1>1, <1>3 DEF rows
<1>5. DOMAIN a = 1..N /\ (\A i \in 1..N : a[i] \in 0..M) /\ Filled(f, j, a)
  BY <1>1, <1>2, <1>3 DEF MulInv
<1>6. PICK b : b = a[r + 1]
  OBVIOUS
<1>7. b \in Nat /\ b + n <= M
  BY <1>1, <1>2, <1>3, <1>4, <1>5, <1>6 DEF batch
<1>8. PICK cells : cells = {(b + i) * N + r : i \in 0..n - 1}
  OBVIOUS
<1>9. PICK g, c : /\ g = [k \in cells \cup DOMAIN f |-> IF k \in cells THEN vs[(k - r) \div N - b] ELSE f[k]]
                  /\ c = [a EXCEPT ![r + 1] = b + n]
  OBVIOUS
<1>10. y' = g /\ at' = c /\ job' = j
  BY <1>1, <1>2, <1>3, <1>6, <1>8, <1>9 DEF Write, rows
<1>11. \A i \in 0..n - 1 : vs[i] = CellOf(j, r, b + i)
  BY <1>1, <1>2, <1>6
<1>12. Filled(g, j, c)
  <2>1. \A i \in 1..N : a[i] \in Nat
    BY <1>5
  <2>2. WriteCase(j, f, a, g, c, r, b, n, vs, cells)
    BY <1>3, <1>4, <1>5, <1>6, <1>7, <1>8, <1>9, <1>11, <2>1 DEF WriteCase
  <2> QED
    BY <2>2, WriteFills
<1>13. DOMAIN c = 1..N /\ \A i \in 1..N : c[i] \in 0..M
  BY <1>4, <1>5, <1>7, <1>9
<1> QED
  BY <1>3, <1>10, <1>12, <1>13 DEF MulInv

\* A tile of several inputs preserves the invariant,
LEMMA MulTiles == ASSUME MulInv, NEW r \in 0..rows - 1, Tile(r) PROVE MulInv'
<1>1. PICK j \in Jobs : j = job
  BY DEF MulInv
<1>2. PICK b \in Nat : b = at[r + 1]
  <2>1. Len(j.rows) \in Nat /\ r + 1 \in 1..Len(j.rows)
    BY <1>1, JobParts DEF rows
  <2> QED
    BY <1>1, <2>1 DEF MulInv
<1>3. j.fmt \in {"Q4K", "Q6K", "Q8"} /\ j.backend \in {"avx2", "neon", "dotprod"}
  BY <1>1, JobParts DEF Tile, Tiled, fast_path
<1>4. PICK w, xs, vs : /\ w = WeightRow(j.rows[r + 1]) /\ xs = [i \in 0..3 |-> Quantized(j.fmt, j.xs[(b + i) + 1], j.unit)]
                       /\ vs = Dot4(j.fmt, j.backend, w, xs)
  OBVIOUS
<1>5. Write(r, at[r + 1], vs, 4) /\ b + 4 <= batch
  BY <1>1, <1>2, <1>4 DEF Tile, Tiled, Row, X
<1>6. ASSUME NEW i \in 0..4 - 1 PROVE vs[i] = CellOf(j, r, b + i)
  <2>1. i \in 0..3
    OBVIOUS
  <2>2. vs[i] = Dot(j.fmt, j.backend, w, xs[i])
    BY <1>3, <1>4, <2>1, LanesAreDots
  <2>3. xs[i] = Quantized(j.fmt, j.xs[(b + i) + 1], j.unit)
    BY <1>4, <2>1
  <2> QED
    BY <1>4, <2>2, <2>3 DEF CellOf
<1>7. \A i \in 0..4 - 1 : vs[i] = CellOf(job, r, at[r + 1] + i)
  BY <1>1, <1>2, <1>6
<1>8. at[r + 1] + 4 <= batch
  BY <1>2, <1>5
<1> QED
  BY <1>5, <1>7, <1>8, MulWrites

\* and so does a single input.
LEMMA MulOnes == ASSUME MulInv, NEW r \in 0..rows - 1, One(r) PROVE MulInv'
<1>1. PICK j \in Jobs : j = job
  BY DEF MulInv
<1>2. PICK b \in Nat : b = at[r + 1]
  <2>1. Len(j.rows) \in Nat /\ r + 1 \in 1..Len(j.rows)
    BY <1>1, JobParts DEF rows
  <2> QED
    BY <1>1, <2>1 DEF MulInv
<1>3. PICK vs : vs = [i \in {0} |-> Dot(j.fmt, j.backend, WeightRow(j.rows[r + 1]), Quantized(j.fmt, j.xs[b + 1], j.unit))]
  OBVIOUS
<1>4. Write(r, at[r + 1], vs, 1) /\ b < batch
  BY <1>1, <1>2, <1>3 DEF One, Row, X
<1>5. vs[0] = CellOf(j, r, b)
  BY <1>3 DEF CellOf
<1>6. \A i \in 0..1 - 1 : vs[i] = CellOf(job, r, at[r + 1] + i)
  <2> SUFFICES ASSUME NEW i \in 0..1 - 1 PROVE vs[i] = CellOf(job, r, at[r + 1] + i)
    OBVIOUS
  <2>1. i = 0 /\ b + i = b
    BY <1>2
  <2> QED
    BY <1>1, <1>2, <1>5, <2>1
<1>7. at[r + 1] + 1 <= batch
  <2>1. batch \in Nat
    BY <1>1, JobParts DEF batch
  <2> QED
    BY <1>2, <1>4, <2>1
<1> QED
  BY <1>4, <1>6, <1>7, MulWrites

\* Every step preserves it.
LEMMA MulInduction == MulInv /\ [MulNext]_mulvars => MulInv'
<1> SUFFICES ASSUME MulInv, [MulNext]_mulvars PROVE MulInv'
  OBVIOUS
<1>1. CASE MulNext
  BY <1>1, MulTiles, MulOnes DEF MulNext
<1>2. CASE UNCHANGED mulvars
  BY <1>2 DEF mulvars, MulInv, Filled, CellOf
<1> QED
  BY <1>1, <1>2

\* At the end every cell is written.
LEMMA MulFinished ==
    ASSUME MulInv, Done, NEW b \in 0..batch - 1, NEW r \in 0..rows - 1
    PROVE  y[b * rows + r] = Dot(job.fmt, job.backend, Row(r), X(b))
<1>1. PICK j \in Jobs : j = job
  BY DEF MulInv
<1>2. Len(j.rows) \in Nat /\ Len(j.xs) \in Nat
  BY JobParts
<1>3. r \in 0..Len(j.rows) - 1 /\ r + 1 \in 1..Len(j.rows) /\ b \in 0..Len(j.xs) - 1
  BY <1>1, <1>2 DEF rows, batch
<1>4. at[r + 1] = Len(j.xs)
  BY <1>1, <1>3 DEF MulInv, Done, batch
<1>5. b \in 0..at[r + 1] - 1
  BY <1>3, <1>4
<1>6. y[b * Len(j.rows) + r] = CellOf(j, r, b)
  BY <1>1, <1>3, <1>5 DEF MulInv, Filled
<1> QED
  BY <1>1, <1>6 DEF CellOf, rows, Row, X

\* A product computed in tiles by several workers, in any interleaving, is the
\* one computed row by row and input by input (BitIdentical): tile kernels share
\* the weight's unpacking only, and no two workers write the same cell, for
\* every number of rows and inputs.
THEOREM TilesAreBitIdentical == MulSpec => []BitIdentical
<1>1. MulInv => BitIdentical
  <2> SUFFICES ASSUME MulInv, Done, NEW b \in 0..batch - 1, NEW r \in 0..rows - 1
               PROVE  /\ y[b * rows + r] = Dot(job.fmt, job.backend, Row(r), X(b))
                      /\ job.backend # "avx2" => y[b * rows + r] = Dot(job.fmt, "scalar", Row(r), X(b))
    BY DEF BitIdentical
  <2>1. y[b * rows + r] = Dot(job.fmt, job.backend, Row(r), X(b))
    BY MulFinished
  <2>2. ASSUME job.backend # "avx2" PROVE Dot(job.fmt, job.backend, Row(r), X(b)) = Dot(job.fmt, "scalar", Row(r), X(b))
    <3>1. PICK j \in Jobs : j = job
      BY DEF MulInv
    <3>2. PICK s \in 1..Len(j.rows), c \in 1..Len(j.xs) : s = r + 1 /\ c = b + 1
      BY <3>1, JobParts DEF rows, batch
    <3>3. PICK w, x, fmt, backend : /\ w = WeightRow(j.rows[s]) /\ x = Quantized(j.fmt, j.xs[c], j.unit)
                                    /\ fmt = j.fmt /\ backend = j.backend
      OBVIOUS
    <3>4. Operands(fmt, w, x)
      BY <3>3, JobOperands
    <3>5. backend \in {"scalar", "neon", "dotprod"}
      BY <2>2, <3>1, <3>3, JobParts
    <3>6. Dot(fmt, backend, w, x) = Dot(fmt, "scalar", w, x)
      BY <3>4, <3>5, NeonDot
    <3> QED
      BY <3>1, <3>2, <3>3, <3>6 DEF Row, X
  <2> QED
    BY <2>1, <2>2
<1> QED
  BY <1>1, MulInitially, MulInduction, PTL DEF MulSpec

-----------------------------------------------------------------------------
(* AVX2 *)

\* Sums of sums can be taken in either order.
Matrix(a, n, m) == \A j \in 0..n - 1 : Ints(a[j], m)

\* A double sum in either order.
LEMMA SumSwaps ==
    ASSUME NEW n \in Nat, NEW m \in Nat, NEW a, Matrix(a, n, m)
    PROVE  /\ SumTo([i \in 0..m - 1 |-> SumTo([j \in 0..n - 1 |-> a[j][i]], n)], m)
                = SumTo([j \in 0..n - 1 |-> SumTo(a[j], m)], n)
           /\ Ints([i \in 0..m - 1 |-> SumTo([j \in 0..n - 1 |-> a[j][i]], n)], m)
<1> DEFINE C(i) == [j \in 0..n - 1 |-> a[j][i]]
           F(k) == [i \in 0..m - 1 |-> SumTo(C(i), k)]
           R == [j \in 0..n - 1 |-> SumTo(a[j], m)]
           S == {k \in 0..n : SumTo(F(k), m) = SumTo(R, k) /\ Ints(F(k), m)}
<1>1. 0 \in S
  <2>1. \A i \in 0..m - 1 : F(0)[i] = 0
    BY SumZero
  <2>2. PICK f : f = F(0)
    OBVIOUS
  <2>3. Ints(f, m) /\ \A i \in 0..m - 1 : f[i] = 0 * f[i]
    <3>1. \A i \in 0..m - 1 : f[i] = 0
      BY ONLY <2>1, <2>2
    <3>2. 0 = 0 * 0 /\ 0 \in Int
      OBVIOUS
    <3> QED
      BY ONLY <3>1, <3>2 DEF Ints
  <2>4. Multiple(f, 0, f, m)
    BY <2>3 DEF Multiple
  <2>5. SumTo(f, m) = 0 * SumTo(f, m) /\ SumTo(f, m) \in Int
    BY <2>4, SumScales
  <2>6. SumTo(f, m) = 0
    BY <2>5
  <2> QED
    BY <2>2, <2>3, <2>6, SumZero
<1>2. ASSUME NEW k \in 0..n - 1, k \in S PROVE k + 1 \in S
  <2>1. PICK f, g, h : f = F(k + 1) /\ g = F(k) /\ h = a[k]
    OBVIOUS
  <2>2. Ints(h, m)
    BY <2>1 DEF Matrix
  <2>3. Ints(g, m) /\ SumTo(g, m) = SumTo(R, k)
    BY <1>2, <2>1
  <2>4. ASSUME NEW i \in 0..m - 1 PROVE f[i] = g[i] + h[i]
    <3>1. f[i] = SumTo(C(i), k + 1) /\ g[i] = SumTo(C(i), k)
      BY <2>1
    <3>2. C(i)[k] = h[i]
      BY <2>1
    <3>3. PICK c : c = C(i)
      OBVIOUS
    <3>4. SumTo(c, k + 1) = SumTo(c, k) + c[k]
      BY SumNext
    <3> QED
      BY <3>1, <3>2, <3>3, <3>4
  <2>5. SumOf(f, g, h, m)
    BY <2>2, <2>3, <2>4 DEF SumOf
  <2>6. SumTo(f, m) = SumTo(g, m) + SumTo(h, m)
    BY <2>5, SumAdds
  <2>7. Ints(f, m)
    BY <2>2, <2>3, <2>4 DEF Ints
  <2>8. SumTo(R, k + 1) = SumTo(R, k) + R[k] /\ R[k] = SumTo(h, m)
    <3>1. PICK r : r = R
      OBVIOUS
    <3>2. SumTo(r, k + 1) = SumTo(r, k) + r[k]
      BY SumNext
    <3>3. R[k] = SumTo(h, m)
      BY <2>1
    <3> QED
      BY <3>1, <3>2, <3>3
  <2> QED
    BY <2>1, <2>3, <2>6, <2>7, <2>8
<1> HIDE DEF S
<1>3. n \in S
  BY <1>1, <1>2, Climb
<1> QED
  BY <1>3 DEF S

\* Pairs of products that no word overflows on.
Fits(p) == \A k \in 0..31 : p[k] \in Int /\ -16383 <= p[k] /\ p[k] <= 16383

\* w holds the sums of neighbours of p.
Pairs(w, p) == \A i \in 0..15 : w[i] = p[2 * i] + p[2 * i + 1]

\* maddubs adds neighbours, without saturating when the products are small
\* enough.
LEMMA Maddubs ==
    ASSUME NEW u, NEW s, NEW p, Products(p, u, s, 32), Fits(p)
    PROVE  Pairs(maddubs(u, s), p)
<1> SUFFICES ASSUME NEW i \in 0..15 PROVE maddubs(u, s)[i] = p[2 * i] + p[2 * i + 1]
  BY DEF Pairs
<1>1. PICK e \in 0..31, o \in 0..31 : e = 2 * i /\ o = 2 * i + 1
  OBVIOUS
<1>2. p[e] = u[e] * s[e] /\ p[o] = u[o] * s[o]
  BY DEF Products
<1>3. maddubs(u, s)[i] = Sat16(p[e] + p[o])
  BY <1>1, <1>2 DEF maddubs
<1>4. PICK a \in Int, b \in Int : a = p[e] /\ b = p[o] /\ -16383 <= a /\ a <= 16383 /\ -16383 <= b /\ b <= 16383
  BY SMTT(30) DEF Fits
<1>5. Sat16(a + b) = a + b
  BY <1>4 DEF Sat16, Clamp
<1> QED
  BY <1>1, <1>3, <1>4, <1>5

\* The eight lanes of a product with the scales s and t add up to the products
\* of the two halves.
Scales(sc, s, t) == s \in Int /\ t \in Int /\ \A i \in 0..15 : sc[i] = IF i < 8 THEN s ELSE t

\* madd scales and adds neighbours: the eight lanes add up to both halves, each
\* with its scale.
LEMMA LaneSums ==
    ASSUME NEW p, NEW w, NEW sc, NEW s, NEW t, Ints(p, 32), Pairs(w, p), Scales(sc, s, t),
           NEW v, v = madd(sc, w)
    PROVE  /\ Ints(v, 8)
           /\ SumTo(v, 8) = s * SumTo(Load(p, 0, 16), 16) + t * SumTo(Load(p, 16, 16), 16)
           /\ SumTo(Load(p, 0, 16), 16) \in Int /\ SumTo(Load(p, 16, 16), 16) \in Int
<1>1. s \in Int /\ t \in Int
  BY DEF Scales
<1>2. /\ p[0] \in Int /\ p[1] \in Int /\ p[2] \in Int /\ p[3] \in Int /\ p[4] \in Int /\ p[5] \in Int /\ p[6] \in Int /\ p[7] \in Int
      /\ p[8] \in Int /\ p[9] \in Int /\ p[10] \in Int /\ p[11] \in Int /\ p[12] \in Int /\ p[13] \in Int /\ p[14] \in Int /\ p[15] \in Int
      /\ p[16] \in Int /\ p[17] \in Int /\ p[18] \in Int /\ p[19] \in Int /\ p[20] \in Int /\ p[21] \in Int /\ p[22] \in Int /\ p[23] \in Int
      /\ p[24] \in Int /\ p[25] \in Int /\ p[26] \in Int /\ p[27] \in Int /\ p[28] \in Int /\ p[29] \in Int /\ p[30] \in Int /\ p[31] \in Int
  BY DEF Ints
<1>3. /\ w[0] = p[0] + p[1] /\ w[1] = p[2] + p[3] /\ w[2] = p[4] + p[5] /\ w[3] = p[6] + p[7]
      /\ w[4] = p[8] + p[9] /\ w[5] = p[10] + p[11] /\ w[6] = p[12] + p[13] /\ w[7] = p[14] + p[15]
      /\ w[8] = p[16] + p[17] /\ w[9] = p[18] + p[19] /\ w[10] = p[20] + p[21] /\ w[11] = p[22] + p[23]
      /\ w[12] = p[24] + p[25] /\ w[13] = p[26] + p[27] /\ w[14] = p[28] + p[29] /\ w[15] = p[30] + p[31]
  BY DEF Pairs
<1>4. /\ sc[0] = s /\ sc[1] = s /\ sc[2] = s /\ sc[3] = s /\ sc[4] = s /\ sc[5] = s /\ sc[6] = s /\ sc[7] = s
      /\ sc[8] = t /\ sc[9] = t /\ sc[10] = t /\ sc[11] = t /\ sc[12] = t /\ sc[13] = t /\ sc[14] = t /\ sc[15] = t
  BY DEF Scales
<1>5. /\ v[0] = sc[0] * w[0] + sc[1] * w[1] /\ v[1] = sc[2] * w[2] + sc[3] * w[3]
      /\ v[2] = sc[4] * w[4] + sc[5] * w[5] /\ v[3] = sc[6] * w[6] + sc[7] * w[7]
      /\ v[4] = sc[8] * w[8] + sc[9] * w[9] /\ v[5] = sc[10] * w[10] + sc[11] * w[11]
      /\ v[6] = sc[12] * w[12] + sc[13] * w[13] /\ v[7] = sc[14] * w[14] + sc[15] * w[15]
  BY DEF madd
<1>6. PICK g0, g1, g2, g3, g4, g5, g6, g7 :
                         /\ g0 = p[0] + p[1] + p[2] + p[3] /\ g1 = p[4] + p[5] + p[6] + p[7] /\ g2 = p[8] + p[9] + p[10] + p[11] /\ g3 = p[12] + p[13] + p[14] + p[15]
                         /\ g4 = p[16] + p[17] + p[18] + p[19] /\ g5 = p[20] + p[21] + p[22] + p[23] /\ g6 = p[24] + p[25] + p[26] + p[27] /\ g7 = p[28] + p[29] + p[30] + p[31]
  OBVIOUS
<1>60. /\ g0 \in Int /\ g1 \in Int /\ g2 \in Int /\ g3 \in Int /\ g4 \in Int /\ g5 \in Int /\ g6 \in Int /\ g7 \in Int
  BY <1>2, <1>6
<1>7. /\ v[0] = s * g0 /\ v[1] = s * g1 /\ v[2] = s * g2 /\ v[3] = s * g3
      /\ v[4] = t * g4 /\ v[5] = t * g5 /\ v[6] = t * g6 /\ v[7] = t * g7
  <2>1. v[0] = s * g0
    <3>1. v[0] = s * (p[0] + p[1]) + s * (p[2] + p[3])
      BY <1>3, <1>4, <1>5
    <3>2. PICK a \in Int, b \in Int : a = p[0] + p[1] /\ b = p[2] + p[3]
      BY <1>2
    <3>3. g0 = a + b /\ v[0] = s * a + s * b
      BY <1>2, <1>6, <3>1, <3>2
    <3> QED
      BY <1>1, <3>2, <3>3
  <2>2. v[1] = s * g1
    <3>1. v[1] = s * (p[4] + p[5]) + s * (p[6] + p[7])
      BY <1>3, <1>4, <1>5
    <3>2. PICK a \in Int, b \in Int : a = p[4] + p[5] /\ b = p[6] + p[7]
      BY <1>2
    <3>3. g1 = a + b /\ v[1] = s * a + s * b
      BY <1>2, <1>6, <3>1, <3>2
    <3> QED
      BY <1>1, <3>2, <3>3
  <2>3. v[2] = s * g2
    <3>1. v[2] = s * (p[8] + p[9]) + s * (p[10] + p[11])
      BY <1>3, <1>4, <1>5
    <3>2. PICK a \in Int, b \in Int : a = p[8] + p[9] /\ b = p[10] + p[11]
      BY <1>2
    <3>3. g2 = a + b /\ v[2] = s * a + s * b
      BY <1>2, <1>6, <3>1, <3>2
    <3> QED
      BY <1>1, <3>2, <3>3
  <2>4. v[3] = s * g3
    <3>1. v[3] = s * (p[12] + p[13]) + s * (p[14] + p[15])
      BY <1>3, <1>4, <1>5
    <3>2. PICK a \in Int, b \in Int : a = p[12] + p[13] /\ b = p[14] + p[15]
      BY <1>2
    <3>3. g3 = a + b /\ v[3] = s * a + s * b
      BY <1>2, <1>6, <3>1, <3>2
    <3> QED
      BY <1>1, <3>2, <3>3
  <2>5. v[4] = t * g4
    <3>1. v[4] = t * (p[16] + p[17]) + t * (p[18] + p[19])
      BY <1>3, <1>4, <1>5
    <3>2. PICK a \in Int, b \in Int : a = p[16] + p[17] /\ b = p[18] + p[19]
      BY <1>2
    <3>3. g4 = a + b /\ v[4] = t * a + t * b
      BY <1>2, <1>6, <3>1, <3>2
    <3> QED
      BY <1>1, <3>2, <3>3
  <2>6. v[5] = t * g5
    <3>1. v[5] = t * (p[20] + p[21]) + t * (p[22] + p[23])
      BY <1>3, <1>4, <1>5
    <3>2. PICK a \in Int, b \in Int : a = p[20] + p[21] /\ b = p[22] + p[23]
      BY <1>2
    <3>3. g5 = a + b /\ v[5] = t * a + t * b
      BY <1>2, <1>6, <3>1, <3>2
    <3> QED
      BY <1>1, <3>2, <3>3
  <2>7. v[6] = t * g6
    <3>1. v[6] = t * (p[24] + p[25]) + t * (p[26] + p[27])
      BY <1>3, <1>4, <1>5
    <3>2. PICK a \in Int, b \in Int : a = p[24] + p[25] /\ b = p[26] + p[27]
      BY <1>2
    <3>3. g6 = a + b /\ v[6] = t * a + t * b
      BY <1>2, <1>6, <3>1, <3>2
    <3> QED
      BY <1>1, <3>2, <3>3
  <2>8. v[7] = t * g7
    <3>1. v[7] = t * (p[28] + p[29]) + t * (p[30] + p[31])
      BY <1>3, <1>4, <1>5
    <3>2. PICK a \in Int, b \in Int : a = p[28] + p[29] /\ b = p[30] + p[31]
      BY <1>2
    <3>3. g7 = a + b /\ v[7] = t * a + t * b
      BY <1>2, <1>6, <3>1, <3>2
    <3> QED
      BY <1>1, <3>2, <3>3
  <2> QED
    BY <2>1, <2>2, <2>3, <2>4, <2>5, <2>6, <2>7, <2>8
<1>8. Ints(v, 8)
  <2>1. ASSUME NEW a \in Int, NEW b \in Int PROVE a * b \in Int
    OBVIOUS
  <2>2. /\ v[0] \in Int /\ v[1] \in Int /\ v[2] \in Int /\ v[3] \in Int /\ v[4] \in Int /\ v[5] \in Int /\ v[6] \in Int /\ v[7] \in Int
    BY <1>1, <1>60, <1>7, <2>1
  <2> QED
    BY <2>2 DEF Ints
<1>9. SumTo(v, 8) = s * g0 + s * g1 + s * g2 + s * g3 + t * g4 + t * g5 + t * g6 + t * g7
  BY <1>7, <1>8, Sum8
<1>10. PICK l, h : l = Load(p, 0, 16) /\ h = Load(p, 16, 16)
  OBVIOUS
<1>11. /\ l[0] = p[0] /\ l[1] = p[1] /\ l[2] = p[2] /\ l[3] = p[3]
      /\ l[4] = p[4] /\ l[5] = p[5] /\ l[6] = p[6] /\ l[7] = p[7]
      /\ l[8] = p[8] /\ l[9] = p[9] /\ l[10] = p[10] /\ l[11] = p[11]
      /\ l[12] = p[12] /\ l[13] = p[13] /\ l[14] = p[14] /\ l[15] = p[15]
      /\ h[0] = p[16] /\ h[1] = p[17] /\ h[2] = p[18] /\ h[3] = p[19]
      /\ h[4] = p[20] /\ h[5] = p[21] /\ h[6] = p[22] /\ h[7] = p[23]
      /\ h[8] = p[24] /\ h[9] = p[25] /\ h[10] = p[26] /\ h[11] = p[27]
      /\ h[12] = p[28] /\ h[13] = p[29] /\ h[14] = p[30] /\ h[15] = p[31]
  BY <1>10, Loaded
<1>12. Ints(l, 16) /\ Ints(h, 16)
  BY <1>10, Loaded DEF Ints
<1>13. SumTo(l, 16) = g0 + g1 + g2 + g3 /\ SumTo(h, 16) = g4 + g5 + g6 + g7
  <2>1. /\ SumTo(l, 16) = l[0] + l[1] + l[2] + l[3] + l[4] + l[5] + l[6] + l[7] + l[8] + l[9] + l[10] + l[11] + l[12] + l[13] + l[14] + l[15]
        /\ SumTo(h, 16) = h[0] + h[1] + h[2] + h[3] + h[4] + h[5] + h[6] + h[7] + h[8] + h[9] + h[10] + h[11] + h[12] + h[13] + h[14] + h[15]
    BY <1>12, Sum16
  <2> QED
    BY <1>2, <1>6, <1>11, <2>1
<1>14. /\ s * (g0 + g1 + g2 + g3) = s * g0 + s * g1 + s * g2 + s * g3
       /\ t * (g4 + g5 + g6 + g7) = t * g4 + t * g5 + t * g6 + t * g7
  BY <1>1, <1>60
<1>15. SumTo(v, 8) = s * (g0 + g1 + g2 + g3) + t * (g4 + g5 + g6 + g7)
  <2>1. PICK a, b, c, d, e, f, i, k : /\ a = s * g0 /\ b = s * g1 /\ c = s * g2 /\ d = s * g3
                                      /\ e = t * g4 /\ f = t * g5 /\ i = t * g6 /\ k = t * g7
    OBVIOUS
  <2>2. a \in Int /\ b \in Int /\ c \in Int /\ d \in Int /\ e \in Int /\ f \in Int /\ i \in Int /\ k \in Int
    BY <1>1, <1>60, <2>1
  <2>3. SumTo(v, 8) = a + b + c + d + e + f + i + k
    BY <1>9, <2>1
  <2>4. s * (g0 + g1 + g2 + g3) = a + b + c + d /\ t * (g4 + g5 + g6 + g7) = e + f + i + k
    BY <1>14, <2>1
  <2> QED
    BY <2>2, <2>3, <2>4
<1> QED
  BY <1>60, <1>8, <1>10, <1>13, <1>15

\* Thirty-two bytes.
Bytes(v) == \A i \in 0..31 : v[i] \in Int /\ 0 <= v[i] /\ v[i] <= 255

\* Shifting words moves bits of the upper byte into the lower one; the mask takes them off.
LEMMA ShiftByte4 ==
    ASSUME NEW a \in Int, 0 <= a, a <= 255, NEW b \in Int
    PROVE  (((a + 256 * b) \div 16) % 256) % 16 = a \div 16 /\ (a \div 16) % 16 = a \div 16
<1>1. (a + 256 * b) \div 16 = a \div 16 + 16 * b
  OBVIOUS
<1>2. PICK q \in Int : q = a \div 16 /\ 0 <= q /\ q <= 15
  OBVIOUS
<1>3. ((q + 16 * b) % 256) % 16 = q
  BY <1>2
<1> QED
  BY <1>1, <1>2, <1>3

\* A 16-bit shift and a mask take each byte's high nibble, the neighbour's bits
\* masked away.
LEMMA HighNibbles ==
    ASSUME NEW v, Bytes(v), NEW i \in 0..31
    PROVE  mask(srli16(v, 4), 16)[i] = v[i] \div 16
<1>0. 2^4 = 16
  OBVIOUS
<1>1. PICK a \in Int : a = v[i] /\ 0 <= a /\ a <= 255
  BY DEF Bytes
<1>2. CASE i % 2 = 0
  <2>1. i + 1 \in 0..31
    BY <1>2
  <2>2. PICK b \in Int : b = v[i + 1]
    BY <2>1 DEF Bytes
  <2>3. mask(srli16(v, 4), 16)[i] = (((a + 256 * b) \div 16) % 256) % 16
    BY <1>0, <1>1, <1>2, <2>2 DEF mask, srli16
  <2> QED
    BY <1>1, <2>2, <2>3, ShiftByte4
<1>3. CASE i % 2 # 0
  <2>1. mask(srli16(v, 4), 16)[i] = (a \div 16) % 16
    BY <1>0, <1>1, <1>3 DEF mask, srli16
  <2> QED
    BY <1>1, <2>1, ShiftByte4
<1> QED
  BY <1>2, <1>3

\* Products of small quants.
LEMMA SmallProduct ==
    ASSUME NEW u \in Int, 0 <= u, u <= 63, NEW s \in Int, -128 <= s, s <= 127
    PROVE  u * s \in Int /\ -8064 <= u * s /\ u * s <= 8001
<1>1. u * s <= u * 127 /\ u * (-128) <= u * s
  OBVIOUS
<1> QED
  BY <1>1

\* A product of 32 nibbles with their scale.
Nibbled(p, u, s) == \A k \in 0..31 : /\ u[k] \in Int /\ 0 <= u[k] /\ u[k] <= 63
                                     /\ s[k] \in Int /\ -128 <= s[k] /\ s[k] <= 127 /\ p[k] = u[k] * s[k]

\* Products of a nibble and a quant do not saturate.
LEMMA NibbledNarrow == ASSUME NEW p, NEW u, NEW s, Nibbled(p, u, s) PROVE Products(p, u, s, 32) /\ Fits(p)
<1>1. ASSUME NEW k \in 0..31 PROVE p[k] = u[k] * s[k] /\ p[k] \in Int /\ -16383 <= p[k] /\ p[k] <= 16383
  <2>1. PICK a \in Int, b \in Int : a = u[k] /\ 0 <= a /\ a <= 63 /\ b = s[k] /\ -128 <= b /\ b <= 127 /\ p[k] = a * b
    BY DEF Nibbled
  <2>2. PICK z : z = a * b
    OBVIOUS
  <2>3. z \in Int /\ -8064 <= z /\ z <= 8001
    BY <2>1, <2>2, SmallProduct
  <2> QED
    BY <2>1, <2>2, <2>3
<1> QED
  BY <1>1 DEF Products, Fits, Ints

\* Lanes of a Q4_K sub-block.
LEMMA NibbledLanes ==
    ASSUME NEW p, NEW u, NEW s, Nibbled(p, u, s), NEW c \in Int, NEW v, v = madd(set1(c, 16), maddubs(u, s))
    PROVE  Ints(v, 8) /\ SumTo(v, 8) = c * SumTo(p, 32) /\ SumTo(p, 32) \in Int
<1>1. PICK w, sc : w = maddubs(u, s) /\ sc = set1(c, 16)
  OBVIOUS
<1>2. Products(p, u, s, 32) /\ Fits(p)
  BY NibbledNarrow
<1>3. Pairs(w, p) /\ Ints(p, 32)
  BY <1>1, <1>2, Maddubs DEF Products
<1>4. Scales(sc, c, c)
  BY <1>1 DEF Scales, set1
<1>5. v = madd(sc, w)
  BY <1>1
<1>6. PICK l, h : l = SumTo(Load(p, 0, 16), 16) /\ h = SumTo(Load(p, 16, 16), 16)
  OBVIOUS
<1>7. Ints(v, 8) /\ SumTo(v, 8) = c * l + c * h /\ l \in Int /\ h \in Int
  BY <1>3, <1>4, <1>5, <1>6, LaneSums
<1>8. SumTo(p, 32) = l + h
  <2>1. Ints(p, 16 + 16) /\ Ints(p, 0 + 16)
    BY <1>3 DEF Ints
  <2>2. SumTo(p, 16 + 16) = SumTo(p, 16) + SumTo(Load(p, 16, 16), 16)
    BY <2>1, SumSplits
  <2>3. SumTo(p, 0 + 16) = SumTo(p, 0) + SumTo(Load(p, 0, 16), 16)
    BY <2>1, SumSplits
  <2> QED
    BY <1>6, <1>7, <2>2, <2>3, SumZero
<1>9. c * (l + h) = c * l + c * h
  BY <1>7
<1> QED
  BY <1>7, <1>8, <1>9

\* Scales and minima are six bits.
LEMMA ScaleMins ==
    ASSUME NEW bw \in BlockQ4K, NEW j \in 0..7
    PROVE  q4k_scale_min(bw.scales, j)[1] \in Int /\ q4k_scale_min(bw.scales, j)[2] \in Int
<1>1. CASE j < 4
  <2>1. PICK a \in Int, b \in Int : a = bw.scales[j] /\ b = bw.scales[j + 4]
    <3>1. j \in 0..11 /\ j + 4 \in 0..11
      OBVIOUS
    <3> QED
      BY <3>1, Block4Fields
  <2> QED
    BY <1>1, <2>1 DEF q4k_scale_min
<1>2. CASE ~ (j < 4)
  <2>1. PICK a \in Int, b \in Int, c \in Int : a = bw.scales[j] /\ b = bw.scales[j + 4] /\ c = bw.scales[j - 4]
    <3>1. j \in 0..11 /\ j + 4 \in 0..11 /\ j - 4 \in 0..11
      BY <1>2
    <3> QED
      BY <3>1, Block4Fields
  <2> QED
    BY <1>2, <2>1 DEF q4k_scale_min
<1> QED
  BY <1>1, <1>2

\* The terms of a Q4_K block: a scale times the sum of a sub-block.
Block4Terms(bw, bx) == [j \in 0..7 |-> q4k_scale_min(bw.scales, j)[1] * SumTo(Terms4(bw, bx, j), 32)]

\* The scaled sub-block sums are integers.
LEMMA Block4Ints ==
    ASSUME NEW bw \in BlockQ4K, NEW bx, Quants(bx, QK_K, -128)
    PROVE  Ints(Block4Terms(bw, bx), 8)
<1>1. ASSUME NEW j \in 0..7 PROVE Block4Terms(bw, bx)[j] \in Int
  <2>1. PICK a \in Int : a = q4k_scale_min(bw.scales, j)[1]
    BY ScaleMins
  <2>2. PICK f : f = Terms4(bw, bx, j)
    OBVIOUS
  <2>3. SumTo(f, 32) \in Int
    BY <2>2, Terms4Ints, SumInt
  <2> QED
    BY <2>1, <2>2, <2>3 DEF Block4Terms
<1> QED
  BY <1>1 DEF Ints

\* A register of low or of high nibbles, and the quants that go with it.
LEMMA NibbleLanes ==
    ASSUME NEW bw \in BlockQ4K, NEW bx, Quants(bx, QK_K, -128), NEW j \in 0..3, NEW hi \in 0..1,
           NEW bits, bits = Load(bw.qs, j * 32, 32),
           NEW u, u = IF hi = 0 THEN mask(bits, 16) ELSE mask(srli16(bits, 4), 16),
           NEW s, s = Load(bx.qs, j * 64 + hi * 32, 32), NEW m, m = 2 * j + hi
    PROVE  Nibbled(Terms4(bw, bx, m), u, s)
<1>1. m \in 0..7 /\ m \div 2 = j /\ m % 2 = hi /\ m * 32 = j * 64 + hi * 32
  <2>1. CASE hi = 0
    BY <2>1
  <2>2. CASE hi = 1
    BY <2>2
  <2> QED
    BY <2>1, <2>2
<1>2. ASSUME NEW k \in 0..31 PROVE bits[k] = bw.qs[j * 32 + k] /\ bits[k] \in Int /\ 0 <= bits[k] /\ bits[k] <= 255
  <2>1. PICK o \in Int : o = j * 32
    OBVIOUS
  <2>2. bits[k] = bw.qs[o + k]
    <3>1. bits = Load(bw.qs, o, 32) /\ k \in 0..32 - 1
      BY <2>1
    <3> QED
      BY <3>1, Loaded
  <2>3. PICK i \in 0..127 : i = o + k
    BY <2>1
  <2>4. bw.qs[i] \in Int /\ 0 <= bw.qs[i] /\ bw.qs[i] <= 255
    BY QsByte
  <2> QED
    BY ONLY <2>1, <2>2, <2>3, <2>4
<1>3. Bytes(bits)
  BY <1>2 DEF Bytes
<1> SUFFICES ASSUME NEW k \in 0..31
             PROVE  /\ u[k] \in Int /\ 0 <= u[k] /\ u[k] <= 63
                    /\ s[k] \in Int /\ -128 <= s[k] /\ s[k] <= 127
                    /\ Terms4(bw, bx, m)[k] = u[k] * s[k]
  BY DEF Nibbled
<1>4. u[k] = Nibble(bw, m, k)
  <2>0. PICK o : o = bw.qs[j * 32 + k]
    OBVIOUS
  <2>1. CASE hi = 0
    <3>1. u[k] = o % 16
      BY <1>2, <2>0, <2>1 DEF mask
    <3>2. Nibble(bw, m, k) = o % 16
      BY <1>1, <2>0, <2>1 DEF Nibble
    <3> QED
      BY <3>1, <3>2
  <2>2. CASE hi = 1
    <3>1. u = mask(srli16(bits, 4), 16)
      BY <2>2
    <3>2. u[k] = bits[k] \div 16
      BY <1>3, <3>1, HighNibbles
    <3>3. Nibble(bw, m, k) = o \div 16
      BY <1>1, <2>0, <2>2 DEF Nibble
    <3> QED
      BY <1>2, <2>0, <3>2, <3>3
  <2> QED
    BY <2>1, <2>2
<1>5. u[k] \in Int /\ 0 <= u[k] /\ u[k] <= 63
  <2>1. Nibble(bw, m, k) \in Int /\ 0 <= Nibble(bw, m, k) /\ Nibble(bw, m, k) <= 15
    BY <1>1, Nibbles
  <2> QED
    BY <1>4, <2>1
<1>6. s[k] = bx.qs[m * 32 + k] /\ s[k] \in Int /\ -128 <= s[k] /\ s[k] <= 127
  <2>1. PICK o : o = m * 32
    OBVIOUS
  <2>2. s[k] = bx.qs[o + k]
    <3>1. s = Load(bx.qs, o, 32) /\ k \in 0..32 - 1
      BY <1>1, <2>1
    <3> QED
      BY <3>1, Loaded
  <2>3. o + k \in 0..QK_K - 1
    BY <1>1, <2>1, Sizes
  <2> QED
    BY <2>1, <2>2, <2>3 DEF Quants
<1>7. Terms4(bw, bx, m)[k] = Nibble(bw, m, k) * bx.qs[m * 32 + k]
  BY DEF Terms4
<1> QED
  BY <1>4, <1>5, <1>6, <1>7

\* The AVX2 lanes of Q4_K add up to the scalar sum.
LEMMA Avx4 ==
    ASSUME NEW bw \in BlockQ4K, NEW bx, Quants(bx, QK_K, -128)
    PROVE  SumTo(Q4kSumi(bw, bx), 8) = SumTo(Block4Terms(bw, bx), 8)
<1> DEFINE Sc(k) == q4k_scale_min(bw.scales, k)[1]
           QBits(j) == Load(bw.qs, j * 32, 32)
           Low(j) == madd(set1(Sc(2 * j), 16), maddubs(mask(QBits(j), 16), Load(bx.qs, j * 64, 32)))
           High(j) == madd(set1(Sc(2 * j + 1), 16), maddubs(mask(srli16(QBits(j), 4), 16), Load(bx.qs, j * 64 + 32, 32)))
           Part(j) == [i \in 0..7 |-> Low(j)[i] + High(j)[i]]
           A == [j \in 0..3 |-> Part(j)]
           T == Block4Terms(bw, bx)
<1>1. Q4kSumi(bw, bx) = [i \in 0..7 |-> SumTo([j \in 0..3 |-> A[j][i]], 4)]
  BY DEF Q4kSumi
<1>2. ASSUME NEW j \in 0..3
      PROVE  Ints(A[j], 8) /\ SumTo(A[j], 8) = T[2 * j] + T[2 * j + 1]
  <2>1. PICK m \in 0..7, n \in 0..7 : m = 2 * j /\ n = 2 * j + 1
    OBVIOUS
  <2>2. PICK bits, u, v, s, t : /\ bits = QBits(j) /\ u = mask(bits, 16) /\ v = mask(srli16(bits, 4), 16)
                                /\ s = Load(bx.qs, j * 64, 32) /\ t = Load(bx.qs, j * 64 + 32, 32)
    OBVIOUS
  <2>3. PICK c \in Int, d \in Int : c = Sc(m) /\ d = Sc(n)
    BY ScaleMins
  <2>4. PICK l, h, a : l = Low(j) /\ h = High(j) /\ a = A[j]
    OBVIOUS
  <2>5. l = madd(set1(c, 16), maddubs(u, s)) /\ h = madd(set1(d, 16), maddubs(v, t))
    BY <2>1, <2>2, <2>3, <2>4
  <2>6. a = [i \in 0..7 |-> l[i] + h[i]]
    BY <2>4
  <2>7. PICK p, q : p = Terms4(bw, bx, m) /\ q = Terms4(bw, bx, n)
    OBVIOUS
  <2>8. T[m] = c * SumTo(p, 32) /\ T[n] = d * SumTo(q, 32)
    BY <2>3, <2>7 DEF Block4Terms
  <2> HIDE DEF T, A, Part, Low, High, Sc
  <2>9. Nibbled(p, u, s)
    <3>1. s = Load(bx.qs, j * 64 + 0 * 32, 32) /\ m = 2 * j + 0
      BY <2>1, <2>2
    <3>2. PICK e \in 0..1 : e = 0
      OBVIOUS
    <3>3. u = IF e = 0 THEN mask(bits, 16) ELSE mask(srli16(bits, 4), 16)
      BY <2>2, <3>2
    <3>4. s = Load(bx.qs, j * 64 + e * 32, 32) /\ m = 2 * j + e /\ bits = Load(bw.qs, j * 32, 32)
      BY <2>2, <3>1, <3>2
    <3> QED
      BY <2>7, <3>3, <3>4, NibbleLanes
  <2>10. Nibbled(q, v, t)
    <3>1. t = Load(bx.qs, j * 64 + 1 * 32, 32) /\ n = 2 * j + 1
      BY <2>1, <2>2
    <3>2. PICK e \in 0..1 : e = 1
      OBVIOUS
    <3>3. v = IF e = 0 THEN mask(bits, 16) ELSE mask(srli16(bits, 4), 16)
      BY <2>2, <3>2
    <3>4. t = Load(bx.qs, j * 64 + e * 32, 32) /\ n = 2 * j + e /\ bits = Load(bw.qs, j * 32, 32)
      BY <2>2, <3>1, <3>2
    <3> QED
      BY <2>7, <3>3, <3>4, NibbleLanes
  <2>11. Ints(l, 8) /\ SumTo(l, 8) = c * SumTo(p, 32)
    BY <2>3, <2>5, <2>9, NibbledLanes
  <2>12. Ints(h, 8) /\ SumTo(h, 8) = d * SumTo(q, 32)
    BY <2>3, <2>5, <2>10, NibbledLanes
  <2>13. SumOf(a, l, h, 8) /\ Ints(a, 8)
    BY <2>6, <2>11, <2>12 DEF SumOf, Ints
  <2>14. SumTo(a, 8) = SumTo(l, 8) + SumTo(h, 8)
    BY <2>13, SumAdds
  <2> QED
    BY <2>1, <2>4, <2>8, <2>11, <2>12, <2>13, <2>14
<1> HIDE DEF A, Part, T
<1>3. Matrix(A, 4, 8)
  BY <1>2 DEF Matrix
<1>4. PICK r : r = [j \in 0..3 |-> SumTo(A[j], 8)]
  OBVIOUS
<1>5. SumTo(Q4kSumi(bw, bx), 8) = SumTo(r, 4)
  <2>1. PICK n \in Nat, m \in Nat : n = 4 /\ m = 8
    OBVIOUS
  <2>2. Matrix(A, n, m)
    BY <1>3, <2>1
  <2>3. SumTo([i \in 0..m - 1 |-> SumTo([j \in 0..n - 1 |-> A[j][i]], n)], m) = SumTo([j \in 0..n - 1 |-> SumTo(A[j], m)], n)
    BY <2>2, SumSwaps
  <2>4. n - 1 = 3 /\ m - 1 = 7
    BY <2>1
  <2>5. SumTo([i \in 0..7 |-> SumTo([j \in 0..3 |-> A[j][i]], 4)], 8) = SumTo([j \in 0..3 |-> SumTo(A[j], 8)], 4)
    BY <2>1, <2>3, <2>4
  <2> QED
    BY <1>1, <1>4, <2>5
<1>6. Ints(T, 8)
  BY Block4Ints DEF T
<1>7. r[0] = T[0] + T[1] /\ r[1] = T[2] + T[3] /\ r[2] = T[4] + T[5] /\ r[3] = T[6] + T[7]
  <2>1. /\ SumTo(A[0], 8) = T[2 * 0] + T[2 * 0 + 1] /\ SumTo(A[1], 8) = T[2 * 1] + T[2 * 1 + 1]
        /\ SumTo(A[2], 8) = T[2 * 2] + T[2 * 2 + 1] /\ SumTo(A[3], 8) = T[2 * 3] + T[2 * 3 + 1]
    BY <1>2
  <2> QED
    BY <1>4, <2>1
<1>8. /\ T[0] \in Int /\ T[1] \in Int /\ T[2] \in Int /\ T[3] \in Int
      /\ T[4] \in Int /\ T[5] \in Int /\ T[6] \in Int /\ T[7] \in Int
  BY <1>6 DEF Ints
<1>9. r[0] \in Int /\ r[1] \in Int /\ r[2] \in Int /\ r[3] \in Int
  BY <1>7, <1>8
<1>10. Ints(r, 4)
  BY <1>9 DEF Ints
<1>11. SumTo(r, 4) = r[0] + r[1] + r[2] + r[3]
  BY <1>10, Sum4
<1>12. SumTo(T, 8) = T[0] + T[1] + T[2] + T[3] + T[4] + T[5] + T[6] + T[7]
  BY <1>6, Sum8
<1>13. SumTo(r, 4) = SumTo(T, 8)
  BY <1>7, <1>8, <1>11, <1>12
<1> QED
  BY <1>5, <1>13 DEF T

\* Two bits of every byte of a register, moved to the bottom.
ByteShift(a, b, n, e) == a \in Int /\ b \in Int /\ n \in 1..3 /\ e = 4^n

\* The low two bits of a byte after a 16-bit shift are its own.
LEMMA ShiftByte2 ==
    ASSUME NEW a, NEW b, NEW n, NEW e, ByteShift(a, b, n, e)
    PROVE  (((a + 256 * b) \div e) % 256) % 4 = (a \div e) % 4
<1> a \in Int /\ b \in Int /\ n \in 1..3 /\ e = 4^n
  BY DEF ByteShift
<1>0. 4^1 = 4 /\ 4^2 = 16 /\ 4^3 = 64
  OBVIOUS
<1>1. CASE n = 1
  <2>1. (a + 256 * b) \div 4 = a \div 4 + 64 * b
    OBVIOUS
  <2>2. PICK q \in Int : q = a \div 4
    OBVIOUS
  <2>3. ((q + 64 * b) % 256) % 4 = q % 4
    BY <2>2
  <2> QED
    BY <1>0, <1>1, <2>1, <2>2, <2>3
<1>2. CASE n = 2
  <2>1. (a + 256 * b) \div 16 = a \div 16 + 16 * b
    OBVIOUS
  <2>2. PICK q \in Int : q = a \div 16
    OBVIOUS
  <2>3. ((q + 16 * b) % 256) % 4 = q % 4
    BY <2>2
  <2> QED
    BY <1>0, <1>2, <2>1, <2>2, <2>3
<1>3. CASE n = 3
  <2>1. (a + 256 * b) \div 64 = a \div 64 + 4 * b
    OBVIOUS
  <2>2. PICK q \in Int : q = a \div 64
    OBVIOUS
  <2>3. ((q + 4 * b) % 256) % 4 = q % 4
    BY <2>2
  <2> QED
    BY <1>0, <1>3, <2>1, <2>2, <2>3
<1> QED
  BY <1>1, <1>2, <1>3

\* The n-th pair of bits of each byte of qh.
LEMMA BitPairs ==
    ASSUME NEW v, Bytes(v), NEW n \in 0..3, NEW i \in 0..31,
           NEW h, h = mask(IF n = 0 THEN v ELSE srli16(v, 2 * n), 4)
    PROVE  h[i] = (v[i] \div 4^n) % 4 /\ h[i] \in Int /\ 0 <= h[i] /\ h[i] <= 3
<1>1. PICK a \in Int : a = v[i] /\ 0 <= a /\ a <= 255
  BY DEF Bytes
<1>2. /\ 4^n = 2^(2 * n) /\ (a \div 4^n) % 4 \in Int /\ 0 <= (a \div 4^n) % 4 /\ (a \div 4^n) % 4 <= 3
  BY <1>1, SixBits
<1>3. h[i] = (a \div 4^n) % 4
  <2>1. CASE n = 0
    <3>1. 4^0 = 1
      OBVIOUS
    <3>2. h[i] = a % 4
      BY <1>1, <2>1 DEF mask
    <3>3. a \div 1 = a
      BY <1>1
    <3> QED
      BY <2>1, <3>1, <3>2, <3>3
  <2>2. CASE n # 0
    <3>0. n \in 1..3 /\ h = mask(srli16(v, 2 * n), 4)
      BY <2>2
    <3>1. PICK e : e = 2^(2 * n)
      OBVIOUS
    <3>2. srli16(v, 2 * n) = [l \in 0..31 |-> IF l % 2 = 0 THEN ((v[l] + 256 * v[l + 1]) \div e) % 256 ELSE v[l] \div e]
      BY <3>1 DEF srli16
    <3>3. CASE i % 2 = 0
      <4>1. PICK b \in Int : b = v[i + 1]
        <5>1. i + 1 \in 0..31
          BY <3>3
        <5> QED
          BY <5>1 DEF Bytes
      <4>2. h[i] = (((a + 256 * b) \div e) % 256) % 4
        BY <1>1, <3>0, <3>2, <3>3, <4>1 DEF mask
      <4>3. e = 4^n
        BY <1>2, <3>1
      <4>4. (((a + 256 * b) \div e) % 256) % 4 = (a \div e) % 4
        <5>1. ByteShift(a, b, n, e)
          BY <1>1, <3>0, <4>1, <4>3 DEF ByteShift
        <5> QED
          BY <5>1, ShiftByte2
      <4> QED
        BY <4>2, <4>3, <4>4
    <3>4. CASE i % 2 # 0
      <4>1. h[i] = (a \div e) % 4
        BY <1>1, <3>0, <3>2, <3>4 DEF mask
      <4> QED
        BY <1>2, <3>1, <4>1
    <3> QED
      BY <3>3, <3>4
  <2> QED
    BY <2>1, <2>2
<1> QED
  BY <1>1, <1>2, <1>3

\* Shifted up by four they stay in their byte.
LEMMA ShiftUp ==
    ASSUME NEW h, \A i \in 0..31 : h[i] \in Int /\ 0 <= h[i] /\ h[i] <= 3, NEW i \in 0..31
    PROVE  slli16(h, 4)[i] = 16 * h[i]
<1>0. 2^4 = 16
  OBVIOUS
<1>1. PICK a \in Int : a = h[i] /\ 0 <= a /\ a <= 3
  OBVIOUS
<1>2. CASE i % 2 = 0
  <2>1. slli16(h, 4)[i] = (a * 16) % 256
    BY <1>0, <1>1, <1>2 DEF slli16
  <2> QED
    BY <1>1, <2>1
<1>3. CASE i % 2 # 0
  <2>1. i - 1 \in 0..31
    BY <1>3
  <2>2. PICK b \in Int : b = h[i - 1] /\ 0 <= b /\ b <= 3
    BY <2>1
  <2>3. slli16(h, 4)[i] = (((b + 256 * a) * 16) \div 256) % 256
    BY <1>0, <1>1, <1>3, <2>2 DEF slli16
  <2>4. ((b + 256 * a) * 16) \div 256 = 16 * a
    BY <1>1, <2>2
  <2>5. (16 * a) % 256 = 16 * a
    BY <1>1
  <2> QED
    BY <1>1, <2>3, <2>4, <2>5
<1> QED
  BY <1>2, <1>3

\* A plane holds the quants of q6.
LEMMA PlaneQuants ==
    ASSUME NEW bw \in BlockQ6K, NEW hv \in 0..1, NEW n \in 0..3, NEW l \in 0..31
    PROVE  Q6Plane(bw, hv, n)[l] = q6(bw, hv, n, l)
<1>1. PICK o \in Int, m \in Int : o = hv * 64 + 32 * (n % 2) /\ m = hv * 32
  OBVIOUS
<1>2. PICK lo, hb : lo = Load(bw.ql, o, 32) /\ hb = Load(bw.qh, m, 32)
  OBVIOUS
<1>3. PICK h, u : h = mask(IF n = 0 THEN hb ELSE srli16(hb, 2 * n), 4) /\ u = mask(IF n < 2 THEN lo ELSE srli16(lo, 4), 16)
  OBVIOUS
<1>4. Q6Plane(bw, hv, n) = or(u, slli16(h, 4))
  BY <1>1, <1>2, <1>3 DEF Q6Plane
<1>5. ASSUME NEW k \in 0..31
      PROVE  /\ lo[k] = bw.ql[o + k] /\ lo[k] \in Int /\ 0 <= lo[k] /\ lo[k] <= 255
             /\ hb[k] = bw.qh[m + k] /\ hb[k] \in Int /\ 0 <= hb[k] /\ hb[k] <= 255
  <2>1. lo[k] = bw.ql[o + k] /\ hb[k] = bw.qh[m + k]
    <3>1. k \in 0..32 - 1
      OBVIOUS
    <3>2. Load(bw.ql, o, 32)[k] = bw.ql[o + k] /\ Load(bw.qh, m, 32)[k] = bw.qh[m + k]
      BY <3>1, Loaded
    <3> QED
      BY ONLY <1>2, <3>2
  <2>2. PICK i, t : i = o + k /\ t = m + k
    OBVIOUS
  <2>a. i \in 0..127 /\ t \in 0..63
    BY <1>1, <2>2
  <2>3. bw.ql[i] \in Int /\ 0 <= bw.ql[i] /\ bw.ql[i] <= 255 /\ bw.qh[t] \in Int /\ 0 <= bw.qh[t] /\ bw.qh[t] <= 255
    <3>1. bw.ql[i] \in Int /\ 0 <= bw.ql[i] /\ bw.ql[i] <= 255
      BY <2>a, QlByte
    <3>2. bw.qh[t] \in Int /\ 0 <= bw.qh[t] /\ bw.qh[t] <= 255
      BY <2>a, QhByte
    <3> QED
      BY ONLY <3>1, <3>2
  <2> QED
    BY ONLY <2>1, <2>2, <2>3
<1>6. Bytes(lo) /\ Bytes(hb)
  BY ONLY <1>5 DEF Bytes
<1>7. ASSUME NEW i \in 0..31 PROVE h[i] = (hb[i] \div 4^n) % 4 /\ h[i] \in Int /\ 0 <= h[i] /\ h[i] <= 3
  BY ZenonT(30), <1>3, <1>6, BitPairs
<1>8. slli16(h, 4)[l] = 16 * h[l]
  BY <1>7, ShiftUp
<1>9. u[l] = IF n < 2 THEN lo[l] % 16 ELSE lo[l] \div 16
  <2>1. CASE n < 2
    <3>1. u = mask(lo, 16)
      BY <1>3, <2>1
    <3>2. u[l] = lo[l] % 16
      BY <3>1 DEF mask
    <3> QED
      BY <2>1, <3>2
  <2>2. CASE ~ (n < 2)
    <3>1. u = mask(srli16(lo, 4), 16)
      BY <1>3, <2>2
    <3>2. u[l] = lo[l] \div 16
      BY <1>6, <3>1, HighNibbles
    <3> QED
      BY <2>2, <3>2
  <2> QED
    BY <2>1, <2>2
<1>10. Q6Plane(bw, hv, n)[l] = u[l] + 16 * h[l]
  <2>1. PICK t : t = slli16(h, 4)
    OBVIOUS
  <2>2. or(u, t)[l] = u[l] + t[l]
    BY DEF or
  <2> QED
    BY <1>4, <1>8, <2>1, <2>2
<1>11. hv * 64 + (n % 2) * 32 + l = o + l /\ hv * 32 + l = m + l
  BY <1>1
<1>12. PICK a, c : a = lo[l] /\ c = hb[l]
  OBVIOUS
<1>13. a = bw.ql[hv * 64 + (n % 2) * 32 + l] /\ c = bw.qh[hv * 32 + l]
  BY <1>5, <1>11, <1>12
<1>14. q6(bw, hv, n, l) = (IF n < 2 THEN a % 16 ELSE a \div 16) + 16 * ((c \div 4^n) % 4)
  BY <1>13 DEF q6
<1>15. h[l] = (c \div 4^n) % 4
  BY <1>7, <1>12
<1> QED
  BY <1>9, <1>10, <1>12, <1>14, <1>15

\* A product of 32 quants, less 32, computed as the difference of two products.
Centred(p, u, s) == \A k \in 0..31 : /\ u[k] \in Int /\ 0 <= u[k] /\ u[k] <= 63
                                     /\ s[k] \in Int /\ -128 <= s[k] /\ s[k] <= 127 /\ p[k] = (u[k] - 32) * s[k]

\* Subtracting 32 times the quants after the unsigned product is the signed
\* product.
LEMMA LessThirtyTwo ==
    ASSUME NEW u, NEW s, NEW p, Centred(p, u, s)
    PROVE  Ints(p, 32) /\ Pairs(sub16(maddubs(u, s), maddubs(set1(32, 32), s)), p)
<1>0. \A k \in 0..31 : /\ u[k] \in Int /\ 0 <= u[k] /\ u[k] <= 63
                       /\ s[k] \in Int /\ -128 <= s[k] /\ s[k] <= 127 /\ p[k] = (u[k] - 32) * s[k]
  BY DEF Centred
<1>1. PICK f, g, m, v, w : /\ f = [k \in 0..31 |-> u[k] * s[k]] /\ g = [k \in 0..31 |-> 32 * s[k]]
                           /\ m = set1(32, 32) /\ v = maddubs(u, s) /\ w = maddubs(m, s)
  OBVIOUS
<1>2. Nibbled(f, u, s)
  BY <1>0, <1>1 DEF Nibbled
<1>3. Nibbled(g, m, s)
  <2>1. \A k \in 0..31 : m[k] = 32
    BY <1>1 DEF set1
  <2> QED
    BY <1>0, <1>1, <2>1 DEF Nibbled
<1>4. Pairs(v, f) /\ Pairs(w, g)
  <2>1. Products(f, u, s, 32) /\ Fits(f) /\ Products(g, m, s, 32) /\ Fits(g)
    BY <1>2, <1>3, NibbledNarrow
  <2> QED
    BY <1>1, <2>1, Maddubs
<1>5. ASSUME NEW k \in 0..31
      PROVE  /\ f[k] \in Int /\ -8064 <= f[k] /\ f[k] <= 8001 /\ g[k] \in Int /\ -4096 <= g[k] /\ g[k] <= 4064
             /\ p[k] = f[k] - g[k]
  <2>0. PICK a, b : a = u[k] /\ b = s[k]
    OBVIOUS
  <2>1. a \in Int /\ b \in Int /\ 0 <= a /\ a <= 63 /\ -128 <= b /\ b <= 127 /\ p[k] = (a - 32) * b
    BY ONLY <1>0, <2>0, k \in 0..31
  <2>2. PICK z : z = a * b
    OBVIOUS
  <2>3. z \in Int /\ -8064 <= z /\ z <= 8001
    BY <2>1, <2>2, SmallProduct
  <2>4. f[k] = z /\ g[k] = 32 * b
    BY ONLY <1>1, <2>0, <2>2, k \in 0..31
  <2>5. (a - 32) * b = a * b - 32 * b
    BY ONLY <2>1
  <2> QED
    BY ONLY <2>1, <2>2, <2>3, <2>4, <2>5
<1>6. Ints(p, 32)
  BY <1>5 DEF Ints
<1>7. ASSUME NEW i \in 0..15 PROVE sub16(v, w)[i] = p[2 * i] + p[2 * i + 1]
  <2>1. PICK e \in 0..31, o \in 0..31 : e = 2 * i /\ o = 2 * i + 1
    OBVIOUS
  <2>2. v[i] = f[e] + f[o] /\ w[i] = g[e] + g[o]
    BY <1>4, <2>1 DEF Pairs
  <2>3. PICK a, b, c, d : a = f[e] /\ b = f[o] /\ c = g[e] /\ d = g[o]
    OBVIOUS
  <2>4. /\ a \in Int /\ -8064 <= a /\ a <= 8001 /\ b \in Int /\ -8064 <= b /\ b <= 8001
        /\ c \in Int /\ -4096 <= c /\ c <= 4064 /\ d \in Int /\ -4096 <= d /\ d <= 4064
        /\ p[e] = a - c /\ p[o] = b - d
    BY <1>5, <2>3
  <2>5. sub16(v, w)[i] = Wrap16((a + b) - (c + d))
    BY <2>2, <2>3 DEF sub16
  <2>6. PICK z : z = (a + b) - (c + d)
    OBVIOUS
  <2>7. z \in Int /\ -32768 <= z /\ z <= 32767 /\ z = p[e] + p[o]
    BY <2>4, <2>6
  <2>8. Wrap16(z) = z
    BY <2>7, Wrapped16
  <2> QED
    BY <2>1, <2>5, <2>6, <2>7, <2>8
<1> QED
  BY <1>1, <1>6, <1>7 DEF Pairs

\* The terms of a Q6_K block: a scale times the sum of a group.
Block6Terms(bw, bx) == [g \in 0..15 |-> bw.scales[g] * SumTo(Terms6(bw, bx, g), 16)]

\* The scaled group sums are integers.
LEMMA Block6Ints ==
    ASSUME NEW bw \in BlockQ6K, NEW bx, Quants(bx, QK_K, -128)
    PROVE  Ints(Block6Terms(bw, bx), 16)
<1>1. ASSUME NEW g \in 0..15 PROVE Block6Terms(bw, bx)[g] \in Int
  <2>1. PICK a \in Int : a = bw.scales[g]
    BY Block6Fields
  <2>2. PICK f : f = Terms6(bw, bx, g)
    OBVIOUS
  <2>3. SumTo(f, 16) \in Int
    BY <2>2, Terms6Ints, SumInt
  <2> QED
    BY <2>1, <2>2, <2>3 DEF Block6Terms
<1> QED
  BY <1>1 DEF Ints

\* The two groups of a plane.
LEMMA PlaneGroups ==
    ASSUME NEW p \in 0..7, NEW c \in 0..1, NEW g, g = 2 * p + c
    PROVE  g \in 0..15 /\ g \div 8 = p \div 4 /\ (g % 8) \div 2 = p % 4 /\ g % 2 = c
<1>1. CASE c = 0
  BY <1>1
<1>2. CASE c = 1
  BY <1>2
<1> QED
  BY <1>1, <1>2

\* Lanes of one plane of thirty-two weights of Q6_K: two groups, each with its
\* own scale.
LEMMA PlaneLanes ==
    ASSUME NEW bw \in BlockQ6K, NEW bx, Quants(bx, QK_K, -128), NEW p \in 0..7,
           NEW hv, hv = p \div 4, NEW n, n = p % 4,
           NEW q8, q8 = Load(bx.qs, hv * 128 + n * 32, 32),
           NEW sc, sc = [i \in 0..15 |-> bw.scales[hv * 8 + 2 * n + (i \div 8)]],
           NEW v, v = madd(sc, sub16(maddubs(Q6Plane(bw, hv, n), q8), maddubs(set1(32, 32), q8)))
    PROVE  Ints(v, 8) /\ SumTo(v, 8) = Block6Terms(bw, bx)[2 * p] + Block6Terms(bw, bx)[2 * p + 1]
<1>1. hv \in 0..1 /\ n \in 0..3 /\ hv * 8 + 2 * n = 2 * p
  OBVIOUS
<1>2. PICK u, f, w : u = Q6Plane(bw, hv, n) /\ f = [k \in 0..31 |-> (u[k] - 32) * q8[k]]
                     /\ w = sub16(maddubs(u, q8), maddubs(set1(32, 32), q8))
  OBVIOUS
<1>3. ASSUME NEW k \in 0..31
      PROVE  /\ u[k] = q6(bw, hv, n, k) /\ u[k] \in Int /\ 0 <= u[k] /\ u[k] <= 63
             /\ q8[k] = bx.qs[hv * 128 + n * 32 + k] /\ q8[k] \in Int /\ -128 <= q8[k] /\ q8[k] <= 127
  <2>1. PICK o \in Int : o = hv * 128 + n * 32
    BY <1>1
  <2>2. q8[k] = bx.qs[o + k]
    <3>1. q8 = Load(bx.qs, o, 32) /\ k \in 0..32 - 1
      BY <2>1
    <3> QED
      BY <3>1, Loaded
  <2>3. o + k \in 0..QK_K - 1
    BY <1>1, <2>1, Sizes
  <2>4. q8[k] \in Int /\ -128 <= q8[k] /\ q8[k] <= 127
    BY <2>2, <2>3 DEF Quants
  <2>5. u[k] = q6(bw, hv, n, k)
    BY <1>1, <1>2, PlaneQuants
  <2>6. u[k] \in Int /\ 0 <= u[k] /\ u[k] <= 63
    BY <1>1, <2>5, SixBitQuants
  <2> QED
    BY <2>1, <2>2, <2>4, <2>5, <2>6
<1>4. Ints(f, 32) /\ Pairs(w, f)
  <2>0. \A k \in 0..31 : f[k] = (u[k] - 32) * q8[k]
    BY ONLY <1>2
  <2>1. Centred(f, u, q8)
    BY ONLY ZenonT(30), <1>3, <2>0 DEF Centred
  <2>2. Ints(f, 32) /\ Pairs(sub16(maddubs(u, q8), maddubs(set1(32, 32), q8)), f)
    BY <2>1, LessThirtyTwo
  <2> QED
    BY ONLY <1>2, <2>2
<1>5. PICK g \in 0..15, h \in 0..15 : g = 2 * p /\ h = 2 * p + 1
  OBVIOUS
<1>6. PICK s \in Int, t \in Int : s = bw.scales[g] /\ t = bw.scales[h]
  BY Block6Fields
<1>7. Scales(sc, s, t)
  <2> SUFFICES ASSUME NEW i \in 0..15 PROVE sc[i] = IF i < 8 THEN s ELSE t
    BY <1>6 DEF Scales
  <2>1. CASE i < 8
    <3>1. hv * 8 + 2 * n + (i \div 8) = g
      BY <1>1, <1>5, <2>1
    <3> QED
      BY <1>6, <2>1, <3>1
  <2>2. CASE ~ (i < 8)
    <3>1. hv * 8 + 2 * n + (i \div 8) = h
      <4>1. i \div 8 = 1
        BY <2>2
      <4> QED
        BY <1>1, <1>5, <4>1
    <3> QED
      BY <1>6, <2>2, <3>1
  <2> QED
    BY <2>1, <2>2
<1>8. PICK a, b : a = SumTo(Load(f, 0, 16), 16) /\ b = SumTo(Load(f, 16, 16), 16)
  OBVIOUS
<1>9. v = madd(sc, w)
  BY <1>2
<1>10. Ints(v, 8) /\ SumTo(v, 8) = s * a + t * b
  BY <1>4, <1>7, <1>8, <1>9, LaneSums
<1>11. ASSUME NEW c \in 0..1, NEW e \in 0..15, e = 2 * p + c, NEW o \in Int, o = 16 * c
       PROVE  SumTo(Load(f, o, 16), 16) = SumTo(Terms6(bw, bx, e), 16)
  <2>1. e \div 8 = hv /\ (e % 8) \div 2 = n /\ e % 2 = c
    BY <1>11, PlaneGroups
  <2>2. PICK x, t6 : x = Load(f, o, 16) /\ t6 = Terms6(bw, bx, e)
    OBVIOUS
  <2>3. ASSUME NEW l \in 0..15 PROVE x[l] = t6[l]
    <3>1. x[l] = f[o + l] /\ o + l \in 0..31
      <4>1. l \in 0..16 - 1
        OBVIOUS
      <4>2. x[l] = f[o + l]
        BY <2>2, <4>1, Loaded
      <4> QED
        BY <1>11, <4>2
    <3>2. f[o + l] = (q6(bw, hv, n, o + l) - 32) * bx.qs[hv * 128 + n * 32 + (o + l)]
      BY ZenonT(30), <1>2, <1>3, <3>1
    <3>3. t6[l] = (q6(bw, hv, n, o + l) - 32) * bx.qs[hv * 128 + n * 32 + o + l]
      BY <1>11, <2>1, <2>2 DEF Terms6
    <3>4. hv * 128 + n * 32 + o + l = hv * 128 + n * 32 + (o + l)
      BY <1>1
    <3> QED
      BY <3>1, <3>2, <3>3, <3>4
  <2>4. Agree(x, t6, 16)
    BY <2>3 DEF Agree
  <2> QED
    BY <2>2, <2>4, SumSame
<1>12. a = SumTo(Terms6(bw, bx, g), 16)
  BY <1>5, <1>8, <1>11
<1>13. b = SumTo(Terms6(bw, bx, h), 16)
  BY <1>5, <1>8, <1>11
<1>14. Block6Terms(bw, bx)[g] = s * a /\ Block6Terms(bw, bx)[h] = t * b
  BY <1>6, <1>12, <1>13 DEF Block6Terms
<1> QED
  BY <1>5, <1>10, <1>14

\* The AVX2 lanes of Q6_K add up to the scalar sum.
LEMMA Avx6 ==
    ASSUME NEW bw \in BlockQ6K, NEW bx, Quants(bx, QK_K, -128)
    PROVE  SumTo(Q6kSumi(bw, bx), 8) = SumTo(Block6Terms(bw, bx), 16)
<1> DEFINE H(p) == p \div 4
           N(p) == p % 4
           Q(p) == Load(bx.qs, H(p) * 128 + N(p) * 32, 32)
           Sc(p) == [i \in 0..15 |-> bw.scales[H(p) * 8 + 2 * N(p) + (i \div 8)]]
           Part(p) == madd(Sc(p), sub16(maddubs(Q6Plane(bw, H(p), N(p)), Q(p)), maddubs(set1(32, 32), Q(p))))
           A == [p \in 0..7 |-> Part(p)]
           T == Block6Terms(bw, bx)
<1>1. Q6kSumi(bw, bx) = [i \in 0..7 |-> SumTo([p \in 0..7 |-> A[p][i]], 8)]
  BY DEF Q6kSumi
<1>2. ASSUME NEW p \in 0..7 PROVE Ints(A[p], 8) /\ SumTo(A[p], 8) = T[2 * p] + T[2 * p + 1]
  <2>1. PICK hv, n : hv = p \div 4 /\ n = p % 4
    OBVIOUS
  <2>2. PICK q8, sc, v : q8 = Q(p) /\ sc = Sc(p) /\ v = A[p]
    OBVIOUS
  <2>3. q8 = Load(bx.qs, hv * 128 + n * 32, 32)
    BY <2>1, <2>2
  <2>4. sc = [i \in 0..15 |-> bw.scales[hv * 8 + 2 * n + (i \div 8)]]
    BY <2>1, <2>2
  <2>5. v = madd(sc, sub16(maddubs(Q6Plane(bw, hv, n), q8), maddubs(set1(32, 32), q8)))
    BY <2>1, <2>2
  <2> HIDE DEF A, Part, Sc, Q
  <2>6. Ints(v, 8) /\ SumTo(v, 8) = Block6Terms(bw, bx)[2 * p] + Block6Terms(bw, bx)[2 * p + 1]
    BY <2>1, <2>3, <2>4, <2>5, PlaneLanes
  <2> QED
    BY <2>2, <2>6
<1> HIDE DEF A, Part, T
<1>3. Matrix(A, 8, 8)
  BY <1>2 DEF Matrix
<1>4. PICK r : r = [j \in 0..7 |-> SumTo(A[j], 8)]
  OBVIOUS
<1>5. SumTo(Q6kSumi(bw, bx), 8) = SumTo(r, 8)
  <2>1. PICK n \in Nat, m \in Nat : n = 8 /\ m = 8
    OBVIOUS
  <2>2. Matrix(A, n, m)
    BY <1>3, <2>1
  <2>3. SumTo([i \in 0..m - 1 |-> SumTo([j \in 0..n - 1 |-> A[j][i]], n)], m) = SumTo([j \in 0..n - 1 |-> SumTo(A[j], m)], n)
    BY <2>2, SumSwaps
  <2>4. n - 1 = 7 /\ m - 1 = 7
    BY <2>1
  <2>5. SumTo([i \in 0..7 |-> SumTo([j \in 0..7 |-> A[j][i]], 8)], 8) = SumTo([j \in 0..7 |-> SumTo(A[j], 8)], 8)
    BY <2>1, <2>3, <2>4
  <2> QED
    BY <1>1, <1>4, <2>5
<1>6. Ints(T, 16)
  BY Block6Ints DEF T
<1>7. /\ r[0] = T[0] + T[1] /\ r[1] = T[2] + T[3] /\ r[2] = T[4] + T[5] /\ r[3] = T[6] + T[7]
      /\ r[4] = T[8] + T[9] /\ r[5] = T[10] + T[11] /\ r[6] = T[12] + T[13] /\ r[7] = T[14] + T[15]
  <2>1. /\ SumTo(A[0], 8) = T[2 * 0] + T[2 * 0 + 1] /\ SumTo(A[1], 8) = T[2 * 1] + T[2 * 1 + 1]
        /\ SumTo(A[2], 8) = T[2 * 2] + T[2 * 2 + 1] /\ SumTo(A[3], 8) = T[2 * 3] + T[2 * 3 + 1]
        /\ SumTo(A[4], 8) = T[2 * 4] + T[2 * 4 + 1] /\ SumTo(A[5], 8) = T[2 * 5] + T[2 * 5 + 1]
        /\ SumTo(A[6], 8) = T[2 * 6] + T[2 * 6 + 1] /\ SumTo(A[7], 8) = T[2 * 7] + T[2 * 7 + 1]
    BY <1>2
  <2> QED
    BY <1>4, <2>1
<1>8. /\ T[0] \in Int /\ T[1] \in Int /\ T[2] \in Int /\ T[3] \in Int /\ T[4] \in Int /\ T[5] \in Int /\ T[6] \in Int /\ T[7] \in Int
      /\ T[8] \in Int /\ T[9] \in Int /\ T[10] \in Int /\ T[11] \in Int /\ T[12] \in Int /\ T[13] \in Int /\ T[14] \in Int /\ T[15] \in Int
  BY <1>6 DEF Ints
<1>9. /\ r[0] \in Int /\ r[1] \in Int /\ r[2] \in Int /\ r[3] \in Int /\ r[4] \in Int /\ r[5] \in Int /\ r[6] \in Int /\ r[7] \in Int
  BY <1>7, <1>8
<1>10. Ints(r, 8)
  BY <1>9 DEF Ints
<1>11. SumTo(r, 8) = r[0] + r[1] + r[2] + r[3] + r[4] + r[5] + r[6] + r[7]
  BY <1>10, Sum8
<1>12. SumTo(T, 16) = T[0] + T[1] + T[2] + T[3] + T[4] + T[5] + T[6] + T[7] + T[8] + T[9] + T[10] + T[11] + T[12] + T[13] + T[14] + T[15]
  BY <1>6, Sum16
<1>13. SumTo(r, 8) = SumTo(T, 16)
  BY <1>7, <1>8, <1>11, <1>12
<1> QED
  BY <1>5, <1>13 DEF T

\* w times x as the magnitude of w times x with the sign of w.
SignedPair(w, x, a, b) ==
    /\ w \in Int /\ -128 <= w /\ w <= 127 /\ x \in Int /\ -127 <= x /\ x <= 127
    /\ a = (IF w < 0 THEN Wrap8(-w) ELSE IF w = 0 THEN 0 ELSE w) % 256
    /\ b = (IF w < 0 THEN Wrap8(-x) ELSE IF w = 0 THEN 0 ELSE x)

\* Moving the sign from the weight to the activation keeps the product, and no
\* product saturates.
LEMMA SignedByte ==
    ASSUME NEW w, NEW x, NEW a, NEW b, SignedPair(w, x, a, b)
    PROVE  a * b = w * x /\ w * x \in Int /\ -16383 <= w * x /\ w * x <= 16383
<1> /\ w \in Int /\ -128 <= w /\ w <= 127 /\ x \in Int /\ -127 <= x /\ x <= 127
    /\ a = (IF w < 0 THEN Wrap8(-w) ELSE IF w = 0 THEN 0 ELSE w) % 256
    /\ b = (IF w < 0 THEN Wrap8(-x) ELSE IF w = 0 THEN 0 ELSE x)
  BY DEF SignedPair
<1>1. /\ a \in Int /\ 0 <= a /\ a <= 128 /\ b \in Int /\ -127 <= b /\ b <= 127
      /\ \/ w < 0 /\ a = -w /\ b = -x
         \/ w = 0 /\ a = 0 /\ b = 0
         \/ w > 0 /\ a = w /\ b = x
  <2>1. CASE w < 0
    <3>1. Wrap8(-x) = -x
      BY DEF Wrap8
    <3>2. Wrap8(-w) = IF w = -128 THEN -128 ELSE -w
      BY <2>1 DEF Wrap8
    <3>3. a = -w
      <4>1. CASE w = -128
        BY <2>1, <3>2, <4>1
      <4>2. CASE w # -128
        BY <2>1, <3>2, <4>2
      <4> QED
        BY <4>1, <4>2
    <3> QED
      BY <2>1, <3>1, <3>3
  <2>2. CASE w >= 0
    BY <2>2
  <2> QED
    BY <2>1, <2>2
<1>2. a * b = w * x
  <2>1. (-w) * (-x) = w * x /\ 0 * 0 = 0 * x
    OBVIOUS
  <2> QED
    BY <1>1, <2>1
<1>3. a * b <= a * 127 /\ a * (-127) <= a * b /\ a * b \in Int
  BY <1>1
<1>4. PICK z : z = a * b
  OBVIOUS
<1> QED
  BY <1>1, <1>2, <1>3, <1>4

\* The AVX2 lanes of Q8_0 add up to the scalar sum.
LEMMA Avx8 ==
    ASSUME NEW bw \in BlockQ8_0, NEW bx, Quants(bx, QK8_0, -127)
    PROVE  SumTo(Q8Sumi(bw.qs, bx.qs), 8) = SumTo([i \in 0..QK8_0 - 1 |-> bw.qs[i] * bx.qs[i]], QK8_0)
<1>1. PICK p, u, s, v, w, one : /\ p = [i \in 0..31 |-> bw.qs[i] * bx.qs[i]]
                                /\ u = unsigned(sign8(bw.qs, bw.qs)) /\ s = sign8(bx.qs, bw.qs)
                                /\ w = maddubs(u, s) /\ one = set1(1, 16) /\ v = madd(w, one)
  OBVIOUS
<1>2. ASSUME NEW k \in 0..31 PROVE p[k] = u[k] * s[k] /\ p[k] \in Int /\ -16383 <= p[k] /\ p[k] <= 16383
  <2>1. PICK a \in Int, b \in Int : a = bw.qs[k] /\ -128 <= a /\ a <= 127 /\ b = bx.qs[k] /\ -127 <= b /\ b <= 127
    <3>1. bw.qs[k] \in Int /\ -128 <= bw.qs[k] /\ bw.qs[k] <= 127
      BY Block8Fields
    <3>2. k \in 0..QK8_0 - 1
      BY Sizes
    <3>3. bx.qs[k] \in Int /\ -127 <= bx.qs[k] /\ bx.qs[k] <= 127
      BY <3>2 DEF Quants
    <3> QED
      BY <3>1, <3>3
  <2>2. PICK c, d : c = u[k] /\ d = s[k]
    OBVIOUS
  <2>3. c = (IF a < 0 THEN Wrap8(-a) ELSE IF a = 0 THEN 0 ELSE a) % 256
    BY <1>1, <2>1, <2>2 DEF unsigned, sign8
  <2>4. d = (IF a < 0 THEN Wrap8(-b) ELSE IF a = 0 THEN 0 ELSE b)
    BY <1>1, <2>1, <2>2 DEF sign8
  <2>5. c * d = a * b /\ a * b \in Int /\ -16383 <= a * b /\ a * b <= 16383
    <3>1. SignedPair(a, b, c, d)
      BY <2>1, <2>3, <2>4 DEF SignedPair
    <3> QED
      BY <3>1, SignedByte
  <2>6. p[k] = a * b
    BY <1>1, <2>1
  <2> QED
    BY <2>2, <2>5, <2>6
<1>3. Products(p, u, s, 32) /\ Fits(p) /\ Ints(p, 32)
  BY <1>2 DEF Products, Fits, Ints
<1>4. Pairs(w, p)
  BY <1>1, <1>3, Maddubs
<1>5. v = madd(one, w)
  <2>1. ASSUME NEW i \in 0..15 PROVE w[i] * one[i] = one[i] * w[i]
    <3>1. PICK e \in 0..31, o \in 0..31 : e = 2 * i /\ o = 2 * i + 1
      OBVIOUS
    <3>2. w[i] = p[e] + p[o] /\ p[e] \in Int /\ p[o] \in Int
      BY <1>2, <1>4, <3>1 DEF Pairs
    <3>3. w[i] \in Int /\ one[i] = 1
      BY <1>1, <3>2 DEF set1
    <3> QED
      BY <3>3
  <2>2. ASSUME NEW i \in 0..7 PROVE 2 * i \in 0..15 /\ 2 * i + 1 \in 0..15
    OBVIOUS
  <2>3. \A i \in 0..7 : /\ w[2 * i] * one[2 * i] = one[2 * i] * w[2 * i]
                        /\ w[2 * i + 1] * one[2 * i + 1] = one[2 * i + 1] * w[2 * i + 1]
    BY <2>1, <2>2
  <2> QED
    BY <1>1, <2>3 DEF madd
<1>6. Scales(one, 1, 1)
  BY <1>1 DEF Scales, set1
<1>7. PICK l, h : l = SumTo(Load(p, 0, 16), 16) /\ h = SumTo(Load(p, 16, 16), 16)
  OBVIOUS
<1>8. SumTo(v, 8) = 1 * l + 1 * h /\ l \in Int /\ h \in Int
  BY <1>3, <1>4, <1>5, <1>6, <1>7, LaneSums
<1>9. SumTo(p, 32) = l + h
  <2>1. Ints(p, 16 + 16) /\ Ints(p, 0 + 16)
    BY <1>3 DEF Ints
  <2>2. SumTo(p, 16 + 16) = SumTo(p, 16) + SumTo(Load(p, 16, 16), 16)
    BY <2>1, SumSplits
  <2>3. SumTo(p, 0 + 16) = SumTo(p, 0) + SumTo(Load(p, 0, 16), 16)
    BY <2>1, SumSplits
  <2> QED
    BY <1>7, <1>8, <2>2, <2>3, SumZero
<1>10. SumTo(v, 8) = SumTo(p, 32)
  BY <1>8, <1>9
<1>11. Q8Sumi(bw.qs, bx.qs) = v
  BY <1>1 DEF Q8Sumi
<1>12. [i \in 0..QK8_0 - 1 |-> bw.qs[i] * bx.qs[i]] = p /\ QK8_0 = 32
  BY <1>1, Sizes
<1> QED
  BY <1>10, <1>11, <1>12

-----------------------------------------------------------------------------
(* What the products stand for *)

\* Element k of sub-block j: where it is.
SubBlockAt(i, j, k) ==
    i \in 0..255 /\ i \div 64 = j \div 2 /\ (i % 64) \div 32 = j % 2 /\ i % 32 = k /\ 2 * (j \div 2) + (j % 2) = j

\* Counting through the sub-blocks gives each element its place.
LEMMA SubBlock ==
    ASSUME NEW j \in 0..7, NEW k \in 0..31, NEW i, i = j * 32 + k
    PROVE  SubBlockAt(i, j, k)
<1>1. PICK q \in 0..3, r \in 0..1 : j = 2 * q + r
  <2>1. j \div 2 \in 0..3 /\ j % 2 \in 0..1 /\ j = 2 * (j \div 2) + (j % 2)
    OBVIOUS
  <2> QED
    BY <2>1
<1>2. i = 64 * q + 32 * r + k
  BY <1>1
<1>3. j \div 2 = q /\ j % 2 = r
  BY <1>1
<1>4. i \div 64 = q /\ i % 64 = 32 * r + k
  BY <1>2
<1>5. (32 * r + k) \div 32 = r
  OBVIOUS
<1>6. i % 32 = k
  BY <1>2
<1> QED
  BY <1>1, <1>2, <1>3, <1>4, <1>5, <1>6 DEF SubBlockAt

\* The weight there.
LEMMA Weight4 ==
    ASSUME NEW bw \in BlockQ4K, NEW j \in 0..7, NEW k \in 0..31, NEW i, i = j * 32 + k
    PROVE  dequant_q4k(bw)[i] = bw.d * q4k_scale_min(bw.scales, j)[1] * Nibble(bw, j, k)
                                - bw.dmin * q4k_scale_min(bw.scales, j)[2]
<1>0. SubBlockAt(i, j, k)
  BY SubBlock
<1>1. i \in 0..255 /\ i \div 64 = j \div 2 /\ (i % 64) \div 32 = j % 2 /\ i % 32 = k /\ 2 * (j \div 2) + (j % 2) = j
  BY <1>0 DEF SubBlockAt
<1>2. i \in 0..QK_K - 1
  BY <1>1, Sizes
<1>3. dequant_q4k(bw)[i] =
        LET chunk == i \div 64
            hi    == (i % 64) \div 32
            byte  == bw.qs[chunk * 32 + (i % 32)]
            sm    == q4k_scale_min(bw.scales, 2 * chunk + hi)
        IN  bw.d * sm[1] * (IF hi = 1 THEN byte \div 16 ELSE byte % 16) - bw.dmin * sm[2]
  BY <1>2 DEF dequant_q4k
<1> QED
  BY <1>1, <1>3 DEF Nibble

\* The products of a sub-block add up to its two terms.
SubSums(f, t, x, a, b, n) ==
    a \in Int /\ b \in Int /\ Ints(t, n) /\ Ints(x, n) /\ \A k \in 0..n - 1 : f[k] = a * t[k] + b * x[k]

\* A sum of combinations is the combination of the sums.
LEMMA SumCombines ==
    ASSUME NEW f, NEW t, NEW x, NEW a, NEW b, NEW n \in Nat, SubSums(f, t, x, a, b, n)
    PROVE  /\ SumTo(f, n) = a * SumTo(t, n) + b * SumTo(x, n)
           /\ SumTo(t, n) \in Int /\ SumTo(x, n) \in Int
<1>1. PICK g, h : g = [k \in 0..n - 1 |-> a * t[k]] /\ h = [k \in 0..n - 1 |-> b * x[k]]
  OBVIOUS
<1>2. a \in Int /\ b \in Int /\ Ints(t, n) /\ Ints(x, n) /\ \A k \in 0..n - 1 : f[k] = a * t[k] + b * x[k]
  BY DEF SubSums
<1>3. Multiple(g, a, t, n) /\ Multiple(h, b, x, n)
  BY <1>1, <1>2 DEF Multiple
<1>4. SumTo(g, n) = a * SumTo(t, n) /\ SumTo(t, n) \in Int /\ SumTo(h, n) = b * SumTo(x, n) /\ SumTo(x, n) \in Int
  BY <1>3, SumScales
<1>5. SumOf(f, g, h, n)
  <2>1. ASSUME NEW k \in 0..n - 1 PROVE g[k] \in Int /\ h[k] \in Int /\ f[k] = g[k] + h[k]
    <3>1. t[k] \in Int /\ x[k] \in Int
      BY <1>2 DEF Ints
    <3>2. g[k] = a * t[k] /\ h[k] = b * x[k]
      BY <1>1
    <3>3. g[k] \in Int /\ h[k] \in Int
      BY <1>2, <3>1, <3>2
    <3> QED
      BY <1>2, <3>2, <3>3
  <2> QED
    BY <2>1 DEF SumOf, Ints
<1>6. SumTo(f, n) = SumTo(g, n) + SumTo(h, n)
  BY <1>5, SumAdds
<1> QED
  BY <1>4, <1>6

\* A term of the correction: a minimum times the sum of its quants.
MinTerms(bw, bx) == [j \in 0..7 |-> q4k_scale_min(bw.scales, j)[2] * (bx.bsums[2 * j] + bx.bsums[2 * j + 1])]

\* Two carried sums make the sum of a sub-block's quants.
LEMMA SubBlockSums ==
    ASSUME NEW bx, Quants(bx, QK_K, -128), Sums(bx), NEW j \in 0..7, NEW x, x = Load(bx.qs, j * 32, 32)
    PROVE  SumTo(x, 32) = bx.bsums[2 * j] + bx.bsums[2 * j + 1] /\ Ints(x, 32)
<1>1. PICK o \in Int, m \in 0..15, n \in 0..15 : o = j * 32 /\ m = 2 * j /\ n = 2 * j + 1
  OBVIOUS
<1>2. ASSUME NEW k \in 0..31 PROVE x[k] = bx.qs[o + k] /\ x[k] \in Int
  <2>1. x = Load(bx.qs, o, 32) /\ k \in 0..32 - 1
    BY <1>1
  <2>2. x[k] = bx.qs[o + k]
    BY <2>1, Loaded
  <2>3. o + k \in 0..QK_K - 1
    BY <1>1, Sizes
  <2> QED
    BY <2>2, <2>3 DEF Quants
<1>3. Ints(x, 32) /\ Ints(x, 16 + 16) /\ Ints(x, 0 + 16)
  BY <1>2 DEF Ints
<1>4. SumTo(x, 16 + 16) = SumTo(x, 16) + SumTo(Load(x, 16, 16), 16)
  BY <1>3, SumSplits
<1>5. PICK l, h, u, v : /\ u = Load(bx.qs, 16 * m, 16) /\ v = Load(bx.qs, 16 * n, 16)
                        /\ h = Load(x, 16, 16) /\ l = x
  OBVIOUS
<1>6. bx.bsums[m] = SumTo(u, 16) /\ bx.bsums[n] = SumTo(v, 16)
  BY <1>5 DEF Sums
<1>7. ASSUME NEW k \in 0..15 PROVE l[k] = u[k] /\ h[k] = v[k]
  <2>0. k \in 0..16 - 1 /\ k \in 0..31 /\ 16 + k \in 0..31
    OBVIOUS
  <2>1. PICK c \in Int, d \in Int : c = 16 * m /\ d = 16 * n
    OBVIOUS
  <2>2. u = Load(bx.qs, c, 16) /\ v = Load(bx.qs, d, 16)
    BY <1>5, <2>1
  <2>3. u[k] = bx.qs[c + k] /\ v[k] = bx.qs[d + k]
    BY <2>0, <2>2, Loaded
  <2>4. h[k] = x[16 + k]
    BY <1>5, <2>0, Loaded
  <2>5. x[16 + k] = bx.qs[o + (16 + k)] /\ l[k] = bx.qs[o + k]
    BY <1>2, <1>5, <2>0
  <2>6. c = o /\ o + (16 + k) = d + k
    BY <1>1, <2>1
  <2> QED
    BY <2>3, <2>4, <2>5, <2>6
<1>8. Agree(l, u, 16) /\ Agree(h, v, 16)
  BY <1>7 DEF Agree
<1>9. SumTo(l, 16) = SumTo(u, 16) /\ SumTo(h, 16) = SumTo(v, 16)
  BY <1>8, SumSame
<1>10. SumTo(x, 32) = SumTo(u, 16) + SumTo(v, 16)
  BY <1>4, <1>5, <1>9
<1> QED
  BY <1>1, <1>3, <1>6, <1>10

\* A product in its parts: the weights of the block with the activations.
Exact(f, w, x, n) == f = [k \in 0..n - 1 |-> w[k] * x.qs[k]]

\* The exact product of a dequantized Q4_K block, regrouped as the kernels
\* compute it: scaled sums less the minimums' share.
LEMMA Exact4 ==
    ASSUME NEW bw \in BlockQ4K, NEW bx, Quants(bx, QK_K, -128), Sums(bx), NEW f, Exact(f, dequant_q4k(bw), bx, QK_K)
    PROVE  /\ SumTo(f, QK_K) = bw.d * SumTo(Block4Terms(bw, bx), 8) - bw.dmin * MinSum(bw, bx)
           /\ SumTo(Block4Terms(bw, bx), 8) \in Int /\ MinSum(bw, bx) \in Int
<1>1. PICK d \in Int, e \in Int : d = bw.d /\ e = bw.dmin
  BY Block4Fields
<1>2. PICK p, T, M : p = [j \in 0..7 |-> SumTo(Load(f, j * 32, 32), 32)] /\ T = Block4Terms(bw, bx) /\ M = MinTerms(bw, bx)
  OBVIOUS
<1>3. ASSUME NEW j \in 0..7
      PROVE  /\ Ints(Load(f, j * 32, 32), 32) /\ M[j] \in Int
             /\ SumTo(Load(f, j * 32, 32), 32) = d * T[j] + (-e) * M[j]
  <2>1. PICK a \in Int, m \in Int : a = q4k_scale_min(bw.scales, j)[1] /\ m = q4k_scale_min(bw.scales, j)[2]
    BY ScaleMins
  <2>2. PICK o, g, t, x : /\ o = j * 32 /\ o \in Int /\ g = Load(f, o, 32) /\ t = Terms4(bw, bx, j) /\ x = Load(bx.qs, o, 32)
    OBVIOUS
  <2>3. Ints(t, 32)
    BY <2>2, Terms4Ints
  <2>4. SumTo(x, 32) = bx.bsums[2 * j] + bx.bsums[2 * j + 1] /\ Ints(x, 32)
    BY <2>2, SubBlockSums
  <2>5. PICK c, b : c = d * a /\ b = (-e) * m
    OBVIOUS
  <2>6. c \in Int /\ b \in Int
    BY <1>1, <2>1, <2>5
  <2>7. ASSUME NEW k \in 0..31 PROVE g[k] = c * t[k] + b * x[k]
    <3>1. PICK i : i = o + k
      OBVIOUS
    <3>2. i = j * 32 + k /\ i \in 0..QK_K - 1
      BY <2>2, <3>1, Sizes
    <3>3. g[k] = f[i] /\ x[k] = bx.qs[i]
      <4>1. k \in 0..32 - 1
        OBVIOUS
      <4>2. g = Load(f, o, 32) /\ x = Load(bx.qs, o, 32) /\ i = o + k
        BY <2>2, <3>1
      <4>3. Load(f, o, 32)[k] = f[o + k] /\ Load(bx.qs, o, 32)[k] = bx.qs[o + k]
        BY <4>1, Loaded
      <4> QED
        BY ONLY <4>2, <4>3
    <3>4. PICK n \in Int, q \in Int : n = Nibble(bw, j, k) /\ q = bx.qs[i]
      BY <3>2, Nibbles DEF Quants
    <3>5. dequant_q4k(bw)[i] = d * a * n - e * m
      BY <1>1, <2>1, <3>2, <3>4, Weight4
    <3>6. f[i] = (d * a * n - e * m) * q
      BY <3>2, <3>4, <3>5 DEF Exact
    <3>7. t[k] = n * q
      BY <2>2, <3>2, <3>4 DEF Terms4
    <3>8. (d * a * n - e * m) * q = (d * a) * (n * q) + ((-e) * m) * q
      BY ONLY d \in Int, a \in Int, n \in Int, e \in Int, m \in Int, q \in Int
    <3> QED
      BY <2>5, <3>3, <3>4, <3>6, <3>7, <3>8
  <2>8. SubSums(g, t, x, c, b, 32)
    BY <2>3, <2>4, <2>6, <2>7 DEF SubSums
  <2>9. /\ SumTo(g, 32) = c * SumTo(t, 32) + b * SumTo(x, 32)
        /\ SumTo(t, 32) \in Int /\ SumTo(x, 32) \in Int
    BY <2>8, SumCombines
  <2>10. PICK u \in Int, v \in Int : u = SumTo(t, 32) /\ v = SumTo(x, 32)
    BY <2>9
  <2>11. T[j] = a * u /\ M[j] = m * v
    BY <1>2, <2>1, <2>2, <2>4, <2>10 DEF Block4Terms, MinTerms
  <2>12. (d * a) * u = d * (a * u) /\ ((-e) * m) * v = (-e) * (m * v) /\ m * v \in Int
    BY ONLY d \in Int, a \in Int, u \in Int, e \in Int, m \in Int, v \in Int
  <2>13. SumTo(g, 32) = d * T[j] + (-e) * M[j] /\ M[j] \in Int
    BY <2>5, <2>9, <2>10, <2>11, <2>12
  <2>14. Ints(g, 32)
    <3>1. ASSUME NEW k \in 0..31 PROVE g[k] \in Int
      <4>1. PICK y1 \in Int, y2 \in Int : y1 = t[k] /\ y2 = x[k]
        BY <2>3, <2>4 DEF Ints
      <4>2. c * y1 \in Int /\ b * y2 \in Int
        BY <2>6
      <4> QED
        BY <2>7, <4>1, <4>2
    <3> QED
      BY <3>1 DEF Ints
  <2> QED
    BY <2>2, <2>13, <2>14
<1>4. Ints(f, 8 * 32)
  <2>1. ASSUME NEW k \in 0..255 PROVE f[k] \in Int
    <3>1. PICK j \in 0..7, l \in 0..31 : k = j * 32 + l
      <4>1. k \div 32 \in 0..7 /\ k % 32 \in 0..31 /\ k = (k \div 32) * 32 + (k % 32)
        OBVIOUS
      <4> QED
        BY <4>1
    <3>2. PICK o, g : o = j * 32 /\ o \in Int /\ g = Load(f, o, 32)
      OBVIOUS
    <3>3. Ints(g, 32) /\ l \in 0..32 - 1
      BY <1>3, <3>2
    <3>4. g[l] = f[o + l] /\ g[l] \in Int
      <4>1. Load(f, o, 32)[l] = f[o + l]
        BY <3>3, Loaded
      <4>2. g[l] \in Int
        BY <3>3 DEF Ints
      <4> QED
        BY ONLY <3>2, <4>1, <4>2
    <3>5. k = o + l
      BY <3>1, <3>2
    <3> QED
      BY ONLY <3>4, <3>5
  <2>2. \A k \in 0..8 * 32 - 1 : k \in 0..255
    OBVIOUS
  <2> QED
    BY ONLY <2>1, <2>2 DEF Ints
<1>5. SumTo(f, 8 * 32) = SumTo(p, 8)
  <2>1. PICK m \in Nat, n \in Nat : m = 32 /\ n = 8
    OBVIOUS
  <2>2. PartSums(p, f, m, n) /\ Ints(f, n * m)
    BY <1>2, <1>4, <2>1 DEF PartSums
  <2>3. SumTo(f, n * m) = SumTo(p, n)
    BY <2>2, SumParts
  <2> QED
    BY <2>1, <2>3
<1>6. Ints(T, 8) /\ Ints(M, 8)
  <2>1. Ints(T, 8)
    BY <1>2, Block4Ints
  <2> QED
    BY <1>3, <2>1 DEF Ints
<1>7. SubSums(p, T, M, d, -e, 8)
  BY <1>1, <1>2, <1>3, <1>6 DEF SubSums
<1>8. SumTo(p, 8) = d * SumTo(T, 8) + (-e) * SumTo(M, 8) /\ SumTo(T, 8) \in Int /\ SumTo(M, 8) \in Int
  BY <1>7, SumCombines
<1>9. PICK u \in Int, v \in Int : u = SumTo(T, 8) /\ v = SumTo(M, 8)
  BY <1>8
<1>10. d * u + (-e) * v = d * u - e * v
  BY ONLY d \in Int, e \in Int, u \in Int, v \in Int
<1>11. MinSum(bw, bx) = v
  BY <1>2, <1>9 DEF MinSum, MinTerms
<1>12. SumTo(f, QK_K) = SumTo(p, 8)
  BY <1>5, Sizes
<1> QED
  BY <1>1, <1>2, <1>8, <1>9, <1>10, <1>11, <1>12

\* Element l of group g.
GroupAt(i, g, l) ==
    /\ i \in 0..255 /\ i \div 128 = g \div 8 /\ (i % 128) \div 32 = (g % 8) \div 2
    /\ i % 32 = 16 * (g % 2) + l

\* Counting through the groups gives each element its place.
LEMMA GroupElement ==
    ASSUME NEW g \in 0..15, NEW l \in 0..15, NEW i, i = g * 16 + l
    PROVE  GroupAt(i, g, l)
<1>1. PICK a \in 0..1, b \in 0..3, c \in 0..1 : g = 8 * a + 2 * b + c
  <2>1. g \div 8 \in 0..1 /\ (g % 8) \div 2 \in 0..3 /\ g % 2 \in 0..1 /\ g = 8 * (g \div 8) + 2 * ((g % 8) \div 2) + (g % 2)
    OBVIOUS
  <2> QED
    BY <2>1
<1>2. i = 128 * a + 32 * b + 16 * c + l
  BY <1>1
<1>3. g \div 8 = a /\ g % 8 = 2 * b + c /\ (2 * b + c) \div 2 = b /\ g % 2 = c
  BY <1>1
<1>4. i \div 128 = a /\ i % 128 = 32 * b + 16 * c + l /\ i \in 0..255
  BY <1>2
<1>5. (32 * b + 16 * c + l) \div 32 = b
  OBVIOUS
<1>6. i % 32 = 16 * c + l
  BY <1>2
<1> QED
  BY <1>3, <1>4, <1>5, <1>6 DEF GroupAt

\* A dequantized weight of Q6_K, by its group.
LEMMA Weight6 ==
    ASSUME NEW bw \in BlockQ6K, NEW g \in 0..15, NEW l \in 0..15, NEW i, i = g * 16 + l
    PROVE  dequant_q6k(bw)[i] = bw.d * bw.scales[g] * (q6(bw, g \div 8, (g % 8) \div 2, 16 * (g % 2) + l) - 32)
<1>0. GroupAt(i, g, l)
  BY GroupElement
<1>1. /\ i \in 0..255 /\ i \div 128 = g \div 8 /\ (i % 128) \div 32 = (g % 8) \div 2
      /\ i % 32 = 16 * (g % 2) + l
  BY <1>0 DEF GroupAt
<1>2. i \in 0..QK_K - 1
  BY <1>1, Sizes
<1>3. PICK hv, n, k : hv = i \div 128 /\ n = (i % 128) \div 32 /\ k = i % 32
  OBVIOUS
<1>4. dequant_q6k(bw)[i] = bw.d * bw.scales[hv * 8 + (k \div 16) + 2 * n] * (q6(bw, hv, n, k) - 32)
  BY <1>2, <1>3 DEF dequant_q6k
<1>5. hv * 8 + (k \div 16) + 2 * n = g
  <2>1. (16 * (g % 2) + l) \div 16 = g % 2
    <3>1. PICK c \in 0..1 : c = g % 2
      OBVIOUS
    <3>2. (16 * c + l) \div 16 = c
      OBVIOUS
    <3> QED
      BY <3>1, <3>2
  <2>2. (g \div 8) * 8 + (g % 2) + 2 * ((g % 8) \div 2) = g
    OBVIOUS
  <2> QED
    BY <1>1, <1>3, <2>1, <2>2
<1> QED
  BY <1>1, <1>3, <1>4, <1>5

\* The exact product of a Q6_K block, regrouped.
LEMMA Exact6 ==
    ASSUME NEW bw \in BlockQ6K, NEW bx, Quants(bx, QK_K, -128), NEW f, Exact(f, dequant_q6k(bw), bx, QK_K)
    PROVE  SumTo(f, QK_K) = bw.d * SumTo(Block6Terms(bw, bx), 16) /\ SumTo(Block6Terms(bw, bx), 16) \in Int
<1>1. PICK d \in Int : d = bw.d
  BY Block6Fields
<1>2. PICK p, T : p = [g \in 0..15 |-> SumTo(Load(f, g * 16, 16), 16)] /\ T = Block6Terms(bw, bx)
  OBVIOUS
<1>3. ASSUME NEW g \in 0..15
      PROVE  Ints(Load(f, g * 16, 16), 16) /\ SumTo(Load(f, g * 16, 16), 16) = d * T[g]
  <2>1. PICK a \in Int : a = bw.scales[g]
    BY Block6Fields
  <2>2. PICK o, h, t : o = g * 16 /\ o \in Int /\ h = Load(f, o, 16) /\ t = Terms6(bw, bx, g)
    OBVIOUS
  <2>3. Ints(t, 16)
    BY <2>2, Terms6Ints
  <2>4. PICK c : c = d * a
    OBVIOUS
  <2>5. c \in Int
    BY <2>4
  <2>6. ASSUME NEW l \in 0..15 PROVE h[l] = c * t[l]
    <3>1. PICK i : i = o + l
      OBVIOUS
    <3>2. i = g * 16 + l /\ i \in 0..QK_K - 1
      <4>1. QK_K = 256
        BY Sizes
      <4>2. i = g * 16 + l
        BY ONLY <2>2, <3>1
      <4> QED
        BY ONLY g \in 0..15, l \in 0..15, <4>1, <4>2
    <3>3. h[l] = f[i]
      <4>1. l \in 0..16 - 1
        OBVIOUS
      <4>2. Load(f, o, 16)[l] = f[o + l]
        BY <4>1, Loaded
      <4> QED
        BY ONLY <2>2, <3>1, <4>2
    <3>4. PICK hv \in 0..1, n \in 0..3, k \in 0..31 : hv = g \div 8 /\ n = (g % 8) \div 2 /\ k = 16 * (g % 2) + l
      OBVIOUS
    <3>5. PICK w \in Int, q \in Int : w = q6(bw, hv, n, k) - 32 /\ q = bx.qs[i]
      <4>1. q6(bw, hv, n, k) \in Int
        BY SixBitQuants
      <4>2. bx.qs[i] \in Int
        BY <3>2 DEF Quants
      <4>3. \A v \in Int : v - 32 \in Int
        OBVIOUS
      <4> QED
        BY ONLY <4>1, <4>2, <4>3
    <3>6. dequant_q6k(bw)[i] = d * a * w
      <4>1. dequant_q6k(bw)[i] = bw.d * bw.scales[g] * (q6(bw, g \div 8, (g % 8) \div 2, 16 * (g % 2) + l) - 32)
        BY <3>2, Weight6
      <4> QED
        BY ONLY <1>1, <2>1, <3>4, <3>5, <4>1
    <3>7. f[i] = (d * a * w) * q
      BY <3>2, <3>5, <3>6 DEF Exact
    <3>8. (g \div 8) * 128 + ((g % 8) \div 2) * 32 + 16 * (g % 2) + l = g * 16 + l
      OBVIOUS
    <3>9. t[l] = w * q
      BY <2>2, <3>2, <3>4, <3>5, <3>8 DEF Terms6
    <3>10. (d * a * w) * q = (d * a) * (w * q)
      BY ONLY d \in Int, a \in Int, w \in Int, q \in Int
    <3> QED
      BY <2>4, <3>3, <3>7, <3>9, <3>10
  <2>7. Multiple(h, c, t, 16)
    BY <2>3, <2>5, <2>6 DEF Multiple
  <2>8. SumTo(h, 16) = c * SumTo(t, 16) /\ SumTo(t, 16) \in Int
    BY <2>7, SumScales
  <2>9. PICK u \in Int : u = SumTo(t, 16)
    BY <2>8
  <2>10. T[g] = a * u
    BY <1>2, <2>1, <2>2, <2>9 DEF Block6Terms
  <2>11. (d * a) * u = d * (a * u)
    BY ONLY d \in Int, a \in Int, u \in Int
  <2>12. Ints(h, 16)
    <3>1. ASSUME NEW k \in 0..15 PROVE h[k] \in Int
      <4>1. PICK s \in Int : s = t[k]
        BY <2>3 DEF Ints
      <4> QED
        BY <2>5, <2>6, <4>1
    <3> QED
      BY <3>1 DEF Ints
  <2> QED
    BY <2>2, <2>4, <2>8, <2>9, <2>10, <2>11, <2>12
<1>4. Ints(f, 16 * 16)
  <2>1. ASSUME NEW k \in 0..255 PROVE f[k] \in Int
    <3>1. PICK g \in 0..15, l \in 0..15 : k = g * 16 + l
      <4>1. k \div 16 \in 0..15 /\ k % 16 \in 0..15 /\ k = (k \div 16) * 16 + (k % 16)
        OBVIOUS
      <4> QED
        BY <4>1
    <3>2. PICK o, h : o = g * 16 /\ o \in Int /\ h = Load(f, o, 16)
      OBVIOUS
    <3>3. Ints(h, 16) /\ l \in 0..16 - 1
      BY <1>3, <3>2
    <3>4. h[l] = f[o + l] /\ h[l] \in Int
      <4>1. Load(f, o, 16)[l] = f[o + l]
        BY <3>3, Loaded
      <4>2. h[l] \in Int
        BY <3>3 DEF Ints
      <4> QED
        BY ONLY <3>2, <4>1, <4>2
    <3>5. k = o + l
      BY <3>1, <3>2
    <3> QED
      BY ONLY <3>4, <3>5
  <2>2. \A k \in 0..16 * 16 - 1 : k \in 0..255
    OBVIOUS
  <2> QED
    BY ONLY <2>1, <2>2 DEF Ints
<1>5. SumTo(f, 16 * 16) = SumTo(p, 16)
  <2>1. PICK m \in Nat, n \in Nat : m = 16 /\ n = 16
    OBVIOUS
  <2>2. PartSums(p, f, m, n) /\ Ints(f, n * m)
    BY <1>2, <1>4, <2>1 DEF PartSums
  <2>3. SumTo(f, n * m) = SumTo(p, n)
    BY <2>2, SumParts
  <2> QED
    BY <2>1, <2>3
<1>6. Multiple(p, d, T, 16)
  <2>1. Ints(T, 16)
    BY <1>2, Block6Ints
  <2> QED
    BY <1>2, <1>3, <2>1 DEF Multiple
<1>7. SumTo(p, 16) = d * SumTo(T, 16) /\ SumTo(T, 16) \in Int
  BY <1>6, SumScales
<1>8. SumTo(f, QK_K) = SumTo(p, 16)
  BY <1>5, Sizes
<1> QED
  BY <1>1, <1>2, <1>7, <1>8

\* The exact product of a Q8_0 block, regrouped.
LEMMA Exact8 ==
    ASSUME NEW bw \in BlockQ8_0, NEW bx, Quants(bx, QK8_0, -127), NEW f, Exact(f, dequantize(bw), bx, QK8_0),
           NEW p, p = [i \in 0..QK8_0 - 1 |-> bw.qs[i] * bx.qs[i]]
    PROVE  SumTo(f, QK8_0) = bw.d * SumTo(p, QK8_0)
<1>1. PICK d \in Int : d = bw.d
  BY Block8Fields
<1>2. QK8_0 = 32
  BY Sizes
<1>3. ASSUME NEW k \in 0..31 PROVE p[k] \in Int /\ f[k] = d * p[k]
  <2>0. k \in 0..QK8_0 - 1
    BY <1>2
  <2>1. PICK a \in Int, b \in Int : a = bw.qs[k] /\ b = bx.qs[k]
    BY <2>0, Block8Fields DEF Quants
  <2>2. p[k] = a * b
    BY <2>0, <2>1
  <2>3. f[k] = (a * d) * b
    BY <1>1, <2>0, <2>1 DEF Exact, dequantize
  <2>4. (a * d) * b = d * (a * b) /\ a * b \in Int
    BY ONLY a \in Int, b \in Int, d \in Int
  <2> QED
    BY <2>2, <2>3, <2>4
<1>4. Multiple(f, d, p, 32)
  <2>1. Ints(p, 32)
    BY ONLY <1>3 DEF Ints
  <2>2. \A k \in 0..32 - 1 : f[k] = d * p[k]
    BY ONLY <1>3
  <2> QED
    BY <1>1, <2>1, <2>2 DEF Multiple
<1>5. SumTo(f, 32) = d * SumTo(p, 32)
  BY <1>4, SumScales
<1> QED
  BY <1>1, <1>2, <1>5

-----------------------------------------------------------------------------
(* The value of a block result *)

\* What the scalar Q4_K kernel returns,
LEMMA ScalarValue4 ==
    ASSUME NEW bw \in BlockQ4K, NEW bx, NEW v, v = Q4kScalar(bw, bx)
    PROVE  v.d[2] = bx.d /\ Value(v) = bw.d * SumTo(Block4Terms(bw, bx), 8) - bw.dmin * MinSum(bw, bx)
<1>1. PICK q : q = [j \in 0..7 |-> <<q4k_scale_min(bw.scales, j)[1], SumTo(Terms4(bw, bx, j), 32)>>]
  OBVIOUS
<1>2. v = [d |-> <<bw.d, bx.d>>, q |-> q, dmin |-> <<bw.dmin, bx.d>>, m |-> MinSum(bw, bx)]
  BY <1>1 DEF Q4kScalar, Terms4, Nibble
<1>3. DOMAIN v = {"d", "q", "dmin", "m"} /\ v.d = <<bw.d, bx.d>> /\ v.q = q /\ v.dmin = <<bw.dmin, bx.d>> /\ v.m = MinSum(bw, bx)
  BY <1>2
<1>4. "sumi" \notin DOMAIN v /\ "acc" \notin DOMAIN v /\ "m" \in DOMAIN v
  BY <1>3
<1>5. [j \in 0..7 |-> q[j][1] * q[j][2]] = Block4Terms(bw, bx)
  BY <1>1 DEF Block4Terms
<1>6. Value(v) = v.d[1] * SumTo([j \in 0..8 - 1 |-> v.q[j][1] * v.q[j][2]], 8) - v.dmin[1] * v.m
  BY <1>4 DEF Value
<1>7. Value(v) = v.d[1] * SumTo([j \in 0..7 |-> q[j][1] * q[j][2]], 8) - v.dmin[1] * v.m
  <2>1. 8 - 1 = 7
    OBVIOUS
  <2> QED
    BY <1>3, <1>6, <2>1
<1> QED
  BY <1>3, <1>5, <1>7

\* and what the AVX2 one does.
LEMMA AvxValue4 ==
    ASSUME NEW bw \in BlockQ4K, NEW bx, Quants(bx, QK_K, -128), NEW v, v = Q4kAvx2(bw, bx)
    PROVE  v.d[2] = bx.d /\ Value(v) = bw.d * SumTo(Block4Terms(bw, bx), 8) - bw.dmin * MinSum(bw, bx)
<1>1. PICK s : s = Q4kSumi(bw, bx)
  OBVIOUS
<1>2. v = [d |-> <<bw.d, bx.d>>, sumi |-> s, dmin |-> <<bw.dmin, bx.d>>, m |-> MinSum(bw, bx)]
  BY <1>1 DEF Q4kAvx2
<1>3. DOMAIN v = {"d", "sumi", "dmin", "m"} /\ v.d = <<bw.d, bx.d>> /\ v.sumi = s /\ v.dmin = <<bw.dmin, bx.d>> /\ v.m = MinSum(bw, bx)
  BY <1>2
<1>4. "sumi" \in DOMAIN v /\ "m" \in DOMAIN v
  BY <1>3
<1>5. Value(v) = v.d[1] * SumTo(v.sumi, 8) - v.dmin[1] * v.m
  BY <1>4 DEF Value
<1>6. SumTo(s, 8) = SumTo(Block4Terms(bw, bx), 8)
  BY <1>1, Avx4
<1> QED
  BY <1>3, <1>5, <1>6

\* What the scalar Q6_K kernel returns,
LEMMA ScalarValue6 ==
    ASSUME NEW bw \in BlockQ6K, NEW bx, Quants(bx, QK_K, -128), NEW v, v = Q6kScalar(bw, bx)
    PROVE  v.d[2] = bx.d /\ Value(v) = bw.d * SumTo(Block6Terms(bw, bx), 16)
<1>1. PICK q : q = [g \in 0..15 |-> <<bw.scales[g], SumTo(Terms6(bw, bx, g), 16)>>]
  OBVIOUS
<1>2. v = [d |-> <<bw.d, bx.d>>, q |-> q]
  BY <1>1 DEF Q6kScalar, Terms6
<1>3. DOMAIN v = {"d", "q"} /\ v.d = <<bw.d, bx.d>> /\ v.q = q
  BY <1>2
<1>4. "sumi" \notin DOMAIN v /\ "acc" \notin DOMAIN v /\ "m" \notin DOMAIN v
  BY <1>3
<1>5. [g \in 0..15 |-> q[g][1] * q[g][2]] = Block6Terms(bw, bx)
  BY <1>1 DEF Block6Terms
<1>6. Value(v) = v.d[1] * SumTo([j \in 0..16 - 1 |-> v.q[j][1] * v.q[j][2]], 16) - 0
  BY <1>4 DEF Value
<1>7. [j \in 0..16 - 1 |-> v.q[j][1] * v.q[j][2]] = Block6Terms(bw, bx)
  <2>1. 16 - 1 = 15
    OBVIOUS
  <2> QED
    BY <1>3, <1>5, <2>1
<1>8. PICK d \in Int, u \in Int : d = bw.d /\ u = SumTo(Block6Terms(bw, bx), 16)
  <2>1. PICK T : T = Block6Terms(bw, bx)
    OBVIOUS
  <2>2. SumTo(T, 16) \in Int
    BY <2>1, Block6Ints, SumInt
  <2> QED
    BY <2>1, <2>2, Block6Fields
<1>9. d * u - 0 = d * u
  BY ONLY d \in Int, u \in Int
<1> QED
  BY <1>3, <1>6, <1>7, <1>8, <1>9

\* and what the AVX2 one does.
LEMMA AvxValue6 ==
    ASSUME NEW bw \in BlockQ6K, NEW bx, Quants(bx, QK_K, -128), NEW v, v = Q6kAvx2(bw, bx)
    PROVE  v.d[2] = bx.d /\ Value(v) = bw.d * SumTo(Block6Terms(bw, bx), 16)
<1>1. PICK s : s = Q6kSumi(bw, bx)
  OBVIOUS
<1>2. v = [d |-> <<bw.d, bx.d>>, sumi |-> s]
  BY <1>1 DEF Q6kAvx2
<1>3. DOMAIN v = {"d", "sumi"} /\ v.d = <<bw.d, bx.d>> /\ v.sumi = s
  BY <1>2
<1>4. "sumi" \in DOMAIN v /\ "m" \notin DOMAIN v
  BY <1>3
<1>5. Value(v) = v.d[1] * SumTo(v.sumi, 8) - 0
  BY <1>4 DEF Value
<1>6. SumTo(s, 8) = SumTo(Block6Terms(bw, bx), 16)
  BY <1>1, Avx6
<1>7. PICK d \in Int, u \in Int : d = bw.d /\ u = SumTo(Block6Terms(bw, bx), 16)
  <2>1. PICK T : T = Block6Terms(bw, bx)
    OBVIOUS
  <2>2. SumTo(T, 16) \in Int
    BY <2>1, Block6Ints, SumInt
  <2> QED
    BY <2>1, <2>2, Block6Fields
<1>8. d * u - 0 = d * u
  BY ONLY d \in Int, u \in Int
<1> QED
  BY <1>3, <1>5, <1>6, <1>7, <1>8

\* What both Q8_0 kernels return.
LEMMA Value8 ==
    ASSUME NEW bw \in BlockQ8_0, NEW bx, Quants(bx, QK8_0, -127), NEW v, v = Q8Scalar(bw, bx) \/ v = Q8Avx2(bw, bx),
           NEW p, p = [i \in 0..QK8_0 - 1 |-> bw.qs[i] * bx.qs[i]]
    PROVE  v.d[2] = bx.d /\ Value(v) = bw.d * SumTo(p, QK8_0)
<1>1. PICK d \in Int : d = bw.d
  BY Block8Fields
<1>2. PICK u \in Int : u = SumTo(p, QK8_0)
  <2>1. QK8_0 = 32
    BY Sizes
  <2>2. ASSUME NEW k \in 0..31 PROVE p[k] \in Int
    <3>1. bw.qs[k] \in Int
      BY Block8Fields
    <3>2. bx.qs[k] \in Int
      BY <2>1 DEF Quants
    <3>3. p[k] = bw.qs[k] * bx.qs[k]
      BY <2>1
    <3>4. PICK a \in Int, b \in Int : a = bw.qs[k] /\ b = bx.qs[k]
      BY ONLY <3>1, <3>2
    <3> QED
      BY ONLY <3>3, <3>4
  <2>3. SumTo(p, 32) \in Int
    <3>1. Ints(p, 32)
      BY ONLY <2>2 DEF Ints
    <3> QED
      BY <3>1, SumInt
  <2> QED
    BY <2>1, <2>3
<1>3. d * u - 0 = d * u
  BY ONLY d \in Int, u \in Int
<1>4. CASE v = Q8Scalar(bw, bx)
  <2>1. v = [acc |-> u, d |-> <<bw.d, bx.d>>]
    BY <1>2, <1>4 DEF Q8Scalar
  <2>2. DOMAIN v = {"acc", "d"} /\ v.d = <<bw.d, bx.d>> /\ v.acc = u
    BY <2>1
  <2>3. "sumi" \notin DOMAIN v /\ "acc" \in DOMAIN v /\ "m" \notin DOMAIN v
    BY <2>2
  <2>4. Value(v) = v.d[1] * v.acc - 0
    BY <2>3 DEF Value
  <2> QED
    BY <1>1, <1>2, <1>3, <2>2, <2>4
<1>5. CASE v = Q8Avx2(bw, bx)
  <2>0. PICK s : s = Q8Sumi(bw.qs, bx.qs)
    OBVIOUS
  <2>1. v = [d |-> <<bw.d, bx.d>>, sumi |-> s]
    BY <1>5, <2>0 DEF Q8Avx2
  <2>2. DOMAIN v = {"sumi", "d"} /\ v.d = <<bw.d, bx.d>> /\ v.sumi = s
    BY <2>1
  <2>3. "sumi" \in DOMAIN v /\ "m" \notin DOMAIN v
    BY <2>2
  <2>4. Value(v) = v.d[1] * SumTo(v.sumi, 8) - 0
    BY <2>3 DEF Value
  <2>5. SumTo(s, 8) = u
    BY <1>2, <2>0, Avx8
  <2> QED
    BY <1>1, <1>2, <1>3, <2>2, <2>4, <2>5
<1> QED
  BY <1>4, <1>5

\* A block of the product, on each backend.
BlockExact(fmt, v, bw, bx) ==
    LET n == IF fmt = "Q8" THEN QK8_0 ELSE QK_K
        w == Weights(fmt, bw)
    IN  v.d[2] = bx.d /\ Value(v) = SumTo([k \in 0..n - 1 |-> w[k] * bx.qs[k]], n)

\* A dot product is exact on the scalar and on the AVX2 backend.
LEMMA DotExact ==
    ASSUME NEW fmt, NEW w, NEW x, Operands(fmt, w, x), NEW backend \in {"scalar", "avx2"}, NEW i \in DOMAIN w
    PROVE  BlockExact(fmt, Dot(fmt, backend, w, x)[i], w[i], x[i])
<1>1. PICK bw, bx, v : bw = w[i] /\ bx = x[i] /\ v = Dot(fmt, backend, w, x)[i]
  OBVIOUS
<1>2. CASE fmt = "Q4K"
  <2>1. bw \in BlockQ4K /\ Quants(bx, QK_K, -128) /\ Sums(bx)
    BY <1>1, <1>2 DEF Operands, ActOf, BlocksOf
  <2>2. PICK f : f = [k \in 0..QK_K - 1 |-> dequant_q4k(bw)[k] * bx.qs[k]]
    OBVIOUS
  <2>3. SumTo(f, QK_K) = bw.d * SumTo(Block4Terms(bw, bx), 8) - bw.dmin * MinSum(bw, bx)
    <3>1. Exact(f, dequant_q4k(bw), bx, QK_K)
      BY <2>2 DEF Exact
    <3> QED
      BY <2>1, <3>1, Exact4
  <2>4. v = Q4kScalar(bw, bx) \/ v = Q4kAvx2(bw, bx)
    <3>1. CASE backend = "scalar"
      BY <1>1, <1>2, <3>1 DEF Dot, dot_q4k_scalar, Blocks
    <3>2. CASE backend = "avx2"
      BY <1>1, <1>2, <3>2 DEF Dot, dot_q4k_avx2, Blocks
    <3> QED
      BY <3>1, <3>2
  <2>5. v.d[2] = bx.d /\ Value(v) = bw.d * SumTo(Block4Terms(bw, bx), 8) - bw.dmin * MinSum(bw, bx)
    BY <2>1, <2>4, ScalarValue4, AvxValue4
  <2>6. v.d[2] = bx.d /\ Value(v) = SumTo(f, QK_K)
    BY <2>3, <2>5
  <2> QED
    BY <1>1, <1>2, <2>2, <2>6 DEF BlockExact, Weights
<1>3. CASE fmt = "Q6K"
  <2>1. bw \in BlockQ6K /\ Quants(bx, QK_K, -128)
    BY <1>1, <1>3 DEF Operands, ActOf, BlocksOf
  <2>2. PICK f : f = [k \in 0..QK_K - 1 |-> dequant_q6k(bw)[k] * bx.qs[k]]
    OBVIOUS
  <2>3. SumTo(f, QK_K) = bw.d * SumTo(Block6Terms(bw, bx), 16)
    <3>1. Exact(f, dequant_q6k(bw), bx, QK_K)
      BY <2>2 DEF Exact
    <3> QED
      BY <2>1, <3>1, Exact6
  <2>4. v = Q6kScalar(bw, bx) \/ v = Q6kAvx2(bw, bx)
    <3>1. CASE backend = "scalar"
      BY <1>1, <1>3, <3>1 DEF Dot, dot_q6k_scalar, Blocks
    <3>2. CASE backend = "avx2"
      BY <1>1, <1>3, <3>2 DEF Dot, dot_q6k_avx2, Blocks
    <3> QED
      BY <3>1, <3>2
  <2>5. v.d[2] = bx.d /\ Value(v) = bw.d * SumTo(Block6Terms(bw, bx), 16)
    BY <2>1, <2>4, ScalarValue6, AvxValue6
  <2>6. v.d[2] = bx.d /\ Value(v) = SumTo(f, QK_K)
    BY <2>3, <2>5
  <2> QED
    BY <1>1, <1>3, <2>2, <2>6 DEF BlockExact, Weights
<1>4. CASE fmt = "Q8"
  <2>1. bw \in BlockQ8_0 /\ Quants(bx, QK8_0, -127)
    BY <1>1, <1>4 DEF Operands, ActOf, BlocksOf
  <2>2. PICK f, p : /\ f = [k \in 0..QK8_0 - 1 |-> dequantize(bw)[k] * bx.qs[k]]
                    /\ p = [k \in 0..QK8_0 - 1 |-> bw.qs[k] * bx.qs[k]]
    OBVIOUS
  <2>3. SumTo(f, QK8_0) = bw.d * SumTo(p, QK8_0)
    <3>1. Exact(f, dequantize(bw), bx, QK8_0)
      BY <2>2 DEF Exact
    <3> QED
      BY <2>1, <2>2, <3>1, Exact8
  <2>4. v = Q8Scalar(bw, bx) \/ v = Q8Avx2(bw, bx)
    <3>1. CASE backend = "scalar"
      BY <1>1, <1>4, <3>1 DEF Dot, dot_q8_scalar, Blocks
    <3>2. CASE backend = "avx2"
      BY <1>1, <1>4, <3>2 DEF Dot, dot_q8_avx2, Blocks
    <3> QED
      BY <3>1, <3>2
  <2>5. v.d[2] = bx.d /\ Value(v) = bw.d * SumTo(p, QK8_0)
    BY <2>1, <2>2, <2>4, Value8
  <2>6. v.d[2] = bx.d /\ Value(v) = SumTo(f, QK8_0)
    BY <2>3, <2>5
  <2> QED
    BY <1>1, <1>4, <2>2, <2>6 DEF BlockExact, Weights
<1> QED
  BY <1>2, <1>3, <1>4 DEF Operands

\* On every backend each block's contribution to a dot product is the exact
\* integer product of the dequantized weights and the quantized activations
\* (ProductExact), for every block of weights: no lane saturates, no accumulator
\* drops a term, no scale meets the wrong sub-block.
THEOREM ProductsAreExact == MulSpec => []ProductExact
<1>1. MulInv => ProductExact
  <2> SUFFICES ASSUME MulInv, Done, NEW b \in 0..batch - 1, NEW r \in 0..rows - 1, NEW i \in DOMAIN Row(r)
               PROVE  BlockExact(job.fmt, y[b * rows + r][i], Row(r)[i], X(b)[i])
    BY DEF ProductExact, BlockExact
  <2>1. y[b * rows + r] = Dot(job.fmt, job.backend, Row(r), X(b))
    BY MulFinished
  <2>2. PICK j \in Jobs : j = job
    BY DEF MulInv
  <2>3. PICK s \in 1..Len(j.rows), c \in 1..Len(j.xs) : s = r + 1 /\ c = b + 1
    BY <2>2, JobParts DEF rows, batch
  <2>4. PICK w, x, fmt, backend : /\ w = WeightRow(j.rows[s]) /\ x = Quantized(j.fmt, j.xs[c], j.unit)
                                  /\ fmt = j.fmt /\ backend = j.backend
    OBVIOUS
  <2>5. Operands(fmt, w, x)
    BY <2>4, JobOperands
  <2>6. backend \in {"scalar", "avx2", "neon", "dotprod"}
    BY <2>4, JobParts
  <2>7. w = Row(r) /\ x = X(b)
    BY <2>2, <2>3, <2>4 DEF Row, X
  <2>8. PICK k \in {"scalar", "avx2"} : Dot(fmt, backend, w, x) = Dot(fmt, k, w, x)
    <3>1. CASE backend \in {"neon", "dotprod"}
      BY <2>5, <3>1, NeonDot
    <3>2. CASE backend \in {"scalar", "avx2"}
      BY <3>2
    <3> QED
      BY <2>6, <3>1, <3>2
  <2>9. i \in DOMAIN w
    BY <2>7
  <2>10. BlockExact(fmt, Dot(fmt, k, w, x)[i], w[i], x[i])
    BY <2>5, <2>9, DotExact
  <2> QED
    BY <2>1, <2>2, <2>4, <2>7, <2>8, <2>10
<1> QED
  BY <1>1, MulInitially, MulInduction, PTL DEF MulSpec

-----------------------------------------------------------------------------
(* Half and single precision *)

\* The bit patterns of single-precision numbers.
Singles == {v \in [sign : {0, 1}, exp : Nat, frac : Nat] : v.exp < 256 /\ v.frac < 8388608}

\* Their fields.
LEMMA SingleParts ==
    ASSUME NEW v \in Singles
    PROVE  v.sign \in {0, 1} /\ v.exp \in Nat /\ v.exp < 256 /\ v.frac \in Nat /\ v.frac < 8388608
BY DEF Singles

\* A half of the exponent x, or the first of the next one.
Normal(x, k, h) ==
    /\ x \in 113..142 /\ k \in 0..1024
    /\ h \in Nat /\ h = (x - 112) * 1024 + k

\* A half of a normal number, in units of the single's last place.
LEMMA NormalMagnitude ==
    ASSUME NEW x, NEW k, NEW h, Normal(x, k, h)
    PROVE  Magnitude(h, x) = (1024 + k) * 8192
<1> USE DEF Normal
<1>1. CASE k < 1024
  <2>1. PICK e \in 1..30, n \in Int : e = x - 112 /\ n = e - x + 125
    OBVIOUS
  <2>2. n = 13
    BY <2>1
  <2>3. 2^(e - x + 125) = 8192
    <3>1. 2^n = 8192
      BY <2>2
    <3> QED
      BY <2>1, <3>1
  <2>4. (h \div 1024) % 32 = e /\ h % 1024 = k
    BY <1>1, <2>1
  <2>5. e # 0
    OBVIOUS
  <2> QED
    BY <2>3, <2>4, <2>5 DEF Magnitude
<1>2. CASE k = 1024
  <2>1. PICK e \in 1..31, n \in Int : e = x - 111 /\ n = e - x + 125
    BY <1>2
  <2>2. n = 14
    BY <2>1
  <2>3. 2^(e - x + 125) = 16384
    <3>1. 2^n = 16384
      BY <2>2
    <3> QED
      BY <2>1, <3>1
  <2>4. (h \div 1024) % 32 = e /\ h % 1024 = 0
    BY <1>2, <2>1
  <2>5. e # 0 /\ (1024 + 0) * 16384 = (1024 + k) * 8192
    BY <1>2
  <2> QED
    BY <2>3, <2>4, <2>5 DEF Magnitude
<1> QED
  BY <1>1, <1>2

\* Below the smallest normal half, and up to the next one.
Small(x, h, u) == x \in 102..113 /\ h \in 0..1025 /\ u \in Nat /\ u = 2^(126 - x)

\* A subnormal half, in the same units.
LEMMA SmallMagnitude ==
    ASSUME NEW x, NEW h, NEW u, Small(x, h, u)
    PROVE  Magnitude(h, x) = h * u
<1> USE DEF Small
<1>1. CASE h < 1024
  <2>1. (h \div 1024) % 32 = 0 /\ h % 1024 = h
    BY <1>1
  <2> QED
    BY <2>1 DEF Magnitude
<1>2. CASE h >= 1024
  <2>1. (h \div 1024) % 32 = 1 /\ h % 1024 = h - 1024
    BY <1>2
  <2>2. 1 - x + 125 = 126 - x
    OBVIOUS
  <2>3. Magnitude(h, x) = (1024 + (h - 1024)) * 2^(1 - x + 125)
    BY <2>1 DEF Magnitude
  <2> QED
    BY <2>2, <2>3
<1> QED
  BY <1>1, <1>2

\* The neighbours of the halves of the exponent x.
LEMMA NextMagnitude ==
    ASSUME NEW x \in 113..141, NEW h \in Nat, h = (x - 112) * 1024 + 1025
    PROVE  Magnitude(h, x) = 1025 * 16384
<1>1. PICK e \in 1..30, n \in Int : e = x - 111 /\ n = e - x + 125
  OBVIOUS
<1>2. n = 14
  BY <1>1
<1>3. 2^(e - x + 125) = 16384
  <2>1. 2^n = 16384
    BY <1>2
  <2> QED
    BY <1>1, <2>1
<1>4. (h \div 1024) % 32 = e /\ h % 1024 = 1 /\ e # 0
  BY <1>1
<1> QED
  BY <1>3, <1>4 DEF Magnitude

\* The half just below a power of two.
LEMMA BelowMagnitude ==
    ASSUME NEW x \in 113..142, NEW h \in Nat, h = (x - 112) * 1024 - 1
    PROVE  Magnitude(h, x) \in {1023 * 8192, 2047 * 4096}
<1>1. CASE x = 113
  <2>1. PICK n \in Int : n = 126 - x
    OBVIOUS
  <2>2. n = 13
    BY <1>1, <2>1
  <2>3. 2^n = 8192
    BY <2>2
  <2>4. 8192 = 2^(126 - x) /\ h \in 0..1025 /\ x \in 102..113 /\ h = 1023
    BY <1>1, <2>1, <2>3
  <2>5. Magnitude(h, x) = h * 8192
    <3>1. Small(x, h, 8192)
      BY <2>4 DEF Small
    <3> QED
      BY <3>1, SmallMagnitude
  <2> QED
    BY <2>4, <2>5
<1>2. CASE x > 113
  <2>1. PICK e \in 1..30, n \in Int : e = x - 113 /\ n = e - x + 125
    BY <1>2
  <2>2. n = 12
    BY <2>1
  <2>3. 2^(e - x + 125) = 4096
    <3>1. 2^n = 4096
      BY <2>2
    <3> QED
      BY <2>1, <3>1
  <2>4. (h \div 1024) % 32 = e /\ h % 1024 = 1023 /\ e # 0
    BY <2>1
  <2> QED
    BY <2>3, <2>4 DEF Magnitude
<1> QED
  BY <1>1, <1>2

\* A fraction cut at the half's last place.
Cut(f, q, r) == q \in 0..1023 /\ r \in Nat /\ r < 8192 /\ q = f \div 8192 /\ r = f % 8192 /\ f = 8192 * q + r

\* Every fraction is cut so.
LEMMA Cutting ==
    ASSUME NEW f \in Nat, f < 8388608
    PROVE  Cut(f, f \div 8192, f % 8192)
<1>1. f \div 8192 \in Int /\ f % 8192 \in Nat /\ f % 8192 < 8192 /\ f = 8192 * (f \div 8192) + (f % 8192)
  OBVIOUS
<1>2. f \div 8192 >= 0 /\ f \div 8192 < 1024
  BY <1>1
<1> QED
  BY <1>1, <1>2 DEF Cut

\* The carry of rounding to nearest, ties to even.
Rounding(q, r, c) ==
    /\ q \in 0..1023 /\ r \in Nat /\ r < 8192 /\ c \in {0, 1}
    /\ c = IF r > 4096 \/ (r = 4096 /\ q % 2 = 1) THEN 1 ELSE 0

\* A normal single rounds to a half in range, an infinity exactly from halfway
\* above the largest half.
LEMMA Rounds ==
    ASSUME NEW x \in 113..142, NEW q, NEW r, NEW c, Rounding(q, r, c),
           NEW h \in Nat, h = (x - 112) * 1024 + q + c
    PROVE  /\ h >= 1024 /\ h <= 31744
           /\ x = 142 => (h = 31744 <=> 8388608 + 8192 * q + r >= 16777216 - 4096)
           /\ h % 2 = (q + c) % 2
           /\ h # 31744 => (x < 142 \/ q + c < 1024)
<1> USE DEF Rounding
<1>1. h >= 1024 /\ h <= 31744
  <2>1. x - 112 \in 1..30 /\ h = (x - 112) * 1024 + q + c /\ c <= 1 /\ c >= 0
    OBVIOUS
  <2>2. h >= 1024
    BY <2>1
  <2>3. h <= 31744
    BY <2>1
  <2> QED
    BY <2>2, <2>3
<1>2. x = 142 => (h = 31744 <=> 8388608 + 8192 * q + r >= 16777216 - 4096)
  <2>1. ASSUME x = 142 PROVE h = 31744 <=> (q = 1023 /\ c = 1)
    BY <2>1
  <2>2. (q = 1023 /\ c = 1) <=> (q = 1023 /\ r >= 4096)
    <3>1. 1023 % 2 = 1
      OBVIOUS
    <3> QED
      BY <3>1
  <2>3. (q = 1023 /\ r >= 4096) <=> 8388608 + 8192 * q + r >= 16777216 - 4096
    OBVIOUS
  <2> QED
    BY <2>1, <2>2, <2>3
<1>3. h % 2 = (q + c) % 2
  OBVIOUS
<1>4. h # 31744 => (x < 142 \/ q + c < 1024)
  <2>1. (x = 142 /\ q + c = 1024) => h = 31744
    OBVIOUS
  <2>2. q + c <= 1024 /\ x <= 142
    OBVIOUS
  <2> QED
    BY <2>1, <2>2
<1> QED
  BY <1>1, <1>2, <1>3, <1>4

\* The fields of a half with its sign.
LEMMA Bits ==
    ASSUME NEW s \in {0, 1}, NEW h \in Nat, h < 32768, NEW b \in Nat, b = s * 32768 + h
    PROVE  /\ b % 32768 = h /\ b \div 32768 = s /\ (b \div 1024) % 32 = h \div 1024
           /\ h <= 31744 => (Finite(b) <=> h # 31744)
<1>1. CASE s = 0
  <2>1. b = h
    BY <1>1
  <2>2. b % 32768 = h /\ b \div 32768 = s /\ (b \div 1024) % 32 = h \div 1024
    BY <1>1, <2>1
  <2>3. h <= 31744 => (h \div 1024 # 31 <=> h # 31744)
    OBVIOUS
  <2> QED
    BY <2>2, <2>3 DEF Finite
<1>2. CASE s = 1
  <2>1. b = h + 32768
    BY <1>2
  <2>2. b % 32768 = h /\ b \div 32768 = s /\ (b \div 1024) % 32 = h \div 1024
    <3>1. b % 32768 = h /\ b \div 32768 = 1
      BY <2>1
    <3>2. b \div 1024 = h \div 1024 + 32 /\ h \div 1024 \in 0..31
      BY <2>1
    <3>3. (b \div 1024) % 32 = h \div 1024
      BY <3>2
    <3> QED
      BY <1>2, <3>1, <3>3
  <2>3. h <= 31744 => (h \div 1024 # 31 <=> h # 31744)
    OBVIOUS
  <2> QED
    BY <2>2, <2>3 DEF Finite
<1> QED
  BY <1>1, <1>2
\* The distance from a number to the one it is rounded to, and to the next on either side.
Dist(m, z) == IF m - z < 0 THEN z - m ELSE m - z

\* The number before an odd one is even.
LEMMA Odd == ASSUME NEW q \in Nat, (q + 1) % 2 = 1 PROVE q % 2 = 0
OBVIOUS

\* The chosen half and its two neighbours.
Around(k, z0, z1, z2) ==
    /\ z0 \in Int /\ z1 \in Int /\ z2 \in Int
    /\ z0 = (1024 + k) * 8192 /\ z1 >= z0 + 8192
    /\ z2 <= z0 - 8192 \/ (k = 0 /\ z2 <= z0 - 4096)

\* The chosen half is at least as near as its neighbours, and nearer when it is
\* odd.
LEMMA NormalDistance ==
    ASSUME NEW q, NEW r, NEW c, Rounding(q, r, c),
           NEW m \in Nat, m = 8388608 + 8192 * q + r,
           NEW k \in Nat, k = q + c,
           NEW z0, NEW z1, NEW z2, Around(k, z0, z1, z2)
    PROVE  /\ Dist(m, z0) <= Dist(m, z1) /\ Dist(m, z0) <= Dist(m, z2)
           /\ k % 2 = 1 => Dist(m, z0) < Dist(m, z1) /\ Dist(m, z0) < Dist(m, z2)
<1> USE DEF Rounding, Around
<1>0. Dist(m, z0) \in Int /\ Dist(m, z1) \in Int /\ Dist(m, z2) \in Int
  BY DEF Dist
<1>1. CASE c = 0
  <2>1. r <= 4096 /\ z0 = m - r /\ (k = 0 => TRUE) /\ k = q /\ (k % 2 = 1 => r < 4096)
    BY <1>1
  <2>2. Dist(m, z0) = r
    BY <2>1 DEF Dist
  <2>3. Dist(m, z1) >= 8192 - r
    BY <2>1 DEF Dist
  <2>4. Dist(m, z2) >= 4096 + r
    BY <2>1 DEF Dist
  <2> QED
    BY <1>0, <2>1, <2>2, <2>3, <2>4
<1>2. CASE c = 1
  <2>1. r >= 4096 /\ z0 = m + (8192 - r) /\ k # 0 /\ k = q + 1
    BY <1>2
  <2>5. k % 2 = 1 => r > 4096
    <3>1. k % 2 = 1 => q % 2 = 0
      BY <2>1, Odd
    <3> QED
      BY <3>1, <1>2, <2>1
  <2>2. Dist(m, z0) = 8192 - r
    BY <2>1 DEF Dist
  <2>3. Dist(m, z1) >= 8192 + (8192 - r)
    BY <2>1 DEF Dist
  <2>4. Dist(m, z2) >= r
    BY <2>1 DEF Dist
  <2> QED
    BY <1>0, <2>1, <2>2, <2>3, <2>4, <2>5
<1> QED
  BY <1>1, <1>2

\* A number with its fraction cut after ten bits, and rounded.
LEMMA NarrowNormal ==
    ASSUME NEW v \in Singles, v.exp \in 113..142
    PROVE  Nearest(v, f32_to_f16(v))
<1>s. PICK s \in {0, 1} : s = v.sign
  BY SingleParts
<1>x. PICK x \in 113..142 : x = v.exp
  OBVIOUS
<1>f. PICK f \in Nat : f = v.frac /\ f < 8388608
  BY SingleParts
<1>1. s = v.sign /\ x = v.exp /\ f = v.frac /\ f < 8388608
  BY <1>s, <1>x, <1>f
<1>2. Cut(f, f \div 8192, f % 8192)
  BY <1>1, Cutting
<1>a. PICK q \in 0..1023 : q = f \div 8192
  BY <1>2 DEF Cut
<1>z. PICK r \in Nat : r = f % 8192 /\ r < 8192
  BY <1>2 DEF Cut
<1>q. q = f \div 8192 /\ r = f % 8192 /\ f = 8192 * q + r
  BY <1>2, <1>a, <1>z DEF Cut
<1>3. PICK c \in {0, 1} : Rounding(q, r, c)
  BY <1>z DEF Rounding
<1>4. PICK h \in Nat : h = (x - 112) * 1024 + q + c
  OBVIOUS
<1>5. /\ h >= 1024 /\ h <= 31744
      /\ x = 142 => (h = 31744 <=> 8388608 + 8192 * q + r >= 16777216 - 4096)
      /\ h % 2 = (q + c) % 2
      /\ h # 31744 => (x < 142 \/ q + c < 1024)
  BY <1>3, <1>4, Rounds
<1>6. PICK b \in Nat : b = s * 32768 + h
  OBVIOUS
<1>7. f32_to_f16(v) = b
  <2>1. x # 255 /\ ~(x - 112 >= 31) /\ ~(x - 112 < -10) /\ x - 112 \notin -10..0
    OBVIOUS
  <2>2. PICK o \in Nat : o = s * 32768 + (x - 112) * 1024 + q
    OBVIOUS
  <2>3. o % 2 = q % 2
    BY <2>2
  <2>4. f32_to_f16(v) = LET out == s * 32768 + (x - 112) * 1024 + (f \div 8192)
                            round == f % 8192
                        IN  IF round > 4096 \/ (round = 4096 /\ out % 2 = 1) THEN out + 1 ELSE out
    BY <1>1, <2>1 DEF f32_to_f16
  <2>5. f32_to_f16(v) = IF r > 4096 \/ (r = 4096 /\ o % 2 = 1) THEN o + 1 ELSE o
    BY <1>q, <2>2, <2>4
  <2>6. f32_to_f16(v) = o + c
    BY <1>3, <2>3, <2>5 DEF Rounding
  <2> QED
    BY <1>4, <1>6, <2>2, <2>6
<1>8. b % 32768 = h /\ b \div 32768 = s /\ (Finite(b) <=> h # 31744)
  <2>1. h < 32768
    BY <1>5
  <2> QED
    BY <1>5, <1>6, <2>1, Bits
<1>9. 2^23 = 8388608 /\ 2^24 = 16777216
  OBVIOUS
<1>10. PICK k \in Nat, m \in Nat : k = q + c /\ m = 8388608 + 8192 * q + r /\ m = 8388608 + f
  BY <1>q
<1>11. k \in 0..1024 /\ h = (x - 112) * 1024 + k
  BY <1>4, <1>10
<1>12. \A g : Magnitude(g, x) \in Int => Far(v, g) = Dist(m, Magnitude(g, x))
  <2> SUFFICES ASSUME NEW g, NEW z \in Int, z = Magnitude(g, x) PROVE Far(v, g) = Dist(m, z)
    OBVIOUS
  <2>1. Far(v, g) = LET d == 8388608 + f - z IN IF d < 0 THEN -d ELSE d
    BY <1>1, <1>9 DEF Far
  <2> QED
    BY <1>10, <2>1 DEF Dist
<1>13. ASSUME h # 31744
       PROVE  /\ h + 1 < 31744 => Far(v, h) <= Far(v, h + 1)
              /\ h > 0 => Far(v, h) <= Far(v, h - 1)
              /\ h % 2 = 1 => Far(v, h) < Far(v, h + 1) /\ Far(v, h) < Far(v, h - 1)
  <2>1. PICK z0 \in Int : z0 = (1024 + k) * 8192 /\ Magnitude(h, x) = z0
    <3>1. Normal(x, k, h)
      BY <1>5, <1>10, <1>11, <1>13 DEF Normal
    <3>2. Magnitude(h, x) = (1024 + k) * 8192
      BY <3>1, NormalMagnitude
    <3> QED
      BY <3>2
  <2>2. PICK z2 \in Int : /\ Magnitude(h - 1, x) = z2
                          /\ z2 <= z0 - 8192 \/ (k = 0 /\ z2 <= z0 - 4096)
    <3>1. CASE k > 0
      <4>1. PICK g \in Nat, j \in 0..1024 : g = h - 1 /\ j = k - 1
        <5>1. h - 1 \in Nat /\ k - 1 \in 0..1024
          BY <1>5, <1>11, <3>1
        <5> QED
          BY <5>1
      <4>2. Normal(x, j, g)
        BY <1>11, <4>1 DEF Normal
      <4>3. Magnitude(g, x) = (1024 + j) * 8192
        BY <4>2, NormalMagnitude
      <4>4. (1024 + j) * 8192 = z0 - 8192
        BY <2>1, <4>1
      <4> QED
        BY <4>1, <4>3, <4>4
    <3>2. CASE k = 0
      <4>1. PICK g \in Nat : g = h - 1 /\ g = (x - 112) * 1024 - 1
        BY <1>5, <1>11, <3>2
      <4>2. Magnitude(g, x) \in {1023 * 8192, 2047 * 4096}
        BY <4>1, BelowMagnitude
      <4> QED
        BY <2>1, <3>2, <4>1, <4>2
    <3> QED
      BY <3>1, <3>2
  <2>3. ASSUME NEW z1 \in Int, z1 >= z0 + 8192
        PROVE  /\ Dist(m, z0) <= Dist(m, z1) /\ Dist(m, z0) <= Dist(m, z2)
               /\ k % 2 = 1 => Dist(m, z0) < Dist(m, z1) /\ Dist(m, z0) < Dist(m, z2)
    <3>1. Around(k, z0, z1, z2)
      BY <2>1, <2>2, <2>3 DEF Around
    <3> QED
      BY <1>3, <1>10, <3>1, NormalDistance
  <2>4. Far(v, h) = Dist(m, z0) /\ Far(v, h - 1) = Dist(m, z2)
    BY <1>12, <2>1, <2>2
  <2>5. h % 2 = k % 2
    BY <1>5, <1>10
  <2>6. Far(v, h) <= Far(v, h + 1) /\ (h % 2 = 1 => Far(v, h) < Far(v, h + 1))
    <3>1. PICK z1 \in Int : Magnitude(h + 1, x) = z1 /\ z1 >= z0 + 8192
      <4>1. CASE k < 1024
        <5>1. PICK g \in Nat, j \in 0..1024 : g = h + 1 /\ j = k + 1
          <6>1. h + 1 \in Nat /\ k + 1 \in 0..1024
            BY <1>11, <4>1
          <6> QED
            BY <6>1
        <5>2. Normal(x, j, g)
          BY <1>11, <5>1 DEF Normal
        <5>3. Magnitude(g, x) = (1024 + j) * 8192
          BY <5>2, NormalMagnitude
        <5>4. (1024 + j) * 8192 = z0 + 8192
          BY <2>1, <5>1
        <5> QED
          BY <5>1, <5>3, <5>4
      <4>2. CASE k = 1024
        <5>1. x \in 113..141
          BY <1>5, <1>11, <1>13, <4>2
        <5>2. PICK g \in Nat : g = h + 1 /\ g = (x - 112) * 1024 + 1025
          BY <1>11, <4>2
        <5>3. Magnitude(g, x) = 1025 * 16384
          BY <5>1, <5>2, NextMagnitude
        <5> QED
          BY <2>1, <4>2, <5>2, <5>3
      <4> QED
        BY <1>11, <4>1, <4>2
    <3>2. Far(v, h + 1) = Dist(m, z1)
      BY <1>12, <3>1
    <3> QED
      BY <2>3, <2>4, <2>5, <3>1, <3>2
  <2>7. Far(v, h) <= Far(v, h - 1) /\ (h % 2 = 1 => Far(v, h) < Far(v, h - 1))
    <3>1. PICK z1 \in Int : z1 = z0 + 8192
      OBVIOUS
    <3>2. /\ Dist(m, z0) <= Dist(m, z2)
          /\ k % 2 = 1 => Dist(m, z0) < Dist(m, z2)
      BY <2>3, <3>1
    <3> QED
      BY <2>4, <2>5, <3>2
  <2> QED
    BY <2>5, <2>6, <2>7
<1>14. /\ x = 142 => (~Finite(b) <=> 2^23 + v.frac >= 2^24 - 4096)
       /\ ~(x < 102) /\ ~(x >= 143)
  <2>1. 2^23 + v.frac = 8388608 + 8192 * q + r
    <3>1. 2^23 + f = 8388608 + 8192 * q + r
      BY <1>q, <1>9
    <3> QED
      BY <1>1, <3>1
  <2>2. 2^23 + v.frac >= 2^24 - 4096 <=> 8388608 + 8192 * q + r >= 16777216 - 4096
    BY <1>9, <2>1
  <2> QED
    BY <1>5, <1>8, <2>2
<1> QED
  BY <1>1, <1>7, <1>8, <1>13, <1>14 DEF Nearest

\* The last place of a half, in those of a single below the normal halves.
Unit(x, u) ==
    /\ u = 2^(126 - x) /\ u = 2^(14 - (x - 112))
    /\ 2^(13 - (x - 112)) * 2 = u /\ 2^(13 - (x - 112)) \in Nat
    /\ u >= 16384

\* The unit of a subnormal half, by the single's exponent.
LEMMA SmallUnit == ASSUME NEW x \in 102..112 PROVE \E u \in Nat : Unit(x, u)
<1>1. CASE x = 102
  BY <1>1, 2^24 = 16777216, 2^23 = 8388608 DEF Unit
<1>2. CASE x = 103
  BY <1>2, 2^23 = 8388608, 2^22 = 4194304 DEF Unit
<1>3. CASE x = 104
  BY <1>3, 2^22 = 4194304, 2^21 = 2097152 DEF Unit
<1>4. CASE x = 105
  BY <1>4, 2^21 = 2097152, 2^20 = 1048576 DEF Unit
<1>5. CASE x = 106
  BY <1>5, 2^20 = 1048576, 2^19 = 524288 DEF Unit
<1>6. CASE x = 107
  BY <1>6, 2^19 = 524288, 2^18 = 262144 DEF Unit
<1>7. CASE x = 108
  BY <1>7, 2^18 = 262144, 2^17 = 131072 DEF Unit
<1>8. CASE x = 109
  BY <1>8, 2^17 = 131072, 2^16 = 65536 DEF Unit
<1>9. CASE x = 110
  BY <1>9, 2^16 = 65536, 2^15 = 32768 DEF Unit
<1>10. CASE x = 111
  BY <1>10, 2^15 = 32768, 2^14 = 16384 DEF Unit
<1>11. CASE x = 112
  BY <1>11, 2^14 = 16384, 2^13 = 8192 DEF Unit
<1> QED
  BY <1>1, <1>2, <1>3, <1>4, <1>5, <1>6, <1>7, <1>8, <1>9, <1>10, <1>11

\* A number below the normal halves, down to half of the smallest.
LEMMA NarrowSmall ==
    ASSUME NEW v \in Singles, v.exp \in 102..112
    PROVE  Nearest(v, f32_to_f16(v))
<1>s. PICK s \in {0, 1} : s = v.sign
  BY SingleParts
<1>x. PICK x \in 102..112 : x = v.exp
  OBVIOUS
<1>f. PICK f \in Nat : f = v.frac /\ f < 8388608
  BY SingleParts
<1>1. s = v.sign /\ x = v.exp /\ f = v.frac /\ f < 8388608
  BY <1>s, <1>x, <1>f
<1>2. PICK u \in Nat : Unit(x, u)
  BY SmallUnit
<1>3. PICK w \in Nat : w = 2^(13 - (x - 112)) /\ w * 2 = u /\ u = 2^(14 - (x - 112)) /\ u = 2^(126 - x) /\ u >= 16384
  BY <1>2 DEF Unit
<1>4. 2^23 = 8388608
  OBVIOUS
<1>m. PICK m \in Nat : m = 8388608 + f
  OBVIOUS
<1>5. PICK h \in 0..1024 : h = (m + w) \div u
  <2>1. (m + w) \div u \in Int /\ u * ((m + w) \div u) <= m + w /\ m + w < u * ((m + w) \div u) + u
    BY <1>3
  <2>2. PICK d \in Int : d = (m + w) \div u
    BY <2>1
  <2>3. d >= 0
    BY <1>3, <2>1, <2>2
  <2>4. d <= 1024
    <3> SUFFICES ASSUME d >= 1025 PROVE FALSE
      BY <2>2
    <3>1. u * d >= u * 1025
      BY <1>3
    <3>2. m < 16777216 /\ u * d <= m + w
      BY <1>1, <1>m, <2>1, <2>2
    <3> QED
      BY <1>3, <3>1, <3>2
  <2> QED
    BY <2>2, <2>3, <2>4
<1>6. u * h <= m + w /\ m + w < u * h + u
  BY <1>3, <1>5
<1>b. PICK b \in Nat : b = s * 32768 + h
  OBVIOUS
<1>7. f32_to_f16(v) = b
  <2>1. x # 255 /\ ~(x - 112 >= 31) /\ ~(x - 112 < -10) /\ x - 112 \in -10..0
    OBVIOUS
  <2>2. f32_to_f16(v) = s * 32768 + ((f + 2^23 + 2^(13 - (x - 112))) \div 2^(14 - (x - 112)))
    BY <1>1, <2>1 DEF f32_to_f16
  <2>3. f32_to_f16(v) = s * 32768 + ((f + 8388608 + w) \div u)
    BY <1>3, <1>4, <2>2
  <2>4. f + 8388608 + w = m + w
    BY <1>m
  <2> QED
    <3>1. f32_to_f16(v) = s * 32768 + ((m + w) \div u)
      BY <2>3, <2>4
    <3> QED
      BY <1>5, <1>b, <3>1
<1>8. b % 32768 = h /\ b \div 32768 = s
  <2>1. h \in Nat /\ h < 32768
    OBVIOUS
  <2> QED
    BY <1>b, <2>1, Bits
<1>9. /\ h + 1 < 31744 => Far(v, h) <= Far(v, h + 1)
      /\ h > 0 => Far(v, h) <= Far(v, h - 1)
  <2>1. \A g : Magnitude(g, x) \in Int => Far(v, g) = Dist(m, Magnitude(g, x))
    <3> SUFFICES ASSUME NEW g, NEW z \in Int, z = Magnitude(g, x) PROVE Far(v, g) = Dist(m, z)
      OBVIOUS
    <3>1. Far(v, g) = LET d == 8388608 + f - z IN IF d < 0 THEN -d ELSE d
      BY <1>1, <1>4 DEF Far
    <3> QED
      BY <1>m, <3>1 DEF Dist
  <2>3. PICK z \in Int : z = h * u
    BY <1>5
  <2>4. (h + 1) * u = z + u /\ (h - 1) * u = z - u /\ u * h = z
    BY <2>3
  <2>5. Dist(m, z) <= Dist(m, z + u) /\ Dist(m, z) <= Dist(m, z - u)
    BY <1>3, <1>6, <2>4 DEF Dist
  <2>6. Magnitude(h, x) = z /\ Magnitude(h + 1, x) = z + u
    <3>1. h \in 0..1025 /\ h + 1 \in 0..1025
      OBVIOUS
    <3>2. Small(x, h, u) /\ Small(x, h + 1, u)
      BY <1>3, <3>1 DEF Small
    <3>3. Magnitude(h, x) = h * u /\ Magnitude(h + 1, x) = (h + 1) * u
      BY <3>2, SmallMagnitude
    <3> QED
      BY <2>3, <2>4, <3>3
  <2>7. h > 0 => Magnitude(h - 1, x) = z - u
    <3>1. h > 0 => h - 1 \in 0..1025
      OBVIOUS
    <3>2. h > 0 => Small(x, h - 1, u)
      BY <1>3, <3>1 DEF Small
    <3>3. h > 0 => Magnitude(h - 1, x) = (h - 1) * u
      BY <3>2, SmallMagnitude
    <3> QED
      BY <2>4, <3>3
  <2> QED
    BY <2>1, <2>5, <2>6, <2>7
<1>10. x \in 102..142 /\ ~(x > 112) /\ x # 142 /\ ~(x < 102) /\ ~(x >= 143)
  OBVIOUS
<1> QED
  BY <1>1, <1>7, <1>8, <1>9, <1>10 DEF Nearest

\* What is too small becomes zero, what is too large, or no number, stays so.
LEMMA NarrowOutside ==
    ASSUME NEW v \in Singles, v.exp \notin 102..142
    PROVE  Nearest(v, f32_to_f16(v))
<1>s. PICK s \in {0, 1} : s = v.sign
  BY SingleParts
<1>x. PICK x \in Nat : x = v.exp /\ x < 256
  BY SingleParts
<1>f. PICK f \in Nat : f = v.frac /\ f < 8388608
  BY SingleParts
<1>1. s = v.sign /\ x = v.exp /\ f = v.frac /\ f < 8388608
  BY <1>s, <1>x, <1>f
<1>2. CASE x < 102
  <2>1. f32_to_f16(v) = s * 32768
    BY <1>1, <1>2 DEF f32_to_f16
  <2>2. (s * 32768) % 32768 = 0 /\ (s * 32768) \div 32768 = s
    OBVIOUS
  <2> QED
    BY <1>1, <1>2, <2>1, <2>2 DEF Nearest
<1>3. CASE x > 142
  <2>1. PICK n \in {0, 512} : f32_to_f16(v) = s * 32768 + 31744 + n
    BY <1>1, <1>3 DEF f32_to_f16
  <2>2. (s * 32768 + 31744 + n) % 32768 = 31744 + n /\ (s * 32768 + 31744 + n) \div 32768 = s
    OBVIOUS
  <2>3. x \notin 102..142 /\ x # 142 /\ ~(x < 102) /\ 31744 + n >= 31744
    BY <1>3
  <2> QED
    BY <1>1, <2>1, <2>2, <2>3 DEF Nearest
<1> QED
  BY <1>1, <1>2, <1>3

\* f32_to_f16 gives a nearest half, to every single.
LEMMA NarrowNearest ==
    ASSUME NEW v \in Singles
    PROVE  Nearest(v, f32_to_f16(v))
<1>1. v.exp \in Nat
  BY SingleParts
<1>2. v.exp \in 113..142 \/ v.exp \in 102..112 \/ v.exp \notin 102..142
  BY <1>1
<1> QED
  BY <1>2, NarrowNormal, NarrowSmall, NarrowOutside

\* The highest bit of a subnormal fraction, and the single that holds it.
Top(f, n, p) == n \in 0..9 /\ Msb(f) = n /\ p = 2^n /\ p \in Nat /\ p <= f /\ f < 2 * p

\* The leading bit of a subnormal half's fraction.
LEMMA Highest ==
    ASSUME NEW f \in 1..1023
    PROVE  \E n, p : Top(f, n, p)
<1>1. \E n \in 0..9 : 2^n <= f /\ f < 2^(n + 1)
  <2>1. /\ 2^0 = 1 /\ 2^1 = 2 /\ 2^2 = 4 /\ 2^3 = 8 /\ 2^4 = 16 /\ 2^5 = 32 /\ 2^6 = 64
        /\ 2^7 = 128 /\ 2^8 = 256 /\ 2^9 = 512 /\ 2^10 = 1024
    OBVIOUS
  <2>2. /\ f >= 1 /\ f < 2 => 2^0 <= f /\ f < 2^(0 + 1)
        /\ f >= 2 /\ f < 4 => 2^1 <= f /\ f < 2^(1 + 1)
        /\ f >= 4 /\ f < 8 => 2^2 <= f /\ f < 2^(2 + 1)
        /\ f >= 8 /\ f < 16 => 2^3 <= f /\ f < 2^(3 + 1)
        /\ f >= 16 /\ f < 32 => 2^4 <= f /\ f < 2^(4 + 1)
        /\ f >= 32 /\ f < 64 => 2^5 <= f /\ f < 2^(5 + 1)
        /\ f >= 64 /\ f < 128 => 2^6 <= f /\ f < 2^(6 + 1)
        /\ f >= 128 /\ f < 256 => 2^7 <= f /\ f < 2^(7 + 1)
        /\ f >= 256 /\ f < 512 => 2^8 <= f /\ f < 2^(8 + 1)
        /\ f >= 512 /\ f < 1024 => 2^9 <= f /\ f < 2^(9 + 1)
    BY <2>1
  <2>3. \E n \in {0, 1, 2, 3, 4, 5, 6, 7, 8, 9} : 2^n <= f /\ f < 2^(n + 1)
    BY <2>2
  <2> QED
    BY <2>3
<1>2. Msb(f) \in 0..9 /\ 2^Msb(f) <= f /\ f < 2^(Msb(f) + 1)
  BY <1>1 DEF Msb
<1>3. PICK n \in 0..9 : n = Msb(f)
  BY <1>2
<1>4. 2^n \in Nat /\ 2^(n + 1) = 2 * 2^n
  <2>1. CASE n = 0
    BY <2>1, 2^0 = 1, 2^1 = 2
  <2>2. CASE n = 1
    BY <2>2, 2^1 = 2, 2^2 = 4
  <2>3. CASE n = 2
    BY <2>3, 2^2 = 4, 2^3 = 8
  <2>4. CASE n = 3
    BY <2>4, 2^3 = 8, 2^4 = 16
  <2>5. CASE n = 4
    BY <2>5, 2^4 = 16, 2^5 = 32
  <2>6. CASE n = 5
    BY <2>6, 2^5 = 32, 2^6 = 64
  <2>7. CASE n = 6
    BY <2>7, 2^6 = 64, 2^7 = 128
  <2>8. CASE n = 7
    BY <2>8, 2^7 = 128, 2^8 = 256
  <2>9. CASE n = 8
    BY <2>9, 2^8 = 256, 2^9 = 512
  <2>10. CASE n = 9
    BY <2>10, 2^9 = 512, 2^10 = 1024
  <2> QED
    BY <2>1, <2>2, <2>3, <2>4, <2>5, <2>6, <2>7, <2>8, <2>9, <2>10
<1>5. Top(f, n, 2^n)
  BY <1>2, <1>3, <1>4 DEF Top
<1> QED
  BY <1>5

\* The shift that normalises a fraction and the one left over.
Complement(n, u, p) == n \in 0..9 /\ u = 2^(23 - n) /\ p = 2^n

\* Together they fill the 23 bits.
LEMMA Complements ==
    ASSUME NEW n, NEW u, NEW p, Complement(n, u, p)
    PROVE  u * p = 8388608
<1>1. CASE n = 0
  BY <1>1, 2^0 = 1, 2^23 = 8388608 DEF Complement
<1>2. CASE n = 1
  BY <1>2, 2^1 = 2, 2^22 = 4194304 DEF Complement
<1>3. CASE n = 2
  BY <1>3, 2^2 = 4, 2^21 = 2097152 DEF Complement
<1>4. CASE n = 3
  BY <1>4, 2^3 = 8, 2^20 = 1048576 DEF Complement
<1>5. CASE n = 4
  BY <1>5, 2^4 = 16, 2^19 = 524288 DEF Complement
<1>6. CASE n = 5
  BY <1>6, 2^5 = 32, 2^18 = 262144 DEF Complement
<1>7. CASE n = 6
  BY <1>7, 2^6 = 64, 2^17 = 131072 DEF Complement
<1>8. CASE n = 7
  BY <1>8, 2^7 = 128, 2^16 = 65536 DEF Complement
<1>9. CASE n = 8
  BY <1>9, 2^8 = 256, 2^15 = 32768 DEF Complement
<1>10. CASE n = 9
  BY <1>10, 2^9 = 512, 2^14 = 16384 DEF Complement
<1> QED
  BY <1>1, <1>2, <1>3, <1>4, <1>5, <1>6, <1>7, <1>8, <1>9, <1>10 DEF Complement

\* The sign, the exponent and the fraction of a half.
Parts(h, s, e, f) ==
    /\ s \in {0, 1} /\ e \in 0..31 /\ f \in 0..1023 /\ h = s * 32768 + e * 1024 + f
    /\ s = h \div 32768 /\ e = (h \div 1024) % 32 /\ f = h % 1024

\* The fields of a half.
LEMMA HalfParts ==
    ASSUME NEW h \in Nat, h < 65536
    PROVE  Parts(h, h \div 32768, (h \div 1024) % 32, h % 1024)
<1>1. PICK t \in Nat : t = h \div 1024
  OBVIOUS
<1>2. t <= 63 /\ h % 1024 \in 0..1023 /\ h = 1024 * t + (h % 1024)
  BY <1>1
<1>3. t % 32 \in 0..31 /\ t = 32 * (t \div 32) + (t % 32)
  BY <1>1
<1>4. t \div 32 \in {0, 1} /\ h \div 32768 = t \div 32
  BY <1>1, <1>2, <1>3
<1> QED
  BY <1>1, <1>2, <1>3, <1>4 DEF Parts

\* A half is the single it was widened to, narrowed again.
LEMMA WidenSmall ==
    ASSUME NEW h, NEW s, NEW f, Parts(h, s, 0, f), f # 0
    PROVE  f16_to_f32(h) \in Singles /\ f32_to_f16(f16_to_f32(h)) = h
<1>1. s \in {0, 1} /\ f \in 1..1023 /\ h = s * 32768 + f
  BY DEF Parts
<1>2. PICK n, p : Top(f, n, p)
  BY <1>1, Highest
<1>3. n \in 0..9 /\ Msb(f) = n /\ p = 2^n /\ p \in Nat /\ p <= f /\ f < 2 * p
  BY <1>2 DEF Top
<1>4. PICK x \in 102..112 : x = 103 + n
  BY <1>3
<1>5. PICK u \in Nat : Unit(x, u)
  BY SmallUnit
<1>6. PICK w \in Nat : w = 2^(13 - (x - 112)) /\ w * 2 = u /\ u = 2^(14 - (x - 112)) /\ u = 2^(126 - x) /\ u >= 16384
  BY <1>5 DEF Unit
<1>7. u = 2^(23 - n) /\ u * p = 8388608
  <2>1. 126 - x = 23 - n
    BY <1>3, <1>4
  <2>2. u = 2^(23 - n)
    BY <1>6, <2>1
  <2>3. Complement(n, u, p)
    BY <1>3, <2>2 DEF Complement
  <2> QED
    BY <2>2, <2>3, Complements
<1>8. PICK g \in Nat : g = f * u /\ g >= 8388608 /\ g < 16777216
  <2>1. f * u >= p * u /\ f * u < 2 * p * u /\ f * u \in Nat
    BY <1>1, <1>3, <1>6
  <2>2. p * u = 8388608 /\ 2 * p * u = 16777216
    BY <1>3, <1>7
  <2> QED
    BY <2>1, <2>2
<1>9. 2^23 = 8388608
  OBVIOUS
<1>10. PICK r \in Nat : r = g - 8388608 /\ r < 8388608 /\ r = g % 8388608
  BY <1>8
<1>11. f16_to_f32(h) = [sign |-> s, exp |-> x, frac |-> r]
  <2>1. f16_to_f32(h) = Single(s, 103 + n, (f * 2^(23 - n)) % 2^23)
    <3>1. s = h \div 32768 /\ (h \div 1024) % 32 = 0 /\ f = h % 1024
      BY DEF Parts
    <3>2. f16_to_f32(h) = Single(s, 103 + Msb(f), (f * 2^(23 - Msb(f))) % 2^23)
      BY <3>1 DEF f16_to_f32
    <3> QED
      BY <1>3, <3>2
  <2>2. (f * 2^(23 - n)) % 2^23 = r
    BY <1>7, <1>8, <1>9, <1>10
  <2> QED
    BY <1>4, <2>1, <2>2 DEF Single
<1>12. f16_to_f32(h) \in Singles
  BY <1>1, <1>10, <1>11 DEF Singles
<1>13. (g + w) \div u = f
  <2>1. g + w = u * f + w /\ w < u /\ u > 0
    BY <1>1, <1>6, <1>8
  <2> QED
    BY <1>1, <2>1
<1>14. f32_to_f16(f16_to_f32(h)) = s * 32768 + f
  <2>1. x # 255 /\ ~(x - 112 >= 31) /\ ~(x - 112 < -10) /\ x - 112 \in -10..0
    OBVIOUS
  <2>2. f32_to_f16(f16_to_f32(h)) = s * 32768 + ((r + 2^23 + 2^(13 - (x - 112))) \div 2^(14 - (x - 112)))
    BY <1>11, <2>1 DEF f32_to_f16
  <2>3. f32_to_f16(f16_to_f32(h)) = s * 32768 + ((r + 8388608 + w) \div u)
    BY <1>6, <1>9, <2>2
  <2>4. r + 8388608 + w = g + w
    BY <1>10
  <2> QED
    BY <1>13, <2>3, <2>4
<1> QED
  BY <1>1, <1>12, <1>14

\* f16_to_f32 gives a single that converts back to the same half,
LEMMA WidenBack ==
    ASSUME NEW h \in Nat, h < 65536
    PROVE  f16_to_f32(h) \in Singles /\ (Finite(h) => f32_to_f16(f16_to_f32(h)) = h)
<1>0. Parts(h, h \div 32768, (h \div 1024) % 32, h % 1024)
  BY HalfParts
<1>s. PICK s \in {0, 1} : s = h \div 32768
  BY <1>0 DEF Parts
<1>e. PICK e \in 0..31 : e = (h \div 1024) % 32
  BY <1>0 DEF Parts
<1>f. PICK f \in 0..1023 : f = h % 1024
  BY <1>0 DEF Parts
<1>1. Parts(h, s, e, f)
  BY <1>0, <1>s, <1>e, <1>f
<1>2. h = s * 32768 + e * 1024 + f /\ s = h \div 32768 /\ e = (h \div 1024) % 32 /\ f = h % 1024
  BY <1>1 DEF Parts
<1>3. CASE e = 0 /\ f = 0
  <2>1. f16_to_f32(h) = [sign |-> s, exp |-> 0, frac |-> 0]
    <3>1. s = h \div 32768 /\ (h \div 1024) % 32 = 0 /\ h % 1024 = 0
      BY <1>2, <1>3
    <3>2. f16_to_f32(h) = Single(s, 0, 0)
      BY <3>1 DEF f16_to_f32
    <3> QED
      BY <3>2 DEF Single
  <2>2. f32_to_f16([sign |-> s, exp |-> 0, frac |-> 0]) = s * 32768
    BY DEF f32_to_f16
  <2>3. [sign |-> s, exp |-> 0, frac |-> 0] \in Singles
    BY DEF Singles
  <2> QED
    BY <1>2, <1>3, <2>1, <2>2, <2>3
<1>4. CASE e = 0 /\ f # 0
  BY <1>1, <1>4, WidenSmall
<1>5. PICK g \in Nat : g = f * 8192 /\ g < 8388608
  OBVIOUS
<1>6. CASE e = 31
  <2>1. f16_to_f32(h) = [sign |-> s, exp |-> 255, frac |-> g]
    <3>1. s = h \div 32768 /\ (h \div 1024) % 32 = 31 /\ f = h % 1024
      BY <1>2, <1>6
    <3>2. f16_to_f32(h) = Single(s, 255, f * 8192)
      BY <3>1 DEF f16_to_f32
    <3> QED
      BY <1>5, <3>2 DEF Single
  <2>2. [sign |-> s, exp |-> 255, frac |-> g] \in Singles
    BY <1>5 DEF Singles
  <2>3. ~Finite(h)
    BY <1>2, <1>6 DEF Finite
  <2> QED
    BY <2>1, <2>2, <2>3
<1>7. CASE e \in 1..30
  <2>1. PICK x \in 113..142 : x = e + 112
    BY <1>7
  <2>2. f16_to_f32(h) = [sign |-> s, exp |-> x, frac |-> g]
    <3>1. s = h \div 32768 /\ (h \div 1024) % 32 = e /\ f = h % 1024 /\ e # 0 /\ e # 31
      BY <1>2, <1>7
    <3>2. f16_to_f32(h) = Single(s, e + 112, f * 8192)
      BY <3>1 DEF f16_to_f32
    <3> QED
      BY <1>5, <2>1, <3>2 DEF Single
  <2>3. [sign |-> s, exp |-> x, frac |-> g] \in Singles
    BY <1>5 DEF Singles
  <2>4. x # 255 /\ ~(x - 112 >= 31) /\ ~(x - 112 < -10) /\ x - 112 \notin -10..0
    OBVIOUS
  <2>5. f32_to_f16([sign |-> s, exp |-> x, frac |-> g])
          = LET out == s * 32768 + (x - 112) * 1024 + (g \div 8192)
                round == g % 8192
            IN  IF round > 4096 \/ (round = 4096 /\ out % 2 = 1) THEN out + 1 ELSE out
    BY <2>4 DEF f32_to_f16
  <2>6. g \div 8192 = f /\ g % 8192 = 0
    BY <1>5
  <2>7. f32_to_f16([sign |-> s, exp |-> x, frac |-> g]) = s * 32768 + (x - 112) * 1024 + f
    BY <2>5, <2>6
  <2>8. s * 32768 + (x - 112) * 1024 + f = h
    <3>1. x - 112 = e
      BY <2>1
    <3> QED
      BY <1>2, <3>1
  <2> QED
    BY <2>2, <2>3, <2>7, <2>8
<1> QED
  BY <1>3, <1>4, <1>6, <1>7

\* so a half is a nearest half to its own single.
LEMMA WidenNearest ==
    ASSUME NEW h \in Nat, h < 65536
    PROVE  Nearest(f16_to_f32(h), h)
<1>1. PICK w \in Singles : w = f16_to_f32(h)
  BY WidenBack
<1>2. CASE Finite(h)
  <2>1. f32_to_f16(w) = h
    BY <1>1, <1>2, WidenBack
  <2>2. Nearest(w, f32_to_f16(w))
    BY NarrowNearest
  <2> QED
    BY <1>1, <2>1, <2>2
<1>3. CASE ~Finite(h)
  <2>1. PICK s \in {0, 1}, f \in Nat : w = [sign |-> s, exp |-> 255, frac |-> f] /\ s = h \div 32768
    <3>1. h \div 32768 \in {0, 1} /\ h % 1024 \in Nat
      BY HalfParts DEF Parts
    <3>2. (h \div 1024) % 32 = 31
      BY <1>3 DEF Finite
    <3>3. w = Single(h \div 32768, 255, (h % 1024) * 8192)
      BY <1>1, <3>2 DEF f16_to_f32
    <3>4. (h % 1024) * 8192 \in Nat
      BY <3>1
    <3> QED
      BY <3>1, <3>3, <3>4 DEF Single
  <2>2. h % 32768 >= 31744
    <3>1. PICK s1 \in {0, 1}, f1 \in 0..1023 : h = s1 * 32768 + 31744 + f1
      <4>1. (h \div 1024) % 32 = 31
        BY <1>3 DEF Finite
      <4>2. /\ h \div 32768 \in {0, 1} /\ h % 1024 \in 0..1023
            /\ h = (h \div 32768) * 32768 + 31 * 1024 + (h % 1024)
        BY <4>1, HalfParts DEF Parts
      <4> QED
        BY <4>2
    <3>2. h % 32768 = 31744 + f1
      BY <3>1
    <3> QED
      BY <3>2
  <2>3. w.exp = 255 /\ w.sign = s
    BY <2>1
  <2> QED
    BY <1>1, <1>3, <2>1, <2>2, <2>3 DEF Nearest
<1> QED
  BY <1>2, <1>3

-----------------------------------------------------------------------------
\* One of the two has been given, and the other is empty or converted from it.
HalfInv ==
    \/ half \in Nat /\ half < 65536 /\ single \in {NoSingle, f16_to_f32(half)}
    \/ single \in Singles /\ half = NoHalf
    \/ single \in Singles /\ single # NoSingle /\ half = f32_to_f16(single)

\* Every conversion between a half and a single that the model can make gives
\* the nearest: f32_to_f16 of any single, and f16_to_f32 of any half, which
\* f32_to_f16 takes back to the half it came from.
THEOREM HalvesNearest == HalfSpec => []HalfNearest
<1>1. HalfInit => HalfInv
  <2> SUFFICES ASSUME HalfInit PROVE HalfInv
    OBVIOUS
  <2>1. CASE half \in 0..NoHalf - 1 /\ single = NoSingle
    <3>1. NoHalf = 65536
      BY DEF NoHalf
    <3>2. half \in Nat /\ half < 65536
      <4>1. NoHalf \in Int
        BY <3>1
      <4>2. half \in Nat /\ half <= NoHalf - 1
        BY <2>1, <4>1
      <4> QED
        BY <3>1, <4>2
    <3> QED
      BY <2>1, <3>2 DEF HalfInv
  <2>2. CASE half = NoHalf /\ single \in [sign : {0, 1}, exp : Exponents, frac : Fractions]
    <3>1. 2^23 = 8388608
      OBVIOUS
    <3>2. /\ single \in [sign : {0, 1}, exp : Nat, frac : Nat]
          /\ single.frac \in Fractions /\ single.exp < 256
      <4>1. Exponents \subseteq 0..255 /\ Fractions \subseteq Nat
        BY HalfAssumption
      <4>2. PICK s \in {0, 1}, e \in Exponents, f \in Fractions :
              single = [sign |-> s, exp |-> e, frac |-> f]
        BY <2>2
      <4>3. e \in Nat /\ e < 256 /\ f \in Nat
        BY <4>1
      <4> QED
        BY <4>2, <4>3
    <3>3. single.frac < 8388608
      BY <3>1, <3>2, HalfAssumption
    <3>4. single \in Singles
      BY <3>2, <3>3 DEF Singles
    <3> QED
      BY <2>2, <3>4 DEF HalfInv
  <2> QED
    BY <2>1, <2>2 DEF HalfInit
<1>2. HalfInv /\ [HalfNext]_halfvars => HalfInv'
  <2> SUFFICES ASSUME HalfInv, [HalfNext]_halfvars PROVE HalfInv'
    OBVIOUS
  <2>1. CASE Widen
    <3>1. half # NoHalf /\ single = NoSingle /\ single' = f16_to_f32(half) /\ half' = half
      BY <2>1 DEF Widen
    <3>2. half \in Nat /\ half < 65536
      BY <3>1 DEF HalfInv
    <3>3. half' \in Nat /\ half' < 65536 /\ single' = f16_to_f32(half')
      BY <3>1, <3>2
    <3> QED
      BY <3>3 DEF HalfInv
  <2>2. CASE Narrow
    <3>1. half = NoHalf /\ half' = f32_to_f16(single) /\ single' = single /\ single # NoSingle
      BY <2>2 DEF Narrow
    <3>2. single \in Singles
      BY <3>1 DEF HalfInv, NoHalf
    <3>3. single' \in Singles /\ single' # NoSingle /\ half' = f32_to_f16(single')
      BY <3>1, <3>2
    <3> QED
      BY <3>3 DEF HalfInv
  <2>3. CASE UNCHANGED halfvars
    BY <2>3 DEF HalfInv, halfvars
  <2> QED
    BY <2>1, <2>2, <2>3 DEF HalfNext
<1>3. HalfInv => HalfNearest
  <2> SUFFICES ASSUME HalfInv, half # NoHalf, single # NoSingle
               PROVE  Nearest(single, half) /\ (Finite(half) => f32_to_f16(single) = half)
    BY DEF HalfNearest
  <2>1. CASE half \in Nat /\ half < 65536 /\ single = f16_to_f32(half)
    <3>1. PICK h \in Nat : h = half
      BY <2>1
    <3> QED
      BY <2>1, <3>1, WidenNearest, WidenBack
  <2>2. CASE single \in Singles /\ half = f32_to_f16(single)
    <3>1. PICK v \in Singles : v = single
      BY <2>2
    <3> QED
      BY <2>2, <3>1, NarrowNearest
  <2> QED
    BY <2>1, <2>2 DEF HalfInv
<1> QED
  BY <1>1, <1>2, <1>3, PTL DEF HalfSpec

-----------------------------------------------------------------------------
(* Sampling: totals of weights *)

\* A total of weights, term by term.
TotalRun(g, f, n) ==
    /\ Total(f, n) = g[n]
    /\ g[0] = 0
    /\ \A j \in 1..n : g[j] = g[j - 1] + f[j]

\* The recursion of a total has its steps.
LEMMA TotalUnfolds ==
    ASSUME NEW f, NEW n, n \in Nat
    PROVE  \E g : TotalRun(g, f, n)
<1> DEFINE Body(g, i) == [j \in 0..i |-> IF j = 0 THEN 0 ELSE g[j - 1] + f[j]]
           S == {i \in Nat : \E g : g = Body(g, i)}
<1>1. 0 \in S
  <2>1. [j \in 0..0 |-> 0] = Body([j \in 0..0 |-> 0], 0)
    OBVIOUS
  <2> QED
    BY <2>1
<1>2. ASSUME NEW i \in Nat, i \in S PROVE i + 1 \in S
  <2>1. PICK g : g = Body(g, i)
    BY <1>2
  <2> DEFINE h == [j \in 0..i + 1 |-> IF j <= i THEN g[j] ELSE g[i] + f[i + 1]]
  <2>2. ASSUME NEW j \in 0..i + 1
        PROVE  h[j] = IF j = 0 THEN 0 ELSE h[j - 1] + f[j]
    <3>1. CASE j = 0
      BY <2>1, <3>1
    <3>2. CASE j # 0 /\ j <= i
      <4>1. g[j] = g[j - 1] + f[j]
        BY <2>1, <3>2
      <4>2. h[j] = g[j] /\ h[j - 1] = g[j - 1]
        BY <3>2
      <4> QED
        BY <3>2, <4>1, <4>2
    <3>3. CASE j = i + 1
      BY <3>3
    <3> QED
      BY <3>1, <3>2, <3>3
  <2>3. h = Body(h, i + 1)
    BY <2>2
  <2> HIDE DEF h, Body
  <2> QED
    BY <2>3
<1>3. n \in S
  <2> HIDE DEF S
  <2> QED
    BY <1>1, <1>2, Induction
<1>4. \E g : g = Body(g, n)
  BY <1>3
<1> DEFINE G == CHOOSE g : g = Body(g, n)
<1>5. G = Body(G, n)
  BY <1>4
<1>6. Total(f, n) = G[n]
  BY DEF Total
<1> HIDE DEF G
<1>7. G[0] = 0 /\ \A j \in 1..n : G[j] = G[j - 1] + f[j]
  BY <1>5
<1> QED
  BY <1>6, <1>7 DEF TotalRun

\* The empty total,
LEMMA TotalZero == ASSUME NEW f PROVE Total(f, 0) = 0
<1>1. PICK g : TotalRun(g, f, 0)
  BY TotalUnfolds
<1> QED
  BY <1>1 DEF TotalRun

\* and one term more.
LEMMA TotalNext == ASSUME NEW f, NEW n \in Nat PROVE Total(f, n + 1) = Total(f, n) + f[n + 1]
<1>1. PICK g : TotalRun(g, f, n)
  BY TotalUnfolds
<1>2. PICK h : TotalRun(h, f, n + 1)
  BY TotalUnfolds
<1>3. Total(f, n) = g[n] /\ g[0] = 0 /\ \A j \in 1..n : g[j] = g[j - 1] + f[j]
  BY <1>1 DEF TotalRun
<1>4. Total(f, n + 1) = h[n + 1] /\ h[0] = 0 /\ \A j \in 1..n + 1 : h[j] = h[j - 1] + f[j]
  BY <1>2 DEF TotalRun
<1> DEFINE S == {j \in 0..n : g[j] = h[j]}
<1>5. 0 \in S
  BY <1>3, <1>4
<1>6. ASSUME NEW j \in 0..n - 1, j \in S PROVE j + 1 \in S
  <2>1. j + 1 \in 1..n /\ j + 1 \in 1..n + 1 /\ (j + 1) - 1 = j /\ j + 1 \in 0..n
    OBVIOUS
  <2>2. g[j + 1] = g[j] + f[j + 1] /\ h[j + 1] = h[j] + f[j + 1]
    BY <1>3, <1>4, <2>1
  <2> QED
    BY <1>6, <2>1, <2>2
<1>7. 0..n \subseteq S
  <2> HIDE DEF S
  <2> QED
    BY <1>5, <1>6, Climb
<1>8. g[n] = h[n]
  BY <1>7
<1>9. n + 1 \in 1..n + 1 /\ (n + 1) - 1 = n
  OBVIOUS
<1>10. h[n + 1] = h[n] + f[n + 1]
  BY <1>4, <1>9
<1> QED
  BY <1>3, <1>4, <1>8, <1>10

\* The first n weights.
NatTerms(f, n) == \A k \in 1..n : f[k] \in Nat

\* A total of weights is a natural number, and no less with more of them.
LEMMA TotalGrows ==
    ASSUME NEW f, NEW n \in Nat, NatTerms(f, n)
    PROVE  \A k \in 0..n : Total(f, k) \in Nat /\ \A j \in 0..k : Total(f, j) <= Total(f, k)
<1> DEFINE S == {k \in 0..n : Total(f, k) \in Nat /\ \A j \in 0..k : Total(f, j) \in Nat /\ Total(f, j) <= Total(f, k)}
<1>1. 0 \in S
  BY TotalZero
<1>2. ASSUME NEW k \in 0..n - 1, k \in S PROVE k + 1 \in S
  <2>1. Total(f, k + 1) = Total(f, k) + f[k + 1] /\ f[k + 1] \in Nat
    BY TotalNext DEF NatTerms
  <2>2. Total(f, k) \in Nat /\ \A j \in 0..k : Total(f, j) \in Nat /\ Total(f, j) <= Total(f, k)
    BY <1>2
  <2>3. Total(f, k + 1) \in Nat /\ Total(f, k) <= Total(f, k + 1)
    BY <2>1, <2>2
  <2>4. ASSUME NEW j \in 0..k + 1 PROVE Total(f, j) \in Nat /\ Total(f, j) <= Total(f, k + 1)
    <3>1. CASE j \in 0..k
      BY <2>2, <2>3, <3>1
    <3>2. CASE j = k + 1
      BY <2>3, <3>2
    <3> QED
      BY <3>1, <3>2
  <2> QED
    BY <2>3, <2>4
<1>3. 0..n \subseteq S
  <2> HIDE DEF S
  <2> QED
    BY <1>1, <1>2, Climb
<1> QED
  BY <1>3

\* A total depends only on the weights it adds.
LEMMA TotalSame ==
    ASSUME NEW f, NEW h, NEW n \in Nat, \A k \in 1..n : f[k] = h[k]
    PROVE  Total(f, n) = Total(h, n)
<1> DEFINE S == {k \in 0..n : Total(f, k) = Total(h, k)}
<1>1. 0 \in S
  BY TotalZero
<1>2. ASSUME NEW k \in 0..n - 1, k \in S PROVE k + 1 \in S
  <2>1. Total(f, k + 1) = Total(f, k) + f[k + 1] /\ Total(h, k + 1) = Total(h, k) + h[k + 1]
    BY TotalNext
  <2>2. f[k + 1] = h[k + 1]
    OBVIOUS
  <2> QED
    BY <1>2, <2>1, <2>2
<1>3. 0..n \subseteq S
  <2> HIDE DEF S
  <2> QED
    BY <1>1, <1>2, Climb
<1> QED
  BY <1>3

\* Weights that are nothing do not add to it.
LEMMA TotalRest ==
    ASSUME NEW f, NEW m \in Nat, NEW n \in Nat, m <= n, NatTerms(f, m), \A k \in m + 1..n : f[k] = 0
    PROVE  Total(f, n) = Total(f, m)
<1> DEFINE S == {k \in 0..n : k >= m => Total(f, k) = Total(f, m)}
<1>0. Total(f, m) \in Nat
  BY TotalGrows
<1>1. 0 \in S
  OBVIOUS
<1>2. ASSUME NEW k \in 0..n - 1, k \in S PROVE k + 1 \in S
  <2>1. Total(f, k + 1) = Total(f, k) + f[k + 1]
    BY TotalNext
  <2>2. CASE k >= m
    <3>1. f[k + 1] = 0 /\ Total(f, k) = Total(f, m)
      BY <1>2, <2>2
    <3> QED
      BY <1>0, <2>1, <3>1
  <2>3. CASE k < m
    BY <2>3
  <2> QED
    BY <2>2, <2>3
<1>3. 0..n \subseteq S
  <2> HIDE DEF S
  <2> QED
    BY <1>1, <1>2, Climb
<1> QED
  BY <1>3

-----------------------------------------------------------------------------
(* Sampling: the heap of candidates *)

Places == 0..TOP_K - 1

\* The candidates' logits can be compared.
Keys(h) == \A k \in Places : h[k][1] \in Int /\ h[k][1] >= NegInf

\* The children of a node,
ChildOf(j, k) == k = 2 * j + 1 \/ k = 2 * j + 2

\* the order of the heap, and what is left of it while node n is sifted down:
\* only n may be larger than its children, which are no smaller than n's parent.
Order(h) == \A j, k \in Places : ChildOf(j, k) => h[j][1] <= h[k][1]
OrderBut(h, n) ==
    /\ \A j, k \in Places : ChildOf(j, k) /\ j # n => h[j][1] <= h[k][1]
    /\ \A i, k \in Places : ChildOf(i, n) /\ ChildOf(n, k) => h[i][1] <= h[k][1]

\* The root of a heap is its smallest candidate.
LEMMA RootLeast ==
    ASSUME NEW h, Keys(h), Order(h)
    PROVE  \A k \in Places : h[0][1] <= h[k][1]
<1>0. TOP_K \in Nat \ {0}
  BY SamplerAssumption
<1> SUFFICES ASSUME NEW z \in Places, ~(h[0][1] <= h[z][1]) PROVE FALSE
  OBVIOUS
<1> DEFINE T == {k \in Places : ~(h[0][1] <= h[k][1])}
<1>1. T \in SUBSET Nat /\ T # {}
  BY <1>0 DEF Places
<1>2. PICK k \in T : \A j \in T : k <= j
  <2> HIDE DEF T
  <2> QED
    BY <1>1, Least
<1>3. k \in Places /\ k \in Nat /\ k < TOP_K /\ ~(h[0][1] <= h[k][1])
  BY <1>0 DEF Places
<1>4. k # 0
  <2>1. 0 \in Places
    BY <1>0 DEF Places
  <2> QED
    BY <1>3, <2>1 DEF Keys
<1>5. PICK j \in Nat : ChildOf(j, k) /\ j < k
  <2>1. (k - 1) \div 2 \in Nat /\ (k = 2 * ((k - 1) \div 2) + 1 \/ k = 2 * ((k - 1) \div 2) + 2)
    BY <1>3, <1>4
  <2> QED
    BY <1>3, <1>4, <2>1 DEF ChildOf
<1>6. j \in Places /\ 0 \in Places
  BY <1>0, <1>3, <1>5 DEF Places
<1>7. h[j][1] <= h[k][1]
  BY <1>3, <1>5, <1>6 DEF Order
<1>8. j \notin T
  BY <1>2, <1>3, <1>5
<1>9. h[0][1] <= h[j][1]
  BY <1>6, <1>8
<1> QED
  BY <1>3, <1>6, <1>7, <1>9 DEF Keys, NegInf

\* The smallest of a node and its children.
Smallest(h, n, s) ==
    /\ s \in Places /\ (s = n \/ ChildOf(n, s))
    /\ h[s][1] <= h[n][1]
    /\ \A k \in Places : ChildOf(n, k) => h[s][1] <= h[k][1]

\* SmallestChild finds it (sift, sample.rs).
LEMMA SmallestFound ==
    ASSUME NEW h, NEW n \in Places, Keys(h)
    PROVE  Smallest(h, n, SmallestChild(h, n))
<1>0. TOP_K \in Nat \ {0} /\ n \in Nat /\ n < TOP_K
  BY SamplerAssumption DEF Places
<1> DEFINE l == 2 * n + 1
           r == 2 * n + 2
           m == IF l < TOP_K /\ h[l][1] < h[n][1] THEN l ELSE n
           s == IF r < TOP_K /\ h[r][1] < h[m][1] THEN r ELSE m
<1>1. \A j, k \in Places : Less(h[j][1], h[k][1]) <=> h[j][1] < h[k][1]
  BY DEF Less, Greater, Keys, NaN, NegInf
<1>2. l \in Nat /\ r \in Nat /\ (l < TOP_K => l \in Places) /\ (r < TOP_K => r \in Places)
  BY <1>0 DEF Places
<1>3. m \in Places /\ h[m][1] <= h[n][1] /\ (l < TOP_K => h[m][1] <= h[l][1]) /\ (m = n \/ m = l)
  BY <1>2 DEF Keys
<1>4. SmallestChild(h, n) = s
  <2>1. m = IF l < TOP_K /\ Less(h[l][1], h[n][1]) THEN l ELSE n
    BY <1>1, <1>2
  <2>2. s = IF r < TOP_K /\ Less(h[r][1], h[m][1]) THEN r ELSE m
    BY <1>1, <1>2, <1>3
  <2> HIDE DEF m, s
  <2> QED
    BY <2>1, <2>2 DEF SmallestChild
<1> HIDE DEF m
<1>5. s \in Places /\ h[s][1] <= h[m][1] /\ (r < TOP_K => h[s][1] <= h[r][1]) /\ (s = m \/ s = r)
  BY <1>2, <1>3 DEF Keys
<1> HIDE DEF s
<1>6. h[s][1] <= h[n][1] /\ (l < TOP_K => h[s][1] <= h[l][1])
  BY <1>2, <1>3, <1>5 DEF Keys
<1>7. ASSUME NEW k \in Places, ChildOf(n, k) PROVE h[s][1] <= h[k][1]
  <2>1. k < TOP_K
    BY <1>0 DEF Places
  <2> QED
    BY <1>5, <1>6, <1>7, <2>1 DEF ChildOf
<1> QED
  BY <1>3, <1>4, <1>5, <1>6, <1>7 DEF Smallest, ChildOf

\* A node that is no larger than its children is in order,
LEMMA SiftStops ==
    ASSUME NEW h, NEW n \in Places, Smallest(h, n, n), OrderBut(h, n)
    PROVE  Order(h)
BY DEF Order, OrderBut, Smallest

\* The heap with two candidates exchanged.
Exchanged(h, g, n, s) == /\ g[n] = h[s] /\ g[s] = h[n]
                         /\ \A k \in Places : k # n /\ k # s => g[k] = h[k]

\* and one that changes place with the smallest moves the disorder down.
LEMMA SiftDescends ==
    ASSUME NEW h, NEW g, NEW n \in Places, NEW s \in Places, s # n,
           Keys(h), Smallest(h, n, s), OrderBut(h, n), Exchanged(h, g, n, s)
    PROVE  OrderBut(g, s)
<1>0. TOP_K \in Nat \ {0} /\ Places \subseteq Nat
  BY SamplerAssumption DEF Places
<1>1. ChildOf(n, s) /\ h[s][1] <= h[n][1] /\ \A k \in Places : ChildOf(n, k) => h[s][1] <= h[k][1]
  BY DEF Smallest
<1>2. \A j, k \in Places : ChildOf(j, k) => j < k
  BY <1>0 DEF ChildOf
<1>3. \A i, j, k \in Places : ChildOf(i, k) /\ ChildOf(j, k) => i = j
  BY <1>0 DEF ChildOf
<1>4. ASSUME NEW j \in Places, NEW k \in Places, ChildOf(j, k), j # s
      PROVE  g[j][1] <= g[k][1]
  <2>1. CASE j = n
    <3>1. g[j] = h[s]
      BY <2>1 DEF Exchanged
    <3>2. CASE k = s
      BY <1>1, <3>1, <3>2 DEF Exchanged
    <3>3. CASE k # s
      <4>1. k # n
        BY <1>0, <1>2, <1>4, <2>1
      <4>2. g[k] = h[k]
        BY <3>3, <4>1 DEF Exchanged
      <4> QED
        BY <1>1, <1>4, <2>1, <3>1, <4>2
    <3> QED
      BY <3>2, <3>3
  <2>2. CASE j # n
    <3>1. g[j] = h[j]
      BY <1>4, <2>2 DEF Exchanged
    <3>2. k # s
      BY <1>1, <1>3, <1>4, <2>2
    <3>3. CASE k = n
      <4>1. g[k] = h[s]
        BY <3>3 DEF Exchanged
      <4>2. h[j][1] <= h[s][1]
        BY <1>1, <1>4, <3>3 DEF OrderBut
      <4> QED
        BY <3>1, <4>1, <4>2
    <3>4. CASE k # n
      <4>1. g[k] = h[k]
        BY <3>2, <3>4 DEF Exchanged
      <4> QED
        BY <1>4, <2>2, <3>1, <4>1 DEF OrderBut
    <3> QED
      BY <3>3, <3>4
  <2> QED
    BY <2>1, <2>2
<1>5. ASSUME NEW i \in Places, NEW k \in Places, ChildOf(i, s), ChildOf(s, k)
      PROVE  g[i][1] <= g[k][1]
  <2>1. i = n
    BY <1>1, <1>3, <1>5
  <2>2. g[i] = h[s]
    BY <2>1 DEF Exchanged
  <2>3. k # s /\ k # n
    BY <1>0, <1>1, <1>2, <1>5
  <2>4. g[k] = h[k]
    BY <2>3 DEF Exchanged
  <2>5. h[s][1] <= h[k][1]
    BY <1>5 DEF OrderBut
  <2> QED
    BY <2>2, <2>4, <2>5
<1> QED
  BY <1>4, <1>5 DEF OrderBut

\* A new candidate at the root disturbs only the order with its children.
LEMMA RootReplaced ==
    ASSUME NEW h, NEW g, Order(h), \A k \in Places : k # 0 => g[k] = h[k]
    PROVE  OrderBut(g, 0)
<1>0. TOP_K \in Nat \ {0} /\ Places \subseteq Nat
  BY SamplerAssumption DEF Places
<1>1. ASSUME NEW j \in Places, NEW k \in Places, ChildOf(j, k), j # 0
      PROVE  g[j][1] <= g[k][1]
  <2>1. k # 0
    BY <1>0, <1>1 DEF ChildOf
  <2> QED
    BY <1>1, <2>1 DEF Order
<1>2. ASSUME NEW i \in Places PROVE ~ChildOf(i, 0)
  BY <1>0 DEF ChildOf
<1> QED
  BY <1>1, <1>2 DEF OrderBut

-----------------------------------------------------------------------------
(* Sampling: how many candidates are above a value *)

\* The candidates above v, and the first n tokens that are.
Above(h, v) == {k \in Places : h[k][1] > v}
Seen(ls, n, v) == {t \in 0..n - 1 : ls[t] > v}

\* The heap has the TOP_K largest: above every value as many as the tokens, up to TOP_K.
UpTo(n) == IF n < TOP_K THEN n ELSE TOP_K
Counted(h, ls, n) ==
    \A v \in Int : v >= NegInf => Cardinality(Above(h, v)) = UpTo(Cardinality(Seen(ls, n, v)))

\* At most TOP_K candidates are above a value,
LEMMA AboveFinite ==
    ASSUME NEW h, NEW v
    PROVE  IsFiniteSet(Above(h, v)) /\ Cardinality(Above(h, v)) \in Nat /\ Cardinality(Above(h, v)) <= TOP_K
<1>1. TOP_K \in Nat \ {0}
  BY SamplerAssumption
<1>2. IsFiniteSet(Places) /\ Cardinality(Places) = TOP_K
  BY <1>1, FS_Interval DEF Places
<1>3. Above(h, v) \in SUBSET Places
  BY DEF Above
<1>4. IsFiniteSet(Above(h, v)) /\ Cardinality(Above(h, v)) <= TOP_K
  BY <1>2, <1>3, FS_Subset
<1> QED
  BY <1>4, FS_CardinalityType

\* and finitely many tokens.
LEMMA SeenFinite ==
    ASSUME NEW ls, NEW n \in Nat, NEW v
    PROVE  IsFiniteSet(Seen(ls, n, v)) /\ Cardinality(Seen(ls, n, v)) \in Nat
<1>1. IsFiniteSet(0..n - 1)
  BY FS_Interval
<1>2. Seen(ls, n, v) \in SUBSET (0..n - 1)
  BY DEF Seen
<1>3. IsFiniteSet(Seen(ls, n, v))
  BY <1>1, <1>2, FS_Subset
<1> QED
  BY <1>3, FS_CardinalityType

\* One token more.
LEMMA SeenNext ==
    ASSUME NEW ls, NEW n \in Nat, NEW v
    PROVE  Cardinality(Seen(ls, n + 1, v)) = Cardinality(Seen(ls, n, v)) + (IF ls[n] > v THEN 1 ELSE 0)
<1>1. IsFiniteSet(Seen(ls, n, v)) /\ Cardinality(Seen(ls, n, v)) \in Nat
  BY SeenFinite
<1>2. CASE ls[n] > v
  <2>1. Seen(ls, n + 1, v) = Seen(ls, n, v) \cup {n} /\ n \notin Seen(ls, n, v)
    BY <1>2 DEF Seen
  <2> QED
    BY <1>1, <1>2, <2>1, FS_AddElement
<1>3. CASE ~(ls[n] > v)
  <2>1. Seen(ls, n + 1, v) = Seen(ls, n, v)
    BY <1>3 DEF Seen
  <2> QED
    BY <1>1, <1>3, <2>1
<1> QED
  BY <1>2, <1>3

\* Exchanging two candidates does not change how many there are.
LEMMA ExchangeCounts ==
    ASSUME NEW h, NEW g, NEW n \in Places, NEW s \in Places, s # n, Exchanged(h, g, n, s), NEW v
    PROVE  Cardinality(Above(g, v)) = Cardinality(Above(h, v))
<1>1. IsFiniteSet(Above(h, v)) /\ Cardinality(Above(h, v)) \in Nat
  BY AboveFinite
<1>2. /\ n \in Above(g, v) <=> s \in Above(h, v)
      /\ s \in Above(g, v) <=> n \in Above(h, v)
      /\ \A k \in Places : k # n /\ k # s => (k \in Above(g, v) <=> k \in Above(h, v))
  BY DEF Above, Exchanged
<1>3. Above(g, v) \subseteq Places /\ Above(h, v) \subseteq Places
  BY DEF Above
<1>4. CASE n \in Above(h, v) <=> s \in Above(h, v)
  <2>1. Above(g, v) = Above(h, v)
    BY <1>2, <1>3, <1>4
  <2> QED
    BY <2>1
<1>5. ASSUME NEW x \in Places, NEW y0 \in Places, {x, y0} = {n, s}, x \in Above(h, v), y0 \notin Above(h, v)
      PROVE  Cardinality(Above(g, v)) = Cardinality(Above(h, v))
  <2>1. Above(g, v) = (Above(h, v) \ {x}) \cup {y0}
    BY <1>2, <1>3, <1>5
  <2>2. IsFiniteSet(Above(h, v) \ {x}) /\ Cardinality(Above(h, v) \ {x}) = Cardinality(Above(h, v)) - 1
    BY <1>1, <1>5, FS_RemoveElement
  <2>3. PICK R : R = Above(h, v) \ {x}
    OBVIOUS
  <2>4. y0 \notin R /\ IsFiniteSet(R) /\ Cardinality(R) = Cardinality(Above(h, v)) - 1 /\ Above(g, v) = R \cup {y0}
    BY <1>5, <2>1, <2>2, <2>3
  <2>5. Cardinality(R \cup {y0}) = Cardinality(R) + 1
    BY <2>4, FS_AddElement
  <2> QED
    BY <1>1, <2>4, <2>5
<1> QED
  BY <1>4, <1>5

\* A token above the smallest candidate takes its place,
LEMMA TakenCounts ==
    ASSUME NEW h, NEW g, NEW ls, NEW n \in Nat, Keys(h), Order(h), Counted(h, ls, n),
           ls[n] \in Int, ls[n] > h[0][1], g[0][1] = ls[n], \A k \in Places : k # 0 => g[k] = h[k]
    PROVE  Counted(g, ls, n + 1)
<1>0. TOP_K \in Nat \ {0} /\ 0 \in Places /\ h[0][1] \in Int
  BY SamplerAssumption DEF Places, Keys
<1> SUFFICES ASSUME NEW v \in Int, v >= NegInf
             PROVE  Cardinality(Above(g, v)) = UpTo(Cardinality(Seen(ls, n + 1, v)))
  BY DEF Counted
<1>1. IsFiniteSet(Above(h, v)) /\ Cardinality(Above(h, v)) \in Nat /\ Cardinality(Above(h, v)) <= TOP_K
  BY AboveFinite
<1>2. Cardinality(Seen(ls, n, v)) \in Nat
  BY SeenFinite
<1>3. Cardinality(Seen(ls, n + 1, v)) = Cardinality(Seen(ls, n, v)) + (IF ls[n] > v THEN 1 ELSE 0)
  BY SeenNext
<1>4. Cardinality(Above(h, v)) = UpTo(Cardinality(Seen(ls, n, v)))
  BY DEF Counted
<1>5. CASE ~(ls[n] > v)
  <2>1. ~(h[0][1] > v)
    BY <1>0, <1>5
  <2>2. Above(g, v) = Above(h, v)
    BY <1>5, <2>1 DEF Above
  <2> QED
    BY <1>2, <1>3, <1>4, <1>5, <2>2
<1>6. CASE ls[n] > v /\ h[0][1] > v
  <2>1. \A k \in Places : h[k][1] > v /\ g[k][1] > v
    <3>1. \A k \in Places : h[0][1] <= h[k][1]
      BY RootLeast
    <3>2. \A k \in Places : h[k][1] > v
      BY <1>0, <1>6, <3>1 DEF Keys
    <3> QED
      BY <1>6, <3>2
  <2>2. Above(g, v) = Places /\ Above(h, v) = Places
    BY <2>1 DEF Above
  <2>3. Cardinality(Places) = TOP_K
    BY <1>0, FS_Interval DEF Places
  <2>4. Cardinality(Seen(ls, n, v)) >= TOP_K
    BY <1>0, <1>2, <1>4, <2>2, <2>3 DEF UpTo
  <2> QED
    BY <1>0, <1>2, <1>3, <1>6, <2>2, <2>3, <2>4 DEF UpTo
<1>7. CASE ls[n] > v /\ ~(h[0][1] > v)
  <2>1. Above(g, v) = Above(h, v) \cup {0} /\ 0 \notin Above(h, v)
    BY <1>0, <1>7 DEF Above
  <2>2. IsFiniteSet(Above(g, v)) /\ Cardinality(Above(g, v)) = Cardinality(Above(h, v)) + 1
    BY <1>1, <2>1, FS_AddElement
  <2>3. Cardinality(Above(g, v)) <= TOP_K
    BY AboveFinite
  <2>4. Cardinality(Seen(ls, n, v)) < TOP_K
    BY <1>0, <1>1, <1>2, <1>4, <2>2, <2>3 DEF UpTo
  <2> QED
    BY <1>0, <1>1, <1>2, <1>3, <1>4, <1>7, <2>2, <2>3, <2>4 DEF UpTo
<1> QED
  BY <1>5, <1>6, <1>7

\* and one that is not above it is none of the TOP_K largest.
LEMMA LeftCounts ==
    ASSUME NEW h, NEW ls, NEW n \in Nat, Keys(h), Order(h), Counted(h, ls, n),
           ls[n] \in Int, ~Greater(ls[n], h[0][1])
    PROVE  Counted(h, ls, n + 1)
<1>0. TOP_K \in Nat \ {0} /\ 0 \in Places /\ h[0][1] \in Int /\ h[0][1] >= -1
  BY SamplerAssumption DEF Places, Keys, NegInf
<1> SUFFICES ASSUME NEW v \in Int, v >= NegInf
             PROVE  Cardinality(Above(h, v)) = UpTo(Cardinality(Seen(ls, n + 1, v)))
  BY DEF Counted
<1>1. Cardinality(Above(h, v)) \in Nat /\ Cardinality(Above(h, v)) <= TOP_K
  BY AboveFinite
<1>2. Cardinality(Seen(ls, n, v)) \in Nat
  BY SeenFinite
<1>3. Cardinality(Seen(ls, n + 1, v)) = Cardinality(Seen(ls, n, v)) + (IF ls[n] > v THEN 1 ELSE 0)
  BY SeenNext
<1>4. Cardinality(Above(h, v)) = UpTo(Cardinality(Seen(ls, n, v)))
  BY DEF Counted
<1>5. CASE ~(ls[n] > v)
  BY <1>2, <1>3, <1>4, <1>5
<1>6. CASE ls[n] > v
  <2>1. h[0][1] > v
    <3>1. ls[n] # NaN /\ h[0][1] # NaN
      BY <1>0, <1>6 DEF NaN, NegInf
    <3> QED
      BY <1>0, <1>6, <3>1 DEF Greater
  <2>2. \A k \in Places : h[k][1] > v
    <3>1. \A k \in Places : h[0][1] <= h[k][1]
      BY RootLeast
    <3> QED
      BY <1>0, <2>1, <3>1 DEF Keys
  <2>3. Above(h, v) = Places
    BY <2>2 DEF Above
  <2>4. Cardinality(Places) = TOP_K
    BY <1>0, FS_Interval DEF Places
  <2>5. Cardinality(Seen(ls, n, v)) >= TOP_K
    BY <1>0, <1>2, <1>4, <2>3, <2>4 DEF UpTo
  <2> QED
    BY <1>0, <1>2, <1>3, <1>6, <2>3, <2>4, <2>5 DEF UpTo
<1> QED
  BY <1>5, <1>6

\* At first both are empty.
LEMMA EmptyCounts == ASSUME NEW ls PROVE Counted(Empty, ls, 0)
<1> SUFFICES ASSUME NEW v \in Int, v >= NegInf
             PROVE  Cardinality(Above(Empty, v)) = UpTo(Cardinality(Seen(ls, 0, v)))
  BY DEF Counted
<1>1. TOP_K \in Nat \ {0}
  BY SamplerAssumption
<1>2. Above(Empty, v) = {}
  BY DEF Above, Empty, NegInf, Places
<1>3. Seen(ls, 0, v) = {}
  BY DEF Seen
<1> QED
  BY <1>1, <1>2, <1>3, FS_EmptySet DEF UpTo

-----------------------------------------------------------------------------
(* Sampling: the candidates sorted *)

\* The candidates c are those of the heap, in the order p and from the largest.
SortedBy(c, p) ==
    /\ p \in Bijection(1..TOP_K, Places)
    /\ c = [k \in 1..TOP_K |-> heap[p[k]]]
    /\ \A k \in 1..TOP_K - 1 : ~Less(c[k][1], c[k + 1][1])

\* Sorting permutes the heap.
LEMMA SortedPermutes ==
    ASSUME NEW c \in Sorted
    PROVE  \E p : SortedBy(c, p)
<1>1. PICK p \in Bijection(1..TOP_K, 0..TOP_K - 1) : c = [k \in 1..TOP_K |-> heap[p[k]]]
  BY DEF Sorted
<1>2. \A k \in 1..TOP_K - 1 : ~Less(c[k][1], c[k + 1][1])
  BY DEF Sorted
<1>3. SortedBy(c, p)
  BY <1>1, <1>2 DEF SortedBy, Places
<1> QED
  BY <1>3

\* Each is one of the heap, and none is larger than one before it.
LEMMA SortedFalls ==
    ASSUME NEW c, NEW p, SortedBy(c, p), Keys(heap)
    PROVE  /\ \A k \in 1..TOP_K : p[k] \in Places /\ c[k] = heap[p[k]] /\ c[k][1] \in Int /\ c[k][1] >= NegInf
           /\ \A j, k \in 1..TOP_K : j <= k => c[k][1] <= c[j][1]
<1>0. TOP_K \in Nat \ {0}
  BY SamplerAssumption
<1>1. p \in [1..TOP_K -> Places]
  BY DEF SortedBy, Bijection, Injection
<1>2. ASSUME NEW k \in 1..TOP_K PROVE p[k] \in Places /\ c[k] = heap[p[k]] /\ c[k][1] \in Int /\ c[k][1] >= NegInf
  BY <1>1 DEF SortedBy, Keys
<1>3. ASSUME NEW k \in 1..TOP_K - 1 PROVE c[k + 1][1] <= c[k][1]
  <2>1. k \in 1..TOP_K /\ k + 1 \in 1..TOP_K /\ ~Less(c[k][1], c[k + 1][1])
    BY <1>0 DEF SortedBy
  <2>2. c[k][1] \in Int /\ c[k + 1][1] \in Int /\ c[k][1] >= -1 /\ c[k + 1][1] >= -1
    BY <1>2, <2>1 DEF NegInf
  <2> QED
    BY <2>1, <2>2 DEF Less, Greater, NaN
<1>4. ASSUME NEW j \in 1..TOP_K, NEW k \in 1..TOP_K, j <= k PROVE c[k][1] <= c[j][1]
  <2> DEFINE S == {i \in 0..TOP_K : j <= i => c[i][1] <= c[j][1]}
  <2>1. 0 \in S
    BY <1>0
  <2>2. ASSUME NEW i \in 0..TOP_K - 1, i \in S PROVE i + 1 \in S
    <3>1. CASE j = i + 1
      BY <1>0, <1>2, <3>1
    <3>2. CASE j > i + 1
      BY <1>0, <3>2
    <3>3. CASE j <= i
      <4>1. i \in 1..TOP_K - 1 /\ i \in 1..TOP_K /\ i + 1 \in 1..TOP_K
        BY <1>0, <3>3
      <4>2. c[i][1] <= c[j][1] /\ c[i + 1][1] <= c[i][1]
        BY <1>3, <2>2, <3>3, <4>1
      <4>3. c[i + 1][1] <= c[j][1]
        BY <1>2, <4>1, <4>2
      <4> QED
        BY <4>1, <4>3
    <3> QED
      BY <1>0, <3>1, <3>2, <3>3
  <2>3. 0..TOP_K \subseteq S
    <3> HIDE DEF S
    <3> QED
      BY <1>0, <2>1, <2>2, Climb
  <2> QED
    BY <1>0, <1>4, <2>3
<1> QED
  BY <1>2, <1>4

\* The k-th candidate is above v exactly when k of the heap are.
LEMMA SortedRanks ==
    ASSUME NEW c, NEW p, SortedBy(c, p), Keys(heap), NEW v \in Int
    PROVE  \A k \in 1..TOP_K : c[k][1] > v <=> k <= Cardinality(Above(heap, v))
<1>0. TOP_K \in Nat \ {0}
  BY SamplerAssumption
<1> DEFINE Q == {k \in 1..TOP_K : c[k][1] > v}
           A == Above(heap, v)
           q == [k \in Q |-> p[k]]
<1>1. /\ \A k \in 1..TOP_K : p[k] \in Places /\ c[k] = heap[p[k]] /\ c[k][1] \in Int
      /\ \A j, k \in 1..TOP_K : j <= k => c[k][1] <= c[j][1]
  BY SortedFalls
<1>2. p \in [1..TOP_K -> Places] /\ IsInjective(p) /\ \A y0 \in Places : \E x \in 1..TOP_K : p[x] = y0
  BY DEF SortedBy, Bijection, Injection, Surjection
<1>3. \A k \in 1..TOP_K : k \in Q <=> p[k] \in A
  BY <1>1 DEF Above
<1>4. A \subseteq Places
  BY DEF Above
<1>5. q \in Bijection(Q, A)
  <2> HIDE DEF A
  <2>1. q \in [Q -> A]
    BY <1>3
  <2>2. \A i, j \in Q : q[i] = q[j] => i = j
    BY <1>2 DEF IsInjective
  <2>3. ASSUME NEW y0 \in A PROVE \E x \in Q : q[x] = y0
    <3>1. PICK x \in 1..TOP_K : p[x] = y0
      BY <1>2, <1>4
    <3>2. x \in Q
      BY <1>3, <3>1
    <3> QED
      BY <3>1, <3>2
  <2> HIDE DEF q, Q
  <2> QED
    BY <2>1, <2>2, <2>3 DEF Bijection, Injection, Surjection, IsInjective
<1>6. IsFiniteSet(Q)
  <2>1. IsFiniteSet(1..TOP_K) /\ Q \in SUBSET (1..TOP_K)
    BY <1>0, FS_Interval
  <2> HIDE DEF Q
  <2> QED
    BY <2>1, FS_Subset
<1>7. Cardinality(A) = Cardinality(Q)
  <2>1. ExistsBijection(Q, A)
    BY <1>5 DEF ExistsBijection
  <2> HIDE DEF Q, A
  <2> QED
    BY <1>6, <2>1, FS_Bijection
<1> DEFINE T == {k \in 1..TOP_K + 1 : k \notin Q}
<1>8. T \in SUBSET Nat /\ T # {}
  <2>1. TOP_K + 1 \in T
    BY <1>0
  <2>2. \A k \in T : k \in 1..TOP_K + 1
    OBVIOUS
  <2>3. \A k \in 1..TOP_K + 1 : k \in Nat
    BY <1>0
  <2> HIDE DEF T
  <2> QED
    BY <2>1, <2>2, <2>3
<1>9. PICK x \in T : \A z0 \in T : x <= z0
  <2> HIDE DEF T
  <2> QED
    BY <1>8, Least
<1>10. x \in 1..TOP_K + 1 /\ x \notin Q
  OBVIOUS
<1>11. Q = 1..x - 1
  <2>1. ASSUME NEW k \in Q PROVE k \in 1..x - 1
    <3> SUFFICES ASSUME k >= x PROVE FALSE
      BY <1>0, <1>10
    <3>1. x \in 1..TOP_K /\ k \in 1..TOP_K /\ c[k][1] > v /\ ~(c[x][1] > v)
      BY <1>0, <1>10
    <3>2. c[k][1] <= c[x][1]
      BY <1>0, <1>1, <3>1
    <3> QED
      BY <1>1, <3>1, <3>2
  <2>2. ASSUME NEW k \in 1..x - 1 PROVE k \in Q
    <3>1. k \in 1..TOP_K + 1 /\ k < x
      BY <1>0, <1>10
    <3> QED
      BY <1>0, <1>9, <1>10, <3>1
  <2> HIDE DEF Q
  <2> QED
    BY <2>1, <2>2
<1>12. Cardinality(Q) = x - 1
  <2> HIDE DEF Q, T
  <2>1. 1 \in Int /\ x - 1 \in Int /\ x - 1 >= 0
    BY <1>0, <1>10
  <2>2. Cardinality(1..x - 1) = IF 1 > x - 1 THEN 0 ELSE (x - 1) - 1 + 1
    BY <2>1, FS_Interval
  <2> QED
    BY <1>11, <2>1, <2>2
<1>13. ASSUME NEW k \in 1..TOP_K PROVE c[k][1] > v <=> k <= x - 1
  <2>1. k \in Q <=> k \in 1..x - 1
    <3> HIDE DEF Q
    <3> QED
      BY <1>11
  <2>2. k \in 1..x - 1 <=> k <= x - 1
    BY <1>0, <1>10
  <2>3. k \in Q <=> c[k][1] > v
    OBVIOUS
  <2> HIDE DEF Q
  <2> QED
    BY <2>1, <2>2, <2>3
<1> HIDE DEF Q, A
<1> QED
  BY <1>7, <1>12, <1>13 DEF A

-----------------------------------------------------------------------------
(* Sampling: the k-th candidate is the k-th largest logit *)

\* The logits, and candidates that are the first n tokens', or nobody's.
ScoresOk == scores \in [0..Vocab - 1 -> Logits \cup {NaN}]
Entries(h, n) ==
    \A k \in Places :
        h[k] = <<NegInf, 0>> \/ \E t \in 0..n - 1 : scores[t] # NaN /\ h[k] = <<scores[t], t>>

\* All logits have been offered.
Offered == ScoresOk /\ Entries(heap, Vocab) /\ Counted(heap, scores, Vocab)

\* What the logits are, and the property's sets as sets of tokens above a value.
LEMMA ScoresAre ==
    ASSUME ScoresOk
    PROVE  /\ DOMAIN scores = 0..Vocab - 1
           /\ \A t \in 0..Vocab - 1 : scores[t] \in Int /\ (scores[t] # NaN => scores[t] \in Logits /\ scores[t] >= 0)
           /\ Numbers = Seen(scores, Vocab, NegInf)
           /\ \A v \in Int : v >= NegInf => {t \in Numbers : scores[t] > v} = Seen(scores, Vocab, v)
           /\ \A v \in Nat : {t \in Numbers : scores[t] >= v} = Seen(scores, Vocab, v - 1)
<1>1. Logits \subseteq Nat /\ Vocab \in Nat
  BY SamplerAssumption
<1>2. DOMAIN scores = 0..Vocab - 1
  BY DEF ScoresOk
<1>3. ASSUME NEW t \in 0..Vocab - 1
      PROVE  scores[t] \in Int /\ (scores[t] # NaN => scores[t] \in Logits /\ scores[t] >= 0) /\ (scores[t] = NaN => scores[t] = -2)
  <2>1. scores[t] \in Logits \/ scores[t] = NaN
    BY DEF ScoresOk
  <2>2. CASE scores[t] \in Logits
    <3>1. scores[t] \in Nat
      BY <1>1, <2>2
    <3> QED
      BY <2>2, <3>1 DEF NaN
  <2>3. CASE scores[t] = NaN
    <3>1. scores[t] = -2
      BY <2>3 DEF NaN
    <3> QED
      BY <2>3, <3>1
  <2> QED
    BY <2>1, <2>2, <2>3
<1>4. Numbers = {t \in 0..Vocab - 1 : scores[t] # NaN}
  BY <1>2 DEF Numbers
<1>5. Numbers = Seen(scores, Vocab, NegInf)
  BY <1>3, <1>4 DEF Seen, NegInf, NaN
<1>6. ASSUME NEW v \in Int, v >= NegInf PROVE {t \in Numbers : scores[t] > v} = Seen(scores, Vocab, v)
  BY <1>3, <1>4, <1>6 DEF Seen, NegInf, NaN
<1>7. ASSUME NEW v \in Nat PROVE {t \in Numbers : scores[t] >= v} = Seen(scores, Vocab, v - 1)
  BY <1>3, <1>4 DEF Seen, NaN
<1> QED
  BY <1>2, <1>3, <1>5, <1>6, <1>7

\* The value with fewer than k tokens above it, and k that are no less.
LEMMA KthIs ==
    ASSUME ScoresOk, NEW x \in Numbers, NEW k \in Nat,
           Cardinality(Seen(scores, Vocab, scores[x])) < k,
           Cardinality(Seen(scores, Vocab, scores[x] - 1)) >= k
    PROVE  Kth(k) = scores[x]
<1> DEFINE V == {scores[t] : t \in Numbers}
           P(v) == /\ Cardinality({t \in Numbers : scores[t] > v}) < k
                   /\ Cardinality({t \in Numbers : scores[t] >= v}) >= k
<1>0. Vocab \in Nat
  BY SamplerAssumption
<1>1. \A v \in V : v \in Nat
  BY <1>0, ScoresAre DEF Numbers
<1>2. ASSUME NEW v \in V
      PROVE  P(v) <=> /\ Cardinality(Seen(scores, Vocab, v)) < k
                      /\ Cardinality(Seen(scores, Vocab, v - 1)) >= k
  <2>1. v \in Nat /\ v \in Int /\ v >= NegInf
    BY <1>1 DEF NegInf
  <2>2. {t \in Numbers : scores[t] > v} = Seen(scores, Vocab, v)
    BY <2>1, ScoresAre
  <2>3. {t \in Numbers : scores[t] >= v} = Seen(scores, Vocab, v - 1)
    BY <2>1, ScoresAre
  <2> QED
    BY <2>2, <2>3
<1>3. scores[x] \in V /\ P(scores[x])
  BY <1>2
<1>4. ASSUME NEW v \in V, NEW w \in V, P(v), P(w), v < w PROVE FALSE
  <2>1. Seen(scores, Vocab, w - 1) \in SUBSET Seen(scores, Vocab, v)
    BY <1>0, <1>1, <1>4, ScoresAre DEF Seen
  <2>2. Cardinality(Seen(scores, Vocab, w - 1)) <= Cardinality(Seen(scores, Vocab, v))
    BY <1>0, <2>1, SeenFinite, FS_Subset
  <2>3. Cardinality(Seen(scores, Vocab, w - 1)) \in Nat /\ Cardinality(Seen(scores, Vocab, v)) \in Nat
    BY <1>0, SeenFinite
  <2>4. Cardinality(Seen(scores, Vocab, v)) < k /\ Cardinality(Seen(scores, Vocab, w - 1)) >= k
    BY <1>2, <1>4
  <2> QED
    BY <2>2, <2>3, <2>4
<1>5. Kth(k) = CHOOSE v \in V : P(v)
  BY DEF Kth
<1>6. Kth(k) \in V /\ P(Kth(k))
  <2> HIDE DEF V, P
  <2> QED
    BY <1>3, <1>5
<1> HIDE DEF V, P
<1> QED
  BY <1>1, <1>3, <1>4, <1>6

\* How many numbers there are.
HowMany == Cardinality(Numbers)

\* The places that were filled.
LEMMA OfferedKeys == ASSUME Offered PROVE Keys(heap) /\ HowMany \in Nat
<1>0. TOP_K \in Nat \ {0} /\ Vocab \in Nat
  BY SamplerAssumption
<1>1. ASSUME NEW k \in Places PROVE heap[k][1] \in Int /\ heap[k][1] >= NegInf
  <2>1. heap[k] = <<NegInf, 0>> \/ \E t \in 0..Vocab - 1 : scores[t] # NaN /\ heap[k] = <<scores[t], t>>
    BY DEF Offered, Entries
  <2> QED
    BY <2>1, ScoresAre DEF NegInf, Offered
<1>2. HowMany \in Nat
  BY <1>0, ScoresAre, SeenFinite DEF HowMany, Offered
<1> QED
  BY <1>1, <1>2 DEF Keys

\* The first of the sorted candidates are the largest logits in order,
LEMMA CandidateIsKth ==
    ASSUME Offered, NEW c, NEW p, SortedBy(c, p), NEW k \in 1..TOP_K, k <= UpTo(HowMany)
    PROVE  /\ c[k][2] \in Numbers /\ c[k][1] = scores[c[k][2]]
           /\ Cardinality(Better(c[k][2])) < k
           /\ c[k][1] = Kth(k)
<1>0. TOP_K \in Nat \ {0} /\ Vocab \in Nat /\ k \in Nat
  BY SamplerAssumption
<1>1. Keys(heap) /\ HowMany \in Nat /\ ScoresOk
  BY OfferedKeys DEF Offered
<1>2. p[k] \in Places /\ c[k] = heap[p[k]] /\ c[k][1] \in Int
  BY <1>1, SortedFalls
<1>3. c[k][1] > NegInf
  <2>1. NegInf \in Int /\ NegInf >= NegInf
    BY DEF NegInf
  <2>2. Cardinality(Above(heap, NegInf)) = UpTo(HowMany)
    BY <1>1, <2>1, ScoresAre DEF Offered, Counted, HowMany
  <2> QED
    BY <1>1, <2>1, <2>2, SortedRanks
<1>4. PICK t \in 0..Vocab - 1 : scores[t] # NaN /\ heap[p[k]] = <<scores[t], t>>
  <2>1. heap[p[k]] # <<NegInf, 0>>
    BY <1>2, <1>3 DEF NegInf
  <2> QED
    BY <1>2, <2>1 DEF Offered, Entries
<1>5. c[k][1] = scores[t] /\ c[k][2] = t /\ t \in Numbers /\ scores[t] \in Nat
  BY <1>1, <1>2, <1>4, ScoresAre DEF Numbers
<1>6. Cardinality(Seen(scores, Vocab, scores[t])) < k
  <2>1. ~(k <= Cardinality(Above(heap, scores[t])))
    BY <1>1, <1>5, SortedRanks
  <2>2. Cardinality(Above(heap, scores[t])) = UpTo(Cardinality(Seen(scores, Vocab, scores[t])))
    BY <1>5 DEF Offered, Counted, NegInf
  <2>3. Cardinality(Seen(scores, Vocab, scores[t])) \in Nat
    BY <1>0, SeenFinite
  <2> QED
    BY <1>0, <2>1, <2>2, <2>3 DEF UpTo
<1>7. Cardinality(Seen(scores, Vocab, scores[t] - 1)) >= k
  <2>1. k <= Cardinality(Above(heap, scores[t] - 1))
    BY <1>1, <1>5, SortedRanks
  <2>2. Cardinality(Above(heap, scores[t] - 1)) = UpTo(Cardinality(Seen(scores, Vocab, scores[t] - 1)))
    BY <1>5 DEF Offered, Counted, NegInf
  <2>3. Cardinality(Seen(scores, Vocab, scores[t] - 1)) \in Nat
    BY <1>0, SeenFinite
  <2> QED
    BY <1>0, <2>1, <2>2, <2>3 DEF UpTo
<1>8. Better(t) = Seen(scores, Vocab, scores[t])
  <2>1. scores[t] \in Int /\ scores[t] >= NegInf
    BY <1>5 DEF NegInf
  <2> QED
    BY <1>1, <2>1, ScoresAre DEF Better
<1>9. Kth(k) = scores[t]
  BY <1>0, <1>1, <1>5, <1>6, <1>7, KthIs
<1> QED
  BY <1>5, <1>6, <1>8, <1>9

\* and the rest of the places are empty.
LEMMA RestIsEmpty ==
    ASSUME Offered, NEW c, NEW p, SortedBy(c, p), NEW k \in 1..TOP_K, ~(k <= UpTo(HowMany))
    PROVE  c[k][1] = NegInf
<1>1. Keys(heap) /\ HowMany \in Nat /\ ScoresOk
  BY OfferedKeys DEF Offered
<1>2. c[k][1] \in Int /\ c[k][1] >= NegInf
  BY <1>1, SortedFalls
<1>3. NegInf \in Int /\ NegInf >= NegInf
  BY DEF NegInf
<1>4. Cardinality(Above(heap, NegInf)) = UpTo(HowMany)
  BY <1>1, <1>3, ScoresAre DEF Offered, Counted, HowMany
<1>5. ~(c[k][1] > NegInf)
  BY <1>1, <1>3, <1>4, SortedRanks
<1> QED
  BY <1>2, <1>3, <1>5

-----------------------------------------------------------------------------
(* Sampling: what is drawn *)

\* The weights of the sorted candidates.
ProbsOf(c) == [k \in 1..TOP_K |-> Prob(c[k][1], c[1][1])]

\* Products grow with their factors.
LEMMA ScaleGrows ==
    ASSUME NEW a \in Nat, NEW b \in Nat, NEW x \in Nat, NEW y0 \in Nat, a <= b, x <= y0
    PROVE  a * x <= b * y0 /\ a * x \in Nat /\ b * y0 \in Nat
<1>1. a * x <= b * x
  OBVIOUS
<1>2. b * x <= b * y0
  OBVIOUS
<1>3. a * x \in Nat /\ b * x \in Nat /\ b * y0 \in Nat
  OBVIOUS
<1> QED
  BY <1>1, <1>2, <1>3

\* They are the weights of the largest logits, then nothing.
LEMMA WeightsAre ==
    ASSUME Offered, NEW c, NEW p, SortedBy(c, p), HowMany > 0
    PROVE  /\ UpTo(HowMany) \in 1..TOP_K
           /\ NatTerms(ProbsOf(c), TOP_K) /\ ProbsOf(c)[1] > 0
           /\ \A k \in 1..UpTo(HowMany) : ProbsOf(c)[k] = Weight(Kth(1) - Kth(k))
           /\ \A k \in UpTo(HowMany) + 1..TOP_K : ProbsOf(c)[k] = 0
<1>0. TOP_K \in Nat \ {0} /\ HowMany \in Nat /\ ScoresOk /\ Keys(heap)
  BY SamplerAssumption, OfferedKeys DEF Offered
<1>1. UpTo(HowMany) \in Nat /\ 1 <= UpTo(HowMany) /\ UpTo(HowMany) <= TOP_K
  BY <1>0 DEF UpTo
<1>2. PICK M \in Nat : M = UpTo(HowMany) /\ 1 <= M /\ M <= TOP_K
  BY <1>1
<1>3. ASSUME NEW k \in 1..M
      PROVE  /\ k \in 1..TOP_K /\ c[k][1] = Kth(k) /\ c[k][1] \in Logits /\ c[k][1] \in Nat
             /\ c[1][1] = Kth(1) /\ c[1][1] \in Logits /\ c[1][1] \in Nat /\ c[k][1] <= c[1][1]
  <2>1. k \in 1..TOP_K /\ 1 \in 1..TOP_K /\ 1 <= k /\ k <= UpTo(HowMany) /\ 1 <= UpTo(HowMany)
    BY <1>0, <1>2
  <2>2. c[k][2] \in Numbers /\ c[k][1] = scores[c[k][2]] /\ c[k][1] = Kth(k)
    BY <2>1, CandidateIsKth
  <2>3. c[1][2] \in Numbers /\ c[1][1] = scores[c[1][2]] /\ c[1][1] = Kth(1)
    BY <2>1, CandidateIsKth
  <2>4. \A t \in Numbers : scores[t] \in Logits /\ scores[t] \in Nat
    BY <1>0, ScoresAre DEF Numbers
  <2>5. c[k][1] <= c[1][1]
    BY <1>0, <2>1, SortedFalls
  <2> QED
    BY <2>1, <2>2, <2>3, <2>4, <2>5
<1>4. ASSUME NEW k \in 1..M PROVE ProbsOf(c)[k] = Weight(Kth(1) - Kth(k)) /\ ProbsOf(c)[k] \in Nat
  <2>1. c[k][1] # NegInf
    BY <1>3 DEF NegInf
  <2>2. ProbsOf(c)[k] = Weight(c[1][1] - c[k][1])
    BY <1>3, <2>1 DEF ProbsOf, Prob
  <2>3. Weight(c[1][1] - c[k][1]) \in Nat
    BY <1>3, SamplerAssumption
  <2> QED
    BY <1>3, <2>2, <2>3
<1>5. ASSUME NEW k \in 1..TOP_K, ~(k <= M) PROVE ProbsOf(c)[k] = 0
  <2>1. c[k][1] = NegInf
    BY <1>2, <1>5, RestIsEmpty
  <2> QED
    BY <2>1 DEF ProbsOf, Prob
<1>6. ProbsOf(c)[1] > 0
  <2>1. 1 \in 1..M /\ c[1][1] \in Nat
    BY <1>2, <1>3
  <2>2. c[1][1] - c[1][1] = 0 /\ Kth(1) = c[1][1]
    BY <1>3, <2>1
  <2>3. ProbsOf(c)[1] = Weight(0) /\ ProbsOf(c)[1] \in Nat
    BY <1>4, <2>1, <2>2
  <2> QED
    BY <2>3, SamplerAssumption
<1>7. ASSUME NEW k \in 1..TOP_K PROVE ProbsOf(c)[k] \in Nat
  <2>1. CASE k <= M
    BY <1>2, <1>4, <2>1
  <2>2. CASE ~(k <= M)
    BY <1>5, <2>2
  <2> QED
    BY <2>1, <2>2
<1>8. \A k \in M + 1..TOP_K : ProbsOf(c)[k] = 0
  BY <1>0, <1>2, <1>5
<1> QED
  BY <1>0, <1>2, <1>4, <1>6, <1>7, <1>8 DEF NatTerms

\* So their totals are those of the heaviest logits.
LEMMA TotalsAre ==
    ASSUME Offered, NEW c, NEW p, SortedBy(c, p), HowMany > 0
    PROVE  /\ \A m \in 0..UpTo(HowMany) : Heaviest(m) = Total(ProbsOf(c), m)
           /\ Total(ProbsOf(c), TOP_K) = Total(ProbsOf(c), UpTo(HowMany))
           /\ Total(ProbsOf(c), TOP_K) > 0
           /\ \A k \in 0..TOP_K : Total(ProbsOf(c), k) \in Nat /\ \A j \in 0..k : Total(ProbsOf(c), j) <= Total(ProbsOf(c), k)
<1>0. TOP_K \in Nat \ {0}
  BY SamplerAssumption
<1>1. /\ UpTo(HowMany) \in 1..TOP_K
      /\ NatTerms(ProbsOf(c), TOP_K) /\ ProbsOf(c)[1] > 0
      /\ \A k \in 1..UpTo(HowMany) : ProbsOf(c)[k] = Weight(Kth(1) - Kth(k))
      /\ \A k \in UpTo(HowMany) + 1..TOP_K : ProbsOf(c)[k] = 0
  BY WeightsAre
<1>2. PICK M \in Nat : M = UpTo(HowMany) /\ 1 <= M /\ M <= TOP_K
  BY <1>0, <1>1
<1>3. PICK f : f = ProbsOf(c)
  OBVIOUS
<1>4. \A k \in 0..TOP_K : Total(f, k) \in Nat /\ \A j \in 0..k : Total(f, j) <= Total(f, k)
  BY <1>0, <1>1, <1>3, TotalGrows
<1>5. ASSUME NEW m \in 0..M PROVE Heaviest(m) = Total(f, m)
  <2> DEFINE w == [k \in 1..m |-> Weight(Kth(1) - Kth(k))]
  <2>1. \A k \in 1..m : w[k] = f[k]
    BY <1>1, <1>2, <1>3
  <2>2. Heaviest(m) = Total(w, m)
    BY DEF Heaviest
  <2>3. m \in Nat
    OBVIOUS
  <2> HIDE DEF w
  <2>4. Total(w, m) = Total(f, m)
    BY <2>1, <2>3, TotalSame
  <2> QED
    BY <2>2, <2>4
<1>6. Total(f, TOP_K) = Total(f, M)
  <2>1. NatTerms(f, M) /\ \A k \in M + 1..TOP_K : f[k] = 0
    BY <1>0, <1>1, <1>2, <1>3 DEF NatTerms
  <2> QED
    BY <1>0, <1>2, <2>1, TotalRest
<1>7. Total(f, TOP_K) > 0
  <2>1. Total(f, 0) = 0 /\ Total(f, 0 + 1) = Total(f, 0) + f[0 + 1]
    BY TotalZero, TotalNext
  <2>2. f[1] \in Nat /\ f[1] > 0
    BY <1>0, <1>1, <1>3 DEF NatTerms
  <2>3. Total(f, 1) = f[1]
    BY <2>1, <2>2
  <2>4. Total(f, 1) <= Total(f, TOP_K) /\ Total(f, TOP_K) \in Nat
    BY <1>0, <1>4
  <2> QED
    BY <2>2, <2>3, <2>4
<1> QED
  BY <1>2, <1>3, <1>4, <1>5, <1>6, <1>7

\* What the property asks of a token that is drawn from logits with numbers.
FromNucleus(x) ==
    /\ x \in Numbers
    /\ Cardinality(Better(x)) < TOP_K
    /\ 100 * Heaviest(Cardinality(Better(x))) < top_p * Heaviest(UpTo(HowMany))

\* The least of a set of places.
LEMMA LeastChosen ==
    ASSUME NEW T \in SUBSET Nat, T # {}
    PROVE  /\ (CHOOSE k \in T : \A j \in T : k <= j) \in T
           /\ \A j \in T : (CHOOSE k \in T : \A j0 \in T : k <= j0) <= j
<1>1. \E k \in T : \A j \in T : k <= j
  BY Least
<1> QED
  BY <1>1

\* The prefix that is kept: it is filled, and without its last it is too light.
LEMMA NucleusIs ==
    ASSUME Offered, NEW c, NEW p, SortedBy(c, p), HowMany > 0, top_p \in Nat, 1 <= top_p, top_p <= 100
    PROVE  /\ Nucleus(ProbsOf(c)) \in 1..UpTo(HowMany)
           /\ 100 * Total(ProbsOf(c), Nucleus(ProbsOf(c)) - 1) < top_p * Total(ProbsOf(c), TOP_K)
<1>0. TOP_K \in Nat \ {0}
  BY SamplerAssumption
<1>1. PICK f : f = ProbsOf(c)
  OBVIOUS
<1>2. PICK M \in Nat : M = UpTo(HowMany) /\ 1 <= M /\ M <= TOP_K
  BY <1>0, WeightsAre
<1>3. /\ Total(f, TOP_K) = Total(f, M) /\ Total(f, TOP_K) > 0
      /\ \A k \in 0..TOP_K : Total(f, k) \in Nat
  BY <1>1, <1>2, TotalsAre
<1>4. PICK W \in Nat : W = Total(f, TOP_K) /\ W > 0
  BY <1>0, <1>3
<1> DEFINE reach == {k \in 1..TOP_K : 100 * Total(f, k) >= top_p * W}
           kept  == CHOOSE k \in reach : \A j \in reach : k <= j
<1>5. Nucleus(f) = kept
  BY <1>4 DEF Nucleus
<1>6. M \in reach
  <2>1. top_p * W <= 100 * W
    BY <1>4, ScaleGrows
  <2> QED
    BY <1>2, <1>3, <1>4, <2>1
<1>7. kept \in reach /\ \A j \in reach : kept <= j
  <2>1. reach \in SUBSET Nat
    OBVIOUS
  <2> HIDE DEF reach
  <2> QED
    BY <1>6, <2>1, LeastChosen
<1> HIDE DEF kept
<1>8. kept \in Nat /\ 1 <= kept /\ kept <= M /\ kept <= TOP_K
  BY <1>2, <1>6, <1>7
<1>9. 100 * Total(f, kept - 1) < top_p * W
  <2>1. CASE kept = 1
    <3>1. Total(f, kept - 1) = 0
      BY <2>1, TotalZero
    <3>2. 1 * 1 <= top_p * W /\ top_p * W \in Nat
      BY <1>4, ScaleGrows
    <3> QED
      BY <3>1, <3>2
  <2>2. CASE kept # 1
    <3>1. kept - 1 \in 1..TOP_K /\ kept - 1 \notin reach
      BY <1>0, <1>7, <1>8, <2>2
    <3>2. ~(100 * Total(f, kept - 1) >= top_p * W)
      BY <3>1
    <3>3. Total(f, kept - 1) \in Nat /\ 100 * Total(f, kept - 1) \in Nat /\ top_p * W \in Nat
      BY <1>0, <1>3, <1>4, <3>1, ScaleGrows
    <3> HIDE DEF reach
    <3> QED
      BY <3>2, <3>3
  <2> QED
    BY <2>1, <2>2
<1> HIDE DEF reach
<1> QED
  BY <1>1, <1>2, <1>4, <1>5, <1>8, <1>9

\* Of a prefix that is kept one is drawn.
LEMMA DrawnIs ==
    ASSUME NEW f, NEW kept \in Nat, 1 <= kept, NatTerms(f, kept), NEW u \in 0..Draws - 1
    PROVE  Drawn(f, kept, u) \in 1..kept
<1>0. Draws \in Nat \ {0}
  BY SamplerAssumption
<1>1. Total(f, kept) \in Nat
  BY TotalGrows
<1> DEFINE hit == {k \in 1..kept : u * Total(f, kept) <= Draws * Total(f, k)}
<1>2. kept \in hit
  <2>1. u \in Nat /\ u <= Draws
    BY <1>0
  <2>2. u * Total(f, kept) <= Draws * Total(f, kept)
    BY <1>0, <1>1, <2>1, ScaleGrows
  <2> QED
    BY <2>2
<1>3. Drawn(f, kept, u) = CHOOSE k \in hit : \A j \in hit : k <= j
  BY DEF Drawn
<1>4. hit \in SUBSET Nat
  OBVIOUS
<1>5. Drawn(f, kept, u) \in hit
  <2> HIDE DEF hit
  <2> QED
    BY <1>2, <1>3, <1>4, LeastChosen
<1> QED
  BY <1>5

\* Together: a token that is drawn is one that top-k and top-p leave.
LEMMA DrawnFromNucleus ==
    ASSUME Offered, NEW c, NEW p, SortedBy(c, p), HowMany > 0, top_p \in Nat, 1 <= top_p, top_p <= 100,
           NEW u \in 0..Draws - 1
    PROVE  FromNucleus(c[Drawn(ProbsOf(c), Nucleus(ProbsOf(c)), u)][2])
<1>0. TOP_K \in Nat \ {0}
  BY SamplerAssumption
<1>1. PICK f : f = ProbsOf(c)
  OBVIOUS
<1>2. PICK M \in Nat : M = UpTo(HowMany) /\ 1 <= M /\ M <= TOP_K
  BY <1>0, WeightsAre
<1>3. PICK kept \in Nat : /\ kept = Nucleus(f) /\ 1 <= kept /\ kept <= M
                          /\ 100 * Total(f, kept - 1) < top_p * Total(f, TOP_K)
  BY <1>1, <1>2, NucleusIs
<1>4. NatTerms(f, TOP_K) /\ NatTerms(f, kept)
  <2>1. NatTerms(f, TOP_K)
    BY <1>1, WeightsAre
  <2> QED
    BY <1>0, <1>2, <1>3, <2>1 DEF NatTerms
<1>5. PICK d \in Nat : d = Drawn(f, kept, u) /\ 1 <= d /\ d <= kept
  BY <1>3, <1>4, DrawnIs
<1>6. d \in 1..TOP_K /\ d <= UpTo(HowMany)
  BY <1>0, <1>2, <1>3, <1>5
<1>7. PICK x : x = c[d][2]
  OBVIOUS
<1>8. x \in Numbers /\ Cardinality(Better(x)) < d
  BY <1>6, <1>7, CandidateIsKth
<1>9. PICK b : b = Cardinality(Better(x))
  OBVIOUS
<1>10. b \in Nat
  <2>1. ScoresOk /\ Vocab \in Nat
    BY SamplerAssumption DEF Offered
  <2>2. scores[x] \in Int /\ scores[x] >= NegInf
    BY <1>8, <2>1, ScoresAre DEF Numbers, NegInf
  <2>3. Better(x) = Seen(scores, Vocab, scores[x])
    BY <2>1, <2>2, ScoresAre DEF Better
  <2> QED
    BY <1>9, <2>1, <2>3, SeenFinite
<1>11. b <= kept - 1 /\ b \in 0..M /\ M \in 0..M /\ kept - 1 \in 0..TOP_K /\ b \in 0..kept - 1 /\ b < TOP_K
  BY <1>0, <1>2, <1>3, <1>5, <1>8, <1>9, <1>10
<1>12. /\ Heaviest(b) = Total(f, b) /\ Heaviest(M) = Total(f, M) /\ Total(f, TOP_K) = Total(f, M)
       /\ Total(f, kept - 1) \in Nat /\ Total(f, b) <= Total(f, kept - 1)
  BY <1>1, <1>2, <1>11, TotalsAre
<1>13. Total(f, b) \in Nat /\ Total(f, TOP_K) \in Nat
  BY <1>0, <1>1, <1>2, <1>11, TotalsAre
<1>14. 100 * Heaviest(b) < top_p * Heaviest(M)
  <2>1. top_p * Heaviest(M) \in Int
    BY <1>12, <1>13
  <2>2. 100 * Total(f, kept - 1) < top_p * Heaviest(M)
    BY <1>3, <1>12
  <2> QED
    BY <1>12, <1>13, <2>1, <2>2
<1> QED
  BY <1>1, <1>2, <1>3, <1>5, <1>7, <1>8, <1>9, <1>11, <1>14 DEF FromNucleus

-----------------------------------------------------------------------------
(* Sampling: greedily *)

\* The first of the largest of n logits.
FirstBest(ls, n, t) ==
    /\ t \in 0..n - 1 /\ ls[t] # NaN
    /\ \A u \in 0..n - 1 : ~Greater(ls[u], ls[t]) /\ (u < t => ls[u] # ls[t])

\* There is one unless there is no number.
LEMMA FirstBestExists ==
    ASSUME ScoresOk, NEW x \in 0..Vocab - 1, scores[x] # NaN
    PROVE  \E t : FirstBest(scores, Vocab, t)
<1>0. Vocab \in Nat
  BY SamplerAssumption
<1>1. \A t \in 0..Vocab - 1 : scores[t] \in Int
  BY ScoresAre
<1> DEFINE S == {n \in 0..Vocab : (\A t \in 0..n - 1 : scores[t] = NaN) \/ \E t : FirstBest(scores, n, t)}
<1>2. 0 \in S
  BY <1>0
<1>3. ASSUME NEW n \in 0..Vocab - 1, n \in S PROVE n + 1 \in S
  <2>0. \A u \in 0..(n + 1) - 1 : u \in 0..n - 1 \/ u = n
    BY <1>0
  <2>1. CASE \A t \in 0..n - 1 : scores[t] = NaN
    <3>1. CASE scores[n] = NaN
      <4>1. \A t \in 0..(n + 1) - 1 : scores[t] = NaN
        BY <2>0, <2>1, <3>1
      <4> QED
        BY <1>0, <4>1
    <3>2. CASE scores[n] # NaN
      <4>1. FirstBest(scores, n + 1, n)
        <5>1. ASSUME NEW u \in 0..(n + 1) - 1
              PROVE  ~Greater(scores[u], scores[n]) /\ (u < n => scores[u] # scores[n])
          <6>1. CASE u \in 0..n - 1
            BY <2>1, <3>2, <6>1 DEF Greater
          <6>2. CASE u = n
            BY <1>1, <6>2 DEF Greater
          <6> QED
            BY <2>0, <6>1, <6>2
        <5> QED
          BY <3>2, <5>1 DEF FirstBest
      <4> QED
        BY <1>0, <4>1
    <3> QED
      BY <3>1, <3>2
  <2>2. ASSUME NEW t, FirstBest(scores, n, t) PROVE n + 1 \in S
    <3>1. /\ t \in 0..n - 1 /\ scores[t] # NaN /\ t \in 0..(n + 1) - 1 /\ scores[t] \in Int /\ scores[n] \in Int
          /\ \A u \in 0..n - 1 : ~Greater(scores[u], scores[t]) /\ (u < t => scores[u] # scores[t])
      BY <1>0, <1>1, <2>2 DEF FirstBest
    <3>2. CASE Greater(scores[n], scores[t])
      <4>1. scores[n] # NaN /\ scores[n] > scores[t]
        BY <3>2 DEF Greater
      <4>2. ASSUME NEW u \in 0..(n + 1) - 1
            PROVE  ~Greater(scores[u], scores[n]) /\ (u < n => scores[u] # scores[n])
        <5>1. CASE u \in 0..n - 1
          <6>1. ~Greater(scores[u], scores[t]) /\ scores[u] \in Int
            BY <1>0, <1>1, <3>1, <5>1
          <6>2. CASE scores[u] = NaN
            BY <4>1, <6>2 DEF Greater
          <6>3. CASE scores[u] # NaN
            <7>1. scores[u] <= scores[t]
              BY <3>1, <6>1, <6>3 DEF Greater
            <7>2. ~(scores[u] > scores[n]) /\ scores[u] # scores[n]
              BY <3>1, <4>1, <6>1, <7>1
            <7> QED
              BY <7>2 DEF Greater
          <6> QED
            BY <6>2, <6>3
        <5>2. CASE u = n
          BY <3>1, <5>2 DEF Greater
        <5> QED
          BY <2>0, <5>1, <5>2
      <4>3. FirstBest(scores, n + 1, n)
        BY <4>1, <4>2 DEF FirstBest
      <4> QED
        BY <1>0, <4>3
    <3>3. CASE ~Greater(scores[n], scores[t])
      <4>1. ASSUME NEW u \in 0..(n + 1) - 1
            PROVE  ~Greater(scores[u], scores[t]) /\ (u < t => scores[u] # scores[t])
        <5>1. CASE u \in 0..n - 1
          BY <3>1, <5>1
        <5>2. CASE u = n
          BY <3>1, <3>3, <5>2
        <5> QED
          BY <2>0, <5>1, <5>2
      <4>2. FirstBest(scores, n + 1, t)
        BY <3>1, <4>1 DEF FirstBest
      <4> QED
        BY <1>0, <4>2
    <3> QED
      BY <3>2, <3>3
  <2> QED
    BY <1>3, <2>1, <2>2
<1>4. 0..Vocab \subseteq S
  <2> HIDE DEF S
  <2> QED
    BY <1>0, <1>2, <1>3, Climb
<1>5. Vocab \in S
  BY <1>0, <1>4
<1> QED
  BY <1>5

\* argmax returns it.
LEMMA ArgmaxIs ==
    ASSUME ScoresOk, Numbers # {}
    PROVE  FirstBest(scores, Vocab, argmax(scores))
<1>1. DOMAIN scores = 0..Vocab - 1
  BY ScoresAre
<1>2. PICK x \in 0..Vocab - 1 : scores[x] # NaN
  BY <1>1 DEF Numbers
<1>3. PICK t0 : FirstBest(scores, Vocab, t0)
  BY <1>2, FirstBestExists
<1> DEFINE P(t) == scores[t] # NaN /\ \A u \in 0..Vocab - 1 : ~Greater(scores[u], scores[t]) /\ (u < t => scores[u] # scores[t])
<1>4. argmax(scores) = CHOOSE t \in 0..Vocab - 1 : P(t)
  BY <1>1, <1>2 DEF argmax
<1>5. t0 \in 0..Vocab - 1 /\ P(t0)
  BY <1>3 DEF FirstBest
<1>6. argmax(scores) \in 0..Vocab - 1 /\ P(argmax(scores))
  <2> HIDE DEF P
  <2> QED
    BY <1>4, <1>5
<1> QED
  BY <1>6 DEF FirstBest

\* Which is what the property asks of the greedy token.
LEMMA GreedyIs ==
    ASSUME ScoresOk
    PROVE  LET x == argmax(scores)
           IN  IF Numbers = {} THEN x = 0
               ELSE x \in Numbers /\ Better(x) = {} /\ \A t \in Numbers : t < x => Better(t) # {}
<1>1. DOMAIN scores = 0..Vocab - 1 /\ \A t \in 0..Vocab - 1 : scores[t] \in Int
  BY ScoresAre
<1>2. CASE Numbers = {}
  <2>1. argmax(scores) = 0
    BY <1>2 DEF argmax, Numbers
  <2> QED
    BY <1>2, <2>1
<1>3. CASE Numbers # {}
  <2>1. PICK x : x = argmax(scores) /\ FirstBest(scores, Vocab, x)
    BY <1>3, ArgmaxIs
  <2>2. x \in Numbers /\ x \in 0..Vocab - 1 /\ scores[x] # NaN
    BY <1>1, <2>1 DEF FirstBest, Numbers
  <2>3. ASSUME NEW u \in Numbers PROVE u \in 0..Vocab - 1 /\ scores[u] <= scores[x] /\ (u < x => scores[u] # scores[x])
    <3>1. u \in 0..Vocab - 1 /\ scores[u] # NaN /\ ~Greater(scores[u], scores[x]) /\ (u < x => scores[u] # scores[x])
      BY <1>1, <2>1 DEF FirstBest, Numbers
    <3> QED
      BY <1>1, <2>2, <3>1 DEF Greater
  <2>4. Better(x) = {}
    <3> SUFFICES ASSUME NEW u \in Numbers, scores[u] > scores[x] PROVE FALSE
      BY DEF Better
    <3>1. u \in 0..Vocab - 1 /\ scores[u] <= scores[x]
      BY <2>3
    <3>2. scores[u] \in Int /\ scores[x] \in Int
      BY <1>1, <2>2, <3>1
    <3> QED
      BY <3>1, <3>2
  <2>5. ASSUME NEW t \in Numbers, t < x PROVE x \in Better(t)
    <3>1. scores[t] < scores[x]
      BY <1>1, <2>2, <2>3, <2>5
    <3> QED
      BY <2>2, <3>1, <1>1, <2>3 DEF Better
  <2> QED
    BY <1>3, <2>1, <2>2, <2>4, <2>5
<1> QED
  BY <1>2, <1>3

-----------------------------------------------------------------------------
(* Sampling: the inductive invariant *)

\* The heap has the TOP_K largest of the logits offered so far, in heap order but
\* at the node that is being sifted.
SampleInv ==
    /\ ScoresOk /\ next \in 0..Vocab /\ node \in Places
    /\ top_p \in Nat /\ 1 <= top_p /\ top_p <= 100
    /\ heap = [k \in Places |-> heap[k]]
    /\ Entries(heap, next)
    /\ Counted(heap, scores, next)
    /\ IF spc = "sift" THEN OrderBut(heap, node) ELSE Order(heap)
    /\ SampledFromNucleus

\* It holds before a logit is offered,
LEMMA SampleStarts == SampleInit => SampleInv
<1> SUFFICES ASSUME SampleInit PROVE SampleInv
  OBVIOUS
<1>0. TOP_K \in Nat \ {0} /\ Vocab \in Nat
  BY SamplerAssumption
<1>1. ScoresOk /\ next = 0 /\ next \in 0..Vocab /\ node \in Places /\ spc = "start" /\ heap = Empty
  BY <1>0 DEF SampleInit, ScoresOk, Places
<1>2. top_p \in Nat /\ 1 <= top_p /\ top_p <= 100
  <2>1. top_p = 100 \/ top_p \in TopPs
    BY DEF SampleInit
  <2>2. TopPs \subseteq 1..100
    BY SamplerAssumption
  <2>3. CASE top_p = 100
    BY <2>3
  <2>4. CASE top_p \in TopPs
    <3>1. top_p \in 1..100
      BY <2>2, <2>4
    <3> QED
      BY <3>1
  <2> QED
    BY <2>1, <2>3, <2>4
<1>3. heap = [k \in Places |-> heap[k]] /\ Entries(heap, next)
  BY <1>1 DEF Empty, Places, Entries
<1>4. Counted(heap, scores, next)
  BY <1>1, EmptyCounts
<1>5. Order(heap)
  BY <1>1 DEF Order, Empty, Places, NegInf
<1>6. SampledFromNucleus
  BY <1>1 DEF SampledFromNucleus
<1> QED
  BY <1>1, <1>2, <1>3, <1>4, <1>5, <1>6 DEF SampleInv

\* The candidates of the invariant can be compared.
LEMMA SampleKeys == ASSUME ScoresOk, next \in 0..Vocab, Entries(heap, next) PROVE Keys(heap)
<1>1. ASSUME NEW k \in Places PROVE heap[k][1] \in Int /\ heap[k][1] >= NegInf
  <2>1. heap[k] = <<NegInf, 0>> \/ \E t \in 0..next - 1 : scores[t] # NaN /\ heap[k] = <<scores[t], t>>
    BY DEF Entries
  <2>2. \A t \in 0..next - 1 : t \in 0..Vocab - 1
    BY SamplerAssumption
  <2> QED
    BY <2>1, <2>2, ScoresAre DEF NegInf
<1> QED
  BY <1>1 DEF Keys

\* the greedy choice keeps it,
LEMMA GreedyKeeps == SampleInv /\ Greedy => SampleInv'
<1> SUFFICES ASSUME SampleInv, Greedy PROVE SampleInv'
  OBVIOUS
<1>1. /\ spc' = "done" /\ token' = argmax(scores) /\ scores' = scores /\ greedy' = greedy /\ top_p' = top_p
      /\ next' = next /\ heap' = heap /\ node' = node /\ greedy /\ spc = "start"
  BY DEF Greedy
<1>2. Numbers' = Numbers /\ \A t : Better(t)' = Better(t)
  BY <1>1 DEF Numbers, Better
<1>3. ScoresOk
  BY DEF SampleInv
<1>4. SampledFromNucleus'
  BY <1>1, <1>2, <1>3, GreedyIs DEF SampledFromNucleus
<1> QED
  BY <1>1, <1>4 DEF SampleInv, ScoresOk, Entries, Counted, Order, Seen, Above

\* a logit that is offered keeps it, whether it becomes a candidate or not,
LEMMA OfferKeeps == SampleInv /\ Offer => SampleInv'
<1> SUFFICES ASSUME SampleInv, Offer PROVE SampleInv'
  OBVIOUS
<1>0. TOP_K \in Nat \ {0} /\ Vocab \in Nat /\ 0 \in Places
  BY SamplerAssumption DEF Places
<1>1. /\ spc = "start" /\ next < Vocab /\ next' = next + 1
      /\ scores' = scores /\ greedy' = greedy /\ top_p' = top_p /\ token' = token
  BY DEF Offer
<1>2. /\ ScoresOk /\ next \in 0..Vocab /\ node \in Places /\ heap = [k \in Places |-> heap[k]]
      /\ Entries(heap, next) /\ Counted(heap, scores, next) /\ Order(heap)
  BY <1>1 DEF SampleInv
<1>3. Keys(heap) /\ next \in Nat /\ next \in 0..Vocab - 1 /\ scores[next] \in Int
  BY <1>0, <1>1, <1>2, SampleKeys, ScoresAre
<1>4. next' \in 0..Vocab /\ ScoresOk' /\ top_p' \in Nat /\ 1 <= top_p' /\ top_p' <= 100
  <2>1. next' \in 0..Vocab
    BY <1>0, <1>1, <1>3
  <2> QED
    BY <1>1, <1>2, <2>1 DEF ScoresOk, SampleInv
<1>5. CASE Greater(scores[next], heap[0][1])
  <2>1. heap' = [heap EXCEPT ![0] = <<scores[next], next>>] /\ node' = 0 /\ spc' = "sift"
    BY <1>5 DEF Offer
  <2>2. /\ heap' = [k \in Places |-> heap'[k]]
        /\ heap'[0] = <<scores[next], next>> /\ \A k \in Places : k # 0 => heap'[k] = heap[k]
    BY <1>0, <1>2, <2>1
  <2>3. scores[next] # NaN /\ scores[next] > heap[0][1]
    BY <1>5 DEF Greater
  <2>4. OrderBut(heap', 0)
    BY <1>2, <2>2, RootReplaced
  <2>5. Counted(heap', scores, next + 1)
    <3>1. PICK g : g = heap'
      OBVIOUS
    <3>2. g[0][1] = scores[next] /\ \A k \in Places : k # 0 => g[k] = heap[k]
      BY <2>2, <3>1
    <3>3. Counted(g, scores, next + 1)
      BY <1>2, <1>3, <2>3, <3>2, TakenCounts
    <3> QED
      BY <3>1, <3>3
  <2>6. Entries(heap', next + 1)
    <3>1. ASSUME NEW k \in Places
          PROVE  heap'[k] = <<NegInf, 0>> \/ \E t \in 0..(next + 1) - 1 : scores[t] # NaN /\ heap'[k] = <<scores[t], t>>
      <4>1. CASE k = 0
        BY <1>3, <2>2, <2>3, <4>1
      <4>2. CASE k # 0
        <5>1. heap'[k] = heap[k]
          BY <2>2, <4>2
        <5>2. heap[k] = <<NegInf, 0>> \/ \E t \in 0..next - 1 : scores[t] # NaN /\ heap[k] = <<scores[t], t>>
          BY <1>2 DEF Entries
        <5>3. \A t \in 0..next - 1 : t \in 0..(next + 1) - 1
          BY <1>3
        <5> QED
          BY <5>1, <5>2, <5>3
      <4> QED
        BY <4>1, <4>2
    <3> QED
      BY <1>1, <3>1 DEF Entries
  <2>7. Entries(heap, next)'
    BY <1>1, <2>6 DEF Entries
  <2>8. Counted(heap, scores, next)' /\ OrderBut(heap, node)' /\ (heap = [k \in Places |-> heap[k]])'
    BY <1>1, <2>1, <2>2, <2>4, <2>5
  <2>9. (node \in Places)' /\ SampledFromNucleus' /\ spc' = "sift"
    BY <1>0, <2>1 DEF SampledFromNucleus
  <2> QED
    BY <1>4, <2>7, <2>8, <2>9 DEF SampleInv
<1>6. CASE ~Greater(scores[next], heap[0][1])
  <2>1. heap' = heap /\ node' = node /\ spc' = spc
    BY <1>6 DEF Offer
  <2>2. Counted(heap, scores, next + 1)
    BY <1>2, <1>3, <1>6, LeftCounts
  <2>3. Entries(heap, next + 1)
    <3>1. \A t \in 0..next - 1 : t \in 0..(next + 1) - 1
      BY <1>3
    <3> QED
      BY <1>2, <3>1 DEF Entries
  <2> QED
    BY <1>1, <1>2, <1>4, <2>1, <2>2, <2>3 DEF SampleInv, SampledFromNucleus, Entries, Counted, Order, Seen, Above
<1> QED
  BY <1>5, <1>6

\* a step of the sift keeps it,
LEMMA SiftKeeps == SampleInv /\ Sift => SampleInv'
<1> SUFFICES ASSUME SampleInv, Sift PROVE SampleInv'
  OBVIOUS
<1>1. spc = "sift" /\ scores' = scores /\ greedy' = greedy /\ top_p' = top_p /\ next' = next /\ token' = token
  BY DEF Sift
<1>2. /\ ScoresOk /\ next \in 0..Vocab /\ node \in Places /\ heap = [k \in Places |-> heap[k]]
      /\ Entries(heap, next) /\ Counted(heap, scores, next) /\ OrderBut(heap, node)
  BY <1>1 DEF SampleInv
<1>3. Keys(heap)
  BY <1>2, SampleKeys
<1>4. PICK s : s = SmallestChild(heap, node) /\ Smallest(heap, node, s)
  BY <1>2, <1>3, SmallestFound
<1>5. s \in Places
  BY <1>4 DEF Smallest
<1>6. CASE s = node
  <2>1. spc' = "start" /\ heap' = heap /\ node' = node
    BY <1>4, <1>6 DEF Sift
  <2>2. Order(heap)
    BY <1>2, <1>4, <1>6, SiftStops
  <2> QED
    BY <1>1, <1>2, <2>1, <2>2 DEF SampleInv, SampledFromNucleus, ScoresOk, Entries, Counted, Order, Seen, Above
<1>7. CASE s # node
  <2>1. heap' = [heap EXCEPT ![node] = heap[s], ![s] = heap[node]] /\ node' = s /\ spc' = spc
    BY <1>4, <1>7 DEF Sift
  <2>2. PICK g : g = heap'
    OBVIOUS
  <2>3. g = [k \in Places |-> g[k]] /\ Exchanged(heap, g, node, s)
    BY <1>2, <1>5, <1>7, <2>1, <2>2 DEF Exchanged
  <2>4. OrderBut(g, s)
    BY <1>2, <1>3, <1>4, <1>5, <1>7, <2>3, SiftDescends
  <2>5. Counted(g, scores, next)
    <3>1. ASSUME NEW v PROVE Cardinality(Above(g, v)) = Cardinality(Above(heap, v))
      BY <1>2, <1>5, <1>7, <2>3, ExchangeCounts
    <3> QED
      BY <1>2, <3>1 DEF Counted
  <2>6. Entries(g, next)
    <3>1. ASSUME NEW k \in Places PROVE \E j \in Places : g[k] = heap[j]
      BY <1>2, <1>5, <2>3 DEF Exchanged
    <3> QED
      BY <1>2, <3>1 DEF Entries
  <2>7. Entries(heap, next)'
    BY <1>1, <2>2, <2>6 DEF Entries
  <2>8. Counted(heap, scores, next)' /\ OrderBut(heap, node)' /\ (heap = [k \in Places |-> heap[k]])'
    BY <1>1, <2>1, <2>2, <2>3, <2>4, <2>5
  <2>9. /\ ScoresOk' /\ (next \in 0..Vocab)' /\ (node \in Places)' /\ SampledFromNucleus' /\ spc' = "sift"
        /\ top_p' \in Nat /\ 1 <= top_p' /\ top_p' <= 100
    BY <1>1, <1>2, <1>5, <2>1 DEF SampleInv, SampledFromNucleus, ScoresOk
  <2> QED
    BY <2>7, <2>8, <2>9 DEF SampleInv
<1> QED
  BY <1>6, <1>7

\* and so does the draw.
LEMMA DrawKeeps == SampleInv /\ Draw => SampleInv'
<1> SUFFICES ASSUME SampleInv, Draw PROVE SampleInv'
  OBVIOUS
<1>0. TOP_K \in Nat \ {0} /\ Vocab \in Nat
  BY SamplerAssumption
<1>1. /\ spc = "start" /\ ~greedy /\ next = Vocab /\ spc' = "done"
      /\ scores' = scores /\ greedy' = greedy /\ top_p' = top_p /\ next' = next /\ heap' = heap /\ node' = node
  BY DEF Draw
<1>2. Offered /\ ScoresOk
  BY <1>1 DEF SampleInv, Offered
<1>3. PICK c \in Sorted, u \in 0..Draws - 1 :
        IF c[1][1] = NegInf THEN token' = c[TOP_K][2]
        ELSE token' = c[Drawn(ProbsOf(c), Nucleus(ProbsOf(c)), u)][2]
  BY DEF Draw, ProbsOf
<1>4. PICK p : SortedBy(c, p)
  BY SortedPermutes
<1>5. Numbers' = Numbers /\ \A t : Better(t)' = Better(t)
  BY <1>1 DEF Numbers, Better
<1>6. \A k : Heaviest(k)' = Heaviest(k)
  BY <1>1, <1>5 DEF Heaviest, Kth
<1>7. HowMany \in Nat /\ (HowMany = 0 <=> Numbers = {})
  <2>1. IsFiniteSet(Numbers)
    BY <1>0, <1>2, ScoresAre, SeenFinite
  <2> QED
    BY <1>2, <2>1, OfferedKeys, FS_EmptySet DEF HowMany
<1>8. CASE Numbers = {}
  <2>1. \A k \in 1..TOP_K : c[k] = <<NegInf, 0>>
    <3>1. ASSUME NEW k \in 1..TOP_K PROVE c[k] = <<NegInf, 0>>
      <4>1. p[k] \in Places /\ c[k] = heap[p[k]]
        BY <1>2, <1>4, OfferedKeys, SortedFalls
      <4>2. \A t \in 0..Vocab - 1 : scores[t] = NaN
        BY <1>2, <1>8, ScoresAre DEF Numbers
      <4> QED
        BY <1>2, <4>1, <4>2 DEF Offered, Entries
    <3> QED
      BY <3>1
  <2>2. c[1] = <<NegInf, 0>> /\ c[TOP_K] = <<NegInf, 0>>
    BY <1>0, <2>1
  <2>3. token' = 0
    BY <1>3, <2>2
  <2>4. SampledFromNucleus'
    BY <1>5, <1>8, <2>3 DEF SampledFromNucleus
  <2> QED
    BY <1>1, <2>4 DEF SampleInv, ScoresOk, Entries, Counted, Order, Seen, Above
<1>9. CASE Numbers # {}
  <2>1. HowMany > 0 /\ top_p \in Nat /\ 1 <= top_p /\ top_p <= 100
    BY <1>7, <1>9 DEF SampleInv
  <2>2. c[1][1] # NegInf
    <3>1. 1 \in 1..TOP_K /\ 1 <= UpTo(HowMany)
      BY <1>0, <1>7, <2>1 DEF UpTo
    <3>2. c[1][2] \in Numbers /\ c[1][1] = scores[c[1][2]]
      BY <1>2, <1>4, <3>1, CandidateIsKth
    <3> QED
      BY <1>2, <3>2, ScoresAre DEF Numbers, NegInf
  <2>3. token' = c[Drawn(ProbsOf(c), Nucleus(ProbsOf(c)), u)][2]
    BY <1>3, <2>2
  <2>4. FromNucleus(token')
    BY <1>2, <1>4, <2>1, <2>3, DrawnFromNucleus
  <2>5. /\ token' \in Numbers /\ Cardinality(Better(token')) < TOP_K
        /\ 100 * Heaviest(Cardinality(Better(token')))
               < top_p * Heaviest(IF Cardinality(Numbers) < TOP_K THEN Cardinality(Numbers) ELSE TOP_K)
    BY <2>4 DEF FromNucleus, UpTo, HowMany
  <2>6. SampledFromNucleus'
    BY <1>1, <1>5, <1>6, <1>9, <2>5 DEF SampledFromNucleus
  <2> QED
    BY <1>1, <2>6 DEF SampleInv, ScoresOk, Entries, Counted, Order, Seen, Above
<1> QED
  BY <1>8, <1>9

\* The sampler's token is one that top-k and top-p leave, the first of the best
\* when greedy, and token 0 only when no logit is a number: for every
\* vocabulary, every TOP_K, every weight function and every draw (Sampler::sample).
THEOREM TokenFromNucleus == SampleSpec => []SampledFromNucleus
<1>1. SampleInit => SampleInv
  BY SampleStarts
<1>2. SampleInv /\ [SampleNext]_samplevars => SampleInv'
  <2> SUFFICES ASSUME SampleInv, [SampleNext]_samplevars PROVE SampleInv'
    OBVIOUS
  <2>1. CASE SampleNext
    BY <2>1, GreedyKeeps, OfferKeeps, SiftKeeps, DrawKeeps DEF SampleNext
  <2>2. CASE UNCHANGED samplevars
    <3>1. /\ spc' = spc /\ scores' = scores /\ greedy' = greedy /\ top_p' = top_p
          /\ next' = next /\ heap' = heap /\ node' = node /\ token' = token
      BY <2>2 DEF samplevars
    <3>2. Numbers' = Numbers
      BY <3>1 DEF Numbers
    <3>3. Better(token)' = Better(token) /\ \A t : Better(t)' = Better(t)
      BY <3>1, <3>2 DEF Better
    <3>4. \A k : Heaviest(k)' = Heaviest(k)
      BY <3>1, <3>2 DEF Heaviest, Kth
    <3>5. SampledFromNucleus'
      BY <3>1, <3>2, <3>3, <3>4 DEF SampleInv, SampledFromNucleus
    <3> QED
      BY <3>1, <3>5 DEF SampleInv, ScoresOk, Entries
  <2> QED
    BY <2>1, <2>2
<1>3. SampleInv => SampledFromNucleus
  BY DEF SampleInv
<1> QED
  BY <1>1, <1>2, <1>3, PTL DEF SampleSpec
=============================================================================
