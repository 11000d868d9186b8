-------------------------- MODULE ModelLoadProofs ---------------------------
(***************************************************************************)
(* Proofs about loading the model, for any model file, any damage to it    *)
(* and any sequence of short reads.                                        *)
(***************************************************************************)
EXTENDS ModelLoad, SequenceTheorems, WellFoundedInduction, TLAPS

-----------------------------------------------------------------------------
(* Induction *)

\* A nonempty set of naturals has a least element.
LEMMA Least ==
    ASSUME NEW T \in SUBSET Nat, T # {}
    PROVE  \E x \in T : \A z0 \in T : x <= z0
<1> DEFINE R == {ss \in Nat \X Nat : ss[1] < ss[2]}
<1>1. IsWellFoundedOn(R, Nat)
  BY NatLessThanWellFounded DEF OpToRel
<1>2. PICK x \in T : \A z0 \in T : ~(<<z0, x>> \in R)
  BY <1>1, WFMin, Zenon
<1>3. ASSUME NEW z0 \in T PROVE x <= z0
  <2>1. ~(<<z0, x>> \in R) /\ x \in Nat /\ z0 \in Nat
    BY <1>2
  <2> QED
    BY <2>1
<1> QED
  BY <1>3

\* Induction over the naturals, on a set instead of a predicate.
LEMMA Induction ==
    ASSUME NEW S, 0 \in S, \A n \in Nat : n \in S => n + 1 \in S
    PROVE  Nat \subseteq S
<1> SUFFICES ASSUME Nat \ S # {} PROVE FALSE
  OBVIOUS
<1>1. PICK m \in Nat \ S : \A z0 \in Nat \ S : m <= z0
  BY Least
<1>2. m - 1 \in Nat /\ m - 1 \notin Nat \ S
  BY <1>1
<1> QED
  BY <1>1, <1>2

\* The same up to a bound N.
LEMMA Climb ==
    ASSUME NEW N \in Nat, NEW S, 0 \in S, \A n \in 0..N - 1 : n \in S => n + 1 \in S
    PROVE  0..N \subseteq S
<1> DEFINE T == S \cup {n \in Nat : n > N}
<1>1. 0 \in T /\ \A n \in Nat : n \in T => n + 1 \in T
  OBVIOUS
<1>2. Nat \subseteq T
  <2> HIDE DEF T
  <2> QED
    BY <1>1, Induction
<1> QED
  BY <1>2

-----------------------------------------------------------------------------
(* Regions in a row *)

\* The recursion of Ends, step by step.
LEMMA EndsUnfolds ==
    ASSUME NEW sizes, Len(sizes) \in Nat
    PROVE  /\ Ends(sizes)[0] = 0
           /\ \A j \in 1..Len(sizes) : Ends(sizes)[j] = AlignUp(Ends(sizes)[j - 1], Align) + sizes[j]
<1> DEFINE Body(e, n) == [j \in 0..n |-> IF j = 0 THEN 0 ELSE AlignUp(e[j - 1], Align) + sizes[j]]
           S == {n \in Nat : \E e : e = Body(e, n)}
<1>1. 0 \in S
  <2>1. [j \in 0..0 |-> 0] = Body([j \in 0..0 |-> 0], 0)
    OBVIOUS
  <2> QED
    BY <2>1
<1>2. ASSUME NEW n \in Nat, n \in S PROVE n + 1 \in S
  <2>1. PICK e : e = Body(e, n)
    BY <1>2
  <2> DEFINE h == [j \in 0..n + 1 |-> IF j <= n THEN e[j] ELSE AlignUp(e[n], Align) + sizes[n + 1]]
  <2>2. ASSUME NEW j \in 0..n + 1
        PROVE  h[j] = IF j = 0 THEN 0 ELSE AlignUp(h[j - 1], Align) + sizes[j]
    <3>1. CASE j = 0
      BY <2>1, <3>1
    <3>2. CASE j # 0 /\ j <= n
      <4>1. e[j] = AlignUp(e[j - 1], Align) + sizes[j]
        BY <2>1, <3>2
      <4>2. h[j] = e[j] /\ h[j - 1] = e[j - 1]
        BY <3>2
      <4> QED
        BY <3>2, <4>1, <4>2
    <3>3. CASE j = n + 1
      BY <3>3
    <3> QED
      BY <3>1, <3>2, <3>3
  <2>3. h = Body(h, n + 1)
    BY <2>2
  <2> HIDE DEF h, Body
  <2> QED
    BY <2>3
<1>3. Len(sizes) \in S
  <2> HIDE DEF S
  <2> QED
    BY <1>1, <1>2, Induction
<1>4. \E e : e = Body(e, Len(sizes))
  BY <1>3
<1> DEFINE G == CHOOSE e : e = Body(e, Len(sizes))
<1>5. G = Body(G, Len(sizes))
  BY <1>4
<1>6. Ends(sizes) = G
  BY DEF Ends
<1> HIDE DEF G
<1>7. G[0] = 0 /\ \A j \in 1..Len(sizes) : G[j] = AlignUp(G[j - 1], Align) + sizes[j]
  BY <1>5
<1> QED
  BY <1>6, <1>7

\* AlignUp does not go back.
LEMMA AlignUpGrows == ASSUME NEW n \in Nat, NEW a \in Nat \ {0} PROVE AlignUp(n, a) >= n
<1> DEFINE q == (n + a - 1) \div a
<1>1. q \in Int /\ n + a - 1 < a * q + a
  OBVIOUS
<1> HIDE DEF q
<1>2. q * a = a * q /\ a * q \in Int
  BY <1>1
<1>3. AlignUp(n, a) = q * a
  BY DEF AlignUp, q
<1> QED
  BY <1>1, <1>2, <1>3

\* AlignUp gives the next multiple, less than a away.
LEMMA AlignUpIs ==
    ASSUME NEW n \in Nat, NEW a \in Nat \ {0}
    PROVE  /\ AlignUp(n, a) \in Nat /\ n <= AlignUp(n, a) /\ AlignUp(n, a) < n + a
           /\ AlignUp(n, a) % a = 0
<1>1. PICK q : q = (n + a - 1) \div a
  OBVIOUS
<1>2. q \in Int /\ a * q <= n + a - 1
  BY <1>1
<1>3. AlignUp(n, a) = q * a /\ AlignUp(n, a) >= n
  BY <1>1, AlignUpGrows DEF AlignUp
<1>4. q * a = a * q /\ a * q \in Int
  BY <1>2
<1>5. (q * a) % a = 0
  BY <1>2, <1>4
<1> QED
  BY <1>2, <1>3, <1>4, <1>5

\* Sizes of regions.
AreSizes(sizes, n) == n \in Nat /\ Len(sizes) = n /\ \A i \in 1..n : sizes[i] \in Nat

\* Ends are numbers that do not decrease.
LEMMA EndsGrow ==
    ASSUME NEW sizes, NEW n, AreSizes(sizes, n)
    PROVE  /\ \A i \in 0..n : Ends(sizes)[i] \in Nat /\ Ends(sizes)[i] <= Ends(sizes)[n]
           /\ \A i \in 1..n : Ends(sizes)[i] = AlignUp(Ends(sizes)[i - 1], Align) + sizes[i]
<1>1. PICK e : e = Ends(sizes)
  OBVIOUS
<1>2. n \in Nat /\ Len(sizes) = n /\ (\A i \in 1..n : sizes[i] \in Nat) /\ Align \in Nat \ {0}
  BY FileAssumption DEF AreSizes
<1>3. e[0] = 0 /\ \A j \in 1..n : e[j] = AlignUp(e[j - 1], Align) + sizes[j]
  BY <1>1, <1>2, EndsUnfolds
<1> DEFINE S == {i \in 0..n : e[i] \in Nat}
           T == {k \in 0..n : e[n - k] <= e[n]}
<1>4. ASSUME NEW j \in 1..n, e[j - 1] \in Nat PROVE e[j] \in Nat /\ e[j - 1] <= e[j]
  <2>1. PICK x \in Nat, s \in Nat : x = e[j - 1] /\ s = sizes[j] /\ e[j] = AlignUp(x, Align) + s
    BY <1>2, <1>3, <1>4
  <2>2. AlignUp(x, Align) \in Nat /\ x <= AlignUp(x, Align)
    BY <1>2, AlignUpIs
  <2> QED
    BY <2>1, <2>2
<1>5. 0..n \subseteq S
  <2>1. 0 \in S
    BY <1>2, <1>3
  <2>2. ASSUME NEW i \in 0..n - 1, i \in S PROVE i + 1 \in S
    <3>1. i + 1 \in 1..n /\ (i + 1) - 1 = i
      BY <1>2
    <3>2. e[i + 1] \in Nat
      BY <1>4, <2>2, <3>1
    <3> QED
      BY <1>2, <3>1, <3>2
  <2> HIDE DEF S
  <2> QED
    BY <1>2, <2>1, <2>2, Climb
<1>6. \A i \in 0..n : e[i] \in Nat
  BY <1>5
<1>7. 0..n \subseteq T
  <2>1. 0 \in T
    BY <1>2, <1>6
  <2>2. ASSUME NEW k \in 0..n - 1, k \in T PROVE k + 1 \in T
    <3>1. PICK j \in 1..n : j = n - k
      BY <1>2
    <3>2. e[j - 1] <= e[j] /\ e[j] <= e[n] /\ e[j - 1] \in Nat /\ e[j] \in Nat /\ e[n] \in Nat
      BY <1>2, <1>4, <1>6, <2>2, <3>1
    <3>3. n - (k + 1) = j - 1 /\ k + 1 \in 0..n
      BY <1>2, <3>1
    <3>4. e[n - (k + 1)] <= e[n]
      BY <3>2, <3>3
    <3> QED
      BY <3>3, <3>4
  <2> HIDE DEF T
  <2> QED
    BY <1>2, <2>1, <2>2, Climb
<1>8. \A i \in 0..n : e[i] <= e[n]
  <2> TAKE i \in 0..n
  <2>1. PICK k \in 0..n : k = n - i /\ i = n - k
    BY <1>2
  <2> QED
    BY <1>7, <2>1
<1> QED
  BY <1>1, <1>3, <1>6, <1>8, Zenon

-----------------------------------------------------------------------------
(* What the converter collects, and what new asks for *)

\* The kinds of tensors a converted file has.
Kinds == {"TokEmbed", "RopeFreqs", "AttnNorm", "AttnQNorm", "AttnKNorm", "AttnQ", "AttnK", "AttnV", "AttnO",
          "FfnNorm", "FfnGate", "FfnUp", "FfnDown", "OutputNorm", "Output"}
KindsOfLayers == Kinds \ {"TokEmbed", "RopeFreqs", "OutputNorm", "Output"}

\* x is in the sequence s.
Has(s, x) == \E i \in DOMAIN s : s[i] = x

\* Two sequences in a row have what either has.
LEMMA HasJoined ==
    ASSUME NEW S, NEW s \in Seq(S), NEW t \in Seq(S)
    PROVE  s \o t \in Seq(S) /\ \A x : Has(s \o t, x) <=> Has(s, x) \/ Has(t, x)
<1>1. /\ s \o t \in Seq(S) /\ Len(s \o t) = Len(s) + Len(t)
      /\ \A j \in 1..(Len(s) + Len(t)) : (s \o t)[j] = IF j <= Len(s) THEN s[j] ELSE t[j - Len(s)]
  BY ConcatProperties
<1>2. PICK m, n, u : m = Len(s) /\ n = Len(t) /\ u = s \o t
  OBVIOUS
<1>0. m \in Nat /\ n \in Nat
  BY <1>2
<1>3. DOMAIN s = 1..m /\ DOMAIN t = 1..n /\ DOMAIN u = 1..(m + n)
  BY <1>0, <1>1, <1>2
<1>4. ASSUME NEW x, Has(u, x) PROVE Has(s, x) \/ Has(t, x)
  <2>1. PICK i \in 1..(m + n) : u[i] = x
    BY <1>3, <1>4 DEF Has
  <2>2. CASE i <= m
    <3>1. i \in 1..m /\ s[i] = x
      BY <1>0, <1>1, <1>2, <2>1, <2>2
    <3> QED
      BY <1>3, <3>1 DEF Has
  <2>3. CASE ~(i <= m)
    <3>1. i - m \in 1..n /\ t[i - m] = x
      BY <1>0, <1>1, <1>2, <2>1, <2>3
    <3> QED
      BY <1>3, <3>1 DEF Has
  <2> QED
    BY <2>2, <2>3
<1>5. ASSUME NEW x, Has(s, x) PROVE Has(u, x)
  <2>1. PICK i \in 1..m : s[i] = x
    BY <1>3, <1>5 DEF Has
  <2>2. i \in 1..(m + n) /\ u[i] = x
    BY <1>0, <1>1, <1>2, <2>1
  <2> QED
    BY <1>3, <2>2 DEF Has
<1>6. ASSUME NEW x, Has(t, x) PROVE Has(u, x)
  <2>1. PICK i \in 1..n : t[i] = x
    BY <1>3, <1>6 DEF Has
  <2>2. i + m \in 1..(m + n) /\ ~(i + m <= m) /\ (i + m) - m = i
    BY <1>0
  <2>3. u[i + m] = x
    BY <1>0, <1>1, <1>2, <2>1, <2>2
  <2> QED
    BY <1>3, <2>2, <2>3 DEF Has
<1> QED
  BY <1>1, <1>2, <1>4, <1>5, <1>6

\* The kinds that LayerKinds lists.
LEMMA KindsKnown ==
    {"AttnNorm", "AttnQNorm", "AttnKNorm", "AttnQ", "AttnK", "AttnV", "AttnO",
     "FfnNorm", "FfnGate", "FfnUp", "FfnDown"} \subseteq KindsOfLayers
BY DEF KindsOfLayers, Kinds

\* The kinds of a layer.
LEMMA LayerKindsType ==
    ASSUME NEW g
    PROVE  /\ LayerKinds(g) \in Seq(KindsOfLayers)
           /\ Len(LayerKinds(g)) = IF g.arch = "qwen3" THEN 11 ELSE 9
<1> DEFINE a == <<"AttnNorm">>
           n == IF g.arch = "qwen3" THEN <<"AttnQNorm", "AttnKNorm">> ELSE <<>>
           c == <<"AttnQ", "AttnK", "AttnV", "AttnO", "FfnNorm", "FfnGate", "FfnUp", "FfnDown">>
<1>2. a \in Seq(KindsOfLayers) /\ Len(a) = 1
  BY KindsKnown
<1>3. n \in Seq(KindsOfLayers) /\ Len(n) = IF g.arch = "qwen3" THEN 2 ELSE 0
  <2>1. /\ <<"AttnQNorm", "AttnKNorm">> \in Seq(KindsOfLayers) /\ Len(<<"AttnQNorm", "AttnKNorm">>) = 2
    BY KindsKnown
  <2>2. <<>> \in Seq(KindsOfLayers) /\ Len(<<>>) = 0
    OBVIOUS
  <2> QED
    BY <2>1, <2>2
<1>4. c \in Seq(KindsOfLayers) /\ Len(c) = 8
  BY KindsKnown
<1>5. LayerKinds(g) = a \o n \o c
  BY Zenon DEF LayerKinds
<1> HIDE DEF a, n, c
<1>6. a \o n \in Seq(KindsOfLayers) /\ Len(a \o n) = Len(a) + Len(n)
  BY <1>2, <1>3, ConcatProperties
<1>7. (a \o n) \o c \in Seq(KindsOfLayers) /\ Len((a \o n) \o c) = Len(a \o n) + Len(c)
  BY <1>4, <1>6, ConcatProperties
<1> QED
  BY <1>2, <1>3, <1>4, <1>5, <1>6, <1>7

\* The places of a list by layers.
LEMMA LayerPlace ==
    ASSUME NEW k \in Nat \ {0}, NEW i \in Nat \ {0}
    PROVE  LayerOf(i, k) \in Nat /\ PlaceOf(i, k) \in 1..k
<1>1. PICK p \in Nat : p = i - 1
  OBVIOUS
<1>2. p \div k \in Nat /\ p % k \in 0..k - 1
  OBVIOUS
<1> QED
  BY <1>1, <1>2 DEF LayerOf, PlaceOf

\* The tensors of all layers.
LayerNames(g) ==
    LET kinds == LayerKinds(g)
        k     == Len(kinds)
    IN  [i \in 1..(g.nLayers * k) |-> <<kinds[PlaceOf(i, k)], LayerOf(i, k)>>]

\* The tensors of the layers have kinds of layers.
LEMMA LayerNamesType ==
    ASSUME NEW g, g.nLayers \in Nat
    PROVE  LayerNames(g) \in Seq(KindsOfLayers \X Nat)
<1>1. PICK kinds, k : kinds = LayerKinds(g) /\ k = Len(kinds)
  OBVIOUS
<1>0. kinds \in Seq(KindsOfLayers) /\ k = IF g.arch = "qwen3" THEN 11 ELSE 9
  BY <1>1, LayerKindsType
<1>2. k \in Nat \ {0} /\ DOMAIN kinds = 1..k
  BY <1>0, <1>1
<1>3. PICK n \in Nat : n = g.nLayers * k
  BY <1>2
<1>4. LayerNames(g) = [i \in 1..n |-> <<kinds[PlaceOf(i, k)], LayerOf(i, k)>>]
  BY <1>1, <1>3, Zenon DEF LayerNames
<1>5. ASSUME NEW i \in 1..n PROVE <<kinds[PlaceOf(i, k)], LayerOf(i, k)>> \in KindsOfLayers \X Nat
  <2>0. i \in Nat \ {0}
    OBVIOUS
  <2>1. LayerOf(i, k) \in Nat /\ PlaceOf(i, k) \in 1..k
    BY <1>2, <2>0, LayerPlace
  <2>2. kinds[PlaceOf(i, k)] \in KindsOfLayers
    BY <1>0, <1>2, <2>1
  <2> QED
    BY <2>1, <2>2
<1> QED
  BY <1>3, <1>4, <1>5

\* A tensor that may be missing is collected when it is there.
LEMMA OptionalIs ==
    ASSUME NEW g, NEW kind \in Kinds
    PROVE  /\ Optional(g, kind) \in Seq(Kinds \X Nat)
           /\ \A x : Has(Optional(g, kind), x) <=> x = <<kind, 0>> /\ <<kind, 0>> \in DOMAIN g.tensors
<1>1. <<kind, 0>> \in Kinds \X Nat
  OBVIOUS
<1>2. <<<<kind, 0>>>> \in Seq(Kinds \X Nat) /\ <<>> \in Seq(Kinds \X Nat)
  BY <1>1
<1>3. \A x : Has(<<<<kind, 0>>>>, x) <=> x = <<kind, 0>>
  BY DEF Has
<1>4. \A x : ~Has(<<>>, x)
  BY DEF Has
<1> QED
  BY <1>2, <1>3, <1>4 DEF Optional

\* What the converter collects.
LEMMA CollectIs ==
    ASSUME NEW g, g.nLayers \in Nat
    PROVE  /\ Collect(g) \in Seq(Kinds \X Nat)
           /\ \A x : Has(Collect(g), x) <=>
                \/ x \in {<<"TokEmbed", 0>>, <<"OutputNorm", 0>>}
                \/ x \in {<<"RopeFreqs", 0>>, <<"Output", 0>>} /\ x \in DOMAIN g.tensors
                \/ Has(LayerNames(g), x)
<1>1. PICK N : N = Kinds \X Nat
  OBVIOUS
<1>2. PICK a, b, c, d, e : /\ a = <<<<"TokEmbed", 0>>>> /\ b = Optional(g, "RopeFreqs") /\ c = LayerNames(g)
                           /\ d = <<<<"OutputNorm", 0>>>> /\ e = Optional(g, "Output")
  BY Zenon
<1>3. Collect(g) = a \o b \o c \o d \o e
  BY <1>2, Zenon DEF Collect, LayerNames
<1>4. a \in Seq(N) /\ \A x : Has(a, x) <=> x = <<"TokEmbed", 0>>
  <2>1. <<"TokEmbed", 0>> \in N
    BY <1>1 DEF Kinds
  <2> QED
    BY <1>2, <2>1 DEF Has
<1>5. d \in Seq(N) /\ \A x : Has(d, x) <=> x = <<"OutputNorm", 0>>
  <2>1. <<"OutputNorm", 0>> \in N
    BY <1>1 DEF Kinds
  <2> QED
    BY <1>2, <2>1 DEF Has
<1>6. c \in Seq(N)
  <2>1. KindsOfLayers \X Nat \subseteq N
    BY <1>1 DEF KindsOfLayers
  <2>2. c \in Seq(KindsOfLayers \X Nat)
    BY <1>2, LayerNamesType
  <2> QED
    BY <2>1, <2>2
<1>7. /\ b \in Seq(N) /\ \A x : Has(b, x) <=> x = <<"RopeFreqs", 0>> /\ <<"RopeFreqs", 0>> \in DOMAIN g.tensors
      /\ e \in Seq(N) /\ \A x : Has(e, x) <=> x = <<"Output", 0>> /\ <<"Output", 0>> \in DOMAIN g.tensors
  <2>1. "RopeFreqs" \in Kinds /\ "Output" \in Kinds
    BY DEF Kinds
  <2> QED
    BY <1>1, <1>2, <2>1, OptionalIs, Zenon
<1>8. a \o b \in Seq(N) /\ \A x : Has(a \o b, x) <=> Has(a, x) \/ Has(b, x)
  BY <1>4, <1>7, HasJoined
<1>9. PICK u : u = a \o b /\ u \in Seq(N)
  BY <1>8, Zenon
<1>10. u \o c \in Seq(N) /\ \A x : Has(u \o c, x) <=> Has(u, x) \/ Has(c, x)
  BY <1>6, <1>9, HasJoined
<1>11. PICK v : v = u \o c /\ v \in Seq(N)
  BY <1>10, Zenon
<1>12. v \o d \in Seq(N) /\ \A x : Has(v \o d, x) <=> Has(v, x) \/ Has(d, x)
  BY <1>5, <1>11, HasJoined
<1>13. PICK w : w = v \o d /\ w \in Seq(N)
  BY <1>12, Zenon
<1>14. w \o e \in Seq(N) /\ \A x : Has(w \o e, x) <=> Has(w, x) \/ Has(e, x)
  <2>1. e \in Seq(N) /\ w \in Seq(N)
    BY <1>7, <1>13, Zenon
  <2> QED
    BY <2>1, HasJoined
<1>15. Collect(g) = w \o e
  BY <1>3, <1>9, <1>11, <1>13
<1>16. \A x : Has(w \o e, x) <=> (Has(a, x) \/ Has(b, x) \/ Has(c, x) \/ Has(d, x) \/ Has(e, x))
  BY <1>8, <1>9, <1>10, <1>11, <1>12, <1>13, <1>14
<1>17. \A x : Has(Collect(g), x) <=>
                \/ x \in {<<"TokEmbed", 0>>, <<"OutputNorm", 0>>}
                \/ x \in {<<"RopeFreqs", 0>>, <<"Output", 0>>} /\ x \in DOMAIN g.tensors
                \/ Has(LayerNames(g), x)
  <2> TAKE x
  <2>1. Has(Collect(g), x) <=> (Has(a, x) \/ Has(b, x) \/ Has(c, x) \/ Has(d, x) \/ Has(e, x))
    BY <1>15, <1>16
  <2>2. Has(c, x) <=> Has(LayerNames(g), x)
    BY <1>2
  <2> QED
    BY <1>4, <1>5, <1>7, <2>1, <2>2, Zenon
<1> QED
  BY <1>1, <1>14, <1>15, <1>17

\* w is what new may ask of a file converted from g.
Right(g, w) ==
    /\ w.kind \in Vectors => w.cols \in {AnyLen, Shape(g, w.kind)[2]}
    /\ w.kind \notin Vectors => w.rows = Shape(g, w.kind)[1] /\ w.cols = Shape(g, w.kind)[2]

\* The tensors new asks for in layer l are rightly those of these kinds.
Fits(g, l, kinds, wants) ==
    /\ Len(wants) = Len(kinds) /\ DOMAIN wants = DOMAIN kinds
    /\ \A i \in DOMAIN kinds : wants[i].kind = kinds[i] /\ wants[i].layer = l /\ Right(g, wants[i])

\* Two lists that fit, and the two that follow them.
LEMMA FitsJoined ==
    ASSUME NEW g, NEW l, NEW S, NEW s \in Seq(S), NEW s2 \in Seq(S), NEW T, NEW t \in Seq(T), NEW t2 \in Seq(T),
           Fits(g, l, s, t), Fits(g, l, s2, t2)
    PROVE  Fits(g, l, s \o s2, t \o t2)
<1>1. PICK m, n : m = Len(s) /\ n = Len(s2)
  OBVIOUS
<1>2. m \in Nat /\ n \in Nat /\ DOMAIN s = 1..m /\ DOMAIN s2 = 1..n
  BY <1>1
<1>3. DOMAIN t = 1..m /\ DOMAIN t2 = 1..n /\ Len(t) = m /\ Len(t2) = n
  BY <1>2 DEF Fits
<1>4. PICK u, v : u = s \o s2 /\ v = t \o t2
  OBVIOUS
<1>5. /\ DOMAIN u = 1..(m + n) /\ Len(u) = m + n
      /\ \A j \in 1..(m + n) : u[j] = IF j <= m THEN s[j] ELSE s2[j - m]
  BY <1>1, <1>2, <1>4, ConcatProperties
<1>6. /\ DOMAIN v = 1..(m + n) /\ Len(v) = m + n
      /\ \A j \in 1..(m + n) : v[j] = IF j <= m THEN t[j] ELSE t2[j - m]
  <2>1. /\ v \in Seq(T) /\ Len(v) = Len(t) + Len(t2)
        /\ \A j \in 1..(Len(t) + Len(t2)) : v[j] = IF j <= Len(t) THEN t[j] ELSE t2[j - Len(t)]
    BY <1>4, ConcatProperties
  <2> QED
    BY <1>2, <1>3, <2>1
<1>7. ASSUME NEW i \in 1..(m + n) PROVE v[i].kind = u[i] /\ v[i].layer = l /\ Right(g, v[i])
  <2>1. CASE i <= m
    <3>1. u[i] = s[i] /\ v[i] = t[i] /\ i \in DOMAIN s
      BY <1>2, <1>5, <1>6, <2>1
    <3> QED
      BY <3>1, Zenon DEF Fits
  <2>2. CASE ~(i <= m)
    <3>1. u[i] = s2[i - m] /\ v[i] = t2[i - m] /\ i - m \in DOMAIN s2
      BY <1>2, <1>5, <1>6, <2>2
    <3> QED
      BY <3>1, Zenon DEF Fits
  <2> QED
    BY <2>1, <2>2
<1> QED
  BY <1>4, <1>5, <1>6, <1>7, Zenon DEF Fits

\* Vectors and matrices as new asks for them.
LEMMA AsksRight ==
    ASSUME NEW g, NEW l
    PROVE  /\ \A kind \in {"AttnNorm", "FfnNorm", "OutputNorm"} : Right(g, Vector(kind, l, g.dim))
           /\ \A kind \in {"AttnQNorm", "AttnKNorm"} : Right(g, Vector(kind, l, g.headDim))
           /\ Right(g, Vector("RopeFreqs", l, AnyLen))
           /\ \A kind \in {"TokEmbed", "Output"} : Right(g, Matrix(kind, l, g.vocab, g.dim))
           /\ Right(g, Matrix("AttnQ", l, AttDim(g), g.dim)) /\ Right(g, Matrix("AttnO", l, g.dim, AttDim(g)))
           /\ \A kind \in {"AttnK", "AttnV"} : Right(g, Matrix(kind, l, KvDim(g), g.dim))
           /\ \A kind \in {"FfnGate", "FfnUp"} : Right(g, Matrix(kind, l, g.ffnDim, g.dim))
           /\ Right(g, Matrix("FfnDown", l, g.dim, g.ffnDim))
<1>1. \A kind \in {"AttnNorm", "FfnNorm", "OutputNorm"} : Shape(g, kind)[2] = g.dim
  BY DEF Shape
<1>2. \A kind \in {"AttnQNorm", "AttnKNorm"} : Shape(g, kind)[2] = g.headDim
  BY DEF Shape
<1>3. \A kind \in {"TokEmbed", "Output"} : Shape(g, kind) = <<g.vocab, g.dim>>
  BY DEF Shape
<1>4. Shape(g, "AttnQ") = <<AttDim(g), g.dim>> /\ Shape(g, "AttnO") = <<g.dim, AttDim(g)>>
  BY DEF Shape, AttDim
<1>5. \A kind \in {"AttnK", "AttnV"} : Shape(g, kind) = <<KvDim(g), g.dim>>
  BY DEF Shape, KvDim
<1>6. \A kind \in {"FfnGate", "FfnUp"} : Shape(g, kind) = <<g.ffnDim, g.dim>>
  BY DEF Shape
<1>7. Shape(g, "FfnDown") = <<g.dim, g.ffnDim>>
  BY DEF Shape
<1>8. /\ \A kind, n : kind \in Vectors /\ n \in {AnyLen, Shape(g, kind)[2]} => Right(g, Vector(kind, l, n))
      /\ \A kind, m, n : kind \notin Vectors /\ Shape(g, kind) = <<m, n>> => Right(g, Matrix(kind, l, m, n))
  BY DEF Right, Vector, Matrix
<1>9. /\ {"AttnNorm", "FfnNorm", "OutputNorm", "AttnQNorm", "AttnKNorm", "RopeFreqs"} \subseteq Vectors
      /\ {"TokEmbed", "Output", "AttnQ", "AttnK", "AttnV", "AttnO", "FfnGate", "FfnUp", "FfnDown"} \cap Vectors = {}
  BY DEF Vectors
<1> QED
  BY <1>1, <1>2, <1>3, <1>4, <1>5, <1>6, <1>7, <1>8, <1>9

\* new asks each layer for the kinds the converter puts there, in that order.
LEMMA WantedLayerFits ==
    ASSUME NEW g, NEW l
    PROVE  Fits(g, l, LayerKinds(g), WantedLayer(g, l))
<1> DEFINE a == <<"AttnNorm">>
           n == IF g.arch = "qwen3" THEN <<"AttnQNorm", "AttnKNorm">> ELSE <<>>
           c == <<"AttnQ", "AttnK", "AttnV", "AttnO", "FfnNorm", "FfnGate", "FfnUp", "FfnDown">>
<1>1. PICK w0, v1, v2, w1, w2, w3, w4, w5, w6, w7, w8 :
        /\ w0 = Vector("AttnNorm", l, g.dim)
        /\ v1 = Vector("AttnQNorm", l, g.headDim) /\ v2 = Vector("AttnKNorm", l, g.headDim)
        /\ w1 = Matrix("AttnQ", l, AttDim(g), g.dim) /\ w2 = Matrix("AttnK", l, KvDim(g), g.dim)
        /\ w3 = Matrix("AttnV", l, KvDim(g), g.dim) /\ w4 = Matrix("AttnO", l, g.dim, AttDim(g))
        /\ w5 = Vector("FfnNorm", l, g.dim) /\ w6 = Matrix("FfnGate", l, g.ffnDim, g.dim)
        /\ w7 = Matrix("FfnUp", l, g.ffnDim, g.dim) /\ w8 = Matrix("FfnDown", l, g.dim, g.ffnDim)
  BY Zenon
<1> DEFINE T  == {w0, v1, v2, w1, w2, w3, w4, w5, w6, w7, w8}
           a2 == <<w0>>
           n2 == IF g.arch = "qwen3" THEN <<v1, v2>> ELSE <<>>
           c2 == <<w1, w2, w3, w4, w5, w6, w7, w8>>
<1>2. LayerKinds(g) = a \o n \o c
  BY Zenon DEF LayerKinds
<1>3. WantedLayer(g, l) = a2 \o n2 \o c2
  BY <1>1, Zenon DEF WantedLayer
<1>4. /\ Right(g, w0) /\ Right(g, v1) /\ Right(g, v2) /\ Right(g, w1) /\ Right(g, w2) /\ Right(g, w3)
      /\ Right(g, w4) /\ Right(g, w5) /\ Right(g, w6) /\ Right(g, w7) /\ Right(g, w8)
  BY <1>1, AsksRight
<1>5. /\ w0.kind = "AttnNorm" /\ v1.kind = "AttnQNorm" /\ v2.kind = "AttnKNorm" /\ w1.kind = "AttnQ"
      /\ w2.kind = "AttnK" /\ w3.kind = "AttnV" /\ w4.kind = "AttnO" /\ w5.kind = "FfnNorm"
      /\ w6.kind = "FfnGate" /\ w7.kind = "FfnUp" /\ w8.kind = "FfnDown"
  BY <1>1 DEF Vector, Matrix
<1>6. \A w \in T : w.layer = l
  BY <1>1 DEF Vector, Matrix
<1>7. a \in Seq(KindsOfLayers) /\ a2 \in Seq(T) /\ Fits(g, l, a, a2)
  <2>1. a \in Seq(KindsOfLayers) /\ a2 \in Seq(T)
    BY KindsKnown
  <2> HIDE DEF T
  <2>2. Len(a2) = Len(a) /\ DOMAIN a = {1} /\ DOMAIN a2 = {1} /\ a[1] = "AttnNorm" /\ a2[1] = w0 /\ w0.layer = l
    BY <1>1 DEF Vector
  <2> QED
    BY <1>4, <1>5, <2>1, <2>2 DEF Fits
<1>8. n \in Seq(KindsOfLayers) /\ n2 \in Seq(T) /\ Fits(g, l, n, n2)
  <2>1. /\ <<"AttnQNorm", "AttnKNorm">> \in Seq(KindsOfLayers) /\ <<v1, v2>> \in Seq(T)
        /\ <<>> \in Seq(KindsOfLayers) /\ <<>> \in Seq(T)
    BY KindsKnown
  <2>2. n \in Seq(KindsOfLayers) /\ n2 \in Seq(T)
    BY <2>1
  <2>3. v1.layer = l /\ v2.layer = l
    BY <1>6
  <2> HIDE DEF T
  <2>4. Fits(g, l, <<"AttnQNorm", "AttnKNorm">>, <<v1, v2>>)
    <3>1. /\ Len(<<v1, v2>>) = Len(<<"AttnQNorm", "AttnKNorm">>)
          /\ DOMAIN <<"AttnQNorm", "AttnKNorm">> = {1, 2} /\ DOMAIN <<v1, v2>> = {1, 2}
      OBVIOUS
    <3> QED
      BY <1>4, <1>5, <2>3, <3>1 DEF Fits
  <2>5. Fits(g, l, <<>>, <<>>)
    BY DEF Fits
  <2> QED
    BY <2>2, <2>4, <2>5
<1>9. c \in Seq(KindsOfLayers) /\ c2 \in Seq(T) /\ Fits(g, l, c, c2)
  <2>1. c \in Seq(KindsOfLayers)
    BY KindsKnown
  <2>2. c2 \in Seq(T)
    OBVIOUS
  <2>3. \A i \in 1..8 : c2[i].layer = l
    BY <1>6
  <2> HIDE DEF T
  <2>4. Len(c2) = Len(c) /\ DOMAIN c = 1..8 /\ DOMAIN c2 = 1..8
    OBVIOUS
  <2>5. ASSUME NEW i \in 1..8 PROVE c2[i].kind = c[i] /\ Right(g, c2[i])
    BY <1>4, <1>5
  <2> HIDE DEF c, c2
  <2> QED
    BY <2>1, <2>2, <2>3, <2>4, <2>5 DEF Fits
<1> HIDE DEF a, n, c, a2, n2, c2, T
<1>10. Fits(g, l, a \o n, a2 \o n2) /\ a \o n \in Seq(KindsOfLayers) /\ a2 \o n2 \in Seq(T)
  BY <1>7, <1>8, FitsJoined, ConcatProperties
<1>11. Fits(g, l, (a \o n) \o c, (a2 \o n2) \o c2)
  <2>1. PICK s, t : s = a \o n /\ t = a2 \o n2
    OBVIOUS
  <2> QED
    BY <1>9, <1>10, <2>1, FitsJoined
<1> QED
  BY <1>2, <1>3, <1>11

\* A tensor that the converter collected, asked for as it should be there.
Proper(g, w) == Right(g, w) /\ Has(Collect(g), <<w.kind, w.layer>>)

\* What new asks of a layer was collected for it.
LEMMA LayersProper ==
    ASSUME NEW g, g.nLayers \in Nat, NEW k, k = Len(LayerKinds(g)), NEW i \in 1..(g.nLayers * k)
    PROVE  Proper(g, WantedLayer(g, LayerOf(i, k))[PlaceOf(i, k)])
<1>1. k \in Nat \ {0} /\ DOMAIN LayerKinds(g) = 1..k
  <2>1. LayerKinds(g) \in Seq(KindsOfLayers) /\ k = IF g.arch = "qwen3" THEN 11 ELSE 9
    BY LayerKindsType
  <2>2. k \in Nat \ {0}
    BY <2>1
  <2>3. DOMAIN LayerKinds(g) = 1..Len(LayerKinds(g))
    BY <2>1, LenProperties, Zenon
  <2> QED
    BY <2>2, <2>3, Zenon
<1>2. PICK n \in Nat : n = g.nLayers * k
  BY <1>1
<1>3. i \in Nat \ {0}
  BY <1>2
<1>4. PICK l, p : l = LayerOf(i, k) /\ p = PlaceOf(i, k) /\ p \in 1..k
  BY <1>1, <1>3, LayerPlace
<1>5. PICK kinds, w : kinds = LayerKinds(g) /\ w = WantedLayer(g, l)[p]
  OBVIOUS
<1>6. w.kind = kinds[p] /\ w.layer = l /\ Right(g, w)
  BY <1>1, <1>4, <1>5, WantedLayerFits DEF Fits
<1>7. Has(Collect(g), <<kinds[p], l>>)
  <2>1. LayerNames(g) = [j \in 1..n |-> <<kinds[PlaceOf(j, k)], LayerOf(j, k)>>]
    BY <1>2, <1>5, Zenon DEF LayerNames
  <2>2. i \in DOMAIN LayerNames(g) /\ LayerNames(g)[i] = <<kinds[p], l>>
    BY <1>2, <1>4, <2>1, Zenon
  <2>3. Has(LayerNames(g), <<kinds[p], l>>)
    BY <2>2 DEF Has
  <2> QED
    BY <2>3, CollectIs
<1> QED
  BY <1>4, <1>5, <1>6, <1>7 DEF Proper

\* The record of a converted file.
LEMMA Converted ==
    ASSUME NEW g
    PROVE  /\ Convert(g).gguf = g /\ Convert(g).table = Table(g)
           /\ Convert(g).tied = (<<"Output", 0>> \notin DOMAIN g.tensors)
           /\ Convert(g).dataSize = Cursors(g)[Len(Table(g))] /\ Convert(g).ok = TRUE
           /\ Convert(g).metaEnd = HeaderSize + g.tokSize + Len(Table(g)) * EntrySize
           /\ Convert(g).dataOff = AlignUp(Convert(g).metaEnd, Align)
BY DEF Convert

\* The fields of an entry.
LEMMA EntryIs ==
    ASSUME NEW g, NEW name, NEW o
    PROVE  LET e == Entry(g, name, o)
               t == g.tensors[name]
           IN  /\ e.kind = name[1] /\ e.layer = name[2] /\ e.dtype = t.dtype /\ e.offset = o
               /\ e.size = GgufSize(t) /\ e.rows = t.rows /\ e.cols = t.cols
BY DEF Entry

\* The table has an entry for every tensor collected, in that order.
LEMMA TableIs ==
    ASSUME NEW g, g.nLayers \in Nat
    PROVE  /\ Len(Collect(g)) \in Nat /\ DOMAIN Collect(g) = 1..Len(Collect(g))
           /\ Len(Table(g)) = Len(Collect(g)) /\ DOMAIN Table(g) = 1..Len(Collect(g))
           /\ \A i \in 1..Len(Collect(g)) :
                Table(g)[i] = Entry(g, Collect(g)[i], AlignUp(Cursors(g)[i - 1], Align))
<1>1. Collect(g) \in Seq(Kinds \X Nat)
  BY CollectIs
<1>2. PICK names, cursors : names = Collect(g) /\ cursors = Cursors(g)
  OBVIOUS
<1>3. PICK n : n = Len(names)
  OBVIOUS
<1>4. n \in Nat /\ DOMAIN names = 1..n
  BY <1>1, <1>2, <1>3
<1>5. Table(g) = [i \in 1..n |-> Entry(g, names[i], AlignUp(cursors[i - 1], Align))]
  BY <1>2, <1>3, Zenon DEF Table
<1> QED
  BY <1>2, <1>3, <1>4, <1>5

\* Everything new asks for is there.
LEMMA WantedProper ==
    ASSUME NEW g, g.nLayers \in Nat, NEW i \in DOMAIN Wanted(Convert(g))
    PROVE  Proper(g, Wanted(Convert(g))[i])
<1> DEFINE f == Convert(g)
<1>1. PICK k, n : k = Len(LayerKinds(g)) /\ n = g.nLayers * k
  OBVIOUS
<1>2. n \in Nat
  <2>1. k \in Nat
    BY <1>1, LayerKindsType
  <2> QED
    BY <1>1, <2>1
<1>3. PICK layers : layers = [j \in 1..n |-> WantedLayer(g, LayerOf(j, k))[PlaceOf(j, k)]]
  OBVIOUS
<1>4. \A j \in 1..n : Proper(g, layers[j])
  BY <1>1, <1>3, LayersProper
<1>5. Len(WantedLayer(g, 0)) = k
  BY <1>1, WantedLayerFits DEF Fits
<1>6. PICK x1, x2, x3, x4 :
        /\ x1 = Matrix("TokEmbed", 0, g.vocab, g.dim) /\ x2 = Vector("OutputNorm", 0, g.dim)
        /\ x3 = Matrix("Output", 0, g.vocab, g.dim) /\ x4 = Vector("RopeFreqs", 0, AnyLen)
  BY Zenon
<1> DEFINE has == \E j \in DOMAIN f.table : f.table[j].kind = "RopeFreqs"
           T == {layers[j] : j \in 1..n} \cup {x1, x2, x3, x4}
           c == IF f.tied THEN <<>> ELSE <<x3>>
           d == IF has THEN <<x4>> ELSE <<>>
<1>7. Wanted(f) = <<x1>> \o layers \o <<x2>> \o c \o d
  <2>1. f.gguf = g
    BY Converted
  <2> HIDE DEF f
  <2> QED
    BY <1>1, <1>3, <1>5, <1>6, <2>1, Zenon DEF Wanted
<1>8. Proper(g, x1) /\ Proper(g, x2)
  <2>1. Right(g, x1) /\ Right(g, x2)
    BY <1>6, AsksRight
  <2>2. <<x1.kind, x1.layer>> = <<"TokEmbed", 0>> /\ <<x2.kind, x2.layer>> = <<"OutputNorm", 0>>
    BY <1>6 DEF Matrix, Vector
  <2> QED
    BY <2>1, <2>2, CollectIs DEF Proper
<1>9. ~f.tied => Proper(g, x3)
  <2>1. Right(g, x3) /\ <<x3.kind, x3.layer>> = <<"Output", 0>>
    BY <1>6, AsksRight DEF Matrix
  <2>2. ~f.tied => <<"Output", 0>> \in DOMAIN g.tensors
    BY Converted
  <2> QED
    BY <2>1, <2>2, CollectIs DEF Proper
<1>10. has => Proper(g, x4)
  <2>1. SUFFICES ASSUME has PROVE Proper(g, x4)
    OBVIOUS
  <2>2. PICK j \in DOMAIN Table(g) : Table(g)[j].kind = "RopeFreqs"
    BY <2>1, Converted
  <2>3. PICK z : z = Collect(g)[j] /\ Has(Collect(g), z)
    BY TableIs DEF Has
  <2>4. z[1] = "RopeFreqs"
    <3>1. PICK o : Table(g)[j] = Entry(g, z, o)
      BY <2>3, TableIs
    <3> QED
      BY <2>2, <3>1, EntryIs
  <2>5. ~Has(LayerNames(g), z)
    <3>1. SUFFICES ASSUME NEW q \in DOMAIN LayerNames(g), LayerNames(g)[q] = z PROVE FALSE
      BY DEF Has
    <3>2. z \in KindsOfLayers \X Nat
      BY <3>1, LayerNamesType
    <3> QED
      BY <2>4, <3>2 DEF KindsOfLayers
  <2>6. z = <<"RopeFreqs", 0>>
    BY <2>3, <2>4, <2>5, CollectIs
  <2>7. Right(g, x4) /\ <<x4.kind, x4.layer>> = <<"RopeFreqs", 0>>
    BY <1>6, AsksRight DEF Vector
  <2> QED
    BY <2>3, <2>6, <2>7 DEF Proper
<1>11. /\ <<x1>> \in Seq(T) /\ layers \in Seq(T) /\ <<x2>> \in Seq(T) /\ c \in Seq(T) /\ d \in Seq(T)
  <2>1. x1 \in T /\ x2 \in T /\ x3 \in T /\ x4 \in T /\ \A j \in 1..n : layers[j] \in T
    OBVIOUS
  <2>2. PICK C, D : C = f.tied /\ D = has
    OBVIOUS
  <2> HIDE DEF T, has, f
  <2>3. layers \in Seq(T)
    BY <1>2, <1>3, <2>1
  <2>4. <<x1>> \in Seq(T) /\ <<x2>> \in Seq(T) /\ <<x3>> \in Seq(T) /\ <<x4>> \in Seq(T) /\ <<>> \in Seq(T)
    BY <2>1
  <2> QED
    BY <2>3, <2>4
<1>12. /\ \A x : Has(<<x1>>, x) => Proper(g, x)
       /\ \A x : Has(<<x2>>, x) => Proper(g, x)
       /\ \A x : Has(layers, x) => Proper(g, x)
  <2>1. DOMAIN layers = 1..n
    BY <1>3
  <2> QED
    BY <1>4, <1>8, <2>1 DEF Has
<1>13. /\ \A x : Has(c, x) => Proper(g, x)
       /\ \A x : Has(d, x) => Proper(g, x)
  <2>1. \A x : Has(<<x3>>, x) <=> x = x3
    BY DEF Has
  <2>2. \A x : Has(<<x4>>, x) <=> x = x4
    BY DEF Has
  <2>3. \A x : ~Has(<<>>, x)
    BY DEF Has
  <2> HIDE DEF has, f
  <2> QED
    BY <1>9, <1>10, <2>1, <2>2, <2>3
<1> HIDE DEF c, d, T
<1>14. PICK a, b, u : a = <<x1>> /\ b = <<x2>> /\ u = a \o layers
  OBVIOUS
<1>15. u \in Seq(T) /\ \A x : Has(u, x) => Proper(g, x)
  BY <1>11, <1>12, <1>14, HasJoined
<1>16. PICK v : v = u \o b
  OBVIOUS
<1>17. v \in Seq(T) /\ \A x : Has(v, x) => Proper(g, x)
  BY <1>11, <1>12, <1>14, <1>15, <1>16, HasJoined
<1>18. PICK w : w = v \o c
  OBVIOUS
<1>19. w \in Seq(T) /\ \A x : Has(w, x) => Proper(g, x)
  BY <1>11, <1>13, <1>17, <1>18, HasJoined
<1>20. \A x : Has(w \o d, x) => Proper(g, x)
  BY <1>11, <1>13, <1>19, HasJoined
<1>21. Wanted(f) = w \o d
  BY <1>7, <1>14, <1>16, <1>18
<1>22. Has(Wanted(f), Wanted(f)[i])
  BY DEF Has
<1> QED
  BY <1>20, <1>21, <1>22

-----------------------------------------------------------------------------
(* The table of a well-formed file *)

\* The tensor behind a position of the table.
LEMMA TensorIs ==
    ASSUME NEW g, IsGguf(g), Convertible(g), NEW i \in 1..Len(Collect(g)), NEW t, t = g.tensors[Collect(g)[i]]
    PROVE  /\ Collect(g)[i] \in DOMAIN g.tensors /\ Collect(g)[i] \in Kinds \X Nat
           /\ t.dtype \in Dtypes /\ t.rows \in Nat /\ t.cols \in Nat /\ t.more \in Nat
           /\ GgufSize(t) \in Nat
<1>1. g.nLayers \in Nat
  BY DEF IsGguf
<1>2. Collect(g) \in Seq(Kinds \X Nat) /\ DOMAIN Collect(g) = 1..Len(Collect(g))
  BY <1>1, CollectIs, TableIs
<1>3. Collect(g)[i] \in Kinds \X Nat
  BY <1>2
<1>4. Collect(g)[i] \in DOMAIN g.tensors /\ t.dtype \in Dtypes
  BY <1>2 DEF Convertible
<1>5. t.rows \in Nat /\ t.cols \in Nat /\ t.more \in Nat
  BY <1>4 DEF IsGguf
<1>6. PICK e, b : e = Blocks[t.dtype].elems /\ b = Blocks[t.dtype].bytes
  OBVIOUS
<1>7. e \in Nat \ {0} /\ b \in Nat
  BY <1>4, <1>6, FileAssumption
<1>8. PICK m \in Nat : m = t.rows * t.cols * t.more
  <2>1. t.rows * t.cols \in Nat
    BY <1>5
  <2> QED
    BY <1>5, <2>1
<1>9. PICK q \in Nat : q = m \div e
  BY <1>7
<1>10. GgufSize(t) = q * b /\ q * b \in Nat
  <2>1. GgufSize(t) = q * b
    BY <1>6, <1>8, <1>9, Zenon DEF GgufSize
  <2>2. q * b \in Nat
    BY <1>7
  <2> QED
    BY <2>1, <2>2
<1> QED
  BY <1>3, <1>4, <1>5, <1>10

\* The cursor of the converter after each tensor.
LEMMA CursorsAre ==
    ASSUME NEW g, IsGguf(g), Convertible(g), NEW n, n = Len(Collect(g))
    PROVE  /\ n \in Nat
           /\ \A i \in 0..n : Cursors(g)[i] \in Nat /\ Cursors(g)[i] <= Cursors(g)[n]
           /\ \A i \in 1..n : Cursors(g)[i] = AlignUp(Cursors(g)[i - 1], Align) + GgufSize(g.tensors[Collect(g)[i]])
<1>1. n \in Nat
  BY TableIs DEF IsGguf
<1>2. PICK names : names = Collect(g)
  OBVIOUS
<1>3. PICK sizes : sizes = [i \in 1..n |-> GgufSize(g.tensors[names[i]])]
  OBVIOUS
<1>4. Cursors(g) = Ends(sizes)
  BY <1>2, <1>3, Zenon DEF Cursors
<1>5. ASSUME NEW i \in 1..n PROVE GgufSize(g.tensors[names[i]]) \in Nat
  BY <1>2, TensorIs
<1>6. AreSizes(sizes, n)
  BY <1>1, <1>3, <1>5 DEF AreSizes
<1>7. /\ \A i \in 0..n : Ends(sizes)[i] \in Nat /\ Ends(sizes)[i] <= Ends(sizes)[n]
      /\ \A i \in 1..n : Ends(sizes)[i] = AlignUp(Ends(sizes)[i - 1], Align) + sizes[i]
  BY <1>6, EndsGrow
<1>8. \A i \in 1..n : sizes[i] = GgufSize(g.tensors[Collect(g)[i]])
  BY <1>2, <1>3
<1> QED
  BY <1>1, <1>4, <1>7, <1>8, Zenon

\* Whole blocks.
LEMMA WholeBlocks ==
    ASSUME NEW r \in Nat, NEW c \in Nat, NEW e \in Nat \ {0}, c % e = 0
    PROVE  (r * c) % e = 0
<1>1. PICK q \in Nat : c = e * q
  <2>1. c \div e \in Nat /\ c = e * (c \div e)
    OBVIOUS
  <2> QED
    BY <2>1
<1>2. PICK k \in Nat : k = r * q
  OBVIOUS
<1>3. r * c = k * e
  BY <1>1, <1>2
<1>4. (k * e) % e = 0
  OBVIOUS
<1> QED
  BY <1>3, <1>4

\* A well-formed tensor.
WellShaped(g, name, t) ==
    /\ <<t.rows, t.cols>> = Shape(g, name[1]) /\ t.more = 1
    /\ (t.dtype = "F32") <=> (name[1] \in Vectors)
    /\ t.cols % Blocks[t.dtype].elems = 0

\* WellFormed, tensor by tensor.
LEMMA WellFormedIs ==
    ASSUME NEW g, WellFormed(g)
    PROVE  /\ g.goodScalars /\ g.goodSpecials
           /\ \A name \in DOMAIN g.tensors : WellShaped(g, name, g.tensors[name])
           /\ F32s(MaxBatch * (AttDim(g) - g.dim)) <= Extra
BY DEF WellFormed, WellShaped

\* Model::parse accepts the table of a well-formed file.
LEMMA TableAccepted ==
    ASSUME NEW g, IsGguf(g), Convertible(g), WellFormed(g)
    PROVE  GoodTable(Convert(g)) /\ GoodTokenizer(Convert(g))
<1>1. PICK n : n = Len(Collect(g))
  OBVIOUS
<1>2. g.nLayers \in Nat
  BY DEF IsGguf
<1>3. /\ n \in Nat
      /\ \A i \in 0..n : Cursors(g)[i] \in Nat /\ Cursors(g)[i] <= Cursors(g)[n]
      /\ \A i \in 1..n : Cursors(g)[i] = AlignUp(Cursors(g)[i - 1], Align) + GgufSize(g.tensors[Collect(g)[i]])
  BY <1>1, CursorsAre
<1>4. PICK f : f = Convert(g)
  OBVIOUS
<1>5. f.gguf = g /\ f.table = Table(g) /\ f.dataSize = Cursors(g)[n] /\ DOMAIN f.table = 1..n
  BY <1>1, <1>2, <1>4, Converted, TableIs
<1>6. ASSUME NEW i \in 1..n
      PROVE  LET e == f.table[i] IN
             /\ e.offset + e.size <= f.dataSize
             /\ e.offset % Align = 0
             /\ ByteSize(e.dtype, e.rows * e.cols) = e.size
  <2>1. PICK name, t, e : name = Collect(g)[i] /\ t = g.tensors[name] /\ e = f.table[i]
    OBVIOUS
  <2>2. PICK x, o : x = Cursors(g)[i - 1] /\ o = AlignUp(x, Align)
    OBVIOUS
  <2>3. e = Entry(g, name, o)
    BY <1>1, <1>2, <1>5, <2>1, <2>2, TableIs
  <2>4. e.dtype = t.dtype /\ e.offset = o /\ e.size = GgufSize(t) /\ e.rows = t.rows /\ e.cols = t.cols
    BY <2>1, <2>3, EntryIs
  <2>5. /\ name \in DOMAIN g.tensors /\ t.dtype \in Dtypes
        /\ t.rows \in Nat /\ t.cols \in Nat /\ GgufSize(t) \in Nat
    BY <1>1, <2>1, TensorIs
  <2>6. x \in Nat /\ i - 1 \in 0..n /\ Align \in Nat \ {0}
    BY <1>3, <2>2, FileAssumption
  <2>7. o \in Nat /\ o % Align = 0
    BY <2>2, <2>6, AlignUpIs
  <2>8. o + GgufSize(t) <= f.dataSize
    BY <1>3, <1>5, <2>1, <2>2
  <2>9. ByteSize(t.dtype, t.rows * t.cols) = GgufSize(t)
    <3>1. WellShaped(g, name, t)
      BY <2>1, <2>5, WellFormedIs
    <3>2. PICK el, b : el = Blocks[t.dtype].elems /\ b = Blocks[t.dtype].bytes
      OBVIOUS
    <3>3. el \in Nat \ {0} /\ b \in Nat /\ t.cols % el = 0 /\ t.more = 1
      BY <2>5, <3>1, <3>2, FileAssumption DEF WellShaped
    <3>4. PICK m \in Nat : m = t.rows * t.cols
      BY <2>5
    <3>5. m % el = 0 /\ m * t.more = m
      <4>1. m % el = 0
        BY <2>5, <3>3, <3>4, WholeBlocks
      <4>2. m * 1 = m
        OBVIOUS
      <4> QED
        BY <3>3, <4>1, <4>2
    <3>6. GgufSize(t) = (m \div el) * b
      BY <3>2, <3>4, <3>5 DEF GgufSize
    <3>7. ByteSize(t.dtype, m) = (m \div el) * b
      BY <3>2, <3>5 DEF ByteSize
    <3> QED
      BY <3>4, <3>6, <3>7
  <2> QED
    BY <2>1, <2>4, <2>7, <2>8, <2>9
<1>7. g.goodScalars /\ g.goodSpecials
  BY WellFormedIs
<1>8. GoodTable(f)
  BY <1>5, <1>6, <1>7 DEF GoodTable
<1> QED
  BY <1>4, <1>5, <1>7, <1>8 DEF GoodTokenizer

\* new finds a tensor it asks for properly.
LEMMA AnswerOk ==
    ASSUME NEW g, IsGguf(g), Convertible(g), WellFormed(g), NEW w, Proper(g, w)
    PROVE  Answer(Convert(g), w) = "ok"
<1>1. PICK n : n = Len(Collect(g))
  OBVIOUS
<1>2. g.nLayers \in Nat /\ n \in Nat
  BY <1>1, TableIs DEF IsGguf
<1>3. PICK f : f = Convert(g) /\ f.table = Table(g)
  BY Converted
<1>4. DOMAIN f.table = 1..n /\ DOMAIN Collect(g) = 1..n
  BY <1>1, <1>2, <1>3, TableIs
<1>5. ASSUME NEW i \in 1..n
      PROVE  \E o : f.table[i] = Entry(g, Collect(g)[i], o)
  BY <1>1, <1>2, <1>3, TableIs
<1>6. PICK found : found = {i \in DOMAIN f.table : f.table[i].kind = w.kind /\ f.table[i].layer = w.layer}
  OBVIOUS
<1>7. PICK i : i \in found /\ i = CHOOSE x \in found : \A j \in found : x <= j
  <2>1. PICK k \in 1..n : Collect(g)[k] = <<w.kind, w.layer>>
    BY <1>4 DEF Proper, Has
  <2>2. f.table[k].kind = w.kind /\ f.table[k].layer = w.layer
    BY <1>5, <2>1, EntryIs
  <2>3. found # {} /\ found \in SUBSET Nat
    BY <1>2, <1>4, <1>6, <2>1, <2>2
  <2>4. \E x \in found : \A j \in found : x <= j
    BY <2>3, Least
  <2> QED
    BY <2>4
<1>8. PICK e, name, t : e = f.table[i] /\ name = Collect(g)[i] /\ t = g.tensors[name]
  OBVIOUS
<1>9. i \in 1..n /\ e.kind = w.kind /\ e.layer = w.layer
  <2>0. i \in found
    BY <1>7, Zenon
  <2>1. i \in DOMAIN f.table /\ f.table[i].kind = w.kind /\ f.table[i].layer = w.layer
    BY <1>6, <2>0
  <2> QED
    BY <1>4, <1>8, <2>1, Zenon
<1>10. /\ e.kind = name[1] /\ e.layer = name[2] /\ e.dtype = t.dtype
       /\ e.size = GgufSize(t) /\ e.rows = t.rows /\ e.cols = t.cols
  BY <1>5, <1>8, <1>9, EntryIs
<1>11. name \in DOMAIN g.tensors /\ t.dtype \in Dtypes /\ t.rows \in Nat /\ t.cols \in Nat
  BY <1>1, <1>8, <1>9, TensorIs
<1>12. WellShaped(g, name, t)
  BY <1>8, <1>11, WellFormedIs
<1>13. /\ t.rows = Shape(g, w.kind)[1] /\ t.cols = Shape(g, w.kind)[2] /\ t.more = 1
       /\ (t.dtype = "F32") <=> (w.kind \in Vectors)
  BY <1>9, <1>10, <1>12 DEF WellShaped
<1>14. Answer(f, w) =
         IF found = {} THEN "MissingTensor"
         ELSE IF w.kind \in Vectors THEN
            IF e.dtype # "F32" THEN "Panic"
            ELSE IF w.cols \notin {AnyLen, e.size \div Blocks["F32"].bytes} THEN "MissingTensor" ELSE "ok"
         ELSE IF e.rows # w.rows \/ e.cols # w.cols THEN "MissingTensor"
         ELSE IF e.dtype = "F32" THEN "BadTable" ELSE "ok"
  BY <1>6, <1>7, <1>8, Zenon DEF Answer
<1>15. CASE w.kind \in Vectors
  <2>1. t.rows = 1
    <3>1. Shape(g, w.kind)[1] = 1
      BY <1>15 DEF Vectors, Shape
    <3> QED
      BY <1>13, <3>1
  <2>2. PICK b, c : b = Blocks["F32"].bytes /\ c = t.cols
    OBVIOUS
  <2>3. b \in Nat \ {0} /\ Blocks["F32"].elems = 1 /\ c \in Nat
    BY <1>11, <2>2, FileAssumption
  <2>4. t.rows * t.cols * t.more = c
    BY <1>13, <2>1, <2>2, <2>3
  <2>5. e.size = c * b
    <3>1. e.size = (c \div 1) * b
      BY <1>10, <1>13, <1>15, <2>2, <2>3, <2>4 DEF GgufSize
    <3> QED
      BY <2>3, <3>1
  <2>6. (c * b) \div b = c
    BY <2>3
  <2>7. w.cols \in {AnyLen, c}
    BY <1>13, <1>15, <2>2 DEF Proper, Right
  <2>8. e.size \div Blocks["F32"].bytes = c
    BY <2>2, <2>5, <2>6
  <2> QED
    BY <1>3, <1>7, <1>10, <1>13, <1>14, <1>15, <2>7, <2>8, Zenon
<1>16. CASE w.kind \notin Vectors
  <2>1. w.rows = e.rows /\ w.cols = e.cols /\ e.dtype # "F32"
    BY <1>10, <1>13, <1>16 DEF Proper, Right
  <2> QED
    BY <1>3, <1>7, <1>14, <1>16, <2>1, Zenon
<1> QED
  BY <1>15, <1>16

-----------------------------------------------------------------------------
(* The arena *)

\* Twenty-four regions take no more than their sizes and an alignment each.
LEMMA TwentyFour ==
    ASSUME NEW takes, \A i \in 1..24 : takes[i] \in Nat
    PROVE  /\ Ends([i \in 1..24 |-> Hi(takes[i], 1)])[24] \in Nat
           /\ Ends([i \in 1..24 |-> Hi(takes[i], 1)])[24] <=
                takes[1] + takes[2] + takes[3] + takes[4] + takes[5] + takes[6] + takes[7] + takes[8]
                + takes[9] + takes[10] + takes[11] + takes[12] + takes[13] + takes[14] + takes[15] + takes[16]
                + takes[17] + takes[18] + takes[19] + takes[20] + takes[21] + takes[22] + takes[23] + takes[24] + 24 * Align
<1>1. PICK t1, t2, t3, t4, t5, t6, t7, t8, t9, t10, t11, t12 :
         /\ t1 = takes[1] /\ t2 = takes[2] /\ t3 = takes[3] /\ t4 = takes[4] /\ t5 = takes[5] /\ t6 = takes[6]
         /\ t7 = takes[7] /\ t8 = takes[8] /\ t9 = takes[9] /\ t10 = takes[10] /\ t11 = takes[11] /\ t12 = takes[12]
  BY Zenon
<1>2. PICK t13, t14, t15, t16, t17, t18, t19, t20, t21, t22, t23, t24 :
         /\ t13 = takes[13] /\ t14 = takes[14] /\ t15 = takes[15] /\ t16 = takes[16] /\ t17 = takes[17] /\ t18 = takes[18]
         /\ t19 = takes[19] /\ t20 = takes[20] /\ t21 = takes[21] /\ t22 = takes[22] /\ t23 = takes[23] /\ t24 = takes[24]
  BY Zenon
<1>3. /\ t1 \in Nat /\ t2 \in Nat /\ t3 \in Nat /\ t4 \in Nat /\ t5 \in Nat /\ t6 \in Nat /\ t7 \in Nat /\ t8 \in Nat
      /\ t9 \in Nat /\ t10 \in Nat /\ t11 \in Nat /\ t12 \in Nat /\ t13 \in Nat /\ t14 \in Nat /\ t15 \in Nat /\ t16 \in Nat
      /\ t17 \in Nat /\ t18 \in Nat /\ t19 \in Nat /\ t20 \in Nat /\ t21 \in Nat /\ t22 \in Nat /\ t23 \in Nat /\ t24 \in Nat
  BY <1>1, <1>2
<1>4. PICK sizes : sizes = [i \in 1..24 |-> Hi(takes[i], 1)]
  OBVIOUS
<1>5. \A i \in 1..24 : sizes[i] \in Nat /\ sizes[i] <= takes[i] + 1
  BY <1>4 DEF Hi
<1>6. AreSizes(sizes, 24)
  <2>1. Len(sizes) = 24
    BY <1>4
  <2> QED
    BY <1>5, <2>1 DEF AreSizes
<1>7. PICK e : e = Ends(sizes)
  OBVIOUS
<1>8. /\ \A i \in 0..24 : e[i] \in Nat
      /\ \A i \in 1..24 : e[i] = AlignUp(e[i - 1], Align) + sizes[i]
  BY <1>6, <1>7, EndsGrow
<1>9. Align \in Nat \ {0}
  BY FileAssumption
<1>10. ASSUME NEW i \in 1..24 PROVE e[i] <= e[i - 1] + takes[i] + Align
  <2>1. PICK x, y, s : x = e[i - 1] /\ y = AlignUp(x, Align) /\ s = sizes[i]
    OBVIOUS
  <2>2. x \in Nat
    BY <1>8, <2>1
  <2>3. y \in Nat /\ y < x + Align
    BY <1>9, <2>1, <2>2, AlignUpIs
  <2>4. e[i] = y + s /\ s \in Nat /\ s <= takes[i] + 1 /\ takes[i] \in Nat
    BY <1>5, <1>8, <2>1
  <2> QED
    BY <1>9, <2>1, <2>2, <2>3, <2>4
<1>11. e[0] = 0
  BY <1>6, <1>7, EndsUnfolds DEF AreSizes
<1>12. PICK c0, c1, c2, c3, c4, c5, c6, c7, c8, c9, c10, c11, c12 :
         /\ c0 = e[0] /\ c1 = e[1] /\ c2 = e[2] /\ c3 = e[3] /\ c4 = e[4] /\ c5 = e[5] /\ c6 = e[6]
         /\ c7 = e[7] /\ c8 = e[8] /\ c9 = e[9] /\ c10 = e[10] /\ c11 = e[11] /\ c12 = e[12]
  BY Zenon
<1>13. PICK c13, c14, c15, c16, c17, c18, c19, c20, c21, c22, c23, c24 :
         /\ c13 = e[13] /\ c14 = e[14] /\ c15 = e[15] /\ c16 = e[16] /\ c17 = e[17] /\ c18 = e[18]
         /\ c19 = e[19] /\ c20 = e[20] /\ c21 = e[21] /\ c22 = e[22] /\ c23 = e[23] /\ c24 = e[24]
  BY Zenon
<1>14. /\ c1 \in Nat /\ c1 <= c0 + t1 + Align
       /\ c2 \in Nat /\ c2 <= c1 + t2 + Align
       /\ c3 \in Nat /\ c3 <= c2 + t3 + Align
       /\ c4 \in Nat /\ c4 <= c3 + t4 + Align
       /\ c5 \in Nat /\ c5 <= c4 + t5 + Align
       /\ c6 \in Nat /\ c6 <= c5 + t6 + Align
  BY <1>1, <1>2, <1>8, <1>10, <1>12, <1>13
<1>15. /\ c7 \in Nat /\ c7 <= c6 + t7 + Align
       /\ c8 \in Nat /\ c8 <= c7 + t8 + Align
       /\ c9 \in Nat /\ c9 <= c8 + t9 + Align
       /\ c10 \in Nat /\ c10 <= c9 + t10 + Align
       /\ c11 \in Nat /\ c11 <= c10 + t11 + Align
       /\ c12 \in Nat /\ c12 <= c11 + t12 + Align
  BY <1>1, <1>2, <1>8, <1>10, <1>12, <1>13
<1>16. /\ c13 \in Nat /\ c13 <= c12 + t13 + Align
       /\ c14 \in Nat /\ c14 <= c13 + t14 + Align
       /\ c15 \in Nat /\ c15 <= c14 + t15 + Align
       /\ c16 \in Nat /\ c16 <= c15 + t16 + Align
       /\ c17 \in Nat /\ c17 <= c16 + t17 + Align
       /\ c18 \in Nat /\ c18 <= c17 + t18 + Align
  BY <1>1, <1>2, <1>8, <1>10, <1>12, <1>13
<1>17. /\ c19 \in Nat /\ c19 <= c18 + t19 + Align
       /\ c20 \in Nat /\ c20 <= c19 + t20 + Align
       /\ c21 \in Nat /\ c21 <= c20 + t21 + Align
       /\ c22 \in Nat /\ c22 <= c21 + t22 + Align
       /\ c23 \in Nat /\ c23 <= c22 + t23 + Align
       /\ c24 \in Nat /\ c24 <= c23 + t24 + Align
  BY <1>1, <1>2, <1>8, <1>10, <1>12, <1>13
<1>18. c0 = 0
  BY <1>11, <1>12
<1>19. c12 <= t1 + t2 + t3 + t4 + t5 + t6 + t7 + t8 + t9 + t10 + t11 + t12 + 12 * Align
  BY <1>3, <1>9, <1>14, <1>15, <1>18
<1>20. c24 <= c12 + t13 + t14 + t15 + t16 + t17 + t18 + t19 + t20 + t21 + t22 + t23 + t24 + 12 * Align
  BY <1>3, <1>9, <1>15, <1>16, <1>17
<1>21. c24 <= t1 + t2 + t3 + t4 + t5 + t6 + t7 + t8 + t9 + t10 + t11 + t12
                + t13 + t14 + t15 + t16 + t17 + t18 + t19 + t20 + t21 + t22 + t23 + t24 + 24 * Align
  BY <1>3, <1>9, <1>15, <1>17, <1>19, <1>20
<1> QED
  BY <1>1, <1>2, <1>4, <1>7, <1>13, <1>17, <1>21, Zenon

\* What required_bytes counts, and what new takes, for dimensions d, a, k, f,
\* v, s and h, a batch of m and b bytes of a float.
LEMMA CountedBytes ==
    ASSUME NEW d \in Nat, NEW a \in Nat, NEW k \in Nat, NEW f \in Nat, NEW v \in Nat, NEW s \in Nat, NEW h \in Nat,
           NEW m \in Nat, NEW b \in Nat, NEW x \in Nat, NEW hi \in Nat, hi \in {d, a}, (m * (a - d)) * b <= x
    PROVE  h * b + d * b + d * b + d * b + a * b + a * b + k * b + k * b + s * b + f * b + f * b + v * b
           + (m * d) * b + (m * hi) * b + (m * a) * b + (m * a) * b
           + (m * k) * b + (m * k) * b + (m * f) * b + (m * f) * b
           <= ((3 * d + 2 * a + 2 * k + s + 2 * f + v + h) + (m * 2 * (d + a + k + f))) * b + x
<1>1. PICK md \in Nat, ma \in Nat, mk \in Nat, mf \in Nat : md = m * d /\ ma = m * a /\ mk = m * k /\ mf = m * f
  <2>1. m * d \in Nat /\ m * a \in Nat /\ m * k \in Nat /\ m * f \in Nat
    OBVIOUS
  <2> QED
    BY <2>1
<1>2. m * 2 * (d + a + k + f) = 2 * md + 2 * ma + 2 * mk + 2 * mf
  BY <1>1
<1>3. m * (a - d) = ma - md
  BY <1>1
<1>4. m * hi \in {md, ma}
  BY <1>1
<1>5. PICK bd \in Nat, ba \in Nat, bk \in Nat, bf \in Nat, bv \in Nat, bs \in Nat, bh \in Nat :
        bd = d * b /\ ba = a * b /\ bk = k * b /\ bf = f * b /\ bv = v * b /\ bs = s * b /\ bh = h * b
  <2>1. d * b \in Nat /\ a * b \in Nat /\ k * b \in Nat /\ f * b \in Nat /\ v * b \in Nat /\ s * b \in Nat /\ h * b \in Nat
    OBVIOUS
  <2> QED
    BY <2>1
<1>6. PICK xd \in Nat, xa \in Nat, xk \in Nat, xf \in Nat : xd = md * b /\ xa = ma * b /\ xk = mk * b /\ xf = mf * b
  <2>1. md * b \in Nat /\ ma * b \in Nat /\ mk * b \in Nat /\ mf * b \in Nat
    OBVIOUS
  <2> QED
    BY <2>1
<1>7. ((3 * d + 2 * a + 2 * k + s + 2 * f + v + h) + (2 * md + 2 * ma + 2 * mk + 2 * mf)) * b
      = 3 * bd + 2 * ba + 2 * bk + bs + 2 * bf + bv + bh + 2 * xd + 2 * xa + 2 * xk + 2 * xf
  BY <1>5, <1>6
<1>8. (ma - md) * b = xa - xd
  BY <1>6
<1>9. xa - xd <= x
  BY <1>3, <1>8
<1>10. PICK y : y = (m * hi) * b
  OBVIOUS
<1>11. y = xd \/ y = xa
  BY <1>4, <1>6, <1>10
<1>12. y <= xd + x
  BY <1>9, <1>11
<1> QED
  BY <1>1, <1>2, <1>5, <1>6, <1>7, <1>10, <1>11, <1>12

\* The arena holds what new takes.
LEMMA ArenaFits ==
    ASSUME NEW g, IsGguf(g), F32s(MaxBatch * (AttDim(g) - g.dim)) <= Extra
    PROVE  ArenaUsed(g) \in Nat /\ ArenaSize(g) \in Nat /\ ArenaUsed(g) <= ArenaSize(g)
<1>1. PICK d, f, v, m, b, x, al : /\ d = g.dim /\ f = g.ffnDim /\ v = g.vocab /\ m = MaxBatch
                                  /\ b = Blocks["F32"].bytes /\ x = Extra /\ al = Align
  BY Zenon
<1>2. d \in Nat /\ f \in Nat /\ v \in Nat /\ m \in Nat /\ b \in Nat /\ x \in Nat /\ al \in Nat /\ Page \in Nat \ {0}
  BY <1>1, FileAssumption DEF IsGguf
<1>3. g.nHeads \in Nat /\ g.nKvHeads \in Nat /\ g.headDim \in Nat /\ g.nLayers \in Nat /\ Ctx \in Nat
  BY FileAssumption DEF IsGguf
<1>4. PICK a, k, s, h : a = AttDim(g) /\ k = KvDim(g) /\ s = g.nHeads * Ctx /\ h = g.headDim \div 2
  BY Zenon
<1>5. a \in Nat /\ k \in Nat /\ s \in Nat /\ h \in Nat
  <2>1. g.nHeads * g.headDim \in Nat /\ g.nKvHeads * g.headDim \in Nat /\ g.nHeads * Ctx \in Nat /\ g.headDim \div 2 \in Nat
    BY <1>3
  <2> QED
    BY <1>4, <2>1 DEF AttDim, KvDim
<1>6. PICK hi : hi = Hi(d, a)
  OBVIOUS
<1>7. hi \in Nat /\ hi \in {d, a}
  BY <1>2, <1>5, <1>6 DEF Hi
<1>8. PICK a1, a2, kb : a1 = Acts(g, 1) /\ a2 = Acts(g, 2) /\ kb = KvBytes(g)
  BY Zenon
<1>9. a1 \in Nat /\ a2 \in Nat /\ kb \in Nat
  <2>1. PICK md : md = MaxDim(g)
    OBVIOUS
  <2>2. md \in Nat
    BY <1>1, <1>2, <1>4, <1>5, <2>1 DEF MaxDim, Hi
  <2>3. ASSUME NEW i \in {1, 2} PROVE Acts(g, i) \in Nat
    <3>1. ActBytes[i] \in Nat /\ ActElems[i] \in Nat \ {0}
      BY FileAssumption
    <3>2. md \div ActElems[i] \in Nat
      BY <2>2, <3>1
    <3>3. m * (md \div ActElems[i]) \in Nat
      BY <1>2, <3>2
    <3>4. (m * (md \div ActElems[i])) * ActBytes[i] \in Nat
      BY <3>1, <3>3
    <3> QED
      BY <1>1, <2>1, <3>4 DEF Acts
  <2>4. KvBytes(g) \in Nat
    <3>1. 2 * g.nLayers * Ctx \in Nat
      BY <1>3
    <3>2. 2 * g.nLayers * Ctx * k \in Nat
      BY <1>5, <3>1
    <3> QED
      BY <1>4, <3>2 DEF KvBytes
  <2> QED
    BY <1>8, <2>3, <2>4
<1>10. PICK t1, t2, t5, t7, t9, t10, t12 :
         /\ t1 = h * b /\ t2 = d * b /\ t5 = a * b /\ t7 = k * b /\ t9 = s * b /\ t10 = f * b /\ t12 = v * b
  BY Zenon
<1>11. PICK t15, t16, t17, t19, t21 :
         /\ t15 = (m * d) * b /\ t16 = (m * hi) * b /\ t17 = (m * a) * b /\ t19 = (m * k) * b /\ t21 = (m * f) * b
  BY Zenon
<1>12. t1 \in Nat /\ t2 \in Nat /\ t5 \in Nat /\ t7 \in Nat /\ t9 \in Nat /\ t10 \in Nat /\ t12 \in Nat
  BY <1>2, <1>5, <1>10
<1>13. t15 \in Nat /\ t16 \in Nat /\ t17 \in Nat /\ t19 \in Nat /\ t21 \in Nat
  <2>1. m * d \in Nat /\ m * hi \in Nat /\ m * a \in Nat /\ m * k \in Nat /\ m * f \in Nat
    BY <1>2, <1>5, <1>7
  <2> QED
    BY <1>2, <1>11, <2>1
<1>14. Takes(g) = <<t1, t2, t2, t2, t5, t5, t7, t7, t9, t10, t10, t12, a1, a2,
                    t15, t16, t17, t17, t19, t19, t21, t21, kb, kb>>
  BY <1>1, <1>4, <1>6, <1>8, <1>10, <1>11, Zenon DEF Takes, F32s
<1>15. PICK used : used = ArenaUsed(g)
  OBVIOUS
<1>16. /\ used \in Nat
       /\ used <= t1 + t2 + t2 + t2 + t5 + t5 + t7 + t7 + t9 + t10 + t10 + t12 + a1 + a2
                  + t15 + t16 + t17 + t17 + t19 + t19 + t21 + t21 + kb + kb + 24 * al
  <2>1. PICK takes : takes = Takes(g)
    OBVIOUS
  <2>2. takes = <<t1, t2, t2, t2, t5, t5, t7, t7, t9, t10, t10, t12, a1, a2,
                  t15, t16, t17, t17, t19, t19, t21, t21, kb, kb>>
    BY <1>14, <2>1
  <2>5. Len(takes) = 24
    BY <2>2
  <2>6. /\ takes[1] = t1 /\ takes[2] = t2 /\ takes[3] = t2 /\ takes[4] = t2 /\ takes[5] = t5 /\ takes[6] = t5
        /\ takes[7] = t7 /\ takes[8] = t7 /\ takes[9] = t9 /\ takes[10] = t10 /\ takes[11] = t10 /\ takes[12] = t12
    BY <2>2
  <2>7. /\ takes[13] = a1 /\ takes[14] = a2 /\ takes[15] = t15 /\ takes[16] = t16 /\ takes[17] = t17
        /\ takes[18] = t17 /\ takes[19] = t19 /\ takes[20] = t19 /\ takes[21] = t21 /\ takes[22] = t21
        /\ takes[23] = kb /\ takes[24] = kb
    BY <2>2
  <2>8. ASSUME NEW i \in 1..24 PROVE takes[i] \in Nat
    BY <1>9, <1>12, <1>13, <2>6, <2>7
  <2>3. /\ Ends([i \in 1..24 |-> Hi(takes[i], 1)])[24] \in Nat
        /\ Ends([i \in 1..24 |-> Hi(takes[i], 1)])[24] <=
             t1 + t2 + t2 + t2 + t5 + t5 + t7 + t7 + t9 + t10 + t10 + t12 + a1 + a2
             + t15 + t16 + t17 + t17 + t19 + t19 + t21 + t21 + kb + kb + 24 * Align
    <3>1. PICK e : e = Ends([i \in 1..24 |-> Hi(takes[i], 1)])[24]
      OBVIOUS
    <3>2. e \in Nat /\ e <= takes[1] + takes[2] + takes[3] + takes[4] + takes[5] + takes[6] + takes[7] + takes[8]
                + takes[9] + takes[10] + takes[11] + takes[12] + takes[13] + takes[14] + takes[15] + takes[16]
                + takes[17] + takes[18] + takes[19] + takes[20] + takes[21] + takes[22] + takes[23] + takes[24] + 24 * Align
      BY <2>8, <3>1, TwentyFour, Zenon
    <3> QED
      BY <2>6, <2>7, <3>1, <3>2
  <2>4. used = Ends([i \in 1..24 |-> Hi(takes[i], 1)])[24]
    BY <1>15, <2>1, <2>5, Zenon DEF ArenaUsed
  <2> QED
    BY <1>1, <2>3, <2>4
<1>17. PICK c : c = ((3 * d + 2 * a + 2 * k + s + 2 * f + v + h) + (m * 2 * (d + a + k + f))) * b
  OBVIOUS
<1>18. /\ c \in Int
       /\ t1 + t2 + t2 + t2 + t5 + t5 + t7 + t7 + t9 + t10 + t10 + t12
          + t15 + t16 + t17 + t17 + t19 + t19 + t21 + t21 <= c + x
  <2>1. (m * (a - d)) * b <= x
    BY <1>1, <1>4 DEF F32s
  <2>2. h * b + d * b + d * b + d * b + a * b + a * b + k * b + k * b + s * b + f * b + f * b + v * b
           + (m * d) * b + (m * hi) * b + (m * a) * b + (m * a) * b
           + (m * k) * b + (m * k) * b + (m * f) * b + (m * f) * b
           <= c + x
    BY <1>2, <1>5, <1>7, <1>17, <2>1, CountedBytes
  <2>3. c \in Int
    BY <1>2, <1>5, <1>17
  <2> QED
    BY <1>10, <1>11, <2>2, <2>3
<1>19. RequiredBytes(g) = c + a1 + a2 + 2 * kb + al * 40
  BY <1>1, <1>4, <1>8, <1>17, Zenon DEF RequiredBytes, F32s
<1>20. PICK r : r = RequiredBytes(g) + Extra
  OBVIOUS
<1>21. r \in Nat /\ used <= r
  <2>1. r = c + a1 + a2 + 2 * kb + al * 40 + x
    BY <1>1, <1>19, <1>20
  <2>2. PICK p : p = t1 + t2 + t2 + t2 + t5 + t5 + t7 + t7 + t9 + t10 + t10 + t12
                     + t15 + t16 + t17 + t17 + t19 + t19 + t21 + t21
    OBVIOUS
  <2>3. p \in Int /\ p <= c + x /\ used <= p + a1 + a2 + kb + kb + 24 * al
    BY <1>2, <1>9, <1>12, <1>13, <1>16, <1>18, <2>2
  <2> QED
    BY <1>2, <1>9, <1>16, <1>18, <2>1, <2>3
<1>22. AlignUp(r, Page) \in Nat /\ r <= AlignUp(r, Page)
  BY <1>2, <1>21, AlignUpIs
<1> QED
  BY <1>15, <1>16, <1>20, <1>21, <1>22 DEF ArenaSize

-----------------------------------------------------------------------------
(* The file the converter wrote *)

\* What the proofs use of Convert.
LEMMA FileFacts ==
    ASSUME NEW m \in DOMAIN Files
    PROVE  LET f == Files[m] IN
           /\ f.ok = TRUE
           /\ f.metaEnd \in Nat /\ f.dataOff \in Nat /\ f.dataSize \in Nat
           /\ HeaderSize <= f.metaEnd /\ f.metaEnd <= f.dataOff
           /\ 0 < f.dataSize /\ f.dataOff + f.dataSize < Wrap
<1> DEFINE f == Files[m]
<1>1. f = Convert(Ggufs[m])
  BY DEF Files
<1>2. f.ok = TRUE /\ f.dataOff = AlignUp(f.metaEnd, Align)
  BY <1>1 DEF Convert
<1> HIDE DEF f
<1>0. m \in DOMAIN Ggufs /\ Convertible(Ggufs[m])
  BY DEF Files
<1>3. f.metaEnd \in Nat /\ HeaderSize <= f.metaEnd /\ f.dataSize \in Nat
  <2>1. PICK g : g = Ggufs[m] /\ f = Convert(g) /\ IsGguf(g) /\ Convertible(g)
    BY <1>0, <1>1, LoadAssumption
  <2>2. PICK n \in Nat : n = Len(Table(g)) /\ n = Len(Collect(g))
    BY <2>1, TableIs DEF IsGguf
  <2>3. Cursors(g)[n] \in Nat
    BY <2>1, <2>2, CursorsAre
  <2>4. n * EntrySize \in Nat /\ g.tokSize \in Nat /\ HeaderSize \in Nat
    <3>1. EntrySize \in Nat /\ HeaderSize \in Nat
      BY FileAssumption
    <3>2. g.tokSize \in Nat
      BY <2>1 DEF IsGguf
    <3>3. n * EntrySize \in Nat
      BY <2>2, <3>1
    <3> QED
      BY <3>1, <3>2, <3>3
  <2>5. f.metaEnd = HeaderSize + g.tokSize + n * EntrySize /\ f.dataSize = Cursors(g)[n]
    <3>1. /\ Convert(g).metaEnd = HeaderSize + g.tokSize + Len(Table(g)) * EntrySize
          /\ Convert(g).dataSize = Cursors(g)[Len(Table(g))]
      BY Converted
    <3>2. f = Convert(g) /\ n = Len(Table(g))
      BY <2>1, <2>2
    <3> QED
      BY <3>1, <3>2, Zenon
  <2> QED
    BY <2>3, <2>4, <2>5
<1>4. 0 < f.dataSize /\ f.dataOff + f.dataSize < Wrap
  BY LoadAssumption DEF f
<1>5. Align \in Nat \ {0}
  BY FileAssumption
<1>6. f.metaEnd <= f.dataOff /\ f.dataOff \in Nat
  BY <1>2, <1>3, <1>5, AlignUpIs
<1> QED
  BY <1>2, <1>3, <1>4, <1>6 DEF f

\* The sizes in the header, and the word that sums wrap at.
LEMMA Sizes == HeaderSize \in Nat /\ CrcLen \in Nat /\ CrcOff \in Nat /\ CrcOff + CrcLen = HeaderSize /\ Wrap \in Nat \ {0}
BY FileAssumption, LoadAssumption DEF CrcOff

-----------------------------------------------------------------------------
(* Sequences of bytes *)

\* Bytes are symbols of the hashers.
LEMMA ByteTypes ==
    /\ Zero \in Symbols
    /\ \A i \in Nat : Byte(i) \in Symbols /\ Written(i) \in Symbols
BY DEF Zero, Byte, Written, Symbols

\* A byte is as it was written unless it is altered.
LEMMA ByteWritten == \A i \in Nat : Byte(i) = Written(i) <=> i \notin bad
<1> TAKE i \in Nat
<1>1. ASSUME Byte(i) = Written(i) PROVE i \notin bad
  <2>1. Byte(i).altered = Written(i).altered
    BY <1>1
  <2>2. Byte(i).altered = (i \in bad) /\ Written(i).altered = FALSE
    BY DEF Byte, Written
  <2> QED
    BY <2>1, <2>2
<1>2. ASSUME i \notin bad PROVE Byte(i) = Written(i)
  <2>1. (i \in bad) = FALSE
    BY <1>2
  <2> QED
    BY <2>1 DEF Byte, Written
<1> QED
  BY <1>1, <1>2

\* The bytes of a slice.
LEMMA SliceIs ==
    ASSUME NEW a \in Nat, NEW b \in Nat, a <= b
    PROVE  /\ Slice(a, b) \in Seq(Symbols) /\ Len(Slice(a, b)) = b - a
           /\ \A j \in 1..(b - a) : Slice(a, b)[j] = Byte(a + j - 1)
<1>1. b - a \in Nat /\ \A j \in 1..(b - a) : a + j - 1 \in Nat
  OBVIOUS
<1>2. \A j \in 1..(b - a) : Byte(a + j - 1) \in Symbols
  BY <1>1, ByteTypes
<1> QED
  BY <1>1, <1>2 DEF Slice

\* The symbols of a run of zeros.
LEMMA ZerosAre ==
    ASSUME NEW k \in Nat
    PROVE  Zeros(k) \in Seq(Symbols) /\ Len(Zeros(k)) = k /\ \A j \in 1..k : Zeros(k)[j] = Zero
BY ByteTypes DEF Zeros

\* Two sequences in a row, element by element.
LEMMA Joined ==
    ASSUME NEW s \in Seq(Symbols), NEW t \in Seq(Symbols)
    PROVE  /\ s \o t \in Seq(Symbols) /\ Len(s \o t) = Len(s) + Len(t)
           /\ \A j \in 1..(Len(s) + Len(t)) : (s \o t)[j] = IF j <= Len(s) THEN s[j] ELSE t[j - Len(s)]
BY ConcatProperties

\* Bytes with a run of zeros among them.
Mixed(m0, z0, z1, m1) == Slice(m0, z0) \o Zeros(z1 - z0) \o Slice(z1, m1)

\* Such a run is as long as the bytes it stands for.
LEMMA MixedType ==
    ASSUME NEW m0 \in Nat, NEW z0 \in Nat, NEW z1 \in Nat, NEW m1 \in Nat, m0 <= z0, z0 <= z1, z1 <= m1
    PROVE  Mixed(m0, z0, z1, m1) \in Seq(Symbols) /\ Len(Mixed(m0, z0, z1, m1)) = m1 - m0
<1> DEFINE x == Slice(m0, z0)  y == Zeros(z1 - z0)  z == Slice(z1, m1)
<1>1. x \in Seq(Symbols) /\ Len(x) = z0 - m0
  BY SliceIs
<1>2. y \in Seq(Symbols) /\ Len(y) = z1 - z0
  BY ZerosAre
<1>3. z \in Seq(Symbols) /\ Len(z) = m1 - z1
  BY SliceIs
<1>4. Mixed(m0, z0, z1, m1) = (x \o y) \o z
  BY DEF Mixed
<1> HIDE DEF x, y, z
<1>5. x \o y \in Seq(Symbols) /\ Len(x \o y) = Len(x) + Len(y)
  BY <1>1, <1>2, Joined
<1>6. (x \o y) \o z \in Seq(Symbols) /\ Len((x \o y) \o z) = Len(x \o y) + Len(z)
  BY <1>3, <1>5, Joined
<1>7. Len(x) + Len(y) = z1 - m0 /\ (z1 - m0) + Len(z) = m1 - m0
  BY <1>1, <1>2, <1>3
<1> QED
  BY <1>4, <1>5, <1>6, <1>7

\* Its symbols, one by one.
LEMMA MixedAt ==
    ASSUME NEW m0 \in Nat, NEW z0 \in Nat, NEW z1 \in Nat, NEW m1 \in Nat, m0 <= z0, z0 <= z1, z1 <= m1,
           NEW j \in 1..(m1 - m0)
    PROVE  /\ z0 < m0 + j /\ m0 + j <= z1 => Mixed(m0, z0, z1, m1)[j] = Zero
           /\ ~(z0 < m0 + j /\ m0 + j <= z1) => Mixed(m0, z0, z1, m1)[j] = Byte(m0 + j - 1)
<1> DEFINE x == Slice(m0, z0)  y == Zeros(z1 - z0)  z == Slice(z1, m1)  u == x \o y
<1>1. x \in Seq(Symbols) /\ Len(x) = z0 - m0 /\ \A i \in 1..(z0 - m0) : x[i] = Byte(m0 + i - 1)
  BY SliceIs
<1>2. y \in Seq(Symbols) /\ Len(y) = z1 - z0 /\ \A i \in 1..(z1 - z0) : y[i] = Zero
  BY ZerosAre
<1>3. z \in Seq(Symbols) /\ Len(z) = m1 - z1 /\ \A i \in 1..(m1 - z1) : z[i] = Byte(z1 + i - 1)
  BY SliceIs
<1>4. Mixed(m0, z0, z1, m1) = u \o z
  BY DEF Mixed
<1> HIDE DEF x, y, z
<1>5. u \in Seq(Symbols) /\ Len(u) = z1 - m0
  <2>1. u \in Seq(Symbols) /\ Len(u) = Len(x) + Len(y)
    BY <1>1, <1>2, Joined
  <2> HIDE DEF u
  <2> QED
    BY <1>1, <1>2, <2>1
<1>6. \A i \in 1..(Len(x) + Len(y)) : u[i] = IF i <= Len(x) THEN x[i] ELSE y[i - Len(x)]
  BY <1>1, <1>2, Joined
<1> HIDE DEF u
<1>7. \A i \in 1..(Len(u) + Len(z)) : (u \o z)[i] = IF i <= Len(u) THEN u[i] ELSE z[i - Len(u)]
  BY <1>3, <1>5, Joined
<1>8. CASE j <= z0 - m0
  <2>1. j \in 1..(Len(u) + Len(z)) /\ j <= Len(u) /\ j \in 1..(Len(x) + Len(y)) /\ j <= Len(x) /\ j \in 1..(z0 - m0)
    BY <1>1, <1>2, <1>3, <1>5, <1>8
  <2>2. (u \o z)[j] = Byte(m0 + j - 1)
    BY <1>1, <1>6, <1>7, <2>1
  <2> QED
    BY <1>4, <1>8, <2>2
<1>9. CASE z0 - m0 < j /\ j <= z1 - m0
  <2> DEFINE i == j - (z0 - m0)
  <2>1. j \in 1..(Len(u) + Len(z)) /\ j <= Len(u) /\ j \in 1..(Len(x) + Len(y)) /\ ~(j <= Len(x))
    BY <1>1, <1>2, <1>3, <1>5, <1>9
  <2>2. i \in 1..(z1 - z0)
    BY <1>9
  <2>3. (u \o z)[j] = y[i]
    BY <1>1, <1>6, <1>7, <2>1
  <2>4. (u \o z)[j] = Zero
    BY <1>2, <2>2, <2>3
  <2> QED
    BY <1>4, <1>9, <2>4
<1>10. CASE z1 - m0 < j
  <2> DEFINE i == j - (z1 - m0)
  <2>1. j \in 1..(Len(u) + Len(z)) /\ ~(j <= Len(u))
    BY <1>3, <1>5, <1>10
  <2>2. i \in 1..(m1 - z1) /\ z1 + i - 1 = m0 + j - 1
    BY <1>10
  <2>3. (u \o z)[j] = z[i]
    BY <1>5, <1>7, <2>1
  <2>4. z[i] = Byte(z1 + i - 1)
    BY <1>3, <2>2
  <2>5. (u \o z)[j] = Byte(m0 + j - 1)
    BY <2>2, <2>3, <2>4
  <2> QED
    BY <1>4, <1>10, <2>5
<1>11. j <= z0 - m0 \/ (z0 - m0 < j /\ j <= z1 - m0) \/ z1 - m0 < j
  OBVIOUS
<1> QED
  BY <1>8, <1>9, <1>10, <1>11

-----------------------------------------------------------------------------
(* The two hashers *)

\* The lesser and the greater of two numbers.
LEMMA LoHi ==
    ASSUME NEW a \in Nat, NEW b \in Nat
    PROVE  /\ Lo(a, b) \in Nat /\ Lo(a, b) <= a /\ Lo(a, b) <= b
           /\ Hi(a, b) \in Nat /\ a <= Hi(a, b) /\ b <= Hi(a, b)
           /\ Lo(a, b) \in {a, b} /\ Hi(a, b) \in {a, b}
BY DEF Lo, Hi

\* What the meta hasher is to have for the byte i - 1, and after n bytes.
MetaSymbol(i) == IF CrcOff < i /\ i <= HeaderSize THEN Zero ELSE Byte(i - 1)
MetaGiven(n)  == [i \in 1..Lo(n, header.metaEnd) |-> MetaSymbol(i)]

\* What the data hasher is to have after n bytes.
DataPlace(n) == Lo(Hi(n, header.dataOff), DataEnd)
DataGiven(n) == Slice(DataPlace(0), DataPlace(n))

\* What the meta hasher gets for a byte is a symbol.
LEMMA MetaSymbolType == \A i \in Nat \ {0} : MetaSymbol(i) \in Symbols
<1> TAKE i \in Nat \ {0}
<1>1. i - 1 \in Nat
  OBVIOUS
<1> QED
  BY <1>1, ByteTypes DEF MetaSymbol

\* What the meta hasher is to have, symbol by symbol.
LEMMA MetaGivenIs ==
    ASSUME NEW n \in Nat, header.metaEnd \in Nat
    PROVE  /\ MetaGiven(n) \in Seq(Symbols) /\ Len(MetaGiven(n)) = Lo(n, header.metaEnd)
           /\ Lo(n, header.metaEnd) \in Nat
           /\ \A i \in 1..Lo(n, header.metaEnd) : MetaGiven(n)[i] = MetaSymbol(i)
<1>1. Lo(n, header.metaEnd) \in Nat
  BY LoHi
<1>2. \A i \in 1..Lo(n, header.metaEnd) : MetaSymbol(i) \in Symbols
  BY <1>1, MetaSymbolType
<1> HIDE DEF Lo
<1> QED
  BY <1>1, <1>2 DEF MetaGiven

\* One call of feed gives the meta hasher the symbols of the bytes it is about.
LEMMA MetaFeedIs ==
    ASSUME NEW a \in Nat, NEW b \in Nat, a <= b, header.metaEnd \in Nat
    PROVE  LET m0 == Lo(a, header.metaEnd)
               m1 == Lo(b, header.metaEnd)
           IN  /\ MetaFeed(a, b) \in Seq(Symbols) /\ Len(MetaFeed(a, b)) = m1 - m0
               /\ m0 \in Nat /\ m1 \in Nat /\ m0 <= m1
               /\ \A j \in 1..(m1 - m0) : MetaFeed(a, b)[j] = MetaSymbol(m0 + j)
<1>1. PICK m0 \in Nat, m1 \in Nat : m0 = Lo(a, header.metaEnd) /\ m1 = Lo(b, header.metaEnd) /\ m0 <= m1
  <2>1. Lo(a, header.metaEnd) \in Nat /\ Lo(b, header.metaEnd) \in Nat /\ Lo(a, header.metaEnd) <= Lo(b, header.metaEnd)
    BY DEF Lo
  <2> QED
    BY <2>1, Zenon
<1>2. PICK z0 \in Nat, z1 \in Nat : z0 = Hi(CrcOff, m0) /\ z1 = Lo(CrcOff + CrcLen, m1)
  BY <1>1, Sizes DEF Lo, Hi
<1>3. /\ m0 <= z0 /\ CrcOff <= z0 /\ z0 \in {CrcOff, m0}
      /\ z1 <= m1 /\ z1 <= HeaderSize /\ z1 \in {HeaderSize, m1}
  BY <1>1, <1>2, Sizes DEF Lo, Hi
<1>fed. MetaFeed(a, b) = IF z0 < z1 THEN Slice(m0, z0) \o Zeros(z1 - z0) \o Slice(z1, m1) ELSE Slice(m0, m1)
  BY <1>1, <1>2, Zenon DEF MetaFeed
<1>4. CASE z0 < z1
  <2> DEFINE s == Mixed(m0, z0, z1, m1)
  <2>0. m0 <= z0 /\ z0 <= z1 /\ z1 <= m1
    BY <1>3, <1>4
  <2>1. s \in Seq(Symbols) /\ Len(s) = m1 - m0
    BY <2>0, MixedType
  <2>2. MetaFeed(a, b) = s
    BY <1>4, <1>fed DEF Mixed
  <2> HIDE DEF s
  <2>3. ASSUME NEW j \in 1..(m1 - m0) PROVE s[j] = MetaSymbol(m0 + j)
    <3>1. (z0 < m0 + j /\ m0 + j <= z1) <=> (CrcOff < m0 + j /\ m0 + j <= HeaderSize)
      BY <1>1, <1>3, <1>4, Sizes
    <3>2. z0 < m0 + j /\ m0 + j <= z1 => s[j] = Zero
      BY <2>0, MixedAt DEF s
    <3>3. ~(z0 < m0 + j /\ m0 + j <= z1) => s[j] = Byte(m0 + j - 1)
      BY <2>0, MixedAt DEF s
    <3> QED
      BY <3>1, <3>2, <3>3, SMT DEF MetaSymbol, Byte, Zero
  <2> QED
    BY <1>1, <2>1, <2>2, <2>3
<1>5. CASE ~(z0 < z1)
  <2>1. /\ MetaFeed(a, b) = Slice(m0, m1) /\ Slice(m0, m1) \in Seq(Symbols) /\ Len(Slice(m0, m1)) = m1 - m0
        /\ \A j \in 1..(m1 - m0) : Slice(m0, m1)[j] = Byte(m0 + j - 1)
    BY <1>1, <1>5, <1>fed, SliceIs
  <2>2. ASSUME NEW j \in 1..(m1 - m0) PROVE Slice(m0, m1)[j] = MetaSymbol(m0 + j)
    <3>1. ~(CrcOff < m0 + j /\ m0 + j <= HeaderSize)
      BY <1>1, <1>3, <1>5, Sizes
    <3>2. Slice(m0, m1)[j] = Byte(m0 + j - 1)
      BY <2>1
    <3> QED
      BY <3>1, <3>2, SMT DEF MetaSymbol, Byte, Zero
  <2> QED
    BY <1>1, <2>1, <2>2
<1> QED
  BY <1>4, <1>5

\* However the file is cut into feeds, the meta hasher gets it as one.
LEMMA MetaJoin ==
    ASSUME NEW a \in Nat, NEW b \in Nat, a <= b, header.metaEnd \in Nat
    PROVE  MetaGiven(a) \o MetaFeed(a, b) = MetaGiven(b)
<1> DEFINE m0 == Lo(a, header.metaEnd)
           m1 == Lo(b, header.metaEnd)
           s  == MetaGiven(a)
           t  == MetaFeed(a, b)
<1>1. s \in Seq(Symbols) /\ Len(s) = m0 /\ \A i \in 1..m0 : s[i] = MetaSymbol(i)
  BY MetaGivenIs
<1>2. /\ t \in Seq(Symbols) /\ Len(t) = m1 - m0 /\ m0 \in Nat /\ m1 \in Nat /\ m0 <= m1
      /\ \A j \in 1..(m1 - m0) : t[j] = MetaSymbol(m0 + j)
  BY MetaFeedIs
<1>3. MetaGiven(b) \in Seq(Symbols) /\ Len(MetaGiven(b)) = m1 /\ \A i \in 1..m1 : MetaGiven(b)[i] = MetaSymbol(i)
  BY MetaGivenIs
<1> HIDE DEF m0, m1, s, t
<1>4. /\ s \o t \in Seq(Symbols) /\ Len(s \o t) = Len(s) + Len(t)
      /\ \A j \in 1..(Len(s) + Len(t)) : (s \o t)[j] = IF j <= Len(s) THEN s[j] ELSE t[j - Len(s)]
  BY <1>1, <1>2, Joined
<1>5. Len(s) + Len(t) = m1
  BY <1>1, <1>2
<1>6. ASSUME NEW i \in 1..m1 PROVE (s \o t)[i] = MetaSymbol(i)
  <2>1. (s \o t)[i] = IF i <= m0 THEN s[i] ELSE t[i - m0]
    BY <1>1, <1>4, <1>5
  <2>2. CASE i <= m0
    BY <1>1, <1>2, <2>1, <2>2
  <2>3. CASE ~(i <= m0)
    <3>1. i - m0 \in 1..(m1 - m0) /\ m0 + (i - m0) = i
      BY <1>2, <2>3
    <3> QED
      BY <1>2, <2>1, <2>3, <3>1
  <2> QED
    BY <2>2, <2>3
<1>7. s \o t = MetaGiven(b)
  <2>1. Len(s \o t) = Len(MetaGiven(b)) /\ \A i \in 1..Len(s \o t) : (s \o t)[i] = MetaGiven(b)[i]
    BY <1>3, <1>4, <1>5, <1>6
  <2> QED
    BY <1>3, <1>4, <2>1, SeqEqual
<1> QED
  BY <1>7 DEF s, t

\* Two slices that meet are one.
LEMMA SliceJoin ==
    ASSUME NEW x \in Nat, NEW y \in Nat, NEW z \in Nat, x <= y, y <= z
    PROVE  Slice(x, y) \o Slice(y, z) = Slice(x, z)
<1> DEFINE s == Slice(x, y)
           t == Slice(y, z)
<1>1. /\ s \in Seq(Symbols) /\ Len(s) = y - x
      /\ \A j \in 1..(y - x) : s[j] = Byte(x + j - 1)
  BY SliceIs
<1>2. /\ t \in Seq(Symbols) /\ Len(t) = z - y
      /\ \A j \in 1..(z - y) : t[j] = Byte(y + j - 1)
  BY SliceIs
<1>3. /\ Slice(x, z) \in Seq(Symbols) /\ Len(Slice(x, z)) = z - x
      /\ \A j \in 1..(z - x) : Slice(x, z)[j] = Byte(x + j - 1)
  <2>1. x <= z
    OBVIOUS
  <2> QED
    BY <2>1, SliceIs
<1> HIDE DEF s, t
<1>4. /\ s \o t \in Seq(Symbols) /\ Len(s \o t) = Len(s) + Len(t)
      /\ \A j \in 1..(Len(s) + Len(t)) : (s \o t)[j] = IF j <= Len(s) THEN s[j] ELSE t[j - Len(s)]
  BY <1>1, <1>2, Joined
<1>5. Len(s) + Len(t) = z - x
  BY <1>1, <1>2
<1>6. ASSUME NEW i \in 1..(z - x) PROVE (s \o t)[i] = Byte(x + i - 1)
  <2>1. (s \o t)[i] = IF i <= y - x THEN s[i] ELSE t[i - (y - x)]
    BY <1>1, <1>4, <1>5
  <2>2. CASE i <= y - x
    <3>1. i \in 1..(y - x)
      BY <2>2
    <3> QED
      BY <1>1, <2>1, <2>2, <3>1
  <2>3. CASE ~(i <= y - x)
    <3>1. i - (y - x) \in 1..(z - y) /\ y + (i - (y - x)) - 1 = x + i - 1
      BY <2>3
    <3> QED
      BY <1>2, <2>1, <2>3, <3>1
  <2> QED
    BY <2>2, <2>3
<1>7. s \o t = Slice(x, z)
  <2>1. Len(s \o t) = Len(Slice(x, z)) /\ \A i \in 1..Len(s \o t) : (s \o t)[i] = Slice(x, z)[i]
    BY <1>3, <1>4, <1>5, <1>6
  <2> QED
    BY <1>3, <1>4, <2>1, SeqEqual
<1> QED
  BY <1>7 DEF s, t

\* The end of the data section is a number, wrapped or not.
LEMMA DataEndType ==
    ASSUME header.dataOff \in Nat, header.dataSize \in Nat
    PROVE  DataEnd \in Nat
BY Sizes DEF DataEnd

\* However the file is cut into feeds, the data hasher gets it as one.
LEMMA DataJoin ==
    ASSUME NEW a \in Nat, NEW b \in Nat, a <= b, header.dataOff \in Nat, header.dataSize \in Nat
    PROVE  DataGiven(a) \o DataFeed(a, b) = DataGiven(b)
<1>1. DataEnd \in Nat
  BY DataEndType
<1>2. /\ DataPlace(0) \in Nat /\ DataPlace(a) \in Nat /\ DataPlace(b) \in Nat
      /\ DataPlace(0) <= DataPlace(a) /\ DataPlace(a) <= DataPlace(b)
  <2> DEFINE o == header.dataOff
  <2>1. o \in Nat
    OBVIOUS
  <2>2. ASSUME NEW e \in Nat, NEW d \in Nat
        PROVE  /\ Lo(Hi(0, d), e) \in Nat /\ Lo(Hi(a, d), e) \in Nat /\ Lo(Hi(b, d), e) \in Nat
               /\ Lo(Hi(0, d), e) <= Lo(Hi(a, d), e) /\ Lo(Hi(a, d), e) <= Lo(Hi(b, d), e)
    BY DEF Lo, Hi
  <2> QED
    BY <1>1, <2>1, <2>2 DEF DataPlace
<1>3. DataFeed(a, b) = Slice(DataPlace(a), DataPlace(b))
  BY DEF DataFeed, DataPlace
<1>4. PICK x \in Nat, y \in Nat, z \in Nat :
        x = DataPlace(0) /\ y = DataPlace(a) /\ z = DataPlace(b) /\ x <= y /\ y <= z
  BY <1>2, Zenon
<1>5. Slice(x, y) \o Slice(y, z) = Slice(x, z)
  <2>1. x <= y /\ y <= z
    BY <1>4
  <2> QED
    BY <2>1, SliceJoin, Zenon
<1> QED
  BY <1>3, <1>4, <1>5, Zenon DEF DataGiven

\* Before the first feed neither hasher has anything.
LEMMA GivenNone ==
    ASSUME header.metaEnd \in Nat, header.dataOff \in Nat, header.dataSize \in Nat
    PROVE  MetaGiven(0) = <<>> /\ DataGiven(0) = <<>>
<1>1. Lo(0, header.metaEnd) = 0
  BY DEF Lo
<1>2. MetaGiven(0) \in Seq(Symbols) /\ Len(MetaGiven(0)) = 0
  BY <1>1, MetaGivenIs
<1>3. PICK x \in Nat : x = DataPlace(0)
  <2>1. DataPlace(0) \in Nat
    BY DataEndType DEF DataPlace, Lo, Hi
  <2> QED
    BY <2>1, Zenon
<1>4. Slice(x, x) \in Seq(Symbols) /\ Len(Slice(x, x)) = 0
  <2>1. x <= x /\ x - x = 0
    OBVIOUS
  <2>2. Slice(x, x) \in Seq(Symbols) /\ Len(Slice(x, x)) = x - x
    BY <2>1, SliceIs
  <2> QED
    BY <2>1, <2>2, Zenon
<1>5. DataGiven(0) = Slice(x, x)
  BY <1>3, Zenon DEF DataGiven
<1> QED
  BY <1>2, <1>4, <1>5, EmptySeq

-----------------------------------------------------------------------------
(* The inductive invariant *)

LoadType ==
    /\ model \in DOMAIN Files /\ header \in LayoutType
    /\ size \in Nat /\ bad \subseteq Nat
    /\ pc \in {"open", "read", "parse", "seal", "arena", "chat", "failed"}
    /\ done \in 0..size
    /\ verifying \in BOOLEAN /\ sealed \in BOOLEAN

\* A header whose bytes are what was written states what was written; any
\* other still covers itself.
FileInv ==
    /\ HeaderIntact => header = Stated(written)
    /\ HeaderSize <= header.metaEnd

\* The hashers have been given exactly what was read.
HashInv ==
    /\ verifying => meta = MetaGiven(done) /\ data = DataGiven(done) /\ HeaderSize <= done
    /\ ~verifying => meta = <<>> /\ data = <<>>

\* What was verified is intact, and nothing intact was refused.
StageInv ==
    /\ pc \in {"parse", "seal", "arena", "chat"} => Intact /\ done = size
    /\ pc \in {"arena", "chat"} => sealed
    /\ NoFalseAlarm

LoadInv == LoadType /\ FileInv /\ HashInv /\ StageInv

\* The numbers of the header, and of the place in the file.
LEMMA HeaderTypes ==
    ASSUME LoadType
    PROVE  /\ header.metaEnd \in Nat /\ header.dataOff \in Nat /\ header.dataSize \in Nat
           /\ done \in Nat /\ size \in Nat /\ done <= size
BY DEF LoadType, LayoutType

\* The names written.* for the layout of the file.
LEMMA WrittenFacts ==
    ASSUME LoadType
    PROVE  /\ written.ok = TRUE
           /\ written.metaEnd \in Nat /\ written.dataOff \in Nat /\ written.dataSize \in Nat
           /\ HeaderSize <= written.metaEnd /\ written.metaEnd <= written.dataOff
           /\ 0 < written.dataSize /\ written.dataOff + written.dataSize < Wrap
           /\ WrittenSize \in Nat
<1>1. model \in DOMAIN Files
  BY DEF LoadType
<1>2. /\ written.ok = TRUE
      /\ written.metaEnd \in Nat /\ written.dataOff \in Nat /\ written.dataSize \in Nat
      /\ HeaderSize <= written.metaEnd /\ written.metaEnd <= written.dataOff
      /\ 0 < written.dataSize /\ written.dataOff + written.dataSize < Wrap
  BY <1>1, FileFacts DEF written
<1> QED
  BY <1>2 DEF WrittenSize

\* The invariant holds before the file is opened.
LEMMA InitLoad == Init => LoadInv
<1> SUFFICES ASSUME Init PROVE LoadInv
  OBVIOUS
<1>1. model \in DOMAIN Files
  BY DEF Init
<1>2. /\ written.ok = TRUE
      /\ written.metaEnd \in Nat /\ written.dataOff \in Nat /\ written.dataSize \in Nat
      /\ HeaderSize <= written.metaEnd /\ written.metaEnd <= written.dataOff
  BY <1>1, FileFacts DEF written
<1>3. WrittenSize \in Nat /\ MaxExtra \in Nat /\ Wrap - 1 \in Nat /\ HeaderSize \in Nat
  BY <1>2, LoadAssumption, Sizes DEF WrittenSize
<1>4. size \in Nat
  BY <1>3 DEF Init
<1>5. bad \subseteq Nat
  <2>1. bad \subseteq 0..(WrittenSize - 1)
    BY DEF Init
  <2> QED
    BY <1>3, <2>1
<1>6. /\ header \in LayoutType /\ HeaderSize <= header.metaEnd
      /\ HeaderIntact => header = Stated(written)
  <2>1. CASE HeaderIntact
    <3>1. header = Stated(written)
      BY <2>1 DEF Init
    <3>2. Stated(written).metaEnd = written.metaEnd /\ Stated(written) \in LayoutType
      BY <1>2 DEF Stated, LayoutType
    <3> QED
      BY <1>2, <3>1, <3>2
  <2>2. CASE ~HeaderIntact
    <3>1. header \in [ok : BOOLEAN, metaEnd : {written.metaEnd, written.dataOff},
            dataOff : {written.dataOff, written.dataOff + 1}, dataSize : {written.dataSize, 0, Wrap - 1}]
      BY <2>2 DEF Init
    <3>2. header \in LayoutType
      BY <1>2, <1>3, <3>1 DEF LayoutType
    <3>3. header.metaEnd \in {written.metaEnd, written.dataOff}
      BY <3>1
    <3> QED
      BY <1>2, <1>3, <2>2, <3>2, <3>3
  <2> QED
    BY <2>1, <2>2
<1>7. done \in 0..size /\ pc = "open" /\ error = "none" /\ verifying = FALSE /\ sealed = FALSE /\ meta = <<>> /\ data = <<>>
  BY <1>4 DEF Init
<1> QED
  BY <1>1, <1>4, <1>5, <1>6, <1>7 DEF LoadInv, LoadType, FileInv, HashInv, StageInv, NoFalseAlarm

\* An intact header gives the regions the converter wrote.
LEMMA IntactHeader ==
    ASSUME LoadType, FileInv, HeaderIntact
    PROVE  /\ header.ok = TRUE
           /\ header.metaEnd = written.metaEnd /\ header.dataOff = written.dataOff
           /\ header.dataSize = written.dataSize /\ DataEnd = WrittenSize
<1>1. header = Stated(written)
  BY DEF FileInv
<1>2. /\ header.ok = written.ok
      /\ header.metaEnd = written.metaEnd /\ header.dataOff = written.dataOff
      /\ header.dataSize = written.dataSize
  BY <1>1 DEF Stated
<1>3. DataEnd = WrittenSize
  <2>1. WrittenSize \in Nat /\ WrittenSize < Wrap /\ Wrap \in Nat \ {0}
    BY WrittenFacts, Sizes DEF WrittenSize
  <2>2. DataEnd = WrittenSize % Wrap
    BY <1>2 DEF DataEnd, WrittenSize
  <2> QED
    BY <2>1, <2>2
<1> QED
  BY <1>2, <1>3, WrittenFacts

\* The sums of the converter, element by element.
LEMMA SumsAre ==
    ASSUME LoadType
    PROVE  /\ MetaSum \in Seq(Symbols) /\ Len(MetaSum) = written.metaEnd
           /\ \A i \in 1..written.metaEnd :
                MetaSum[i] = IF CrcOff < i /\ i <= HeaderSize THEN Zero ELSE Written(i - 1)
           /\ DataSum \in Seq(Symbols) /\ Len(DataSum) = written.dataSize
           /\ \A i \in 1..written.dataSize : DataSum[i] = Written(written.dataOff + i - 1)
<1>1. PICK e \in Nat, o \in Nat, z \in Nat : e = written.metaEnd /\ o = written.dataOff /\ z = written.dataSize
  BY WrittenFacts
<1>2. \A i \in 1..e : i - 1 \in Nat
  OBVIOUS
<1>3. \A i \in 1..z : o + i - 1 \in Nat
  OBVIOUS
<1>4. \A i \in 1..e : (IF CrcOff < i /\ i <= HeaderSize THEN Zero ELSE Written(i - 1)) \in Symbols
  BY <1>2, ByteTypes
<1>5. \A i \in 1..z : Written(o + i - 1) \in Symbols
  BY <1>3, ByteTypes
<1>6. MetaSum = [i \in 1..e |-> IF CrcOff < i /\ i <= HeaderSize THEN Zero ELSE Written(i - 1)]
  BY <1>1 DEF MetaSum
<1>7. DataSum = [i \in 1..z |-> Written(o + i - 1)]
  BY <1>1 DEF DataSum
<1>8. /\ MetaSum \in Seq(Symbols) /\ Len(MetaSum) = e
      /\ \A i \in 1..e : MetaSum[i] = IF CrcOff < i /\ i <= HeaderSize THEN Zero ELSE Written(i - 1)
  BY <1>4, <1>6
<1>9. DataSum \in Seq(Symbols) /\ Len(DataSum) = z /\ \A i \in 1..z : DataSum[i] = Written(o + i - 1)
  BY <1>5, <1>7
<1> QED
  BY <1>1, <1>8, <1>9

\* A sum that agrees was made of bytes that are as written.
LEMMA MetaAgrees ==
    ASSUME LoadType, FileInv, NEW n \in Nat, MetaGiven(n) = MetaSum, NEW p \in Nat,
           p < written.metaEnd, ~(CrcOff <= p /\ p < HeaderSize)
    PROVE  p \notin bad
<1>1. PICK e \in Nat, m \in Nat : e = written.metaEnd /\ m = Lo(n, header.metaEnd)
  BY WrittenFacts, HeaderTypes, LoHi
<1>2. Len(MetaGiven(n)) = m /\ Len(MetaSum) = e
  BY <1>1, HeaderTypes, MetaGivenIs, SumsAre
<1>3. m = e
  BY <1>2
<1>4. p + 1 \in 1..e /\ p + 1 \in 1..m /\ (p + 1) - 1 = p /\ ~(CrcOff < p + 1 /\ p + 1 <= HeaderSize)
  BY <1>1, <1>3, Sizes
<1>5. MetaGiven(n)[p + 1] = MetaSymbol(p + 1)
  BY <1>1, <1>4, HeaderTypes, MetaGivenIs
<1>6. MetaSum[p + 1] = IF CrcOff < p + 1 /\ p + 1 <= HeaderSize THEN Zero ELSE Written((p + 1) - 1)
  BY <1>1, <1>4, SumsAre
<1>7. MetaSymbol(p + 1) = Byte((p + 1) - 1)
  BY <1>4, SMT DEF MetaSymbol, Byte, Zero
<1>8. Byte(p) = Written(p)
  BY <1>4, <1>5, <1>6, <1>7
<1> QED
  BY <1>8, ByteWritten

\* Where the data hasher's bytes begin and end when the header is intact.
LEMMA DataPlaces ==
    ASSUME LoadType, FileInv, HeaderIntact, NEW n \in Nat
    PROVE  /\ DataPlace(0) = written.dataOff
           /\ DataPlace(n) \in Nat /\ written.dataOff <= DataPlace(n) /\ DataPlace(n) <= WrittenSize
           /\ DataPlace(n) = WrittenSize <=> n >= WrittenSize
<1>1. PICK o \in Nat, e \in Nat : o = written.dataOff /\ e = WrittenSize /\ o < e
  <2>1. written.dataOff \in Nat /\ WrittenSize \in Nat /\ written.dataOff < WrittenSize
    BY WrittenFacts DEF WrittenSize
  <2> QED
    BY <2>1, Zenon
<1>2. DataPlace(0) = Lo(Hi(0, o), e) /\ DataPlace(n) = Lo(Hi(n, o), e)
  BY <1>1, IntactHeader DEF DataPlace
<1>3. /\ Lo(Hi(0, o), e) = o /\ Lo(Hi(n, o), e) \in Nat /\ o <= Lo(Hi(n, o), e) /\ Lo(Hi(n, o), e) <= e
      /\ Lo(Hi(n, o), e) = e <=> n >= e
  BY <1>1 DEF Lo, Hi
<1> QED
  BY <1>1, <1>2, <1>3

\* The data hasher's bytes of an intact header that were read to the end.
LEMMA DataGivenAll ==
    ASSUME LoadType, FileInv, HeaderIntact, NEW n \in Nat, n >= WrittenSize
    PROVE  /\ DataGiven(n) \in Seq(Symbols) /\ Len(DataGiven(n)) = written.dataSize
           /\ \A i \in 1..written.dataSize : DataGiven(n)[i] = Byte(written.dataOff + i - 1)
<1>1. PICK o \in Nat, z \in Nat : o = written.dataOff /\ z = written.dataSize /\ o + z = WrittenSize
  <2>1. written.dataOff \in Nat /\ written.dataSize \in Nat /\ written.dataOff + written.dataSize = WrittenSize
    BY WrittenFacts DEF WrittenSize
  <2> QED
    BY <2>1, Zenon
<1>2. DataPlace(0) = o /\ DataPlace(n) = o + z
  BY <1>1, DataPlaces
<1>3. DataGiven(n) = Slice(o, o + z)
  BY <1>2, Zenon DEF DataGiven
<1>4. o + z \in Nat /\ o <= o + z /\ (o + z) - o = z
  OBVIOUS
<1>5. PICK e \in Nat : e = o + z /\ o <= e /\ e - o = z
  BY <1>4
<1>6. /\ Slice(o, e) \in Seq(Symbols) /\ Len(Slice(o, e)) = z
      /\ \A i \in 1..z : Slice(o, e)[i] = Byte(o + i - 1)
  <2>1. /\ Slice(o, e) \in Seq(Symbols) /\ Len(Slice(o, e)) = e - o
        /\ \A i \in 1..(e - o) : Slice(o, e)[i] = Byte(o + i - 1)
    BY <1>5, SliceIs
  <2> QED
    BY <1>5, <2>1, Zenon
<1>7. Slice(o, e) = Slice(o, o + z)
  BY <1>5
<1> QED
  BY <1>1, <1>3, <1>6, <1>7

\* finish accepts only a file that is intact.
LEMMA VerifiedIntact ==
    ASSUME LoadType, FileInv, CrcFieldsIntact,
           MetaGiven(size) = MetaSum, DataGiven(size) = DataSum
    PROVE  Intact
<1>0. PICK n \in Nat : n = size /\ MetaGiven(n) = MetaSum /\ DataGiven(n) = DataSum
  BY HeaderTypes, Zenon
<1>1. PICK e \in Nat, o \in Nat, z \in Nat :
        /\ e = written.metaEnd /\ o = written.dataOff /\ z = written.dataSize /\ o + z = WrittenSize
        /\ HeaderSize <= e /\ e <= o /\ 0 < z
  <2>1. /\ written.metaEnd \in Nat /\ written.dataOff \in Nat /\ written.dataSize \in Nat
        /\ HeaderSize <= written.metaEnd /\ written.metaEnd <= written.dataOff /\ 0 < written.dataSize
        /\ written.dataOff + written.dataSize = WrittenSize
    BY WrittenFacts DEF WrittenSize
  <2> QED
    BY <2>1, Zenon
<1>2. HeaderIntact
  <2>1. SUFFICES ASSUME NEW p \in 0..(CrcOff - 1) PROVE p \notin bad
    BY DEF HeaderIntact
  <2>2. p \in Nat /\ p < written.metaEnd /\ ~(CrcOff <= p /\ p < HeaderSize)
    BY <1>1, Sizes
  <2> QED
    BY <1>0, <2>2, MetaAgrees
<1>3. \A p \in 0..(e - 1) : p \notin bad
  <2>1. TAKE p \in 0..(e - 1)
  <2>2. CASE CrcOff <= p /\ p < HeaderSize
    <3>1. p \in CrcOff..(HeaderSize - 1)
      BY <1>1, <2>2, Sizes
    <3> QED
      BY <3>1 DEF CrcFieldsIntact
  <2>3. CASE ~(CrcOff <= p /\ p < HeaderSize)
    <3>1. p \in Nat /\ p < written.metaEnd
      BY <1>1
    <3> QED
      BY <1>0, <2>3, <3>1, MetaAgrees
  <2> QED
    BY <2>2, <2>3
<1>4. n >= WrittenSize
  <2>1. PICK y \in Nat : y = DataPlace(n) /\ o <= y
    BY <1>1, <1>2, DataPlaces
  <2>2. DataGiven(n) = Slice(o, y)
    BY <1>1, <1>2, <2>1, DataPlaces, Zenon DEF DataGiven
  <2>3. Len(Slice(o, y)) = y - o
    BY <2>1, SliceIs
  <2>4. Len(DataSum) = z
    BY <1>1, SumsAre
  <2>5. y = o + z
    BY <1>0, <2>1, <2>2, <2>3, <2>4
  <2> QED
    BY <1>1, <1>2, <2>1, <2>5, DataPlaces
<1>5. \A p \in o..(o + z - 1) : p \notin bad
  <2>1. TAKE p \in o..(o + z - 1)
  <2>2. p \in Nat /\ (p - o) + 1 \in 1..z /\ o + ((p - o) + 1) - 1 = p
    OBVIOUS
  <2>3. PICK j \in 1..z : o + j - 1 = p
    BY <2>2
  <2>4. DataGiven(n)[j] = Byte(o + j - 1)
    BY <1>1, <1>2, <1>4, DataGivenAll
  <2>5. DataSum[j] = Written(o + j - 1)
    BY <1>1, SumsAre
  <2>6. Byte(p) = Written(p)
    BY <1>0, <2>3, <2>4, <2>5
  <2> QED
    BY <2>2, <2>6, ByteWritten
<1> QED
  <2>1. Covered = (0..(e - 1)) \cup (o..(o + z - 1))
    BY <1>1 DEF Covered
  <2>2. bad \cap Covered = {}
    BY <1>3, <1>5, <2>1
  <2> QED
    BY <1>0, <1>4, <2>2 DEF Intact

\* finish refuses no file that is intact.
LEMMA IntactVerifies ==
    ASSUME LoadType, FileInv, Intact
    PROVE  /\ HeaderIntact /\ CrcFieldsIntact
           /\ MetaGiven(size) = MetaSum /\ DataGiven(size) = DataSum
<1>1. PICK e \in Nat, o \in Nat, z \in Nat :
        /\ e = written.metaEnd /\ o = written.dataOff /\ z = written.dataSize /\ o + z = WrittenSize
        /\ HeaderSize <= e /\ e <= o
  <2>1. /\ written.metaEnd \in Nat /\ written.dataOff \in Nat /\ written.dataSize \in Nat
        /\ HeaderSize <= written.metaEnd /\ written.metaEnd <= written.dataOff
        /\ written.dataOff + written.dataSize = WrittenSize
    BY WrittenFacts DEF WrittenSize
  <2> QED
    BY <2>1, Zenon
<1>2. /\ \A p \in 0..(e - 1) : p \notin bad
      /\ \A p \in o..(o + z - 1) : p \notin bad
      /\ size >= o + z
  BY <1>1 DEF Intact, Covered
<1>3. HeaderIntact /\ CrcFieldsIntact
  BY <1>1, <1>2, Sizes DEF HeaderIntact, CrcFieldsIntact
<1>4. PICK n \in Nat : n = size /\ n >= o + z
  BY <1>2, HeaderTypes
<1>5. MetaGiven(n) = MetaSum
  <2>1. Lo(n, header.metaEnd) = e
    BY <1>1, <1>3, <1>4, IntactHeader DEF Lo
  <2>2. MetaGiven(n) \in Seq(Symbols) /\ Len(MetaGiven(n)) = e /\ \A i \in 1..e : MetaGiven(n)[i] = MetaSymbol(i)
    BY <2>1, HeaderTypes, MetaGivenIs
  <2>3. /\ MetaSum \in Seq(Symbols) /\ Len(MetaSum) = e
        /\ \A i \in 1..e : MetaSum[i] = IF CrcOff < i /\ i <= HeaderSize THEN Zero ELSE Written(i - 1)
    BY <1>1, SumsAre
  <2>4. ASSUME NEW i \in 1..e PROVE MetaGiven(n)[i] = MetaSum[i]
    <3>1. PICK p \in Nat : p = i - 1 /\ p \in 0..(e - 1)
      OBVIOUS
    <3>2. Byte(p) = Written(p)
      BY <1>2, <3>1, ByteWritten
    <3>3. MetaSymbol(i) = IF CrcOff < i /\ i <= HeaderSize THEN Zero ELSE Byte(p)
      BY <3>1, Zenon DEF MetaSymbol
    <3> QED
      BY <2>2, <2>3, <3>1, <3>2, <3>3
  <2> QED
    BY <2>2, <2>3, <2>4, SeqEqual
<1>6. DataGiven(n) = DataSum
  <2>1. /\ DataGiven(n) \in Seq(Symbols) /\ Len(DataGiven(n)) = z
        /\ \A i \in 1..z : DataGiven(n)[i] = Byte(o + i - 1)
    BY <1>1, <1>3, <1>4, DataGivenAll
  <2>2. DataSum \in Seq(Symbols) /\ Len(DataSum) = z /\ \A i \in 1..z : DataSum[i] = Written(o + i - 1)
    BY <1>1, SumsAre
  <2>3. ASSUME NEW i \in 1..z PROVE DataGiven(n)[i] = DataSum[i]
    <3>1. PICK p \in Nat : p = o + i - 1 /\ p \in o..(o + z - 1)
      OBVIOUS
    <3>2. Byte(p) = Written(p)
      BY <1>2, <3>1, ByteWritten
    <3> QED
      BY <2>1, <2>2, <3>1, <3>2
  <2> QED
    BY <2>1, <2>2, <2>3, SeqEqual
<1> QED
  BY <1>3, <1>4, <1>5, <1>6, Zenon

-----------------------------------------------------------------------------
(* Steps *)

\* What depends on the file alone stays.
LEMMA FileSteps ==
    ASSUME UNCHANGED file, LoadType, FileInv
    PROVE  FileInv' /\ (Intact' <=> Intact)
BY DEF file, FileInv, HeaderIntact, Stated, written, Intact, Covered, WrittenSize

\* What the hashers are to have depends on the file and the place in it.
LEMMA GivenSteps ==
    ASSUME UNCHANGED file, NEW n, n = done'
    PROVE  (MetaGiven(done))' = MetaGiven(n) /\ (DataGiven(done))' = DataGiven(n)
BY DEF file, MetaGiven, MetaSymbol, DataGiven, DataPlace, DataEnd, Slice, Byte, Lo, Hi

\* A read keeps what the hashers have in step with the place in the file.
LEMMA ReadStep ==
    ASSUME LoadInv, NEW n \in 1..Chunk, Read(n)
    PROVE  LoadInv'
<1> DEFINE now == done + n
<1>0. LoadType /\ FileInv /\ HashInv /\ StageInv /\ UNCHANGED file /\ done' = now
  BY DEF LoadInv, Read
<1>1. done \in Nat /\ size \in Nat /\ now \in Nat /\ done <= now /\ now <= size /\ 0 <= now
  <2>1. done \in Nat /\ size \in Nat /\ Chunk \in Nat /\ done < size
    BY <1>0, HeaderTypes, LoadAssumption DEF Read
  <2>2. n \in Nat /\ n <= size - done
    BY <2>1 DEF Read, Lo
  <2> QED
    BY <2>1, <2>2
<1>2. header.metaEnd \in Nat /\ header.dataOff \in Nat /\ header.dataSize \in Nat
  BY <1>0, HeaderTypes
<1>3. PICK d \in Nat, e \in Nat : d = done /\ e = now /\ d <= e /\ 0 <= e
  BY <1>1
<1>4. MetaGiven(d) \o MetaFeed(d, e) = MetaGiven(e) /\ DataGiven(d) \o DataFeed(d, e) = DataGiven(e)
  BY <1>2, <1>3, MetaJoin, DataJoin
<1>5. MetaGiven(0) \o MetaFeed(0, e) = MetaGiven(e) /\ DataGiven(0) \o DataFeed(0, e) = DataGiven(e)
  BY <1>2, <1>3, MetaJoin, DataJoin
<1>6. HashInv'
  <2>1. CASE verifying /\ Feed(done, now)
    <3>1. meta = MetaGiven(d) /\ data = DataGiven(d) /\ HeaderSize <= d
      BY <1>0, <1>3, <2>1, Zenon DEF HashInv
    <3>2. verifying' = TRUE /\ meta' = meta \o MetaFeed(d, e) /\ data' = data \o DataFeed(d, e)
      BY <1>3, <2>1, Zenon DEF Feed
    <3>3. meta' = MetaGiven(e) /\ data' = DataGiven(e) /\ HeaderSize <= e
      BY <1>3, <1>4, <3>1, <3>2, Sizes
    <3> QED
      BY <1>0, <1>3, <3>2, <3>3, GivenSteps DEF HashInv
  <2>2. CASE ~verifying /\ now >= HeaderSize /\ Feed(0, now)
    <3>1. meta = MetaGiven(0) /\ data = DataGiven(0)
      BY <1>0, <1>2, <2>2, GivenNone, Zenon DEF HashInv
    <3>2. verifying' = TRUE /\ meta' = meta \o MetaFeed(0, e) /\ data' = data \o DataFeed(0, e)
      BY <1>3, <2>2, Zenon DEF Feed
    <3>3. meta' = MetaGiven(e) /\ data' = DataGiven(e) /\ HeaderSize <= e
      BY <1>3, <1>5, <2>2, <3>1, <3>2, Sizes
    <3> QED
      BY <1>0, <1>3, <3>2, <3>3, GivenSteps DEF HashInv
  <2>3. CASE ~verifying /\ UNCHANGED hashes
    BY <1>0, <2>3 DEF HashInv, hashes
  <2> QED
    BY <2>1, <2>2, <2>3 DEF Read
<1>7. verifying' \in BOOLEAN
  BY <1>0 DEF Read, Feed, hashes, LoadType
<1>8. pc' \in {"read", "failed"} /\ pc = "read" /\ UNCHANGED sealed
  BY DEF Read, Fail
<1>9. LoadType'
  BY <1>0, <1>1, <1>7, <1>8 DEF LoadType, file
<1>10. NoFalseAlarm'
  <2>1. CASE UNCHANGED error
    BY <1>0, <2>1, FileSteps DEF StageInv, NoFalseAlarm
  <2>2. CASE ~GoodHeader
    <3>1. ASSUME Intact PROVE GoodHeader
      <4>1. HeaderIntact
        BY <1>0, <3>1, IntactVerifies
      <4>2. header.ok = TRUE /\ header.metaEnd = written.metaEnd /\ header.dataOff = written.dataOff
        BY <1>0, <4>1, IntactHeader
      <4> QED
        BY <1>0, <4>2, WrittenFacts DEF GoodHeader
    <3> QED
      BY <1>0, <2>2, <3>1, FileSteps DEF NoFalseAlarm
  <2> QED
    BY <2>1, <2>2 DEF Read
<1> QED
  BY <1>0, <1>6, <1>8, <1>9, <1>10, FileSteps DEF LoadInv, StageInv

\* finish goes on with intact files only, and with every one of them.
LEMMA FinishStep ==
    ASSUME LoadInv, Finish
    PROVE  LoadInv'
<1>0. LoadType /\ FileInv /\ HashInv /\ StageInv /\ UNCHANGED <<file, done, hashes, sealed>> /\ pc = "read"
  BY DEF LoadInv, Finish
<1>1. done = size
  BY <1>0, HeaderTypes DEF Finish
<1>2. HashInv'
  <2>1. PICK d : d = done
    OBVIOUS
  <2>2. (MetaGiven(done))' = MetaGiven(d) /\ (DataGiven(done))' = DataGiven(d)
    BY <1>0, <2>1, GivenSteps
  <2> QED
    BY <1>0, <2>1, <2>2 DEF HashInv, hashes
<1>3. LoadType'
  BY <1>0 DEF Finish, Fail, LoadType, file, hashes
<1>4. CASE pc' = "parse" /\ UNCHANGED error
  <2>1. verifying /\ meta = MetaSum /\ CrcFieldsIntact /\ data = DataSum
    BY <1>4 DEF Finish, Fail
  <2>2. meta = MetaGiven(size) /\ data = DataGiven(size)
    BY <1>0, <1>1, <2>1, Zenon DEF HashInv
  <2>3. Intact
    BY <1>0, <2>1, <2>2, VerifiedIntact
  <2> QED
    BY <1>0, <1>1, <1>2, <1>3, <1>4, <2>3, FileSteps DEF LoadInv, StageInv, NoFalseAlarm, file
<1>5. CASE ~(pc' = "parse" /\ UNCHANGED error)
  <2>1. pc' = "failed" /\ (error' = "ReadFailed" \/ (verifying /\ (meta # MetaSum \/ ~CrcFieldsIntact \/ data # DataSum)))
    BY <1>5 DEF Finish, Fail
  <2>2. ASSUME Intact PROVE error' = "ReadFailed"
    <3>1. CrcFieldsIntact /\ MetaGiven(size) = MetaSum /\ DataGiven(size) = DataSum
      BY <1>0, <2>2, IntactVerifies
    <3>2. verifying => meta = MetaSum /\ data = DataSum
      BY <1>0, <1>1, <3>1, Zenon DEF HashInv
    <3> QED
      BY <2>1, <3>1, <3>2
  <2> QED
    BY <1>0, <1>2, <1>3, <2>1, <2>2, FileSteps DEF LoadInv, StageInv, NoFalseAlarm
<1> QED
  BY <1>4, <1>5

\* The steps that change neither the file, nor the place in it, nor a hasher.
LEMMA OtherSteps ==
    ASSUME LoadInv, Open \/ ReadFails \/ Parse \/ SealStorage \/ BuildInfer \/ UNCHANGED vars
    PROVE  LoadInv'
<1>0. LoadType /\ FileInv /\ HashInv /\ StageInv /\ UNCHANGED <<file, done, hashes>>
  BY DEF LoadInv, Open, ReadFails, Parse, SealStorage, BuildInfer, vars
<1>1. HashInv'
  <2>1. PICK d : d = done
    OBVIOUS
  <2>2. (MetaGiven(done))' = MetaGiven(d) /\ (DataGiven(done))' = DataGiven(d)
    BY <1>0, <2>1, GivenSteps
  <2> QED
    BY <1>0, <2>1, <2>2 DEF HashInv, hashes
<1>2. /\ pc' \in {"open", "read", "parse", "seal", "arena", "chat", "failed"}
      /\ sealed' \in BOOLEAN
  BY <1>0 DEF LoadType, Open, ReadFails, Parse, SealStorage, BuildInfer, Fail, vars
<1>3. LoadType' /\ FileInv'
  BY <1>0, <1>2, FileSteps DEF LoadType, file, hashes
<1>4. /\ pc' \in {"parse", "seal", "arena", "chat"} => Intact' /\ done' = size'
      /\ pc' \in {"arena", "chat"} => sealed'
  BY <1>0, FileSteps
  DEF StageInv, Open, ReadFails, Parse, SealStorage, BuildInfer, Fail, vars, file
<1>5. NoFalseAlarm'
  <2>1. CASE UNCHANGED error
    BY <1>0, <2>1, FileSteps DEF StageInv, NoFalseAlarm
  <2>2. CASE error' \notin {"BadHeader", "MetaCrc", "DataCrc", "TooShort"}
    BY <2>2 DEF NoFalseAlarm
  <2>3. CASE Parse /\ size < Hi(DataEnd, header.metaEnd)
    <3>1. ASSUME Intact PROVE FALSE
      <4>1. DataEnd = WrittenSize /\ header.metaEnd = written.metaEnd
        BY <1>0, <3>1, IntactVerifies, IntactHeader
      <4>2. /\ size >= WrittenSize /\ size \in Nat /\ WrittenSize \in Nat /\ written.metaEnd \in Nat
            /\ written.metaEnd <= WrittenSize
        BY <1>0, <3>1, HeaderTypes, WrittenFacts DEF Intact, WrittenSize
      <4> QED
        BY <2>3, <4>1, <4>2 DEF Hi
    <3> QED
      BY <1>0, <3>1, FileSteps DEF NoFalseAlarm
  <2> QED
    BY <2>1, <2>2, <2>3 DEF Open, ReadFails, Parse, SealStorage, BuildInfer, Fail, vars
<1> QED
  BY <1>1, <1>3, <1>4, <1>5 DEF LoadInv, StageInv

\* Every step keeps the invariant.
LEMMA NextLoad == LoadInv /\ [Next]_vars => LoadInv'
BY ReadStep, FinishStep, OtherSteps DEF Next, Stay

\* It is an invariant.
LEMMA LoadAlways == Spec => []LoadInv
BY InitLoad, NextLoad, PTL DEF Spec

\* The loader's state has its types; it never reads past the end of the file.
THEOREM TypeCorrect == Spec => []TypeOK
<1>1. LoadInv => TypeOK
  <2> SUFFICES ASSUME LoadInv PROVE TypeOK
    OBVIOUS
  <2>1. LoadType /\ HashInv
    BY DEF LoadInv
  <2>2. header.metaEnd \in Nat /\ header.dataOff \in Nat /\ header.dataSize \in Nat /\ done \in Nat
    BY <2>1, HeaderTypes
  <2>3. MetaGiven(done) \in Seq(Symbols) /\ DataGiven(done) \in Seq(Symbols)
    <3>1. PICK d \in Nat : d = done
      BY <2>2
    <3>2. MetaGiven(d) \in Seq(Symbols)
      BY <2>2, MetaGivenIs
    <3>3. PICK x \in Nat, y \in Nat : x = DataPlace(0) /\ y = DataPlace(d) /\ x <= y
      <4>1. PICK o \in Nat, e \in Nat : o = header.dataOff /\ e = DataEnd
        BY <2>2, DataEndType
      <4>2. Lo(Hi(0, o), e) \in Nat /\ Lo(Hi(d, o), e) \in Nat /\ Lo(Hi(0, o), e) <= Lo(Hi(d, o), e)
        BY DEF Lo, Hi
      <4> QED
        BY <4>1, <4>2 DEF DataPlace
    <3>4. Slice(x, y) \in Seq(Symbols)
      BY <3>3, SliceIs
    <3>5. DataGiven(d) = Slice(x, y)
      BY <3>3, Zenon DEF DataGiven
    <3> QED
      BY <3>1, <3>2, <3>4, <3>5
  <2>4. meta \in Seq(Symbols) /\ data \in Seq(Symbols)
    BY <2>1, <2>3, EmptySeq DEF HashInv, LoadType
  <2> QED
    BY <2>1, <2>4 DEF LoadType, TypeOK
<1> QED
  BY <1>1, LoadAlways, PTL

\* Whatever the medium did to the file and however the firmware cut it into
\* reads, a model that is parsed, or chatted with, is in RAM as the converter
\* wrote it, and storage is sealed before the chat.
THEOREM IntactModelsOnly == Spec => []OnlyIntactModels
<1>1. LoadInv => OnlyIntactModels
  BY DEF LoadInv, StageInv, OnlyIntactModels
<1> QED
  BY <1>1, LoadAlways, PTL

\* No intact file is refused as corrupt, of a bad header, or too short.
THEOREM NoIntactRefused == Spec => []NoFalseAlarm
<1>1. LoadInv => NoFalseAlarm
  BY DEF LoadInv, StageInv
<1> QED
  BY <1>1, LoadAlways, PTL

-----------------------------------------------------------------------------
(* A well-formed file boots *)

\* What new comes to on a well-formed file.
LEMMA NewInferOk ==
    ASSUME NEW g, IsGguf(g), Convertible(g), WellFormed(g), NEW result, NewInfer(Convert(g), result)
    PROVE  result = "ok"
<1>1. PICK f : f = Convert(g) /\ f.gguf = g
  BY Converted
<1>2. g.nLayers \in Nat
  BY DEF IsGguf
<1>3. PICK answers : answers = [i \in DOMAIN Wanted(f) |-> Answer(f, Wanted(f)[i])]
  OBVIOUS
<1>4. ASSUME NEW i \in DOMAIN answers PROVE answers[i] = "ok"
  <2>1. i \in DOMAIN Wanted(f) /\ answers[i] = Answer(f, Wanted(f)[i])
    BY <1>3
  <2>2. PICK w : w = Wanted(f)[i] /\ Proper(g, w)
    BY <1>1, <1>2, <2>1, WantedProper
  <2>3. Answer(f, w) = "ok"
    BY <1>1, <2>2, AnswerOk
  <2> QED
    BY <2>1, <2>2, <2>3
<1>5. ~(ArenaUsed(g) > ArenaSize(g))
  <2>1. ArenaUsed(g) \in Nat /\ ArenaSize(g) \in Nat /\ ArenaUsed(g) <= ArenaSize(g)
    BY WellFormedIs, ArenaFits
  <2> QED
    BY <2>1
<1>6. \/ \E i \in DOMAIN answers : answers[i] = result /\ result # "ok"
      \/ result = IF ArenaUsed(g) > ArenaSize(g) THEN "Panic" ELSE "ok"
  BY <1>1, <1>3, Zenon DEF NewInfer
<1> QED
  BY <1>4, <1>5, <1>6

\* A model that is loaded was converted.
LEMMA WrittenIs ==
    ASSUME model \in DOMAIN Files
    PROVE  \E g : written = Convert(g) /\ written.gguf = g /\ IsGguf(g) /\ Convertible(g)
<1>1. PICK g : g = Ggufs[model]
  OBVIOUS
<1>2. model \in DOMAIN Ggufs /\ Convertible(g) /\ written = Convert(g)
  BY <1>1 DEF Files, written
<1>3. IsGguf(g)
  BY <1>1, <1>2, LoadAssumption
<1>4. written.gguf = g
  BY <1>2, Converted
<1> QED
  BY <1>2, <1>3, <1>4, Zenon

\* The errors that blame the file, its damage apart; and all of them.
Refusals == {"BadTable", "BadTokenizer", "MissingTensor", "Panic"}
Errors   == {"none", "Fs", "NotFound", "OutOfMemory", "ReadFailed", "ArenaFailed"}
            \cup {"BadHeader", "MetaCrc", "DataCrc", "TooShort"} \cup Refusals

\* A well-formed model meets none of the refusals.
BootInv == error \in Errors /\ (WellFormed(written.gguf) => error \notin Refusals)

\* parse and new refuse no well-formed file.
LEMMA RefusalSteps ==
    ASSUME model \in DOMAIN Files, WellFormed(written.gguf)
    PROVE  /\ Parse => error' \in {error, "TooShort"}
           /\ BuildInfer => error' \in {error, "ArenaFailed"}
<1>1. PICK g : written = Convert(g) /\ written.gguf = g /\ IsGguf(g) /\ Convertible(g)
  BY WrittenIs
<1>2. WellFormed(g)
  BY <1>1
<1>3. GoodTable(written) /\ GoodTokenizer(written)
  BY <1>1, <1>2, TableAccepted
<1>4. \A e : NewInfer(written, e) => e = "ok"
  BY <1>1, <1>2, NewInferOk
<1>5. Parse => error' \in {error, "TooShort"}
  BY <1>3 DEF Parse, Fail
<1>6. BuildInfer => error' \in {error, "ArenaFailed"}
  BY <1>4 DEF BuildInfer, Fail
<1> QED
  BY <1>5, <1>6

\* No step blames a well-formed file.
LEMMA NextBoot ==
    ASSUME model \in DOMAIN Files, BootInv, [Next]_vars
    PROVE  BootInv'
<1>1. UNCHANGED file
  BY DEF Next, Open, Read, ReadFails, Finish, Parse, SealStorage, BuildInfer, Stay, vars
<1>2. written.gguf' = written.gguf /\ (WellFormed(written.gguf)' <=> WellFormed(written.gguf))
  BY <1>1 DEF file, written
<1>3. error' \in Errors
  BY DEF BootInv, Errors, Refusals, Next, Open, Read, ReadFails, Finish, Parse, SealStorage, BuildInfer, Stay, Fail, vars
<1>4. ASSUME WellFormed(written.gguf) PROVE error' \notin Refusals
  <2>1. error \notin Refusals
    BY <1>4 DEF BootInv
  <2>2. CASE Parse \/ BuildInfer
    BY <1>4, <2>1, <2>2, RefusalSteps DEF Refusals
  <2>3. CASE ~(Parse \/ BuildInfer)
    BY <2>1, <2>3 DEF Refusals, Next, Open, Read, ReadFails, Finish, SealStorage, Stay, Fail, vars
  <2> QED
    BY <2>2, <2>3
<1> QED
  BY <1>2, <1>3, <1>4 DEF BootInv

\* What a well-formed GGUF file was converted to boots: whatever the sizes and
\* the layers of the model, parse accepts its table, new finds every tensor
\* with its shape and type, and the arena holds what new takes.
THEOREM ConvertedBoots == Spec => []WellFormedBoots
<1>1. Init => BootInv
  BY DEF Init, BootInv, Errors, Refusals
<1>2. LoadInv /\ BootInv /\ [Next]_vars => BootInv'
  BY NextBoot DEF LoadInv, LoadType
<1>3. LoadInv /\ BootInv => WellFormedBoots
  BY DEF LoadInv, StageInv, NoFalseAlarm, BootInv, Errors, WellFormedBoots
<1> QED
  BY <1>1, <1>2, <1>3, LoadAlways, PTL DEF Spec
=============================================================================
