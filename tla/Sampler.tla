------------------------------ MODULE Sampler -------------------------------
(***************************************************************************)
(* Sampler::sample (crates/nr-model/src/sample.rs) and argmax              *)
(* (crates/nr-tensor/src/vec.rs): the next token from the logits.  A heap  *)
(* keeps the TOP_K largest, their exponentials are cut at top_p of their   *)
(* sum, and one of what is left is drawn.                                  *)
(***************************************************************************)
EXTENDS Integers, FiniteSets, Functions

CONSTANTS
    Vocab,          \* number of tokens
    Logits,         \* the values a logit may have, besides NaN
    TOP_K,          \* candidates kept
    Weight(_),      \* exp((c - max) / temperature), for how far c is below max
    TopPs,          \* top_p, in percent
    Draws           \* what next_f32 may return is a multiple of 1 / Draws below 1

ASSUME SamplerAssumption ==
    /\ Vocab \in Nat \ {0} /\ TOP_K \in Nat \ {0} /\ Draws \in Nat \ {0}
    /\ Logits \subseteq Nat /\ TopPs \subseteq 1..100
    /\ Weight(0) # 0
    /\ \A a, b \in Logits : a <= b => Weight(b - a) \in Nat

\* A logit is a natural number, less than all of them, or no number.
NegInf == -1
NaN    == -2

\* a > b of two floats: false when one is no number
Greater(a, b) == NaN \notin {a, b} /\ a > b
Less(a, b)    == Greater(b, a)

VARIABLES
    spc,            \* where sample is
    scores,         \* the logits it is given, tokens counting from 0
    greedy,         \* temperature <= 0
    top_p,
    next,           \* the next logit (i)
    heap,           \* candidates <<logit, token>>, indices from 0
    node,           \* the node (n) that is being sifted down
    token           \* the result

samplevars == <<spc, scores, greedy, top_p, next, heap, node, token>>

NoToken == Vocab
Empty   == [k \in 0..TOP_K - 1 |-> <<NegInf, 0>>]

SampleIdle ==
    /\ spc = "idle" /\ scores = <<>> /\ greedy = FALSE /\ top_p = 0
    /\ next = 0 /\ heap = Empty /\ node = 0 /\ token = NoToken
SampleInit ==
    /\ spc = "start" /\ scores \in [0..Vocab - 1 -> Logits \cup {NaN}]
    /\ greedy \in BOOLEAN /\ top_p \in (IF greedy THEN {100} ELSE TopPs)
    /\ next = 0 /\ heap = Empty /\ node = 0 /\ token = NoToken

\* The first of the largest logits, or token 0 when there is no number.
argmax(ls) ==
    IF \A t \in DOMAIN ls : ls[t] = NaN THEN 0
    ELSE CHOOSE t \in DOMAIN ls :
            ls[t] # NaN /\ \A u \in DOMAIN ls : ~Greater(ls[u], ls[t]) /\ (u < t => ls[u] # ls[t])

Greedy ==
    /\ spc = "start" /\ greedy
    /\ token' = argmax(scores) /\ spc' = "done"
    /\ UNCHANGED <<scores, greedy, top_p, next, heap, node>>

\* A logit above the smallest candidate takes its place.
Offer ==
    /\ spc = "start" /\ ~greedy /\ next < Vocab
    /\ IF Greater(scores[next], heap[0][1])
       THEN heap' = [heap EXCEPT ![0] = <<scores[next], next>>] /\ node' = 0 /\ spc' = "sift"
       ELSE UNCHANGED <<heap, node, spc>>
    /\ next' = next + 1
    /\ UNCHANGED <<scores, greedy, top_p, token>>

\* Mutant of SmallestChild: the right child is compared with the node.
SmallestChildRight(h, k) ==
    LET l == 2 * k + 1
        r == 2 * k + 2
        small == IF l < TOP_K /\ Less(h[l][1], h[k][1]) THEN l ELSE k
    IN  IF r < TOP_K /\ Less(h[r][1], h[k][1]) THEN r ELSE small

\* The smallest of a node and its children.
SmallestChild(h, k) ==
    LET l == 2 * k + 1
        r == 2 * k + 2
        small == IF l < TOP_K /\ Less(h[l][1], h[k][1]) THEN l ELSE k
    IN  IF r < TOP_K /\ Less(h[r][1], h[small][1]) THEN r ELSE small

Sift ==
    /\ spc = "sift"
    /\ LET small == SmallestChild(heap, node)
       IN  IF small = node THEN spc' = "start" /\ UNCHANGED <<heap, node>>
           ELSE /\ heap' = [heap EXCEPT ![node] = heap[small], ![small] = heap[node]]
                /\ node' = small /\ UNCHANGED spc
    /\ UNCHANGED <<scores, greedy, top_p, next, token>>

-----------------------------------------------------------------------------
\* The weight of a candidate, nothing for a place that was never filled.
Prob(c, max) == IF c = NegInf THEN 0 ELSE Weight(max - c)

\* f(1) + ... + f(m) of a sequence of numbers
Total(f, m) == LET s[k \in 0..m] == IF k = 0 THEN 0 ELSE s[k - 1] + f[k] IN s[m]

\* The candidates sorted from the largest, in any order where they are equal.
Sorted ==
    {c \in {[k \in 1..TOP_K |-> heap[p[k]]] : p \in Bijection(1..TOP_K, 0..TOP_K - 1)} :
        \A k \in 1..TOP_K - 1 : ~Less(c[k][1], c[k + 1][1])}

\* How many are kept: up to the first whose cumulative weight reaches the cut.
Nucleus(probs) ==
    LET reach == {k \in 1..TOP_K : 100 * Total(probs, k) >= top_p * Total(probs, TOP_K)}
    IN  CHOOSE k \in reach : \A j \in reach : k <= j

\* The first whose cumulative weight reaches r = u / Draws of the kept weight.
Drawn(probs, kept, u) ==
    LET hit == {k \in 1..kept : u * Total(probs, kept) <= Draws * Total(probs, k)}
    IN  CHOOSE k \in hit : \A j \in hit : k <= j

\* Without any number all comparisons fail and the last candidate is returned.
Draw ==
    /\ spc = "start" /\ ~greedy /\ next = Vocab
    /\ \E cand \in Sorted, u \in 0..Draws - 1 :
        IF cand[1][1] = NegInf THEN token' = cand[TOP_K][2]
        ELSE LET probs == [k \in 1..TOP_K |-> Prob(cand[k][1], cand[1][1])]
             IN  token' = cand[Drawn(probs, Nucleus(probs), u)][2]
    /\ spc' = "done"
    /\ UNCHANGED <<scores, greedy, top_p, next, heap, node>>

SampleNext == Greedy \/ Offer \/ Sift \/ Draw

SampleSpec == SampleInit /\ [][SampleNext]_samplevars

-----------------------------------------------------------------------------
Numbers   == {t \in DOMAIN scores : scores[t] # NaN}
Better(t) == {u \in Numbers : scores[u] > scores[t]}

\* The k-th largest logit, and the weights of the m largest together.
Kth(k) ==
    CHOOSE v \in {scores[t] : t \in Numbers} :
        /\ Cardinality({t \in Numbers : scores[t] > v}) < k
        /\ Cardinality({t \in Numbers : scores[t] >= v}) >= k
Heaviest(m) == Total([k \in 1..m |-> Weight(Kth(1) - Kth(k))], m)

\* The token that comes out is a token, a number unless all logits are NaN, and
\* one that top-k and top-p leave: fewer than TOP_K are better, and together
\* those weigh less than top_p of the TOP_K heaviest ("keep the smallest
\* prefix with cumulative prob >= top_p", sample.rs:74).  Greedily it is the
\* first of the best.
SampledFromNucleus ==
    spc = "done" =>
        IF Numbers = {} THEN token = 0
        ELSE /\ token \in Numbers
             /\ IF greedy THEN Better(token) = {} /\ \A t \in Numbers : t < token => Better(t) # {}
                ELSE /\ Cardinality(Better(token)) < TOP_K
                     /\ 100 * Heaviest(Cardinality(Better(token)))
                            < top_p * Heaviest(IF Cardinality(Numbers) < TOP_K THEN Cardinality(Numbers) ELSE TOP_K)
=============================================================================
