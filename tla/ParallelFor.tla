----------------------------- MODULE ParallelFor -----------------------------
(***************************************************************************)
(* What the pool promises its caller: "run(total, f)" is a loop over       *)
(* 0..total-1 that applies f to every row exactly once, in any order and   *)
(* in any grouping, and is finished when it returns.                       *)
(***************************************************************************)
EXTENDS Integers

CONSTANT Totals     \* the row counts the caller may ask for

VARIABLES
    busy,   \* inside a call of "run"
    runs    \* row -> how often f has been applied to it in this call

Init == busy = FALSE /\ runs = [r \in {} |-> 0]

Call(t) ==
    /\ ~busy
    /\ busy' = TRUE
    /\ runs' = [r \in 0..(t - 1) |-> 0]

\* f is applied to some rows that it has not been applied to yet.
RunRows ==
    /\ busy
    /\ DOMAIN runs' = DOMAIN runs
    /\ \A r \in DOMAIN runs :
         \/ runs'[r] = runs[r]
         \/ runs[r] = 0 /\ runs'[r] = 1
    /\ UNCHANGED busy

Finish ==
    /\ busy
    /\ \A r \in DOMAIN runs : runs[r] = 1
    /\ busy' = FALSE
    /\ UNCHANGED runs

Next == (\E t \in Totals : Call(t)) \/ RunRows \/ Finish

Spec == Init /\ [][Next]_<<busy, runs>>
=============================================================================
