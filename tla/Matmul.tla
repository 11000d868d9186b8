------------------------------- MODULE Matmul -------------------------------
(***************************************************************************)
(* matvec_* and matmul_* (crates/nr-tensor/src/kernels.rs, kquant.rs): the *)
(* rows of a weight matrix times a batch of quantized activation rows, on  *)
(* each of the backends that crates/nr-tensor/src/cpu.rs may select.  Rows *)
(* are claimed by the workers of the pool in any order; within a row the   *)
(* batch is done in tiles of four, then one by one.                        *)
(***************************************************************************)
EXTENDS Kernels

CONSTANTS
    Jobs,           \* products: format, backend, names of weight rows and of activations
    WeightRow(_),   \* the blocks of a named weight row
    Source(_)       \* the numbers of a named activation row, by block

\* The blocks of a row, by the format of the matrix.
BlocksOf(fmt) == CASE fmt = "Q4K" -> BlockQ4K [] fmt = "Q6K" -> BlockQ6K [] fmt = "Q8" -> BlockQ8_0

\* A product is of rows of its format with activations that are as long; their
\* elements are in a unit of unit[1] / unit[2] smallest halves.
ASSUME MatmulAssumption ==
    \A j \in Jobs :
        /\ j.fmt \in {"Q4K", "Q6K", "Q8"} /\ j.backend \in {"scalar", "avx2", "neon", "dotprod"}
        /\ j.unit \in (Nat \ {0}) \X (Nat \ {0})
        /\ Len(j.rows) \in Nat /\ DOMAIN j.rows = 1..Len(j.rows)
        /\ Len(j.xs) \in Nat /\ DOMAIN j.xs = 1..Len(j.xs)
        /\ \A r \in DOMAIN j.rows : WeightRow(j.rows[r]) \in Seq(BlocksOf(j.fmt))
        /\ \A b \in DOMAIN j.xs : Source(j.xs[b]) \in Seq([0..QK_K - 1 -> Int])
        /\ \A r \in DOMAIN j.rows, b \in DOMAIN j.xs : Len(WeightRow(j.rows[r])) <= Len(Source(j.xs[b]))

VARIABLES
    job,            \* the product that is computed
    at,             \* how far each row has come in the batch
    y               \* what has been written, at b * rows + r

mulvars == <<job, at, y>>

NoJob == [fmt |-> "none"]

MulIdle == job = NoJob /\ at = <<>> /\ y = <<>>
MulInit == /\ job \in Jobs
           /\ at = [r \in DOMAIN job.rows |-> 0]
           /\ y = <<>>

\* The activation format of a weight format.
Quantized(fmt, name, unit) ==
    LET src == Source(name)
    IN  IF fmt = "Q8" THEN [i \in DOMAIN src |-> quantize(src[i], unit)]
        ELSE [i \in DOMAIN src |-> quantize_q8k(src[i])]

\* CPUID and XCR0, or the ID registers, decide once for all calls.
fast_path(backend) == backend # "scalar"

\* The dot product of the backend, for one activation row and for four.
Dot(fmt, backend, w, x) ==
    CASE backend = "scalar" ->
           (CASE fmt = "Q4K" -> dot_q4k_scalar(w, x)
              [] fmt = "Q6K" -> dot_q6k_scalar(w, x)
              [] fmt = "Q8"  -> dot_q8_scalar(w, x))
      [] backend = "avx2" ->
           (CASE fmt = "Q4K" -> dot_q4k_avx2(w, x)
              [] fmt = "Q6K" -> dot_q6k_avx2(w, x)
              [] fmt = "Q8"  -> dot_q8_avx2(w, x))
      [] OTHER ->
           (CASE fmt = "Q4K" -> dot_q4k_neon(backend = "dotprod", w, x)
              [] fmt = "Q6K" -> dot_q6k_neon(backend = "dotprod", w, x)
              [] fmt = "Q8"  -> dot_q8_neon(backend = "dotprod", w, x))
Dot4(fmt, backend, w, xs) ==
    IF backend = "avx2"
    THEN CASE fmt = "Q4K" -> dot_q4k_avx2_x4(w, xs)
           [] fmt = "Q6K" -> dot_q6k_avx2_x4(w, xs)
           [] fmt = "Q8"  -> dot_q8_avx2_x4(w, xs)
    ELSE CASE fmt = "Q4K" -> dot_q4k_neon_x4(backend = "dotprod", w, xs)
           [] fmt = "Q6K" -> dot_q6k_neon_x4(backend = "dotprod", w, xs)
           [] fmt = "Q8"  -> dot_q8_neon_x4(backend = "dotprod", w, xs)

batch   == Len(job.xs)
rows    == Len(job.rows)
X(b)    == Quantized(job.fmt, job.xs[b + 1], job.unit)  \* b and r count from 0
Row(r)  == WeightRow(job.rows[r + 1])
Tiled(b) == fast_path(job.backend) /\ b + 4 <= batch

\* Mutant of Write: b is not added to the lane.
WriteLane(r, b, vs, n) ==
    LET cells == {i * rows + r : i \in 0..n - 1}
    IN  /\ y' = [k \in cells \cup DOMAIN y |-> IF k \in cells THEN vs[(k - r) \div rows] ELSE y[k]]
        /\ at' = [at EXCEPT ![r + 1] = b + n]
        /\ UNCHANGED job

\* The values for b, b + 1, ... are written for row r.
Write(r, b, vs, n) ==
    LET cells == {(b + i) * rows + r : i \in 0..n - 1}
    IN  /\ y' = [k \in cells \cup DOMAIN y |-> IF k \in cells THEN vs[(k - r) \div rows - b] ELSE y[k]]
        /\ at' = [at EXCEPT ![r + 1] = b + n]
        /\ UNCHANGED job

Tile(r) ==
    LET b == at[r + 1]
    IN  /\ Tiled(b)
        /\ Write(r, b, Dot4(job.fmt, job.backend, Row(r), [i \in 0..3 |-> X(b + i)]), 4)

One(r) ==
    LET b == at[r + 1]
    IN  /\ b < batch /\ ~Tiled(b)
        /\ Write(r, b, [i \in {0} |-> Dot(job.fmt, job.backend, Row(r), X(b))], 1)

MulNext == job # NoJob /\ \E r \in 0..rows - 1 : Tile(r) \/ One(r)

MulSpec == MulInit /\ [][MulNext]_mulvars

-----------------------------------------------------------------------------
Done == job # NoJob /\ \A r \in DOMAIN at : at[r] = batch

\* The number a block result stands for, without the activations' scale.
Value(v) ==
    LET q == IF "sumi" \in DOMAIN v THEN SumTo(v.sumi, 8)
             ELSE IF "acc" \in DOMAIN v THEN v.acc
             ELSE LET n == IF "m" \in DOMAIN v THEN 8 ELSE 16
                  IN  SumTo([j \in 0..n - 1 |-> v.q[j][1] * v.q[j][2]], n)
    IN  v.d[1] * q - (IF "m" \in DOMAIN v THEN v.dmin[1] * v.m ELSE 0)

Weights(fmt, b) == CASE fmt = "Q4K" -> dequant_q4k(b)
                     [] fmt = "Q6K" -> dequant_q6k(b)
                     [] fmt = "Q8"  -> dequantize(b)

\* Every element of the product is the dot product of the weights that the
\* block formats stand for with the quantized activations, on every backend
\* and for all scales, nibbles and bit planes: no lane saturates or wraps, no
\* shift lets bits of a neighbouring byte in, and the sums kept with the
\* activations are those of the quants (dot_*, q4k_scale_min, quantize_q8k).
ProductExact ==
    Done => \A b \in 0..batch - 1, r \in 0..rows - 1 :
        \A i \in DOMAIN Row(r) :
            LET v == y[b * rows + r][i]
                x == X(b)[i]
                n == IF job.fmt = "Q8" THEN QK8_0 ELSE QK_K
                w == Weights(job.fmt, Row(r)[i])
            IN  v.d[2] = x.d /\ Value(v) = SumTo([k \in 0..n - 1 |-> w[k] * x.qs[k]], n)

\* "results are bit-identical to running matvec per token" (kernels.rs:86,
\* kquant.rs:568): every element goes through the f32 operations that a single
\* product of its row would, whatever tile it fell in; and on NEON through
\* those of the scalar kernel ("bit-identical to its `*_scalar` counterpart",
\* neon.rs:9).
BitIdentical ==
    Done => \A b \in 0..batch - 1, r \in 0..rows - 1 :
        /\ y[b * rows + r] = Dot(job.fmt, job.backend, Row(r), X(b))
        /\ job.backend # "avx2" => y[b * rows + r] = Dot(job.fmt, "scalar", Row(r), X(b))

\* The source s is over 127 times the largest half, and its scale infinite.
Overflows(s, unit) ==
    \E k \in 0..QK8_0 - 1 : \A p \in HalfSteps : Abs(s[k]) * unit[1] >= 127 * unit[2] * 2047 * p

\* A quantized activation of Q8_K is within half a step of the number it stands
\* for, and within one step where quantize_q8k cuts off at 127.  One of Q8_0 is
\* within half a step of its rounded scale ("per-element error stays within
\* d/2", q8.rs:32) only if that is at least 127 smallest halves; if it is less,
\* or rounds to zero, all that is left is an absolute error of 63.5 smallest
\* halves, 127 * 2^-25.  A number is lost altogether, its quant 0 and its scale
\* infinite, only when the block holds one that is over 127 times the largest
\* half.  Single precision itself is taken to be exact.
QuantizeClose ==
    job # NoJob => \A b \in 0..batch - 1 : \A i \in DOMAIN X(b) :
        LET x == X(b)[i]
            s == Source(job.xs[b + 1])[i]
        IN  \A k \in DOMAIN x.qs :
                LET error2 == 2 * Abs(s[k] * x.d[2] - x.qs[k] * x.d[1]) IN
                IF job.fmt # "Q8"
                THEN error2 <= Abs(x.d[1]) * (IF x.qs[k] = 127 THEN 2 ELSE 1)
                ELSE IF x.d[2] # 0
                     THEN error2 <= x.d[1] \/ error2 <= 127 * job.unit[2]
                     ELSE x.qs[k] = 0 /\ Overflows(s, job.unit)
=============================================================================
