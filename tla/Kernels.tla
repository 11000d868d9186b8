------------------------------ MODULE Kernels -------------------------------
(***************************************************************************)
(* The dot products of quantized weight rows with quantized activations:   *)
(* the block formats, the scalar loops and their AVX2 and NEON forms       *)
(* (crates/nr-tensor/src: q8.rs, kquant.rs, kernels.rs, neon.rs).          *)
(*                                                                         *)
(* Arrays are functions on 0..n-1, a row is a sequence of blocks.  Integer *)
(* arithmetic is computed with its width.  Floating point is kept as the   *)
(* operands in the order the code combines them: two results that are      *)
(* equal here went through the same f32 operations, so their bits agree.   *)
(* What such a result stands for is its Value, over the integers.          *)
(***************************************************************************)
EXTENDS Integers, Sequences

CONSTANT HalfSteps      \* distances of neighbouring halves, in units of the smallest half:
                        \*   2^0 for the subnormals, to 2^29 for the largest

ASSUME HalfStepsAssumption ==
    /\ HalfSteps \subseteq Nat \ {0} /\ 1 \in HalfSteps
    /\ \A p \in HalfSteps \ {1} : \E q \in HalfSteps : p = 2 * q

QK_K  == 256
QK8_0 == 32

\* f[0] + ... + f[n - 1]
SumTo(f, n) ==
    LET s[k \in 0..n] == IF k = 0 THEN 0 ELSE s[k - 1] + f[k - 1]
    IN  s[n]

Clamp(v, lo, hi) == IF v < lo THEN lo ELSE IF v > hi THEN hi ELSE v
Abs(v)           == IF v < 0 THEN -v ELSE v
Wrap8(v)         == ((v + 128) % 256) - 128
Wrap16(v)        == ((v + 32768) % 65536) - 32768
Sat16(v)         == Clamp(v, -32768, 32767)

\* n elements of a from off on
Load(a, off, n)  == [i \in 0..n - 1 |-> a[off + i]]

-----------------------------------------------------------------------------
(* Formats *)

Byte  == 0..255
SByte == -128..127
BlockQ4K  == [d : Int, dmin : Int, scales : [0..11 -> Byte], qs : [0..127 -> Byte]]
BlockQ6K  == [d : Int, scales : [0..15 -> SByte], ql : [0..127 -> Byte], qh : [0..63 -> Byte]]
BlockQ8_0 == [d : Int, qs : [0..QK8_0 - 1 -> SByte]]

\* The j-th scale and minimum, six bits each, of the twelve bytes.
q4k_scale_min(s, j) ==
    IF j < 4 THEN <<s[j] % 64, s[j + 4] % 64>>
    ELSE <<(s[j + 4] % 16) + 16 * (s[j - 4] \div 64), (s[j + 4] \div 16) + 16 * (s[j] \div 64)>>

\* The weights a block stands for.
dequant_q4k(b) ==
    [y \in 0..QK_K - 1 |->
        LET chunk == y \div 64
            hi    == (y % 64) \div 32
            byte  == b.qs[chunk * 32 + (y % 32)]
            sm    == q4k_scale_min(b.scales, 2 * chunk + hi)
        IN  b.d * sm[1] * (IF hi = 1 THEN byte \div 16 ELSE byte % 16) - b.dmin * sm[2]]

\* The quant at l of plane n (0..3) of a half, before 32 is taken off.
q6(b, half, n, l) ==
    LET low == b.ql[half * 64 + (n % 2) * 32 + l]
    IN  (IF n < 2 THEN low % 16 ELSE low \div 16)
        + 16 * ((b.qh[half * 32 + l] \div 4^n) % 4)

dequant_q6k(b) ==
    [y \in 0..QK_K - 1 |->
        LET half == y \div 128
            n    == (y % 128) \div 32
            l    == y % 32
        IN  b.d * b.scales[half * 8 + (l \div 16) + 2 * n] * (q6(b, half, n, l) - 32)]

dequantize(b) == [y \in 0..QK8_0 - 1 |-> b.qs[y] * b.d]

\* Rounded to the nearest integer, ties away from zero: a / b.
nearest_int(a, b) ==
    LET n == IF b < 0 THEN -a ELSE a
        q == (2 * Abs(a) + Abs(b)) \div (2 * Abs(b))
    IN  IF n < 0 THEN -q ELSE q

\* max of the loop in quantize_q8k: the first element with the largest magnitude.
MaxOf(src, n) ==
    src[CHOOSE i \in 0..n - 1 : \A j \in 0..n - 1 :
            IF j < i THEN Abs(src[j]) < Abs(src[i]) ELSE Abs(src[j]) <= Abs(src[i])]

\* d is 1 / iscale, the quotient of max and -128.
quantize_q8k(src) ==
    LET max == MaxOf(src, QK_K)
        qs  == [i \in 0..QK_K - 1 |->
                   LET n == nearest_int(-128 * src[i], max)
                   IN  IF max = 0 THEN 0 ELSE Wrap8(IF n > 127 THEN 127 ELSE n)]
    IN  [d     |-> <<max, -128>>,
         qs    |-> qs,
         bsums |-> [j \in 0..15 |-> Wrap16(SumTo(Load(qs, 16 * j, 16), 16))]]

\* Mutant of RoundToHalf: the bits that do not fit are cut off.
TruncateToHalf(a, b) ==
    LET fits == {p \in HalfSteps : a < 2048 * p * b}
        p    == CHOOSE q \in fits : \A r \in fits : q <= r
    IN  IF fits = {} THEN <<1, 0>> ELSE <<(a \div (p * b)) * p, 1>>

\* f32_to_f16 of a / b, not negative, in units of the smallest half; <<1, 0>> is
\* infinity.  Up to 1024 the halves are subnormal, ties go up; above they have
\* eleven bits, ties go to even.
RoundToHalf(a, b) ==
    LET fits == {p \in HalfSteps : a < 2048 * p * b}
        p    == CHOOSE q \in fits : \A r \in fits : q <= r
        n    == a \div (p * b)
        rest == 2 * (a % (p * b))
        m    == IF rest > p * b \/ (rest = p * b /\ (n < 1024 \/ n % 2 = 1)) THEN n + 1 ELSE n
    IN  IF fits = {} \/ (m = 2048 /\ \A q \in HalfSteps : q <= p) THEN <<1, 0>> ELSE <<m * p, 1>>

\* d is amax / 127 rounded to an f16, which may be zero or infinite; inv is 0
\* for both.  An element stands for src[i] * unit[1] / unit[2] smallest halves,
\* and d = dn / dd is in the unit of the elements.
quantize(src, unit) ==
    LET amax == Abs(MaxOf(src, QK8_0))
        half == RoundToHalf(amax * unit[1], 127 * unit[2])
        dn   == half[1] * unit[2]
        dd   == half[2] * unit[1]
    IN  [d  |-> <<dn, dd>>,
         qs |-> [i \in 0..QK8_0 - 1 |->
                    IF dn = 0 THEN 0 ELSE Clamp(nearest_int(src[i] * dd, dn), -127, 127)]]

-----------------------------------------------------------------------------
(* Scalar dot products, block by block.  d and dmin are the factors of the    *)
(* block's scales, q the terms <<scale, integer sum>> in the order in which   *)
(* they are added up, m the sum for the minima.                               *)

Blocks(w, x, f(_, _)) == [i \in DOMAIN w |-> f(w[i], x[i])]

\* The correction for the minima: m times the sums that quantize_q8k kept.
MinSum(bw, bx) ==
    SumTo([j \in 0..7 |-> q4k_scale_min(bw.scales, j)[2]
                          * (bx.bsums[2 * j] + bx.bsums[2 * j + 1])], 8)

Q4kScalar(bw, bx) ==
    [d    |-> <<bw.d, bx.d>>,
     q    |-> [j \in 0..7 |->
                 LET nibble(k) == LET byte == bw.qs[(j \div 2) * 32 + k]
                                  IN  IF j % 2 = 1 THEN byte \div 16 ELSE byte % 16
                 IN  <<q4k_scale_min(bw.scales, j)[1],
                       SumTo([k \in 0..31 |-> nibble(k) * bx.qs[j * 32 + k]], 32)>>],
     dmin |-> <<bw.dmin, bx.d>>,
     m    |-> MinSum(bw, bx)]
dot_q4k_scalar(w, x) == Blocks(w, x, Q4kScalar)

\* Group g of a half is the 16 quants of half a plane.
Q6kScalar(bw, bx) ==
    [d |-> <<bw.d, bx.d>>,
     q |-> [g \in 0..15 |->
              LET half == g \div 8
                  n    == (g % 8) \div 2
                  l0   == 16 * (g % 2)
              IN  <<bw.scales[g],
                    SumTo([l \in 0..15 |-> (q6(bw, half, n, l0 + l) - 32)
                                           * bx.qs[half * 128 + n * 32 + l0 + l]], 16)>>]]
dot_q6k_scalar(w, x) == Blocks(w, x, Q6kScalar)

Q8Scalar(bw, bx) ==
    [acc |-> SumTo([i \in 0..QK8_0 - 1 |-> bw.qs[i] * bx.qs[i]], QK8_0), d |-> <<bw.d, bx.d>>]
dot_q8_scalar(w, x) == Blocks(w, x, Q8Scalar)

-----------------------------------------------------------------------------
(* AVX2.  A register is 32 bytes, 16 words or 8 doublewords. *)

\* Pairs of unsigned times signed bytes, added with saturation.
maddubs(u, s)  == [i \in 0..15 |-> Sat16(u[2 * i] * s[2 * i] + u[2 * i + 1] * s[2 * i + 1])]
madd(a, b)     == [i \in 0..7 |-> a[2 * i] * b[2 * i] + a[2 * i + 1] * b[2 * i + 1]]
sub16(a, b)    == [i \in 0..15 |-> Wrap16(a[i] - b[i])]
set1(v, n)     == [i \in 0..n - 1 |-> v]
\* Every word of bytes shifted right: bits of a byte move into its neighbour.
srli16(v, k)   == [i \in 0..31 |-> IF i % 2 = 0 THEN ((v[i] + 256 * v[i + 1]) \div 2^k) % 256
                                   ELSE v[i] \div 2^k]
slli16(v, k)   == [i \in 0..31 |-> IF i % 2 = 0 THEN (v[i] * 2^k) % 256
                                   ELSE (((v[i - 1] + 256 * v[i]) * 2^k) \div 256) % 256]
\* Bytes and-ed with bits - 1, and or-ed where no bit is set in both.
mask(v, bits)  == [i \in 0..31 |-> v[i] % bits]
or(a, b)       == [i \in 0..31 |-> a[i] + b[i]]
\* a with the sign of b, as a byte.
sign8(a, b)    == [i \in 0..31 |-> IF b[i] < 0 THEN Wrap8(-a[i]) ELSE IF b[i] = 0 THEN 0 ELSE a[i]]
unsigned(v)    == [i \in 0..31 |-> v[i] % 256]

\* Mutant of Q4kSumi: the high nibbles are shifted but not masked.
Q4kSumiUnmasked(bw, bx) ==
    LET part(j) ==
            LET q4bits == Load(bw.qs, j * 32, 32)
                q4l    == mask(q4bits, 16)
                q4h    == srli16(q4bits, 4)
                sc(k)  == set1(q4k_scale_min(bw.scales, k)[1], 16)
                p16l   == madd(sc(2 * j), maddubs(q4l, Load(bx.qs, j * 64, 32)))
                p16h   == madd(sc(2 * j + 1), maddubs(q4h, Load(bx.qs, j * 64 + 32, 32)))
            IN  [i \in 0..7 |-> p16l[i] + p16h[i]]
        parts == [j \in 0..3 |-> part(j)]
    IN  [i \in 0..7 |-> SumTo([j \in 0..3 |-> parts[j][i]], 4)]

\* sumi of a Q4_K block: the products of 64 quants at a time.
Q4kSumi(bw, bx) ==
    LET part(j) ==
            LET q4bits == Load(bw.qs, j * 32, 32)
                q4l    == mask(q4bits, 16)
                q4h    == mask(srli16(q4bits, 4), 16)
                sc(k)  == set1(q4k_scale_min(bw.scales, k)[1], 16)
                p16l   == madd(sc(2 * j), maddubs(q4l, Load(bx.qs, j * 64, 32)))
                p16h   == madd(sc(2 * j + 1), maddubs(q4h, Load(bx.qs, j * 64 + 32, 32)))
            IN  [i \in 0..7 |-> p16l[i] + p16h[i]]
        parts == [j \in 0..3 |-> part(j)]
    IN  [i \in 0..7 |-> SumTo([j \in 0..3 |-> parts[j][i]], 4)]

Q4kAvx2(bw, bx) == [d    |-> <<bw.d, bx.d>>,    sumi |-> Q4kSumi(bw, bx),
                    dmin |-> <<bw.dmin, bx.d>>, m    |-> MinSum(bw, bx)]
dot_q4k_avx2(w, x) == Blocks(w, x, Q4kAvx2)

\* Plane n of a half, and its two scales, one for each 16 quants.
Q6Plane(bw, half, n) ==
    LET q4bits == Load(bw.ql, half * 64 + 32 * (n % 2), 32)
        qhbits == Load(bw.qh, half * 32, 32)
        high   == slli16(mask(IF n = 0 THEN qhbits ELSE srli16(qhbits, 2 * n), 4), 4)
    IN  or(mask(IF n < 2 THEN q4bits ELSE srli16(q4bits, 4), 16), high)

\* (q6 - 32) * q8 as q6 * q8 - 32 * q8, for maddubs takes q6 unsigned.
Q6kSumi(bw, bx) ==
    LET part(p) ==
            LET half == p \div 4
                n    == p % 4
                q8   == Load(bx.qs, half * 128 + n * 32, 32)
                sc   == [i \in 0..15 |-> bw.scales[half * 8 + 2 * n + (i \div 8)]]
            IN  madd(sc, sub16(maddubs(Q6Plane(bw, half, n), q8), maddubs(set1(32, 32), q8)))
        parts == [p \in 0..7 |-> part(p)]
    IN  [i \in 0..7 |-> SumTo([p \in 0..7 |-> parts[p][i]], 8)]

Q6kAvx2(bw, bx)    == [d |-> <<bw.d, bx.d>>, sumi |-> Q6kSumi(bw, bx)]
dot_q6k_avx2(w, x) == Blocks(w, x, Q6kAvx2)

\* |w| times x with the sign of w: |-128| is 128 as an unsigned byte.
Q8Sumi(qw, qx) ==
    madd(maddubs(unsigned(sign8(qw, qw)), sign8(qx, qw)), set1(1, 16))

Q8Avx2(bw, bx)    == [d |-> <<bw.d, bx.d>>, sumi |-> Q8Sumi(bw.qs, bx.qs)]
dot_q8_avx2(w, x) == Blocks(w, x, Q8Avx2)

\* Four activation rows in one pass over the weights: for each block the
\* weights' side once, then lane by lane.
Lanes(w, xs, f(_, _)) == [lane \in 0..3 |-> [bi \in DOMAIN w |-> f(w[bi], xs[lane][bi])]]

dot_q4k_avx2_x4(w, xs) == Lanes(w, xs, Q4kAvx2)
dot_q6k_avx2_x4(w, xs) == Lanes(w, xs, Q6kAvx2)
dot_q8_avx2_x4(w, xs)  == Lanes(w, xs, Q8Avx2)

-----------------------------------------------------------------------------
(* NEON.  A register is 16 bytes or 4 words. *)

\* Widening products of eight bytes, added up by pairs onto the accumulator.
vpadal_vmull(acc, a, b, h) ==
    [i \in 0..3 |-> acc[i] + a[8 * h + 2 * i] * b[8 * h + 2 * i]
                           + a[8 * h + 2 * i + 1] * b[8 * h + 2 * i + 1]]
sdot_acc(acc, a, b) ==
    [i \in 0..3 |-> acc[i] + a[4 * i] * b[4 * i] + a[4 * i + 1] * b[4 * i + 1]
                           + a[4 * i + 2] * b[4 * i + 2] + a[4 * i + 3] * b[4 * i + 3]]
vaddv(acc) == acc[0] + acc[1] + acc[2] + acc[3]

\* The sum of 16 products onto acc, with FEAT_DotProd or without.
Acc16(sdot, acc, w, x) ==
    IF sdot THEN sdot_acc(acc, w, x)
    ELSE vpadal_vmull(vpadal_vmull(acc, w, x, 0), w, x, 1)
dot_i8x16(sdot, w, x) == vaddv(Acc16(sdot, set1(0, 4), w, x))
dot_i8x32(sdot, w0, w1, x0, x1) ==
    vaddv(Acc16(sdot, Acc16(sdot, set1(0, 4), w0, x0), w1, x1))

\* Sub-block j of a Q4_K block, as two registers.
q4k_sub(qs, j) ==
    LET unpack(v) == [i \in 0..15 |-> IF j % 2 = 0 THEN v[i] % 16 ELSE v[i] \div 16]
    IN  <<unpack(Load(qs, (j \div 2) * 32, 16)), unpack(Load(qs, (j \div 2) * 32 + 16, 16))>>

Q4kNeon(sdot, bw, bx) ==
    [d    |-> <<bw.d, bx.d>>,
     q    |-> [j \in 0..7 |->
                 LET ws == q4k_sub(bw.qs, j)
                 IN  <<q4k_scale_min(bw.scales, j)[1],
                       dot_i8x32(sdot, ws[1], ws[2], Load(bx.qs, j * 32, 16),
                                 Load(bx.qs, j * 32 + 16, 16))>>],
     dmin |-> <<bw.dmin, bx.d>>,
     m    |-> MinSum(bw, bx)]

\* 16 quants of a plane, less 32, as signed bytes.
q6k_plane(ql, qh, shift, high) ==
    [i \in 0..15 |-> Wrap8((IF high THEN ql[i] \div 16 ELSE ql[i] % 16)
                           + 16 * ((qh[i] \div 2^shift) % 4) - 32)]

\* Group g is lanes 0..15 (a) or 16..31 (b) of a plane.
Q6kNeon(sdot, bw, bx) ==
    [d |-> <<bw.d, bx.d>>,
     q |-> [g \in 0..15 |->
              LET half  == g \div 8
                  n     == (g % 8) \div 2
                  b     == 16 * (g % 2)
                  plane == q6k_plane(Load(bw.ql, half * 64 + 32 * (n % 2) + b, 16),
                                     Load(bw.qh, half * 32 + b, 16), 2 * n, n >= 2)
              IN  <<bw.scales[g],
                    dot_i8x16(sdot, plane, Load(bx.qs, half * 128 + n * 32 + b, 16))>>]]

Q8Neon(sdot, bw, bx) ==
    [acc |-> dot_i8x32(sdot, Load(bw.qs, 0, 16), Load(bw.qs, 16, 16),
                       Load(bx.qs, 0, 16), Load(bx.qs, 16, 16)),
     d   |-> <<bw.d, bx.d>>]

\* dotprod is the probed feature, looked up once for each dot product.
dot_q4k_neon(dotprod, w, x)     == Blocks(w, x, LAMBDA bw, bx : Q4kNeon(dotprod, bw, bx))
dot_q6k_neon(dotprod, w, x)     == Blocks(w, x, LAMBDA bw, bx : Q6kNeon(dotprod, bw, bx))
dot_q8_neon(dotprod, w, x)      == Blocks(w, x, LAMBDA bw, bx : Q8Neon(dotprod, bw, bx))
dot_q4k_neon_x4(dotprod, w, xs) == Lanes(w, xs, LAMBDA bw, bx : Q4kNeon(dotprod, bw, bx))
dot_q6k_neon_x4(dotprod, w, xs) == Lanes(w, xs, LAMBDA bw, bx : Q6kNeon(dotprod, bw, bx))
dot_q8_neon_x4(dotprod, w, xs)  == Lanes(w, xs, LAMBDA bw, bx : Q8Neon(dotprod, bw, bx))
=============================================================================
