-------------------------------- MODULE Half --------------------------------
(***************************************************************************)
(* f16_to_f32 and f32_to_f16 (crates/nr-tensor/src/f16.rs): block scales,  *)
(* and the keys and values of the cache.  A half is its 16 bits as a       *)
(* number, a single the record of its sign, exponent and fraction.         *)
(***************************************************************************)
EXTENDS Integers

CONSTANTS Exponents, Fractions      \* of the singles that are converted

ASSUME HalfAssumption ==
    /\ Exponents \subseteq 0..255
    /\ Fractions \subseteq Nat /\ \A f \in Fractions : f < 2^23

VARIABLES
    single,         \* the argument of f32_to_f16, or what f16_to_f32 returned
    half            \* the other way

halfvars == <<single, half>>

Single(s, e, f) == [sign |-> s, exp |-> e, frac |-> f]
NoSingle == Single(0, 0, 0)
NoHalf   == 65536

HalfIdle == single = NoSingle /\ half = NoHalf
HalfInit == \/ half \in 0..NoHalf - 1 /\ single = NoSingle
            \/ half = NoHalf /\ single \in [sign : {0, 1}, exp : Exponents, frac : Fractions]

\* The position of the highest bit of a ten-bit fraction.
Msb(frac) == CHOOSE m \in 0..9 : 2^m <= frac /\ frac < 2^(m + 1)

f16_to_f32(bits) ==
    LET sign == bits \div 32768
        exp  == (bits \div 1024) % 32
        frac == bits % 1024
    IN  CASE exp = 0 /\ frac = 0 -> Single(sign, 0, 0)
          [] exp = 0 /\ frac # 0 -> Single(sign, 103 + Msb(frac), (frac * 2^(23 - Msb(frac))) % 2^23)
          [] exp = 31            -> Single(sign, 255, frac * 8192)
          [] OTHER               -> Single(sign, exp + 112, frac * 8192)

\* Mutant of f32_to_f16: the exponent is or-ed in again after the carry.
f32_to_f16_masked(v) ==
    LET sign == v.sign * 32768
        e    == v.exp - 112
    IN  CASE v.exp = 255 -> sign + 31744 + (IF v.frac # 0 THEN 512 ELSE 0)
          [] v.exp # 255 /\ e >= 31 -> sign + 31744
          [] e < -10 -> sign
          [] e \in -10..0 -> sign + ((v.frac + 2^23 + 2^(13 - e)) \div 2^(14 - e))
          [] OTHER ->
               LET out   == v.frac \div 8192
                   round == v.frac % 8192
               IN  sign + e * 1024
                   + ((IF round > 4096 \/ (round = 4096 /\ out % 2 = 1) THEN out + 1 ELSE out) % 1024)

f32_to_f16(v) ==
    LET sign == v.sign * 32768
        e    == v.exp - 112
    IN  CASE v.exp = 255 -> sign + 31744 + (IF v.frac # 0 THEN 512 ELSE 0)
          [] v.exp # 255 /\ e >= 31 -> sign + 31744
          [] e < -10 -> sign
          [] e \in -10..0 -> sign + ((v.frac + 2^23 + 2^(13 - e)) \div 2^(14 - e))
          [] OTHER ->
               LET out   == sign + e * 1024 + (v.frac \div 8192)
                   round == v.frac % 8192
               IN  IF round > 4096 \/ (round = 4096 /\ out % 2 = 1) THEN out + 1 ELSE out

Widen  == /\ half # NoHalf /\ single = NoSingle
          /\ single' = f16_to_f32(half) /\ UNCHANGED half
Narrow == /\ half = NoHalf /\ single # NoSingle
          /\ half' = f32_to_f16(single) /\ UNCHANGED single

HalfNext == Widen \/ Narrow
HalfSpec == HalfInit /\ [][HalfNext]_halfvars

-----------------------------------------------------------------------------
\* The magnitude of a half, in units of the last place of a single with the
\* exponent exp, which is that of the half or the one below it.
Magnitude(h, exp) ==
    LET e == (h \div 1024) % 32
        f == h % 1024
    IN  IF e = 0 THEN f * 2^(126 - exp) ELSE (1024 + f) * 2^(e - exp + 125)

Finite(h) == (h \div 1024) % 32 # 31

\* How far the single v is from the half g.
Far(v, g) == LET d == 2^23 + v.frac - Magnitude(g, v.exp) IN IF d < 0 THEN -d ELSE d

\* bits is the half that is nearest to v.
Nearest(v, bits) ==
    LET h == bits % 32768
    IN  /\ bits \div 32768 = v.sign
        /\ (v.exp \in 102..142 /\ Finite(bits)) =>
               /\ h + 1 < 31744 => Far(v, h) <= Far(v, h + 1)
               /\ h > 0 => Far(v, h) <= Far(v, h - 1)
               /\ (v.exp > 112 /\ h % 2 = 1) => Far(v, h) < Far(v, h + 1) /\ Far(v, h) < Far(v, h - 1)
        /\ v.exp = 142 => (~Finite(bits) <=> 2^23 + v.frac >= 2^24 - 4096)
        /\ v.exp < 102 => h = 0
        /\ v.exp >= 143 => h >= 31744

\* Every half that is a number comes back from f32 as it was, and what does not
\* fit a half is rounded to the nearest: no neighbour is nearer, across a carry
\* into the exponent, at the largest half, and down into the subnormals; what
\* is halfway between two normal halves goes to the even one.
HalfNearest ==
    (half # NoHalf /\ single # NoSingle) =>
        Nearest(single, half) /\ (Finite(half) => f32_to_f16(single) = half)
=============================================================================
