------------------------------ MODULE MCInfer -------------------------------
(* From the tokens of a context to the next one: the forward pass over terms, *)
(* the products, conversions and sampling it is made of over numbers.  Each   *)
(* behaviour looks at one of them.                                            *)
EXTENDS Inference, Matmul, Half, Sampler

Init ==
    \/ InferInit /\ MulIdle /\ HalfIdle /\ SampleIdle
    \/ InferIdle /\ MulInit /\ HalfIdle /\ SampleIdle
    \/ InferIdle /\ MulIdle /\ HalfInit /\ SampleIdle
    \/ InferIdle /\ MulIdle /\ HalfIdle /\ SampleInit

Next ==
    \/ model # NoModel /\ InferNext /\ UNCHANGED <<mulvars, halfvars, samplevars>>
    \/ MulNext /\ UNCHANGED <<infervars, halfvars, samplevars>>
    \/ HalfNext /\ UNCHANGED <<infervars, mulvars, samplevars>>
    \/ SampleNext /\ UNCHANGED <<infervars, mulvars, halfvars>>

vars == <<infervars, mulvars, halfvars, samplevars>>
Spec == Init /\ [][Next]_vars

-----------------------------------------------------------------------------
\* Llama, Granite and Qwen3; one format, two formats that share the activations'
\* format, and two that do not.
MCModels ==
    {[traits |-> {}, dtypes |-> [m \in Matrices |-> "Q8"]],
     [traits |-> {"embed_scale", "logit_scale"},
      dtypes |-> [m \in Matrices |-> IF m \in {"wv", "down", "output"} THEN "Q6K" ELSE "Q4K"]],
     [traits |-> {"qk_norm", "neox"},
      dtypes |-> [m \in Matrices |-> IF m \in {"wk", "up"} THEN "Q8" ELSE "Q4K"]]}

-----------------------------------------------------------------------------
Bytes(len, a, c) == [i \in 0..len - 1 |-> (a * i + c) % 256]
Hot(len, p, v)   == [i \in 0..len - 1 |-> IF i = p THEN v ELSE 0]
Scales4 == Bytes(12, 37, 11)
Scales6 == [i \in 0..15 |-> 17 * i - 128]

\* A block with one quant set, that of weight p.
HotBlock(fmt, p) ==
    CASE fmt = "Q4K" ->
           [d |-> 1, dmin |-> 1, scales |-> Scales4,
            qs |-> Hot(128, (p \div 64) * 32 + (p % 32), IF p % 64 < 32 THEN 9 ELSE 144)]
      [] fmt = "Q6K" ->
           LET plane == (p % 128) \div 32
           IN  [d |-> 1, scales |-> Scales6,
                ql |-> Hot(128, (p \div 128) * 64 + 32 * (plane % 2) + (p % 32),
                           IF plane < 2 THEN 5 ELSE 80),
                qh |-> Hot(64, (p \div 128) * 32 + (p % 32), 2 * 4^plane)]
      [] fmt = "Q8" -> [d |-> 1, qs |-> Hot(32, p, -128)]

\* Blocks of many different bytes.
DenseBlock(fmt, d) ==
    CASE fmt = "Q4K" -> [d |-> d, dmin |-> 3 - d, scales |-> Scales4, qs |-> Bytes(128, 29, 7 * d)]
      [] fmt = "Q6K" -> [d |-> d, scales |-> Scales6, ql |-> Bytes(128, 31, 5), qh |-> Bytes(64, 67, d)]
      [] fmt = "Q8"  -> [d |-> d, qs |-> [i \in 0..31 |-> ((i * 55) % 256) - 128]]

\* Blocks with every quant, scale and minimum at the end of its range.
FullBlock(fmt, byte, scale) ==
    CASE fmt = "Q4K" -> [d |-> 1, dmin |-> 1, scales |-> Bytes(12, 0, 255), qs |-> Bytes(128, 0, byte)]
      [] fmt = "Q6K" -> [d |-> 1, scales |-> [i \in 0..15 |-> scale],
                         ql |-> Bytes(128, 0, byte), qh |-> Bytes(64, 0, byte)]
      [] fmt = "Q8"  -> [d |-> 1, qs |-> [i \in 0..31 |-> scale]]

MCWeightRow(name) ==
    CASE name[1] = "hot"   -> <<HotBlock(name[2], name[3])>>
      [] name[1] = "dense" -> <<DenseBlock(name[2], 1), DenseBlock(name[2], 2)>>
      [] name[1] = "full"  -> <<FullBlock(name[2], 255, -128), FullBlock(name[2], 0, 127)>>

\* Activations: all different, all the largest of either sign, both, none.
MCSource(name) ==
    [b \in 1..2 |-> [i \in 0..255 |->
        CASE name = "ramp" -> i - 128
          [] name = "fall" -> 128 - i
          [] name = "same" -> 5
          [] name = "sign" -> IF i % 2 = 0 THEN -7 ELSE 7
          [] name = "zero" -> 0
          [] name = "few"  -> (i % 5) - 2]]

Backends == {"scalar", "avx2", "neon", "dotprod"}

\* Units that make the scale of a ramp zero, one, just below and just above
\* where d/2 holds, normal with and without a carry, largest and infinite.
MCUnits == {<<1, 3>>, <<1, 2>>, <<1, 1>>, <<148, 100>>, <<149, 100>>, <<126, 1>>, <<1015, 1>>,
            <<2031, 1>>, <<8127, 2>>, <<8124, 1>>, <<8127, 1>>, <<9000, 1>>}

MCJobs ==
    UNION {[fmt : {fmt}, backend : Backends, xs : {<<"ramp">>}, unit : {<<2000, 1>>},
            rows : {<< <<"hot", fmt, p>> >> : p \in 0..(IF fmt = "Q8" THEN 31 ELSE 255)}] :
               fmt \in {"Q4K", "Q6K", "Q8"}}
    \cup
    UNION {[fmt : {fmt}, backend : Backends, unit : {<<3001, 1>>},
            xs : {<<"ramp", "fall", "same", "sign", "zero", "few">>},
            rows : {<< <<"dense", fmt>>, <<"full", fmt>> >>}] : fmt \in {"Q4K", "Q6K", "Q8"}}
    \cup
    [fmt : {"Q8"}, backend : {"scalar", "avx2"}, unit : MCUnits,
     xs : {<<"ramp", "few">>}, rows : {<< <<"dense", "Q8">> >>}]

-----------------------------------------------------------------------------
\* Fractions of a single next to where rounding changes.
MCFractions ==
    {0, 1, 2, 4095, 4096, 4097, 8191, 8192, 12287, 12288, 12289, 16384,
     2^22 - 1, 2^22, 2^22 + 1, 2^22 + 2^21,
     2^23 - 8193, 2^23 - 8192, 2^23 - 4097, 2^23 - 4096, 2^23 - 4095, 2^23 - 1}

MCWeight(below) == 2^(3 - below)
=============================================================================
