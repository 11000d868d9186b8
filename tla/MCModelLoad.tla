---------------------------- MODULE MCModelLoad -----------------------------
(* ModelLoad for TLC: bytes, blocks and dimensions are scaled down.  Two     *)
(* models without layers are small enough to be damaged in every way; the    *)
(* others have a layer and are read as they were written.                    *)
EXTENDS ModelLoad, TLC

MCBlocks == [F32  |-> [elems |-> 1, bytes |-> 1], Q8_0 |-> [elems |-> 2, bytes |-> 3],
             Q4_K |-> [elems |-> 4, bytes |-> 3], Q6_K |-> [elems |-> 4, bytes |-> 5]]
MCActBytes == <<3, 5>>
MCActElems == <<2, 4>>

\* A model whose tensors have their shapes; q is the type of its matrices.
Gguf(arch, dim, heads, headDim, layers, extras, q, tok) ==
    LET base == [arch |-> arch, dim |-> dim, nLayers |-> layers, nHeads |-> heads, nKvHeads |-> 1,
                 headDim |-> headDim, ffnDim |-> 4, vocab |-> 1, tokSize |-> tok,
                 goodScalars |-> TRUE, goodSpecials |-> TRUE]
        names == {<<k, 0>> : k \in {"TokEmbed", "OutputNorm"} \cup extras}
                 \cup {<<LayerKinds(base)[i], l>> : i \in DOMAIN LayerKinds(base), l \in 0..layers - 1}
        tensor(n) == [dtype |-> IF n[1] \in Vectors THEN "F32" ELSE q, more |-> 1,
                      rows |-> Shape(base, n[1])[1], cols |-> Shape(base, n[1])[2]]
    IN  [tensors |-> [n \in names |-> tensor(n)]] @@ base

Tiny  == Gguf("llama", 2, 1, 2, 0, {}, "Q8_0", 1)
Llama == Gguf("llama", 4, 2, 2, 2, {"RopeFreqs"}, "Q4_K", 2)
Qwen  == Gguf("qwen3", 4, 2, 4, 1, {"Output"}, "Q6_K", 1)
With(g, name, field, value) == [g EXCEPT !.tensors[name][field] = value]

MCGgufs ==
    [tiny     |-> Tiny,
     tight    |-> [Tiny EXCEPT !.tokSize = 2],
     llama    |-> Llama,
     qwen     |-> Qwen,
     scalars  |-> [Tiny EXCEPT !.arch = "granite", !.goodScalars = FALSE],
     specials |-> [Tiny EXCEPT !.goodSpecials = FALSE],
     cube     |-> With(Llama, <<"AttnQ", 0>>, "more", 2),
     partial  |-> With(Llama, <<"AttnQ", 0>>, "cols", 3),
     narrow   |-> With(Llama, <<"FfnUp", 1>>, "rows", 1),
     plain    |-> With(Llama, <<"AttnV", 0>>, "dtype", "F32"),
     packed   |-> With(Llama, <<"FfnNorm", 0>>, "dtype", "Q8_0"),
     other    |-> With(Llama, <<"AttnK", 0>>, "dtype", "Q5_K")]

MCExposed == {"tiny", "tight"}
=============================================================================
