------------------------------ MODULE NrmFile -------------------------------
(***************************************************************************)
(* The .nrm file between its writer and its readers: what nrconvert makes  *)
(* of a GGUF file (tools/nrconvert/src/main.rs), what Model::parse accepts *)
(* (crates/nr-model/src/format.rs), and what InferCtx::new asks of the     *)
(* tensors and of the arena (infer.rs, nr-runtime/src/arena.rs).           *)
(*                                                                         *)
(* A GGUF file is a record: the hyperparameters, the size of the tokenizer *)
(* blob made from its vocabulary, and its tensors by kind and layer.  More *)
(* is the product of the dimensions of a tensor after the second, 1 for a  *)
(* matrix.                                                                 *)
(***************************************************************************)
EXTENDS Integers, Sequences

CONSTANTS
    HeaderSize,     \* HEADER_SIZE, 192
    EntrySize,      \* ENTRY_SIZE, 32
    Align,          \* DATA_ALIGN, 64, and the alignment of every take
    Blocks,         \* dtype -> elements and bytes of a block
    ActBytes,       \* bytes of a BlockQ8_0 and of a BlockQ8K, as a pair
    ActElems,       \* their elements: QK8_0 and QK_K
    MaxBatch,       \* MAX_BATCH, 64
    Ctx,            \* CTX_LEN
    Extra,          \* what boot_sequence adds to required_bytes, 8 MiB
    Page            \* 4096

Dtypes == DOMAIN Blocks     \* F32, Q8_0, Q4_K, Q6_K

ASSUME FileAssumption ==
    /\ {EntrySize, Align, MaxBatch, Ctx, Page} \subseteq Nat \ {0}
    /\ HeaderSize \in Nat /\ Extra \in Nat
    /\ "F32" \in Dtypes /\ Blocks["F32"].elems = 1
    /\ \A d \in Dtypes : {Blocks[d].elems, Blocks[d].bytes} \subseteq Nat \ {0}
    /\ \A i \in {1, 2} : ActBytes[i] \in Nat /\ ActElems[i] \in Nat \ {0}

\* The numbers of a GGUF file.
IsGguf(g) ==
    /\ {g.dim, g.nLayers, g.nHeads, g.nKvHeads, g.headDim, g.ffnDim, g.vocab, g.tokSize} \subseteq Nat
    /\ \A name \in DOMAIN g.tensors :
         {g.tensors[name].rows, g.tensors[name].cols, g.tensors[name].more} \subseteq Nat

Lo(a, b) == IF a < b THEN a ELSE b
Hi(a, b) == IF a < b THEN b ELSE a
AlignUp(n, a) == ((n + a - 1) \div a) * a

\* A cursor that is aligned before each region and moves over it: where it is
\* after i regions of these sizes.
Ends(sizes) ==
    LET end[i \in 0..Len(sizes)] == IF i = 0 THEN 0 ELSE AlignUp(end[i - 1], Align) + sizes[i]
    IN  end

-----------------------------------------------------------------------------
(* nrconvert *)

\* The tensors each layer must have, in the order they are written.
LayerKinds(g) ==
    <<"AttnNorm">> \o (IF g.arch = "qwen3" THEN <<"AttnQNorm", "AttnKNorm">> ELSE <<>>)
    \o <<"AttnQ", "AttnK", "AttnV", "AttnO", "FfnNorm", "FfnGate", "FfnUp", "FfnDown">>

Optional(g, kind) == IF <<kind, 0>> \in DOMAIN g.tensors THEN <<<<kind, 0>>>> ELSE <<>>

\* A position in a list that has k things for each layer: layer and place.
LayerOf(i, k) == (i - 1) \div k
PlaceOf(i, k) == ((i - 1) % k) + 1

\* "Collect tensors in inference-friendly order."
Collect(g) ==
    LET kinds  == LayerKinds(g)
        k      == Len(kinds)
        layers == [i \in 1..(g.nLayers * k) |-> <<kinds[PlaceOf(i, k)], LayerOf(i, k)>>]
    IN  <<<<"TokEmbed", 0>>>> \o Optional(g, "RopeFreqs") \o layers
        \o <<<<"OutputNorm", 0>>>> \o Optional(g, "Output")

\* expect and push panic on a tensor that is missing or of another type.
Convertible(g) ==
    \A i \in DOMAIN Collect(g) : /\ Collect(g)[i] \in DOMAIN g.tensors
                                 /\ g.tensors[Collect(g)[i]].dtype \in Dtypes

\* tensor_byte_size of gguf.rs, which rounds down to whole blocks.
GgufSize(t) == ((t.rows * t.cols * t.more) \div Blocks[t.dtype].elems) * Blocks[t.dtype].bytes

\* Mutant of Entry: dims[0] is taken for the number of rows.
EntrySwapped(g, name, offset) ==
    LET t == g.tensors[name] IN
    [kind |-> name[1], layer |-> name[2], dtype |-> t.dtype, offset |-> offset,
     size |-> GgufSize(t), rows |-> t.cols, cols |-> t.rows]

Entry(g, name, offset) ==
    LET t == g.tensors[name] IN
    [kind |-> name[1], layer |-> name[2], dtype |-> t.dtype, offset |-> offset,
     size |-> GgufSize(t), rows |-> t.rows, cols |-> t.cols]

\* "Assign 64-byte-aligned data offsets."
Cursors(g) == LET names == Collect(g) IN Ends([i \in 1..Len(names) |-> GgufSize(g.tensors[names[i]])])
Table(g) ==
    LET names   == Collect(g)
        cursors == Cursors(g)
    IN  [i \in 1..Len(names) |-> Entry(g, names[i], AlignUp(cursors[i - 1], Align))]

\* Header, tokenizer blob, table, data; both checksums cover what is here.
Convert(g) ==
    LET table   == Table(g)
        metaEnd == HeaderSize + g.tokSize + Len(table) * EntrySize
    IN  [ok |-> TRUE, metaEnd |-> metaEnd, dataOff |-> AlignUp(metaEnd, Align),
         dataSize |-> Cursors(g)[Len(table)],
         gguf |-> g, table |-> table, tied |-> <<"Output", 0>> \notin DOMAIN g.tensors]

-----------------------------------------------------------------------------
(* Model::parse and Tokenizer::parse, once the regions are inside the file *)

\* TensorDtype::byte_size; -1 is None.
ByteSize(dtype, n) ==
    IF n % Blocks[dtype].elems = 0 THEN (n \div Blocks[dtype].elems) * Blocks[dtype].bytes ELSE -1

GoodTable(f) ==
    /\ f.gguf.goodScalars
    /\ \A i \in DOMAIN f.table :
         LET e == f.table[i] IN
         /\ e.offset + e.size <= f.dataSize
         /\ e.offset % Align = 0
         /\ ByteSize(e.dtype, e.rows * e.cols) = e.size

\* The sections of the blob are as long as the converter made them; the ids
\* of the special tokens come from the GGUF and must be in the vocabulary.
GoodTokenizer(f) == f.gguf.goodSpecials

-----------------------------------------------------------------------------
(* InferCtx::new: the tensors *)

AttDim(g) == g.nHeads * g.headDim
KvDim(g)  == g.nKvHeads * g.headDim

Vectors == {"AttnNorm", "AttnQNorm", "AttnKNorm", "FfnNorm", "OutputNorm", "RopeFreqs"}
Vector(kind, layer, len)       == [kind |-> kind, layer |-> layer, rows |-> 1, cols |-> len]
Matrix(kind, layer, rows, cols) == [kind |-> kind, layer |-> layer, rows |-> rows, cols |-> cols]
AnyLen == -1    \* the length of RopeFreqs is not checked

\* What new asks for in layer l, ...
WantedLayer(g, l) ==
    <<Vector("AttnNorm", l, g.dim)>>
    \o (IF g.arch = "qwen3" THEN <<Vector("AttnQNorm", l, g.headDim), Vector("AttnKNorm", l, g.headDim)>>
                            ELSE <<>>)
    \o <<Matrix("AttnQ", l, AttDim(g), g.dim), Matrix("AttnK", l, KvDim(g), g.dim),
         Matrix("AttnV", l, KvDim(g), g.dim), Matrix("AttnO", l, g.dim, AttDim(g)),
         Vector("FfnNorm", l, g.dim), Matrix("FfnGate", l, g.ffnDim, g.dim),
         Matrix("FfnUp", l, g.ffnDim, g.dim), Matrix("FfnDown", l, g.dim, g.ffnDim)>>

\* ... and in its order.  It also refuses AttnQNorm in the table of another
\* family, which the converter does not put there.
Wanted(f) ==
    LET g      == f.gguf
        k      == Len(WantedLayer(g, 0))
        layers == [i \in 1..(g.nLayers * k) |-> WantedLayer(g, LayerOf(i, k))[PlaceOf(i, k)]]
        has(kind) == \E i \in DOMAIN f.table : f.table[i].kind = kind
    IN  <<Matrix("TokEmbed", 0, g.vocab, g.dim)>> \o layers
        \o <<Vector("OutputNorm", 0, g.dim)>>
        \o (IF f.tied THEN <<>> ELSE <<Matrix("Output", 0, g.vocab, g.dim)>>)
        \o (IF has("RopeFreqs") THEN <<Vector("RopeFreqs", 0, AnyLen)>> ELSE <<>>)

\* model.tensor, then f32 with its assertion, or the shape and from_view.
Answer(f, w) ==
    LET found == {i \in DOMAIN f.table : f.table[i].kind = w.kind /\ f.table[i].layer = w.layer}
        e     == f.table[CHOOSE i \in found : \A j \in found : i <= j]
    IN  IF found = {} THEN "MissingTensor"
        ELSE IF w.kind \in Vectors THEN
            IF e.dtype # "F32" THEN "Panic"
            ELSE IF w.cols \notin {AnyLen, e.size \div Blocks["F32"].bytes} THEN "MissingTensor" ELSE "ok"
        ELSE IF e.rows # w.rows \/ e.cols # w.cols THEN "MissingTensor"
        ELSE IF e.dtype = "F32" THEN "BadTable" ELSE "ok"

-----------------------------------------------------------------------------
(* InferCtx::new: the arena *)

F32s(n) == n * Blocks["F32"].bytes

MaxDim(g) == Hi(g.dim, Hi(AttDim(g), g.ffnDim))

KvBytes(g) == 2 * g.nLayers * Ctx * KvDim(g)    \* one cache; an element is a u16

Acts(g, i) == MaxBatch * (MaxDim(g) \div ActElems[i]) * ActBytes[i]

\* required_bytes
RequiredBytes(g) ==
    LET single  == 3 * g.dim + 2 * AttDim(g) + 2 * KvDim(g) + g.nHeads * Ctx + 2 * g.ffnDim
                   + g.vocab + g.headDim \div 2
        batched == MaxBatch * 2 * (g.dim + AttDim(g) + KvDim(g) + g.ffnDim)
    IN  F32s(single + batched) + Acts(g, 1) + Acts(g, 2) + 2 * KvBytes(g) + Align * 40

ArenaSize(g) == AlignUp(RequiredBytes(g) + Extra, Page)

\* The bytes new takes, in its order.
Takes(g) ==
    LET att == AttDim(g)
        kv  == KvDim(g)
        many(n) == F32s(MaxBatch * n)
    IN  <<F32s(g.headDim \div 2), F32s(g.dim), F32s(g.dim), F32s(g.dim), F32s(att), F32s(att),
          F32s(kv), F32s(kv), F32s(g.nHeads * Ctx), F32s(g.ffnDim), F32s(g.ffnDim), F32s(g.vocab),
          Acts(g, 1), Acts(g, 2),
          many(g.dim), many(Hi(g.dim, att)), many(att), many(att),
          many(kv), many(kv), many(g.ffnDim), many(g.ffnDim),
          KvBytes(g), KvBytes(g)>>

\* alloc_bytes for all of them: where the last one ends.
ArenaUsed(g) ==
    LET takes == Takes(g)
        n     == Len(takes)
    IN  Ends([i \in 1..n |-> Hi(takes[i], 1)])[n]

\* What InferCtx::new comes to: the first thing that is wrong.  The takes
\* come after the tensors, except that freqs is taken before RopeFreqs.
NewInfer(f, result) ==
    LET answers == [i \in DOMAIN Wanted(f) |-> Answer(f, Wanted(f)[i])] IN
    \/ \E i \in DOMAIN answers : /\ answers[i] = result /\ result # "ok"
                                 /\ \A j \in 1..(i - 1) : answers[j] = "ok"
    \/ /\ \A i \in DOMAIN answers : answers[i] = "ok"
       /\ result = IF ArenaUsed(f.gguf) > ArenaSize(f.gguf) THEN "Panic" ELSE "ok"

-----------------------------------------------------------------------------
(* What a GGUF file has to be *)

\* The shape of a tensor in a model with the hyperparameters of g, as rows
\* and columns.
Shape(g, kind) ==
    CASE kind \in {"TokEmbed", "Output"} -> <<g.vocab, g.dim>>
      [] kind = "AttnQ" -> <<g.nHeads * g.headDim, g.dim>>
      [] kind \in {"AttnK", "AttnV"} -> <<g.nKvHeads * g.headDim, g.dim>>
      [] kind = "AttnO" -> <<g.dim, g.nHeads * g.headDim>>
      [] kind \in {"FfnGate", "FfnUp"} -> <<g.ffnDim, g.dim>>
      [] kind = "FfnDown" -> <<g.dim, g.ffnDim>>
      [] kind \in {"AttnNorm", "FfnNorm", "OutputNorm"} -> <<1, g.dim>>
      [] kind \in {"AttnQNorm", "AttnKNorm"} -> <<1, g.headDim>>
      [] kind = "RopeFreqs" -> <<1, g.headDim \div 2>>

\* Every tensor has its shape, matrices are quantised in whole blocks per
\* row, vectors are not; scalars and special tokens make sense; and the
\* heads are not so much wider than the model that the batch buffer bxb,
\* which required_bytes counts as dim wide, outgrows what is added to it.
WellFormed(g) ==
    /\ g.goodScalars /\ g.goodSpecials
    /\ \A name \in DOMAIN g.tensors :
         LET t == g.tensors[name] IN
         /\ <<t.rows, t.cols>> = Shape(g, name[1]) /\ t.more = 1
         /\ (t.dtype = "F32") <=> (name[1] \in Vectors)
         /\ t.cols % Blocks[t.dtype].elems = 0
    /\ F32s(MaxBatch * (AttDim(g) - g.dim)) <= Extra
=============================================================================
