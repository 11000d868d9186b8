----------------------------- MODULE ModelLoad ------------------------------
(***************************************************************************)
(* From the boot medium to a usable model: load streams model.nrm into RAM *)
(* (crates/nr-boot/src/modelload.rs) and checks it on the way with the     *)
(* StreamingVerifier (crates/nr-model/src/verify.rs); boot_sequence        *)
(* (crates/nr-boot/src/app.rs) then parses it, seals storage and builds    *)
(* the inference context, or stops on the failure screen.                  *)
(*                                                                         *)
(* A byte of the file is its position, with a mark when it is not what the *)
(* converter wrote.  A CRC is the sequence of the bytes it has been given: *)
(* it equals the stored one exactly when those are the bytes the converter *)
(* summed, a CRC-32 collision being what no reader can detect.             *)
(***************************************************************************)
EXTENDS NrmFile

CONSTANTS
    CrcLen,         \* the two crc fields at the end of the header, 8
    Ggufs,          \* model -> the GGUF file it was converted from
    Exposed,        \* the models whose .nrm file may be damaged
    MaxExtra,       \* bytes a file may have after its data section
    Chunk,          \* CHUNK, 16 MiB: the most one read asks for
    Wrap            \* 2^64: usize sums wrap in the build that is flashed

\* What a header states, and what the converter wrote for each model.
LayoutType == [ok : BOOLEAN, metaEnd : Nat, dataOff : Nat, dataSize : Nat]
Stated(f)  == [ok |-> f.ok, metaEnd |-> f.metaEnd, dataOff |-> f.dataOff, dataSize |-> f.dataSize]
Files      == [m \in {m \in DOMAIN Ggufs : Convertible(Ggufs[m])} |-> Convert(Ggufs[m])]

ASSUME LoadAssumption ==
    /\ CrcLen \in 1..HeaderSize
    /\ MaxExtra \in Nat /\ Chunk \in Nat \ {0} /\ Wrap \in Nat \ {0}
    /\ \A m \in DOMAIN Ggufs : IsGguf(Ggufs[m])
    /\ \A m \in DOMAIN Files :      \* tensors that are not empty, and fit into memory
         0 < Files[m].dataSize /\ Files[m].dataOff + Files[m].dataSize < Wrap

VARIABLES
    model,      \* which model is on the medium, and
    size, bad,  \* how its file is there: length, altered bytes
    header,     \* the layout its header states, when it can be read
    pc, error,
    done,       \* bytes read so far
    verifying,  \* the StreamingVerifier exists
    meta, data, \* what its two hashers have been given
    sealed      \* STORAGE_SEALED

file   == <<model, size, bad, header>>
hashes == <<verifying, meta, data>>
vars   == <<file, pc, error, done, hashes, sealed>>

written == Files[model]

CrcOff     == HeaderSize - CrcLen
Zero       == [zero |-> TRUE]
Byte(i)    == [at |-> i, altered |-> i \in bad]
Written(i) == [at |-> i, altered |-> FALSE]

\* The bytes of the file from a up to b.
Slice(a, b) == [i \in 1..(b - a) |-> Byte(a + i - 1)]
Zeros(k)    == [i \in 1..k |-> Zero]

\* What the converter summed.
MetaSum == [i \in 1..written.metaEnd |->
              IF CrcOff < i /\ i <= HeaderSize THEN Zero ELSE Written(i - 1)]
DataSum == [i \in 1..written.dataSize |-> Written(written.dataOff + i - 1)]

WrittenSize == written.dataOff + written.dataSize

\* A header with an altered byte outside the crc fields may state anything.
HeaderIntact == bad \cap (0..(CrcOff - 1)) = {}

Init ==
    /\ model \in DOMAIN Files
    /\ size \in IF model \in Exposed THEN 0..(WrittenSize + MaxExtra) ELSE {WrittenSize}
    /\ bad \in {S \in SUBSET (IF model \in Exposed THEN 0..(WrittenSize - 1) ELSE {}) :
                    \A i, j, k \in S : i = j \/ j = k \/ i = k}
    /\ header \in IF HeaderIntact THEN {Stated(written)} ELSE
         [ok : BOOLEAN, metaEnd : {written.metaEnd, written.dataOff},
          dataOff : {written.dataOff, written.dataOff + 1}, dataSize : {written.dataSize, 0, Wrap - 1}]
    /\ pc = "open" /\ error = "none" /\ done = 0
    /\ verifying = FALSE /\ meta = <<>> /\ data = <<>>
    /\ sealed = FALSE

Fail(e) == pc' = "failed" /\ error' = e

-----------------------------------------------------------------------------
(* modelload::load *)

\* The file system, the file, its size and the pages for it, or an error.
Open ==
    /\ pc = "open"
    /\ \/ pc' = "read" /\ UNCHANGED error
       \/ \E e \in {"Fs", "NotFound", "OutOfMemory"} : Fail(e)
    /\ UNCHANGED <<file, done, hashes, sealed>>

DataEnd == (header.dataOff + header.dataSize) % Wrap

\* Mutant of MetaFeed: the last byte of the crc fields is not zeroed.
MetaFeedShort(a, b) ==
    LET m0 == Lo(a, header.metaEnd)
        m1 == Lo(b, header.metaEnd)
        z0 == Hi(CrcOff, m0)
        z1 == Lo(CrcOff + CrcLen - 1, m1)
    IN  IF z0 < z1 THEN Slice(m0, z0) \o Zeros(z1 - z0) \o Slice(z1, m1)
                   ELSE Slice(m0, m1)

\* StreamingVerifier::feed of the bytes from a up to b: what it appends to
\* the meta hasher, the crc fields as zeros, ...
MetaFeed(a, b) ==
    LET m0 == Lo(a, header.metaEnd)
        m1 == Lo(b, header.metaEnd)
        z0 == Hi(CrcOff, m0)
        z1 == Lo(CrcOff + CrcLen, m1)
    IN  IF z0 < z1 THEN Slice(m0, z0) \o Zeros(z1 - z0) \o Slice(z1, m1)
                   ELSE Slice(m0, m1)

\* ... and to the data hasher.
DataFeed(a, b) == Slice(Lo(Hi(a, header.dataOff), DataEnd), Lo(Hi(b, header.dataOff), DataEnd))

\* StreamingVerifier::new
GoodHeader == header.ok /\ header.metaEnd <= header.dataOff

Feed(a, b) ==
    /\ verifying' = TRUE
    /\ meta' = meta \o MetaFeed(a, b)
    /\ data' = data \o DataFeed(a, b)

\* One turn of the read loop, short reads included.  The first feed covers
\* everything read until the header was complete.
Read(n) ==
    LET now == done + n IN
    /\ pc = "read" /\ done < size
    /\ n \in 1..Lo(Chunk, size - done)
    /\ done' = now
    /\ \/ verifying /\ Feed(done, now) /\ UNCHANGED <<pc, error>>
       \/ ~verifying /\ now >= HeaderSize /\ GoodHeader /\ Feed(0, now) /\ UNCHANGED <<pc, error>>
       \/ ~verifying /\ now >= HeaderSize /\ ~GoodHeader /\ Fail("BadHeader") /\ UNCHANGED hashes
       \/ ~verifying /\ now < HeaderSize /\ UNCHANGED <<pc, error, hashes>>
    /\ UNCHANGED <<file, sealed>>

\* Mutant of ReadFails: the file is read again from the start.
ReadRestarts ==
    /\ pc = "read" /\ done < size
    /\ done' = 0 /\ verifying' = FALSE /\ meta' = <<>> /\ data' = <<>>
    /\ UNCHANGED <<file, pc, error, sealed>>

\* A read error, or end of file before the size the directory gave.
ReadFails ==
    /\ pc = "read" /\ done < size
    /\ Fail("ReadFailed")
    /\ UNCHANGED <<file, done, hashes, sealed>>

CrcFieldsIntact == bad \cap (CrcOff..(HeaderSize - 1)) = {}

\* Mutant of Finish: the data section is not compared.
FinishMetaOnly ==
    /\ pc = "read" /\ done >= size
    /\ IF ~verifying THEN Fail("ReadFailed")
       ELSE IF meta # MetaSum \/ ~CrcFieldsIntact THEN Fail("MetaCrc")
       ELSE pc' = "parse" /\ UNCHANGED error
    /\ UNCHANGED <<file, done, hashes, sealed>>

\* StreamingVerifier::finish
Finish ==
    /\ pc = "read" /\ done >= size
    /\ IF ~verifying THEN Fail("ReadFailed")
       ELSE IF meta # MetaSum \/ ~CrcFieldsIntact THEN Fail("MetaCrc")
       ELSE IF data # DataSum THEN Fail("DataCrc")
       ELSE pc' = "parse" /\ UNCHANGED error
    /\ UNCHANGED <<file, done, hashes, sealed>>

-----------------------------------------------------------------------------
(* boot_sequence after the load *)

\* Model::parse: bounds, the meta CRC again, scalars and table; then
\* Tokenizer::parse.
Parse ==
    /\ pc = "parse"
    /\ \/ size < Hi(DataEnd, header.metaEnd) /\ Fail("TooShort")
       \/ size >= Hi(DataEnd, header.metaEnd) /\ ~GoodTable(written) /\ Fail("BadTable")
       \/ size >= Hi(DataEnd, header.metaEnd) /\ GoodTable(written) /\ ~GoodTokenizer(written) /\ Fail("BadTokenizer")
       \/ size >= Hi(DataEnd, header.metaEnd) /\ GoodTable(written) /\ GoodTokenizer(written)
          /\ pc' = "seal" /\ UNCHANGED error
    /\ UNCHANGED <<file, done, hashes, sealed>>

SealStorage ==
    /\ pc = "seal"
    /\ sealed' = TRUE
    /\ pc' = "arena"
    /\ UNCHANGED <<file, error, done, hashes>>

\* The pages of the arena, then InferCtx::new; the failure screen, or a panic
\* that ends on the firmware's.
BuildInfer ==
    /\ pc = "arena"
    /\ \/ Fail("ArenaFailed")
       \/ NewInfer(written, "ok") /\ pc' = "chat" /\ UNCHANGED error
       \/ \E e \in {"MissingTensor", "BadTable", "Panic"} : NewInfer(written, e) /\ Fail(e)
    /\ UNCHANGED <<file, done, hashes, sealed>>

\* The chat loop and the failure screen do not come back here.
Stay == pc \in {"chat", "failed"} /\ UNCHANGED vars

Next == \/ Open \/ (\E n \in 1..Chunk : Read(n)) \/ ReadFails \/ Finish
        \/ Parse \/ SealStorage \/ BuildInfer \/ Stay

Spec == Init /\ [][Next]_vars

\* Firmware calls return; each either makes progress or reports an error.
FairSpec == Spec /\ WF_vars(Next)

-----------------------------------------------------------------------------
Symbols == {Zero} \cup [at : Nat, altered : BOOLEAN]

\* The types of the loader's state; load never reads more than the file has.
TypeOK ==
    /\ model \in DOMAIN Files /\ header \in LayoutType
    /\ size \in Nat /\ bad \subseteq Nat
    /\ pc \in {"open", "read", "parse", "seal", "arena", "chat", "failed"}
    /\ done \in 0..size
    /\ verifying \in BOOLEAN /\ sealed \in BOOLEAN
    /\ meta \in Seq(Symbols) /\ data \in Seq(Symbols)

\* The bytes the two checksums stand for.
Covered == (0..(written.metaEnd - 1)) \cup (written.dataOff..(WrittenSize - 1))

Intact == bad \cap Covered = {} /\ size >= WrittenSize

\* A model is only parsed and used when every byte of its meta and data
\* sections is in RAM the way the converter wrote it, however the firmware
\* cut the file into reads; the chat starts with the whole file read and
\* storage sealed.
OnlyIntactModels ==
    /\ pc \in {"parse", "seal", "arena", "chat"} => Intact
    /\ pc = "chat" => sealed /\ done = size

\* An intact file is never reported corrupt or short: the verifier raises no
\* false alarm for any sequence of short reads.
NoFalseAlarm == error \in {"BadHeader", "MetaCrc", "DataCrc", "TooShort"} => ~Intact

\* What a well-formed GGUF file is converted to boots: parse accepts the
\* table, every tensor is found with its shape and type, and the arena holds
\* what InferCtx::new takes.  Only the memory for it may be missing.
WellFormedBoots ==
    WellFormed(written.gguf) /\ Intact =>
        error \in {"none", "Fs", "NotFound", "OutOfMemory", "ReadFailed", "ArenaFailed"}

\* Booting ends at the chat or at the failure screen.
BootEnds == <>(pc \in {"chat", "failed"})
=============================================================================
