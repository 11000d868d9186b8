# NIGHTRUN in TLA+

NIGHTRUN is a bare-metal appliance: a UEFI program that loads a language model
from its boot medium, verifies it, seals storage and offers a chat, with an
optional network over which MCP clients reach it through a gateway. This
directory holds TLA+ models of the parts where order, concurrency, failure and
limits matter, the TLC runs that check them, and TLAPS proofs.

Tools: `tlc -config X.cfg M` runs a configuration, `tlapm M.tla` checks the
proofs of a module. `PROJECT.json` lists every run, property, mutant, theorem,
the source lines behind every definition, and the hazards the properties are
for.

## The system and its parts

| Part | Source | State | Operations | Hard because |
|---|---|---|---|---|
| Worker pool, AP bring-up | `nr-tensor/parallel.rs`, `nr-boot/smp.rs` | atomics `seq`, `cursor`, `total`, `chunk`, `done`, `task`, `workers`, `ready` | `run`, `drain`, `worker_loop`, `activate`, `start_workers` | lock-free, a raw pointer to the caller's stack, processors of unknown speed |
| NRMP framing | `nr-mcp/lib.rs` | one buffer, a key, a bit mask | `encode_fragment`, `parse_fragment`, `push` | UDP loses, repeats, reorders, damages |
| Chat and generation | `nr-boot/app.rs`, `nr-token/template.rs`, position of `nr-model/infer.rs` | input line, caret, KV position, `conversation_started`, turns | keys, commands, `generate`, MCP prompt | long sequences of legal turns, a window that fills anywhere, ESC anywhere |
| Model loading | `nr-boot/modelload.rs`, `nr-model/verify.rs`, `boot_sequence` | bytes read, two running CRCs, the storage seal | `load`, `feed`, `finish`, parse, seal | chunk boundaries, damaged media, wrapping sums |
| Model file | `tools/nrconvert`, `nr-model/format.rs`, set-up of `nr-model/infer.rs`, `nr-runtime/arena.rs` | tensor table, arena offset | conversion, `Model::parse`, `InferCtx::new`, `alloc_bytes` | writer and two readers must agree; sizes are computed twice |
| MCP gateway and its peers | `tools/nrmcp-gateway`, `service_mcp`, `handle_inbound_mcp` | pending map, ids, peer, upstream session; the device's queue | HTTP thread, UDP loop, upstream call, device | two threads, time-outs, restarts of either machine |
| Network stack and adapter | `nr-net/lib.rs`, `nr-boot/network.rs` | neighbour cache, message queue, one transmit buffer, `tx_busy` | `poll_stack`, `send_pending`, `receive`, `learn`, `transmit` | the NIC works on its own, one buffer for everything |
| Tokenizer and screen | `nr-token`, `nrconvert/tokenizer.rs`, `nr-ui/chat.rs` | chunk in hand, pending bytes, scroll position | `Chunks::next`, `encode_chunk`, `flush_utf8`, `wrap`, arrow keys, redraw | a regular expression by hand, characters split over tokens, text that is wrapped while it grows |
| Inference and sampling | `nr-model/infer.rs`, `nr-model/sample.rs` | KV cache, position, activation buffers, logits; heap of candidates | `forward`, `prefill_chunk`, `prefill`, `reset`, `sample` | one result along two code paths, buffers and cache rows that are reused without being cleared, NaN |
| Tensor kernels | `nr-tensor` | none | dot products by format, backend and batch, quantization, f16 | saturating and wrapping lanes, packed bits, promises of equal bits |
| Image builder | `tools/xtask` | image, sidecar | `image`, `run --img`, `pi-image` | rebuilt in place, stamped afterwards, may end anywhere |
| Installer | `install.sh`, `scripts/installer/lib` | cache, `.part` file, `.nrm`, image, chosen disk | download, inspect, convert, assemble, select, unmount, write, read back | interrupted runs leave files behind; disks change while the user reads |

How they interact: the installer runs the converter and the image builder and flashes the image that
the appliance boots from; the tokenizer blob and the tensors come out of the
same file; `generate` calls the inference code, whose matrix rows go
through `Pool::run`, and the sampler picks the next token; `chat_loop` polls the network between keys and hands MCP
prompts to the same `generate`; the adapter feeds datagrams to the NRMP
reassembler and takes fragments from the message queue; gateway and device talk
NRMP over UDP. Everything on the appliance runs on one core except the workers
of the pool; the gateway has two threads.

## Modules

| Module | Models | Runs |
|---|---|---|
| `Pool` | the pool, one action per atomic access, and the bring-up | `pool`, `pool_missed`, `pool_late` |
| `ParallelFor` | what callers of `run` rely on: a loop over the rows | refined by `Pool` (`ImplementsLoop`) |
| `Nrmp`, `MCNrmp` | sender, network, reassembler | `nrmp` |
| `Link` | what the framing promises: whole bodies or nothing | refined by `Nrmp` (`ImplementsLink`) |
| `Chat`, `MCChat` | the chat loop, `generate`, template and KV position | `chat`, `chat_overflow` |
| `NrmFile` | the converter's layout, the checks of `Model::parse`, what `InferCtx::new` asks for: operators | through `ModelLoad` |
| `ModelLoad`, `MCModelLoad` | load, streaming verification, parse, seal, inference set-up | `modelload` |
| `Bridge`, `MCBridge` | gateway threads, upstream server, device, over message links | `bridge` |
| `NetAdapter` | stack, adapter and NIC | `net` |
| `Acquire` | from a pinned URL to an image: cache, resumed download, conversion | through `Installer` |
| `Installer` | runs of the installer, disks that come and go, writing, reading back | `installer` |
| `Image`, `MCInstaller` | the image builder between a developer's edits | `installer` |
| `Tokenizer` | pre-tokenizer, merge table, UTF-8: operators | through `Text` |
| `Text`, `MCText` | a prompt to tokens, tokens to an answer, the answer on the screen | `text` |
| `Kernels` | block formats, quantization and integer dot products on scalar, AVX2 and NEON: operators | through `Matmul` |
| `Matmul` | products of weight rows and batches, rows in any order | `infer` |
| `Half` | f16 to f32 and back | `infer` |
| `Sampler` | top-k heap, nucleus, draw | `infer` |
| `Inference`, `MCInfer` | the forward pass, batched and not, over the KV cache | `infer` |
| `PoolProofs`, `NetworkProofs` (of `Nrmp` and `NetAdapter`), `ChatProofs`, `ModelLoadProofs`, `BridgeProofs`, `InstallerProofs`, `InferProofs`, `TextProofs` | theorems and proofs | |

`Bridge` stands on `Link`: its sets `down` and `up` are the messages a link has
been given and may deliver, late, out of order, again, or never. `Nrmp` is shown
to implement that link fragment by fragment. `Bridge` takes headers to arrive undamaged
(`altered` of `Link` is empty).

Each module's comments name the code of its actions. Definitions marked
"Mutant of" are plausible mistakes in the definition after them; each property
is checked to fail under one of them, so that it says something about the code.

### Pool

Every `SeqCst` access is a step of the process that makes it; `pc` names the
access that comes next. A Task pointer is the number of the job it was built
for, and `live` is the Task on the stack of `run`, so a use after `run` has
returned is visible as `ptr[p] # live`. The code relies on the processors
being counted within the second that `start_workers` waits; the constant `OnTime`
assumes it.

- `TaskAlive`, `DisjointRanges`, and `ReturnComplete` (proved as `RunIsBarrier`): the
  safety the closures need, since they write rows through raw pointers.
- `ImplementsLoop`: refinement of `ParallelFor`.
- `RunReturns`: `run` returns if every worker has made its first load of `seq`
  when the job is stored.

Two violations show what the comments promise and the code does not enforce.
`pool_missed`: a worker adds itself to `ready` before it loads `seq`; a job posted in
between is missed and `run` spins for ever. `pool_late`: a worker that comes up
after the deadline bumps `done` in place of a counted one, and the Task dies
while in use.

### Nrmp

A body is a sequence of payloads, a datagram a key (kind, id, count, CRC), an
index and a payload. The network is a set: anything sent may arrive any number
of times in any order or not at all. Damage may change all of a
datagram (`Damage`): payload, index, count, checksum, id and kind, as far as
`parse_fragment` still accepts it (`Damages`); otherwise `push` returns an error and
keeps its state (`PushInvalid`). The CRC is assumed to tell bodies apart, and a
changed checksum to be that of no body; a collision is what the protocol cannot see.

The CRC covers the body only. A datagram whose kind or id was changed is as good as
one that was sent, and a message of one fragment is then handed over as another.
So `Link` vouches for the body, which always is, whole, one that was sent, and for
kind and id as long as no damaged header names others (`Integrity`). What UDP and
Ethernet check on the way is not modelled.

### Chat

A header is one token, text is a run of tokens, the sampler chooses freely
between an ordinary and a stop token. Keys arrive at any time; during prefill
and generation one key is taken per chunk or token, as in the code. The run
`chat` assumes that prompts fit the space that the reset test leaves
(`PromptsFit`, evaluated as an ASSUME); `chat_overflow` drops that assumption,
and `prefill_chunk`'s assertion fails: MAX_PROMPT_CHARS is 8192 characters while
the test only keeps MAX_GEN_TOKENS + 256 = 1024 positions free.

`TemplateConsistent` is stated for conversations in which no turn was cut. Two
things it leaves out are worth knowing: an answer that ESC, the token budget or
the window ends is never closed by an end-of-turn token, and with the ChatML and
Granite templates the newline after the end-of-turn token is not forwarded after
the model's own turns (`Template = "ChatMl"` violates the property). ESC while the
prompt is being prefilled ends the prefill, not the turn.

### ModelLoad

A byte is its position with a mark when it differs from what the converter
wrote; a CRC is the sequence of bytes it was given. The file is any truncation or
extension of a written file with any set of altered bytes, and the header may
state any layout once its bytes are altered. Sums of `usize` wrap at `Wrap`, as in
the release build. Reads return any positive length up to what was asked for.

What is in the file comes from `NrmFile`: `Convert` lays out the tensors of a GGUF
record as `nrconvert` does (`Collect` in which order, `Cursors` where each ends),
`GoodTable` is the table check of `Model::parse`, `Wanted` and `Answer` are the tensors
`InferCtx::new` looks up and what it does with each, `RequiredBytes`, `Takes` and
`ArenaUsed` the two sides of the arena's size. A file and an arena are filled in the
same way, by a cursor that is aligned before each region (`Ends`). `WellFormedBoots` says that writer and readers agree: a GGUF file in which
every tensor has the shape its hyperparameters call for boots. Two conditions of
`WellFormed` are the code's own limits:

- `required_bytes` counts the buffer `bxb` as `dim` wide where `new` takes
  `max(dim, att_dim)`. For Qwen3, whose heads are wider than the model, it
  understates the need, and the 8 MiB that `boot_sequence` adds make up for it (as
  long as `att_dim - dim` is at most 32768). With `Extra = 0` the run ends in the
  panic of `take`.
- The size check of `Model::parse` multiplies rows and columns, so rows that are
  not whole blocks pass if there are enough of them, although its comment says
  that "non-block-aligned dimensions" are caught. GGUF files have whole blocks.

A GGUF file that is not well formed is refused with an error or, when a norm is
quantised, with the panic of `TensorView::f32`; the model has one of each.

### Bridge

One step per lock, atomic or blocking call of the HTTP thread; one message at a
time in the UDP loop; the upstream call in its two or three posts, any of which
may fail after the server has acted. `GatewayRestart` and `Reboot` lose all the
volatile state of one machine and leave the messages under way.

`env` is the scenario of a behaviour: which requests are made, whether an upstream
server is configured, how many commands the user gives, and whether all is calm
(nobody restarts, nothing is delivered twice, 600 seconds do not pass).
`AnswerMatches` holds until the gateway is started again: ids then start at 1
again, and a late answer from before can be taken for that of a new request.

Sending takes time: a message is sent from `BeginSend` or `BeginAnswer` to the step that
ends it. Two messages that are sent at once mix their datagrams, and the device's
reassembler drops what is incomplete when a fragment of another message arrives;
each of the two may be lost for it (`crossed`, `garbled`). A call of the upstream server comes to a
response, an error, a response without a body, or nothing (`Outcomes`): `post` sets no
time-out and runs in the UDP loop, which then receives no more (`hung`). A
response without a body is no message, and its error leaves `main`, with the HTTP
thread (`Ends`); `GatewayEnds` is any other end, `GatewayStarts` the next process.

`RequestEnds` holds through all of this; `AnswerArrives` names the three ways in which
the user's own calls cost a client its answer. Without any one of the three exceptions
TLC finds it violated.

### NetAdapter

A frame is what the stack looks at: whether it passes the checks made before
anything is learned, who sent it, what it is, whether it is for us, whether what
it carries is whole. The NIC is a process: it owns the buffer from `transmit` until
it has reported it recycled, and sends what the buffer holds when it gets to it. Two things
lose a datagram, and `InOrder` names them (`lost`): the firmware refuses the transmit,
after which the code goes on with the next fragment, and `poll_stack` lets the stack
write a reply into the buffer while the NIC may still hold it. Nothing else
may: `tx_busy` keeps the next fragment out. A reply that is due while the buffer is
busy is dropped, as the code does.

### Installer

`Acquire` has the files that outlive a run: the cached GGUF and the `.part` file as
sequences of the revisions their bytes come from, one `.nrm` per base name with
the files it is newer than, and the image. Every step may be the last of its run
(`End` in `Installer`), and the next one starts on what it finds. `Installer` adds disks behind
paths that can be pulled, replugged and mounted at any moment, the choice, the
repeated checks, the two confirmations, and writing and reading back slice by
slice.

Three properties name what the scripts cannot see. `ImageCurrent` excepts runs
after an interrupted conversion (the partial `.nrm` is newer than its GGUF and is
reused), two GGUF files of the same base name, and a download that was complete
but unchecked when its run ended (`mv` keeps its time). `OnlyConfirmedDisk` and
`WrittenUnmounted` hold as long as the path is not given to another disk, or
mounted again, after the last check. A file system on a disk without partitions
is not seen by the mount checks; `Mount` has it and the properties leave it out.
The download is moved into the cache before `nrconvert --inspect` sees it, where
docs/installer.md has the move last.

### Image

The image builder is a developer's tool beside the installer. `Decide` is the choice
of `build_image`: `run --img` refreshes the EFI binary in place when the sidecar's stamp
(path, size, mode) is the one it would write, everything else truncates the image
and builds it. Each write to the image is a step and the command may end after any
of them. `ImageAsAsked` holds with two exceptions it names: a build that was cut
off, or whose stamp could not be written, leaves the stamp of the image before it,
and a model converted again to the same path and size has the same stamp.

### Inference, Matmul, Kernels, Half, Sampler

Each behaviour of `MCInfer` looks at one of these.

- `Inference` computes terms: a vector is the record of the operations and operands
  it came from, so equal terms have equal bits whatever the arithmetic does.
  Activation buffers and cache rows start with `Stale`, and `reset` leaves the rows of
  the last conversation. `ContextDecides` compares the logits after any sequence of
  `forward`, `prefill` and `reset` with `Reference`, which computes all positions at
  once without cache, buffer or batch.
- `Kernels` works on the bytes of the block formats with the lanes of the SIMD
  registers: 16-bit shifts that cross bytes, saturating `maddubs`, wrapping 8- and
  16-bit lanes. A dot product yields, per block, its integer sums and the f32
  factors they are multiplied with; the f32 additions over blocks follow the
  order of the blocks and are not evaluated.
- `Matmul` cuts a batch into tiles of four and a rest and lets rows come in any order.
  `ProductExact` compares every sum with the weights that `dequant_*` reads from the
  same bytes; `BitIdentical` compares a batch with single products, and NEON with the
  scalar kernel. The kernels for four rows are lanes of the definitions for one, so the
  first half of `BitIdentical` is about tiles, rest and indices.
- `QuantizeClose` bounds the rounding of activations. The f16 scale of Q8_0 is the quotient
  `amax / 127` rounded to a half (`RoundToHalf`), in units of the smallest half and with the
  distances of neighbouring halves as a constant (`HalfSteps`); it may be subnormal, zero or
  infinite. `unit` says what a source counts for. "Per-element error stays within d/2"
  (`q8.rs:32`) holds from a scale of 127 smallest halves on. Below, the error is bounded by
  63.5 smallest halves, 127 * 2^-25, whatever d is; with an infinite scale all quants are 0.
  Single precision is taken to be exact, and so `quantize_q8k` is left out for blocks so small
  that -128 / max overflows it.
- `Half` is exact on bits: all 65536 halves there and back, and singles on both
  sides of each rounding decision (`HalfNearest`); the proof has all singles.
- `Sampler` orders logits without computing exponentials: in the run a weight that
  halves with each step stands for `expf`, every multiple of 1/8 below 1 for the random
  number; the proof has any weights, of which only that of the largest must not be 0.
  Equal logits may be sorted either way (`sort_unstable_by`). `SampledFromNucleus` speaks of
  the logits alone: the k-th largest is defined by counting (`Kth`), without heap or
  order of candidates.

### Text

A byte is a name and a character the sequence of its bytes; of bytes and
characters only the classes that UTF-8 and the pre-tokenizer tell apart are kept.
The vocabulary has broken and invalid pieces, a control token that can be typed,
merges that overlap and one whose result does not exist. `MatcherIsPattern`
compares `match_one` with the regular expression in its comment, stated as seven
alternatives; `EncodesByRank` compares the loop over the lowest pair with the
definition of byte-pair encoding; `AnswerIsStream` compares `flush_utf8` with all the
characters in the byte stream. Merges are distinct pairs of tokens, as in every
vocabulary the converter supports. The loops of `flush_utf8` and `Tokenizer::merge` are
recursive functions over their rounds (`FlushStep`, `Halve`).

## Runs and bounds

| Run | Bounds | Why they are enough |
|---|---|---|
| `pool` | 2 workers, 2 jobs, rows 2, 3, 7 | inline and pooled jobs, a short last chunk, claims past the end, a job that follows one whose workers are still leaving; any number of workers is proved |
| `pool_missed`, `pool_late` | 2 workers, 1 and 2 jobs | smallest counterexamples |
| `nrmp` | 2 ids, 2 payloads, up to 3 fragments against a limit of 2, 2 messages, 1 damaged datagram | messages that share an id and differ in one fragment, messages that are too large, a header that names another id; one kind, which is to the code what an id is; all sizes and kinds are proved |
| `chat` | window 20, budget 2, prompts of up to 4 tokens, chunks of 3 | several turns per window, resets in every phase, prompts that need more than one chunk |
| `modelload` | two files of 14 bytes with every set of up to two altered bytes and every length; ten more models of up to two layers, of three families, eight of them with a defect; reads of up to 5 | every split of header, CRC fields, metadata, gap and data; every tensor kind and every error of parse and set-up |
| `bridge` | foul: 2 calls; a call and a user command with every outcome upstream; a notification and two refused requests; 1 restart, 1 reboot, 1 message delivered twice; calm: a call, a notification and 2 user commands with every outcome; a call, one too large each way, 2 user commands | a late answer meets the next request, twice over; a request and an answer are sent at once; each way of failing in front of and behind a good request |
| `net` | 2 hosts, a cache of 1, 2 messages of 1 or 2 fragments, 1 foreign frame, 1 refused transmit | the gateway is evicted in the middle of a message |
| `installer` | 2 runs, 1 change of the pin, 2 builds, 3 disks on 2 paths, 2 slices, 2 disturbances; 3 commands and 2 edits, 2 paths, 3 versions of which two have one size, 2 modes | a run resumes what another pin left, a disk is swapped and mounted; also checked with 4 runs and 3 pins. Of the image builder a build that was cut off, an edit and a command that may reuse its image fit into 3 and 2 (6.3 million states together) |
| `text` | all prompts of up to 4 of 9 characters, answers of up to 4 of 10 pieces, 8 columns, 4 lines, 2 keys per frame | every alternative of the pattern followed by every other, characters of three bytes in pieces, words longer than a line |
| `infer` | 3 models (one format, two that share the activations' format, two that do not), 2 layers, 2 heads on 1 KV head, window 3, batches of 2, 2 tokens; each single quant of each format, dense blocks, blocks at the end of every range, 6 activation rows, for Q8_0 in units that bring the scale to zero, to a subnormal half, to ties and carries and to infinity, halves up to 4 apart, 4 backends; every half, 19 exponents with 22 fractions; 5 logits of 3 values or NaN, heap of 4 | a batch that is full and one that is not, a second conversation over the rows of the first; every position of every packed format, a tile of four and a rest; a heap that is full and a heap that is not (0.2 million states) |

A passing run checks only what is hard to get right; the type invariants of `Pool`,
`Nrmp`, `Bridge`, `NetAdapter` and `ModelLoad` are proved instead.

## What the runs show

- `pool`: a worker never holds a Task whose `run` has returned (`TaskAlive`); ranges
  run at the same time are disjoint and no row is run twice (`DisjointRanges`); the
  pool is a loop over all rows (`ImplementsLoop`); `run` returns if every worker has
  made its first load of `seq` in time (`RunReturns`).
- `pool_missed` (violation): a worker that makes its first load of `seq` after a job
  was posted misses it, and `EveryRunReturns` fails. `pool_late` (violation): an
  uncounted worker bumps `done` in place of a counted one, and `TaskAlive` fails.
- `nrmp`: duplicates, losses and reordering never spoil a message that completes
  (`NoFalseMismatch`); the two ends see a link that may lose and reorder but not alter
  bodies (`ImplementsLink`).
- `chat`: the caret stays in the line and no assertion fails for prompts that fit (`NoPanic`);
  `StartedIffContext` and `TemplateConsistent` over turns, resets and ESC; `generate`
  returns (`GenerateReturns`). `chat_overflow` (violation): a prompt that outgrows
  the reserve reaches the assertion.
- `modelload`: `OnlyIntactModels` and its converse `NoFalseAlarm` for every cut of the
  file into reads; what the converter writes boots (`WellFormedBoots`); booting ends
  (`BootEnds`).
- `bridge`: a client gets the answer to its own request (`AnswerMatches`); the pending
  map leaks nothing (`NoLeak`); no request is run twice, nor one that was refused
  (`RunOnce`); the upstream server is initialized before anything is forwarded
  (`InitBeforeForward`); every HTTP request is answered (`RequestEnds`), in a calm
  scenario with its answer, with three exceptions (`AnswerArrives`).
- `net`: datagrams leave in order, once and as they were built, but for the two ways in which one
  is lost (`InOrder`), to the address heard last (`CacheCurrent`), and the queue drains
  (`MessagesLeave`).
- `installer`: only the pinned artifact is built in (`OnlyPinnedModel`); the image holds
  the chosen model (`ImageCurrent`, with its conditions); only the confirmed disk is
  written (`OnlyConfirmedDisk`), unmounted (`WrittenUnmounted`); "verified" means what
  it says (`VerifiedHolds`); an image built or refreshed by `xtask` is the one asked for
  (`ImageAsAsked`, with its conditions).
- `text`: `MatcherIsPattern` and `EncodesByRank` against reference definitions, the latter
  with no control token out of typed text; the answer is the sampled bytes
  (`AnswerIsStream`); wrapping loses nothing (`WrapKeepsText`), leaves finished lines
  alone, and no key is dead (`ScreenSteady`).
- `infer`: the logits depend on the tokens since `reset` alone (`ContextDecides`); kernels
  compute the product of the weights they store (`ProductExact`), equal bits where the
  comments promise them (`BitIdentical`); activations are quantized to the nearest step,
  as far as the scale is a normal half (`QuantizeClose`), f16 to the nearest number (`HalfNearest`); a sampled token is in the
  nucleus, NaN or not (`SampledFromNucleus`).

## Fairness

- `Pool.FairSpec`: every processor that runs keeps executing instructions. Calls
  of `run` are not forced.
- `Chat.FairSpec`: `generate` runs on the one core until it returns. Nobody has to
  type.
- `ModelLoad.FairSpec`: the boot processor keeps going; firmware reads return.
- `Bridge.FairSpec`: the HTTP thread is scheduled, `recv_timeout` expires. In a scenario
  that is not calm nothing is assumed of network, device or UDP loop; in a calm one
  the UDP loop and the device run too, and messages arrive. No call of the upstream
  server is assumed to return: to hang is one of its outcomes.
- `NetAdapter.FairSpec`: the chat loop polls for ever, the NIC sends what it has
  accepted, and the gateway's ARP reply is received again and again (strong
  fairness, because the receive loop is entered again and again).

## Proofs

All theorems hold for every value of the constants that the named assumptions
allow.

- `PoolProofs`: `TypeCorrect`; and under `OnTime`, `TaskLifetime`, `RangesDisjoint`,
  `RunIsBarrier`, `PoolIsLoop`. The inductive invariant says, for each phase of `run`,
  who may hold the Task: the set `bumped` of workers that have bumped `done` has
  exactly `done` members, a worker outside it is still to bump, so `done = workers`
  means that all have left the job; rows below `cursor` have been run once or are
  being run by exactly one process.
- `NetworkProofs`, of the framing: `NrmpTypeCorrect`, `PushIntegrity`, `NoMismatch`,
  `AssemblesOnlySent`, `NrmpIsLink`. The invariant: every datagram in the network has the
  header of a sent message, or of a damaged one whose checksum is that of a sent body or
  of none (`WireInv`); on an undamaged network the marked fragments of the buffer belong to the one message
  the key names. What is complete and passes the CRC is therefore a body that was sent.
- `NetworkProofs`, of the adapter: `TypeCorrect`, `CacheIsCurrent`, `SentInOrder`. The ids of
  queued messages are consecutive and follow that of the last fragment handed over
  (`OrderInv`); a datagram that was handed over is on the wire, lost, or in the buffer of
  the NIC, which has `tx_busy` set (`BufferInv`).
- `ChatProofs`: `NeverPanics`, `AnswersFit`, `StartedMeansContext`, `TemplateKept`.
  - `NeverPanics` is about behaviours in which every turn that is begun has at most
    MAX_GEN + 256 tokens (`TurnFits`), system prompt included where it starts a
    conversation. It assumes nothing of the constants and of earlier turns: the reset test leaves
    room for what is left to prefill in every step (`WindowInv`). The program does not
    keep longer turns out (`chat_overflow`).
  - `AnswersFit` assumes nothing at all: only a turn whose own tokens do not
    fit what is left of the window can fail an assertion, in `prefill_chunk`. `forward` never does,
    since the loop's test of the remaining room is still true when the token is
    forwarded (`OverrunInv`).
  - `TemplateKept` is for `Template = "Llama3"`; the other two violate the property. The
    invariant speaks of the context together with what is left to prefill: every header
    in it follows a closed turn, it starts with the system prompt, and between turns
    its last token ends a turn or there is no room left (then the next turn resets).
- `ModelLoadProofs`: `TypeCorrect`, `IntactModelsOnly`, `NoIntactRefused`, for every file
  and damage. The invariant: after `done` bytes the two hashers have been given
  exactly the bytes of their sections below `done`, whatever the reads were
  (`HashInv`, where the CRC fields are zeroed also when a read ends inside them);
  an intact header states what was written, and every header that is accepted covers itself
  (`FileInv`). So equal sums at the end mean equal sections and the other way
  round. That the sums of `usize` do not wrap for a file that was written is assumed
  (`LoadAssumption`: it fits into memory).
- `ConvertedBoots`, in the same module: a well-formed GGUF file of any dimensions, number of
  layers, family and block sizes boots (`BootInv`). The converter's cursor grows, so
  offsets are aligned, disjoint and inside the data section, which is what
  `Model::parse` checks; every tensor `InferCtx::new` asks for was collected, with the
  shape and type it demands, layer by layer; and the 24 buffers it takes, each with
  its padding, are bounded one by one by the terms of `required_bytes`.
- `BridgeProofs`: `TypeCorrect`, `PendingOwned`, `AnswersMatch`, `RunsOnce`,
  `InitializedFirst`. All messages that carry an id, and the HTTP thread while it works
  on it, mean the same request; every id in use is below the next one. A request
  goes out in at most one message, so it is run once and once more for each copy, and
  one less while that message is still under way (`RunInv`). The upstream session
  and the step of the upstream call agree on what the server has seen (`LifecycleInv`).
- `InstallerProofs`: `PinnedModelOnly`, `ImageIsCurrent`, `ConfirmedDiskOnly`,
  `UnmountedWhenWritten`, `VerifiedMeansHolds`, for any number of runs, pins, disks and
  slices. After the checks, and as long as no path moves, the path names the disk
  that was confirmed (`DiskInv`); as long as what was read back is the same, the slices read so far
  are on the disk as in the hashed image (`VerifyInv`); a whole `.nrm`
  that is newer than its source was made from it (`CurrentInv`, with `TimesInv` for
  the times that `mv` and resumed downloads keep).
- `ImagesAsAsked`, in the same module. A sidecar fits the image it stands next to unless
  a build has begun since it was written (`StampInv`); in each step of a build the
  parts written so far are those the command asked for (`PhaseInv`).
- `InferProofs`, about the five modules of `infer`, for every size, every byte and every
  sequence of calls:
  - `LogitsAreTheContexts` (`ContextDecides`). The invariant: below `pos` every row of the
    cache holds the keys and values that `Reference` has at that position, and the
    logits are those of the last (`InferInv`). A layer of `forward` writes the next row
    and reads only rows up to it; `prefill_chunk` writes the rows of the whole chunk first,
    and an attention head still reads none after its own position. A group of matrices
    shares the quantized activations of each format, whichever was computed first.
  - `ProductsAreExact`, `TilesAreBitIdentical` and `ActivationsClose`, with `MulInv`: what has
    been written so far is the product of its row and column. Exactness is a statement about
    lanes: the bits that cross a byte in a 16-bit shift are masked away, a pair of
    products of `maddubs` is below 2^15, four 8-bit products fit an `i32`, and the
    regrouped sums equal the sum over the weights that `dequant_*` reads.
  - `HalvesNearest`, with `HalfInv`: for each single, by the case it falls in (zero,
    subnormal, normal, overflow, infinity, NaN), the half chosen and its neighbours.
  - `TokenFromNucleus` (`SampledFromNucleus`), with `SampleInv`: above every value the heap has
    as many candidates as there are logits, up to TOP_K, which is kept because the root is
    the smallest; only the node that is sifted may be larger than its children, and they
    are no smaller than its parent. Counting alone makes the k-th sorted
    candidate the k-th largest logit, so the prefix that is kept is that of the property.
- `TextProofs`:
  - `TakesThePattern` (`MatcherIsPattern`). For each alternative the length its code returns is the
    longest its part of the pattern matches (`ContractionLongest` ... `WhitespaceLongest`), where
    the code takes the last three together; no contraction is the beginning of another.
  - `AnswersTheStream` (`AnswerIsStream`). What is out and what is pending together have the
    characters of all that was sampled, whatever bytes may follow, and nothing more can
    come out (`Answering`). A round of `flush_utf8` keeps that: a byte that continues a
    character begins none, and what `from_utf8` calls invalid stays so whatever follows.
  - `WrapsTheText` (`WrapKeepsText`). Each step from the words to the lines keeps what can be seen:
    the pieces between separators (`SplitKeeps`), the chunks of a long word (`PushWordKeeps`),
    a word on a line (`AddWordAdds`), a paragraph, all paragraphs; and every line it finishes is
    within the columns (`Narrow`).
  - `ScreenStaysSteady` (`ScreenSteady`). A token only adds to the answer (`AnswerGrows`, from
    the invariant of `AnswersTheStream`), and one more character, whether a letter, a space or a
    newline, only adds lines behind the finished ones (`PushedGrows`, `AddWordGrows`,
    `ParagraphGrows`, `WrapGrowsOne`). For the keys the invariant is `ScreenInv`: after a redraw
    `scroll` is within the lines, so the next key starts from where the window is.

Where a definition recurs over numbers (sums, the cursor of a file, the layers of a
pass) the proofs unfold it step by step; induction is then a lemma about sets of naturals (`Climb`),
which follows from the well-foundedness of `<` in the library, by the least counterexample.

The assumptions are those of the modules (ASSUME, evaluated by TLC in the runs) and
the ones named above: `OnTime`, `TurnFits` and `Template = "Llama3"`, each
stated in its theorem.

Left to TLC: all liveness properties, for which the provers have no fairness; and of `Text`
`EncodesByRank`.

## Observed without a run

Behaviour met while modelling that no document or property decides: after a
restart of the gateway clients get 503 until the device speaks, since Hello is
sent once per boot; `initialized` stays true when an upstream server drops its
session; an ICMP or ARP reply that is due while the only transmit buffer is with
the NIC is dropped.

`ImageAsAsked` without its first condition fails: build model A, start building
model B and stop after the image is written and before its stamp is, then
`run --img` with A. The stamp is A's, the image holds B, and only the EFI binary is
refreshed, where the comment of `build_image` (`tools/xtask/src/main.rs:124`) has "the
image already contains this exact model".

The comment at `nr-tensor/src/q8.rs:32` has every error of Q8_0 within d/2. For activations so
small that `amax / 127` rounds to a subnormal half or to zero it is not, without
consequence next to normal activations; `QuantizeClose` has the bound that holds.

## Not modelled

- The value of f32 arithmetic: sums over blocks, norms, softmax, rope frequencies,
  `dot_f16` and `axpy_f16`. Which operations are applied to what, and in which order, is
  in `Inference` and `Kernels`; how large the rounding error becomes is beyond TLC.
- The probe of CPU features, drawing, firmware glue: stateless, or a thin layer over
  hardware.
- The QEMU runner and `bench` in `xtask`, and `nrhost`: scripts around other programs.
- The parsing of GGUF files, the installer's menus and preflight checks, the web site.

## What is left

A proof of `EncodesByRank`; the installer's menus (target,
memory, model, features); and the size of the rounding errors in f32 sums.
