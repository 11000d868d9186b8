------------------------------- MODULE Image --------------------------------
(***************************************************************************)
(* cargo xtask image, run --img and pi-image (tools/xtask/src/main.rs and  *)
(* image.rs): the boot image is written from scratch in place, or, when    *)
(* the sidecar says that it holds the model asked for, only its EFI binary *)
(* is.  Between commands the developer edits the code, converts a model    *)
(* again, removes the image or cleans target/; a command may end after any *)
(* step, by Ctrl+C or one of its many expects.                             *)
(*                                                                         *)
(* Files are abstract versions; of a model the size matters too.  Of an    *)
(* image we keep which layers are there, the EFI binary, and the model     *)
(* with the path it was copied from; Torn is half a copy.                  *)
(***************************************************************************)
EXTENDS Integers

CONSTANTS
    ModelPaths,     \* arguments of --model
    Versions,       \* contents a model file may have
    SizeOf,         \* their sizes
    Modes,          \* offline, network, mcp
    Archs,          \* x86_64 and aarch64, each with its image and its sidecar
    Missing,        \* the content of a file that does not exist
    MaxEdits,       \* changes the developer makes
    MaxXtasks       \* commands

ASSUME ImageAssumption ==
    /\ Missing \notin Versions /\ "pi5" \notin Archs /\ Archs # {} /\ "none" \notin Modes
    /\ SizeOf \in [Versions -> Nat]
    /\ {MaxEdits, MaxXtasks} \subseteq Nat

VARIABLES
    code,           \* the revision of nr-boot's sources
    models,         \* the content behind each path
    imgs,           \* the image files, that of the Raspberry Pi too
    sidecar,        \* target/image-model*.txt
    xpc, cmd,       \* the step of xtask, and what it was asked for
    cutoff,         \* history: images begun and not stamped since
    edits, xtasks

imagevars == <<code, models, imgs, sidecar, xpc, cmd, cutoff, edits, xtasks>>

Torn     == "torn"
NoFile   == [there |-> FALSE]
Blank    == [there |-> TRUE, table |-> FALSE, fs |-> FALSE, efi |-> Missing,
             model |-> Missing, from |-> Missing]
NoStamp  == <<"none">>
NoCmd    == [name |-> "none"]

ImageIdle ==
    /\ code = 0 /\ models = [p \in ModelPaths |-> Missing]
    /\ imgs = [n \in Archs \cup {"pi5"} |-> NoFile]
    /\ sidecar = [a \in Archs |-> NoStamp]
    /\ xpc = "idle" /\ cmd = NoCmd /\ cutoff = {} /\ edits = 0 /\ xtasks = 0
ImageInit ==
    /\ code = 0 /\ models \in [ModelPaths -> Versions \cup {Missing}]
    /\ imgs = [n \in Archs \cup {"pi5"} |-> NoFile]
    /\ sidecar = [a \in Archs |-> NoStamp]
    /\ xpc = "off" /\ cmd = NoCmd /\ cutoff = {} /\ edits = 0 /\ xtasks = 0

-----------------------------------------------------------------------------
\* What build_and_stage makes of the sources.
Efi == <<cmd.arch, cmd.mode, code>>

\* The model, if the file is there.
Model == models[cmd.model]

\* Mutant of Stamp: without the size.
StampPath == IF Model = Missing THEN <<cmd.mode>> ELSE <<cmd.model, cmd.mode>>

Stamp == IF Model = Missing THEN <<cmd.mode>> ELSE <<cmd.model, SizeOf[Model], cmd.mode>>

\* A command is given.  cargo builds the EFI binary, or xtask ends.
Xtask(name, arch, model, mode) ==
    /\ xpc = "off" /\ xtasks < MaxXtasks
    /\ cmd' = [name |-> name, arch |-> arch, model |-> model, mode |-> mode,
               img |-> IF name = "pi-image" THEN "pi5" ELSE arch,
               sound |-> name # "run" \/ arch \notin cutoff]
    /\ xpc' = "decide" /\ xtasks' = xtasks + 1
    /\ UNCHANGED <<code, models, imgs, sidecar, cutoff, edits>>

\* build_image, up to the choice between update and build.
Decide ==
    /\ xpc = "decide"
    /\ xpc' = IF /\ cmd.name = "run"
                 /\ sidecar[cmd.arch] = Stamp
                 /\ imgs[cmd.img].there
              THEN "update" ELSE "create"
    /\ UNCHANGED <<code, models, imgs, sidecar, cmd, cutoff, edits, xtasks>>

Put(fields) == imgs' = [imgs EXCEPT ![cmd.img] = fields]

\* update_efi: without a partition, a file system and EFI/BOOT in it, which
\* build creates with the binary, it leaves the image alone.
OpenImage ==
    /\ xpc = "update"
    /\ IF imgs[cmd.img].table /\ imgs[cmd.img].fs /\ imgs[cmd.img].efi # Missing
       THEN Put([imgs[cmd.img] EXCEPT !.efi = Torn]) /\ xpc' = "refresh"
       ELSE UNCHANGED imgs /\ xpc' = "create"
    /\ UNCHANGED <<code, models, sidecar, cmd, cutoff, edits, xtasks>>
\* The copy is whole; if unmount fails build starts over.
Refresh ==
    /\ xpc = "refresh"
    /\ Put([imgs[cmd.img] EXCEPT !.efi = Efi])
    /\ xpc' \in {"done", "create"}
    /\ UNCHANGED <<code, models, sidecar, cmd, cutoff, edits, xtasks>>

\* build and build_pi: the file is truncated and sized, ...
Create ==
    /\ xpc = "create"
    /\ Put(Blank)
    /\ cutoff' = cutoff \cup {cmd.img}
    /\ xpc' = "table"
    /\ UNCHANGED <<code, models, sidecar, cmd, edits, xtasks>>
\* ... gets its GPT, or for the Pi its MBR, ...
WriteTable ==
    /\ xpc = "table"
    /\ Put([imgs[cmd.img] EXCEPT !.table = TRUE])
    /\ xpc' = "format"
    /\ UNCHANGED <<code, models, sidecar, cmd, cutoff, edits, xtasks>>
\* ... a file system (with the firmware files of the Pi), ...
FormatVolume ==
    /\ xpc = "format"
    /\ Put([imgs[cmd.img] EXCEPT !.fs = TRUE])
    /\ xpc' = "efi"
    /\ UNCHANGED <<code, models, sidecar, cmd, cutoff, edits, xtasks>>
\* ... the EFI binary and the model, each created, then filled ...
BeginEfi ==
    /\ xpc = "efi"
    /\ Put([imgs[cmd.img] EXCEPT !.efi = Torn])
    /\ xpc' = "efi2"
    /\ UNCHANGED <<code, models, sidecar, cmd, cutoff, edits, xtasks>>
EndEfi ==
    /\ xpc = "efi2"
    /\ Put([imgs[cmd.img] EXCEPT !.efi = Efi])
    /\ xpc' = IF Model = Missing THEN "unmount" ELSE "model"
    /\ UNCHANGED <<code, models, sidecar, cmd, cutoff, edits, xtasks>>
BeginModel ==
    /\ xpc = "model"
    /\ Put([imgs[cmd.img] EXCEPT !.model = Torn, !.from = cmd.model])
    /\ xpc' = "model2"
    /\ UNCHANGED <<code, models, sidecar, cmd, cutoff, edits, xtasks>>
EndModel ==
    /\ xpc = "model2"
    /\ Put([imgs[cmd.img] EXCEPT !.model = Model])
    /\ xpc' = "unmount"
    /\ UNCHANGED <<code, models, sidecar, cmd, cutoff, edits, xtasks>>
\* ... and is unmounted.  The Pi's image has no sidecar.
UnmountImage ==
    /\ xpc = "unmount"
    /\ xpc' = IF cmd.name = "pi-image" THEN "done" ELSE "stamp"
    /\ UNCHANGED <<code, models, imgs, sidecar, cmd, cutoff, edits, xtasks>>

\* The sidecar is written, or the error ignored.
WriteStamp ==
    /\ xpc = "stamp"
    /\ \/ /\ sidecar' = [sidecar EXCEPT ![cmd.arch] = Stamp]
          /\ cutoff' = cutoff \ {cmd.arch}
       \/ UNCHANGED <<sidecar, cutoff>>
    /\ xpc' = "done"
    /\ UNCHANGED <<code, models, imgs, cmd, edits, xtasks>>

\* The command ends, from "done" with the image ready or QEMU started on it,
\* from anywhere else by Ctrl+C or a panic.
XtaskEnds ==
    /\ xpc \notin {"idle", "off"}
    /\ xpc' = "off" /\ cmd' = NoCmd
    /\ UNCHANGED <<code, models, imgs, sidecar, cutoff, edits, xtasks>>

-----------------------------------------------------------------------------
(* The developer, between commands *)

Edit == xpc = "off" /\ edits < MaxEdits /\ edits' = edits + 1

EditCode ==
    /\ Edit /\ code' = code + 1
    /\ UNCHANGED <<models, imgs, sidecar, xpc, cmd, cutoff, xtasks>>
ReplaceModel(p, v) ==
    /\ Edit /\ v # models[p] /\ models' = [models EXCEPT ![p] = v]
    /\ UNCHANGED <<code, imgs, sidecar, xpc, cmd, cutoff, xtasks>>
RemoveImage(n) ==
    /\ Edit /\ imgs[n].there /\ imgs' = [imgs EXCEPT ![n] = NoFile]
    /\ UNCHANGED <<code, models, sidecar, xpc, cmd, cutoff, xtasks>>
CleanTarget ==
    /\ Edit /\ sidecar' = [a \in Archs |-> NoStamp]
    /\ UNCHANGED <<code, models, imgs, xpc, cmd, cutoff, xtasks>>

ImageNext ==
    \/ \E name \in {"image", "run"}, a \in Archs, p \in ModelPaths, m \in Modes : Xtask(name, a, p, m)
    \/ \E p \in ModelPaths, m \in Modes : Xtask("pi-image", "aarch64", p, m)
    \/ Decide \/ OpenImage \/ Refresh
    \/ Create \/ WriteTable \/ FormatVolume \/ BeginEfi \/ EndEfi \/ BeginModel \/ EndModel
    \/ UnmountImage \/ WriteStamp \/ XtaskEnds
    \/ EditCode \/ CleanTarget
    \/ (\E p \in ModelPaths, v \in Versions \cup {Missing} : ReplaceModel(p, v))
    \/ (\E n \in DOMAIN imgs : RemoveImage(n))

ImageSpec == ImageInit /\ [][ImageNext]_imagevars

-----------------------------------------------------------------------------
\* When a command is done its image boots the code as it is now, in the mode
\* asked for; and it holds all of the model asked for ("switching models forces
\* a full rebuild instead of a stale EFI-only update", main.rs:140), whatever
\* was built, edited, replaced and removed before.  As far as the code goes:
\* run takes the image of an earlier build that was cut off, or could not be
\* stamped, for the one stamped before it, and a model converted again to the
\* same path and size for the old one.
ImageAsAsked ==
    xpc = "done" =>
        LET i == imgs[cmd.img] IN
        /\ i.table /\ i.fs /\ i.efi = Efi
        /\ cmd.sound => \/ i.model = Model
                        \/ /\ cmd.name = "run" /\ i.from = cmd.model
                           /\ {i.model, Model} \subseteq Versions
                           /\ SizeOf[i.model] = SizeOf[Model]
=============================================================================
