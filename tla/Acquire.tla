------------------------------- MODULE Acquire -------------------------------
(***************************************************************************)
(* The first half of the installer: from the model the user wants to a     *)
(* boot image on disk.  nr_download_model fetches the pinned GGUF into a   *)
(* .part file that survives runs, checks it and moves it into the cache    *)
(* (scripts/installer/lib/downloads.sh); nr_build_image converts it,       *)
(* unless the .nrm is newer than the GGUF, and assembles the image         *)
(* (build.sh, tools/nrconvert, tools/xtask).                               *)
(*                                                                         *)
(* The files outlive a run of the installer; Ctrl+C, a crash or a refusal  *)
(* may end it anywhere (End, in Installer).  A GGUF is the sequence of     *)
(* its blocks, each named for the revision it belongs to; an absent file   *)
(* and an empty one are <<>>, since no test here tells them apart.         *)
(***************************************************************************)
EXTENDS Integers, Sequences

CONSTANTS
    Revisions,      \* revisions the manifest may pin
    Length,         \* blocks of the GGUF of each revision
    Locals,         \* GGUF files of the user's own
    NrmOf,          \* the .nrm each source is converted into
    MaxRuns,        \* runs of the installer
    MaxPins,        \* changes of the manifest's pin
    MaxBuilds       \* images assembled

Sources == {"cache"} \cup Locals
Nrms    == {NrmOf[s] : s \in Sources}

ASSUME AcquireAssumption ==
    /\ "bad" \notin Revisions /\ "cache" \notin Locals
    /\ Length \in [Revisions -> Nat \ {0}]
    /\ DOMAIN NrmOf = Sources
    /\ {MaxRuns, MaxPins, MaxBuilds} \subseteq Nat

VARIABLES
    pin,            \* the manifest's revision
    cache, part,    \* models/<file> and models/<file>.part
    nrm,            \* what each .nrm was converted from, and whether it is all there
    newer,          \* of cache and part, those written after each .nrm
    image,          \* the image file
    pc, source,     \* the step of this run, and NR_GGUF_PATH
    built,          \* the image this run has hashed (NR_IMAGE_SHA)
    runs, pins,     \* history: runs, changes of the pin,
    cut             \*   a run ended between two steps that belong together

files    == <<cache, part, nrm, newer>>
counters == <<runs, pins, cut>>

Artifact(r) == [i \in 1..Length[r] |-> r]
Content(s)  == IF s = "cache" THEN cache ELSE <<s>>
NoNrm       == [of |-> <<>>, whole |-> FALSE]
NoImage     == [of |-> <<>>, whole |-> FALSE, build |-> 0]

AcquireInit ==
    /\ pin \in Revisions
    /\ cache = <<>> /\ part = <<>>
    /\ nrm = [n \in Nrms |-> NoNrm] /\ newer = [n \in Nrms |-> {}]
    /\ image = NoImage /\ built = NoImage
    /\ pc = "off" /\ source = "cache"
    /\ runs = 0 /\ pins = 0 /\ cut = FALSE

Goto(here, there) == pc = here /\ pc' = there

\* main: preflight, the manifest, target and model, up to nr_acquire_model.
\* An earlier run may have left a whole download that it did not check.
Start ==
    /\ Goto("off", "menu")
    /\ runs < MaxRuns /\ runs' = runs + 1
    /\ built' = NoImage
    /\ cut' = (cut \/ \E r \in Revisions : part = Artifact(r))
    /\ UNCHANGED <<pin, files, image, source, pins>>

\* The checkout is updated: the manifest pins another revision.
Repin(r) ==
    /\ pc = "off" /\ pins < MaxPins
    /\ r # pin /\ pin' = r /\ pins' = pins + 1
    /\ UNCHANGED <<files, image, pc, source, built, runs, cut>>

-----------------------------------------------------------------------------
(* downloads.sh *)

\* nr_pick_local_gguf; a path that fails one of its tests leaves the menu up.
PickLocal(f) ==
    /\ Goto("menu", "inspect")
    /\ source' = f
    /\ UNCHANGED <<pin, files, image, built, counters>>

\* nr_download_model, up to the probe.  Size and SHA-256 are those of the
\* manifest exactly when the blocks are the artifact's.
CheckCache ==
    /\ pc = "menu"
    /\ IF cache = Artifact(pin) THEN pc' = "inspect" /\ source' = "cache"
                                ELSE pc' = "probe" /\ UNCHANGED source
    /\ UNCHANGED <<pin, files, image, built, counters>>

\* nr_probe_url: reachable and authorized, or back to the menu.
Probe ==
    /\ Goto("probe", "fetch") \/ Goto("probe", "menu")
    /\ UNCHANGED <<pin, files, image, source, built, counters>>

\* curl -C - goes on after what the .part file holds, whoever wrote that.
Fetch(block) ==
    /\ pc = "fetch" /\ Len(part) < Length[pin]
    /\ part' = Append(part, block)
    /\ newer' = [n \in Nrms |-> newer[n] \cup {"part"}]
    /\ UNCHANGED <<pin, cache, nrm, image, pc, source, built, counters>>

\* curl reports success, also when there was nothing left to ask for.
Fetched ==
    /\ Goto("fetch", "check") /\ Len(part) >= Length[pin]
    /\ UNCHANGED <<pin, files, image, source, built, counters>>

\* curl gives up; the partial file is kept for resuming.
FetchFails ==
    /\ Goto("fetch", "menu")
    /\ UNCHANGED <<pin, files, image, source, built, counters>>

\* mv keeps the time the file was last written.
MvPart == /\ cache' = part /\ part' = <<>>
          /\ newer' = [n \in Nrms |-> {f \in {"cache"} : "part" \in newer[n]}]

\* Mutant of CheckPart: only the size is compared.
CheckPartSize ==
    /\ pc = "check"
    /\ \/ /\ Len(part) = Length[pin]
          /\ MvPart /\ pc' = "inspect" /\ source' = "cache"
       \/ /\ Len(part) # Length[pin]
          /\ part' = <<>> /\ pc' = "menu"
          /\ newer' = [n \in Nrms |-> newer[n] \ {"part"}]
          /\ UNCHANGED <<cache, source>>
    /\ UNCHANGED <<pin, nrm, image, built, counters>>

\* Size, SHA-256 and magic of the .part file: into the cache with it, or away.
CheckPart ==
    /\ pc = "check"
    /\ \/ /\ part = Artifact(pin)
          /\ MvPart /\ pc' = "inspect" /\ source' = "cache"
       \/ /\ part # Artifact(pin)
          /\ part' = <<>> /\ pc' = "menu"
          /\ newer' = [n \in Nrms |-> newer[n] \ {"part"}]
          /\ UNCHANGED <<cache, source>>
    /\ UNCHANGED <<pin, nrm, image, built, counters>>

\* nr_inspect_gguf: the family is supported, or back to the menu.
Inspect ==
    /\ Goto("inspect", "convert") \/ Goto("inspect", "menu")
    /\ UNCHANGED <<pin, files, image, source, built, counters>>

-----------------------------------------------------------------------------
(* build.sh *)

Target == NrmOf[source]

\* Mutant of Reusable: any .nrm that is there will do.
ReusableAnyAge == nrm[Target].of # <<>>

\* -f "$nrm" && "$nrm" -nt "$NR_GGUF_PATH"; the user's own files are older
\* than what is converted from them.
Reusable == nrm[Target].of # <<>> /\ source \notin newer[Target]

Convert ==
    /\ pc = "convert"
    /\ pc' = IF Reusable THEN "assemble" ELSE "converting"
    /\ UNCHANGED <<pin, files, image, source, built, counters>>

\* nrconvert: the file is truncated and written in place, ...
WriteNrm ==
    /\ Goto("converting", "writing")
    /\ nrm' = [nrm EXCEPT ![Target] = [of |-> Content(source), whole |-> FALSE]]
    /\ newer' = [newer EXCEPT ![Target] = {}]
    /\ UNCHANGED <<pin, cache, part, image, source, built, counters>>

\* ... then parsed and checked.
Converted ==
    /\ Goto("writing", "assemble")
    /\ nrm' = [nrm EXCEPT ![Target].whole = TRUE]
    /\ UNCHANGED <<pin, cache, part, newer, image, source, built, counters>>

\* nrconvert fails: the .nrm is removed and the installer ends.
ConvertFails ==
    /\ pc \in {"converting", "writing"} /\ pc' = "off"
    /\ nrm' = [nrm EXCEPT ![Target] = NoNrm]
    /\ UNCHANGED <<pin, cache, part, newer, image, source, built, counters>>

\* cargo xtask image or pi-image, always from scratch, and its digest.
Assemble ==
    /\ Goto("assemble", "media") /\ image.build < MaxBuilds
    /\ image' = [of |-> nrm[Target].of, whole |-> nrm[Target].whole, build |-> image.build + 1]
    /\ built' = image'
    /\ UNCHANGED <<pin, files, source, counters>>

AcquireNext ==
    \/ (\E r \in Revisions : Repin(r))
    \/ (\E f \in Locals : PickLocal(f))
    \/ CheckCache \/ Probe
    \/ (\E block \in {pin, "bad"} : Fetch(block)) \/ Fetched \/ FetchFails
    \/ CheckPart \/ Inspect
    \/ Convert \/ WriteNrm \/ Converted \/ ConvertFails \/ Assemble

-----------------------------------------------------------------------------
Acquired == {"inspect", "convert", "converting", "writing", "assemble"}

\* A downloaded model goes into the build only as the artifact the manifest
\* pins, whatever earlier runs, other pins and cut downloads left behind in
\* the cache and in the .part file.
OnlyPinnedModel == pc \in Acquired /\ source = "cache" => cache = Artifact(pin)

Chosen == built.whole /\ built.of = Content(source)

\* The image that is offered for flashing holds the whole model the user
\* chose ("Converted model is current").
ImageHoldsChosen == built # NoImage => Chosen

NrmsDistinct == \A s, t \in Sources : NrmOf[s] = NrmOf[t] => s = t

\* The image that is offered for flashing holds the whole model the user
\* chose, as far as the code goes: when no earlier run was stopped while
\* nrconvert wrote its output, or between the last byte of a download and its
\* check (mv keeps the time of that byte, and a .nrm made in between from
\* another pin is newer), and no two sources share the name of a .nrm.
ImageCurrent == NrmsDistinct /\ ~cut => ImageHoldsChosen
=============================================================================
