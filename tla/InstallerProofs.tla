-------------------------- MODULE InstallerProofs ---------------------------
(***************************************************************************)
(* Proofs about the installer, for any revisions, local models, disks and  *)
(* paths, and any number of runs, pins, builds and disturbances; and about *)
(* xtask's image builder, for any models, modes and targets and any number *)
(* of commands and edits.                                                  *)
(***************************************************************************)
EXTENDS Installer, Image, TLAPS

Acquiring == {"menu", "probe", "fetch", "check"} \cup Acquired
Flashing  == Choosing \cup Checked \cup {"done"}

-----------------------------------------------------------------------------
(* The two halves of a run *)

\* Acquiring and building neither flash nor look at the disks.
LEMMA BuildSteps ==
    ASSUME AcquireNext
    PROVE  /\ pc \in {"off"} \cup Acquiring /\ pc' \in {"off", "media"} \cup Acquiring
           /\ pc = "off" => pc' = "off"
BY DEF AcquireNext, Repin, PickLocal, CheckCache, Probe, Fetch, Fetched, FetchFails, CheckPart,
       Inspect, Convert, WriteNrm, Converted, ConvertFails, Assemble, Goto, Acquiring, Acquired

\* Everything after that leaves the model files and the choices alone.
LEMMA FlashSteps ==
    ASSUME Next, ~Begin, ~Build
    PROVE  /\ UNCHANGED <<pin, files, source, built>>
           /\ pc' \in Flashing \cup {"off"} /\ (pc' # "off" => pc \in Flashing)
           /\ cut \/ pc = "writing" => cut'
<1>1. ASSUME Step, pc \in Flashing, pc' \in Flashing \cup {"off"}
      PROVE  /\ UNCHANGED <<pin, files, source, built, cut>>
             /\ pc' \in Flashing \cup {"off"} /\ pc \in Flashing
  BY <1>1 DEF Step, acquire, counters
<1>2. CASE \/ (\E p \in Paths : Select(p)) \/ CheckSelection \/ BeforeUnmount \/ AfterUnmount
           \/ Confirm \/ Revalidate \/ Rehash \/ WriteDone \/ SkipVerify \/ ReadSlice \/ VerifyEnds
  <2>1. Step /\ pc \in Flashing /\ pc' \in Flashing \cup {"off"}
    BY <1>2 DEF Select, CheckSelection, BeforeUnmount, AfterUnmount, Confirm, Revalidate, Rehash,
                WriteDone, SkipVerify, ReadSlice, VerifyEnds, Goto, Flashing, Choosing, Checked
  <2> QED
    BY <1>1, <2>1 DEF Flashing, Choosing, Checked
<1>3. CASE Unmount \/ \E kept \in {image.build, 0} : WriteSlice(kept)
  BY <1>3 DEF Unmount, WriteSlice, acquire, counters, Flashing, Choosing, Checked
<1>4. CASE \/ \E p \in Paths, d \in Disks \cup {None} : Replug(p, d)
           \/ \E d \in Disks, what \in {"part", "whole"} : Mount(d, what)
           \/ Rebuild
  BY <1>4 DEF Replug, Mount, Rebuild, Disturb, acquire, counters, Flashing, Choosing, Checked
<1>5. CASE End
  BY <1>5 DEF End
<1> QED
  BY <1>2, <1>3, <1>4, <1>5 DEF Next

-----------------------------------------------------------------------------
(* The downloaded model *)

\* A downloaded model is used only as the pinned artifact, whatever the cache
\* and the .part file held before, for any revisions, pins and runs.
THEOREM PinnedModelOnly == Spec => []OnlyPinnedModel
<1>1. Init => OnlyPinnedModel
  BY DEF Init, AcquireInit, OnlyPinnedModel, Acquired
<1>2. OnlyPinnedModel /\ [Next]_vars => OnlyPinnedModel'
  <2> SUFFICES ASSUME OnlyPinnedModel, [Next]_vars PROVE OnlyPinnedModel'
    OBVIOUS
  <2>1. CASE Begin
    BY <2>1 DEF Begin, Start, Goto, OnlyPinnedModel, Acquired
  <2>2. CASE Build
    <3>1. CASE CheckPart
      BY <3>1 DEF CheckPart, MvPart, OnlyPinnedModel, Acquired, Artifact
    <3>2. CASE CheckCache
      BY <3>2 DEF CheckCache, OnlyPinnedModel, Acquired, Artifact, files
    <3>3. ASSUME NEW f \in Locals, PickLocal(f) PROVE OnlyPinnedModel'
      BY <3>3, AcquireAssumption DEF PickLocal, OnlyPinnedModel
    <3>4. CASE \/ \E r \in Revisions : Repin(r)
               \/ \E block \in {pin, "bad"} : Fetch(block)
      BY <3>4 DEF Repin, Fetch, OnlyPinnedModel, Acquired
    <3>5. CASE Probe \/ Fetched \/ FetchFails \/ Inspect \/ Convert
      BY <3>5 DEF Probe, Fetched, FetchFails, Inspect, Convert, Goto, files, OnlyPinnedModel, Acquired,
                  Artifact
    <3>6. CASE WriteNrm \/ Converted \/ ConvertFails \/ Assemble
      BY <3>6 DEF WriteNrm, Converted, ConvertFails, Assemble, Goto, files, OnlyPinnedModel, Acquired,
                  Artifact
    <3> QED
      BY <2>2, <3>1, <3>2, <3>3, <3>4, <3>5, <3>6 DEF Build, AcquireNext
  <2>3. CASE Next /\ ~Begin /\ ~Build
    BY <2>3, FlashSteps DEF OnlyPinnedModel, Acquired, Flashing, Choosing, Checked
  <2>4. CASE UNCHANGED vars
    BY <2>4 DEF vars, acquire, files, OnlyPinnedModel, Artifact
  <2> QED
    BY <2>1, <2>2, <2>3, <2>4
<1> QED
  BY <1>1, <1>2, PTL DEF Spec

-----------------------------------------------------------------------------
(* The disk *)

\* Nothing is written before the last check, which saw the disk the user
\* confirmed without a mounted partition; a disk that moved or was mounted
\* since is known.
DiskInv ==
    /\ pc \notin {"write", "verify", "done", "off"} => touched = {}
    /\ pc \in {"rehash", "write"} /\ ~moved => Reverify
    /\ pc \in {"rehash", "write"} /\ ~moved /\ ~remounted => ~SelMounted
    /\ OnlyConfirmedDisk

LEMMA NextDisk == DiskInv /\ [Next]_vars => DiskInv'
<1> SUFFICES ASSUME DiskInv, [Next]_vars PROVE DiskInv'
  OBVIOUS
<1> USE DEF DiskInv, OnlyConfirmedDisk
<1>1. CASE Begin
  BY <1>1 DEF Begin, Start, Goto
<1>2. CASE Build
  BY <1>2, BuildSteps DEF Build, flashing, Acquiring, Acquired
<1>3. ASSUME UNCHANGED <<disks, touched, moved, remounted, sel>>, pc \in Flashing,
             pc' \in {"rehash", "write"} => pc \in {"rehash", "write"},
             pc' \notin {"write", "verify", "done", "off"} => touched = {}
      PROVE  DiskInv'
  BY <1>3 DEF disks, Reverify, SelMounted, Candidates
<1>4. ASSUME NEW p \in Paths, Select(p) PROVE DiskInv'
  BY <1>4 DEF Select, Goto
<1>5. CASE CheckSelection \/ BeforeUnmount \/ AfterUnmount \/ Confirm \/ WriteDone
  BY <1>3, <1>5 DEF CheckSelection, BeforeUnmount, AfterUnmount, Confirm, WriteDone, Goto, Step,
                    flashing, Flashing, Choosing, Checked
<1>6. CASE SkipVerify \/ ReadSlice \/ VerifyEnds
  BY <1>3, <1>6 DEF SkipVerify, ReadSlice, VerifyEnds, Goto, Step, Flashing, Choosing, Checked
<1>7. CASE Unmount
  BY <1>7 DEF Unmount, flashing
<1>8. CASE Revalidate
  BY <1>8 DEF Revalidate, Step, disks, Reverify, SelMounted, Candidates
<1>9. CASE Rehash
  BY <1>3, <1>9 DEF Rehash, Step, flashing, Flashing, Checked
<1>10. ASSUME NEW kept, WriteSlice(kept) PROVE DiskInv'
  <2>1. /\ UNCHANGED <<pc, at, mounts, sel, moved, remounted>> /\ pc = "write"
        /\ touched' = touched \cup {at[sel.path]}
    BY <1>10 DEF WriteSlice
  <2>2. ~moved => at[sel.path] \in Usb \ System /\ Ident[at[sel.path]] = sel.ident
    BY <2>1 DEF Reverify, Candidates
  <2> QED
    BY <2>1, <2>2 DEF Reverify, SelMounted, Candidates
<1>11. CASE End
  BY <1>11 DEF End, flashing
<1>12. ASSUME NEW p \in Paths, NEW d \in Disks \cup {None}, Replug(p, d) PROVE DiskInv'
  BY <1>12 DEF Replug, Disturb, Choosing, Checked
<1>13. ASSUME NEW d \in Disks, NEW what \in {"part", "whole"}, Mount(d, what) PROVE DiskInv'
  <2>1. /\ UNCHANGED <<pc, at, sel, touched, moved>>
        /\ remounted' = (remounted \/ pc \in Checked)
    BY <1>13 DEF Mount
  <2> QED
    BY <2>1 DEF Reverify, Candidates, Checked
<1>14. CASE Rebuild
  BY <1>3, <1>14 DEF Rebuild, flashing, Flashing
<1>15. CASE UNCHANGED vars
  BY <1>15 DEF vars, flashing, disks, Reverify, SelMounted, Candidates
<1> QED
  BY <1>1, <1>2, <1>4, <1>5, <1>6, <1>7, <1>8, <1>9, <1>10, <1>11, <1>12, <1>13, <1>14, <1>15
     DEF Next

LEMMA InitDisk == Init => DiskInv
BY DEF Init, AcquireInit, DiskInv, OnlyConfirmedDisk

\* Only the disk that the user confirmed is ever written to, and never a disk
\* of the running system, for any disks and paths and however they move before
\* the last check.
THEOREM ConfirmedDiskOnly == Spec => []OnlyConfirmedDisk
<1>1. DiskInv => OnlyConfirmedDisk
  BY DEF DiskInv
<1> QED
  BY <1>1, InitDisk, NextDisk, PTL DEF Spec

\* No partition of the disk is mounted while it is written, unless it was
\* mounted after the last check.
THEOREM UnmountedWhenWritten == Spec => []WrittenUnmounted
<1>1. DiskInv => WrittenUnmounted
  BY DEF DiskInv, WrittenUnmounted
<1> QED
  BY <1>1, InitDisk, NextDisk, PTL DEF Spec

-----------------------------------------------------------------------------
(* Verification *)

Holds(n) == \A k \in 1..n : content[at[sel.path]][k] = built.build

\* The digest so far stands for the slices read so far.
VerifyInv ==
    /\ read \in 0..Slices
    /\ pc \notin {"verify", "done", "off"} => read = 0
    /\ pc = "verify" /\ ~moved /\ same => Holds(read)
    /\ VerifiedHolds

LEMMA NextVerify == VerifyInv /\ [Next]_vars => VerifyInv'
<1> SUFFICES ASSUME VerifyInv, [Next]_vars PROVE VerifyInv'
  OBVIOUS
<1> USE DEF VerifyInv, VerifiedHolds
<1>0. Slices \in Nat
  BY InstallerAssumption
<1>1. CASE Begin
  BY <1>0, <1>1 DEF Begin, Start, Goto
<1>2. CASE Build
  BY <1>2, BuildSteps DEF Build, flashing, Acquiring, Acquired
<1>3. ASSUME UNCHANGED read, pc \notin {"verify", "done", "off"}, pc' \notin {"verify", "done"}
      PROVE  VerifyInv'
  BY <1>3
<1>4. ASSUME NEW p \in Paths, Select(p) PROVE VerifyInv'
  BY <1>3, <1>4 DEF Select, Goto
<1>5. CASE \/ CheckSelection \/ BeforeUnmount \/ Unmount \/ AfterUnmount \/ Confirm \/ Revalidate
           \/ Rehash \/ \E kept \in {image.build, 0} : WriteSlice(kept)
  BY <1>3, <1>5 DEF CheckSelection, BeforeUnmount, Unmount, AfterUnmount, Confirm, Revalidate, Rehash,
                    WriteSlice, Goto, flashing
<1>6. CASE WriteDone
  <2>1. read' = 0 /\ pc' = "verify"
    BY <1>6 DEF WriteDone, Goto, flashing
  <2> QED
    BY <1>0, <2>1 DEF Holds
<1>7. CASE SkipVerify
  BY <1>7 DEF SkipVerify, Goto
<1>8. CASE ReadSlice
  <2>1. /\ pc = "verify" /\ read < Slices /\ read' = read + 1
        /\ UNCHANGED <<pc, sel, moved, at, content, built>>
        /\ same' => same /\ content[at[sel.path]][read + 1] = built.build
    BY <1>8 DEF ReadSlice, Step, disks, acquire
  <2>2. read' \in 0..Slices
    BY <1>0, <2>1
  <2>3. ~moved /\ same' => Holds(read)'
    <3> SUFFICES ASSUME ~moved, same', NEW k \in 1..read'
                 PROVE  content[at[sel.path]][k] = built.build
      BY <2>1 DEF Holds
    <3>1. k \in 1..read \/ k = read + 1
      BY <1>0, <2>1
    <3> QED
      BY <2>1, <3>1 DEF Holds
  <2> QED
    BY <2>1, <2>2, <2>3
<1>9. CASE VerifyEnds
  <2>1. pc = "verify" /\ read = Slices /\ UNCHANGED <<sel, read, same, moved, at, content, built>>
    BY <1>9 DEF VerifyEnds, Step, disks, acquire
  <2>2. CASE same
    <3>1. pc' = "done"
      BY <1>9, <2>2 DEF VerifyEnds
    <3> QED
      BY <2>1, <2>2, <3>1 DEF Holds
  <2>3. CASE ~same
    BY <1>9, <2>1, <2>3 DEF VerifyEnds
  <2> QED
    BY <2>2, <2>3
<1>10. CASE End
  BY <1>10 DEF End, flashing
<1>11. ASSUME NEW p \in Paths, NEW d \in Disks \cup {None}, Replug(p, d) PROVE VerifyInv'
  BY <1>11 DEF Replug, Disturb, Choosing, Checked
<1>12. ASSUME NEW d \in Disks, NEW what \in {"part", "whole"}, Mount(d, what) PROVE VerifyInv'
  BY <1>12 DEF Mount, Disturb, Choosing, Checked, acquire, Holds
<1>13. CASE Rebuild
  BY <1>13 DEF Rebuild, Choosing, Checked, flashing, disks, Holds
<1>14. CASE UNCHANGED vars
  BY <1>14 DEF vars, acquire, disks, flashing, Holds
<1> QED
  BY <1>1, <1>2, <1>4, <1>5, <1>6, <1>7, <1>8, <1>9, <1>10, <1>11, <1>12, <1>13, <1>14 DEF Next

\* A medium that was verified holds the image that was hashed when it was
\* built, for an image of any number of slices.
THEOREM VerifiedMeansHolds == Spec => []VerifiedHolds
<1>1. Init => VerifyInv
  BY InstallerAssumption DEF Init, AcquireInit, VerifyInv, VerifiedHolds
<1>2. VerifyInv => VerifiedHolds
  BY DEF VerifyInv
<1> QED
  BY <1>1, <1>2, NextVerify, PTL DEF Spec

-----------------------------------------------------------------------------
(* The converted model and the image *)

Contents == Seq(Revisions \cup {"bad"} \cup Locals)
Cached   == NrmOf["cache"]

\* A download that is all there, checked or not.
Complete(f) == \E r \in Revisions : f = Artifact(r)

\* The .nrm that would be used again for s is made from it, all of it unless
\* nrconvert is at work.  A file of the user's own does not change.
MadeFrom(s) ==
    nrm[NrmOf[s]].of # <<>> /\ (s = "cache" => "cache" \notin newer[NrmOf[s]]) =>
        /\ nrm[NrmOf[s]].of = Content(s)
        /\ nrm[NrmOf[s]].whole \/ (pc = "writing" /\ source = s)

AcquireType ==
    /\ pin \in Revisions /\ cache \in Contents /\ part \in Contents
    /\ nrm \in [Nrms -> [of : Contents, whole : BOOLEAN]]
    /\ newer \in [Nrms -> SUBSET {"cache", "part"}]
    /\ source \in Sources /\ cut \in BOOLEAN

\* A .nrm is trusted for its time, so a complete download must not be older
\* than the .nrm made before it: it is either checked in the run that finished
\* it, or the loss of that run is known.
TimesInv ==
    /\ pc # "off" /\ cache = Artifact(pin) => ~Complete(part)
    /\ nrm[Cached].of # <<>> /\ Complete(part) => "part" \in newer[Cached]
    /\ \A s \in Sources : MadeFrom(s)
    /\ pc = "writing" => nrm[Target].of = Content(source)
    /\ pc = "assemble" => nrm[Target].of = Content(source) /\ nrm[Target].whole
    /\ ImageHoldsChosen

CurrentInv ==
    /\ AcquireType /\ OnlyPinnedModel
    /\ pc \in Acquiring => built = NoImage
    /\ pc \in {"probe", "fetch", "check"} => cache # Artifact(pin)
    /\ NrmsDistinct /\ ~cut => TimesInv

\* An artifact has a first block.
LEMMA ArtifactThere == \A r \in Revisions : Artifact(r) # <<>>
<1> SUFFICES ASSUME NEW r \in Revisions PROVE Artifact(r) # <<>>
  OBVIOUS
<1>1. Length[r] \in Nat \ {0}
  BY AcquireAssumption
<1>2. 1 \in DOMAIN Artifact(r)
  BY <1>1 DEF Artifact
<1>3. 1 \notin DOMAIN <<>>
  OBVIOUS
<1> QED
  BY <1>2, <1>3

LEMMA EmptyIncomplete == ~Complete(<<>>)
BY ArtifactThere DEF Complete

LEMMA SourceTypes ==
    ASSUME AcquireType
    PROVE  /\ Cached \in Nrms /\ \A s \in Sources : NrmOf[s] \in Nrms /\ Content(s) \in Contents
           /\ Target \in Nrms
<1>1. \A s \in Sources : NrmOf[s] \in Nrms
  BY DEF Nrms
<1>2. \A s \in Sources : Content(s) \in Contents
  <2> SUFFICES ASSUME NEW s \in Sources PROVE Content(s) \in Contents
    OBVIOUS
  <2>1. CASE s = "cache"
    BY <2>1 DEF AcquireType, Content
  <2>2. CASE s # "cache"
    <3>1. s \in Locals
      BY <2>2 DEF Sources
    <3>2. <<s>> \in Contents
      BY <3>1 DEF Contents
    <3> QED
      BY <2>2, <3>2 DEF Content
  <2> QED
    BY <2>1, <2>2
<1> QED
  BY <1>1, <1>2 DEF Cached, Target, Sources, AcquireType

LEMMA InitCurrent == Init => CurrentInv
<1> SUFFICES ASSUME Init PROVE CurrentInv
  OBVIOUS
<1>1. AcquireType
  <2>1. <<>> \in Contents /\ NoNrm \in [of : Contents, whole : BOOLEAN]
    BY DEF Contents, NoNrm
  <2> QED
    BY <2>1 DEF Init, AcquireInit, AcquireType, Sources
<1>2. \A s \in Sources : nrm[NrmOf[s]].of = <<>>
  BY <1>1, SourceTypes DEF Init, AcquireInit, NoNrm
<1>3. TimesInv
  BY <1>2, EmptyIncomplete DEF Init, AcquireInit, TimesInv, MadeFrom, ImageHoldsChosen
<1> QED
  BY <1>1, <1>3 DEF Init, AcquireInit, CurrentInv, OnlyPinnedModel, Acquiring, Acquired

\* Steps that change no file.
LEMMA FrameCurrent ==
    ASSUME CurrentInv, OnlyPinnedModel', UNCHANGED <<files, built>>, pin' \in Revisions,
           source' \in Sources, cut' \in BOOLEAN, cut => cut',
           pc' \in Acquiring => built' = NoImage,
           built # NoImage => UNCHANGED source,
           pc' \in {"probe", "fetch", "check"} => cache # Artifact(pin'),
           pc' # "off" => \/ cut' \/ ~Complete(part)
                          \/ pc # "off" /\ UNCHANGED pin,
           pc = "writing" => cut' \/ (pc' = pc /\ UNCHANGED source),
           pc' = "writing" => pc = "writing",
           pc' = "assemble" => pc = "convert" /\ Reusable /\ UNCHANGED source
    PROVE  CurrentInv'
<1>1. UNCHANGED <<cache, part, nrm, newer>>
  BY DEF files
<1>2. AcquireType'
  BY <1>1 DEF CurrentInv, AcquireType
<1>3. \A s \in Sources : Content(s)' = Content(s)
  BY <1>1 DEF Content
<1>4. ASSUME NrmsDistinct, ~cut' PROVE TimesInv'
  <2>1. TimesInv
    BY <1>4 DEF CurrentInv
  <2>2. pc' # "off" /\ cache = Artifact(pin') => ~Complete(part)
    BY <1>4, <2>1 DEF TimesInv
  <2>3. \A s \in Sources : MadeFrom(s)'
    BY <1>1, <1>3, <1>4, <2>1 DEF TimesInv, MadeFrom
  <2>4. pc' = "writing" => (nrm[Target].of = Content(source))'
    BY <1>1, <1>4, <2>1 DEF TimesInv, Target, Content
  <2>5. pc' = "assemble" => (nrm[Target].of = Content(source) /\ nrm[Target].whole)'
    <3> SUFFICES ASSUME pc' = "assemble"
                 PROVE  nrm[Target].of = Content(source) /\ nrm[Target].whole
      BY <1>1 DEF Target, Content
    <3>1. pc = "convert" /\ nrm[NrmOf[source]].of # <<>> /\ source \notin newer[NrmOf[source]]
      BY DEF Reusable, Target
    <3>2. source \in Sources
      BY DEF CurrentInv, AcquireType
    <3> QED
      BY <2>1, <3>1, <3>2 DEF TimesInv, MadeFrom, Target
  <2>6. ImageHoldsChosen'
    BY <1>1, <2>1 DEF TimesInv, ImageHoldsChosen, Chosen, Content
  <2> QED
    BY <1>1, <2>1, <2>2, <2>3, <2>4, <2>5, <2>6 DEF TimesInv, Complete, Artifact, Cached
<1> QED
  BY <1>1, <1>2, <1>4 DEF CurrentInv, NrmsDistinct, Artifact

\* curl adds a block: whatever is complete now is newer than every .nrm.
LEMMA FetchCurrent ==
    ASSUME CurrentInv, OnlyPinnedModel', NEW block \in {pin, "bad"}, Fetch(block)
    PROVE  CurrentInv'
<1>1. /\ UNCHANGED <<pin, cache, nrm, pc, source, built, cut>> /\ pc = "fetch"
      /\ part' = Append(part, block) /\ newer' = [n \in Nrms |-> newer[n] \cup {"part"}]
  BY DEF Fetch, counters
<1>2. AcquireType'
  <2>1. part' \in Contents
    BY <1>1 DEF CurrentInv, AcquireType, Contents
  <2> QED
    BY <1>1, <2>1 DEF CurrentInv, AcquireType
<1>3. cache # Artifact(pin)
  BY <1>1 DEF CurrentInv
<1>4. ASSUME TimesInv PROVE TimesInv'
  <2>1. "part" \in newer'[Cached]
    BY <1>1, SourceTypes DEF CurrentInv
  <2>2. \A s \in Sources : MadeFrom(s)'
    BY <1>1, <1>4, SourceTypes DEF CurrentInv, TimesInv, MadeFrom, Content
  <2>3. ImageHoldsChosen'
    BY <1>1, <1>4 DEF TimesInv, ImageHoldsChosen, Chosen, Content
  <2> QED
    BY <1>1, <1>3, <2>1, <2>2, <2>3 DEF TimesInv, Artifact
<1> QED
  BY <1>1, <1>2, <1>3, <1>4 DEF CurrentInv, NrmsDistinct, Artifact, Acquiring

\* The .part file is moved into the cache, or removed.
LEMMA CheckCurrent ==
    ASSUME CurrentInv, OnlyPinnedModel', CheckPart
    PROVE  CurrentInv'
<1>1. /\ UNCHANGED <<pin, nrm, built, cut>> /\ pc = "check" /\ pc' \in {"inspect", "menu"}
      /\ part' = <<>> /\ built = NoImage /\ pin \in Revisions
      /\ source' \in Sources
  BY DEF CheckPart, MvPart, counters, CurrentInv, AcquireType, Acquiring, Sources
<1>2. ~Complete(part')
  BY <1>1, EmptyIncomplete
<1>3. AcquireType'
  <2>1. <<>> \in Contents /\ cache' \in Contents /\ newer' \in [Nrms -> SUBSET {"cache", "part"}]
    BY DEF CheckPart, MvPart, CurrentInv, AcquireType, Contents
  <2> QED
    BY <1>1, <2>1 DEF CurrentInv, AcquireType
<1>4. ASSUME TimesInv PROVE TimesInv'
  <2>1. ASSUME NEW s \in Sources PROVE MadeFrom(s)'
    <3>0. NrmOf[s] \in Nrms
      BY SourceTypes DEF CurrentInv
    <3>1. CASE s # "cache"
      <4>1. Content(s)' = Content(s)
        BY <3>1 DEF Content
      <4> QED
        BY <1>1, <1>4, <3>1, <4>1 DEF TimesInv, MadeFrom
    <3>2. CASE s = "cache" /\ part = Artifact(pin)
      <4>1. nrm[Cached].of # <<>> => "part" \in newer[Cached]
        BY <1>1, <1>4, <3>2 DEF TimesInv, Complete
      <4>2. "part" \in newer[Cached] => "cache" \in newer'[Cached]
        BY <3>0, <3>2 DEF CheckPart, MvPart, Cached
      <4> QED
        BY <1>1, <3>2, <4>1, <4>2 DEF MadeFrom, Cached
    <3>3. CASE s = "cache" /\ part # Artifact(pin)
      <4>1. UNCHANGED cache /\ ("cache" \in newer[NrmOf[s]] => "cache" \in newer'[NrmOf[s]])
        BY <3>0, <3>3 DEF CheckPart
      <4> QED
        BY <1>1, <1>4, <3>3, <4>1 DEF TimesInv, MadeFrom, Content
    <3> QED
      BY <3>1, <3>2, <3>3
  <2> QED
    BY <1>1, <1>2, <2>1 DEF TimesInv, Complete, Artifact, ImageHoldsChosen
<1> QED
  BY <1>1, <1>3, <1>4 DEF CurrentInv, NrmsDistinct

\* nrconvert opens its output, and fills it.
LEMMA WriteCurrent ==
    ASSUME CurrentInv, OnlyPinnedModel', WriteNrm
    PROVE  CurrentInv'
<1> DEFINE file == [of |-> Content(source), whole |-> FALSE]
<1>1. /\ UNCHANGED <<pin, cache, part, source, built, cut>>
      /\ pc = "converting" /\ pc' = "writing" /\ built = NoImage
      /\ nrm' = [nrm EXCEPT ![Target] = file] /\ newer' = [newer EXCEPT ![Target] = {}]
  BY DEF WriteNrm, Goto, counters, CurrentInv, Acquiring, Acquired
<1>2. /\ AcquireType /\ Target \in Nrms /\ Content(source) \in Contents /\ source \in Sources
      /\ \A s \in Sources : NrmOf[s] \in Nrms
  BY SourceTypes DEF CurrentInv, AcquireType
<1>3. AcquireType'
  BY <1>1, <1>2 DEF AcquireType
<1>4. Content(source)' = Content(source) /\ Target' = Target /\ nrm'[Target] = file
  BY <1>1, <1>2 DEF Content, Target, AcquireType
<1>5. ASSUME TimesInv, NrmsDistinct PROVE TimesInv'
  <2>1. ASSUME NEW s \in Sources PROVE MadeFrom(s)'
    <3>1. CASE s = source
      BY <1>1, <1>4, <3>1 DEF MadeFrom, Target
    <3>2. CASE s # source
      <4>1. NrmOf[s] # Target
        BY <1>2, <1>5, <3>2 DEF NrmsDistinct, Target
      <4>2. nrm'[NrmOf[s]] = nrm[NrmOf[s]] /\ newer'[NrmOf[s]] = newer[NrmOf[s]]
        BY <1>1, <1>2, <4>1 DEF AcquireType
      <4>3. Content(s)' = Content(s)
        BY <1>1 DEF Content
      <4> QED
        BY <1>1, <1>5, <4>2, <4>3 DEF TimesInv, MadeFrom
    <3> QED
      BY <3>1, <3>2
  <2>2. nrm'[Cached].of # <<>> /\ Complete(part) => "part" \in newer'[Cached]
    <3>1. CASE source = "cache"
      <4>1. cache = Artifact(pin)
        BY <1>1, <3>1 DEF CurrentInv, OnlyPinnedModel, Acquired
      <4> QED
        BY <1>1, <1>5, <4>1 DEF TimesInv
    <3>2. CASE source # "cache"
      <4>1. Cached # Target /\ Cached \in Nrms
        BY <1>2, <1>5, <3>2, SourceTypes DEF NrmsDistinct, Target, Cached, Sources
      <4>2. nrm'[Cached] = nrm[Cached] /\ newer'[Cached] = newer[Cached]
        BY <1>1, <1>2, <4>1 DEF AcquireType
      <4> QED
        BY <1>5, <4>2 DEF TimesInv
    <3> QED
      BY <3>1, <3>2
  <2> QED
    BY <1>1, <1>4, <1>5, <2>1, <2>2 DEF TimesInv, Complete, Artifact, Cached, ImageHoldsChosen
<1> QED
  BY <1>1, <1>3, <1>5 DEF CurrentInv, NrmsDistinct

LEMMA ConvertedCurrent ==
    ASSUME CurrentInv, OnlyPinnedModel', Converted \/ ConvertFails
    PROVE  CurrentInv'
<1> DEFINE file == IF pc' = "off" THEN NoNrm ELSE [nrm[Target] EXCEPT !.whole = TRUE]
<1>1. /\ UNCHANGED <<pin, cache, part, newer, source, built, cut>>
      /\ pc \in {"converting", "writing"} /\ pc' \in {"off", "assemble"} /\ built = NoImage
      /\ pc' = "assemble" => pc = "writing"
      /\ nrm' = [nrm EXCEPT ![Target] = file]
  BY DEF Converted, ConvertFails, Goto, counters, CurrentInv, Acquiring, Acquired
<1>2. /\ AcquireType /\ Target \in Nrms /\ source \in Sources
      /\ \A s \in Sources : NrmOf[s] \in Nrms
      /\ nrm[Target] \in [of : Contents, whole : BOOLEAN]
  BY SourceTypes DEF CurrentInv, AcquireType
<1>3. /\ file \in [of : Contents, whole : BOOLEAN]
      /\ pc' = "off" => file.of = <<>>
      /\ pc' # "off" => file.of = nrm[Target].of /\ file.whole
  <2>1. <<>> \in Contents
    BY DEF Contents
  <2> QED
    BY <1>2, <2>1 DEF NoNrm
<1> HIDE DEF file
<1>4. AcquireType'
  BY <1>1, <1>2, <1>3 DEF AcquireType
<1>5. Content(source)' = Content(source) /\ Target' = Target /\ nrm'[Target] = file
  BY <1>1, <1>2 DEF Content, Target, AcquireType
<1>6. ASSUME TimesInv, NrmsDistinct PROVE TimesInv'
  <2>1. ASSUME NEW s \in Sources PROVE MadeFrom(s)'
    <3>1. CASE s = source
      BY <1>1, <1>3, <1>5, <1>6, <3>1 DEF TimesInv, MadeFrom, Target
    <3>2. CASE s # source
      <4>1. NrmOf[s] # Target
        BY <1>2, <1>6, <3>2 DEF NrmsDistinct, Target
      <4>2. nrm'[NrmOf[s]] = nrm[NrmOf[s]]
        BY <1>1, <1>2, <4>1 DEF AcquireType
      <4>3. Content(s)' = Content(s)
        BY <1>1 DEF Content
      <4> QED
        BY <1>1, <1>6, <3>2, <4>2, <4>3 DEF TimesInv, MadeFrom
    <3> QED
      BY <3>1, <3>2
  <2>2. nrm'[Cached].of # <<>> => nrm[Cached].of # <<>>
    <3>1. Cached \in Nrms
      BY <1>2, SourceTypes
    <3> QED
      BY <1>1, <1>2, <1>3, <3>1 DEF AcquireType
  <2>3. pc' = "assemble" => (nrm[Target].of = Content(source) /\ nrm[Target].whole)'
    BY <1>1, <1>3, <1>5, <1>6 DEF TimesInv
  <2> QED
    BY <1>1, <1>6, <2>1, <2>2, <2>3 DEF TimesInv, Complete, Artifact, Cached, ImageHoldsChosen
<1> QED
  BY <1>1, <1>4, <1>6 DEF CurrentInv, NrmsDistinct, Acquiring, Acquired

LEMMA AssembleCurrent ==
    ASSUME CurrentInv, OnlyPinnedModel', Assemble
    PROVE  CurrentInv'
<1>1. /\ UNCHANGED <<pin, cache, part, nrm, newer, source, cut>>
      /\ pc = "assemble" /\ pc' = "media"
      /\ built' = [of |-> nrm[Target].of, whole |-> nrm[Target].whole, build |-> image.build + 1]
  BY DEF Assemble, Goto, counters, files
<1>2. AcquireType'
  BY <1>1 DEF CurrentInv, AcquireType
<1>3. ASSUME TimesInv PROVE TimesInv'
  <2>1. Chosen'
    BY <1>1, <1>3 DEF TimesInv, Chosen, Content
  <2>2. \A s \in Sources : MadeFrom(s)'
    BY <1>1, <1>3 DEF TimesInv, MadeFrom, Content
  <2> QED
    BY <1>1, <1>3, <2>1, <2>2 DEF TimesInv, Complete, Artifact, Cached, ImageHoldsChosen
<1> QED
  BY <1>1, <1>2, <1>3 DEF CurrentInv, NrmsDistinct, Acquiring, Acquired

LEMMA NextCurrent ==
    ASSUME CurrentInv, OnlyPinnedModel', [Next]_vars
    PROVE  CurrentInv'
<1>0. AcquireType /\ pin \in Revisions /\ source \in Sources /\ cut \in BOOLEAN
  BY DEF CurrentInv, AcquireType
<1>1. CASE Begin
  <2>1. /\ UNCHANGED <<pin, files, source>> /\ pc = "off" /\ pc' = "menu" /\ built' = NoImage
        /\ cut' = (cut \/ Complete(part))
    BY <1>1 DEF Begin, Start, Goto, Complete
  <2>2. AcquireType'
    BY <1>0, <2>1 DEF AcquireType, files
  <2>3. ASSUME TimesInv, ~cut' PROVE TimesInv'
    <3>1. \A s \in Sources : MadeFrom(s)'
      BY <2>1, <2>3 DEF TimesInv, MadeFrom, Content, files
    <3> QED
      BY <2>1, <2>3, <3>1 DEF TimesInv, files, Complete, Artifact, Cached, ImageHoldsChosen
  <2>4. cut => cut'
    BY <2>1
  <2> QED
    BY <2>1, <2>2, <2>3, <2>4 DEF CurrentInv, NrmsDistinct
<1>2. CASE Build
  <2>1. CASE \E r \in Revisions : Repin(r)
    BY <1>0, <2>1, FrameCurrent DEF Repin, Acquiring, Acquired, CurrentInv
  <2>2. ASSUME NEW f \in Locals, PickLocal(f) PROVE CurrentInv'
    BY <1>0, <2>2, FrameCurrent DEF PickLocal, Goto, Acquiring, Acquired, CurrentInv, Sources, counters
  <2>3. CASE CheckCache
    BY <1>0, <2>3, FrameCurrent DEF CheckCache, Acquiring, Acquired, CurrentInv, Sources, counters
  <2>4. CASE Probe \/ Fetched \/ FetchFails \/ Inspect
    BY <1>0, <2>4, FrameCurrent DEF Probe, Fetched, FetchFails, Inspect, Goto, Acquiring, Acquired,
                                    CurrentInv, counters
  <2>5. CASE Convert
    BY <1>0, <2>5, FrameCurrent DEF Convert, Acquiring, Acquired, CurrentInv, counters
  <2>6. CASE \E block \in {pin, "bad"} : Fetch(block)
    BY <2>6, FetchCurrent
  <2>7. CASE CheckPart
    BY <2>7, CheckCurrent
  <2>8. CASE WriteNrm
    BY <2>8, WriteCurrent
  <2>9. CASE Converted \/ ConvertFails
    BY <2>9, ConvertedCurrent
  <2>10. CASE Assemble
    BY <2>10, AssembleCurrent
  <2> QED
    BY <1>2, <2>1, <2>2, <2>3, <2>4, <2>5, <2>6, <2>7, <2>8, <2>9, <2>10 DEF Build, AcquireNext
<1>3. CASE Next /\ ~Begin /\ ~Build
  <2>1. cut' \in BOOLEAN
    <3>1. UNCHANGED counters \/ cut' = (cut \/ pc = "writing")
      BY <1>3 DEF Next, Select, CheckSelection, BeforeUnmount, Unmount, AfterUnmount, Confirm,
                  Revalidate, Rehash, WriteSlice, WriteDone, SkipVerify, ReadSlice, VerifyEnds,
                  End, Replug, Mount, Rebuild, Step, acquire
    <3> QED
      BY <1>0, <3>1 DEF counters
  <2>2. /\ UNCHANGED <<pin, files, source, built>>
        /\ pc' \in Flashing \cup {"off"} /\ (pc' # "off" => pc \in Flashing)
        /\ cut \/ pc = "writing" => cut'
    BY <1>3, FlashSteps
  <2> QED
    BY <1>0, <2>1, <2>2, FrameCurrent DEF Flashing, Choosing, Checked, Acquiring, Acquired
<1>4. CASE UNCHANGED vars
  <2>1. UNCHANGED <<pin, cache, part, nrm, newer, source, built, cut, pc>>
    BY <1>4 DEF vars, acquire, files, counters
  <2>2. AcquireType'
    BY <1>0, <2>1 DEF AcquireType
  <2>3. ASSUME TimesInv PROVE TimesInv'
    <3>1. \A s \in Sources : MadeFrom(s)'
      BY <2>1, <2>3 DEF TimesInv, MadeFrom, Content
    <3> QED
      BY <2>1, <2>3, <3>1 DEF TimesInv, Complete, Artifact, Cached, Target, Content,
                              ImageHoldsChosen, Chosen
  <2> QED
    BY <2>1, <2>2, <2>3 DEF CurrentInv, NrmsDistinct, Artifact
<1> QED
  BY <1>1, <1>2, <1>3, <1>4

\* The image a run offers for flashing is made from all of the model the user
\* chose, when no earlier run was cut off at one of the two places ImageCurrent
\* names and no two sources share a .nrm: over any number of runs, pins,
\* downloads that broke off, conversions that failed and images rebuilt.
THEOREM ImageIsCurrent == Spec => []ImageCurrent
<1>1. CurrentInv /\ OnlyPinnedModel' /\ [Next]_vars => CurrentInv'
  BY NextCurrent
<1>2. CurrentInv => ImageCurrent
  BY DEF CurrentInv, ImageCurrent, TimesInv
<1> QED
  BY <1>1, <1>2, InitCurrent, PinnedModelOnly, PTL DEF Spec

-----------------------------------------------------------------------------
(* The image builder: types *)

Names  == Archs \cup {"pi5"}
Efis   == ((Archs \cup {"aarch64"}) \X Modes \X Nat) \cup {Torn, Missing}
Images == [there : {TRUE}, table : BOOLEAN, fs : BOOLEAN, efi : Efis,
           model : Versions \cup {Missing, Torn}, from : ModelPaths \cup {Missing}]

Commands == [name : {"image", "run", "pi-image"}, arch : Archs \cup {"aarch64"},
             model : ModelPaths, mode : Modes, img : Names, sound : BOOLEAN]

\* build and build_pi, from the truncated file to the finished volume.
Building == {"table", "format", "efi", "efi2", "model", "model2", "unmount", "stamp"}
Steps    == Building \cup {"decide", "update", "refresh", "create", "done"}

\* The Pi's image is a file of its own.
CommandOK ==
    /\ cmd \in Commands
    /\ IF cmd.name = "pi-image" THEN cmd.img = "pi5" ELSE cmd.arch \in Archs /\ cmd.img = cmd.arch

ImageType ==
    /\ code \in Nat /\ models \in [ModelPaths -> Versions \cup {Missing}]
    /\ imgs \in [Names -> Images \cup {NoFile}]
    /\ xpc \in Steps \cup {"off"}
    /\ xpc # "off" => CommandOK
    /\ sidecar = [a \in Archs |-> sidecar[a]]
    /\ xpc \in Building \cup {"update", "refresh", "done"} => imgs[cmd.img] \in Images

-----------------------------------------------------------------------------
(* The image builder: the inductive invariant *)

\* The image has the model the command was given, as far as its sidecar tells.
Right(i) == \/ i.model = Model
            \/ /\ cmd.name = "run" /\ i.from = cmd.model
               /\ {i.model, Model} \subseteq Versions
               /\ SizeOf[i.model] = SizeOf[Model]

\* A stamp that could have been written for the image i.
Fits(i, stamp) ==
    \E m \in Modes : \/ i.model = Missing /\ stamp = <<m>>
                     \/ i.model \in Versions /\ stamp = <<i.from, SizeOf[i.model], m>>

\* A sidecar is that of the image beside it, unless a build began since.
StampInv ==
    \A a \in Archs : a \notin cutoff /\ imgs[a].there =>
                         sidecar[a] = NoStamp \/ Fits(imgs[a], sidecar[a])

\* What is in the image after each step of a command.
PhaseInv ==
    LET i == imgs[cmd.img] IN
    /\ xpc = "decide" => (cmd.sound /\ cmd.name = "run" => cmd.arch \notin cutoff)
    /\ xpc \in {"update", "refresh"} => cmd.name = "run"
    /\ xpc \in {"update", "refresh", "done"} => (cmd.sound => Right(i))
    /\ xpc \in Building => cmd.img \in cutoff
    /\ xpc \in {"table", "format", "efi", "efi2", "model"} => i.model = Missing
    /\ xpc \in {"refresh", "done"} \cup (Building \ {"table"}) => i.table
    /\ xpc \in {"refresh", "done"} \cup (Building \ {"table", "format"}) => i.fs
    /\ xpc \in {"model", "model2", "unmount", "stamp", "done"} => i.efi = Efi
    /\ xpc \in {"model", "model2"} => Model # Missing
    /\ xpc = "model2" => i.from = cmd.model
    /\ xpc \in {"unmount", "stamp"} => i.model = Model /\ (Model # Missing => i.from = cmd.model)
    /\ xpc = "stamp" => cmd.name # "pi-image"

ImageInv == ImageType /\ StampInv /\ PhaseInv

LEMMA InitImage == ImageInit => ImageInv
<1> SUFFICES ASSUME ImageInit PROVE ImageInv
  OBVIOUS
<1>1. ImageType
  BY DEF ImageInit, ImageType, Names, Building
<1>2. StampInv
  BY DEF ImageInit, StampInv
<1>3. PhaseInv
  BY DEF ImageInit, PhaseInv, Building
<1> QED
  BY <1>1, <1>2, <1>3 DEF ImageInv

\* What the sidecar stands for when it says what the command wants.
LEMMA StampTells ==
    ASSUME ImageInv, xpc = "decide", cmd.name = "run", cmd.sound,
           sidecar[cmd.arch] = Stamp, imgs[cmd.img].there
    PROVE  Right(imgs[cmd.img])
<1>1. cmd.arch \in Archs /\ cmd.img = cmd.arch /\ cmd.arch \notin cutoff /\ cmd.mode \in Modes
  BY DEF ImageInv, ImageType, CommandOK, Commands, PhaseInv
<1>2. Stamp # NoStamp
  <2>1. cmd.mode # "none"
    BY <1>1, ImageAssumption
  <2> QED
    BY <2>1 DEF Stamp, NoStamp
<1>3. Fits(imgs[cmd.img], Stamp)
  BY <1>1, <1>2 DEF ImageInv, StampInv
<1>4. PICK m \in Modes :
         \/ imgs[cmd.img].model = Missing /\ Stamp = <<m>>
         \/ imgs[cmd.img].model \in Versions
            /\ Stamp = <<imgs[cmd.img].from, SizeOf[imgs[cmd.img].model], m>>
  BY <1>3 DEF Fits
<1>5. CASE Model = Missing
  BY <1>4, <1>5 DEF Stamp, Right
<1>6. CASE Model # Missing
  <2>1. Model \in Versions
    BY <1>6 DEF Model, ImageInv, ImageType, CommandOK, Commands
  <2>2. /\ imgs[cmd.img].model \in Versions
        /\ <<cmd.model, SizeOf[Model], cmd.mode>>
             = <<imgs[cmd.img].from, SizeOf[imgs[cmd.img].model], m>>
    BY <1>4, <1>6 DEF Stamp
  <2> QED
    BY <2>1, <2>2 DEF Right
<1> QED
  BY <1>5, <1>6

-----------------------------------------------------------------------------
(* The image builder: steps *)

\* What a step writes into an image leaves the other images, and the stamp of
\* one that is being built, alone; and a new EFI binary fits any stamp.
LEMMA PutStamps ==
    ASSUME ImageInv, CommandOK, NEW x, Put(x), UNCHANGED sidecar,
           cutoff \subseteq cutoff',
           \/ cmd.img \in cutoff'
           \/ x.model = imgs[cmd.img].model /\ x.from = imgs[cmd.img].from /\ imgs[cmd.img].there
    PROVE  StampInv'
<1> SUFFICES ASSUME NEW a \in Archs, a \notin cutoff', imgs'[a].there
             PROVE  sidecar[a] = NoStamp \/ Fits(imgs'[a], sidecar[a])
  BY DEF StampInv, Fits
<1>0. cmd.img \in Names /\ DOMAIN imgs = Names /\ a \in Names /\ a \notin cutoff
  BY DEF CommandOK, Commands, ImageInv, ImageType, Names
<1>1. CASE a = cmd.img
  <2>1. imgs'[a] = x /\ x.model = imgs[a].model /\ x.from = imgs[a].from /\ imgs[a].there
    BY <1>0, <1>1 DEF Put
  <2>2. sidecar[a] = NoStamp \/ Fits(imgs[a], sidecar[a])
    BY <1>0, <2>1 DEF ImageInv, StampInv
  <2> QED
    BY <2>1, <2>2 DEF Fits
<1>2. CASE a # cmd.img
  <2>1. imgs'[a] = imgs[a]
    BY <1>0, <1>2 DEF Put
  <2> QED
    BY <1>0, <2>1 DEF ImageInv, StampInv
<1> QED
  BY <1>1, <1>2

\* The same for the types.
LEMMA PutTypes ==
    ASSUME ImageType, CommandOK, NEW x \in Images, Put(x), UNCHANGED <<code, models, sidecar, cmd>>,
           xpc' \in Steps
    PROVE  ImageType' /\ imgs'[cmd.img] = x
<1>1. imgs' \in [Names -> Images \cup {NoFile}] /\ imgs'[cmd.img] = x
  BY DEF Put, ImageType, CommandOK, Commands
<1> QED
  BY <1>1 DEF ImageType, CommandOK, Steps, Building

LEMMA EfiType == ASSUME ImageType, CommandOK PROVE Efi \in Efis
BY DEF ImageType, CommandOK, Commands, Efi, Efis

\* The steps of update_efi.
LEMMA UpdateStep ==
    ASSUME ImageInv, OpenImage \/ Refresh
    PROVE  ImageInv'
<1> DEFINE i == imgs[cmd.img]
<1>0. /\ CommandOK /\ i \in Images /\ cmd.name = "run"
      /\ ImageType /\ UNCHANGED <<code, models, sidecar, cmd, cutoff>>
  BY DEF ImageInv, ImageType, PhaseInv, OpenImage, Refresh, Steps, Building
<1>1. Model' = Model /\ Efi' = Efi
  BY <1>0 DEF Model, Efi
<1>2. CASE OpenImage /\ xpc' = "refresh"
  <2> DEFINE x == [i EXCEPT !.efi = Torn]
  <2>1. i.table /\ i.fs /\ Put(x) /\ (cmd.sound => Right(i))
    BY <1>2 DEF OpenImage, ImageInv, PhaseInv
  <2>2. x \in Images /\ x.model = i.model /\ x.from = i.from /\ i.there
        /\ x.table = i.table /\ x.fs = i.fs
    BY <1>0 DEF Images, Efis
  <2>3. ImageType' /\ imgs'[cmd.img] = x
    BY <1>0, <1>2, <2>1, <2>2, PutTypes DEF Steps
  <2>4. StampInv'
    BY <1>0, <2>1, <2>2, PutStamps
  <2>5. PhaseInv'
    BY <1>0, <1>1, <1>2, <2>1, <2>2, <2>3 DEF PhaseInv, Building, Right
  <2> QED
    BY <2>3, <2>4, <2>5 DEF ImageInv
<1>3. CASE OpenImage /\ xpc' # "refresh"
  <2>1. xpc' = "create" /\ UNCHANGED imgs
    BY <1>3 DEF OpenImage
  <2> QED
    BY <1>0, <2>1 DEF ImageInv, ImageType, CommandOK, StampInv, PhaseInv, Building, Steps, Fits
<1>4. CASE Refresh
  <2> DEFINE x == [i EXCEPT !.efi = Efi]
  <2>1. i.table /\ i.fs /\ Put(x) /\ (cmd.sound => Right(i)) /\ xpc' \in {"done", "create"}
    BY <1>4 DEF Refresh, ImageInv, PhaseInv
  <2>2. x \in Images /\ x.model = i.model /\ x.from = i.from /\ i.there
        /\ x.table = i.table /\ x.fs = i.fs /\ x.efi = Efi
    BY <1>0, EfiType DEF Images
  <2>3. ImageType' /\ imgs'[cmd.img] = x
    BY <1>0, <2>1, <2>2, PutTypes DEF Steps
  <2>4. StampInv'
    BY <1>0, <2>1, <2>2, PutStamps
  <2>5. PhaseInv'
    BY <1>0, <1>1, <2>1, <2>2, <2>3 DEF PhaseInv, Building, Right
  <2> QED
    BY <2>3, <2>4, <2>5 DEF ImageInv
<1> QED
  BY <1>2, <1>3, <1>4

\* The steps of build and build_pi.
LEMMA BuildStep ==
    ASSUME ImageInv,
           Create \/ WriteTable \/ FormatVolume \/ BeginEfi \/ EndEfi \/ BeginModel \/ EndModel
    PROVE  ImageInv'
<1> DEFINE i == imgs[cmd.img]
<1>0. /\ CommandOK /\ ImageType /\ UNCHANGED <<code, models, sidecar, cmd>>
      /\ cutoff' = cutoff \cup {cmd.img}
      /\ Model \in Versions \cup {Missing} /\ cmd.model \in ModelPaths
  <2>1. CommandOK
    BY DEF ImageInv, ImageType, Create, WriteTable, FormatVolume, BeginEfi, EndEfi, BeginModel, EndModel
  <2>2. cutoff' = cutoff \cup {cmd.img}
    BY DEF ImageInv, PhaseInv, Building, Create, WriteTable, FormatVolume, BeginEfi, EndEfi,
           BeginModel, EndModel
  <2>3. UNCHANGED <<code, models, sidecar, cmd>>
    BY DEF Create, WriteTable, FormatVolume, BeginEfi, EndEfi, BeginModel, EndModel
  <2>4. Model \in Versions \cup {Missing} /\ cmd.model \in ModelPaths
    BY <2>1 DEF ImageInv, ImageType, Model, CommandOK, Commands
  <2> QED
    BY <2>1, <2>2, <2>3, <2>4 DEF ImageInv
<1>1. Model' = Model /\ Efi' = Efi /\ Efi \in Efis
  BY <1>0, EfiType DEF Model, Efi
<1>2. ASSUME NEW x \in Images, Put(x), xpc' \in Steps
      PROVE  ImageType' /\ StampInv' /\ imgs'[cmd.img] = x
  <2>1. ImageType' /\ imgs'[cmd.img] = x
    BY <1>0, <1>2, PutTypes
  <2>2. StampInv'
    BY <1>0, <1>2, PutStamps
  <2> QED
    BY <2>1, <2>2
<1>3. CASE Create
  <2>1. Blank \in Images /\ Blank.model = Missing
    BY DEF Blank, Images, Efis
  <2>2. xpc' = "table" /\ Put(Blank)
    BY <1>3 DEF Create
  <2>3. ImageType' /\ StampInv' /\ imgs'[cmd.img] = Blank
    BY <1>2, <2>1, <2>2 DEF Steps, Building
  <2>4. PhaseInv'
    BY <1>0, <2>1, <2>2, <2>3 DEF PhaseInv, Building
  <2> QED
    BY <2>3, <2>4 DEF ImageInv
<1>4. ASSUME ~Create PROVE i \in Images /\ xpc \in Building
  BY <1>4 DEF ImageInv, ImageType, Building, WriteTable, FormatVolume, BeginEfi, EndEfi, BeginModel,
              EndModel
<1>5. CASE WriteTable
  <2> DEFINE x == [i EXCEPT !.table = TRUE]
  <2>1. xpc' = "format" /\ Put(x) /\ i.model = Missing
    BY <1>5 DEF WriteTable, ImageInv, PhaseInv
  <2>2. x \in Images /\ x.table /\ x.model = i.model
    BY <1>4, <1>5 DEF Images, WriteTable, Create
  <2>3. ImageType' /\ StampInv' /\ imgs'[cmd.img] = x
    BY <1>2, <2>1, <2>2 DEF Steps, Building
  <2>4. PhaseInv'
    BY <1>0, <2>1, <2>2, <2>3 DEF PhaseInv, Building
  <2> QED
    BY <2>3, <2>4 DEF ImageInv
<1>6. CASE FormatVolume
  <2> DEFINE x == [i EXCEPT !.fs = TRUE]
  <2>1. xpc' = "efi" /\ Put(x) /\ i.model = Missing /\ i.table
    BY <1>6 DEF FormatVolume, ImageInv, PhaseInv, Building
  <2>2. x \in Images /\ x.table = i.table /\ x.fs /\ x.model = i.model
    BY <1>4, <1>6 DEF Images, FormatVolume, Create
  <2>3. ImageType' /\ StampInv' /\ imgs'[cmd.img] = x
    BY <1>2, <2>1, <2>2 DEF Steps, Building
  <2>4. PhaseInv'
    BY <1>0, <2>1, <2>2, <2>3 DEF PhaseInv, Building
  <2> QED
    BY <2>3, <2>4 DEF ImageInv
<1>7. CASE BeginEfi
  <2> DEFINE x == [i EXCEPT !.efi = Torn]
  <2>1. xpc' = "efi2" /\ Put(x) /\ i.model = Missing /\ i.table /\ i.fs
    BY <1>7 DEF BeginEfi, ImageInv, PhaseInv, Building
  <2>2. x \in Images /\ x.table = i.table /\ x.fs = i.fs /\ x.model = i.model
    BY <1>4, <1>7 DEF Images, Efis, BeginEfi, Create
  <2>3. ImageType' /\ StampInv' /\ imgs'[cmd.img] = x
    BY <1>2, <2>1, <2>2 DEF Steps, Building
  <2>4. PhaseInv'
    BY <1>0, <2>1, <2>2, <2>3 DEF PhaseInv, Building
  <2> QED
    BY <2>3, <2>4 DEF ImageInv
<1>8. CASE EndEfi
  <2> DEFINE x == [i EXCEPT !.efi = Efi]
  <2>1. /\ xpc' = IF Model = Missing THEN "unmount" ELSE "model"
        /\ Put(x) /\ i.model = Missing /\ i.table /\ i.fs
    BY <1>8 DEF EndEfi, ImageInv, PhaseInv, Building
  <2>2. x \in Images /\ x.table = i.table /\ x.fs = i.fs /\ x.model = i.model /\ x.efi = Efi
    BY <1>1, <1>4, <1>8 DEF Images, EndEfi, Create
  <2>3. ImageType' /\ StampInv' /\ imgs'[cmd.img] = x
    BY <1>2, <2>1, <2>2 DEF Steps, Building
  <2>4. PhaseInv'
    BY <1>0, <1>1, <2>1, <2>2, <2>3 DEF PhaseInv, Building
  <2> QED
    BY <2>3, <2>4 DEF ImageInv
<1>9. CASE BeginModel
  <2> DEFINE x == [i EXCEPT !.model = Torn, !.from = cmd.model]
  <2>1. xpc' = "model2" /\ Put(x) /\ i.table /\ i.fs /\ i.efi = Efi /\ Model # Missing
    BY <1>9 DEF BeginModel, ImageInv, PhaseInv, Building
  <2>2. /\ x \in Images /\ x.table = i.table /\ x.fs = i.fs /\ x.efi = i.efi
        /\ x.from = cmd.model
    BY <1>0, <1>4, <1>9 DEF Images, BeginModel, Create
  <2>3. ImageType' /\ StampInv' /\ imgs'[cmd.img] = x
    BY <1>2, <2>1, <2>2 DEF Steps, Building
  <2>4. PhaseInv'
    BY <1>0, <1>1, <2>1, <2>2, <2>3 DEF PhaseInv, Building
  <2> QED
    BY <2>3, <2>4 DEF ImageInv
<1>10. CASE EndModel
  <2> DEFINE x == [i EXCEPT !.model = Model]
  <2>1. xpc' = "unmount" /\ Put(x) /\ i.table /\ i.fs /\ i.efi = Efi /\ i.from = cmd.model
    BY <1>10 DEF EndModel, ImageInv, PhaseInv, Building
  <2>2. /\ x \in Images /\ x.table = i.table /\ x.fs = i.fs /\ x.efi = i.efi
        /\ x.from = i.from /\ x.model = Model
    BY <1>0, <1>4, <1>10 DEF Images, EndModel, Create
  <2>3. ImageType' /\ StampInv' /\ imgs'[cmd.img] = x
    BY <1>2, <2>1, <2>2 DEF Steps, Building
  <2>4. PhaseInv'
    BY <1>0, <1>1, <2>1, <2>2, <2>3 DEF PhaseInv, Building
  <2> QED
    BY <2>3, <2>4 DEF ImageInv
<1> QED
  BY <1>3, <1>5, <1>6, <1>7, <1>8, <1>9, <1>10

\* The sidecar written after a build is that of the image just built.
LEMMA StampStep ==
    ASSUME ImageInv, WriteStamp
    PROVE  ImageInv'
<1> DEFINE i == imgs[cmd.img]
<1>0. /\ CommandOK /\ i \in Images /\ cmd.img = cmd.arch /\ cmd.arch \in Archs
      /\ UNCHANGED <<code, models, imgs, cmd>> /\ xpc' = "done" /\ cmd.mode \in Modes
      /\ i.table /\ i.fs /\ i.efi = Efi /\ i.model = Model
      /\ Model # Missing => i.from = cmd.model
  BY DEF WriteStamp, ImageInv, ImageType, PhaseInv, Building, Steps, CommandOK, Commands
<1>1. Model' = Model /\ Efi' = Efi /\ Model \in Versions \cup {Missing}
  BY <1>0 DEF Model, Efi, ImageInv, ImageType, CommandOK, Commands
<1>2. sidecar' = [a \in Archs |-> sidecar'[a]]
  BY DEF WriteStamp, ImageInv, ImageType
<1>3. ImageType'
  BY <1>0, <1>2 DEF ImageInv, ImageType, CommandOK, Steps
<1>4. PhaseInv'
  BY <1>0, <1>1 DEF PhaseInv, Building, Right
<1>5. ASSUME NEW a \in Archs, a \notin cutoff', imgs[a].there
      PROVE  sidecar'[a] = NoStamp \/ Fits(imgs[a], sidecar'[a])
  <2>1. CASE a = cmd.arch /\ sidecar' # sidecar
    <3>1. sidecar'[a] = Stamp
      BY <1>0, <2>1 DEF WriteStamp, ImageInv, ImageType
    <3> QED
      BY <1>0, <1>1, <2>1, <3>1 DEF Fits, Stamp
  <2>2. CASE a = cmd.arch /\ sidecar' = sidecar
    <3>1. CASE UNCHANGED cutoff
      BY <1>0, <1>5, <2>2, <3>1 DEF ImageInv, PhaseInv, WriteStamp, Building
    <3>2. CASE sidecar' = [sidecar EXCEPT ![cmd.arch] = Stamp]
      <4>1. sidecar'[a] = Stamp
        BY <1>0, <2>2, <3>2 DEF ImageInv, ImageType
      <4> QED
        BY <1>0, <1>1, <2>2, <4>1 DEF Fits, Stamp
    <3> QED
      BY <3>1, <3>2 DEF WriteStamp
  <2>3. CASE a # cmd.arch
    <3>1. sidecar'[a] = sidecar[a] /\ a \notin cutoff
      BY <1>0, <1>5, <2>3 DEF WriteStamp, ImageInv, ImageType
    <3> QED
      BY <1>5, <3>1 DEF ImageInv, StampInv
  <2> QED
    BY <2>1, <2>2, <2>3
<1>6. StampInv'
  BY <1>0, <1>5 DEF StampInv, Fits
<1> QED
  BY <1>3, <1>4, <1>6 DEF ImageInv

\* A command is given.
LEMMA CommandStep ==
    ASSUME ImageInv, NEW name \in {"image", "run", "pi-image"}, NEW arch \in Archs \cup {"aarch64"},
           NEW model \in ModelPaths, NEW mode \in Modes, Xtask(name, arch, model, mode),
           name # "pi-image" => arch \in Archs
    PROVE  ImageInv'
<1>1. /\ UNCHANGED <<code, models, imgs, sidecar, cutoff>> /\ xpc' = "decide"
      /\ cmd' = [name |-> name, arch |-> arch, model |-> model, mode |-> mode,
                 img |-> IF name = "pi-image" THEN "pi5" ELSE arch,
                 sound |-> name # "run" \/ arch \notin cutoff]
  BY DEF Xtask
<1>2. CommandOK'
  <2>1. cmd' \in Commands
    BY <1>1 DEF Commands, Names
  <2> QED
    BY <1>1, <2>1 DEF CommandOK
<1>3. ImageType'
  BY <1>1, <1>2 DEF ImageInv, ImageType, Steps, Building
<1>4. PhaseInv'
  BY <1>1 DEF PhaseInv, Building
<1>5. StampInv'
  BY <1>1 DEF ImageInv, StampInv, Fits
<1> QED
  BY <1>3, <1>4, <1>5 DEF ImageInv

\* The edits a developer makes between commands.
LEMMA EditStep ==
    ASSUME ImageInv,
           \/ EditCode \/ CleanTarget
           \/ \E p \in ModelPaths, v \in Versions \cup {Missing} : ReplaceModel(p, v)
           \/ \E n \in DOMAIN imgs : RemoveImage(n)
    PROVE  ImageInv'
<1>0. xpc = "off" /\ xpc' = "off"
  BY DEF EditCode, CleanTarget, ReplaceModel, RemoveImage, Edit
<1>1. PhaseInv'
  BY <1>0 DEF PhaseInv, Building
<1>2. CASE EditCode
  BY <1>0, <1>1, <1>2 DEF EditCode, ImageInv, ImageType, StampInv, Building, Fits
<1>3. CASE CleanTarget
  BY <1>0, <1>1, <1>3 DEF CleanTarget, ImageInv, ImageType, StampInv, Building
<1>4. ASSUME NEW p \in ModelPaths, NEW v \in Versions \cup {Missing}, ReplaceModel(p, v)
      PROVE  ImageInv'
  BY <1>0, <1>1, <1>4 DEF ReplaceModel, ImageInv, ImageType, StampInv, Building, Fits
<1>5. ASSUME NEW n \in DOMAIN imgs, RemoveImage(n) PROVE ImageInv'
  <2>1. /\ n \in Names /\ imgs' = [imgs EXCEPT ![n] = NoFile]
        /\ UNCHANGED <<code, models, sidecar, cutoff>> /\ ~NoFile.there
    BY <1>5 DEF RemoveImage, ImageInv, ImageType, NoFile
  <2>2. ImageType'
    BY <1>0, <2>1 DEF ImageInv, ImageType, Building
  <2>3. StampInv'
    BY <2>1 DEF ImageInv, ImageType, StampInv, Fits, Names
  <2> QED
    BY <1>1, <2>2, <2>3 DEF ImageInv
<1> QED
  BY <1>2, <1>3, <1>4, <1>5

LEMMA NextImage == ImageInv /\ [ImageNext]_imagevars => ImageInv'
<1> SUFFICES ASSUME ImageInv, [ImageNext]_imagevars PROVE ImageInv'
  OBVIOUS
<1>1. CASE \/ \E name \in {"image", "run"}, a \in Archs, p \in ModelPaths, m \in Modes : Xtask(name, a, p, m)
           \/ \E p \in ModelPaths, m \in Modes : Xtask("pi-image", "aarch64", p, m)
  BY <1>1, CommandStep
<1>2. CASE Decide
  <2>1. /\ UNCHANGED <<code, models, imgs, sidecar, cmd, cutoff>> /\ xpc = "decide"
        /\ CommandOK
    BY <1>2 DEF Decide, ImageInv, ImageType, Steps
  <2>2. CASE xpc' = "update"
    <3>1. cmd.name = "run" /\ sidecar[cmd.arch] = Stamp /\ imgs[cmd.img].there
      BY <1>2, <2>2 DEF Decide
    <3>2. cmd.sound => Right(imgs[cmd.img])
      BY <2>1, <3>1, StampTells
    <3>3. imgs[cmd.img] \in Images
      BY <2>1, <3>1 DEF CommandOK, Commands, ImageInv, ImageType, NoFile
    <3> QED
      BY <2>1, <2>2, <3>1, <3>2, <3>3
         DEF ImageInv, ImageType, CommandOK, StampInv, PhaseInv, Building, Steps, Fits, Right, Model
  <2>3. CASE xpc' = "create"
    BY <2>1, <2>3 DEF ImageInv, ImageType, CommandOK, StampInv, PhaseInv, Building, Steps, Fits
  <2> QED
    BY <1>2, <2>2, <2>3 DEF Decide
<1>3. CASE OpenImage \/ Refresh
  BY <1>3, UpdateStep
<1>4. CASE Create \/ WriteTable \/ FormatVolume \/ BeginEfi \/ EndEfi \/ BeginModel \/ EndModel
  BY <1>4, BuildStep
<1>5. CASE UnmountImage
  <2>1. /\ UNCHANGED <<code, models, imgs, sidecar, cmd, cutoff>> /\ xpc = "unmount"
        /\ xpc' = IF cmd.name = "pi-image" THEN "done" ELSE "stamp"
        /\ Model' = Model /\ Efi' = Efi
    BY <1>5 DEF UnmountImage, Model, Efi
  <2> QED
    BY <2>1 DEF ImageInv, ImageType, CommandOK, StampInv, PhaseInv, Building, Steps, Fits, Right
<1>6. CASE WriteStamp
  BY <1>6, StampStep
<1>7. CASE XtaskEnds
  BY <1>7 DEF XtaskEnds, ImageInv, ImageType, StampInv, PhaseInv, Building, Fits
<1>8. CASE \/ EditCode \/ CleanTarget
           \/ \E p \in ModelPaths, v \in Versions \cup {Missing} : ReplaceModel(p, v)
           \/ \E n \in DOMAIN imgs : RemoveImage(n)
  BY <1>8, EditStep
<1>9. CASE UNCHANGED imagevars
  BY <1>9 DEF imagevars, ImageInv, ImageType, CommandOK, StampInv, PhaseInv, Building, Steps, Fits,
              Right, Model, Efi
<1> QED
  BY <1>1, <1>2, <1>3, <1>4, <1>5, <1>6, <1>7, <1>8, <1>9 DEF ImageNext

\* When image, run or pi-image is done its image boots the code as it is, in
\* the mode asked for, with the model asked for: however many images were
\* built, cut off, removed or stamped before, for which models and targets.
THEOREM ImagesAsAsked == ImageSpec => []ImageAsAsked
<1>1. ImageInv => ImageAsAsked
  BY DEF ImageInv, PhaseInv, ImageAsAsked, Right, Building
<1> QED
  BY <1>1, InitImage, NextImage, PTL DEF ImageSpec
=============================================================================
