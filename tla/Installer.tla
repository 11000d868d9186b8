------------------------------ MODULE Installer ------------------------------
(***************************************************************************)
(* The whole installer (install.sh): acquiring and building (Acquire),     *)
(* then choosing the medium (media.sh), unmounting, confirming, the last   *)
(* checks and the write (flash.sh) and reading it back (verify.sh).        *)
(*                                                                         *)
(* Every step names the disk by its path and the kernel may give the path  *)
(* to another disk at any moment: at says which disk a path means.  The    *)
(* user plugs and unplugs, the desktop mounts what it finds, and another   *)
(* build may replace the image file, between any two steps.  A disk's      *)
(* content is, for each slice of the image, the build it was written from, *)
(* 0 being anything else.                                                  *)
(***************************************************************************)
EXTENDS Acquire, Functions

CONSTANTS
    Disks, Paths,
    Ident,          \* size, model, serial and maj:min of each disk
    Usb,            \* the disks on USB or in a card reader
    System,         \* the disks behind /, /boot, /home and swap
    Large,          \* the disks that can hold the image
    None,
    Slices,         \* slices of 128 MiB in the image
    MaxChanges      \* how often disks are moved and mounted

ASSUME InstallerAssumption ==
    /\ Usb \cup System \cup Large \subseteq Disks
    /\ None \notin Disks
    /\ Slices \in Nat \ {0} /\ MaxChanges \in Nat

VARIABLES
    at,             \* the disk behind each path
    mounts,         \* what of each disk is mounted: partitions, or it as a whole
    content,        \* the slices of each disk
    sel,            \* NR_SEL_PATH and NR_SEL_FP
    written, read,  \* slices written and read back
    same,           \* what was read back is what was built
    status,         \* NR_VERIFY_STATUS
    touched,        \* history: the disks this run has written to,
    moved,          \*   paths have changed since the last checks,
    remounted,      \*   something was mounted since the last checks
    changes

disks    == <<at, mounts, content>>
flashing == <<sel, written, read, same, status, touched, moved, remounted>>
acquire  == <<pin, files, image, source, built, counters>>
vars     == <<acquire, pc, disks, flashing, changes>>

NoSel == [path |-> None, ident |-> None]

Init ==
    /\ AcquireInit
    /\ at \in {f \in [Paths -> Disks \cup {None}] :
                 /\ IsInjective(Restrict(f, {p \in Paths : f[p] # None}))
                 /\ System \subseteq Range(f)}
    /\ mounts = [d \in Disks |-> {}]
    /\ content = [d \in Disks |-> [k \in 1..Slices |-> 0]]
    /\ sel = NoSel /\ written = 0 /\ read = 0 /\ same = TRUE /\ status = "none"
    /\ touched = {} /\ moved = FALSE /\ remounted = FALSE /\ changes = 0

-----------------------------------------------------------------------------
(* media.sh *)

\* nr_media_candidates, with the disks that are large enough.
Candidates(fit) == {p \in Paths : at[p] # None /\ at[p] \in (Usb \cap fit) \ System}

\* nr_reverify_selection
Reverify == sel.path \in Candidates(Disks) /\ Ident[at[sel.path]] = sel.ident

\* NR_SEL_MOUNTS: only rows of TYPE part are looked at.
SelMounted == "part" \in mounts[at[sel.path]]

Step == UNCHANGED <<acquire, disks, changes>>

\* nr_select_media: the list, as it was scanned, and the user's choice ...
Select(p) ==
    /\ Goto("media", "picked")
    /\ p \in Candidates(Large)
    /\ sel' = [path |-> p, ident |-> Ident[at[p]]]
    /\ UNCHANGED <<written, read, same, status, touched, moved, remounted>> /\ Step

\* ... which must still be there when it is made, or the list comes again.
CheckSelection ==
    /\ pc = "picked"
    /\ pc' = IF Reverify THEN "unmount" ELSE "media"
    /\ UNCHANGED flashing /\ Step

-----------------------------------------------------------------------------
(* flash.sh *)

\* nr_unmount_selected
BeforeUnmount ==
    /\ pc = "unmount"
    /\ pc' = IF ~Reverify THEN "off" ELSE IF SelMounted THEN "umount" ELSE "confirm"
    /\ UNCHANGED flashing /\ Step

Unmount ==
    /\ pc = "umount"
    /\ \/ /\ at[sel.path] # None
          /\ mounts' = [mounts EXCEPT ![at[sel.path]] = @ \ {"part"}]
          /\ pc' = "recheck"
       \/ pc' = "off" /\ UNCHANGED mounts
    /\ UNCHANGED <<acquire, at, content, flashing, changes>>

AfterUnmount ==
    /\ pc = "recheck"
    /\ pc' = IF Reverify /\ ~SelMounted THEN "confirm" ELSE "off"
    /\ UNCHANGED flashing /\ Step

\* nr_final_confirmations: both were given; otherwise the run ends (End).
Confirm == Goto("confirm", "revalidate") /\ UNCHANGED flashing /\ Step

\* Mutant of Revalidate: the identity is not compared again.
RevalidatePath ==
    /\ pc = "revalidate"
    /\ pc' = IF at[sel.path] # None /\ ~SelMounted THEN "rehash" ELSE "off"
    /\ moved' = FALSE /\ remounted' = FALSE
    /\ UNCHANGED <<sel, written, read, same, status, touched>> /\ Step

\* Mutant of Revalidate: mounts are not looked at again.
RevalidateMounted ==
    /\ pc = "revalidate"
    /\ pc' = IF Reverify THEN "rehash" ELSE "off"
    /\ moved' = FALSE /\ remounted' = FALSE
    /\ UNCHANGED <<sel, written, read, same, status, touched>> /\ Step

\* nr_revalidate_before_write: the device, ...
Revalidate ==
    /\ pc = "revalidate"
    /\ pc' = IF Reverify /\ ~SelMounted THEN "rehash" ELSE "off"
    /\ moved' = FALSE /\ remounted' = FALSE
    /\ UNCHANGED <<sel, written, read, same, status, touched>> /\ Step

\* ... and then the image file, which takes its time.
Rehash ==
    /\ pc = "rehash"
    /\ pc' = IF image = built THEN "write" ELSE "off"
    /\ UNCHANGED flashing /\ Step

\* One dd of nr_write_image: whatever disk the path means now, and the image
\* file as it is now.  A worn medium takes a slice and keeps something else.
WriteSlice(kept) ==
    LET d == at[sel.path] IN
    /\ pc = "write" /\ written < Slices
    /\ d # None
    /\ content' = [content EXCEPT ![d][written + 1] = kept]
    /\ written' = written + 1
    /\ touched' = touched \cup {d}
    /\ UNCHANGED <<acquire, pc, at, mounts, sel, read, same, status, moved, remounted, changes>>

WriteDone ==
    /\ Goto("write", "verify") /\ written = Slices
    /\ UNCHANGED flashing /\ Step

-----------------------------------------------------------------------------
(* verify.sh *)

SkipVerify ==
    /\ Goto("verify", "done") /\ read = 0
    /\ status' = "skipped"
    /\ UNCHANGED <<sel, written, read, same, touched, moved, remounted>> /\ Step

\* Mutant of ReadSlice: the digest is compared with the last slice only.
ReadLastSlice ==
    LET d == at[sel.path] IN
    /\ pc = "verify" /\ read < Slices
    /\ read' = read + 1
    /\ same' = (d # None /\ content[d][read + 1] = built.build)
    /\ UNCHANGED <<pc, sel, written, status, touched, moved, remounted>> /\ Step

\* nr_readback_sha: a read that fails spoils the digest.
ReadSlice ==
    LET d == at[sel.path] IN
    /\ pc = "verify" /\ read < Slices
    /\ read' = read + 1
    /\ same' = (same /\ d # None /\ content[d][read + 1] = built.build)
    /\ UNCHANGED <<pc, sel, written, status, touched, moved, remounted>> /\ Step

VerifyEnds ==
    /\ pc = "verify" /\ read = Slices
    /\ IF same THEN pc' = "done" /\ status' = "verified"
               ELSE pc' = "off" /\ UNCHANGED status
    /\ UNCHANGED <<sel, written, read, same, touched, moved, remounted>> /\ Step

-----------------------------------------------------------------------------
(* What else happens on the host *)

\* Ctrl+C, a crash, a refusal of the user or a tool that failed.
End ==
    /\ pc # "off" /\ pc' = "off"
    /\ cut' = (cut \/ pc = "writing")
    /\ UNCHANGED <<pin, files, image, source, built, runs, pins, disks, flashing, changes>>

Choosing == {"media", "picked", "unmount", "umount", "recheck", "confirm", "revalidate"}
Checked  == {"rehash", "write", "verify"}

Disturb == pc \in Choosing \cup Checked /\ changes < MaxChanges /\ changes' = changes + 1

\* A disk is pulled, or comes up under a path that is free.
Replug(p, d) ==
    /\ Disturb
    /\ at[p] \notin System
    /\ d = None \/ (at[p] = None /\ d \notin Range(at))
    /\ at' = [at EXCEPT ![p] = d]
    /\ mounts' = [x \in Disks |-> IF x = at[p] THEN {} ELSE mounts[x]]
    /\ moved' = (moved \/ pc \in Checked)
    /\ UNCHANGED <<acquire, pc, content, sel, written, read, same, status, touched, remounted>>

Mount(d, what) ==
    /\ Disturb
    /\ d \in Range(at) /\ what \notin mounts[d]
    /\ mounts' = [mounts EXCEPT ![d] = @ \cup {what}]
    /\ remounted' = (remounted \/ pc \in Checked)
    /\ UNCHANGED <<acquire, pc, at, content, sel, written, read, same, status, touched, moved>>

\* Another build writes the image file.
Rebuild ==
    /\ pc \in Choosing \cup Checked /\ image.build < MaxBuilds
    /\ image' = [image EXCEPT !.build = @ + 1]
    /\ UNCHANGED <<pin, files, source, built, counters, pc, disks, flashing, changes>>

\* A run starts with nothing chosen.
Begin ==
    /\ Start
    /\ sel' = NoSel /\ written' = 0 /\ read' = 0 /\ same' = TRUE /\ status' = "none"
    /\ touched' = {} /\ moved' = FALSE /\ remounted' = FALSE
    /\ UNCHANGED <<disks, changes>>

Build == AcquireNext /\ UNCHANGED <<disks, flashing, changes>>

Next ==
    \/ Begin \/ Build
    \/ (\E p \in Paths : Select(p)) \/ CheckSelection
    \/ BeforeUnmount \/ Unmount \/ AfterUnmount
    \/ Confirm \/ Revalidate \/ Rehash
    \/ (\E kept \in {image.build, 0} : WriteSlice(kept)) \/ WriteDone
    \/ SkipVerify \/ ReadSlice \/ VerifyEnds
    \/ End
    \/ (\E p \in Paths, d \in Disks \cup {None} : Replug(p, d))
    \/ (\E d \in Disks, what \in {"part", "whole"} : Mount(d, what))
    \/ Rebuild

Spec == Init /\ [][Next]_vars

-----------------------------------------------------------------------------

\* Nothing is written to a disk other than the one the user confirmed, and
\* never to one the running system lives on, as long as paths keep their
\* meaning after the last check: whatever was plugged, pulled or renumbered
\* before it is noticed.
OnlyConfirmedDisk ==
    ~moved => \A d \in touched : d \in Usb \ System /\ Ident[d] = sel.ident

\* No partition of the disk is mounted while it is written, unless it was
\* mounted after the last check.  (A file system on the disk as a whole, with
\* no partition table, is one the checks do not see.)
WrittenUnmounted ==
    pc = "write" /\ ~moved /\ ~remounted => ~SelMounted

\* "Verified" on the last screen means that the disk holds, from first slice
\* to last, the image that was hashed when it was built, on worn media and
\* with the image file replaced at any moment.
VerifiedHolds ==
    pc = "done" /\ status = "verified" /\ ~moved =>
        \A k \in 1..Slices : content[at[sel.path]][k] = built.build
=============================================================================
