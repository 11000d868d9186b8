----------------------------- MODULE MCInstaller -----------------------------
(* Installer for TLC: two revisions of the catalogue's model, a GGUF of the  *)
(* user's, a live system on USB and two sticks, one of them smaller.  And    *)
(* xtask's image builder, as a developer uses it: each behaviour looks at    *)
(* the one or at the other.                                                  *)
EXTENDS Installer, Image, TLC

CONSTANTS v1, v2, mine, sys, s1, s2, a, b, c, m1, m2

MCLength == (v1 :> 1) @@ (v2 :> 2)
MCNrmOf  == ("cache" :> "catalog") @@ (mine :> "local")
MCIdent  == (sys :> "sys") @@ (s1 :> "one") @@ (s2 :> "two")
MCSizeOf == (a :> 1) @@ (b :> 1) @@ (c :> 2)

\* Two model files are alike, and so are the two versions of one size.
MCSymmetry == Permutations({a, b}) \cup Permutations({m1, m2})

MCInit == \/ Init /\ ImageIdle
          \/ Init /\ pin = v1 /\ at = ("sda" :> sys) @@ ("sdb" :> None) /\ ImageInit
MCNext == \/ xpc = "idle" /\ Next /\ UNCHANGED imagevars
          \/ ImageNext /\ UNCHANGED vars
MCSpec == MCInit /\ [][MCNext]_<<vars, imagevars>>
=============================================================================
