---- MODULE MCBrainSync ----
(* Instances of BrainSync for TLC. *)
EXTENDS BrainSync, TLC

CONSTANTS b1, b2, n1, s1, s2

TwoBoxes == {b1, b2}
OneNote  == {n1}
TwoSyncs == {s1, s2}

Symmetric == Permutations(Boxes) \cup Permutations(Syncs)
====
