-------------------------------- MODULE MCBox --------------------------------
(* An instance of Box for TLC. *)
EXTENDS Box

CONSTANTS c1

OneCommand == {c1}
Named      == {"claude-code", "codex"}

\* One part of each kind of step a hand could upset.
SomeParts  == {"claude groups", "claude binary", "claude link", "claude profile", "claude settings",
               "codex binary", "codex brain"}
=============================================================================
