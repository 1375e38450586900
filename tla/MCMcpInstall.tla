---------------------------- MODULE MCMcpInstall ----------------------------
(* Instances of McpInstall for TLC. *)
EXTENDS McpInstall, TLC

CONSTANTS c1, c2, s1, s2

TwoCommands == {c1, c2}
TwoServices == {s1, s2}
Symmetric   == Permutations(TwoCommands) \cup Permutations(TwoServices)
=============================================================================
