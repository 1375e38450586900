---- MODULE MCProjectCommands ----
(* Instances of ProjectCommands for TLC. *)
EXTENDS ProjectCommands, TLC

CONSTANTS b1, b2, p1, p2, r1, r2, c1, c2

OneBox      == {b1}
TwoBoxes    == {b1, b2}
OneProject  == {p1}
TwoProjects == {p1, p2}
OneRemote   == {r1}
TwoRemotes  == {r1, r2}
OneCommand  == {c1}
TwoCommands == {c1, c2}
CloneOnly   == {"clone"}

Symmetric == Permutations(Boxes) \cup Permutations(Projects) \cup Permutations(Remotes)
             \cup Permutations(Commands)
====
