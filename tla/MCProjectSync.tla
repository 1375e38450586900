---- MODULE MCProjectSync ----
(* Instances of ProjectSync for TLC: main, one more branch and one tag. *)
EXTENDS ProjectSync, TLC

CONSTANTS b1, b2, p1, p2, s1, s2

OneBox      == {b1}
TwoBoxes    == {b1, b2}
OneProject  == {p1}
TwoProjects == {p1, p2}
OneSync     == {s1}
TwoSyncs    == {s1, s2}

JustMain     == {1}
MainAndOther == {1, 2}
JustOther    == {2}
Empty        == {}
SameProject  == {"project"}
SameBox      == {"box"}
SameBoth     == {"box", "project"}
Beside       == {"attach"}

\* Boxes, projects and syncs are told apart by nothing but their names.
Symmetric == Permutations(Boxes) \cup Permutations(Projects) \cup Permutations(Syncs)

\* What is never read again before it is written whole is left out of the
\* fingerprint: a bundle outside the step that reads it, a mirror outside the
\* plan made from it, the checked-out branch before it is read.
At(s, steps, v, otherwise) == IF pc[s] \in steps THEN v ELSE otherwise
On(b, steps) == \E s \in Syncs : box[s] = b /\ pc[s] \in steps
Live ==
  <<agentVars, hubMade, hub, hubHead, pc, box, proj, todo, created, diverged, heldBack,
    [p \in Projects |-> [b \in Boxes |->
       IF \E s \in Syncs : proj[s] = p /\ box[s] = b /\ pc[s] = "planHub"
       THEN mirror[p][b] ELSE NoRefs]],
    [b \in Boxes |->
       [made      |-> On(b, Steps \ {"idle", "prepare"}) /\ staging[b].made,
        fromGuest |-> IF On(b, {"copyOut"}) THEN staging[b].fromGuest ELSE NoRefs,
        fromHub   |-> IF On(b, {"fetchGuest"}) THEN staging[b].fromHub ELSE NoRefs]],
    [s \in Syncs |-> At(s, {"findHub", "makeHub", "fetchHub", "copyIn"}, carried[s], NoRefs)],
    [s \in Syncs |-> At(s, {"pointHub", "writeGuest"}, branch[s], Detached)]>>
====
