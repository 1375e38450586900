---- MODULE MCHub ----
(* Two backends, a box each. *)
EXTENDS Hub, TLC

CONSTANTS b1, b2

TwoBoxes == {b1, b2}

Fresh   == [NoFacts EXCEPT !.Box = "notfound", !.Credential = "absent"]
Started == [Fresh EXCEPT !.Box = "running", !.Bootstrapped = TRUE]
Ready   == [Started EXCEPT !.Credential = "not-applicable", !.BrainReady = TRUE]
Broken  == [Fresh EXCEPT !.Box = "broken"]

SomeStarts == {[b \in Boxes |-> IF b = b1 THEN w ELSE Ready] : w \in {Fresh, Started, Broken}}
====
