------------------------------- MODULE Wizard -------------------------------
(***************************************************************************)
(* The order of the setup steps, as a function of what a probe proved      *)
(* about a box (internal/tui/wizard/graph.go).                             *)
(***************************************************************************)
EXTENDS Integers

\* The order in which a box needs them; a box nothing repairs needs none.
Steps == <<"vm-init", "vm-start", "bootstrap", "backend-login", "brain-init", "project-add", "done">>

BoxStates   == {"notfound", "stopped", "running", "broken"}
Credentials == {"present", "absent", "unknown", "not-applicable"}

Facts == [Box : BoxStates \cup {""}, Bootstrapped : BOOLEAN, Credential : Credentials \cup {""},
          BrainReady : BOOLEAN, ProjectCount : 0..1]

\* The zero value, and what is known of a box whose guest was not asked.
NoFacts    == [Box |-> "", Bootstrapped |-> FALSE, Credential |-> "", BrainReady |-> FALSE,
               ProjectCount |-> 0]
BoxOnly(b) == [NoFacts EXCEPT !.Box = b, !.Credential = "unknown"]

NextStep(f) ==
  CASE f.Box = "notfound" -> "vm-init"
    [] f.Box = "broken"   -> "box-unusable"
    [] f.Box = "stopped"  -> "vm-start"
    [] OTHER -> IF ~f.Bootstrapped THEN "bootstrap"
                ELSE IF f.Credential = "absent" THEN "backend-login"
                ELSE IF ~f.BrainReady THEN "brain-init"
                ELSE IF f.ProjectCount = 0 THEN "project-add" ELSE "done"

\* Step s does not come after step t.
NotAfter(s, t) == \/ s = t
                  \/ \E i, j \in DOMAIN Steps : i <= j /\ Steps[i] = s /\ Steps[j] = t
=============================================================================
