---- MODULE MCVault ----
(* Two torio processes on the vault of one box. *)
EXTENDS Vault, TLC

CONSTANTS c1, c2

TwoCommands == {c1, c2}
None        == {}
AllAsks     == {{"readme"}, {"note"}, {"readme", "note"}, {"into"}}
BothFiles   == {"readme", "note"}
Recovering  == {"recover"}
Outrunning  == {"outrun"}
Symmetric   == Permutations(Commands)

\* How the run before ended, and what lies in a working path no command is
\* between clearing and using, tells no steps apart.
Some(op, steps) == \E c \in Commands : my[c].op = op /\ pc[c] \in steps
Live ==
  <<vault, skill, lock, my, pc, written,
    IF Some("init", {"scaffold", "commit", "promoting", "rmdir", "promote"}) THEN staging ELSE Gone,
    IF Some("import", {"checkpoint", "merge", "commit", "refresh", "exchange", "verify", "skill", "undo"})
    THEN candidate ELSE Gone,
    IF Some("import", {"check", "build", "checkpoint", "merge"}) THEN payload ELSE {}>>
====
