----------------------------- MODULE GuestSteps -----------------------------
(***************************************************************************)
(* The steps a bootstrap is made of (internal/lima/bootstrap.go,           *)
(* internal/backend/backend.go).  A step looks at one part of the guest    *)
(* and proves it, makes it when it is missing, or only reports it.  Each   *)
(* backend lists its own steps in the modules ClaudeCode and Codex; Box    *)
(* runs them.                                                              *)
(***************************************************************************)
EXTENDS Sequences

Step(does, part, from) == [does |-> does, part |-> part, from |-> from]

Proves(p)     == Step("prove", p, "none")        \* it is there and as specified
ProvesPath(p) == Step("provePath", p, "none")    \* ... or stricter (AllowStricter)
ProvesOwner(p) == Step("proveOwner", p, "none")  \* it is root's, whatever it holds
Creates(p)    == Step("create", p, "none")       \* made when absent, else proved
Writes(p)     == Step("write", p, "none")        \* the install of an absent part
Repoints(p)   == Step("repoint", p, "none")      \* a link, pointed back when wrong
Links(p)      == Step("link", p, "none")
Observes(p)   == Step("observe", p, "none")      \* recorded, never refused

Installs(p)   == Step("install", p, "none")      \* downloaded when absent
Fetches(p)    == Step("fetch", p, "none")        \* curl -o to a fixed path
Checks(p)     == Step("check", p, "none")        \* its digest
Places(p, q)  == Step("place", p, q)             \* install q as p
Clears(p)     == Step("clear", p, "none")        \* rm -f, rm -rf
Answers(p, q) == Step("answer", p, q)            \* the program behind link p runs q
=============================================================================
