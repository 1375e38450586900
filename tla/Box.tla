-------------------------------- MODULE Box ---------------------------------
(***************************************************************************)
(* A box: the VM of one instance, from `torio vm init` over start and stop *)
(* to `torio vm bootstrap` (internal/lima, internal/cli/vm.go), which      *)
(* makes what its backend declares it installs and proves the rest.        *)
(*                                                                         *)
(* The guest is a set of parts, each absent, good or drifted.  A bootstrap *)
(* is the sequence of steps its source functions name; a step is at most   *)
(* one command in the guest that changes something, so a stop of the       *)
(* command or of the VM falls between any two.                             *)
(***************************************************************************)
EXTENDS GuestSteps, Naturals, SequencesExt

CONSTANTS
  Commands,    \* torio processes
  Flags,       \* the values of --backend that reach this instance
  Touchable,   \* bound: the parts somebody other than torio changes,
  MaxHands,    \*        and how often
  Overlap      \* TRUE: two commands that write may run at once

Backends == {"claude-code", "codex"}
NoFlag   == "none"
Default  == "claude-code"

ASSUME FlagsAssumption   == Flags \subseteq Backends \cup {NoFlag}
ASSUME HandsAssumption   == MaxHands \in Nat
ASSUME OverlapAssumption == Overlap \in BOOLEAN

Claude == INSTANCE ClaudeCode
Cdx    == INSTANCE Codex

VARIABLES
  declared,  \* the backend in the instance's configuration, or "none"
  built,     \* the backend the guest was rendered for, or "none"
  vm,        \* what limactl reports
  session,   \* the groups the ssh master carries
  part,      \* part[p]: the guest's files, users and groups
  hands,     \* changes made by hand so far
  weak,      \* a boot whose provisioning failed
  job,       \* job[c]: what command c was asked
  plan,      \* plan[c]: the steps it has left
  result,    \* result[c]: how it ended
  touched    \* touched[c]: a hand changed the guest since c started

guestVars == <<declared, built, vm, session, part, hands, weak>>
vars      == <<guestVars, job, plan, result, touched>>

Conditions == {"absent", "good", "stricter", "drifted", "foreign"}

-----------------------------------------------------------------------------
(* The steps, in the order of Bootstrap. *)

verifyTorioProjectsGroup      == <<Proves("projects group")>>
verifyOperatorInTorioProjects == <<Proves("session")>>
verifyArch         == <<Proves("architecture")>>
verifyGit          == <<Proves("git")>>
verifyNoHostMounts == <<Proves("mounts")>>
verifyOperatorShellHelper == <<Creates("shell helper")>>
verifyProjectEnterHelper  == <<Creates("enter helper")>>

Of(b, claude, codex) == IF b = "claude-code" THEN claude ELSE codex

Bootstrap(b) ==
     Of(b, Claude!VerifyIdentity, Cdx!VerifyIdentity)
  \o verifyTorioProjectsGroup
  \o Of(b, Claude!VerifyMembership, Cdx!VerifyMembership)
  \o verifyOperatorInTorioProjects
  \o Of(b, Claude!VerifyIsolation, Cdx!VerifyIsolation)
  \o Of(b, Claude!Install, Cdx!Install)
  \o verifyArch
  \o Of(b, Claude!VerifyVersion, Cdx!VerifyVersion)
  \o verifyGit
  \o Of(b, Claude!RequiredPaths, Cdx!RequiredPaths)
  \o verifyNoHostMounts
  \o verifyOperatorShellHelper
  \o verifyProjectEnterHelper
  \o Of(b, Claude!Session, Cdx!Session)
  \o Of(b, Claude!VerifyGuardrails, Cdx!VerifyGuardrails)
  \o Of(b, Claude!ProbeAuth, Cdx!ProbeAuth)

Host(does) == Step(does, "none", "none")

Planned(op, b) ==
  CASE op = "init"  -> <<Host("declare"), Host("make")>>
    [] op = "start" -> <<Host("boot"), Host("reconnect")>>
    [] op = "stop"  -> <<Host("halt")>>
    [] op = "bootstrap" -> <<Host("running")>> \o Bootstrap(b)

\* Provisioning reruns on every boot of the backend the guest was built for.
Provisioned(b) ==
  Of(b, Claude!ProvisionScript, Cdx!ProvisionScript)
  \cup {"projects group", "git", "shell helper", "enter helper", "operator in projects"}
OfTheImage(b) ==
  Of(b, Claude!OfTheImage, Cdx!OfTheImage) \cup {"architecture", "mounts"}

\* What a bootstrap for b proves, and the parts of every backend.
Proven(b) == {s.part : s \in {t \in ToSet(Bootstrap(b)) : t.does # "observe"}} \ {"session"}
LinkParts    == {"claude link", "codex link"}
Binaries  == {"claude binary", "codex binary"}
Private   == {"claude profile", "claude brain", "codex profile", "codex brain"}
Parts     == (UNION {Proven(b) \cup Provisioned(b) : b \in Backends})
             \cup {"claude staging", "codex staging", "codex extract"}

NoJob == [op |-> "none", flag |-> NoFlag, backend |-> Default, reconcile |-> FALSE]
Running(c) == plan[c] # <<>>
Next1(c)   == Head(plan[c])

Init ==
  /\ declared = "none" /\ built = "none" /\ vm = "absent" /\ session = "none"
  /\ part = [p \in Parts |-> "absent"]
  /\ hands = 0 /\ weak = FALSE
  /\ job = [c \in Commands |-> NoJob]
  /\ plan = [c \in Commands |-> <<>>]
  /\ result = [c \in Commands |-> "none"]
  /\ touched = [c \in Commands |-> FALSE]

-----------------------------------------------------------------------------
(* Starting and ending a command. *)

\* Mutant: the flag decides, whatever is declared.
ResolvesByFlag(flag, b) ==
  b = (IF flag # NoFlag THEN flag ELSE IF declared # "none" THEN declared ELSE Default)

\* resolveBackend: the flag and the declaration must agree; an instance that
\* declares nothing takes the flag, or the default.
Resolves(flag, b) ==
  IF declared # "none" THEN b = declared /\ flag \in {NoFlag, declared}
                       ELSE b = (IF flag # NoFlag THEN flag ELSE Default)

Changes(j) == j.op = "init" \/ (j.op = "bootstrap" /\ j.reconcile)

Begin(c, op, flag, b, reconcile) ==
  LET j == [op |-> op, flag |-> flag, backend |-> b, reconcile |-> reconcile] IN
  /\ ~Running(c) /\ Resolves(flag, b)
  /\ Overlap \/ ~Changes(j) \/ \A d \in Commands : Running(d) => ~Changes(job[d])
  /\ job' = [job EXCEPT ![c] = j]
  /\ plan' = [plan EXCEPT ![c] = Planned(op, b)]
  /\ result' = [result EXCEPT ![c] = "none"]
  /\ touched' = [touched EXCEPT ![c] = FALSE]
  /\ UNCHANGED guestVars

StartInit(c) == \E f \in Flags, b \in Backends : Begin(c, "init", f, b, TRUE)
StartStart(c) == \E f \in Flags, b \in Backends : Begin(c, "start", f, b, TRUE)
StartStop(c) == \E f \in Flags, b \in Backends : Begin(c, "stop", f, b, TRUE)
StartBootstrap(c) == \E f \in Flags, b \in Backends : Begin(c, "bootstrap", f, b, TRUE)

\* VerifyOnly: `torio backend status` and the terminal hub.
StartVerify(c) == \E f \in Flags, b \in Backends : Begin(c, "bootstrap", f, b, FALSE)

End(c, how) == /\ plan' = [plan EXCEPT ![c] = <<>>]
               /\ result' = [result EXCEPT ![c] = how]
               /\ UNCHANGED <<job, touched>>

\* The step succeeded; with the last one the command reports success.
Advance(c) == /\ plan' = [plan EXCEPT ![c] = Tail(@)]
              /\ result' = [result EXCEPT ![c] = IF Len(plan[c]) = 1 THEN "ok" ELSE "none"]
              /\ UNCHANGED <<job, touched>>
Insert(c, steps) == /\ plan' = [plan EXCEPT ![c] = steps \o Tail(@)]
                    /\ UNCHANGED <<job, result, touched>>

\* A postcondition that does not hold ends the command; so does, at any step,
\* a cancel, a timeout, a command that fails or a kill.
Refuse(c) == End(c, "refused") /\ UNCHANGED guestVars
Fail(c)   == Running(c) /\ End(c, "failed") /\ UNCHANGED guestVars

-----------------------------------------------------------------------------
(* The life cycle. *)

\* The backend is recorded before the VM exists.
Declare(c) ==
  /\ Running(c) /\ Next1(c).does = "declare"
  /\ declared' = IF job[c].flag = NoFlag THEN declared ELSE job[c].flag
  /\ Advance(c)
  /\ UNCHANGED <<built, vm, session, part, hands, weak>>

\* Init of the adapter: an existing instance with the trusted pins is left
\* alone, an absent one is created from the template of the backend.
Make(c) ==
  /\ Running(c) /\ Next1(c).does = "make"
  /\ IF vm = "absent" THEN vm' = "stopped" /\ built' = job[c].backend
                      ELSE UNCHANGED <<vm, built>>
  /\ Advance(c)
  /\ UNCHANGED <<declared, session, part, hands, weak>>

\* The master authenticates before provisioning adds the operator's group.
Booted ==
  /\ vm' = "running"
  /\ session' = IF part["operator in projects"] = "good" THEN "fresh" ELSE "stale"
  /\ UNCHANGED <<declared, built, hands>>
  /\ \/ /\ part' = [p \in Parts |->
                     IF \/ p \in Provisioned(built)
                        \/ p \in OfTheImage(built) /\ part[p] = "absent"
                     THEN "good" ELSE part[p]]
        /\ UNCHANGED weak
     \/ weak' = TRUE /\ UNCHANGED part

\* Start: a running instance is success at once.  A boot whose provisioning
\* fails ends the command, with the VM up.
Boot(c) ==
  /\ Running(c) /\ Next1(c).does = "boot"
  /\ \/ vm = "running" /\ End(c, "ok") /\ UNCHANGED guestVars
     \/ vm = "stopped" /\ Booted /\ (IF weak' = weak THEN Advance(c) ELSE End(c, "failed"))
     \/ vm \in {"absent", "broken"} /\ Refuse(c)

\* refreshSession: limactl shell --reconnect drops the stale master.
Reconnected == IF part["operator in projects"] = "good" THEN "fresh" ELSE "stale"
Reconnect(c) ==
  /\ Running(c) /\ Next1(c).does = "reconnect"
  /\ IF vm = "running"
     THEN /\ session' = Reconnected /\ Advance(c)
          /\ UNCHANGED <<declared, built, vm, part, hands, weak>>
     ELSE Refuse(c)

\* Mutant: the stop takes the exit code for the state.
HaltUnverified(c) ==
  /\ Running(c) /\ Next1(c).does = "halt" /\ vm' = "stopping" /\ session' = "none"
  /\ Advance(c) /\ UNCHANGED <<declared, built, part, hands, weak>>

Halt(c) ==
  /\ Running(c) /\ Next1(c).does = "halt"
  /\ IF vm \in {"running", "stopped"}
     THEN /\ vm' = "stopped" /\ session' = "none" /\ Advance(c)
          /\ UNCHANGED <<declared, built, part, hands, weak>>
     ELSE Refuse(c)

-----------------------------------------------------------------------------
(* The steps of a bootstrap, each a command or two in a running guest. *)

In(c, does) == Running(c) /\ Next1(c).does \in does
Condition(c) == part[Next1(c).part]
SetPart(p, to) == /\ part' = [part EXCEPT ![p] = to]
                  /\ UNCHANGED <<declared, built, vm, session, hands, weak>>

\* Mutant: the group database answers for the session.
SessionFromDatabase == part["operator in projects"] = "good"

\* The session is asked about itself: the group database would answer for a
\* name, not for the master every guest command goes through.
SessionCarries == session = "fresh"

Holds(c) ==
  LET s == Next1(c) IN
  /\ s.does = "running" => vm = "running"
  /\ s.does = "prove" => IF s.part = "session" THEN SessionCarries ELSE Condition(c) = "good"
  /\ s.does = "provePath" => Condition(c) \in {"good", "stricter"}
  /\ s.does = "proveOwner" => Condition(c) \in {"good", "foreign"}

Prove(c) ==
  /\ In(c, {"running", "observe", "prove", "provePath", "proveOwner"})
  /\ Next1(c).does = "running" \/ vm = "running"
  /\ IF Holds(c) THEN Advance(c) /\ UNCHANGED guestVars ELSE Refuse(c)

\* A program whose bytes nobody checked may answer with the version or not.
Answer(c) ==
  /\ In(c, {"answer"}) /\ vm = "running"
  /\ \/ /\ Condition(c) = "good" /\ part[Next1(c).from] \in {"good", "foreign"}
        /\ Advance(c) /\ UNCHANGED guestVars
     \/ /\ Condition(c) # "good" \/ part[Next1(c).from] # "good"
        /\ Refuse(c)

\* Mutant: what differs is installed over, as what is missing is.
MakeAlways(c) ==
  /\ In(c, {"create"}) /\ vm = "running"
  /\ IF Condition(c) = "good" THEN Advance(c) /\ UNCHANGED guestVars
     ELSE Insert(c, <<Writes(Next1(c).part)>>) /\ UNCHANGED guestVars

\* stat, then test ! -e: absence is proved before anything is installed, and
\* what is there is proved and never overwritten.
MakeAbsent(c) ==
  /\ In(c, {"create"}) /\ vm = "running"
  /\ \/ /\ Condition(c) = "absent" /\ job[c].reconcile
        /\ Insert(c, <<Writes(Next1(c).part)>>) /\ UNCHANGED guestVars
     \/ Condition(c) = "absent" /\ ~job[c].reconcile /\ Refuse(c)
     \/ Condition(c) = "good" /\ Advance(c) /\ UNCHANGED guestVars
     \/ Condition(c) \notin {"absent", "good"} /\ Refuse(c)

\* Mutant: the file is written in place; a write cut short leaves a part of it.
WriteInPlace(c) ==
  /\ In(c, {"write", "link"}) /\ vm = "running"
  /\ \/ SetPart(Next1(c).part, "good") /\ Advance(c)
     \/ SetPart(Next1(c).part, "drifted") /\ End(c, "failed")

\* The install is atomic: a temporary file, synced and moved over the path.
Write(c) ==
  /\ In(c, {"write", "link"}) /\ vm = "running"
  /\ SetPart(Next1(c).part, "good") /\ Advance(c)

\* A wrong link carries nothing to lose: it is repointed.
Repoint(c) ==
  /\ In(c, {"repoint"}) /\ vm = "running"
  /\ \/ Condition(c) = "good" /\ Advance(c) /\ UNCHANGED guestVars
     \/ /\ Condition(c) # "good" /\ job[c].reconcile
        /\ Insert(c, <<Links(Next1(c).part)>>) /\ UNCHANGED guestVars
     \/ Condition(c) # "good" /\ ~job[c].reconcile /\ Refuse(c)

\* Install: test -x of the versioned binary decides whether to download.
DownloadAbsent(c) ==
  /\ In(c, {"install"}) /\ vm = "running"
  /\ \/ /\ Condition(c) = "absent" /\ job[c].reconcile
        /\ Insert(c, Of(job[c].backend, Claude!download, Cdx!download)) /\ UNCHANGED guestVars
     \/ Condition(c) = "absent" /\ ~job[c].reconcile /\ Refuse(c)
     \/ Condition(c) # "absent" /\ Advance(c) /\ UNCHANGED guestVars

\* curl writes the staging path from its first byte on: cut short or served
\* something else, it leaves bytes that are not the release's.
Fetch(c) ==
  /\ In(c, {"fetch"}) /\ vm = "running"
  /\ \/ \E bytes \in {"good", "foreign"} : SetPart(Next1(c).part, bytes) /\ Advance(c)
     \/ SetPart(Next1(c).part, "foreign") /\ End(c, "failed")

\* Mutant: the digest is not asked for.
CheckNothing(c) == In(c, {"check"}) /\ vm = "running" /\ Advance(c) /\ UNCHANGED guestVars

\* sha256sum --check; bytes that differ are removed before the refusal.
Check(c) ==
  /\ In(c, {"check"}) /\ vm = "running"
  /\ IF Condition(c) = "good" THEN Advance(c) /\ UNCHANGED guestVars
     ELSE SetPart(Next1(c).part, "absent") /\ End(c, "failed")

\* install gives the mode last: cut short, it leaves no executable.
Place(c) ==
  /\ In(c, {"place"}) /\ vm = "running"
  /\ \/ part[Next1(c).from] = "absent" /\ End(c, "failed") /\ UNCHANGED guestVars
     \/ part[Next1(c).from] # "absent" /\ SetPart(Next1(c).part, part[Next1(c).from]) /\ Advance(c)
     \/ part[Next1(c).from] # "absent" /\ SetPart(Next1(c).part, "absent") /\ End(c, "failed")

Clear(c) ==
  /\ In(c, {"clear"}) /\ vm = "running"
  /\ SetPart(Next1(c).part, "absent") /\ Advance(c)

GuestStep(c) == \/ Prove(c) \/ Answer(c) \/ MakeAbsent(c) \/ Write(c) \/ Repoint(c)
                \/ DownloadAbsent(c) \/ Fetch(c) \/ Check(c) \/ Place(c) \/ Clear(c)

-----------------------------------------------------------------------------
(* The machine, the agent and the operator's hands. *)

\* A host that sleeps, a limactl by hand: the VM is gone, broken or back, and
\* nobody reconnected the session.
Die == /\ vm = "running" /\ vm' \in {"stopped", "broken"} /\ session' = "none"
       /\ UNCHANGED <<declared, built, part, hands, weak, job, plan, result, touched>>
ForceStop == /\ vm = "broken" /\ vm' = "stopped" /\ session' = "none"
             /\ UNCHANGED <<declared, built, part, hands, weak, job, plan, result, touched>>
BootByHand == vm = "stopped" /\ Booted /\ UNCHANGED <<job, plan, result, touched>>

\* An agent restricts its own directories when it writes credentials there.
Tighten == \E p \in Private \cap Touchable :
  /\ vm = "running" /\ part[p] = "good" /\ part' = [part EXCEPT ![p] = "stricter"]
  /\ UNCHANGED <<declared, built, vm, session, hands, weak, job, plan, result, touched>>

\* Nobody writes a path between the probe that missed it and its install.
Writing(p) == \E c \in Commands : \E s \in ToSet(plan[c]) :
  s.part = p /\ s.does \in {"write", "link", "place"}
Meddle == \E p \in Proven(built) \cap Touchable, to \in {"absent", "drifted"} :
  /\ vm = "running" /\ hands < MaxHands /\ part[p] # to /\ ~Writing(p)
  /\ part' = [part EXCEPT ![p] = to] /\ hands' = hands + 1
  /\ touched' = [c \in Commands |-> TRUE]
  /\ UNCHANGED <<declared, built, vm, session, weak, job, plan, result>>

Next ==
  \/ \E c \in Commands :
       \/ StartInit(c) \/ StartStart(c) \/ StartStop(c) \/ StartBootstrap(c) \/ StartVerify(c)
       \/ Declare(c) \/ Make(c) \/ Boot(c) \/ Reconnect(c) \/ Halt(c)
       \/ GuestStep(c) \/ Fail(c)
  \/ Die \/ ForceStop \/ BootByHand \/ Tighten \/ Meddle

Spec == Init /\ [][Next]_vars

-----------------------------------------------------------------------------
TypeOK ==
  /\ declared \in Backends \cup {"none"} /\ built \in Backends \cup {"none"}
  /\ vm \in {"absent", "stopped", "running", "broken"}
  /\ session \in {"none", "stale", "fresh"}
  /\ part \in [Parts -> Conditions]
  /\ hands \in 0..MaxHands /\ weak \in BOOLEAN
  /\ \A c \in Commands :
       /\ job[c].op \in {"none", "init", "start", "stop", "bootstrap"}
       /\ job[c].backend \in Backends
       /\ result[c] \in {"none", "ok", "refused", "failed"}
       /\ touched[c] \in BOOLEAN

\* The instance's configuration names the agent its guest was built for:
\* `vm init` writes the one before it makes the other, and an existing guest
\* is never declared to be another's (declareBackend, resolveBackend).
DeclaredIsBuilt == declared # "none" /\ built # "none" => declared = built

\* A bootstrap that reports success has every part its backend declares in
\* place, and a session that carries the shared group, unless a hand changed
\* the guest meanwhile; boots, stops and other commands may happen at any time.
BootstrapIsTrue ==
  \A c \in Commands : job[c].op = "bootstrap" /\ result[c] = "ok" /\ ~touched[c] =>
    /\ \A p \in Proven(job[c].backend) :
         part[p] = "good" \/ (p \in Private /\ part[p] = "stricter")
    /\ session # "stale"

\* The bytes behind a pinned name were checked against the pin, whatever a
\* stopped download left behind.
InstalledVerified == \A p \in Binaries : part[p] # "foreign"

\* Drift is reported and never repaired in place but for the command link, and
\* by a boot; a run that only verifies changes nothing.
DriftKept ==
  [][/\ \A p \in Parts : part[p] = "drifted" /\ part'[p] # "drifted" =>
          \/ hands' # hands \/ vm' # vm
          \/ p \in LinkParts /\ \E c \in Commands : In(c, {"link"})
     /\ \A c \in Commands : Running(c) /\ ~job[c].reconcile /\ plan'[c] # plan[c] =>
          UNCHANGED part]_vars

\* Nothing a stopped, failed or killed command leaves behind makes a later
\* bootstrap refuse: only a hand, a boot that could not provision or the first
\* boot's session does.
LeftoversHarmless ==
  [][\A c \in Commands :
       /\ In(c, {"prove", "provePath", "proveOwner", "answer", "create", "repoint"})
       /\ job[c].reconcile /\ job[c].backend = built /\ result'[c] = "refused"
       => hands > 0 \/ weak \/ session = "stale"]_vars
=============================================================================
