-------------------------------- MODULE Hub --------------------------------
(***************************************************************************)
(* The terminal hub (internal/tui, bound in internal/cli/ui.go).  Keys and *)
(* answers are handled one at a time by Update; the work they start runs   *)
(* beside it and comes back as a message.  Operations, sessions and the    *)
(* move to another box share one lock, busy; the probes of the box do not. *)
(***************************************************************************)
EXTENDS Wizard, FiniteSets

CONSTANTS
  Boxes,    \* one per backend the hub can be bound to
  Starts,   \* what the boxes may hold when the hub is opened
  MaxKeys,  \* keys that start something (bound)
  MaxJobs   \* pieces of work under way when a key is pressed (bound)

ASSUME HubAssumption ==
  /\ MaxKeys \in Nat /\ MaxJobs \in Nat
  /\ Starts \subseteq [Boxes -> Facts]

VARIABLES
  world,         \* what each box holds
  registry,      \* projects on record, on the host and shared by all boxes
  target,        \* lima.InstanceName, which every command reads as it runs
  bound,         \* the box r.deps was built for
  active, facts, probed, probing, verified, busy, afterSession, preview,
  of,            \* history: the box the facts were read of
  fresh,         \* history: Freshness of the facts
  strayed,       \* history: an answer that holds the lock went to another screen
  jobs, keys

screenVars == <<active, probed, probing, verified, facts, of>>
vars == <<world, registry, target, bound, screenVars, busy, afterSession, preview, fresh, strayed,
          jobs, keys>>

Screens == {"setup", "dashboard", "projects", "brain", "mcp"}

\* 2: read by the newest probe; 1: by an older one of this binding, or before
\* a failed operation changed the box; 0: asked or answered around a rebind.
Freshness == 0..2

\* Work beside the loop.  what is an operation, a session, the box of a rebind
\* or the box state a probe of the guest carries.
Kinds == {"box", "guest", "op", "spec", "session", "rebind", "preview", "install"}
Locking == Kinds \ {"box", "guest"}
Job(kind, what) ==
  [kind |-> kind, what |-> what, at |-> "asked", ok |-> FALSE, facts |-> NoFacts, of |-> bound,
   fresh |-> IF kind \in Locking \/ target # bound THEN 0 ELSE 2]

Older(S) == {[j EXCEPT !.fresh = IF @ = 2 THEN 1 ELSE @] : j \in S}
Cut(S)   == {[j EXCEPT !.fresh = 0] : j \in S}
Least(a, b) == IF a < b THEN a ELSE b

\* What a box would answer if everything it was asked were answered.
Truth(b) == [world[b] EXCEPT !.ProjectCount = registry]

-----------------------------------------------------------------------------
(* Work under way *)

\* Fault: a project on record is recorded again.
EffectTwice(op, b) ==
  LET w == world[b] IN
  <<w.Box = "running" /\ w.Bootstrapped, w, registry + IF op = "project-add" THEN 1 ELSE 0>>

\* A command that comes to its end: what it changes when it takes effect.
Effect(op, b) ==
  LET w == world[b]
      up == w.Box = "running" IN
  CASE op = "vm-init"       -> <<w.Box = "notfound", [w EXCEPT !.Box = "stopped"], registry>>
    [] op = "vm-start"      -> <<w.Box \in {"stopped", "running"}, [w EXCEPT !.Box = "running"], registry>>
    [] op = "vm-stop"       -> <<w.Box \in {"stopped", "running"}, [w EXCEPT !.Box = "stopped"], registry>>
    [] op = "bootstrap"     -> <<up, [w EXCEPT !.Bootstrapped = TRUE], registry>>
    [] op = "brain-init"    -> <<up /\ w.Bootstrapped, [w EXCEPT !.BrainReady = TRUE], registry>>
    [] op = "project-add"   -> <<up /\ w.Bootstrapped, w, 1>>
    [] op = "project-remove" -> <<TRUE, w, 0>>
    [] OTHER                -> <<up /\ w.Bootstrapped, w, registry>>

\* It succeeds; or it fails, before or after it changed the box.
Operate(j) ==
  LET e == Effect(j.what, target) IN
  \/ /\ e[1] /\ world' = [world EXCEPT ![target] = e[2]] /\ registry' = e[3]
     /\ jobs' = (jobs \ {j}) \cup {[j EXCEPT !.at = "done", !.ok = TRUE]}
     /\ UNCHANGED fresh
  \/ /\ UNCHANGED <<world, registry, fresh>>
     /\ jobs' = (jobs \ {j}) \cup {[j EXCEPT !.at = "done"]}
  \/ /\ e[1] /\ world' = [world EXCEPT ![target] = e[2]] /\ registry' = e[3]
     /\ jobs' = Older(jobs \ {j}) \cup {[j EXCEPT !.at = "done"]}
     /\ fresh' = Least(fresh, 1)

\* The session has the terminal; whatever its exit status, a login may have
\* left a credential.
Session(j) ==
  /\ UNCHANGED <<registry, fresh>>
  /\ \E ok \in BOOLEAN : jobs' = (jobs \ {j}) \cup {[j EXCEPT !.at = "done", !.ok = ok]}
  /\ \/ UNCHANGED world
     \/ j.what = "backend login" /\ world' = [world EXCEPT ![target].Credential = "present"]

\* What the guest says: the verifying bootstrap comes first, the rest counts
\* only when it passed; the registry needs no guest.
Heard(t, passed, rest) ==
  [Box |-> t.Box,
   Bootstrapped |-> passed /\ t.Bootstrapped,
   Credential |-> IF passed /\ t.Bootstrapped THEN t.Credential ELSE "unknown",
   BrainReady |-> passed /\ t.Bootstrapped /\ rest /\ t.BrainReady,
   ProjectCount |-> IF rest THEN t.ProjectCount ELSE 0]

BoxAnswers(j) ==
  /\ j.kind = "box" /\ UNCHANGED <<world, registry, fresh>>
  /\ \E ok \in BOOLEAN :
       jobs' = (jobs \ {j}) \cup
         {[j EXCEPT !.at = "done", !.ok = ok, !.of = target,
                    !.facts = IF ok THEN BoxOnly(world[target].Box) ELSE NoFacts]}

\* probeGuest reports the box state it was given, not the one it finds.
GuestAnswers(j) ==
  /\ j.kind = "guest" /\ UNCHANGED <<world, registry, fresh>>
  /\ \E v, rest \in BOOLEAN :
       LET heard == Heard(Truth(target), v /\ world[target].Box = "running", rest) IN
       jobs' = (jobs \ {j}) \cup
         {[j EXCEPT !.at = "done", !.ok = TRUE, !.of = target, !.facts = [heard EXCEPT !.Box = j.what]]}

\* A session's command is resolved, after its checkout was made if it was
\* missing; a preflight, or the installation of the broker, comes to its end.
Resolved(j) ==
  /\ j.kind \in {"spec", "preview", "install"} /\ UNCHANGED <<world, registry, fresh>>
  /\ \E ok \in BOOLEAN : jobs' = (jobs \ {j}) \cup {[j EXCEPT !.at = "done", !.ok = ok]}

Run(j) ==
  /\ j.at = "asked"
  /\ \/ j.kind = "op" /\ Operate(j)
     \/ j.kind = "session" /\ Session(j)
     \/ BoxAnswers(j) \/ GuestAnswers(j) \/ Resolved(j)
  /\ UNCHANGED <<target, bound, screenVars, busy, afterSession, preview, strayed, keys>>

\* rebindDeps: the new box is the one commands address from here on, and on an
\* error the old one again.
Resolve(j) ==
  /\ j.kind = "rebind"
  /\ \/ /\ j.at = "asked" /\ target' = j.what
        /\ jobs' = Cut(jobs \ {j}) \cup {[j EXCEPT !.at = "moved"]}
     \/ /\ j.at = "moved"
        /\ \/ target' = target /\ jobs' = (jobs \ {j}) \cup {[j EXCEPT !.at = "done", !.ok = TRUE]}
           \/ target' = bound /\ jobs' = Cut(jobs \ {j}) \cup {[j EXCEPT !.at = "done"]}
  /\ UNCHANGED <<world, registry, bound, screenVars, busy, afterSession, preview, fresh, strayed, keys>>

-----------------------------------------------------------------------------
(* Update: what the loop does with a message or a key.  jobs is what is left *)
(* under way.                                                                *)

\* probeFacts; the answers of older probes are still accepted.
Probe(left) ==
  /\ probing' = TRUE /\ jobs' = Older(left) \cup {Job("box", "")} /\ fresh' = Least(fresh, 1)

\* boxMsg.  The guest is asked with the state just shown.
BoxMsg(j) ==
  /\ j.kind = "box" /\ probing' = FALSE
  /\ IF ~j.ok THEN jobs' = jobs \ {j} /\ UNCHANGED <<facts, of, fresh, probed, verified>>
     ELSE /\ probed' = TRUE /\ facts' = j.facts /\ of' = j.of /\ fresh' = j.fresh
          /\ verified' = (j.facts.Box # "running")
          /\ jobs' = (jobs \ {j}) \cup
               IF verified' THEN {} ELSE {[Job("guest", "running") EXCEPT !.fresh = j.fresh]}
  /\ UNCHANGED <<target, bound, active, busy, afterSession, preview, strayed>>

FactsMsg(j) ==
  /\ j.kind = "guest" /\ verified' = TRUE /\ facts' = j.facts /\ of' = j.of /\ fresh' = j.fresh
  /\ jobs' = jobs \ {j}
  /\ UNCHANGED <<target, bound, active, probed, probing, busy, afterSession, preview, strayed>>

\* Fault: nothing is asked after an operation.
OpMsgUnasked(j) ==
  /\ j.kind = "op" /\ busy' = FALSE /\ jobs' = jobs \ {j}
  /\ UNCHANGED <<probing, fresh, bound, active, facts, of, probed, verified, afterSession, preview, strayed>>

OpMsg(j) ==
  /\ j.kind = "op" /\ busy' = FALSE
  /\ IF j.ok THEN Probe(jobs \ {j}) ELSE jobs' = jobs \ {j} /\ UNCHANGED <<probing, fresh>>
  /\ UNCHANGED <<bound, active, facts, of, probed, verified, afterSession, preview, strayed>>

\* Fault: what was shown of the previous box stays.
RebindMsgKept(j) ==
  /\ j.kind = "rebind" /\ busy' = FALSE
  /\ IF ~j.ok THEN jobs' = jobs \ {j} /\ UNCHANGED <<bound, probing, fresh>>
     ELSE /\ bound' = j.what /\ probing' = TRUE /\ fresh' = 1
          /\ jobs' = (jobs \ {j}) \cup {[Job("box", "") EXCEPT !.of = j.what, !.fresh = 2]}
  /\ UNCHANGED <<active, facts, of, probed, verified, afterSession, preview, strayed>>

\* rebindMsg.  Nothing on screen may survive from the previous box.
RebindMsg(j) ==
  /\ j.kind = "rebind" /\ busy' = FALSE
  /\ IF ~j.ok
     THEN /\ jobs' = jobs \ {j}
          /\ UNCHANGED <<bound, probing, fresh, facts, of, probed, verified, afterSession, preview>>
     ELSE /\ bound' = j.what /\ of' = j.what /\ facts' = NoFacts /\ fresh' = 1
          /\ probed' = FALSE /\ verified' = FALSE /\ probing' = TRUE
          /\ preview' = FALSE /\ afterSession' = FALSE
          /\ jobs' = (jobs \ {j}) \cup {[Job("box", "") EXCEPT !.of = j.what, !.fresh = 2]}
  /\ UNCHANGED <<active, strayed>>

\* Fault: a session that could not be resolved keeps the lock.
SpecMsgKeeps(j) ==
  /\ j.kind = "spec"
  /\ jobs' = (jobs \ {j}) \cup IF j.ok THEN {Job("session", j.what)} ELSE {}
  /\ UNCHANGED <<busy, bound, active, facts, of, fresh, probed, probing, verified, afterSession, preview, strayed>>

\* specMsg: a session whose command was resolved gets the terminal.
SpecMsg(j) ==
  /\ j.kind = "spec" /\ busy' = j.ok
  /\ jobs' = (jobs \ {j}) \cup IF j.ok THEN {Job("session", j.what)} ELSE {}
  /\ UNCHANGED <<bound, active, facts, of, fresh, probed, probing, verified, afterSession, preview, strayed>>

\* execDoneMsg: the completion runs after a clean end only.
ExecDoneMsg(j) ==
  LET follow == afterSession /\ j.ok IN
  /\ j.kind = "session" /\ busy' = follow /\ afterSession' = FALSE
  /\ Probe((jobs \ {j}) \cup IF follow THEN {Job("op", "activate")} ELSE {})
  /\ UNCHANGED <<bound, active, facts, of, probed, verified, preview, strayed>>

\* An answer Update does not know goes to the active screen, which knows its
\* own and drops every other.
PreviewMsg(j) ==
  /\ j.kind = "preview" /\ jobs' = jobs \ {j}
  /\ IF active = "brain" THEN busy' = FALSE /\ preview' = (preview \/ j.ok) /\ UNCHANGED strayed
     ELSE strayed' = TRUE /\ UNCHANGED <<busy, preview>>
  /\ UNCHANGED <<bound, active, facts, of, fresh, probed, probing, verified, afterSession>>

InstallMsg(j) ==
  /\ j.kind = "install"
  /\ IF active = "mcp"
     THEN /\ busy' = FALSE /\ UNCHANGED strayed
          /\ IF j.ok THEN Probe(jobs \ {j}) ELSE jobs' = jobs \ {j} /\ UNCHANGED <<probing, fresh>>
     ELSE strayed' = TRUE /\ jobs' = jobs \ {j} /\ UNCHANGED <<busy, probing, fresh>>
  /\ UNCHANGED <<bound, active, facts, of, probed, verified, afterSession, preview>>

\* The loop stands still while a session has the terminal.
InSession == \E j \in jobs : j.kind = "session"

Deliver(j) ==
  /\ j.at = "done" /\ (InSession => j.kind = "session")
  /\ \/ BoxMsg(j) \/ FactsMsg(j) \/ OpMsg(j) \/ RebindMsg(j) \/ SpecMsg(j) \/ ExecDoneMsg(j)
     \/ PreviewMsg(j) \/ InstallMsg(j)
  /\ UNCHANGED <<world, registry, target, keys>>

\* run, handoff, startPreflight, startInstall, rebind: refused while busy.
Begin(kind, what) ==
  /\ ~busy /\ busy' = TRUE /\ jobs' = jobs \cup {Job(kind, what)}
  /\ UNCHANGED <<probing, fresh>>

\* tab and the numbers change the screen, whatever is under way; the setup
\* screen probes if nothing has.
SwitchTo(s) ==
  /\ s # active /\ active' = s
  /\ IF s = "setup" /\ ~probed /\ ~probing THEN Probe(jobs) ELSE UNCHANGED <<jobs, probing, fresh>>
  /\ UNCHANGED <<busy, afterSession, preview>>

Refresh == Probe(jobs) /\ UNCHANGED <<active, busy, afterSession, preview>>

\* act: the step the wizard names, and only from proven facts.
SetupStep ==
  LET step == NextStep(facts) IN
  /\ active = "setup" /\ verified
  /\ \/ /\ step \in {"vm-init", "vm-start", "bootstrap", "brain-init"}
        /\ Begin("op", step) /\ UNCHANGED active
     \/ step = "backend-login" /\ Begin("spec", "backend login") /\ UNCHANGED active
     \/ step = "project-add" /\ active' = "projects" /\ UNCHANGED <<jobs, busy, probing, fresh>>
  /\ UNCHANGED <<afterSession, preview>>

\* Stopping the box, once confirmed, and a shell in it.
DashboardKey ==
  /\ active = "dashboard" /\ facts.Box = "running"
  /\ Begin("op", "vm-stop") \/ Begin("spec", "shell")

AddProject    == active = "projects" /\ Begin("op", "project-add")
ChangeProject == /\ active = "projects"
                 /\ \E op \in {"project-remove", "project-sync", "set-remote"} : Begin("op", op)
OpenCheckout  == active = "projects" /\ Begin("spec", "checkout")

\* An import is confirmed on the preview its preflight left.
BrainKey ==
  /\ active = "brain" /\ UNCHANGED <<active, afterSession>>
  /\ \/ /\ ~preview /\ UNCHANGED preview
        /\ Begin("op", "brain-init") \/ Begin("op", "brain-sync") \/ Begin("preview", "")
     \/ /\ preview /\ preview' = FALSE
        /\ Begin("op", "brain-import") \/ UNCHANGED <<jobs, busy, probing, fresh>>

InstallMcp == active = "mcp" /\ Begin("install", "")

\* The login registers its completion before handoff, which may refuse it.
LoginMcp ==
  /\ active = "mcp" /\ afterSession' = TRUE /\ UNCHANGED <<active, preview>>
  /\ \/ Begin("spec", "mcp login")
     \/ busy /\ UNCHANGED <<jobs, busy, probing, fresh>>

ChooseBox == \E b \in Boxes \ {bound} : Begin("rebind", b)

\* Keys that start one piece of work and leave the screens as they are.
Operations == DashboardKey \/ AddProject \/ ChangeProject \/ OpenCheckout \/ InstallMcp \/ ChooseBox

Key ==
  /\ ~InSession /\ keys < MaxKeys /\ Cardinality(jobs) < MaxJobs /\ keys' = keys + 1
  /\ \/ \E s \in Screens : SwitchTo(s)
     \/ Operations /\ UNCHANGED <<active, afterSession, preview>>
     \/ Refresh \/ SetupStep \/ BrainKey \/ LoginMcp
  /\ UNCHANGED <<world, registry, target, bound, facts, of, probed, verified, strayed>>

-----------------------------------------------------------------------------
Init ==
  /\ world \in Starts /\ registry = 0 /\ bound \in Boxes /\ target = bound
  /\ active = "setup" /\ facts = NoFacts /\ of = bound /\ fresh = 1
  /\ probed = FALSE /\ probing = TRUE /\ verified = FALSE /\ busy = FALSE
  /\ afterSession = FALSE /\ preview = FALSE /\ strayed = FALSE
  /\ jobs = {Job("box", "")} /\ keys = 0

Next == Key \/ \E j \in jobs : Run(j) \/ Resolve(j) \/ Deliver(j)

Spec == Init /\ [][Next]_vars

-----------------------------------------------------------------------------
TypeOK ==
  /\ world \in [Boxes -> Facts] /\ registry \in 0..1 /\ {target, bound, of} \subseteq Boxes
  /\ active \in Screens /\ facts \in Facts /\ fresh \in Freshness /\ keys \in 0..MaxKeys
  /\ {probed, probing, verified, busy, afterSession, preview, strayed} \subseteq BOOLEAN
  /\ \A j \in jobs : /\ j.kind \in Kinds /\ j.at \in {"asked", "moved", "done"} /\ j.ok \in BOOLEAN
                     /\ j.facts \in Facts /\ j.of \in Boxes /\ j.fresh \in Freshness

\* One operation at a time: what holds the lock is one piece of work, and the
\* lock is held no longer than that work is under way (root.go:146) - unless
\* its answer went to a screen that drops it.
OneOperation ==
  LET locking == {j \in jobs : j.kind \in Locking} IN
  /\ Cardinality(locking) <= 1
  /\ busy <=> (locking # {} \/ strayed)

\* Facts on screen were read of the box the hub is bound to, unless an answer
\* asked for around a rebind came late; and once nothing is under way, and no
\* older answer came last, the step the wizard names is never past the one the
\* box needs (wizard/graph.go:57).
FactsAreTheBox ==
  /\ probed /\ fresh > 0 => of = bound
  /\ jobs = {} /\ fresh = 2 => probed /\ verified /\ NotAfter(NextStep(facts), NextStep(Truth(bound)))
=============================================================================
