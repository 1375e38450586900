----------------------------- MODULE McpInstall -----------------------------
(***************************************************************************)
(* `torio mcp install` and `torio mcp login` on one box (internal/lima     *)
(* mcp*.go, codexmcp.go, internal/cli/mcp.go): the custody boundary, the   *)
(* broker's files, the agent's configuration and the systemd unit are      *)
(* brought to what the host's release and the root-owned policy say.  An   *)
(* install is a sequence of guest commands, each of which changes at most  *)
(* one thing; it may stop between any two.                                 *)
(***************************************************************************)
EXTENDS Naturals, FiniteSets

CONSTANTS
  Commands,      \* torio processes
  Services,      \* services a policy may grant
  Backend,       \* the agent of the box
  MaxReleases,   \* bound: releases of the host binary,
  MaxEdits,      \*        edits of the policy,
  MaxHands,      \*        changes the agent makes to its own configuration
  Overlap        \* TRUE: an install may overlap other commands

ASSUME BackendAssumption == Backend \in {"claude-code", "codex"}
ASSUME BoundsAssumption  ==
  MaxReleases \in Nat \ {0} /\ MaxEdits \in Nat /\ MaxHands \in Nat
ASSUME OverlapAssumption == Overlap \in BOOLEAN

VARIABLES
  host,      \* the release the operator's torio is from
  have,      \* the parts of the custody boundary that are in place
  policy,    \* the policy documents: their revision and the services granted
  file,      \* file[f]: the release installed at f's path, 0 for none
  loaded,    \* the unit systemd has in memory, 0 while it has none
  allow,     \* the services in the agent's root-owned configuration
  decl,      \* the servers the agent itself declares
  oauth,     \* the services with a private session document
  enabled,   \* the unit starts at boot
  proc,      \* the broker
  my,        \* my[c]: what command c does and has seen
  pc,        \* pc[c]: the step it is at
  result,    \* result[c]: how it ended
  clean,     \* clean[c]: nothing else changed what c relies on since it began
  calm,      \* calm[c]: c began where an install had just succeeded
  midway,    \* an install stopped after it replaced something, since the last boot
  hands      \* changes the agent made

boundary == <<have, policy, oauth>>
target   == <<file, loaded, allow, decl, enabled, proc>>
locals   == <<my, pc, result, clean, calm>>
vars     == <<host, boundary, target, locals, midway, hands>>

Files    == {"broker", "relay", "unit"}
Boundary == {"clients group", "broker user", "broker client", "broker home",
             "agent client", "policy directory"}
Releases == 0..MaxReleases
Policies == [rev : 0..MaxEdits, services : SUBSET Services]

Off      == [state |-> "off", broker |-> 0, unit |-> 0, policy |-> [rev |-> 0, services |-> {}]]
Nothing  == [f \in Files |-> 0]
NoJob    == [op |-> "none", service |-> "none", release |-> Nothing,
             grant |-> Off.policy, payload |-> FALSE, transport |-> FALSE,
             pending |-> {}, enabled |-> FALSE, active |-> FALSE, left |-> {}]

Jobs == [op : {"none", "install", "login"}, service : Services \cup {"none"},
         release : [Files -> Releases],   \* what it installs at each path
         grant : Policies, payload : BOOLEAN, transport : BOOLEAN, pending : SUBSET Services,
         enabled : BOOLEAN, active : BOOLEAN, left : SUBSET Services]
Procs == [state : {"off", "failing", "active"}, broker : Releases, unit : Releases, policy : Policies]

\* What the agent itself should declare: codex lists the relay's servers,
\* claude-code has them in the managed file only.
Declared(grant) == IF Backend = "codex" THEN grant.services ELSE {}

Steps == {"idle", "boundary", "policy", "broker", "relay", "unit", "reload", "allow",
          "list", "remove", "add", "pending", "runtime", "disable", "enable", "judge",
          "restart", "session", "done"}
Running(c) == pc[c] \notin {"idle", "done"}

Init ==
  /\ host = 1 /\ have = {} /\ policy = Off.policy
  /\ file = Nothing /\ loaded = 0
  /\ allow = {} /\ decl = {} /\ oauth = {} /\ enabled = FALSE /\ proc = Off
  /\ my = [c \in Commands |-> NoJob] /\ pc = [c \in Commands |-> "idle"]
  /\ result = [c \in Commands |-> "none"]
  /\ clean = [c \in Commands |-> FALSE] /\ calm = [c \in Commands |-> FALSE]
  /\ midway = FALSE /\ hands = 0

-----------------------------------------------------------------------------
(* Starting and ending a command. *)

\* What the release on the host holds: the executables lie beside torio, the
\* unit is part of it.
Shipped == [f \in Files |-> host]
Payload(mine) == [Shipped EXCEPT !["unit"] = mine["unit"]]

Installing(c) == Running(c) /\ my[c].op = "install"
Begins(c, op, s, first) ==
  /\ ~Running(c)
  /\ my' = [my EXCEPT ![c] = [NoJob EXCEPT !.op = op, !.service = s, !.release = Shipped]]
  /\ pc' = [pc EXCEPT ![c] = first]
  /\ result' = [result EXCEPT ![c] = "none"]
  /\ UNCHANGED <<host, boundary, target, midway, hands>>

StartInstall(c) ==
  /\ Overlap \/ \A d \in Commands : ~Running(d)
  /\ Begins(c, "install", "none", "boundary")
  /\ clean' = [d \in Commands |-> d = c]
  /\ calm' = [d \in Commands |->
       d = c /\ proc.state # "failing" /\ \E e \in Commands :
         my[e].op = "install" /\ my[e].release = Shipped /\ result[e] = "ok" /\ clean[e]]

\* The login session runs as the broker, from the installed binary, on one
\* callback port; it refuses a service the policy does not grant.
StartLogin(c) == \E s \in policy.services :
  /\ Overlap \/ \A d \in Commands : ~Installing(d)
  /\ \A d \in Commands : pc[d] # "session"
  /\ file["broker"] # 0
  /\ Begins(c, "login", s, "session")
  /\ clean' = [d \in Commands |-> d = c \/ (clean[d] /\ my[d].op = "login")]
  /\ calm' = [d \in Commands |-> FALSE]

At(c, step) == pc[c] = step /\ UNCHANGED <<host, policy, hands>>
Forgets(r)  == [NoJob EXCEPT !.op = r.op, !.release = IF r.op = "install" THEN r.release ELSE Nothing]
Ends(c, how) == /\ pc' = [pc EXCEPT ![c] = "done"] /\ result' = [result EXCEPT ![c] = how]
                /\ my' = [my EXCEPT ![c] = Forgets(@)]
                /\ UNCHANGED <<clean, calm>>
Notes(c, r, to) == IF to = "done" THEN Ends(c, "ok") ELSE
                   /\ pc' = [pc EXCEPT ![c] = to] /\ my' = [my EXCEPT ![c] = r]
                   /\ UNCHANGED <<result, clean, calm>>
Goto(c, to) == Notes(c, my[c], to)

\* A postcondition that does not hold, a command that fails, a cancel, a kill.
Stop(c) ==
  /\ Running(c) /\ Ends(c, "failed")
  /\ midway' = (midway \/ my[c].transport)
  /\ UNCHANGED <<host, boundary, target, hands>>

-----------------------------------------------------------------------------
(* The boundary, the policy and the files. *)

\* Each part is created or put right only when it is not as it should be;
\* every one precedes the next.
Earlier(p) ==
  CASE p = "clients group" -> {}
    [] p = "broker user"   -> {"clients group"}
    [] p = "broker client" -> {"clients group", "broker user"}
    [] p = "broker home"   -> {"clients group", "broker user", "broker client"}
    [] p = "agent client"  -> Boundary \ {"agent client", "policy directory"}
    [] p = "policy directory" -> Boundary \ {"policy directory"}

AfterBoundary == have = Boundary

\* Mutant: the parts are made in any order, and the directory's presence is
\* taken for the boundary's.
EnsureBoundaryAnyhow(c) ==
  /\ At(c, "boundary")
  /\ \/ "policy directory" \in have /\ Goto(c, "policy") /\ UNCHANGED have
     \/ Goto(c, "boundary") /\ \E p \in Boundary \ have : have' = have \cup {p}
  /\ UNCHANGED <<oauth, target, midway>>

EnsureBoundary(c) ==
  /\ At(c, "boundary")
  /\ \/ AfterBoundary /\ Goto(c, "policy") /\ UNCHANGED have
     \/ /\ ~AfterBoundary /\ Goto(c, "boundary")
        /\ \E p \in Boundary \ have : Earlier(p) \subseteq have /\ have' = have \cup {p}
  /\ UNCHANGED <<oauth, target, midway>>

\* verifyPolicyDocuments: no document is a missing precondition.  Then the
\* executables are read, which an upgrade may have replaced since torio, and
\* the unit in it, were started.
ReadPolicy(c) ==
  /\ At(c, "policy") /\ policy.services # {}
  /\ Notes(c, [my[c] EXCEPT !.grant = policy, !.release = Payload(@)],
           IF my[c].op = "install" THEN "broker" ELSE "pending")
  /\ UNCHANGED <<have, oauth, target, midway>>

AfterFile(f) == CASE f = "broker" -> "relay" [] f = "relay" -> "unit" [] f = "unit" -> "reload"
Replace(c, f) ==
  /\ file' = [file EXCEPT ![f] = my[c].release[f]]
  /\ Notes(c, [my[c] EXCEPT !.payload = TRUE, !.transport = TRUE], AfterFile(f))
NoFile == UNCHANGED <<have, oauth, loaded, allow, decl, enabled, proc, midway>>

\* Mutant: the digest is not compared.
EnsureFileAlways(c, f) == At(c, f) /\ Replace(c, f) /\ NoFile

\* Bytes that differ are written beside the path, synced and renamed over it.
EnsureFile(c, f) ==
  /\ At(c, f) /\ NoFile
  /\ IF file[f] # my[c].release[f] THEN Replace(c, f) ELSE Goto(c, AfterFile(f)) /\ UNCHANGED file

\* systemd is told only of what this run replaced.
Reload(c) ==
  /\ At(c, "reload") /\ Goto(c, "allow")
  /\ loaded' = IF my[c].payload THEN file["unit"] ELSE loaded
  /\ UNCHANGED <<have, oauth, file, allow, decl, enabled, proc, midway>>

-----------------------------------------------------------------------------
(* The agent's configuration. *)

\* The root-owned file is written whole, atomically.
Allow(c) ==
  LET wanted == my[c].grant.services IN
  /\ At(c, "allow") /\ allow' = wanted
  /\ Notes(c, [my[c] EXCEPT !.transport = @ \/ allow # wanted], "list")
  /\ UNCHANGED <<have, oauth, file, loaded, decl, enabled, proc, midway>>

NoDecl == UNCHANGED <<have, oauth, file, loaded, allow, enabled, proc, midway>>

\* claude-code: native declarations are scrubbed in one write.
\* codex: when the list is not exact every entry goes, then the policy's come.
List(c) ==
  LET exact == decl = Declared(my[c].grant) IN
  /\ At(c, "list") /\ NoDecl
  /\ \/ exact /\ Goto(c, "pending") /\ UNCHANGED decl
     \/ /\ ~exact /\ Backend = "claude-code"
        /\ decl' = {} /\ Notes(c, [my[c] EXCEPT !.transport = TRUE], "pending")
     \/ /\ ~exact /\ Backend = "codex"
        /\ Notes(c, [my[c] EXCEPT !.left = decl, !.transport = TRUE], "remove")
        /\ UNCHANGED decl

Remove(c) ==
  /\ At(c, "remove") /\ NoDecl
  /\ \/ /\ my[c].left = {} /\ UNCHANGED decl
        /\ Notes(c, [my[c] EXCEPT !.left = my[c].grant.services], "add")
     \/ \E s \in my[c].left :
          decl' = decl \ {s} /\ Notes(c, [my[c] EXCEPT !.left = @ \ {s}], "remove")

Add(c) ==
  /\ At(c, "add") /\ NoDecl
  /\ \/ my[c].left = {} /\ Goto(c, "pending") /\ UNCHANGED decl
     \/ \E s \in my[c].left :
          decl' = decl \cup {s} /\ Notes(c, [my[c] EXCEPT !.left = @ \ {s}], "add")

-----------------------------------------------------------------------------
(* The runtime. *)

\* A daemon needs a session for every service of the policy it reads, and an
\* upstream that answers; systemd tries again what did not come up.
Ready == policy.services # {} /\ policy.services \subseteq oauth /\ file["broker"] # 0
Failing == [Off EXCEPT !.state = "failing"]
Fresh(unit) == [state |-> "active", broker |-> file["broker"], unit |-> unit, policy |-> policy]
Start(unit) == {Failing} \cup (IF Ready THEN {Fresh(unit)} ELSE {})

NoRuntime == UNCHANGED <<have, oauth, file, allow, decl, midway>>
Looks == NoRuntime /\ UNCHANGED <<loaded, enabled, proc>>

\* mcpOAuthPending.  A login activates only what is complete; it does not stop
\* a broker.
Pending(c) ==
  LET missing == my[c].grant.services \ oauth
      next    == IF my[c].op = "install" THEN "runtime" ELSE IF missing = {} THEN "enable" ELSE "done"
  IN At(c, "pending") /\ Looks /\ Notes(c, [my[c] EXCEPT !.pending = missing], next)

\* exactSystemdState: an answer that is neither yes nor no ends the install.
Runtime(c) ==
  /\ At(c, "runtime") /\ Looks /\ proc.state # "failing"
  /\ Notes(c, [my[c] EXCEPT !.enabled = enabled, !.active = (proc.state = "active")],
           IF my[c].pending # {} THEN "disable" ELSE IF enabled THEN "judge" ELSE "enable")

\* disable --now; like enable it makes systemd read its units again.
Disable(c) ==
  /\ At(c, "disable") /\ NoRuntime /\ Goto(c, "done")
  /\ IF my[c].enabled \/ my[c].active
     THEN enabled' = FALSE /\ proc' = Off /\ loaded' = file["unit"]
     ELSE UNCHANGED <<loaded, enabled, proc>>

AfterEnable(c) == IF my[c].op = "install" THEN "judge" ELSE "restart"

\* Mutant: the unit is started and not enabled.
EnableNot(c) == At(c, "enable") /\ Looks /\ Goto(c, AfterEnable(c))

Enable(c) ==
  /\ At(c, "enable") /\ NoRuntime /\ Goto(c, AfterEnable(c))
  /\ file["unit"] # 0 /\ enabled' = TRUE /\ loaded' = file["unit"] /\ UNCHANGED proc

\* Mutant: an active broker is restarted for another policy only.
RestartForPolicy(c) == ~my[c].active \/ proc.policy # my[c].grant

\* A broker that is not active, whose transport this run changed, or that
\* published the digest of another policy.
RestartNeeded(c) == ~my[c].active \/ my[c].transport \/ proc.policy # my[c].grant
Judge(c) == At(c, "judge") /\ Looks /\ Goto(c, IF RestartNeeded(c) THEN "restart" ELSE "done")

\* Mutant: the restart is not waited for.
RestartUnverified(c) ==
  /\ At(c, "restart") /\ NoRuntime /\ UNCHANGED <<loaded, enabled>>
  /\ proc' = [Fresh(loaded) EXCEPT !.state = "activating"] /\ Goto(c, "done")

\* restart, then is-active: one that does not come up ends the command.
Restart(c) ==
  /\ At(c, "restart") /\ proc' \in Start(loaded)
  /\ IF proc'.state = "active" THEN Goto(c, "done") /\ UNCHANGED midway
     ELSE Ends(c, "failed") /\ midway' = (midway \/ my[c].transport)
  /\ UNCHANGED <<have, oauth, file, loaded, allow, decl, enabled>>

\* The session document is saved as the browser returns; then the host activates.
Session(c) ==
  /\ At(c, "session") /\ oauth' = oauth \cup {my[c].service}
  /\ Goto(c, "policy") /\ UNCHANGED <<have, target, midway>>

Step(c) ==
  \/ EnsureBoundary(c) \/ ReadPolicy(c) \/ (\E f \in Files : EnsureFile(c, f)) \/ Reload(c)
  \/ Allow(c) \/ List(c) \/ Remove(c) \/ Add(c)
  \/ Pending(c) \/ Runtime(c) \/ Disable(c) \/ Enable(c) \/ Judge(c) \/ Restart(c) \/ Session(c)

-----------------------------------------------------------------------------
(* What `torio mcp status` proves of one moment. *)

verifyBrokerUser          == "broker user" \in have
verifyBrokerClientsGroup  == "clients group" \in have
verifyAgentIsBrokerClient == "agent client" \in have
verifyBrokerHome          == "broker home" \in have
verifyPolicyDocuments     == "policy directory" \in have /\ policy.services # {}
verifyBackendMCPConfig    == allow = policy.services /\ decl = Declared(policy)
probeMCPRuntimePresence   == proc.state # "off"
verifyMCPBrokerUnit       == enabled /\ proc.state = "active" /\ loaded = file["unit"]
verifyBrokerSockets       == proc.state = "active" /\ proc.policy = policy

VerifyMCPBroker ==
  /\ verifyBrokerUser /\ verifyBrokerClientsGroup /\ verifyAgentIsBrokerClient /\ verifyBrokerHome
  /\ verifyPolicyDocuments /\ verifyBackendMCPConfig
  /\ IF policy.services \subseteq oauth THEN verifyMCPBrokerUnit /\ verifyBrokerSockets
                                         ELSE ~probeMCPRuntimePresence

-----------------------------------------------------------------------------
(* systemd, the operator and the agent. *)

Elsewhere == UNCHANGED <<my, pc, result>>
Disturbed == clean' = [c \in Commands |-> FALSE] /\ calm' = [c \in Commands |-> FALSE]

\* Restart=on-failure: a broker that dies, or could not start, is started again
\* from the files and the policy of that moment.
Respawn ==
  /\ proc.state # "off"
  /\ proc' \in Start(loaded) /\ proc' # proc
  /\ calm' = [c \in Commands |-> FALSE]
  /\ Elsewhere /\ UNCHANGED <<host, boundary, file, loaded, allow, decl, enabled, clean, midway, hands>>

Reboot ==
  /\ loaded' = file["unit"]
  /\ proc' \in IF enabled THEN Start(file["unit"]) ELSE {Off}
  /\ midway' = FALSE
  /\ calm' = [c \in Commands |-> FALSE]
  /\ Elsewhere /\ UNCHANGED <<host, boundary, file, allow, decl, enabled, clean, hands>>

EditPolicy == \E services \in (SUBSET Services) \ {{}} :
  /\ "policy directory" \in have /\ policy.rev < MaxEdits
  /\ policy' = [rev |-> policy.rev + 1, services |-> services]
  /\ Disturbed /\ Elsewhere /\ UNCHANGED <<host, have, oauth, target, midway, hands>>

Upgrade ==
  /\ host < MaxReleases /\ host' = host + 1
  /\ calm' = [c \in Commands |-> FALSE]
  /\ Elsewhere /\ UNCHANGED <<boundary, target, clean, midway, hands>>

\* Between commands: of an install it interrupts nothing is claimed.
AgentDeclares == \E s \in Services :
  /\ hands < MaxHands /\ hands' = hands + 1 /\ \A c \in Commands : ~Running(c)
  /\ decl' = IF s \in decl THEN decl \ {s} ELSE decl \cup {s}
  /\ Disturbed /\ Elsewhere
  /\ UNCHANGED <<host, boundary, file, loaded, allow, enabled, proc, midway>>

Next ==
  \/ \E c \in Commands : StartInstall(c) \/ StartLogin(c) \/ Step(c) \/ Stop(c)
  \/ Respawn \/ Reboot \/ EditPolicy \/ Upgrade \/ AgentDeclares

Spec == Init /\ [][Next]_vars

-----------------------------------------------------------------------------
TypeOK ==
  /\ host \in Releases /\ have \subseteq Boundary /\ policy \in Policies
  /\ file \in [Files -> Releases] /\ loaded \in Releases
  /\ allow \subseteq Services /\ decl \subseteq Services /\ oauth \subseteq Services
  /\ enabled \in BOOLEAN /\ midway \in BOOLEAN /\ hands \in 0..MaxHands
  /\ proc \in Procs /\ my \in [Commands -> Jobs]
  /\ pc \in [Commands -> Steps]
  /\ result \in [Commands -> {"none", "ok", "failed"}]
  /\ clean \in [Commands -> BOOLEAN] /\ calm \in [Commands -> BOOLEAN]

\* All that c installed is there, and the unit starts at boot, and systemd has
\* started it, exactly where every session the policy needs is saved.
Placed(c) ==
  /\ file = my[c].release /\ have = Boundary
  /\ verifyPolicyDocuments /\ verifyBackendMCPConfig
  /\ enabled = (policy.services \subseteq oauth) /\ (enabled <=> probeMCPRuntimePresence)
  /\ proc.state = "active" => verifyBrokerSockets

\* And it is what runs: status proves it, from the unit and the broker of c.
Installed(c) ==
  /\ proc.state # "failing" => VerifyMCPBroker
  /\ proc.state = "active" => proc.broker = my[c].release["broker"] /\ proc.unit = my[c].release["unit"]

\* An install that reports success has put every file, the configuration, the
\* unit's enablement and a broker of the current policy in place, however the
\* installs before it ended, and boots and crashes do not change that.  Only
\* which broker and which unit run is in doubt, and only where an install
\* stopped after it replaced something and the box was not booted since.
InstallIsTrue ==
  \A c \in Commands :
    my[c].op = "install" /\ result[c] = "ok" /\ clean[c] =>
      Placed(c) /\ (~midway => Installed(c))

\* The same without the doubt: "re-run `torio mcp install`" is what a stopped
\* install tells the operator to do (internal/cli/mcp.go:223).
RerunIsTrue ==
  \A c \in Commands : my[c].op = "install" /\ result[c] = "ok" /\ clean[c] => Placed(c) /\ Installed(c)

\* Whichever of several logins is the last to save its session brings the
\* broker up: none is left complete, reported stored, and not started.
LastLoginActivates ==
  /\ \A c \in Commands : ~Running(c) /\ (my[c].op = "login" => result[c] = "ok")
  /\ \E c \in Commands : my[c].op = "login" /\ clean[c]
  /\ policy.services \subseteq oauth
  => enabled /\ proc.state # "off"

\* No credential is stored and no broker is enabled or runs before the custody
\* boundary is complete, wherever the first installs stopped.
CustodyFirst == oauth # {} \/ enabled \/ proc.state # "off" => have = Boundary

\* An install that follows a successful one, with nothing changed between and a
\* broker that is up or rightly down, changes nothing.
LeftAlone == [][\A c \in Commands : calm[c] /\ Installing(c) /\ pc'[c] # pc[c] /\ ~midway =>
                  UNCHANGED <<have, oauth, target>>]_vars
=============================================================================
