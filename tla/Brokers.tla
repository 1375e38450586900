------------------------------ MODULE Brokers ------------------------------
(***************************************************************************)
(* The two processes that decide for the operator: the agent proxy on the  *)
(* host and the MCP broker in the box.  They share no state, so an         *)
(* execution is one of either; both keep what AuditedBroker promises.      *)
(***************************************************************************)
EXTENDS Mediation, McpBroker

vars == <<allVars, mcpVars>>

Init ==
  /\ system \in {"agent", "mcp"} /\ proc = "off" /\ runs = 0
  /\ failed = FALSE /\ writer = Nobody /\ conn = [c \in Conns |-> Gone] /\ asked = 0
  /\ recorded = {} /\ taken = {}
  /\ policy = Tools /\ offered = Tools /\ loaded = {} /\ digest = Unnamed
  /\ ready = {} /\ changes = 0

\* The steps of a connection that are not the peer's.
Own(c) == Sync(c) \/ Act(c) \/ Answer(c) \/ Reply(c)

Next ==
  \/ MediationNext /\ UNCHANGED mcpVars
  \/ BrokerNext
  \/ (\E c \in Conns : Own(c) \/ Write(c) \/ HangUp(c)) /\ UNCHANGED mcpVars
  \/ (IF Mcp THEN proc # "off" /\ Down ELSE Kill /\ UNCHANGED mcpVars)

\* The steps of a handler are taken: the upstream agent answers, the calls and
\* the enumeration of tools have timeouts, the dialog expires, Go's mutex
\* starves nobody.  A guest need not hang up, unless its session has ended.
Fairness ==
  /\ \A c \in Conns :
       /\ WF_vars((Own(c) \/ MediationStep(c)) /\ UNCHANGED mcpVars)
       /\ WF_vars(BuildFails(c))
       /\ SF_vars(Write(c) /\ UNCHANGED mcpVars)
       /\ WF_vars(Agent /\ proc = "stopping" /\ HangUp(c) /\ UNCHANGED mcpVars)
  /\ WF_vars(Stopped /\ UNCHANGED mcpVars) /\ WF_vars(BrokerEnds)

Spec == Init /\ [][Next]_vars /\ Fairness

-----------------------------------------------------------------------------
TypeOK ==
  /\ system \in {"agent", "mcp"} /\ runs \in 0..MaxRuns /\ failed \in BOOLEAN
  /\ proc \in {"off", "connect", "digest", "notify", "up", "stopping"}
  /\ writer \in Conns \cup {Nobody} /\ asked \in 0..MaxRequests
  /\ conn \in [Conns -> [at : Steps, id : 0..MaxRequests, use : Uses \cup {"none"}, ok : BOOLEAN,
                        service : Services \cup {"none"}, cursor : Cursors \cup {"none"}]]
  /\ recorded \subseteq Decisions /\ taken \subseteq Decisions
  /\ policy \in Policies /\ loaded \in Policies /\ offered \in Policies
  /\ digest \in Policies \cup {Unnamed} /\ ready \subseteq Services /\ changes \in 0..MaxChanges

\* What is on disk and has still to take effect.
Held == {Decision(c) : c \in {x \in Conns : conn[x].at \in {"act", "answer"}}}

Abstract == INSTANCE AuditedBroker WITH
  log <- recorded, held <- Held,
  sink <- IF proc = "off" THEN "down" ELSE IF failed THEN "shut" ELSE "open"

\* A signature, a call, a list of keys and a refusal follow their durable
\* record, each its own; after a failed write no connection of the process gets
\* another decision (internal/sshagent/proxy.go:219, audit.go:66).
AuditedFirst == Abstract!Spec

\* A broker whose digest names the policy in policy.d forwards only calls of
\* tools that policy grants: an edit it has not read is always visible to
\* `torio mcp status` as another digest.
DriftVisible == [][
  \A d \in taken' \ taken : Mcp /\ d.ok /\ digest = policy => d.use \in policy]_vars

\* Every request is answered or its connection ends, every tool enumeration
\* comes to an end whatever cursors the upstream invents, and a session's stop
\* returns (internal/cli/mediate.go:44).
RequestsEnd ==
  /\ \A c \in Conns : ~Resting(c) ~> Resting(c)
  /\ proc = "stopping" ~> proc = "off"
=============================================================================
