----------------------------- MODULE McpBroker -----------------------------
(***************************************************************************)
(* torio-mcp-broker (cmd/torio-mcp-broker, internal/mcpbroker): it starts  *)
(* with the policy it read, all of its services or none, and forwards the  *)
(* calls of the tools the policy grants.                                   *)
(***************************************************************************)
EXTENDS AuditSink

CONSTANTS
  Services,   \* services a policy may name
  ServiceOf,  \* ServiceOf[t]: the service tool t belongs to
  Cursors,    \* what an upstream may answer for the next page
  MaxChanges  \* bound: edits of the policy and changes of the upstream's tools

ASSUME ServiceOfAssumption == ServiceOf \in [Tools -> Services]
ASSUME ChangesAssumption   == MaxChanges \in Nat

VARIABLES
  policy,    \* the tools the documents in policy.d grant
  loaded,    \* the policy this process read
  digest,    \* what .policy.sha256 names: a policy, or nothing
  offered,   \* the tools the upstreams offer
  ready,     \* services connected and validated
  changes    \* edits and changes so far

policyVars == <<policy, loaded, digest>>
worldVars  == <<offered, changes>>
mcpVars    == <<policyVars, worldVars, ready>>

Mcp        == system = "mcp"
Unnamed    == {"none"}
Policies   == SUBSET Tools
ASSUME UnnamedAssumption == Unnamed \notin Policies
Granted(s) == {t \in loaded : ServiceOf[t] = s}
Serves     == {ServiceOf[t] : t \in loaded}

\* NewServiceServer: every tool of the grant must be there.
Valid(s) == Granted(s) \subseteq offered

\* loadPolicyDir, openAuditFile; a policy without a service is refused.
StartBroker ==
  /\ Mcp /\ Launch("connect") /\ policy # {}
  /\ loaded' = policy /\ ready' = {} /\ UNCHANGED <<policy, digest, worldVars>>

\* RuntimeDirectory= goes with the process.
Down == /\ Exit /\ digest' = Unnamed /\ ready' = {} /\ loaded' = {}
        /\ UNCHANGED <<policy, worldVars>>

\* connectUpstream and the first validation of a service.
Connect(s) ==
  /\ Mcp /\ proc = "connect" /\ s \in Serves \ ready /\ Valid(s)
  /\ ready' = ready \cup {s} /\ UNCHANGED <<allVars, policyVars, worldVars>>

\* Any of them fails: the daemon exits.
StartFails == Mcp /\ proc \in {"connect", "digest", "notify"} /\ Down

\* All sockets, the digest, and only then READY=1.
Listen ==
  /\ Mcp /\ proc = "connect" /\ ready = Serves /\ proc' = "digest"
  /\ UNCHANGED <<system, runs, sinkVars, conn, asked, taken, mcpVars>>

\* Fault: the digest of what is in policy.d by now.
WriteDigestOfFiles ==
  /\ Mcp /\ proc = "digest" /\ digest' = policy /\ proc' = "notify"
  /\ UNCHANGED <<system, runs, sinkVars, conn, asked, taken, policy, loaded, worldVars, ready>>

WriteDigest ==
  /\ Mcp /\ proc = "digest" /\ digest' = loaded /\ proc' = "notify"
  /\ UNCHANGED <<system, runs, sinkVars, conn, asked, taken, policy, loaded, worldVars, ready>>

Notify ==
  /\ Mcp /\ proc = "notify" /\ proc' = "up"
  /\ UNCHANGED <<system, runs, sinkVars, conn, asked, taken, mcpVars>>

\* A failed accept of one service ends them all, as a signal does.
StopBroker ==
  /\ Mcp /\ proc = "up" /\ proc' = "stopping"
  /\ UNCHANGED <<system, runs, sinkVars, conn, asked, taken, mcpVars>>

\* The accept loops are waited for, the connections are not.
BrokerEnds == Mcp /\ proc = "stopping" /\ Down

-----------------------------------------------------------------------------
\* torio-mcp-connect dials the socket of a service.
AcceptPeer(c) == \E s \in Serves :
  /\ Mcp /\ proc = "up" /\ conn[c].at = "none"
  /\ conn' = [conn EXCEPT ![c].at = "build", ![c].service = s]
  /\ UNCHANGED <<lifeVars, sinkVars, asked, taken, mcpVars>>

\* listAllTools: one more page; only the cursor just used is recognised.
NextPage(c) == \E next \in Cursors \ {conn[c].cursor} :
  /\ Mcp /\ conn[c].at = "build" /\ conn' = [conn EXCEPT ![c].cursor = next]
  /\ UNCHANGED <<lifeVars, sinkVars, asked, taken, mcpVars>>

\* The last page: the connection is served if the grant is still whole.
Build(c) ==
  /\ Mcp /\ conn[c].at = "build" /\ Valid(conn[c].service) /\ Rest(c)
  /\ UNCHANGED <<lifeVars, sinkVars, asked, taken, mcpVars>>

\* Fault: no time limit, and no cursor is remembered.
BuildFailsWhole(c) ==
  /\ Mcp /\ conn[c].at = "build" /\ ~Valid(conn[c].service) /\ Leave(c)
  /\ UNCHANGED <<lifeVars, sinkVars, asked, taken, mcpVars>>

\* A repeated cursor, a missing tool, an upstream error, or the thirty seconds.
BuildFails(c) ==
  /\ Mcp /\ conn[c].at = "build" /\ Leave(c)
  /\ UNCHANGED <<lifeVars, sinkVars, asked, taken, mcpVars>>

\* auditMiddleware: the tools of the service's grant are allowed.
Call(c) == \E t \in Tools :
  /\ Mcp /\ Request(c, t, t \in Granted(conn[c].service), "record")
  /\ UNCHANGED mcpVars

EditPolicy == \E p \in Policies :
  /\ Mcp /\ changes < MaxChanges /\ p # policy
  /\ policy' = p /\ changes' = changes + 1
  /\ UNCHANGED <<allVars, loaded, digest, offered, ready>>

UpstreamChanges == \E o \in Policies :
  /\ Mcp /\ changes < MaxChanges /\ o # offered
  /\ offered' = o /\ changes' = changes + 1
  /\ UNCHANGED <<allVars, policyVars, ready>>

BrokerNext ==
  \/ StartBroker \/ StartFails \/ Listen \/ WriteDigest \/ Notify \/ StopBroker \/ BrokerEnds
  \/ (\E s \in Services : Connect(s)) \/ EditPolicy \/ UpstreamChanges
  \/ \E c \in Conns : AcceptPeer(c) \/ NextPage(c) \/ Build(c) \/ BuildFails(c) \/ Call(c)
=============================================================================
