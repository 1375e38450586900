----------------------------- MODULE Mediation -----------------------------
(***************************************************************************)
(* The mediated agent of one session (internal/sshagent proxy.go,          *)
(* internal/cli/mediate.go): it lists and signs with one pinned key, asks  *)
(* the operator for every signature, and ends with the session.            *)
(***************************************************************************)
EXTENDS AuditSink

Agent == system = "agent"

\* startMediation; one that is refused leaves nothing behind.
StartMediation == Agent /\ Launch("up")

\* Serve accepts.
Accept(c) ==
  /\ Agent /\ proc = "up" /\ conn[c].at = "none" /\ Goto(c, "dial")
  /\ UNCHANGED <<lifeVars, sinkVars, asked, taken>>

\* The operator's agent is dialled for every connection.
Dial(c) ==
  /\ Agent /\ conn[c].at = "dial" /\ (Goto(c, "idle") \/ Leave(c))
  /\ UNCHANGED <<lifeVars, sinkVars, asked, taken>>

\* handle: only the pinned key's list and signature go on from here.
AskIdentities(c) == Agent /\ Request(c, "identities", FALSE, "fetch")
AskSign(c)       == Agent /\ Request(c, "sign", FALSE, "confirm")
AskRefused(c)    == Agent /\ Request(c, "refused", FALSE, "record")

Decide(c, ok) == conn' = [conn EXCEPT ![c].ok = ok, ![c].at = "record"]

\* identities: the key may have been unloaded since; a list that cannot be
\* had ends the connection.
Fetch(c) ==
  /\ Agent /\ conn[c].at = "fetch"
  /\ ((\E ok \in BOOLEAN : Decide(c, ok)) \/ Leave(c))
  /\ UNCHANGED <<lifeVars, sinkVars, asked, taken>>

\* Confirm: Allow; or Deny, a dialog that expires or that the stop closes.
Confirm(c) ==
  /\ Agent /\ conn[c].at = "confirm" /\ \E ok \in BOOLEAN : Decide(c, ok)
  /\ UNCHANGED <<lifeVars, sinkVars, asked, taken>>

\* The session's command ended: stop cancels, and then waits for every
\* connection.
Stop == /\ Agent /\ proc = "up" /\ proc' = "stopping"
        /\ UNCHANGED <<system, runs, sinkVars, conn, asked, taken>>

Stopped == /\ Agent /\ proc = "stopping" /\ \A c \in Conns : conn[c].at = "none"
           /\ Exit

MediationStep(c) == Dial(c) \/ Fetch(c) \/ Confirm(c)

Guest(c) == Accept(c) \/ AskIdentities(c) \/ AskSign(c) \/ AskRefused(c)

MediationNext == StartMediation \/ Stop \/ Stopped \/ \E c \in Conns : Guest(c) \/ MediationStep(c)
=============================================================================
