----------------------------- MODULE AuditSink -----------------------------
(***************************************************************************)
(* The recorder both processes share between their connections             *)
(* (internal/sshagent/audit.go, internal/mcpbroker/audit.go are one text), *)
(* and the connections themselves.                                         *)
(***************************************************************************)
EXTENDS Naturals

CONSTANTS
  Conns,        \* connections one process has at a time
  Tools,        \* the tools an upstream may offer
  MaxRequests,  \* bound: requests that need a decision,
  MaxRuns       \*        starts of the process

ASSUME BoundsAssumption == MaxRequests \in Nat /\ MaxRuns \in Nat

VARIABLES
  system,    \* the process looked at: "agent" proxy or "mcp" broker
  proc,      \* where it is between "off", "up" and "stopping"
  runs,      \* how often it was started
  failed,    \* the recorder's latch
  writer,    \* the connection in the recorder's critical section
  conn,      \* conn[c]: the step it is at, its request and its decision; the
             \*          service it is for and the page of tools it waits for
  asked,     \* requests so far
  recorded,  \* decisions on disk
  taken      \* decisions that took effect

sinkVars == <<failed, writer, recorded>>
lifeVars == <<system, proc, runs>>
allVars  == <<lifeVars, sinkVars, conn, asked, taken>>

\* What a decision is about: the pinned key's list or signature, a request the
\* proxy refuses whole (another key, an extension, a change), a tool.
Uses      == {"identities", "sign", "refused"} \cup Tools
Decisions == [id : 1..MaxRequests, use : Uses, ok : BOOLEAN]
Nobody    == "nobody"
ASSUME NobodyAssumption == Nobody \notin Conns
Steps     == {"none", "dial", "build", "idle", "fetch", "confirm",
              "record", "sync", "act", "wait", "answer"}
Gone      == [at |-> "none", id |-> 0, use |-> "none", ok |-> FALSE,
              service |-> "none", cursor |-> "none"]

\* Fault: the record carries what the peer asked with it.
WholeRequest(c) == conn[c]

\* Between requests, or not connected.
Resting(c)  == conn[c].at \in {"none", "idle"}
Decision(c) == [id |-> conn[c].id, use |-> conn[c].use, ok |-> conn[c].ok]

Goto(c, to)  == conn' = [conn EXCEPT ![c].at = to]
Leave(c)     == conn' = [conn EXCEPT ![c] = Gone]
Rest(c)      == conn' = [conn EXCEPT ![c] = [Gone EXCEPT !.at = "idle", !.service = conn[c].service]]

\* A request comes in on c; `to` is the first thing its handler does.
Request(c, use, ok, to) ==
  /\ conn[c].at = "idle" /\ asked < MaxRequests
  /\ asked' = asked + 1
  /\ conn' = [conn EXCEPT ![c].at = to, ![c].id = asked + 1, ![c].use = use, ![c].ok = ok]
  /\ UNCHANGED <<lifeVars, sinkVars, taken>>

\* The decision could not be recorded, or the upstream not reached: the proxy
\* ends the connection, the broker answers with an error.
GiveUp(c) == IF system = "agent" THEN Leave(c) ELSE Rest(c)

\* What follows a record: the pinned key signs and a tool is called upstream;
\* everything else is an answer.
Acts(c) == conn[c].ok /\ conn[c].use \in {"sign"} \cup Tools

\* Fault: the latch is not read.
WriteOn(c) ==
  /\ conn[c].at = "record" /\ writer = Nobody
  /\ writer' = c /\ Goto(c, "sync")
  /\ UNCHANGED <<lifeVars, failed, recorded, asked, taken>>

\* Record: the latch is read and one line is written under the mutex.
Write(c) ==
  /\ conn[c].at = "record" /\ writer = Nobody
  /\ \/ failed /\ GiveUp(c) /\ UNCHANGED <<writer, failed>>
     \/ ~failed /\ writer' = c /\ Goto(c, "sync") /\ UNCHANGED failed
     \/ ~failed /\ failed' = TRUE /\ GiveUp(c) /\ UNCHANGED writer
  /\ UNCHANGED <<lifeVars, recorded, asked, taken>>

\* The line is synced, or the recorder is latched.
Sync(c) ==
  /\ conn[c].at = "sync" /\ writer' = Nobody
  /\ \/ /\ recorded' = recorded \cup {Decision(c)}
        /\ Goto(c, IF Acts(c) THEN "act" ELSE "answer") /\ UNCHANGED failed
     \/ /\ failed' = TRUE /\ GiveUp(c)
        /\ \E s \in SUBSET {Decision(c)} : recorded' = recorded \cup s
  /\ UNCHANGED <<lifeVars, asked, taken>>

\* The request or the call goes upstream; or the upstream is gone.
Act(c) ==
  /\ conn[c].at = "act"
  /\ \/ taken' = taken \cup {Decision(c)} /\ Goto(c, "wait")
     \/ GiveUp(c) /\ UNCHANGED taken
  /\ UNCHANGED <<lifeVars, sinkVars, asked>>

\* The answer is written to the peer, who may have hung up.
Answer(c) ==
  /\ conn[c].at = "answer"
  /\ \/ taken' = taken \cup {Decision(c)} /\ Rest(c)
     \/ Leave(c) /\ UNCHANGED taken
  /\ UNCHANGED <<lifeVars, sinkVars, asked>>

\* The upstream answers, or fails.
Reply(c) ==
  /\ conn[c].at = "wait" /\ (Rest(c) \/ Leave(c))
  /\ UNCHANGED <<lifeVars, sinkVars, asked, taken>>

HangUp(c) ==
  /\ conn[c].at = "idle" /\ Leave(c)
  /\ UNCHANGED <<lifeVars, sinkVars, asked, taken>>

\* A process begins with a recorder of its own, whatever the tail it appends to.
Launch(to) ==
  /\ proc = "off" /\ runs < MaxRuns /\ proc' = to /\ runs' = runs + 1 /\ failed' = FALSE
  /\ UNCHANGED <<system, writer, conn, asked, recorded, taken>>

\* It is gone, and with it every connection; a line written and not synced
\* may have reached the disk.
Exit ==
  /\ proc' = "off" /\ conn' = [c \in Conns |-> Gone] /\ writer' = Nobody
  /\ \E s \in SUBSET {Decision(c) : c \in {x \in Conns : writer = x}} : recorded' = recorded \cup s
  /\ UNCHANGED <<system, runs, failed, asked, taken>>

Kill == proc # "off" /\ Exit
=============================================================================
