--------------------------- MODULE AuditedBroker ---------------------------
(***************************************************************************)
(* What the agent proxy (internal/sshagent) and the MCP broker             *)
(* (internal/mcpbroker) promise alike: a decision is durable before it     *)
(* takes effect, it takes effect once, and a process whose log has an      *)
(* uncertain tail decides nothing more.                                    *)
(***************************************************************************)
CONSTANT Decisions

VARIABLES
  log,    \* the decisions on disk
  held,   \* recorded by the process that runs, and still to take effect
  taken,  \* the decisions that took effect
  sink    \* "down": no process; "open": it may record; "shut": never again

vars == <<log, held, taken, sink>>

Init == log = {} /\ held = {} /\ taken = {} /\ sink = "down"

\* A line whose sync was never confirmed may be on disk all the same.
Strays == {{}} \cup {{d} : d \in Decisions \ log}

Start == sink = "down" /\ sink' = "open" /\ UNCHANGED <<log, held, taken>>

Record(d) ==
  /\ sink = "open" /\ d \notin log
  /\ log' = log \cup {d} /\ held' = held \cup {d} /\ UNCHANGED <<taken, sink>>

Take(d) ==
  /\ d \in held
  /\ held' = held \ {d} /\ taken' = taken \cup {d} /\ UNCHANGED <<log, sink>>

\* The connection a decision was made for ends first.
Forget(d) == d \in held /\ held' = held \ {d} /\ UNCHANGED <<log, taken, sink>>

\* A partial write or a failed sync.
Shut == /\ sink = "open" /\ sink' = "shut"
        /\ \E s \in Strays : log' = log \cup s
        /\ UNCHANGED <<held, taken>>

\* The process ends, in order or not, and with it what it held.
End == /\ sink # "down" /\ sink' = "down" /\ held' = {}
       /\ \E s \in Strays : log' = log \cup s
       /\ UNCHANGED taken

Next == Start \/ Shut \/ End \/ \E d \in Decisions : Record(d) \/ Take(d) \/ Forget(d)

Spec == Init /\ [][Next]_vars
=============================================================================
