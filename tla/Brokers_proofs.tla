--------------------------- MODULE Brokers_proofs ---------------------------
(***************************************************************************)
(* Proofs about Brokers: the agent proxy and the MCP broker implement      *)
(* AuditedBroker for any number of connections, requests and starts.  What *)
(* makes it inductive: requests under way are numbered apart, one that is  *)
(* not recorded yet has a number no record carries, and the recorder's     *)
(* mutex is held by the one connection whose line is not synced, while the *)
(* latch is open.                                                          *)
(***************************************************************************)
EXTENDS Brokers, TLAPS

Records == [at : Steps, id : 0..MaxRequests, use : Uses \cup {"none"}, ok : BOOLEAN,
            service : Services \cup {"none"}, cursor : Cursors \cup {"none"}]

\* TypeOK in two halves: what both processes share, and the broker's own.
SharedTyped ==
  /\ system \in {"agent", "mcp"} /\ runs \in 0..MaxRuns /\ failed \in BOOLEAN
  /\ proc \in {"off", "connect", "digest", "notify", "up", "stopping"}
  /\ writer \in Conns \cup {Nobody} /\ asked \in 0..MaxRequests
  /\ conn \in [Conns -> Records]
  /\ recorded \subseteq Decisions /\ taken \subseteq Decisions

McpTyped ==
  /\ policy \in Policies /\ loaded \in Policies /\ offered \in Policies
  /\ digest \in Policies \cup {Unnamed} /\ ready \subseteq Services /\ changes \in 0..MaxChanges

LEMMA TypeSplit == TypeOK <=> SharedTyped /\ McpTyped
BY DEF TypeOK, SharedTyped, McpTyped, Records

\* A request before its record, and one recorded that has still to take effect.
Open == {"fetch", "confirm", "record", "sync"}
Due  == {"act", "answer"}

Alive    == \A c \in Conns : conn[c].at # "none" => proc # "off"
OneWriter == /\ \A c \in Conns : conn[c].at = "sync" <=> writer = c
             /\ writer # Nobody => ~failed
Numbered == \A c \in Conns : conn[c].at \in Open \cup Due =>
              conn[c].id \in 1..asked /\ conn[c].use \in Uses
Apart    == \A c, e \in Conns :
              conn[c].at \in Open \cup Due /\ conn[e].at \in Open \cup Due
              /\ conn[c].id = conn[e].id => c = e
Unrecorded ==
  /\ \A d \in recorded : d.id <= asked
  /\ \A c \in Conns : conn[c].at \in Open => \A d \in recorded : d.id # conn[c].id

Core == Alive /\ OneWriter /\ Numbered /\ Apart /\ Unrecorded
IInv == SharedTyped /\ Core

\* A step of the abstract specification, or none.
AStep == [Abstract!Next]_(Abstract!vars)

-----------------------------------------------------------------------------
(* What a step does to the connections. *)

\* Only c's record changes.
Only(c) == conn' \in [Conns -> Records] /\ \A e \in Conns \ {c} : conn'[e] = conn[e]

LEMMA GotoOnly ==
  ASSUME SharedTyped, NEW c \in Conns, NEW to \in Steps, Goto(c, to)
  PROVE  /\ Only(c) /\ conn'[c].at = to
         /\ conn'[c].id = conn[c].id /\ conn'[c].use = conn[c].use /\ conn'[c].ok = conn[c].ok
<1> DEFINE r == [conn[c] EXCEPT !.at = to]
<1>1. conn[c] \in Records BY DEF SharedTyped
<1>2. r \in Records BY <1>1 DEF Records
<1>3. conn' = [conn EXCEPT ![c] = r] BY DEF Goto
<1>4. r.at = to /\ r.id = conn[c].id /\ r.use = conn[c].use /\ r.ok = conn[c].ok
  BY <1>1 DEF Records
<1> HIDE DEF r, Records
<1> QED BY <1>2, <1>3, <1>4 DEF SharedTyped, Only

LEMMA GoneTyped == Gone \in Records
BY BoundsAssumption DEF Gone, Records, Steps

LEMMA LeaveOnly ==
  ASSUME SharedTyped, NEW c \in Conns, Leave(c)
  PROVE  Only(c) /\ conn'[c].at = "none"
<1>1. conn'[c] = Gone BY DEF SharedTyped, Leave
<1>2. conn'[c].at = "none" BY <1>1 DEF Gone
<1> HIDE DEF Gone
<1> QED BY <1>2, GoneTyped DEF SharedTyped, Only, Leave

LEMMA RestOnly ==
  ASSUME SharedTyped, NEW c \in Conns, Rest(c)
  PROVE  Only(c) /\ conn'[c].at = "idle"
<1> DEFINE g == Gone
<1>1. g \in Records BY GoneTyped
<1>2. conn[c].service \in Services \cup {"none"} /\ "idle" \in Steps BY DEF SharedTyped, Records, Steps
<1> HIDE DEF g
<1> DEFINE r == [g EXCEPT !.at = "idle", !.service = conn[c].service]
<1>3. r \in Records /\ r.at = "idle" BY <1>1, <1>2 DEF Records
<1>4. conn' = [conn EXCEPT ![c] = r] BY DEF Rest, g
<1> HIDE DEF r, Records
<1> QED BY <1>3, <1>4 DEF SharedTyped, Only

LEMMA GiveUpOnly ==
  ASSUME SharedTyped, NEW c \in Conns, GiveUp(c)
  PROVE  Only(c) /\ conn'[c].at \in {"none", "idle"}
BY LeaveOnly, RestOnly DEF GiveUp

LEMMA DecisionTyped ==
  ASSUME IInv, NEW c \in Conns, conn[c].at \in Open \cup Due
  PROVE  Decision(c) \in Decisions /\ Decision(c).id = conn[c].id
<1>1. conn[c].ok \in BOOLEAN BY DEF IInv, SharedTyped, Records
<1>2. conn[c].id \in 1..asked /\ conn[c].use \in Uses BY DEF IInv, Core, Numbered
<1>3. 1..asked \subseteq 1..MaxRequests BY BoundsAssumption DEF IInv, SharedTyped
<1> QED BY <1>1, <1>2, <1>3 DEF Decision, Decisions

-----------------------------------------------------------------------------
(* The kinds of step, by what they do to the recorder and the connections. *)

\* The recorder and the connections stay: the process or the world moves on.
LEMMA StaysStep ==
  ASSUME IInv, UNCHANGED <<conn, writer, failed, asked, recorded, taken>>,
         proc # "off", proc' # "off"
  PROVE  Core' /\ AStep
<1>1. Held' = Held BY DEF Held, Decision
<1>2. Core'
  BY DEF IInv, Core, Alive, OneWriter, Numbered, Apart, Unrecorded
<1> QED BY <1>1, <1>2 DEF AStep, Abstract!vars

\* A connection moves where it holds no decision, before and after; the
\* recorder may be latched, by whoever may write.
LEMMA IdleStep ==
  ASSUME IInv, NEW c \in Conns, Only(c), proc' = proc, proc # "off",
         conn[c].at \notin Due \cup {"sync"}, conn'[c].at \notin Open \cup Due,
         UNCHANGED <<writer, asked, recorded, taken>>,
         failed' = failed \/ (writer = Nobody /\ ~failed /\ failed' = TRUE)
  PROVE  Core' /\ AStep
<1>1. Held' = Held BY DEF Held, Decision, Only, Due
<1>2. Core'
  <2>1. Alive' BY DEF Alive, IInv, Core
  <2>2. OneWriter' BY DEF OneWriter, IInv, Core, Only, Open, Due
  <2>3. Numbered' /\ Apart' BY DEF Numbered, Apart, IInv, Core, Only
  <2>4. Unrecorded' BY DEF Unrecorded, IInv, Core, Only
  <2> QED BY <2>1, <2>2, <2>3, <2>4 DEF Core
<1>3. AStep
  <2>1. CASE failed' = failed BY <1>1, <2>1 DEF AStep, Abstract!vars
  <2>2. CASE ~failed /\ failed' = TRUE
    BY <1>1, <2>2 DEF AStep, Abstract!Next, Abstract!Shut, Abstract!Strays
  <2> QED BY <2>1, <2>2
<1> QED BY <1>2, <1>3

\* A decision is made, or its line written.
LEMMA DecideStep ==
  ASSUME IInv, NEW c \in Conns, Only(c), proc' = proc, proc # "off",
         conn[c].at \in Open \ {"sync"}, conn'[c].at \in Open,
         conn'[c].id = conn[c].id, conn'[c].use = conn[c].use,
         UNCHANGED <<failed, asked, recorded, taken>>,
         conn'[c].at = "sync" => writer = Nobody /\ writer' = c /\ ~failed,
         conn'[c].at # "sync" => writer' = writer
  PROVE  Core' /\ AStep
<1>1. Held' = Held BY DEF Held, Decision, Only, Open
<1>2. Core'
  <2>1. Alive' BY DEF Alive, IInv, Core
  <2>2. OneWriter' BY NobodyAssumption DEF OneWriter, IInv, Core, Only, Open
  <2>3. Numbered' /\ Apart' BY DEF Numbered, Apart, IInv, Core, Only
  <2>4. Unrecorded' BY DEF Unrecorded, IInv, Core, Only
  <2> QED BY <2>1, <2>2, <2>3, <2>4 DEF Core
<1> QED BY <1>1, <1>2 DEF AStep, Abstract!vars

\* A request comes in, under a number of its own.
LEMMA RequestStep ==
  ASSUME IInv, NEW c \in Conns, NEW use \in Uses, NEW ok \in BOOLEAN, NEW to \in Open \ {"sync"},
         Request(c, use, ok, to), proc' = proc
  PROVE  Only(c) /\ asked' \in 0..MaxRequests /\ Core' /\ AStep
<1> DEFINE r == [conn[c] EXCEPT !.at = to, !.id = asked + 1, !.use = use, !.ok = ok]
<1>1. asked \in Nat /\ asked + 1 \in 0..MaxRequests /\ asked' = asked + 1
  BY BoundsAssumption DEF Request, IInv, SharedTyped
<1>2. conn[c] \in Records /\ to \in Steps BY DEF IInv, SharedTyped, Open, Steps
<1>3. /\ r \in Records /\ r.at = to /\ r.id = asked + 1 /\ r.use = use
  BY <1>1, <1>2 DEF Records
<1>4. conn' = [conn EXCEPT ![c] = r] BY DEF Request
<1>5. conn[c].at = "idle" BY DEF Request
<1> HIDE DEF r, Records
<1>6. Only(c) /\ conn'[c] = r BY <1>3, <1>4 DEF IInv, SharedTyped, Only
<1>7. Held' = Held BY <1>3, <1>5, <1>6 DEF Held, Decision, Only, Open
<1>8. UNCHANGED <<writer, failed, recorded, taken>> BY DEF Request, sinkVars
<1>9. Core'
  <2>1. Alive' BY <1>5, <1>6 DEF Alive, IInv, Core, Only
  <2>2. OneWriter' BY <1>3, <1>5, <1>6, <1>8 DEF OneWriter, IInv, Core, Only, Open
  <2>3. Numbered' BY <1>1, <1>3, <1>6 DEF Numbered, IInv, Core, Only
  <2>4. Apart'
    <3>1. ASSUME NEW e \in Conns \ {c}, conn[e].at \in Open \cup Due
          PROVE  conn[e].id # asked + 1
      BY <1>1, <3>1 DEF Numbered, IInv, Core
    <3> QED BY <1>3, <1>6, <3>1 DEF Apart, IInv, Core, Only
  <2>5. Unrecorded'
    <3>1. \A d \in recorded : d.id \in 1..MaxRequests BY DEF IInv, SharedTyped, Decisions
    <3>2. \A d \in recorded : d.id <= asked + 1 /\ d.id # asked + 1
      BY <1>1, <3>1 DEF Unrecorded, IInv, Core
    <3> QED BY <1>1, <1>3, <1>6, <1>8, <3>2 DEF Unrecorded, IInv, Core, Only
  <2> QED BY <2>1, <2>2, <2>3, <2>4, <2>5 DEF Core
<1> QED BY <1>1, <1>6, <1>7, <1>8, <1>9 DEF AStep, Abstract!vars

\* The line is synced: the decision is on disk and falls due.
LEMMA SyncedStep ==
  ASSUME IInv, NEW c \in Conns, NEW to \in Due, conn[c].at = "sync", Goto(c, to),
         recorded' = recorded \cup {Decision(c)}, writer' = Nobody,
         UNCHANGED <<proc, failed, asked, taken>>
  PROVE  Only(c) /\ recorded' \subseteq Decisions /\ Core' /\ AStep
<1> DEFINE d == Decision(c)
<1>1. d \in Decisions /\ d.id = conn[c].id BY DecisionTyped DEF Open
<1>2. /\ Only(c) /\ conn'[c].at = to /\ conn'[c].id = conn[c].id
      /\ conn'[c].use = conn[c].use /\ conn'[c].ok = conn[c].ok
  BY GotoOnly DEF IInv, Due, Steps
<1>3. \A e \in recorded : e.id # conn[c].id BY DEF IInv, Core, Unrecorded, Open
<1>4. d \notin recorded BY <1>1, <1>3
<1>5. proc # "off" /\ writer = c /\ ~failed /\ writer # Nobody
  BY NobodyAssumption DEF IInv, Core, Alive, OneWriter
<1>6. conn[c].id \in 1..asked BY DEF IInv, Core, Numbered, Open
<1>7. Core'
  <2>1. Alive' BY <1>5 DEF Alive
  <2>2. OneWriter' BY <1>2, <1>5, NobodyAssumption DEF OneWriter, IInv, Core, Only, Due
  <2>3. Numbered' BY <1>2 DEF Numbered, IInv, Core, Only, Open
  <2>4. Apart' BY <1>2 DEF Apart, IInv, Core, Only, Open
  <2>5. Unrecorded'
    <3>1. ASSUME NEW e \in Conns, conn'[e].at \in Open
          PROVE  e # c /\ conn[e].at \in Open /\ conn[e].id # conn[c].id /\ conn'[e] = conn[e]
      BY <1>2, <3>1 DEF Apart, IInv, Core, Only, Open, Due
    <3>2. \A x \in recorded' : x.id <= asked BY <1>1, <1>6 DEF Unrecorded, IInv, Core
    <3> QED BY <1>1, <3>1, <3>2 DEF Unrecorded, IInv, Core
  <2> QED BY <2>1, <2>2, <2>3, <2>4, <2>5 DEF Core
<1>8. Held' = Held \cup {d}
  <2>1. Decision(c)' = d BY <1>2 DEF Decision
  <2>2. \A e \in Conns \ {c} : conn'[e] = conn[e] /\ Decision(e)' = Decision(e)
    BY <1>2 DEF Only, Decision
  <2> HIDE DEF d
  <2> QED BY <1>2, <2>1, <2>2 DEF Held, Due
<1>9. Abstract!Record(d) BY <1>4, <1>5, <1>8 DEF Abstract!Record
<1> HIDE DEF d
<1>10. AStep BY <1>1, <1>9 DEF AStep, Abstract!Next
<1> QED BY <1>1, <1>2, <1>7, <1>10 DEF d, IInv, SharedTyped

\* The line may be on disk, and nothing more will be.
LEMMA UnsyncedStep ==
  ASSUME IInv, NEW c \in Conns, conn[c].at = "sync", GiveUp(c),
         NEW s \in SUBSET {Decision(c)}, recorded' = recorded \cup s,
         writer' = Nobody, failed' = TRUE, UNCHANGED <<proc, asked, taken>>
  PROVE  Only(c) /\ recorded' \subseteq Decisions /\ Core' /\ AStep
<1> DEFINE d == Decision(c)
<1>1. d \in Decisions /\ d.id = conn[c].id BY DecisionTyped DEF Open
<1>2. Only(c) /\ conn'[c].at \in {"none", "idle"} BY GiveUpOnly DEF IInv
<1>3. \A e \in recorded : e.id # conn[c].id BY DEF IInv, Core, Unrecorded, Open
<1>4. d \notin recorded BY <1>1, <1>3
<1>5. proc # "off" /\ writer = c /\ ~failed BY NobodyAssumption DEF IInv, Core, Alive, OneWriter
<1>6. conn[c].id \in 1..asked BY DEF IInv, Core, Numbered, Open
<1>7. Core'
  <2>1. Alive' BY <1>5 DEF Alive
  <2>2. OneWriter' BY <1>2, <1>5, NobodyAssumption DEF OneWriter, IInv, Core, Only
  <2>3. Numbered' BY <1>2 DEF Numbered, IInv, Core, Only, Open, Due
  <2>4. Apart' BY <1>2 DEF Apart, IInv, Core, Only, Open, Due
  <2>5. Unrecorded'
    <3>1. ASSUME NEW e \in Conns, conn'[e].at \in Open
          PROVE  e # c /\ conn[e].at \in Open /\ conn[e].id # conn[c].id /\ conn'[e] = conn[e]
      BY <1>2, <3>1 DEF Apart, IInv, Core, Only, Open, Due
    <3>2. \A x \in recorded' : x.id <= asked BY <1>1, <1>6 DEF Unrecorded, IInv, Core
    <3> QED BY <1>1, <3>1, <3>2 DEF Unrecorded, IInv, Core
  <2> QED BY <2>1, <2>2, <2>3, <2>4, <2>5 DEF Core
<1>8. Held' = Held BY <1>2 DEF Held, Decision, Only, Due
<1>9. s \in Abstract!Strays
  <2> HIDE DEF d
  <2>1. s \in SUBSET {d} BY DEF d
  <2>2. s = {} \/ s = {d} BY <2>1
  <2> QED BY <1>1, <1>4, <2>2 DEF Abstract!Strays
<1>10. Abstract!Shut BY <1>5, <1>8, <1>9 DEF Abstract!Shut
<1> QED BY <1>1, <1>2, <1>7, <1>10 DEF AStep, Abstract!Next, IInv, SharedTyped

\* A decision that fell due takes effect, or the connection ends first.
LEMMA DueStep ==
  ASSUME IInv, NEW c \in Conns, conn[c].at \in Due, Only(c), conn'[c].at \notin Open \cup Due,
         taken' \in {taken, taken \cup {Decision(c)}},
         UNCHANGED <<proc, writer, failed, asked, recorded>>
  PROVE  taken' \subseteq Decisions /\ Core' /\ AStep
<1> DEFINE d == Decision(c)
<1>1. d \in Decisions /\ d.id = conn[c].id BY DecisionTyped
<1>2. proc # "off" BY DEF IInv, Core, Alive, Due
<1>3. Core'
  <2>1. Alive' BY <1>2 DEF Alive
  <2>2. OneWriter' BY DEF OneWriter, IInv, Core, Only, Due, Open
  <2>3. Numbered' /\ Apart' BY DEF Numbered, Apart, IInv, Core, Only
  <2>4. Unrecorded' BY DEF Unrecorded, IInv, Core, Only
  <2> QED BY <2>1, <2>2, <2>3, <2>4 DEF Core
<1>4. d \in Held /\ Held' = Held \ {d}
  <2>1. \A e \in Conns \ {c} : conn'[e] = conn[e] /\ Decision(e)' = Decision(e)
    BY DEF Only, Decision
  <2>2. ASSUME NEW e \in Conns \ {c}, conn[e].at \in Due PROVE Decision(e) # d
    <3>1. Decision(e).id = conn[e].id BY <2>2, DecisionTyped
    <3>2. conn[e].id # conn[c].id BY <2>2 DEF Apart, IInv, Core
    <3> QED BY <1>1, <3>1, <3>2
  <2>3. d \in Held BY DEF Held, Due
  <2> DEFINE D(e) == Decision(e)
  <2>4. Held = {D(e) : e \in {x \in Conns : conn[x].at \in Due}} BY DEF Held, Due
  <2>5. Held' = {D(e)' : e \in {x \in Conns : conn'[x].at \in Due}} BY DEF Held, Due
  <2>6. {x \in Conns : conn'[x].at \in Due} = {x \in Conns : conn[x].at \in Due} \ {c} BY <2>1
  <2> HIDE DEF D, d
  <2>7. d = D(c) BY DEF d, D
  <2>8. \A e \in {x \in Conns : conn[x].at \in Due} \ {c} : D(e)' = D(e) /\ D(e) # d
    BY <2>1, <2>2 DEF D
  <2> QED BY <2>3, <2>4, <2>5, <2>6, <2>7, <2>8
<1>5. Abstract!Take(d) \/ Abstract!Forget(d)
  BY <1>2, <1>4 DEF Abstract!Take, Abstract!Forget
<1> HIDE DEF d
<1> QED BY <1>1, <1>3, <1>5 DEF d, AStep, Abstract!Next, IInv, SharedTyped

LEMMA LaunchStep ==
  ASSUME IInv, NEW to \in {"up", "connect"}, Launch(to)
  PROVE  SharedTyped' /\ Core' /\ AStep
<1>1. runs' \in 0..MaxRuns BY BoundsAssumption DEF Launch, IInv, SharedTyped
<1>2. SharedTyped' BY <1>1 DEF Launch, IInv, SharedTyped
<1>3. Core'
  <2>1. Alive' BY DEF Alive, Launch
  <2>2. OneWriter' BY DEF OneWriter, IInv, Core, Launch
  <2>3. Numbered' /\ Apart' BY DEF Numbered, Apart, IInv, Core, Launch
  <2>4. Unrecorded' BY DEF Unrecorded, IInv, Core, Launch
  <2> QED BY <2>1, <2>2, <2>3, <2>4 DEF Core
<1>4. Held' = Held BY DEF Held, Decision, Launch
<1>5. Abstract!Start BY <1>4 DEF Abstract!Start, Launch
<1> QED BY <1>2, <1>3, <1>5 DEF AStep, Abstract!Next

\* The process is gone, and what its connections held with it.
LEMMA ExitStep ==
  ASSUME IInv, proc # "off", Exit
  PROVE  SharedTyped' /\ Core' /\ AStep
<1>1. PICK s \in SUBSET {Decision(c) : c \in {x \in Conns : writer = x}} : recorded' = recorded \cup s
  BY DEF Exit
<1>2. conn' = [c \in Conns |-> Gone] /\ Gone.at = "none" BY DEF Exit, Gone
<1>3. s \in Abstract!Strays /\ \A d \in s : d \in Decisions /\ d.id <= asked
  <2>1. CASE \E c \in Conns : writer = c
    <3>1. PICK c \in Conns : writer = c BY <2>1
    <3>2. conn[c].at = "sync" BY <3>1 DEF IInv, Core, OneWriter
    <3>3. Decision(c) \in Decisions /\ Decision(c).id = conn[c].id BY <3>2, DecisionTyped DEF Open
    <3>4. \A e \in recorded : e.id # conn[c].id BY <3>2 DEF IInv, Core, Unrecorded, Open
    <3>5. conn[c].id <= asked
      BY <3>2, BoundsAssumption DEF IInv, Core, Numbered, Open, SharedTyped
    <3> DEFINE d == Decision(c)
    <3>6. s \in SUBSET {d} BY <3>1
    <3> HIDE DEF d
    <3>7. s = {} \/ s = {d} BY <3>6
    <3>8. d \notin recorded BY <3>3, <3>4 DEF d
    <3> QED BY <3>3, <3>5, <3>7, <3>8 DEF Abstract!Strays, d
  <2>2. CASE \A c \in Conns : writer # c
    <3>1. s = {} BY <2>2
    <3> QED BY <3>1 DEF Abstract!Strays
  <2> QED BY <2>1, <2>2
<1>4. SharedTyped'
  <2>1. conn' \in [Conns -> Records] BY <1>2, GoneTyped
  <2> QED BY <1>1, <1>3, <2>1 DEF Exit, IInv, SharedTyped
<1>5. Core'
  <2>1. asked' = asked /\ writer' = Nobody BY DEF Exit
  <2>2. Alive' /\ Numbered' /\ Apart' BY <1>2 DEF Alive, Numbered, Apart, Open, Due
  <2>3. OneWriter' BY <1>2, <2>1, NobodyAssumption DEF OneWriter
  <2>4. Unrecorded' BY <1>1, <1>2, <1>3, <2>1 DEF Unrecorded, IInv, Core, Open
  <2> QED BY <2>2, <2>3, <2>4 DEF Core
<1>6. Held' = {} BY <1>2 DEF Held
<1>7. Abstract!End BY <1>1, <1>3, <1>6 DEF Abstract!End, Exit
<1> QED BY <1>4, <1>5, <1>7 DEF AStep, Abstract!Next

-----------------------------------------------------------------------------
(* The actions, each of one of these kinds. *)

LEMMA WriteStep ==
  ASSUME IInv, NEW c \in Conns, Write(c)
  PROVE  SharedTyped' /\ Core' /\ AStep
<1>1. conn[c].at = "record" /\ writer = Nobody /\ proc' = proc
  BY DEF Write, lifeVars
<1>2. proc # "off" BY <1>1 DEF IInv, Core, Alive
<1>3. UNCHANGED <<system, runs, recorded, asked, taken>> BY DEF Write, lifeVars
<1>4. CASE GiveUp(c) /\ UNCHANGED writer /\ (failed' = failed \/ (~failed /\ failed' = TRUE))
  <2>1. Only(c) /\ conn'[c].at \in {"none", "idle"} BY <1>4, GiveUpOnly DEF IInv
  <2>2. Core' /\ AStep BY <1>1, <1>2, <1>3, <1>4, <2>1, IdleStep DEF Open, Due
  <2> QED BY <1>1, <1>3, <1>4, <2>1, <2>2 DEF IInv, SharedTyped, Only
<1>5. CASE ~failed /\ writer' = c /\ Goto(c, "sync") /\ UNCHANGED failed
  <2>1. Only(c) /\ conn'[c].at = "sync" /\ conn'[c].id = conn[c].id /\ conn'[c].use = conn[c].use
    BY <1>5, GotoOnly DEF IInv, Steps
  <2>2. Core' /\ AStep BY <1>1, <1>2, <1>3, <1>5, <2>1, DecideStep DEF Open
  <2> QED BY <1>1, <1>3, <1>5, <2>1, <2>2 DEF IInv, SharedTyped, Only
<1> QED BY <1>4, <1>5 DEF Write

LEMMA SyncStep ==
  ASSUME IInv, NEW c \in Conns, Sync(c)
  PROVE  SharedTyped' /\ Core' /\ AStep
<1>1. conn[c].at = "sync" /\ writer' = Nobody /\ UNCHANGED <<system, proc, runs, asked, taken>>
  BY DEF Sync, lifeVars
<1>2. CASE /\ recorded' = recorded \cup {Decision(c)} /\ UNCHANGED failed
           /\ Goto(c, IF Acts(c) THEN "act" ELSE "answer")
  <2>1. PICK to \in Due : Goto(c, to) BY <1>2 DEF Due
  <2>2. Only(c) /\ recorded' \subseteq Decisions /\ Core' /\ AStep
    BY <1>1, <1>2, <2>1, SyncedStep
  <2> QED BY <1>1, <1>2, <2>2 DEF IInv, SharedTyped, Only
<1>3. CASE failed' = TRUE /\ GiveUp(c) /\ \E s \in SUBSET {Decision(c)} : recorded' = recorded \cup s
  <2>1. PICK s \in SUBSET {Decision(c)} : recorded' = recorded \cup s BY <1>3
  <2>2. Only(c) /\ recorded' \subseteq Decisions /\ Core' /\ AStep
    BY <1>1, <1>3, <2>1, UnsyncedStep
  <2> QED BY <1>1, <1>3, <2>2 DEF IInv, SharedTyped, Only
<1> QED BY <1>2, <1>3 DEF Sync

LEMMA ActStep ==
  ASSUME IInv, NEW c \in Conns, Act(c) \/ Answer(c)
  PROVE  SharedTyped' /\ Core' /\ AStep
<1>1. conn[c].at \in Due BY DEF Act, Answer, Due
<1>2. UNCHANGED <<system, proc, runs, writer, failed, asked, recorded>>
  BY DEF Act, Answer, lifeVars, sinkVars
<1>3. taken' \in {taken, taken \cup {Decision(c)}} BY DEF Act, Answer
<1>4. Goto(c, "wait") \/ GiveUp(c) \/ Rest(c) \/ Leave(c) BY DEF Act, Answer
<1>5. Only(c) /\ conn'[c].at \in {"wait", "none", "idle"}
  BY <1>4, GotoOnly, GiveUpOnly, RestOnly, LeaveOnly DEF IInv, Steps
<1>6. taken' \subseteq Decisions /\ Core' /\ AStep
  BY <1>1, <1>2, <1>3, <1>5, DueStep DEF Open, Due
<1> QED BY <1>2, <1>5, <1>6 DEF IInv, SharedTyped, Only

\* A connection comes, is prepared, rests or goes.
LEMMA MovesStep ==
  ASSUME IInv, NEW c \in Conns, Only(c), proc # "off",
         conn[c].at \notin Due \cup {"sync"}, conn'[c].at \notin Open \cup Due,
         UNCHANGED <<lifeVars, sinkVars, asked, taken>>
  PROVE  SharedTyped' /\ Core' /\ AStep
<1>1. Core' /\ AStep BY IdleStep DEF lifeVars, sinkVars
<1> QED BY <1>1 DEF IInv, SharedTyped, Only, lifeVars, sinkVars

LEMMA ReplyStep ==
  ASSUME IInv, NEW c \in Conns, Reply(c) \/ HangUp(c)
  PROVE  SharedTyped' /\ Core' /\ AStep
<1>1. conn[c].at \in {"wait", "idle"} /\ (Rest(c) \/ Leave(c))
      /\ UNCHANGED <<lifeVars, sinkVars, asked, taken>>
  BY DEF Reply, HangUp
<1>2. Only(c) /\ conn'[c].at \in {"none", "idle"} BY <1>1, RestOnly, LeaveOnly DEF IInv
<1>3. proc # "off" BY <1>1 DEF IInv, Core, Alive
<1> QED BY <1>1, <1>2, <1>3, MovesStep DEF Open, Due

\* A request of the agent's guest or a call of the broker's peer.
LEMMA AskStep ==
  ASSUME IInv, NEW c \in Conns, NEW use \in Uses, NEW ok \in BOOLEAN, NEW to \in Open \ {"sync"},
         Request(c, use, ok, to)
  PROVE  SharedTyped' /\ Core' /\ AStep
<1>1. UNCHANGED <<system, proc, runs, writer, failed, recorded, taken>>
  BY DEF Request, lifeVars, sinkVars
<1>2. Only(c) /\ asked' \in 0..MaxRequests /\ Core' /\ AStep BY <1>1, RequestStep
<1> QED BY <1>1, <1>2 DEF IInv, SharedTyped, Only

LEMMA ChooseStep ==
  ASSUME IInv, NEW c \in Conns, NEW ok \in BOOLEAN, conn[c].at \in {"fetch", "confirm"}, Decide(c, ok),
         UNCHANGED <<lifeVars, sinkVars, asked, taken>>
  PROVE  SharedTyped' /\ Core' /\ AStep
<1> DEFINE r == [conn[c] EXCEPT !.ok = ok, !.at = "record"]
<1>1. conn[c] \in Records BY DEF IInv, SharedTyped
<1>2. /\ r \in Records /\ r.at = "record" /\ r.id = conn[c].id /\ r.use = conn[c].use
  BY <1>1 DEF Records, Steps
<1>3. conn' = [conn EXCEPT ![c] = r] BY DEF Decide
<1> HIDE DEF r, Records
<1>4. Only(c) /\ conn'[c] = r BY <1>2, <1>3 DEF IInv, SharedTyped, Only
<1>5. proc # "off" BY DEF IInv, Core, Alive
<1>6. Core' /\ AStep BY <1>2, <1>4, <1>5, DecideStep DEF Open, lifeVars, sinkVars
<1> QED BY <1>4, <1>6 DEF IInv, SharedTyped, Only, lifeVars, sinkVars

LEMMA MediationSteps ==
  ASSUME IInv, MediationNext
  PROVE  SharedTyped' /\ Core' /\ AStep
<1>1. CASE StartMediation BY <1>1, LaunchStep DEF StartMediation
<1>2. CASE Stop
  <2>1. Core' /\ AStep BY <1>2, StaysStep DEF Stop, sinkVars
  <2> QED BY <1>2, <2>1 DEF Stop, sinkVars, IInv, SharedTyped
<1>3. CASE Stopped BY <1>3, ExitStep DEF Stopped
<1>4. ASSUME NEW c \in Conns, Accept(c) \/ Dial(c) PROVE SharedTyped' /\ Core' /\ AStep
  <2>1. conn[c].at \in {"none", "dial"} /\ UNCHANGED <<lifeVars, sinkVars, asked, taken>>
    BY <1>4 DEF Accept, Dial
  <2>2. Goto(c, "dial") \/ Goto(c, "idle") \/ Leave(c) BY <1>4 DEF Accept, Dial
  <2>3. Only(c) /\ conn'[c].at \in {"dial", "idle", "none"}
    BY <2>2, GotoOnly, LeaveOnly DEF IInv, Steps
  <2>4. proc # "off" BY <1>4, <2>1 DEF Accept, Dial, IInv, Core, Alive
  <2> QED BY <2>1, <2>3, <2>4, MovesStep DEF Open, Due
<1>5. ASSUME NEW c \in Conns, AskIdentities(c) \/ AskSign(c) \/ AskRefused(c)
      PROVE  SharedTyped' /\ Core' /\ AStep
  BY <1>5, AskStep DEF AskIdentities, AskSign, AskRefused, Uses, Open
<1>6. ASSUME NEW c \in Conns, Fetch(c) \/ Confirm(c) PROVE SharedTyped' /\ Core' /\ AStep
  <2>1. conn[c].at \in {"fetch", "confirm"} /\ UNCHANGED <<lifeVars, sinkVars, asked, taken>>
    BY <1>6 DEF Fetch, Confirm
  <2>2. CASE \E ok \in BOOLEAN : Decide(c, ok) BY <2>1, <2>2, ChooseStep
  <2>3. CASE Leave(c)
    <3>1. Only(c) /\ conn'[c].at = "none" BY <2>3, LeaveOnly DEF IInv
    <3>2. proc # "off" BY <2>1 DEF IInv, Core, Alive
    <3> QED BY <2>1, <3>1, <3>2, MovesStep DEF Open, Due
  <2> QED BY <1>6, <2>2, <2>3 DEF Fetch, Confirm
<1> QED BY <1>1, <1>2, <1>3, <1>4, <1>5, <1>6 DEF MediationNext, Guest, MediationStep

LEMMA BrokerSteps ==
  ASSUME IInv, McpTyped, BrokerNext
  PROVE  SharedTyped' /\ Core' /\ AStep
<1>1. CASE StartBroker BY <1>1, LaunchStep DEF StartBroker
<1>2. CASE StartFails \/ BrokerEnds BY <1>2, ExitStep DEF StartFails, BrokerEnds, Down
<1>3. CASE Listen \/ WriteDigest \/ Notify \/ StopBroker
  <2>1. UNCHANGED <<system, runs, sinkVars, conn, asked, taken>> /\ proc # "off"
        /\ proc' \in {"digest", "notify", "up", "stopping"}
    BY <1>3 DEF Listen, WriteDigest, Notify, StopBroker
  <2>2. Core' /\ AStep BY <2>1, StaysStep DEF sinkVars
  <2> QED BY <2>1, <2>2 DEF sinkVars, IInv, SharedTyped
<1>4. CASE EditPolicy \/ UpstreamChanges \/ \E s \in Services : Connect(s)
  <2>1. UNCHANGED allVars BY <1>4 DEF EditPolicy, UpstreamChanges, Connect
  <2>2. UNCHANGED <<SharedTyped, Core, Abstract!vars>>
    BY <2>1 DEF allVars, lifeVars, sinkVars, SharedTyped, Core, Alive, OneWriter, Numbered, Apart,
                Unrecorded, Abstract!vars, Held, Decision
  <2> QED BY <2>2 DEF IInv, AStep
<1>5. ASSUME NEW c \in Conns, AcceptPeer(c) \/ NextPage(c) PROVE SharedTyped' /\ Core' /\ AStep
  <2>1. conn[c] \in Records BY DEF IInv, SharedTyped
  <2>2. CASE AcceptPeer(c)
    <3>1. PICK s \in Serves : conn' = [conn EXCEPT ![c].at = "build", ![c].service = s]
      BY <2>2 DEF AcceptPeer
    <3>2. s \in Services BY ServiceOfAssumption DEF Serves, McpTyped, Policies
    <3> DEFINE r == [conn[c] EXCEPT !.at = "build", !.service = s]
    <3>3. r \in Records /\ r.at = "build" BY <2>1, <3>2 DEF Records, Steps
    <3>4. conn' = [conn EXCEPT ![c] = r] BY <3>1
    <3> HIDE DEF r, Records
    <3>5. Only(c) /\ conn'[c].at = "build" BY <3>3, <3>4 DEF IInv, SharedTyped, Only
    <3> QED BY <2>2, <3>5, MovesStep DEF AcceptPeer, Open, Due
  <2>3. CASE NextPage(c)
    <3>1. PICK next \in Cursors : conn' = [conn EXCEPT ![c].cursor = next] BY <2>3 DEF NextPage
    <3> DEFINE r == [conn[c] EXCEPT !.cursor = next]
    <3>2. r \in Records /\ r.at = conn[c].at BY <2>1, <3>1 DEF Records
    <3>3. conn' = [conn EXCEPT ![c] = r] BY <3>1
    <3> HIDE DEF r, Records
    <3>4. Only(c) /\ conn'[c].at = conn[c].at BY <3>2, <3>3 DEF IInv, SharedTyped, Only
    <3>5. proc # "off" BY <2>3 DEF NextPage, IInv, Core, Alive
    <3> QED BY <2>3, <3>4, <3>5, MovesStep DEF NextPage, Open, Due
  <2> QED BY <1>5, <2>2, <2>3
<1>6. ASSUME NEW c \in Conns, Build(c) \/ BuildFails(c) PROVE SharedTyped' /\ Core' /\ AStep
  <2>1. conn[c].at = "build" /\ UNCHANGED <<lifeVars, sinkVars, asked, taken>>
        /\ (Rest(c) \/ Leave(c))
    BY <1>6 DEF Build, BuildFails
  <2>2. Only(c) /\ conn'[c].at \in {"none", "idle"} BY <2>1, RestOnly, LeaveOnly DEF IInv
  <2>3. proc # "off" BY <2>1 DEF IInv, Core, Alive
  <2> QED BY <2>1, <2>2, <2>3, MovesStep DEF Open, Due
<1>7. ASSUME NEW c \in Conns, Call(c) PROVE SharedTyped' /\ Core' /\ AStep
  <2>1. PICK t \in Tools : Request(c, t, t \in Granted(conn[c].service), "record")
    BY <1>7 DEF Call
  <2>2. (t \in Granted(conn[c].service)) \in BOOLEAN OBVIOUS
  <2>3. t \in Uses /\ "record" \in Open \ {"sync"} BY DEF Uses, Open
  <2> QED BY <2>1, <2>2, <2>3, AskStep
<1> QED BY <1>1, <1>2, <1>3, <1>4, <1>5, <1>6, <1>7 DEF BrokerNext

\* Whose variables the other process's steps leave alone.
LEMMA McpSteps ==
  ASSUME McpTyped, BrokerNext \/ Down
  PROVE  McpTyped'
<1>1. {} \in Policies /\ Unnamed \in Policies \cup {Unnamed} BY DEF Policies
<1>2. CASE StartBroker BY <1>1, <1>2 DEF StartBroker, McpTyped, worldVars
<1>3. CASE StartFails \/ BrokerEnds \/ Down
  BY <1>1, <1>3 DEF StartFails, BrokerEnds, Down, McpTyped, worldVars
<1>4. CASE Listen \/ Notify \/ StopBroker
  BY <1>4 DEF Listen, Notify, StopBroker, McpTyped, mcpVars, policyVars, worldVars
<1>5. CASE WriteDigest BY <1>5 DEF WriteDigest, McpTyped, worldVars
<1>6. CASE \E s \in Services : Connect(s)
  BY <1>6 DEF Connect, McpTyped, policyVars, worldVars
<1>7. CASE EditPolicy \/ UpstreamChanges
  BY <1>7, ChangesAssumption DEF EditPolicy, UpstreamChanges, McpTyped, policyVars
<1>8. CASE \E c \in Conns : AcceptPeer(c) \/ NextPage(c) \/ Build(c) \/ BuildFails(c) \/ Call(c)
  BY <1>8 DEF AcceptPeer, NextPage, Build, BuildFails, Call, McpTyped, mcpVars, policyVars, worldVars
<1> QED BY <1>2, <1>3, <1>4, <1>5, <1>6, <1>7, <1>8 DEF BrokerNext

LEMMA InitHolds == Init => IInv /\ McpTyped /\ Abstract!Init
<1> SUFFICES ASSUME Init PROVE IInv /\ McpTyped /\ Abstract!Init OBVIOUS
<1>1. conn = [c \in Conns |-> Gone] /\ Gone.at = "none" BY DEF Init, Gone
<1>2. conn \in [Conns -> Records] BY <1>1, GoneTyped
<1>3. SharedTyped
  <2>1. 0 \in 0..MaxRuns /\ 0 \in 0..MaxRequests BY BoundsAssumption
  <2> HIDE DEF Records, Gone
  <2> QED BY <1>2, <2>1 DEF Init, SharedTyped
<1>4. Core
  BY <1>1, NobodyAssumption DEF Init, Core, Alive, OneWriter, Numbered, Apart, Unrecorded, Open, Due
<1>5. McpTyped BY ChangesAssumption DEF Init, McpTyped, Policies
<1>6. Held = {} BY <1>1 DEF Held
<1>7. Abstract!Init BY <1>6 DEF Init, Abstract!Init
<1> QED BY <1>3, <1>4, <1>5, <1>7 DEF IInv

LEMMA NextHolds == IInv /\ McpTyped /\ [Next]_vars => IInv' /\ McpTyped' /\ AStep
<1> SUFFICES ASSUME IInv, McpTyped, [Next]_vars PROVE IInv' /\ McpTyped' /\ AStep OBVIOUS
<1>1. CASE MediationNext /\ UNCHANGED mcpVars
  BY <1>1, MediationSteps DEF IInv, McpTyped, mcpVars, policyVars, worldVars
<1>2. CASE BrokerNext BY <1>2, BrokerSteps, McpSteps DEF IInv
<1>3. ASSUME NEW c \in Conns, Own(c) \/ Write(c) \/ HangUp(c), UNCHANGED mcpVars
      PROVE  IInv' /\ McpTyped' /\ AStep
  <2>1. SharedTyped' /\ Core' /\ AStep
    BY <1>3, WriteStep, SyncStep, ActStep, ReplyStep DEF Own
  <2> QED BY <1>3, <2>1 DEF IInv, McpTyped, mcpVars, policyVars, worldVars
<1>4. CASE proc # "off" /\ Down BY <1>4, ExitStep, McpSteps DEF Down, IInv
<1>5. CASE Kill /\ UNCHANGED mcpVars
  BY <1>5, ExitStep DEF Kill, IInv, McpTyped, mcpVars, policyVars, worldVars
<1>6. CASE UNCHANGED vars
  <2>1. UNCHANGED <<SharedTyped, Core, McpTyped, Abstract!vars>>
    BY <1>6 DEF vars, mcpVars, policyVars, worldVars, allVars, lifeVars, sinkVars, SharedTyped, Core,
                Alive, OneWriter, Numbered, Apart, Unrecorded, McpTyped, Abstract!vars, Held, Decision
  <2> QED BY <2>1 DEF IInv, AStep
<1> QED BY <1>1, <1>2, <1>3, <1>4, <1>5, <1>6 DEF Next

-----------------------------------------------------------------------------
(* What the broker forwards is what it read, and its digest names that. *)

\* A digest names the policy that was read, and goes with the process; what is
\* granted on a connection was granted by that policy.
Named   == /\ digest = Unnamed \/ digest = loaded
           /\ proc = "off" => digest = Unnamed
GrantedBy == \A c \in Conns : conn[c].at \in Open \cup Due /\ conn[c].ok = TRUE => conn[c].use \in loaded
Honest  == system = "mcp" => Named /\ GrantedBy

\* A request on c goes on as it is, or is over.
LEMMA GoesOn ==
  ASSUME SharedTyped, GrantedBy, NEW c \in Conns, loaded' = loaded,
         (\E to \in Steps : Goto(c, to)) \/ GiveUp(c) \/ Rest(c) \/ Leave(c),
         conn'[c].at \in Open \cup Due => conn[c].at \in Open \cup Due
  PROVE  GrantedBy'
<1>1. Only(c) /\ (conn'[c].at \in Open \cup Due => conn'[c].ok = conn[c].ok /\ conn'[c].use = conn[c].use)
  <2>1. CASE \E to \in Steps : Goto(c, to)
    BY <2>1 DEF Goto, SharedTyped, Records, Only
  <2>2. CASE GiveUp(c) \/ Rest(c) \/ Leave(c)
    <3>1. Only(c) /\ conn'[c].at \in {"none", "idle"} BY <2>2, GiveUpOnly, RestOnly, LeaveOnly
    <3> QED BY <3>1 DEF Open, Due
  <2> QED BY <2>1, <2>2
<1> QED BY <1>1 DEF GrantedBy, Only

LEMMA HonestSteps ==
  ASSUME IInv, McpTyped, Honest, Mcp, NEW c \in Conns, Own(c) \/ Write(c) \/ HangUp(c), UNCHANGED mcpVars
  PROVE  Honest'
<1>1. UNCHANGED <<system, proc>>
  BY DEF Own, Write, Sync, Act, Answer, Reply, HangUp, lifeVars
<1>2. UNCHANGED <<digest, loaded>> BY DEF mcpVars, policyVars
<1>3. (\E to \in Steps : Goto(c, to)) \/ GiveUp(c) \/ Rest(c) \/ Leave(c)
  BY DEF Own, Write, Sync, Act, Answer, Reply, HangUp, Steps
<1>4. conn'[c].at \in Open \cup Due => conn[c].at \in Open \cup Due
  <2>1. CASE conn[c].at \in Open \cup Due BY <2>1
  <2>2. CASE Reply(c) \/ HangUp(c)
    <3>1. conn'[c].at \in {"none", "idle"} BY <2>2, RestOnly, LeaveOnly DEF Reply, HangUp, IInv
    <3> QED BY <3>1 DEF Open, Due
  <2> QED BY <2>1, <2>2 DEF Own, Write, Sync, Act, Answer, Open, Due
<1>5. GrantedBy' BY <1>2, <1>3, <1>4, GoesOn DEF Honest, Mcp, IInv
<1> QED BY <1>1, <1>2, <1>5 DEF Honest, Mcp, Named

LEMMA HonestDown == ASSUME Down PROVE Honest'
<1>1. \A c \in Conns : conn'[c].at = "none" BY DEF Down, Exit, Gone
<1>2. GrantedBy' BY <1>1 DEF GrantedBy, Open, Due
<1> QED BY <1>2 DEF Down, Honest, Named

LEMMA HonestBroker ==
  ASSUME IInv, McpTyped, Honest, Mcp, BrokerNext
  PROVE  Honest'
<1>1. CASE StartBroker
  <2>1. proc = "off" /\ UNCHANGED <<system, conn, digest>> BY <1>1 DEF StartBroker, Launch
  <2>2. \A c \in Conns : conn'[c].at = "none" BY <2>1 DEF IInv, Core, Alive
  <2>3. digest' = Unnamed BY <2>1 DEF Honest, Mcp, Named
  <2>4. GrantedBy' BY <2>2 DEF GrantedBy, Open, Due
  <2> QED BY <2>3, <2>4 DEF Honest, Named
<1>2. CASE StartFails \/ BrokerEnds BY <1>2, HonestDown DEF StartFails, BrokerEnds
<1>3. CASE Listen \/ WriteDigest \/ Notify \/ StopBroker
  <2>1. UNCHANGED <<system, conn, loaded>> /\ proc' # "off" /\ digest' \in {digest, loaded}
    BY <1>3 DEF Listen, WriteDigest, Notify, StopBroker, mcpVars, policyVars
  <2> QED BY <2>1 DEF Honest, Mcp, Named, GrantedBy
<1>4. CASE EditPolicy \/ UpstreamChanges \/ \E s \in Services : Connect(s)
  <2>1. UNCHANGED <<system, proc, conn, loaded, digest>>
    BY <1>4 DEF EditPolicy, UpstreamChanges, Connect, allVars, lifeVars, policyVars
  <2> QED BY <2>1 DEF Honest, Mcp, Named, GrantedBy
<1>5. ASSUME NEW c \in Conns, AcceptPeer(c) \/ NextPage(c) PROVE Honest'
  <2>1. UNCHANGED <<system, proc, loaded, digest>>
    BY <1>5 DEF AcceptPeer, NextPage, lifeVars, mcpVars, policyVars
  <2>2. \A e \in Conns \ {c} : conn'[e] = conn[e]
    BY <1>5 DEF AcceptPeer, NextPage, IInv, SharedTyped
  <2>3. conn'[c].at = "build"
    <3>1. conn[c] \in Records BY DEF IInv, SharedTyped
    <3>2. CASE AcceptPeer(c)
      <4>1. PICK s \in Serves : conn' = [conn EXCEPT ![c].at = "build", ![c].service = s]
        BY <3>2 DEF AcceptPeer
      <4> DEFINE r == [conn[c] EXCEPT !.at = "build", !.service = s]
      <4>2. r.at = "build" BY <3>1 DEF Records
      <4>3. conn' = [conn EXCEPT ![c] = r] BY <4>1
      <4> HIDE DEF r
      <4> QED BY <4>2, <4>3 DEF IInv, SharedTyped
    <3>3. CASE NextPage(c) BY <3>1, <3>3 DEF NextPage, Records, IInv, SharedTyped
    <3> QED BY <1>5, <3>2, <3>3
  <2>4. GrantedBy' BY <2>1, <2>2, <2>3 DEF Honest, Mcp, GrantedBy, Open, Due
  <2> QED BY <2>1, <2>4 DEF Honest, Mcp, Named
<1>6. ASSUME NEW c \in Conns, Build(c) \/ BuildFails(c) PROVE Honest'
  <2>1. UNCHANGED <<system, proc, loaded, digest>> /\ (Rest(c) \/ Leave(c))
    BY <1>6 DEF Build, BuildFails, lifeVars, mcpVars, policyVars
  <2>2. Only(c) /\ conn'[c].at \in {"none", "idle"} BY <2>1, RestOnly, LeaveOnly DEF IInv
  <2>3. GrantedBy' BY <2>1, <2>2 DEF Honest, Mcp, GrantedBy, Only, Open, Due
  <2> QED BY <2>1, <2>3 DEF Honest, Mcp, Named
<1>7. ASSUME NEW c \in Conns, Call(c) PROVE Honest'
  <2>1. PICK t \in Tools : Request(c, t, t \in Granted(conn[c].service), "record") BY <1>7 DEF Call
  <2>2. UNCHANGED <<system, proc, loaded, digest>>
    BY <1>7, <2>1 DEF Call, Request, lifeVars, mcpVars, policyVars
  <2> DEFINE ok == t \in Granted(conn[c].service)
             r  == [conn[c] EXCEPT !.at = "record", !.id = asked + 1, !.use = t, !.ok = ok]
  <2>3. ok = TRUE => t \in loaded BY DEF Granted
  <2>4. conn[c] \in Records BY DEF IInv, SharedTyped
  <2>5. conn' = [conn EXCEPT ![c] = r] BY <2>1 DEF Request
  <2> HIDE DEF ok
  <2>6. r.use = t /\ r.ok = ok BY <2>4 DEF Records
  <2> HIDE DEF r
  <2>7. conn'[c] = r /\ \A e \in Conns \ {c} : conn'[e] = conn[e] BY <2>5 DEF IInv, SharedTyped
  <2>8. GrantedBy' BY <2>2, <2>3, <2>6, <2>7 DEF Honest, Mcp, GrantedBy
  <2> QED BY <2>2, <2>8 DEF Honest, Mcp, Named
<1> QED BY <1>1, <1>2, <1>3, <1>4, <1>5, <1>6, <1>7 DEF BrokerNext

LEMMA HonestHolds == IInv /\ McpTyped /\ Honest /\ [Next]_vars => Honest'
<1> SUFFICES ASSUME IInv, McpTyped, Honest, [Next]_vars PROVE Honest' OBVIOUS
<1>1. CASE Mcp
  <2>1. CASE MediationNext BY <1>1, <2>1 DEF MediationNext, StartMediation, Stop, Stopped, Guest, Accept,
             AskIdentities, AskSign, AskRefused, MediationStep, Dial, Fetch, Confirm, Agent, Mcp
  <2>2. CASE BrokerNext BY <1>1, <2>2, HonestBroker
  <2>3. ASSUME NEW c \in Conns, Own(c) \/ Write(c) \/ HangUp(c), UNCHANGED mcpVars PROVE Honest'
    BY <1>1, <2>3, HonestSteps
  <2>4. CASE Down BY <2>4, HonestDown
  <2>5. CASE UNCHANGED vars
    BY <2>5 DEF vars, allVars, lifeVars, mcpVars, policyVars, Honest, Named, GrantedBy
  <2> QED BY <1>1, <2>1, <2>2, <2>3, <2>4, <2>5 DEF Next
<1>2. CASE ~Mcp
  <2>1. system' = system
    BY <1>2 DEF Next, MediationNext, BrokerNext, vars, allVars, lifeVars, Kill, Exit,
       StartMediation, Launch, Stop, Stopped, Guest, Accept, AskIdentities, AskSign, AskRefused, Request,
       MediationStep, Dial, Fetch, Confirm, StartBroker, StartFails, Listen, WriteDigest, Notify, StopBroker,
       BrokerEnds, Connect, EditPolicy, UpstreamChanges, AcceptPeer, NextPage, Build, BuildFails, Call, Down,
       Own, Write, Sync, Act, Answer, Reply, HangUp
  <2> QED BY <1>2, <2>1 DEF Honest, Mcp
<1> QED BY <1>1, <1>2

\* Only an effect of a connection's own is added to what took effect.
LEMMA TakenBy ==
  ASSUME IInv, [Next]_vars, NEW d \in taken' \ taken
  PROVE  \E c \in Conns : conn[c].at \in Due /\ d = Decision(c)
<1>1. CASE \E c \in Conns : Act(c) \/ Answer(c)
  BY <1>1 DEF Act, Answer, Due
<1>2. CASE MediationNext
  BY <1>2 DEF MediationNext, StartMediation, Launch, Stop, Stopped, Exit, Guest, Accept, AskIdentities,
     AskSign, AskRefused, Request, MediationStep, Dial, Fetch, Confirm
<1>3. CASE BrokerNext
  BY <1>3 DEF BrokerNext, StartBroker, Launch, StartFails, Listen, WriteDigest, Notify, StopBroker,
     BrokerEnds, Connect, EditPolicy, UpstreamChanges, AcceptPeer, NextPage, Build, BuildFails, Call,
     Request, Down, Exit, allVars
<1>4. CASE \E c \in Conns : Sync(c) \/ Reply(c) \/ Write(c) \/ HangUp(c)
  BY <1>4 DEF Sync, Reply, Write, HangUp
<1>5. CASE Down \/ Kill BY <1>5 DEF Down, Kill, Exit
<1>6. CASE UNCHANGED vars BY <1>6 DEF vars, allVars
<1> QED BY <1>1, <1>2, <1>3, <1>4, <1>5, <1>6 DEF Next, Own

LEMMA ForwardsGranted ==
  ASSUME IInv, McpTyped, Honest, [Next]_vars
  PROVE  \A d \in taken' \ taken : Mcp /\ d.ok /\ digest = policy => d.use \in policy
<1> SUFFICES ASSUME NEW d \in taken' \ taken, Mcp, d.ok, digest = policy PROVE d.use \in policy
  OBVIOUS
<1>1. PICK c \in Conns : conn[c].at \in Due /\ d = Decision(c) BY TakenBy
<1>2. digest = loaded BY UnnamedAssumption DEF Honest, Mcp, Named, McpTyped
<1>3. d.use = conn[c].use /\ conn[c].ok
  BY <1>1 DEF Decision
<1>4. conn[c].ok = TRUE BY <1>3 DEF IInv, SharedTyped, Records
<1>5. conn[c].use \in loaded BY <1>1, <1>4 DEF Honest, Mcp, GrantedBy
<1> QED BY <1>2, <1>3, <1>5

-----------------------------------------------------------------------------
\* Every reachable state has the shape TypeOK gives it (AuditSink, Mediation and
\* McpBroker together).
THEOREM TypeCorrect == Spec => []TypeOK
BY InitHolds, NextHolds, TypeSplit, PTL DEF Spec, IInv

\* The proxy of internal/sshagent and the broker of internal/mcpbroker implement
\* AuditedBroker: each decision is durable before it takes effect, takes effect
\* once, and follows no failed record of the same process.
THEOREM ImplementsAuditedBroker == Spec => AuditedFirst
BY InitHolds, NextHolds, PTL DEF Spec, AuditedFirst, Abstract!Spec, AStep

\* A call the broker forwards while its digest names the policy in policy.d is
\* of a tool that policy grants: what it grants on a connection is what it
\* read, and the digest names what it read or nothing.
THEOREM DriftIsVisible == Spec => DriftVisible
<1>1. Init => Honest BY DEF Init, Honest, Named, GrantedBy, Gone, Open, Due
<1> QED BY <1>1, InitHolds, NextHolds, HonestHolds, ForwardsGranted, PTL DEF Spec, DriftVisible
=============================================================================
