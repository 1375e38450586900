----------------------- MODULE ProjectCommands_proofs -----------------------
(***************************************************************************)
(* Theorems about ProjectCommands: for any boxes, projects, remotes and    *)
(* running commands.                                                       *)
(***************************************************************************)
EXTENDS ProjectCommands, TLAPS

\* The lock is held by one command at most, from the read of the document to
\* the end of the update, and what it read is what the document still holds.
LockKept ==
  /\ \A c \in Commands : c \in lock <=> pc[c] \in {"write", "written"}
  /\ \A c, d \in lock : c = d
  /\ \A c \in Commands : pc[c] = "write" => read[c] = record

\* Which command is at which step.
StepsOfAdd == {"inspect", "make", "dropOrigin", "share"}
StepsOfSet == {"reach", "attach"}
Following(c) == job[c].op = "set" /\ pc[c] \in {"read", "readAgain", "attach"}

\* While nobody touches the checkout a command works on: a checkout that
\* somebody else has set is one that is there; an addition never drops the origin
\* of such a one; and a set-remote that goes on to attach has found none, or the
\* remote it replaces.
HandsOff ==
  /\ \A b \in Boxes, p \in Projects : p \in byHand[b] => tree[b][p].there
  /\ \A c \in Commands :
       /\ pc[c] \in StepsOfAdd => job[c].op = "add"
       /\ pc[c] \in {"read", "readAgain"} => job[c].op \in {"add", "set"}
       /\ pc[c] \in StepsOfSet => job[c].op = "set"
       /\ pc[c] = "dropOrigin" => job[c].project \notin byHand[job[c].box]
       /\ Following(c) /\ job[c].project \in byHand[job[c].box] =>
            Here(c).origin \in {Local, job[c].was}

\* While commands on one project do not overlap either: what an addition
\* verified is still so when it comes to record it.
Apart == \A c, d \in Commands :
  c # d /\ Running(c) /\ Running(d) => job[c].project # job[d].project
Prepared == \A c \in Commands :
  job[c].op = "add" /\ pc[c] \in {"lock", "write"} =>
    Here(c).there /\ Here(c).shared /\ Here(c).origin = job[c].want

-----------------------------------------------------------------------------
(* The type invariant. *)

LEMMA TreeTypes ==
  /\ Absent \in Trees
  /\ \A o \in Origins : Made(o) \in Trees
BY DEF Absent, Made, Trees, Origins

LEMMA TypeInit == Init => TypeOK
<1> SUFFICES ASSUME Init PROVE TypeOK
  OBVIOUS
<1>1. RegistryOK
  BY DEF Init, RegistryOK, Shared!Entries
<1>2. GuestsOK
  BY TreeTypes DEF Init, GuestsOK
<1>3. CommandsOK
  <2>1. NoJob \in Jobs
    BY DEF NoJob, Jobs, Shared!Entries
  <2>2. [p \in Projects |-> NoEntry] \in [Projects -> Shared!Entries]
    BY DEF Shared!Entries
  <2>3. pc \in [Commands -> Steps] /\ \A c \in Commands : ~Running(c)
    BY DEF Init, Steps, Running
  <2> QED BY <2>1, <2>2, <2>3, TreeTypes DEF Init, CommandsOK
<1> QED BY <1>1, <1>2, <1>3 DEF TypeOK

\* Starting a command keeps the type.
LEMMA BeginType ==
  ASSUME TypeOK, NEW c \in Commands, NEW asked \in Jobs, NEW first \in Steps,
         asked.box \in Boxes, asked.project \in Projects,
         asked.op = "set" => asked.want \in Remotes, Begin(c, first, asked)
  PROVE  TypeOK'
<1>1. RegistryOK' /\ GuestsOK'
  BY DEF TypeOK, RegistryOK, GuestsOK, Begin, guestVars
<1>2. CommandsOK'
  BY DEF TypeOK, CommandsOK, Begin, Running
<1> QED BY <1>1, <1>2 DEF TypeOK

\* What a command may rely on while it runs.
LEMMA JobType ==
  ASSUME TypeOK, NEW c \in Commands, Running(c)
  PROVE  /\ job[c] \in Jobs /\ job[c].box \in Boxes /\ job[c].project \in Projects
         /\ job[c].want \in Remotes \cup {Local} /\ job[c].want \in Origins
         /\ job[c].op = "set" => job[c].want \in Remotes
         /\ Here(c) \in Trees
BY DEF TypeOK, CommandsOK, GuestsOK, Jobs, Origins, Here

\* A step that goes on to another place.
LEMMA GotoType ==
  ASSUME TypeOK, NEW c \in Commands, NEW from, NEW to \in Steps, from # "idle",
         Goto(c, from, to)
  PROVE  /\ pc' \in [Commands -> Steps] /\ Running(c)
         /\ \A d \in Commands : Running(d)' => Running(d)
BY DEF TypeOK, CommandsOK, Goto, Running

LEMMA SetTreeType ==
  ASSUME TypeOK, NEW c \in Commands, Running(c), NEW t \in Trees, SetTree(c, t)
  PROVE  tree' \in [Boxes -> [Projects -> Trees]]
BY JobType DEF SetTree, TypeOK, GuestsOK

\* One lemma for each thing a step of a command may change.
LEMMA GuestStepType ==
  ASSUME TypeOK, NEW c \in Commands, NEW from, NEW to \in Steps, from # "idle",
         Goto(c, from, to), GuestsOK', UNCHANGED <<record, lock, commandVars>>
  PROVE  TypeOK'
<1>1. RegistryOK'
  BY DEF TypeOK, RegistryOK
<1>2. CommandsOK'
  BY GotoType DEF TypeOK, CommandsOK, commandVars
<1> QED BY <1>1, <1>2 DEF TypeOK

LEMMA CommandStepType ==
  ASSUME TypeOK, NEW c \in Commands, NEW from, NEW to \in Steps, from # "idle",
         Goto(c, from, to), RegistryOK', UNCHANGED <<guestVars, job>>,
         found' \in [Commands -> Trees], keyed' \in [Commands -> BOOLEAN],
         read' \in [Commands -> [Projects -> Shared!Entries]]
  PROVE  TypeOK'
<1>1. GuestsOK'
  BY DEF TypeOK, GuestsOK, guestVars
<1>2. CommandsOK'
  BY GotoType DEF TypeOK, CommandsOK
<1> QED BY <1>1, <1>2 DEF TypeOK

\* What the registry holds after a write.
LEMMA WriteType ==
  ASSUME TypeOK, NEW c \in Commands, WriteRegistry(c)
  PROVE  /\ Running(c)
         /\ record' \in [Projects -> Shared!Entries]
         /\ \E e \in Shared!Entries : record' = [read[c] EXCEPT ![job[c].project] = e]
<1>1. Running(c)
  BY DEF WriteRegistry, Goto, Running
<1>2. read[c] \in [Projects -> Shared!Entries]
  BY DEF TypeOK, CommandsOK
<1>3. \E e \in Shared!Entries : record' = [read[c] EXCEPT ![job[c].project] = e]
  BY <1>1, JobType DEF WriteRegistry, Shared!Entries
<1> QED BY <1>1, <1>2, <1>3

LEMMA ForgetType ==
  ASSUME TypeOK, NEW c \in Commands, Forget(c), UNCHANGED <<record, guestVars>>
  PROVE  TypeOK'
<1>1. RegistryOK' /\ GuestsOK'
  BY DEF TypeOK, RegistryOK, GuestsOK, Forget, guestVars
<1>2. NoJob \in Jobs /\ [p \in Projects |-> NoEntry] \in [Projects -> Shared!Entries]
  BY DEF NoJob, Jobs, Shared!Entries
<1>3. CommandsOK'
  BY <1>2, TreeTypes DEF TypeOK, CommandsOK, Forget, Running, Steps
<1> QED BY <1>1, <1>3 DEF TypeOK

LEMMA AddStepType ==
  ASSUME TypeOK, NEW c \in Commands,
         \/ InspectForAdd(c) \/ ReadRemote(c) \/ MakeKey(c) \/ ReadWithKey(c)
         \/ Adopt(c) \/ Make(c) \/ CloneBundle(c) \/ DropOrigin(c)
         \/ Share(c) \/ Wire(c) \/ VerifyAdd(c)
  PROVE  TypeOK'
<1>1. ASSUME GuestsOK', UNCHANGED <<record, lock, commandVars>>,
             NEW from, NEW to \in Steps, from # "idle", Goto(c, from, to)
      PROVE  TypeOK'
  BY <1>1, GuestStepType
<1>2. AfterRead(c) \in Steps
  BY DEF AfterRead, Steps
<1>3. CASE InspectForAdd(c)
  <2>1. Running(c)
    BY <1>3 DEF InspectForAdd, Goto, Running
  <2>2. RegistryOK' /\ found' \in [Commands -> Trees]
    BY <1>3, <2>1, JobType DEF InspectForAdd, TypeOK, RegistryOK, CommandsOK
  <2> QED
    BY <1>3, <2>2, CommandStepType DEF InspectForAdd, Steps, TypeOK, CommandsOK
<1>4. CASE ReadRemote(c)
  <2>1. RegistryOK' /\ keyed' \in [Commands -> BOOLEAN]
    BY <1>4 DEF ReadRemote, TypeOK, RegistryOK, CommandsOK
  <2> QED
    BY <1>2, <1>4, <2>1, CommandStepType DEF ReadRemote, TypeOK, CommandsOK
<1>5. CASE ReadWithKey(c)
  <2>1. RegistryOK' /\ keyed' \in [Commands -> BOOLEAN]
    BY <1>5 DEF ReadWithKey, TypeOK, RegistryOK, CommandsOK
  <2> QED
    BY <1>2, <1>5, <2>1, CommandStepType DEF ReadWithKey, TypeOK, CommandsOK
<1>6. CASE MakeKey(c)
  <2>1. Running(c)
    BY <1>6 DEF MakeKey, Goto, Running
  <2>2. GuestsOK'
    BY <1>6, <2>1, JobType DEF MakeKey, TypeOK, GuestsOK
  <2> QED BY <1>1, <1>6, <2>2 DEF MakeKey, Steps
<1>7. CASE Adopt(c)
  <2>1. GuestsOK'
    BY <1>7 DEF Adopt, TypeOK, GuestsOK, guestVars
  <2> QED BY <1>1, <1>7, <2>1 DEF Adopt, Steps
<1>8. CASE Make(c)
  <2>1. Running(c)
    BY <1>8 DEF Make, Goto, Running
  <2>2. Made(job[c].want) \in Trees
    BY <2>1, JobType, TreeTypes
  <2>3. GuestsOK'
    BY <1>8, <2>1, <2>2, SetTreeType DEF Make, TypeOK, GuestsOK
  <2> QED BY <1>1, <1>8, <2>3 DEF Make, Steps
<1>9. CASE CloneBundle(c)
  <2>1. Running(c)
    BY <1>9 DEF CloneBundle, Goto, Running
  <2>2. Made(Bundle) \in Trees
    BY TreeTypes DEF Origins
  <2>3. GuestsOK'
    BY <1>9, <2>1, <2>2, SetTreeType DEF CloneBundle, TypeOK, GuestsOK
  <2> QED BY <1>1, <1>9, <2>3 DEF CloneBundle, Steps
<1>10. CASE DropOrigin(c)
  <2>1. Running(c)
    BY <1>10 DEF DropOrigin, Goto, Running
  <2>2. [Here(c) EXCEPT !.origin = Local] \in Trees
    BY <2>1, JobType DEF Trees, Origins
  <2>3. GuestsOK'
    BY <1>10, <2>1, <2>2, SetTreeType DEF DropOrigin, TypeOK, GuestsOK
  <2> QED BY <1>1, <1>10, <2>3 DEF DropOrigin, Steps
<1>11. CASE Share(c)
  <2>1. Running(c)
    BY <1>11 DEF Share, Goto, Running
  <2>2. [Here(c) EXCEPT !.shared = TRUE] \in Trees
    BY <2>1, JobType DEF Trees
  <2>3. GuestsOK'
    BY <1>11, <2>1, <2>2, SetTreeType DEF Share, TypeOK, GuestsOK
  <2> QED BY <1>1, <1>11, <2>3 DEF Share, Steps
<1>12. CASE Wire(c)
  <2>1. Running(c)
    BY <1>12 DEF Wire, Goto, Running
  <2>2. GuestsOK'
    BY <1>12, <2>1, JobType DEF Wire, TypeOK, GuestsOK
  <2> QED BY <1>1, <1>12, <2>2 DEF Wire, Steps
<1>13. CASE VerifyAdd(c)
  <2>1. GuestsOK'
    BY <1>13 DEF VerifyAdd, TypeOK, GuestsOK, guestVars
  <2> QED BY <1>1, <1>13, <2>1 DEF VerifyAdd, Steps
<1> QED
  BY <1>3, <1>4, <1>5, <1>6, <1>7, <1>8, <1>9, <1>10, <1>11, <1>12, <1>13

LEMMA SetStepType ==
  ASSUME TypeOK, NEW c \in Commands,
         ReachCheckout(c) \/ NotReached(c) \/ AttachOrigin(c) \/ VerifySetRemote(c)
  PROVE  TypeOK'
<1>1. ASSUME GuestsOK', UNCHANGED <<record, lock, commandVars>>,
             NEW from, NEW to \in Steps, from # "idle", Goto(c, from, to)
      PROVE  TypeOK'
  BY <1>1, GuestStepType
<1>2. CASE ReachCheckout(c)
  <2>1. Running(c)
    BY <1>2 DEF ReachCheckout, Goto, Running
  <2>2. RegistryOK' /\ found' \in [Commands -> Trees]
    BY <1>2, <2>1, JobType DEF ReachCheckout, TypeOK, RegistryOK, CommandsOK
  <2>3. \E to \in Steps : Goto(c, "reach", to)
    BY <1>2 DEF ReachCheckout, Steps
  <2> QED
    BY <1>2, <2>2, <2>3, CommandStepType DEF ReachCheckout, TypeOK, CommandsOK
<1>3. CASE NotReached(c) \/ VerifySetRemote(c)
  <2>1. GuestsOK'
    BY <1>3 DEF NotReached, VerifySetRemote, TypeOK, GuestsOK, guestVars
  <2> QED BY <1>1, <1>3, <2>1 DEF NotReached, VerifySetRemote, Steps
<1>4. CASE AttachOrigin(c)
  <2>1. Running(c)
    BY <1>4 DEF AttachOrigin, Goto, Running
  <2>2. [Here(c) EXCEPT !.origin = job[c].want] \in Trees
    BY <2>1, JobType DEF Trees
  <2>3. GuestsOK'
    <3>1. tree' \in [Boxes -> [Projects -> Trees]]
      BY <1>4, <2>1, <2>2, SetTreeType DEF AttachOrigin
    <3> QED BY <1>4, <2>1, <3>1, JobType DEF AttachOrigin, TypeOK, GuestsOK
  <2> QED BY <1>1, <1>4, <2>3 DEF AttachOrigin, Steps
<1> QED BY <1>2, <1>3, <1>4

LEMMA UpdateStepType ==
  ASSUME TypeOK, NEW c \in Commands, TakeLock(c) \/ WriteRegistry(c) \/ ReleaseLock(c)
  PROVE  TypeOK'
<1>1. CASE TakeLock(c)
  <2>1. RegistryOK' /\ read' \in [Commands -> [Projects -> Shared!Entries]]
    BY <1>1 DEF TakeLock, TypeOK, RegistryOK, CommandsOK
  <2> QED
    BY <1>1, <2>1, CommandStepType DEF TakeLock, Steps, TypeOK, CommandsOK
<1>2. CASE WriteRegistry(c)
  <2>1. RegistryOK'
    BY <1>2, WriteType DEF WriteRegistry, TypeOK, RegistryOK
  <2> QED
    BY <1>2, <2>1, CommandStepType
    DEF WriteRegistry, Steps, TypeOK, CommandsOK, commandVars
<1>3. CASE ReleaseLock(c)
  <2>1. RegistryOK'
    BY <1>3 DEF ReleaseLock, TypeOK, RegistryOK
  <2>2. \E from, to \in Steps : from # "idle" /\ Goto(c, from, to)
    BY <1>3 DEF ReleaseLock, Steps
  <2> QED
    BY <1>3, <2>1, <2>2, CommandStepType
    DEF ReleaseLock, TypeOK, CommandsOK, commandVars
<1> QED BY <1>1, <1>2, <1>3

LEMMA OthersType ==
  ASSUME TypeOK, NEW b \in Boxes, NEW p \in Projects,
         \/ \E o \in Remotes \cup {Local} : HandOrigin(b, p, o)
         \/ HandDelete(b, p) \/ AgentWorks(b, p) \/ SyncedToHost(p)
  PROVE  TypeOK'
<1>1. tree[b][p] \in Trees
  BY DEF TypeOK, GuestsOK
<1>2. GuestsOK'
  <2>1. CASE \E o \in Remotes \cup {Local} : HandOrigin(b, p, o)
    <3>1. PICK o \in Remotes \cup {Local} : HandOrigin(b, p, o)
      BY <2>1
    <3>2. Made(o) \in Trees /\ [tree[b][p] EXCEPT !.origin = o] \in Trees
      BY <1>1, TreeTypes DEF Trees, Origins
    <3>3. tree' \in [Boxes -> [Projects -> Trees]]
      BY <3>1, <3>2 DEF HandOrigin, TypeOK, GuestsOK
    <3> QED BY <3>1, <3>3 DEF HandOrigin, TypeOK, GuestsOK
  <2>2. CASE HandDelete(b, p)
    BY <2>2, TreeTypes DEF HandDelete, TypeOK, GuestsOK
  <2>3. CASE AgentWorks(b, p)
    <3>1. [tree[b][p] EXCEPT !.tidy = ~@] \in Trees
      BY <1>1 DEF Trees
    <3> QED BY <2>3, <3>1 DEF AgentWorks, TypeOK, GuestsOK
  <2>4. CASE SyncedToHost(p)
    BY <2>4 DEF SyncedToHost, TypeOK, GuestsOK
  <2> QED BY <2>1, <2>2, <2>3, <2>4
<1>3. UNCHANGED <<record, lock, pc, commandVars>>
  BY DEF HandOrigin, HandDelete, AgentWorks, SyncedToHost, commandVars
<1>4. RegistryOK' /\ CommandsOK'
  BY <1>3 DEF TypeOK, RegistryOK, CommandsOK, Running, commandVars
<1> QED BY <1>2, <1>4 DEF TypeOK

LEMMA StartType ==
  ASSUME TypeOK, NEW c \in Commands, NEW b \in Boxes, NEW p \in Projects,
         \/ \E e \in Remotes \cup {Local}, source \in Sources : StartAdd(c, b, p, e, source)
         \/ \E r \in Remotes \cup {Local} : StartSetRemote(c, b, p, r)
         \/ StartRemove(c, b, p)
  PROVE  TypeOK'
<1>1. record[p] \in Shared!Entries /\ "inspect" \in Steps /\ "lock" \in Steps
  BY DEF TypeOK, RegistryOK, Steps
<1>2. ASSUME NEW e \in Remotes \cup {Local}, NEW source \in Sources,
             StartAdd(c, b, p, e, source)
      PROVE  TypeOK'
  <2> DEFINE asked == [op |-> "add", box |-> b, project |-> p, want |-> e,
                       source |-> source, was |-> record[p]]
  <2>1. asked \in Jobs
    BY <1>1, SourcesAssumption DEF Jobs
  <2>2. Begin(c, "inspect", asked)
    BY <1>2 DEF StartAdd
  <2>3. asked.box = b /\ asked.project = p /\ asked.op # "set"
    OBVIOUS
  <2> HIDE DEF asked
  <2> QED BY <1>1, <2>1, <2>2, <2>3, BeginType
<1>3. ASSUME NEW r \in Remotes \cup {Local}, StartSetRemote(c, b, p, r)
      PROVE  TypeOK'
  <2> DEFINE asked == [op |-> "set", box |-> b, project |-> p, want |-> r,
                       source |-> "none", was |-> record[p]]
  <2>1. asked \in Jobs
    BY <1>1 DEF Jobs
  <2>2. Begin(c, "lock", asked) /\ asked.want \in Remotes
    BY <1>3 DEF StartSetRemote
  <2>3. asked.box = b /\ asked.project = p
    OBVIOUS
  <2> HIDE DEF asked
  <2> QED BY <1>1, <2>1, <2>2, <2>3, BeginType
<1>4. CASE StartRemove(c, b, p)
  <2> DEFINE asked == [op |-> "remove", box |-> b, project |-> p, want |-> Local,
                       source |-> "none", was |-> record[p]]
  <2>1. asked \in Jobs
    BY <1>1 DEF Jobs
  <2>2. Begin(c, "lock", asked)
    BY <1>4 DEF StartRemove
  <2>3. asked.box = b /\ asked.project = p /\ asked.op # "set"
    OBVIOUS
  <2> HIDE DEF asked
  <2> QED BY <1>1, <2>1, <2>2, <2>3, BeginType
<1> QED BY <1>2, <1>3, <1>4

LEMMA TypeStep == TypeOK /\ [Next]_vars => TypeOK'
<1> SUFFICES ASSUME TypeOK, [Next]_vars PROVE TypeOK'
  OBVIOUS
<1>1. ASSUME NEW c \in Commands, Step(c) PROVE TypeOK'
  <2>1. CASE Return(c) \/ Stop(c)
    BY <2>1, ForgetType DEF Return, Stop
  <2> QED BY <1>1, <2>1, AddStepType, SetStepType, UpdateStepType DEF Step
<1>2. CASE UNCHANGED vars
  BY <1>2 DEF vars, guestVars, commandVars, TypeOK, RegistryOK, GuestsOK, CommandsOK, Running
<1>3. ASSUME NEW p \in Projects, SyncedToHost(p) PROVE TypeOK'
  <2>1. GuestsOK'
    BY <1>3 DEF SyncedToHost, TypeOK, GuestsOK
  <2>2. RegistryOK' /\ CommandsOK'
    BY <1>3 DEF SyncedToHost, TypeOK, RegistryOK, CommandsOK, Running, commandVars
  <2> QED BY <2>1, <2>2 DEF TypeOK
<1> QED BY <1>1, <1>2, <1>3, StartType, OthersType DEF Next

\* The registry, the boxes and the commands keep their shape, for any boxes,
\* projects, remotes and commands.
THEOREM TypeCorrect == Spec => []TypeOK
BY TypeInit, TypeStep, PTL DEF Spec

-----------------------------------------------------------------------------
(* The lock, and the registry behind it. *)

LEMMA LockInit == Init => LockKept
BY DEF Init, LockKept

\* A step outside the update leaves the lock's invariant alone.
LEMMA OutsideLock ==
  ASSUME TypeOK, LockKept, NEW c \in Commands, NEW from, NEW to,
         Goto(c, from, to), {from, to} \cap {"write", "written"} = {},
         UNCHANGED <<record, lock, read>>
  PROVE  LockKept'
BY DEF LockKept, Goto, TypeOK, CommandsOK

LEMMA LockStep == TypeOK /\ LockKept /\ [Next]_vars => LockKept'
<1> SUFFICES ASSUME TypeOK, LockKept, [Next]_vars PROVE LockKept'
  OBVIOUS
<1>1. ASSUME UNCHANGED <<record, lock, read, pc>> PROVE LockKept'
  BY <1>1 DEF LockKept
<1>2. ASSUME NEW c \in Commands, NEW first, NEW asked, Begin(c, first, asked),
             first \in {"inspect", "lock"}
      PROVE  LockKept'
  BY <1>2 DEF LockKept, Begin, MayStart, Running, TypeOK, CommandsOK
<1>3. ASSUME NEW c \in Commands, Forget(c), record' = record PROVE LockKept'
  BY <1>3 DEF LockKept, Forget, TypeOK, CommandsOK
<1>4. ASSUME NEW c \in Commands, Step(c) PROVE LockKept'
  <2>1. CASE \/ InspectForAdd(c) \/ ReadRemote(c) \/ MakeKey(c) \/ ReadWithKey(c)
             \/ Adopt(c) \/ Make(c) \/ CloneBundle(c) \/ DropOrigin(c)
             \/ Share(c) \/ Wire(c) \/ VerifyAdd(c)
    <3>1. \E from, to \in Steps \ {"write", "written"} : Goto(c, from, to)
      BY <2>1 DEF InspectForAdd, ReadRemote, MakeKey, ReadWithKey, AfterRead, Adopt,
                  Make, CloneBundle, DropOrigin, Share, Wire, VerifyAdd, Steps
    <3>2. UNCHANGED <<record, lock, read>>
      BY <2>1 DEF InspectForAdd, ReadRemote, MakeKey, ReadWithKey, Adopt, Make,
                  CloneBundle, DropOrigin, Share, Wire, VerifyAdd, commandVars
    <3> QED BY <3>1, <3>2, OutsideLock
  <2>2. CASE ReachCheckout(c) \/ NotReached(c) \/ AttachOrigin(c) \/ VerifySetRemote(c)
    <3>1. \E from, to \in Steps \ {"write", "written"} : Goto(c, from, to)
      BY <2>2 DEF ReachCheckout, NotReached, AttachOrigin, VerifySetRemote, Steps
    <3>2. UNCHANGED <<record, lock, read>>
      BY <2>2 DEF ReachCheckout, NotReached, AttachOrigin, VerifySetRemote, commandVars
    <3> QED BY <3>1, <3>2, OutsideLock
  <2>3. CASE TakeLock(c)
    BY <2>3 DEF TakeLock, Goto, LockKept, TypeOK, CommandsOK
  <2>4. CASE WriteRegistry(c)
    <3>1. c \in lock /\ lock' = lock /\ read' = read
      BY <2>4 DEF WriteRegistry, Goto, LockKept, commandVars
    <3>2. \A d \in Commands : pc'[d] # "write"
      BY <2>4, <3>1 DEF WriteRegistry, Goto, LockKept, TypeOK, CommandsOK
    <3> QED BY <2>4, <3>1, <3>2 DEF WriteRegistry, Goto, LockKept, TypeOK, CommandsOK
  <2>5. CASE ReleaseLock(c)
    BY <2>5 DEF ReleaseLock, Goto, LockKept, TypeOK, CommandsOK, commandVars
  <2>6. CASE Return(c) \/ Stop(c)
    BY <1>3, <2>6 DEF Return, Stop
  <2> QED BY <1>4, <2>1, <2>2, <2>3, <2>4, <2>5, <2>6 DEF Step
<1>5. ASSUME NEW c \in Commands, NEW b \in Boxes, NEW p \in Projects,
             \/ \E e \in Remotes \cup {Local}, source \in Sources : StartAdd(c, b, p, e, source)
             \/ \E r \in Remotes \cup {Local} : StartSetRemote(c, b, p, r)
             \/ StartRemove(c, b, p)
      PROVE  LockKept'
  BY <1>2, <1>5 DEF StartAdd, StartSetRemote, StartRemove
<1>6. ASSUME NEW b \in Boxes, NEW p \in Projects,
             \/ \E o \in Remotes \cup {Local} : HandOrigin(b, p, o)
             \/ HandDelete(b, p) \/ AgentWorks(b, p)
      PROVE  LockKept'
  BY <1>1, <1>6 DEF HandOrigin, HandDelete, AgentWorks, commandVars
<1>7. ASSUME NEW p \in Projects, SyncedToHost(p) PROVE LockKept'
  BY <1>1, <1>7 DEF SyncedToHost, commandVars
<1>8. CASE UNCHANGED vars
  BY <1>1, <1>8 DEF vars, commandVars
<1> QED BY <1>4, <1>5, <1>6, <1>7, <1>8 DEF Next

\* The document only ever changes in WriteRegistry.
LEMMA OnlyWriteRegistry ==
  ASSUME [Next]_vars, record' # record
  PROVE  \E c \in Commands : WriteRegistry(c)
<1>1. ASSUME NEW c \in Commands, Step(c) PROVE WriteRegistry(c)
  <2>1. ~(\/ InspectForAdd(c) \/ ReadRemote(c) \/ MakeKey(c) \/ ReadWithKey(c)
          \/ Adopt(c) \/ Make(c) \/ CloneBundle(c) \/ DropOrigin(c)
          \/ Share(c) \/ Wire(c) \/ VerifyAdd(c))
    BY DEF InspectForAdd, ReadRemote, MakeKey, ReadWithKey, Adopt, Make, CloneBundle,
           DropOrigin, Share, Wire, VerifyAdd
  <2>2. ~(\/ TakeLock(c) \/ ReleaseLock(c) \/ ReachCheckout(c) \/ NotReached(c)
          \/ AttachOrigin(c) \/ VerifySetRemote(c) \/ Return(c) \/ Stop(c))
    BY DEF TakeLock, ReleaseLock, ReachCheckout, NotReached, AttachOrigin,
           VerifySetRemote, Return, Stop
  <2> QED BY <1>1, <2>1, <2>2 DEF Step
<1>2. ASSUME NEW c \in Commands, NEW b \in Boxes, NEW p \in Projects
      PROVE  ~(\/ \E e \in Remotes \cup {Local}, source \in Sources : StartAdd(c, b, p, e, source)
               \/ \E r \in Remotes \cup {Local} : StartSetRemote(c, b, p, r)
               \/ StartRemove(c, b, p))
  BY DEF StartAdd, StartSetRemote, StartRemove, Begin
<1>3. ASSUME NEW b \in Boxes, NEW p \in Projects
      PROVE  ~(\/ \E o \in Remotes \cup {Local} : HandOrigin(b, p, o)
               \/ HandDelete(b, p) \/ AgentWorks(b, p))
  BY DEF HandOrigin, HandDelete, AgentWorks
<1>4. ASSUME NEW p \in Projects PROVE ~SyncedToHost(p)
  BY DEF SyncedToHost
<1> QED BY <1>1, <1>2, <1>3, <1>4 DEF Next, vars

\* Under the lock, a write is one change of the document as it is.
LEMMA RegistryStep == TypeOK /\ LockKept /\ [Next]_vars => [Shared!Next]_record
<1> SUFFICES ASSUME TypeOK, LockKept, [Next]_vars, record' # record PROVE Shared!Next
  OBVIOUS
<1>1. PICK c \in Commands : WriteRegistry(c)
  BY OnlyWriteRegistry
<1>2. pc[c] = "write" /\ read[c] = record /\ Running(c)
  BY <1>1 DEF WriteRegistry, Goto, LockKept, Running
<1> DEFINE j == job[c]
<1>3. /\ j.project \in Projects /\ j.want \in Remotes \cup {Local}
      /\ j.op = "set" => j.want \in Remotes
  BY <1>2, JobType
<1>4. record \in [Projects -> Shared!Entries]
  BY DEF TypeOK, RegistryOK
<1>5. CASE AddsEntry(j, record) /\ record' = [record EXCEPT ![j.project] = j.want]
  <2>1. record[j.project] # j.want
    BY <1>3, <1>4, <1>5
  <2> QED BY <1>3, <1>5, <2>1 DEF AddsEntry, Shared!Next, Shared!Register
<1>6. CASE /\ j.op = "set" /\ Shared!CanCorrect(record, j.project, j.want)
           /\ record' = [record EXCEPT ![j.project] = j.want]
  BY <1>3, <1>6 DEF Shared!Next, Shared!Correct
<1>7. CASE /\ Shared!CanForget(record, j.project)
           /\ record' = [record EXCEPT ![j.project] = NoEntry]
  BY <1>3, <1>7 DEF Shared!Next, Shared!Forget
<1> QED BY <1>1, <1>2, <1>5, <1>6, <1>7 DEF WriteRegistry

\* The commands, their lock and their file implement the registry: every change
\* of the document is one addition, correction or removal on top of the last.
THEOREM ImplementsRegistry == Spec => RegistryKept
<1>1. Init => Shared!Init
  BY DEF Init, Shared!Init
<1> QED
  BY <1>1, TypeInit, TypeStep, LockInit, LockStep, RegistryStep, PTL
  DEF Spec, RegistryKept, Shared!Spec

\* No change that the registry allows gives one remote to two projects.
LEMMA UniqueStep ==
  ASSUME record \in [Projects -> Shared!Entries], RemotesUnique, [Shared!Next]_record
  PROVE  RemotesUnique'
<1>1. ASSUME NEW p \in Projects, NEW e, ~Shared!Taken(record, p, e),
             record' = [record EXCEPT ![p] = e], e \in Remotes \/ e = Local
      PROVE  RemotesUnique'
  BY <1>1, EntriesAssumption DEF RemotesUnique, Shared!RemotesUnique, Shared!Taken
<1>2. ASSUME NEW p \in Projects, NEW e \in Remotes \cup {Local}, Shared!Register(p, e)
      PROVE  RemotesUnique'
  BY <1>1, <1>2 DEF Shared!Register, Shared!CanRegister
<1>3. ASSUME NEW p \in Projects, NEW r \in Remotes, Shared!Correct(p, r)
      PROVE  RemotesUnique'
  BY <1>1, <1>3 DEF Shared!Correct, Shared!CanCorrect
<1>4. ASSUME NEW p \in Projects, Shared!Forget(p) PROVE RemotesUnique'
  BY <1>4, EntriesAssumption DEF Shared!Forget, RemotesUnique, Shared!RemotesUnique
<1>5. CASE record' = record
  BY <1>5 DEF RemotesUnique, Shared!RemotesUnique
<1> QED BY <1>2, <1>3, <1>4, <1>5 DEF Shared!Next

\* Two projects never hold one remote, however additions, corrections and
\* removals interleave and wherever they are killed.
THEOREM RemotesStayUnique == Spec => []RemotesUnique
<1>1. Init => RemotesUnique
  BY EntriesAssumption DEF Init, RemotesUnique, Shared!RemotesUnique
<1>2. TypeOK /\ LockKept /\ RemotesUnique /\ [Next]_vars => RemotesUnique'
  BY RegistryStep, UniqueStep DEF TypeOK, RegistryOK
<1> QED BY <1>1, <1>2, TypeInit, TypeStep, LockInit, LockStep, PTL DEF Spec

-----------------------------------------------------------------------------
(* What happens to the checkouts. *)

LEMMA HandsOffInit == Init => HandsOff
BY DEF Init, HandsOff, StepsOfAdd, StepsOfSet, Following

\* Nobody else touches a checkout that a command works on.
LEMMA Untouched ==
  ASSUME Hands # "always", NEW b \in Boxes, NEW p \in Projects, MayTouch(b, p),
         NEW c \in Commands
  PROVE  ~(job[c].box = b /\ job[c].project = p)
BY OperatorAssumption DEF MayTouch

\* A step that leaves the guests alone.
LEMMA StillHandsOff ==
  ASSUME TypeOK, HandsOff, NEW c \in Commands, NEW from, NEW to,
         Goto(c, from, to), UNCHANGED <<tree, byHand, job>>,
         to \in StepsOfAdd => job[c].op = "add",
         to \in {"read", "readAgain"} => job[c].op \in {"add", "set"},
         to \in StepsOfSet => job[c].op = "set",
         to = "dropOrigin" => from = "dropOrigin",
         Following(c)' =>
           Following(c) \/ job[c].project \notin byHand[job[c].box]
                        \/ Here(c).origin \in {Local, job[c].was}
  PROVE  HandsOff'
BY DEF HandsOff, Goto, Here, Following, TypeOK, CommandsOK

\* A step that writes a checkout nobody else has set.
LEMMA WriteHandsOff ==
  ASSUME TypeOK, HandsOff, NEW c \in Commands, Running(c), job' = job,
         NEW from, NEW to \in {"dropOrigin", "share", "wire", "verify"}, Goto(c, from, to),
         to \in StepsOfAdd => job[c].op = "add",
         NEW t \in Trees, t.there, SetTree(c, t),
         job[c].project \notin byHand'[job[c].box],
         \A b \in Boxes : byHand'[b] \subseteq byHand[b]
  PROVE  HandsOff'
<1>1. \A b \in Boxes, p \in Projects :
        tree'[b][p] = IF b = job[c].box /\ p = job[c].project THEN t ELSE tree[b][p]
  BY JobType DEF SetTree, TypeOK, GuestsOK
<1>2. \A b \in Boxes, p \in Projects : p \in byHand'[b] => tree'[b][p].there
  BY <1>1 DEF HandsOff
<1>3. \A d \in Commands : pc'[d] = IF d = c THEN to ELSE pc[d]
  BY DEF Goto, TypeOK, CommandsOK
<1>4. ASSUME NEW d \in Commands, Following(d)', job[d].project \in byHand'[job[d].box]
      PROVE  Here(d)'.origin \in {Local, job[d].was}
  <2>1. Following(d) /\ Running(d)
    BY <1>3, <1>4 DEF Following, Running
  <2>2. Here(d)' = Here(d) /\ job[d].project \in byHand[job[d].box]
    BY <1>1, <1>4, <2>1, JobType DEF Here
  <2> QED BY <2>1, <2>2 DEF HandsOff
<1>5. ASSUME NEW d \in Commands
      PROVE  /\ pc'[d] \in StepsOfAdd => job'[d].op = "add"
             /\ pc'[d] \in {"read", "readAgain"} => job'[d].op \in {"add", "set"}
             /\ pc'[d] \in StepsOfSet => job'[d].op = "set"
             /\ pc'[d] = "dropOrigin" => job'[d].project \notin byHand'[job'[d].box]
  <2>1. CASE d = c
    BY <1>3, <2>1 DEF StepsOfSet
  <2>2. CASE d # c
    <3>1. pc'[d] = pc[d] /\ (Running(d) => job[d].box \in Boxes)
      BY <1>3, <2>2, JobType
    <3> QED BY <3>1 DEF HandsOff, Running
  <2> QED BY <2>1, <2>2
<1> QED BY <1>2, <1>4, <1>5 DEF HandsOff

LEMMA AddHandsOff ==
  ASSUME TypeOK, HandsOff, NEW c \in Commands,
         \/ InspectForAdd(c) \/ ReadRemote(c) \/ MakeKey(c) \/ ReadWithKey(c)
         \/ Adopt(c) \/ Make(c) \/ CloneBundle(c) \/ DropOrigin(c)
         \/ Share(c) \/ Wire(c) \/ VerifyAdd(c)
  PROVE  HandsOff'
<1> USE DEF StepsOfAdd, StepsOfSet
<1>1. CASE InspectForAdd(c)
  <2>1. job[c].op = "add"
    BY <1>1 DEF InspectForAdd, Goto, HandsOff
  <2>2. ~Following(c)' /\ UNCHANGED <<tree, byHand, job>>
    BY <1>1, <2>1 DEF InspectForAdd, Following, guestVars
  <2> QED BY <1>1, <2>1, <2>2, StillHandsOff DEF InspectForAdd
<1>2. CASE ReadRemote(c) \/ ReadWithKey(c)
  <2>1. \E from \in {"read", "readAgain"} : Goto(c, from, AfterRead(c))
    BY <1>2 DEF ReadRemote, ReadWithKey
  <2>2. job[c].op \in {"add", "set"} /\ (Following(c)' => Following(c))
        /\ UNCHANGED <<tree, byHand, job>>
    BY <1>2, <2>1 DEF ReadRemote, ReadWithKey, Goto, HandsOff, Following, guestVars
  <2> QED BY <2>1, <2>2, StillHandsOff DEF AfterRead
<1>3. CASE MakeKey(c)
  <2>1. job[c].op \in {"add", "set"} /\ (Following(c)' => Following(c))
        /\ UNCHANGED <<tree, byHand, job>>
    BY <1>3 DEF MakeKey, Goto, HandsOff, Following, commandVars
  <2> QED BY <1>3, <2>1, StillHandsOff DEF MakeKey
<1>4. CASE Adopt(c)
  <2>1. job[c].op = "add"
    BY <1>4 DEF Adopt, Goto, HandsOff
  <2>2. ~Following(c)' /\ UNCHANGED <<tree, byHand, job>>
    BY <1>4, <2>1 DEF Adopt, Following, guestVars, commandVars
  <2> QED BY <1>4, <2>1, <2>2, StillHandsOff DEF Adopt
<1>5. CASE Make(c) \/ CloneBundle(c)
  <2>1. /\ Running(c) /\ job[c].op = "add" /\ ~Here(c).there
        /\ UNCHANGED <<byHand, job>>
        /\ Goto(c, "make", "share") \/ Goto(c, "make", "dropOrigin")
        /\ \E t \in Trees : SetTree(c, t) /\ t.there
    <3>1. Running(c)
      BY <1>5 DEF Make, CloneBundle, Goto, Running
    <3>2. /\ Made(job[c].want) \in Trees /\ Made(job[c].want).there
          /\ Made(Bundle) \in Trees /\ Made(Bundle).there
      BY <3>1, JobType, TreeTypes DEF Made, Origins
    <3> QED BY <1>5, <3>1, <3>2 DEF Make, CloneBundle, Goto, HandsOff, commandVars
  <2>2. job[c].project \notin byHand[job[c].box]
    BY <2>1, JobType DEF HandsOff, Here
  <2> QED BY <2>1, <2>2, WriteHandsOff
<1>6. CASE DropOrigin(c)
  <2>1. /\ Running(c) /\ Here(c).there /\ UNCHANGED <<byHand, job>>
        /\ Goto(c, "dropOrigin", "share")
        /\ SetTree(c, [Here(c) EXCEPT !.origin = Local])
    BY <1>6 DEF DropOrigin, Goto, Running, commandVars
  <2>2. /\ [Here(c) EXCEPT !.origin = Local].there
        /\ [Here(c) EXCEPT !.origin = Local].origin = Local
    BY <2>1, JobType DEF Trees
  <2>3. job[c].op = "add" /\ job[c].project \notin byHand[job[c].box]
    BY <2>1 DEF HandsOff, Goto
  <2>4. [Here(c) EXCEPT !.origin = Local] \in Trees
    BY <2>1, JobType DEF Trees, Origins
  <2> QED BY <2>1, <2>2, <2>3, <2>4, WriteHandsOff
<1>7. CASE Share(c)
  <2>1. /\ Running(c) /\ Here(c).there /\ UNCHANGED <<byHand, job>>
        /\ Goto(c, "share", "wire") \/ Goto(c, "share", "verify")
        /\ SetTree(c, [Here(c) EXCEPT !.shared = TRUE])
    BY <1>7 DEF Share, Goto, Running, commandVars
  <2>2. /\ [Here(c) EXCEPT !.shared = TRUE].there
        /\ [Here(c) EXCEPT !.shared = TRUE].origin = Here(c).origin
    BY <2>1, JobType DEF Trees
  <2>3. \A b \in Boxes, p \in Projects :
          /\ tree[b][p].there => tree'[b][p].there
          /\ tree'[b][p].origin = tree[b][p].origin
    BY <2>1, <2>2, JobType DEF SetTree, Here, TypeOK, GuestsOK
  <2>4. \A d \in Commands : Running(d) => Here(d)'.origin = Here(d).origin
    BY <2>1, <2>3, JobType DEF Here
  <2>5. ASSUME NEW d \in Commands
        PROVE  /\ pc'[d] = pc[d] \/ (d = c /\ pc'[d] \in {"wire", "verify"})
               /\ Following(d)' => Following(d) /\ Running(d)
    BY <2>1 DEF Goto, Following, Running, TypeOK, CommandsOK
  <2> QED BY <2>1, <2>3, <2>4, <2>5 DEF HandsOff
<1>8. CASE Wire(c) \/ VerifyAdd(c)
  <2>1. /\ \E from : Goto(c, from, "verify") \/ Goto(c, from, "lock")
        /\ UNCHANGED <<tree, byHand, job>>
    BY <1>8 DEF Wire, VerifyAdd, guestVars, commandVars
  <2>2. ~Following(c)'
    BY <2>1 DEF Following, Goto, TypeOK, CommandsOK
  <2> QED BY <2>1, <2>2, StillHandsOff
<1> QED BY <1>1, <1>2, <1>3, <1>4, <1>5, <1>6, <1>7, <1>8

LEMMA SetHandsOff ==
  ASSUME TypeOK, HandsOff, NEW c \in Commands,
         \/ TakeLock(c) \/ WriteRegistry(c) \/ ReleaseLock(c)
         \/ ReachCheckout(c) \/ NotReached(c) \/ AttachOrigin(c) \/ VerifySetRemote(c)
  PROVE  HandsOff'
<1> USE DEF StepsOfAdd, StepsOfSet
<1>1. CASE TakeLock(c) \/ WriteRegistry(c) \/ ReleaseLock(c) \/ NotReached(c)
           \/ VerifySetRemote(c)
  <2>1. /\ \E from, to \in {"lock", "write", "written", "reach", "verify", "finished"} :
             Goto(c, from, to) /\ (to = "reach" => job[c].op = "set")
        /\ UNCHANGED <<tree, byHand, job>>
    BY <1>1 DEF TakeLock, WriteRegistry, ReleaseLock, NotReached, VerifySetRemote,
                guestVars, commandVars
  <2>2. ~Following(c)'
    BY <2>1 DEF Following, Goto, TypeOK, CommandsOK
  <2> QED BY <2>1, <2>2, StillHandsOff
<1>2. CASE ReachCheckout(c)
  <2>1. job[c].op = "set"
    BY <1>2 DEF ReachCheckout, Goto, HandsOff
  <2>2. UNCHANGED <<tree, byHand, job>>
    BY <1>2 DEF ReachCheckout, guestVars
  <2>3. \/ Goto(c, "reach", "finished") \/ Goto(c, "reach", "differs")
        \/ /\ Goto(c, "reach", "read") \/ Goto(c, "reach", "attach")
           /\ Here(c).origin \in {Local, job[c].was}
    BY <1>2 DEF ReachCheckout, Follows, Agrees
  <2>4. CASE Goto(c, "reach", "finished") \/ Goto(c, "reach", "differs")
    <3>1. ~Following(c)'
      BY <2>4 DEF Following, Goto, TypeOK, CommandsOK
    <3> QED BY <2>2, <2>4, <3>1, StillHandsOff
  <2>5. CASE /\ Goto(c, "reach", "read") \/ Goto(c, "reach", "attach")
             /\ Here(c).origin \in {Local, job[c].was}
    BY <2>1, <2>2, <2>5, StillHandsOff
  <2> QED BY <2>3, <2>4, <2>5
<1>3. CASE AttachOrigin(c)
  <2>1. /\ Running(c) /\ Here(c).there /\ job' = job
        /\ Goto(c, "attach", "wire") \/ Goto(c, "attach", "verify")
        /\ SetTree(c, [Here(c) EXCEPT !.origin = job[c].want])
        /\ byHand' = [byHand EXCEPT ![job[c].box] = @ \ {job[c].project}]
    BY <1>3 DEF AttachOrigin, Goto, Running, commandVars
  <2>2. [Here(c) EXCEPT !.origin = job[c].want].there
    BY <2>1, JobType DEF Trees
  <2>3. [Here(c) EXCEPT !.origin = job[c].want] \in Trees
    BY <2>1, JobType DEF Trees
  <2>4. /\ job[c].project \notin byHand'[job[c].box]
        /\ \A b \in Boxes : byHand'[b] \subseteq byHand[b]
    BY <2>1, JobType DEF TypeOK, GuestsOK
  <2> QED BY <2>1, <2>2, <2>3, <2>4, WriteHandsOff
<1> QED BY <1>1, <1>2, <1>3

LEMMA OthersHandsOff ==
  ASSUME Hands # "always", TypeOK, HandsOff, NEW b \in Boxes, NEW p \in Projects,
         \/ \E o \in Remotes \cup {Local} : HandOrigin(b, p, o)
         \/ HandDelete(b, p) \/ AgentWorks(b, p)
  PROVE  HandsOff'
<1>1. /\ MayTouch(b, p) /\ UNCHANGED <<pc, job>>
      /\ \A d \in Boxes, q \in Projects : <<d, q>> # <<b, p>> =>
           tree'[d][q] = tree[d][q] /\ (q \in byHand'[d] <=> q \in byHand[d])
  <2>1. CASE \E o \in Remotes \cup {Local} : HandOrigin(b, p, o)
    BY <2>1 DEF HandOrigin, commandVars, TypeOK, GuestsOK
  <2>2. CASE HandDelete(b, p)
    BY <2>2 DEF HandDelete, commandVars, TypeOK, GuestsOK
  <2>3. CASE AgentWorks(b, p)
    BY <2>3 DEF AgentWorks, commandVars, TypeOK, GuestsOK
  <2> QED BY <2>1, <2>2, <2>3
<1>2. p \in byHand'[b] => tree'[b][p].there
  <2>1. ASSUME NEW o, HandOrigin(b, p, o) PROVE tree'[b][p].there
    BY <2>1 DEF HandOrigin, Made, TypeOK, GuestsOK, Trees
  <2>2. CASE HandDelete(b, p)
    BY <2>2 DEF HandDelete, TypeOK, GuestsOK
  <2>3. CASE AgentWorks(b, p)
    BY <2>3 DEF AgentWorks, TypeOK, GuestsOK, Trees
  <2> QED BY <2>1, <2>2, <2>3
<1>3. ASSUME NEW c \in Commands, Running(c)
      PROVE  /\ Here(c)' = Here(c)
             /\ job[c].project \in byHand'[job[c].box] <=> job[c].project \in byHand[job[c].box]
  BY <1>1, <1>3, Untouched, JobType DEF Here
<1>4. ASSUME NEW d \in Boxes, NEW q \in Projects, q \in byHand'[d]
      PROVE  tree'[d][q].there
  BY <1>1, <1>2, <1>4 DEF HandsOff
<1>5. ASSUME NEW c \in Commands
      PROVE  /\ pc'[c] \in StepsOfAdd => job'[c].op = "add"
             /\ pc'[c] \in {"read", "readAgain"} => job'[c].op \in {"add", "set"}
             /\ pc'[c] \in StepsOfSet => job'[c].op = "set"
             /\ pc'[c] = "dropOrigin" => job'[c].project \notin byHand'[job'[c].box]
             /\ Following(c)' /\ job'[c].project \in byHand'[job'[c].box] =>
                  Here(c)'.origin \in {Local, job'[c].was}
  BY <1>1, <1>3 DEF HandsOff, Following, Running
<1> QED BY <1>4, <1>5 DEF HandsOff

LEMMA HandsOffStep ==
  ASSUME Hands # "always", TypeOK, HandsOff, [Next]_vars
  PROVE  HandsOff'
<1>1. ASSUME NEW c \in Commands, Forget(c), UNCHANGED guestVars PROVE HandsOff'
  BY <1>1 DEF HandsOff, Forget, StepsOfAdd, StepsOfSet, Following, guestVars, Here,
              TypeOK, CommandsOK
<1>2. ASSUME NEW c \in Commands, NEW asked,
             Begin(c, "lock", asked) \/ (Begin(c, "inspect", asked) /\ asked.op = "add")
      PROVE  HandsOff'
  <2>1. /\ UNCHANGED <<tree, byHand>>
        /\ \A d \in Commands \ {c} : pc'[d] = pc[d] /\ job'[d] = job[d] /\ Here(d)' = Here(d)
        /\ job'[c] = asked /\ pc'[c] \in {"lock", "inspect"}
        /\ pc'[c] = "inspect" => asked.op = "add"
    BY <1>2 DEF Begin, guestVars, Here, TypeOK, CommandsOK
  <2>2. ~Following(c)'
    BY <2>1 DEF Following
  <2>3. \A d \in Commands \ {c} : Following(d)' <=> Following(d)
    BY <2>1 DEF Following
  <2> QED BY <2>1, <2>2, <2>3 DEF HandsOff, StepsOfAdd, StepsOfSet
<1>3. ASSUME NEW c \in Commands, Step(c) PROVE HandsOff'
  <2>1. CASE Return(c) \/ Stop(c)
    BY <1>1, <2>1 DEF Return, Stop
  <2> QED BY <1>3, <2>1, AddHandsOff, SetHandsOff DEF Step
<1>4. ASSUME NEW c \in Commands, NEW b \in Boxes, NEW p \in Projects,
             \/ \E e \in Remotes \cup {Local}, source \in Sources : StartAdd(c, b, p, e, source)
             \/ \E r \in Remotes \cup {Local} : StartSetRemote(c, b, p, r)
             \/ StartRemove(c, b, p)
      PROVE  HandsOff'
  <2>1. ASSUME NEW e, NEW source, StartAdd(c, b, p, e, source) PROVE HandsOff'
    <3> DEFINE asked == [op |-> "add", box |-> b, project |-> p, want |-> e,
                         source |-> source, was |-> record[p]]
    <3>1. asked.op = "add" /\ Begin(c, "inspect", asked)
      BY <2>1 DEF StartAdd
    <3> HIDE DEF asked
    <3> QED BY <1>2, <3>1
  <2>2. ASSUME NEW r, StartSetRemote(c, b, p, r) PROVE HandsOff'
    <3> DEFINE asked == [op |-> "set", box |-> b, project |-> p, want |-> r,
                         source |-> "none", was |-> record[p]]
    <3>1. Begin(c, "lock", asked)
      BY <2>2 DEF StartSetRemote
    <3> HIDE DEF asked
    <3> QED BY <1>2, <3>1
  <2>3. CASE StartRemove(c, b, p)
    BY <1>2, <2>3 DEF StartRemove
  <2> QED BY <1>4, <2>1, <2>2, <2>3
<1>5. ASSUME UNCHANGED <<tree, byHand, pc, job>> PROVE HandsOff'
  BY <1>5 DEF HandsOff, Following, Here
<1>6. ASSUME NEW p \in Projects, SyncedToHost(p) PROVE HandsOff'
  BY <1>5, <1>6 DEF SyncedToHost, commandVars
<1>7. CASE UNCHANGED vars
  BY <1>5, <1>7 DEF vars, guestVars, commandVars
<1> QED BY <1>3, <1>4, <1>6, <1>7, OthersHandsOff DEF Next

\* The origin of a checkout, and whether it is there, changed by a command.
LEMMA TreeStep ==
  ASSUME TypeOK, NEW c \in Commands, Running(c), NEW t \in Trees, SetTree(c, t),
         NEW b \in Boxes, NEW p \in Projects
  PROVE  IF job[c].box = b /\ job[c].project = p
         THEN tree'[b][p] = t /\ Here(c) = tree[b][p]
         ELSE tree'[b][p] = tree[b][p]
BY JobType DEF SetTree, Here, TypeOK, GuestsOK

\* While nobody touches a checkout that a command works on, no command takes a
\* checkout away, and the origin somebody else gave one only ever gives way to a
\* set-remote that found none there, or the remote it replaces.
THEOREM CheckoutsStayKept == ASSUME Hands # "always" PROVE Spec => CheckoutsKept
<1> DEFINE Moved(b, p) ==
      \E c \in Commands :
        /\ job[c].op = "set" /\ job[c].box = b /\ job[c].project = p
        /\ tree[b][p].origin \in {Local, job[c].was}
<1> DEFINE Kept(b, p) ==
      tree[b][p].there =>
        /\ tree'[b][p].there
        /\ p \in byHand[b] /\ tree'[b][p].origin # tree[b][p].origin => Moved(b, p)
<1>1. ASSUME TypeOK, HandsOff, [Next]_vars, pc' # pc, NEW b \in Boxes, NEW p \in Projects
      PROVE  Kept(b, p)
  <2>1. CASE tree' = tree
    BY <2>1
  <2>2. ASSUME NEW c \in Commands, Step(c), tree' # tree PROVE Kept(b, p)
    <3>1. CASE Make(c) \/ CloneBundle(c)
      <4>1. Running(c) /\ ~Here(c).there
        BY <3>1 DEF Make, CloneBundle, Goto, Running
      <4>2. Made(job[c].want) \in Trees /\ Made(Bundle) \in Trees
        BY <1>1, <4>1, JobType, TreeTypes DEF Origins
      <4>3. Here(c) = tree[job[c].box][job[c].project]
        BY DEF Here
      <4>4. CASE tree[b][p].there
        BY <1>1, <3>1, <4>1, <4>2, <4>3, <4>4, TreeStep DEF Make, CloneBundle
      <4> QED BY <4>4
    <3>2. CASE DropOrigin(c)
      <4>1. Running(c) /\ job[c].project \notin byHand[job[c].box]
        BY <1>1, <3>2 DEF DropOrigin, Goto, Running, HandsOff
      <4>2. /\ [Here(c) EXCEPT !.origin = Local] \in Trees
            /\ [Here(c) EXCEPT !.origin = Local].there = Here(c).there
        BY <1>1, <4>1, JobType DEF Trees, Origins
      <4> DEFINE after == [Here(c) EXCEPT !.origin = Local]
      <4>4. SetTree(c, after) /\ after \in Trees
        BY <3>2, <4>2 DEF DropOrigin
      <4>5. IF job[c].box = b /\ job[c].project = p
            THEN tree'[b][p] = after /\ Here(c) = tree[b][p]
            ELSE tree'[b][p] = tree[b][p]
        <5> HIDE DEF after
        <5> QED BY <1>1, <4>1, <4>4, TreeStep
      <4> QED BY <4>1, <4>2, <4>5
    <3>3. CASE Share(c)
      <4>1. Running(c)
        BY <3>3 DEF Share, Goto, Running
      <4>2. /\ [Here(c) EXCEPT !.shared = TRUE] \in Trees
            /\ [Here(c) EXCEPT !.shared = TRUE].there = Here(c).there
            /\ [Here(c) EXCEPT !.shared = TRUE].origin = Here(c).origin
        BY <1>1, <4>1, JobType DEF Trees
      <4> DEFINE after == [Here(c) EXCEPT !.shared = TRUE]
      <4>4. SetTree(c, after) /\ after \in Trees
        BY <3>3, <4>2 DEF Share
      <4>5. IF job[c].box = b /\ job[c].project = p
            THEN tree'[b][p] = after /\ Here(c) = tree[b][p]
            ELSE tree'[b][p] = tree[b][p]
        <5> HIDE DEF after
        <5> QED BY <1>1, <4>1, <4>4, TreeStep
      <4> QED BY <4>1, <4>2, <4>5
    <3>4. CASE AttachOrigin(c)
      <4>1. Running(c) /\ Following(c)
        BY <1>1, <3>4
        DEF AttachOrigin, Goto, Running, HandsOff, Following, StepsOfSet
      <4>2. /\ [Here(c) EXCEPT !.origin = job[c].want] \in Trees
            /\ [Here(c) EXCEPT !.origin = job[c].want].there = Here(c).there
        BY <1>1, <4>1, JobType DEF Trees
      <4>3. job[c].project \in byHand[job[c].box] => Here(c).origin \in {Local, job[c].was}
        BY <1>1, <4>1 DEF HandsOff
      <4> DEFINE after == [Here(c) EXCEPT !.origin = job[c].want]
      <4>4. SetTree(c, after) /\ after \in Trees
        BY <3>4, <4>2 DEF AttachOrigin
      <4>5. IF job[c].box = b /\ job[c].project = p
            THEN tree'[b][p] = after /\ Here(c) = tree[b][p]
            ELSE tree'[b][p] = tree[b][p]
        <5> HIDE DEF after
        <5> QED BY <1>1, <4>1, <4>4, TreeStep
      <4> QED BY <4>1, <4>2, <4>3, <4>5 DEF Following
    <3>5. \/ Make(c) \/ CloneBundle(c) \/ DropOrigin(c) \/ Share(c) \/ AttachOrigin(c)
      <4>1. ~(\/ InspectForAdd(c) \/ ReadRemote(c) \/ MakeKey(c) \/ ReadWithKey(c)
              \/ Adopt(c) \/ Wire(c) \/ VerifyAdd(c))
        BY <2>2 DEF InspectForAdd, ReadRemote, MakeKey, ReadWithKey, Adopt, Wire,
                    VerifyAdd, guestVars
      <4>2. ~(\/ TakeLock(c) \/ WriteRegistry(c) \/ ReleaseLock(c) \/ ReachCheckout(c)
              \/ NotReached(c) \/ VerifySetRemote(c) \/ Return(c) \/ Stop(c))
        BY <2>2 DEF TakeLock, WriteRegistry, ReleaseLock, ReachCheckout, NotReached,
                    VerifySetRemote, Return, Stop, guestVars
      <4> QED BY <2>2, <4>1, <4>2 DEF Step
    <3> HIDE DEF Kept
    <3> QED BY <3>1, <3>2, <3>3, <3>4, <3>5
  <2>3. ASSUME NEW c \in Commands, NEW d \in Boxes, NEW q \in Projects,
               \/ \E e \in Remotes \cup {Local}, source \in Sources : StartAdd(c, d, q, e, source)
               \/ \E r \in Remotes \cup {Local} : StartSetRemote(c, d, q, r)
               \/ StartRemove(c, d, q)
        PROVE  tree' = tree
    BY <2>3 DEF StartAdd, StartSetRemote, StartRemove, Begin, guestVars
  <2>4. ASSUME NEW d \in Boxes, NEW q \in Projects
        PROVE  ~(\/ \E o \in Remotes \cup {Local} : HandOrigin(d, q, o)
                 \/ HandDelete(d, q) \/ AgentWorks(d, q))
    BY <1>1 DEF HandOrigin, HandDelete, AgentWorks
  <2>5. ASSUME NEW q \in Projects PROVE ~SyncedToHost(q)
    BY <1>1 DEF SyncedToHost
  <2> HIDE DEF Kept
  <2> QED BY <1>1, <2>1, <2>2, <2>3, <2>4, <2>5 DEF Next, vars
<1>2. TypeOK /\ HandsOff /\ [Next]_vars
        => [pc' # pc => \A b \in Boxes, p \in Projects : Kept(b, p)]_vars
  BY <1>1
<1> QED
  BY <1>2, TypeInit, TypeStep, HandsOffInit, HandsOffStep, PTL DEF Spec, CheckoutsKept

-----------------------------------------------------------------------------
(* What an addition records. *)

LEMMA PreparedInit == Init => Apart /\ Prepared
BY DEF Init, Apart, Prepared, Running

\* A step of a command leaves what the others were asked, and the checkouts of
\* other projects, alone.
LEMMA StepLocal ==
  ASSUME TypeOK, NEW c \in Commands, Step(c)
  PROVE  /\ \A d \in Commands \ {c} : pc'[d] = pc[d] /\ job'[d] = job[d]
         /\ Running(c)
         /\ pc'[c] # "idle" => job'[c] = job[c]
         /\ \A b \in Boxes, p \in Projects : p # job[c].project => tree'[b][p] = tree[b][p]
<1>1. Running(c)
  BY DEF Step, InspectForAdd, ReadRemote, MakeKey, ReadWithKey, Adopt, Make, CloneBundle,
         DropOrigin, Share, Wire, VerifyAdd, TakeLock, WriteRegistry, ReleaseLock,
         ReachCheckout, NotReached, AttachOrigin, VerifySetRemote, Return, Stop, Goto,
         Running
<1>2. ASSUME NEW t, SetTree(c, t)
      PROVE  \A b \in Boxes, p \in Projects : p # job[c].project => tree'[b][p] = tree[b][p]
  BY <1>1, <1>2, JobType DEF SetTree, TypeOK, GuestsOK
<1>3. CASE \/ Make(c) \/ CloneBundle(c) \/ DropOrigin(c) \/ Share(c) \/ AttachOrigin(c)
  <2>1. job' = job /\ (\E t : SetTree(c, t)) /\ \E from, to : Goto(c, from, to)
    BY <1>3 DEF Make, CloneBundle, DropOrigin, Share, AttachOrigin, commandVars
  <2> QED BY <1>1, <1>2, <2>1 DEF Goto, TypeOK, CommandsOK
<1>4. CASE \/ InspectForAdd(c) \/ ReadRemote(c) \/ MakeKey(c) \/ ReadWithKey(c)
           \/ Adopt(c) \/ Wire(c) \/ VerifyAdd(c)
  <2>1. UNCHANGED <<job, tree>> /\ \E from, to : Goto(c, from, to)
    BY <1>4 DEF InspectForAdd, ReadRemote, MakeKey, ReadWithKey, Adopt, Wire, VerifyAdd,
                guestVars, commandVars
  <2> QED BY <1>1, <2>1 DEF Goto, TypeOK, CommandsOK
<1>5. CASE \/ TakeLock(c) \/ WriteRegistry(c) \/ ReleaseLock(c) \/ ReachCheckout(c)
           \/ NotReached(c) \/ VerifySetRemote(c)
  <2>1. UNCHANGED <<job, tree>> /\ \E from, to : Goto(c, from, to)
    BY <1>5 DEF TakeLock, WriteRegistry, ReleaseLock, ReachCheckout, NotReached,
                VerifySetRemote, guestVars, commandVars
  <2> QED BY <1>1, <2>1 DEF Goto, TypeOK, CommandsOK
<1>6. CASE Return(c) \/ Stop(c)
  BY <1>1, <1>6 DEF Return, Stop, Forget, guestVars, TypeOK, CommandsOK
<1> QED BY <1>3, <1>4, <1>5, <1>6 DEF Step

\* A command comes to the update of the registry from what it has verified.
LEMMA StepPrepared ==
  ASSUME TypeOK, Prepared, NEW c \in Commands, Step(c), job[c].op = "add",
         pc'[c] \in {"lock", "write"}
  PROVE  Here(c).there /\ Here(c).shared /\ Here(c).origin = job[c].want /\ tree' = tree
<1>1. CASE VerifyAdd(c)
  BY <1>1 DEF VerifyAdd, Compliant, Agrees, guestVars
<1>2. CASE TakeLock(c)
  BY <1>2 DEF TakeLock, Goto, Prepared, guestVars
<1>3. ~(\/ InspectForAdd(c) \/ ReadRemote(c) \/ MakeKey(c) \/ ReadWithKey(c)
        \/ Adopt(c) \/ Make(c) \/ CloneBundle(c) \/ DropOrigin(c) \/ Share(c) \/ Wire(c))
  BY DEF InspectForAdd, ReadRemote, MakeKey, ReadWithKey, AfterRead, Adopt, Make,
         CloneBundle, DropOrigin, Share, Wire, Goto, TypeOK, CommandsOK
<1>4. ~(\/ WriteRegistry(c) \/ ReleaseLock(c) \/ ReachCheckout(c) \/ NotReached(c)
        \/ AttachOrigin(c) \/ VerifySetRemote(c) \/ Return(c) \/ Stop(c))
  BY DEF WriteRegistry, ReleaseLock, ReachCheckout, NotReached, AttachOrigin,
         VerifySetRemote, Return, Stop, Forget, Goto, TypeOK, CommandsOK
<1> QED BY <1>1, <1>2, <1>3, <1>4 DEF Step

LEMMA PreparedStep ==
  ASSUME Hands # "always", SameProject = FALSE, TypeOK, Apart, Prepared, [Next]_vars
  PROVE  Apart' /\ Prepared'
<1>1. ASSUME NEW c \in Commands, Step(c) PROVE Apart' /\ Prepared'
  <2>1. \A d \in Commands : Running(d)' => Running(d) /\ job'[d] = job[d]
    BY <1>1, StepLocal DEF Running
  <2>2. Apart'
    BY <2>1 DEF Apart
  <2>3. ASSUME NEW d \in Commands, job'[d].op = "add", pc'[d] \in {"lock", "write"}
        PROVE  Here(d)'.there /\ Here(d)'.shared /\ Here(d)'.origin = job'[d].want
    <3>1. job'[d] = job[d] /\ Running(d)
      BY <2>1, <2>3 DEF Running
    <3>2. CASE d = c
      <4>1. Here(c).there /\ Here(c).shared /\ Here(c).origin = job[c].want /\ tree' = tree
        BY <1>1, <2>3, <3>1, <3>2, StepPrepared
      <4> QED BY <3>1, <3>2, <4>1 DEF Here
    <3>3. CASE d # c
      <4>1. pc'[d] = pc[d] /\ job[d].project # job[c].project
        BY <1>1, <3>1, <3>3, StepLocal DEF Apart
      <4>2. Here(d)' = Here(d)
        BY <1>1, <3>1, <4>1, StepLocal, JobType DEF Here
      <4> QED BY <2>3, <3>1, <4>1, <4>2 DEF Prepared
    <3> QED BY <3>2, <3>3
  <2> QED BY <2>2, <2>3 DEF Prepared
<1>2. ASSUME NEW c \in Commands, NEW asked,
             \/ Begin(c, "lock", asked) /\ asked.op # "add"
             \/ Begin(c, "inspect", asked)
      PROVE  Apart' /\ Prepared'
  <2>1. /\ \A d \in Commands : Running(d) => job[d].project # asked.project
        /\ \A d \in Commands \ {c} : pc'[d] = pc[d] /\ job'[d] = job[d]
        /\ job'[c] = asked /\ tree' = tree
        /\ pc'[c] = "inspect" \/ (pc'[c] = "lock" /\ asked.op # "add")
    BY <1>2 DEF Begin, MayStart, guestVars, TypeOK, CommandsOK
  <2>2. Apart'
    BY <2>1 DEF Apart, Running
  <2>3. Prepared'
    BY <2>1 DEF Prepared, Here
  <2> QED BY <2>2, <2>3
<1>3. ASSUME NEW c \in Commands, NEW b \in Boxes, NEW p \in Projects,
             \/ \E e \in Remotes \cup {Local}, source \in Sources : StartAdd(c, b, p, e, source)
             \/ \E r \in Remotes \cup {Local} : StartSetRemote(c, b, p, r)
             \/ StartRemove(c, b, p)
      PROVE  Apart' /\ Prepared'
  <2>1. ASSUME NEW e, NEW source, StartAdd(c, b, p, e, source) PROVE Apart' /\ Prepared'
    BY <1>2, <2>1 DEF StartAdd
  <2>2. ASSUME NEW r, StartSetRemote(c, b, p, r) PROVE Apart' /\ Prepared'
    <3> DEFINE asked == [op |-> "set", box |-> b, project |-> p, want |-> r,
                         source |-> "none", was |-> record[p]]
    <3>1. Begin(c, "lock", asked) /\ asked.op # "add"
      BY <2>2 DEF StartSetRemote
    <3> HIDE DEF asked
    <3> QED BY <1>2, <3>1
  <2>3. CASE StartRemove(c, b, p)
    <3> DEFINE asked == [op |-> "remove", box |-> b, project |-> p, want |-> Local,
                         source |-> "none", was |-> record[p]]
    <3>1. Begin(c, "lock", asked) /\ asked.op # "add"
      BY <2>3 DEF StartRemove
    <3> HIDE DEF asked
    <3> QED BY <1>2, <3>1
  <2> QED BY <1>3, <2>1, <2>2, <2>3
<1>4. ASSUME NEW b \in Boxes, NEW p \in Projects,
             \/ \E o \in Remotes \cup {Local} : HandOrigin(b, p, o)
             \/ HandDelete(b, p) \/ AgentWorks(b, p)
      PROVE  Apart' /\ Prepared'
  <2>1. MayTouch(b, p) /\ UNCHANGED <<pc, job>>
    BY <1>4 DEF HandOrigin, HandDelete, AgentWorks, commandVars
  <2>2. \A d \in Boxes, q \in Projects : ~(d = b /\ q = p) => tree'[d][q] = tree[d][q]
    <3>1. CASE \E o \in Remotes \cup {Local} : HandOrigin(b, p, o)
      BY <3>1 DEF HandOrigin, TypeOK, GuestsOK
    <3>2. CASE HandDelete(b, p) \/ AgentWorks(b, p)
      BY <3>2 DEF HandDelete, AgentWorks, TypeOK, GuestsOK
    <3> QED BY <1>4, <3>1, <3>2
  <2>3. ASSUME NEW c \in Commands, Running(c) PROVE Here(c)' = Here(c)
    BY <2>1, <2>2, <2>3, Untouched, JobType DEF Here
  <2> QED BY <2>1, <2>3 DEF Apart, Prepared, Running
<1>5. ASSUME UNCHANGED <<tree, pc, job>> PROVE Apart' /\ Prepared'
  BY <1>5 DEF Apart, Prepared, Running, Here
<1>6. ASSUME NEW p \in Projects, SyncedToHost(p) PROVE Apart' /\ Prepared'
  BY <1>5, <1>6 DEF SyncedToHost, commandVars
<1>7. CASE UNCHANGED vars
  BY <1>5, <1>7 DEF vars, guestVars, commandVars
<1> QED BY <1>1, <1>3, <1>4, <1>6, <1>7 DEF Next

\* While commands on one project do not overlap, and nobody touches a checkout
\* that one works on, nothing is registered that the guest does not hold.
THEOREM RegisteredIsHeld ==
  ASSUME Hands # "always", SameProject = FALSE PROVE Spec => RecordedLast
<1> DEFINE Held(p) ==
      record[p] = NoEntry /\ record'[p] # NoEntry =>
        \E c \in Commands :
          /\ job[c].op = "add" /\ job[c].project = p
          /\ Here(c).there /\ Here(c).shared /\ Here(c).origin = record'[p]
<1>1. ASSUME TypeOK, LockKept, Prepared, [Next]_vars, NEW p \in Projects,
             record[p] = NoEntry, record'[p] # NoEntry
      PROVE  Held(p)
  <2>1. PICK c \in Commands : WriteRegistry(c)
    BY <1>1, OnlyWriteRegistry
  <2>2. pc[c] = "write" /\ read[c] = record /\ Running(c)
    BY <1>1, <2>1 DEF WriteRegistry, Goto, LockKept, Running
  <2> DEFINE j == job[c]
  <2>3. j.project \in Projects /\ record \in [Projects -> Shared!Entries]
    BY <1>1, <2>2, JobType DEF TypeOK, RegistryOK
  <2>4. j.project = p
    BY <1>1, <2>1, <2>2, <2>3 DEF WriteRegistry
  <2>5. j.op = "add" /\ record'[p] = j.want
    BY <1>1, <2>1, <2>2, <2>3, <2>4
    DEF WriteRegistry, AddsEntry, Shared!CanCorrect, Shared!CanForget
  <2> QED BY <1>1, <2>2, <2>4, <2>5 DEF Prepared
<1>2. TypeOK /\ LockKept /\ Prepared /\ [Next]_vars => [\A p \in Projects : Held(p)]_vars
  BY <1>1
<1> QED
  BY <1>2, TypeInit, TypeStep, LockInit, LockStep, PreparedInit, PreparedStep, PTL
  DEF Spec, RecordedLast
=============================================================================
