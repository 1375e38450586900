------------------------- MODULE McpInstall_proofs --------------------------
(***************************************************************************)
(* Proofs about McpInstall.  CustodyFirst is not inductive by itself: that *)
(* a command past the boundary, or an installed broker, implies the whole  *)
(* boundary is what carries it through every step.  What an install        *)
(* reports rests on InstallInv: Way says what an undisturbed install has   *)
(* seen to by the step it is at, Settled that what runs is what the files  *)
(* say or an install is still there to restart it.  LoginInv and Finds     *)
(* extend it to the last login and to the install with nothing to do.      *)
(***************************************************************************)
EXTENDS McpInstall, TLAPS

USE DEF Releases, Policies, Jobs, Procs, Files, Steps

-----------------------------------------------------------------------------
(* Types. *)

LEMMA EmptyTyped == Off \in Procs /\ NoJob \in Jobs
<1>1. 0 \in Releases /\ [rev |-> 0, services |-> {}] \in Policies BY BoundsAssumption
<1>3. Nothing \in [Files -> Releases] BY <1>1 DEF Nothing
<1> HIDE DEF Releases, Policies
<1>2. Off.policy \in Policies BY <1>1 DEF Off
<1> HIDE DEF Nothing
<1> QED BY <1>1, <1>2, <1>3 DEF Off, NoJob

LEMMA ForgetsTyped == ASSUME NEW r \in Jobs PROVE Forgets(r) \in Jobs
<1> DEFINE n == NoJob
<1>1. n \in Jobs BY EmptyTyped
<1>2. Nothing \in [Files -> Releases] BY BoundsAssumption DEF Nothing
<1>3. Forgets(r) = [n EXCEPT !.op = r.op, !.release = IF r.op = "install" THEN r.release ELSE Nothing]
  BY DEF Forgets
<1> HIDE DEF n, Releases, Nothing
<1> QED BY <1>1, <1>2, <1>3

LEMMA PayloadTyped ==
  ASSUME TypeOK, NEW mine \in [Files -> Releases]
  PROVE  Payload(mine) \in [Files -> Releases]
BY DEF Payload, Shipped, TypeOK, Files

\* What a step leaves behind of a command is a command again.
LEMMA NotesTyped ==
  ASSUME TypeOK, NEW c \in Commands, NEW r \in Jobs, NEW to \in Steps, Notes(c, r, to)
  PROVE  /\ my' \in [Commands -> Jobs] /\ pc' \in [Commands -> Steps]
         /\ result' \in [Commands -> {"none", "ok", "failed"}]
         /\ clean' \in [Commands -> BOOLEAN] /\ calm' \in [Commands -> BOOLEAN]
<1> HIDE DEF Jobs, Steps
<1>1. CASE to = "done"
  <2>1. Forgets(my[c]) \in Jobs BY ForgetsTyped DEF TypeOK
  <2>2. Ends(c, "ok") BY <1>1 DEF Notes
  <2> QED BY <2>1, <2>2 DEF TypeOK, Ends, Steps
<1>2. CASE to # "done" BY <1>2 DEF Notes, TypeOK
<1> QED BY <1>1, <1>2

LEMMA EndsTyped ==
  ASSUME TypeOK, NEW c \in Commands, Ends(c, "failed")
  PROVE  /\ my' \in [Commands -> Jobs] /\ pc' \in [Commands -> Steps]
         /\ result' \in [Commands -> {"none", "ok", "failed"}]
         /\ clean' \in [Commands -> BOOLEAN] /\ calm' \in [Commands -> BOOLEAN]
<1>1. Forgets(my[c]) \in Jobs BY ForgetsTyped DEF TypeOK
<1> QED BY <1>1 DEF TypeOK, Ends

LEMMA GotoTyped ==
  ASSUME TypeOK, NEW c \in Commands, NEW to \in Steps, Goto(c, to)
  PROVE  /\ my' \in [Commands -> Jobs] /\ pc' \in [Commands -> Steps]
         /\ result' \in [Commands -> {"none", "ok", "failed"}]
         /\ clean' \in [Commands -> BOOLEAN] /\ calm' \in [Commands -> BOOLEAN]
<1>1. my[c] \in Jobs BY DEF TypeOK
<1>2. Notes(c, my[c], to) BY DEF Goto
<1> HIDE DEF Jobs, Steps
<1> QED BY <1>1, <1>2, NotesTyped

LEMMA StartTyped ==
  ASSUME TypeOK, NEW unit \in Releases
  PROVE  Start(unit) \subseteq Procs
BY BoundsAssumption DEF TypeOK, Start, Failing, Fresh, Off

\* What the steps of a command leave to the commands' own variables.
LocalsTyped ==
  /\ my \in [Commands -> Jobs] /\ pc \in [Commands -> Steps]
  /\ result \in [Commands -> {"none", "ok", "failed"}]
  /\ clean \in [Commands -> BOOLEAN] /\ calm \in [Commands -> BOOLEAN]

\* A login runs its session for a service the policy granted.
SessionOK == \A c \in Commands : pc[c] = "session" => my[c].service \in Services

LEMMA InitTyped == Init => TypeOK
<1> SUFFICES ASSUME Init PROVE TypeOK OBVIOUS
<1>1. 0 \in Releases /\ 1 \in Releases /\ 0 \in 0..MaxHands BY BoundsAssumption
<1>2. Off.policy \in Policies BY BoundsAssumption DEF Off
<1>3. Nothing \in [Files -> Releases] BY <1>1 DEF Nothing
<1> HIDE DEF Releases, Policies, Jobs, Procs
<1> QED BY <1>1, <1>2, <1>3, EmptyTyped DEF Init, TypeOK

LEMMA BeginTyped ==
  ASSUME TypeOK, NEW c \in Commands, StartInstall(c) \/ StartLogin(c)
  PROVE  TypeOK'
<1>0. Shipped \in [Files -> Releases] BY DEF Shipped, TypeOK
<1>1. CASE StartInstall(c)
  <2> DEFINE n == NoJob
  <2>2. n \in Jobs BY EmptyTyped
  <2> HIDE DEF n
  <2>3. [n EXCEPT !.op = "install", !.service = "none", !.release = Shipped] \in Jobs
    BY <1>0, <2>2
  <2>1. [NoJob EXCEPT !.op = "install", !.service = "none", !.release = Shipped] \in Jobs
    BY <2>3 DEF n
  <2> QED BY <1>1, <2>1 DEF TypeOK, StartInstall, Begins, target, boundary
<1>2. CASE StartLogin(c)
  <2>1. PICK s \in policy.services : Begins(c, "login", s, "session") BY <1>2 DEF StartLogin
  <2>2. s \in Services BY <2>1 DEF TypeOK
  <2> DEFINE n == NoJob
  <2>5. n \in Jobs BY EmptyTyped
  <2> HIDE DEF n
  <2>6. [n EXCEPT !.op = "login", !.service = s, !.release = Shipped] \in Jobs
    BY <1>0, <2>2, <2>5
  <2>3. [NoJob EXCEPT !.op = "login", !.service = s, !.release = Shipped] \in Jobs
    BY <2>6 DEF n
  <2>4. clean' \in [Commands -> BOOLEAN] /\ calm' \in [Commands -> BOOLEAN]
    BY <1>2 DEF StartLogin, TypeOK
  <2> QED BY <2>1, <2>3, <2>4 DEF TypeOK, Begins, target, boundary
<1> QED BY <1>1, <1>2

LEMMA StepTyped ==
  ASSUME TypeOK, SessionOK, NEW c \in Commands, Step(c)
  PROVE  TypeOK'
<1> DEFINE j == my[c]
<1>0. j \in Jobs BY DEF TypeOK
<1> HIDE DEF j
<1>1. CASE EnsureBoundary(c)
  <2>1. LocalsTyped' BY <1>1, GotoTyped DEF EnsureBoundary, LocalsTyped
  <2> QED BY <1>1, <2>1 DEF TypeOK, LocalsTyped, EnsureBoundary, At, target
<1>2. CASE ReadPolicy(c)
  <2>0. Payload(j.release) \in [Files -> Releases] BY <1>0, PayloadTyped
  <2>1. [j EXCEPT !.grant = policy, !.release = Payload(@)] \in Jobs BY <1>0, <2>0 DEF TypeOK
  <2>2. LocalsTyped' BY <1>2, <2>1, NotesTyped DEF ReadPolicy, LocalsTyped, j
  <2> QED BY <1>2, <2>2 DEF TypeOK, LocalsTyped, ReadPolicy, At, target
<1>3. CASE \E f \in Files : EnsureFile(c, f)
  <2>1. PICK f \in Files : EnsureFile(c, f) BY <1>3
  <2>2. AfterFile(f) \in Steps BY DEF AfterFile
  <2>3. [j EXCEPT !.payload = TRUE, !.transport = TRUE] \in Jobs BY <1>0
  <2>4. LocalsTyped'
    <3>1. CASE Replace(c, f)
      <4>1. Notes(c, [j EXCEPT !.payload = TRUE, !.transport = TRUE], AfterFile(f))
        BY <3>1 DEF Replace, j
      <4> HIDE DEF Jobs, Steps
      <4> QED BY <2>2, <2>3, <4>1, NotesTyped DEF LocalsTyped
    <3>2. CASE Goto(c, AfterFile(f))
      <4> HIDE DEF Jobs, Steps
      <4> QED BY <2>2, <3>2, GotoTyped DEF LocalsTyped
    <3> QED BY <2>1, <3>1, <3>2 DEF EnsureFile
  <2>5. file' \in [Files -> Releases] BY <1>0, <2>1 DEF EnsureFile, Replace, TypeOK, j
  <2> QED BY <2>1, <2>4, <2>5 DEF TypeOK, LocalsTyped, EnsureFile, At, NoFile
<1>4. CASE Reload(c)
  <2>1. LocalsTyped' BY <1>4, GotoTyped DEF Reload, LocalsTyped
  <2> QED BY <1>4, <2>1 DEF TypeOK, LocalsTyped, Reload, At
<1>5. CASE Allow(c)
  <2>1. \A b \in BOOLEAN : [j EXCEPT !.transport = @ \/ b] \in Jobs BY <1>0
  <2>2. LocalsTyped' BY <1>5, <2>1, NotesTyped DEF Allow, LocalsTyped, j
  <2>3. allow' \subseteq Services BY <1>0, <1>5 DEF Allow, j
  <2> QED BY <1>5, <2>2, <2>3 DEF TypeOK, LocalsTyped, Allow, At
<1>6. CASE List(c)
  <2>1. [j EXCEPT !.transport = TRUE] \in Jobs BY <1>0
  <2>2. [j EXCEPT !.left = decl, !.transport = TRUE] \in Jobs BY <1>0 DEF TypeOK
  <2>3. LocalsTyped' BY <1>6, <2>1, <2>2, NotesTyped, GotoTyped DEF List, LocalsTyped, j
  <2>4. decl' \subseteq Services BY <1>6 DEF List, TypeOK
  <2> QED BY <1>6, <2>3, <2>4 DEF TypeOK, LocalsTyped, List, At, NoDecl
<1>7. CASE Remove(c)
  <2>1. [j EXCEPT !.left = j.grant.services] \in Jobs BY <1>0
  <2>2. \A s : [j EXCEPT !.left = @ \ {s}] \in Jobs BY <1>0
  <2>3. LocalsTyped' BY <1>7, <2>1, <2>2, NotesTyped DEF Remove, LocalsTyped, j
  <2>4. decl' \subseteq Services BY <1>7 DEF Remove, TypeOK
  <2> QED BY <1>7, <2>3, <2>4 DEF TypeOK, LocalsTyped, Remove, At, NoDecl
<1>8. CASE Add(c)
  <2>1. \A s : [j EXCEPT !.left = @ \ {s}] \in Jobs BY <1>0
  <2>2. LocalsTyped' BY <1>8, <2>1, NotesTyped, GotoTyped DEF Add, LocalsTyped, j
  <2>3. decl' \subseteq Services BY <1>0, <1>8 DEF Add, TypeOK, j
  <2> QED BY <1>8, <2>2, <2>3 DEF TypeOK, LocalsTyped, Add, At, NoDecl
<1>9. CASE Pending(c)
  <2>1. [j EXCEPT !.pending = j.grant.services \ oauth] \in Jobs BY <1>0
  <2>2. LocalsTyped' BY <1>9, <2>1, NotesTyped DEF Pending, LocalsTyped, j
  <2> QED BY <1>9, <2>2 DEF TypeOK, LocalsTyped, Pending, At, Looks, NoRuntime
<1>10. CASE Runtime(c)
  <2>1. [j EXCEPT !.enabled = enabled, !.active = (proc.state = "active")] \in Jobs
    BY <1>0 DEF TypeOK
  <2>2. LocalsTyped' BY <1>10, <2>1, NotesTyped DEF Runtime, LocalsTyped, j
  <2> QED BY <1>10, <2>2 DEF TypeOK, LocalsTyped, Runtime, At, Looks, NoRuntime
<1>11. CASE Disable(c)
  <2>1. LocalsTyped' BY <1>11, GotoTyped DEF Disable, LocalsTyped
  <2>2. Off \in Procs BY EmptyTyped
  <2>3. enabled' \in BOOLEAN /\ proc' \in Procs /\ loaded' \in Releases
    <3> HIDE DEF Procs, Releases
    <3> QED BY <1>11, <2>2 DEF TypeOK, Disable
  <2> HIDE DEF Procs
  <2> QED BY <1>11, <2>1, <2>3 DEF TypeOK, LocalsTyped, Disable, At, NoRuntime
<1>12. CASE Enable(c)
  <2>1. LocalsTyped' BY <1>12, GotoTyped DEF Enable, AfterEnable, LocalsTyped
  <2> QED BY <1>12, <2>1 DEF TypeOK, LocalsTyped, Enable, At, NoRuntime
<1>13. CASE Judge(c)
  <2>1. LocalsTyped' BY <1>13, GotoTyped DEF Judge, LocalsTyped
  <2> QED BY <1>13, <2>1 DEF TypeOK, LocalsTyped, Judge, At, Looks, NoRuntime
<1>14. CASE Restart(c)
  <2>1. LocalsTyped' BY <1>14, GotoTyped, EndsTyped DEF Restart, LocalsTyped
  <2>2. proc' \in Procs BY <1>14, StartTyped DEF Restart, TypeOK
  <2>3. midway' \in BOOLEAN BY <1>0, <1>14 DEF Restart, TypeOK, j
  <2> QED BY <1>14, <2>1, <2>2, <2>3 DEF TypeOK, LocalsTyped, Restart, At
<1>15. CASE Session(c)
  <2>1. LocalsTyped' BY <1>15, GotoTyped DEF Session, LocalsTyped
  <2>2. oauth' \subseteq Services BY <1>15 DEF TypeOK, Session, SessionOK, At
  <2> QED BY <1>15, <2>1, <2>2 DEF TypeOK, LocalsTyped, Session, At, target
<1> QED BY <1>1, <1>2, <1>3, <1>4, <1>5, <1>6, <1>7, <1>8, <1>9, <1>10, <1>11, <1>12, <1>13,
         <1>14, <1>15 DEF Step

LEMMA OthersTyped ==
  ASSUME TypeOK, Respawn \/ Reboot \/ EditPolicy \/ Upgrade \/ AgentDeclares
  PROVE  TypeOK'
<1>1. CASE Respawn
  <2>1. proc' \in Procs BY <1>1, StartTyped DEF Respawn, TypeOK
  <2>2. calm' \in [Commands -> BOOLEAN] BY <1>1 DEF Respawn
  <2> HIDE DEF Procs
  <2> QED BY <1>1, <2>1, <2>2 DEF TypeOK, Respawn, Elsewhere, boundary
<1>2. CASE Reboot
  <2>1. file["unit"] \in Releases BY DEF TypeOK
  <2>2. proc' \in Procs BY <1>2, <2>1, StartTyped, EmptyTyped DEF Reboot
  <2>3. calm' \in [Commands -> BOOLEAN] /\ loaded' \in Releases BY <1>2, <2>1 DEF Reboot
  <2> HIDE DEF Procs
  <2> QED BY <1>2, <2>2, <2>3 DEF TypeOK, Reboot, Elsewhere, boundary
<1>3. CASE EditPolicy
  <2>3. PICK services \in (SUBSET Services) \ {{}} :
             /\ policy.rev < MaxEdits
             /\ policy' = [rev |-> policy.rev + 1, services |-> services]
    BY <1>3 DEF EditPolicy
  <2>4. policy.rev \in 0..MaxEdits BY DEF TypeOK
  <2>5. policy.rev + 1 \in 0..MaxEdits BY <2>3, <2>4, BoundsAssumption
  <2>1. policy' \in Policies BY <2>3, <2>5
  <2> HIDE DEF Policies
  <2> QED BY <1>3, <2>1 DEF TypeOK, EditPolicy, Disturbed, Elsewhere, target
<1>4. CASE Upgrade
  <2>1. host' \in Releases BY <1>4, BoundsAssumption DEF Upgrade, TypeOK
  <2> HIDE DEF Releases
  <2> QED BY <1>4, <2>1 DEF TypeOK, Upgrade, Elsewhere, boundary, target
<1>5. CASE AgentDeclares
  <2>1. hands' \in 0..MaxHands BY <1>5, BoundsAssumption DEF AgentDeclares, TypeOK
  <2>2. decl' \subseteq Services BY <1>5 DEF AgentDeclares, TypeOK
  <2> QED BY <1>5, <2>1, <2>2 DEF TypeOK, AgentDeclares, Disturbed, Elsewhere, boundary
<1> QED BY <1>1, <1>2, <1>3, <1>4, <1>5

LEMMA StopTyped ==
  ASSUME TypeOK, NEW c \in Commands, Stop(c)
  PROVE  TypeOK'
<1>1. LocalsTyped' BY EndsTyped DEF Stop, LocalsTyped
<1>2. midway' \in BOOLEAN BY DEF Stop, TypeOK
<1> QED BY <1>1, <1>2 DEF TypeOK, LocalsTyped, Stop, boundary, target

LEMMA IdleTyped == TypeOK /\ UNCHANGED vars => TypeOK'
BY DEF TypeOK, vars, boundary, target, locals

-----------------------------------------------------------------------------
(* The sessions. *)

\* The steps of a command never lead back to a session.
LEMMA NotesLeaves ==
  ASSUME TypeOK, SessionOK, NEW c \in Commands, NEW r, NEW to, to # "session", Notes(c, r, to)
  PROVE  SessionOK'
BY DEF TypeOK, SessionOK, Notes, Ends

LEMMA StepSession ==
  ASSUME TypeOK, SessionOK, NEW c \in Commands, Step(c)
  PROVE  SessionOK'
<1> HIDE DEF Jobs, Procs, Releases, Policies
<1>1. CASE EnsureBoundary(c) BY <1>1, NotesLeaves DEF EnsureBoundary, Goto
<1>2. CASE ReadPolicy(c) BY <1>2, NotesLeaves DEF ReadPolicy
<1>3. CASE \E f \in Files : EnsureFile(c, f)
  <2>1. PICK f \in Files : EnsureFile(c, f) BY <1>3
  <2>2. AfterFile(f) # "session" BY DEF AfterFile
  <2> QED BY <2>1, <2>2, NotesLeaves DEF EnsureFile, Replace, Goto
<1>4. CASE Reload(c) BY <1>4, NotesLeaves DEF Reload, Goto
<1>5. CASE Allow(c) BY <1>5, NotesLeaves DEF Allow
<1>6. CASE List(c) BY <1>6, NotesLeaves DEF List, Goto
<1>7. CASE Remove(c) BY <1>7, NotesLeaves DEF Remove
<1>8. CASE Add(c) BY <1>8, NotesLeaves DEF Add, Goto
<1>9. CASE Pending(c) BY <1>9, NotesLeaves DEF Pending
<1>10. CASE Runtime(c) BY <1>10, NotesLeaves DEF Runtime
<1>11. CASE Disable(c) BY <1>11, NotesLeaves DEF Disable, Goto
<1>12. CASE Enable(c) BY <1>12, NotesLeaves DEF Enable, AfterEnable, Goto
<1>13. CASE Judge(c) BY <1>13, NotesLeaves DEF Judge, Goto
<1>14. CASE Restart(c)
  <2>1. CASE Goto(c, "done") BY <2>1, NotesLeaves DEF Goto
  <2>2. CASE Ends(c, "failed") BY <2>2 DEF Ends, SessionOK, TypeOK
  <2> QED BY <1>14, <2>1, <2>2 DEF Restart
<1>15. CASE Session(c) BY <1>15, NotesLeaves DEF Session, Goto
<1> QED BY <1>1, <1>2, <1>3, <1>4, <1>5, <1>6, <1>7, <1>8, <1>9, <1>10, <1>11, <1>12, <1>13,
         <1>14, <1>15 DEF Step

LEMMA NextTyped ==
  ASSUME TypeOK, SessionOK, [Next]_vars
  PROVE  TypeOK' /\ SessionOK'
<1> HIDE DEF Jobs, Procs, Releases, Policies, Steps, Files
<1>1. CASE \E c \in Commands : StartInstall(c)
  <2>1. PICK c \in Commands : StartInstall(c) BY <1>1
  <2>2. SessionOK' BY <2>1 DEF SessionOK, TypeOK, StartInstall, Begins
  <2> QED BY <2>1, <2>2, BeginTyped
<1>2. CASE \E c \in Commands : StartLogin(c)
  <2>1. PICK c \in Commands : StartLogin(c) BY <1>2
  <2>2. PICK s \in policy.services : Begins(c, "login", s, "session") BY <2>1 DEF StartLogin
  <2>3. s \in Services BY <2>2 DEF TypeOK, Policies
  <2>4. [NoJob EXCEPT !.op = "login", !.service = s, !.release = Shipped].service = s BY DEF NoJob
  <2>5. SessionOK' BY <2>2, <2>3, <2>4 DEF SessionOK, TypeOK, Begins
  <2> QED BY <2>1, <2>5, BeginTyped
<1>3. CASE \E c \in Commands : Step(c) BY <1>3, StepTyped, StepSession
<1>4. CASE \E c \in Commands : Stop(c)
  <2>1. PICK c \in Commands : Stop(c) BY <1>4
  <2>2. SessionOK' BY <2>1 DEF SessionOK, TypeOK, Stop, Ends
  <2> QED BY <2>1, <2>2, StopTyped
<1>5. CASE Respawn \/ Reboot \/ EditPolicy \/ Upgrade \/ AgentDeclares
  <2>1. SessionOK' BY <1>5 DEF SessionOK, Respawn, Reboot, EditPolicy, Upgrade, AgentDeclares, Elsewhere
  <2> QED BY <1>5, <2>1, OthersTyped
<1>6. CASE UNCHANGED vars
  <2>1. SessionOK' BY <1>6 DEF SessionOK, vars, locals
  <2> QED BY <1>6, <2>1, IdleTyped
<1> QED BY <1>1, <1>2, <1>3, <1>4, <1>5, <1>6 DEF Next

\* Whatever commands, boots, edits and failures come in whatever order, every
\* part of the box and every command has its type (mcpinstall.go).
THEOREM TypeCorrect == Spec => []TypeOK
<1>1. Init => TypeOK /\ SessionOK BY InitTyped DEF Init, SessionOK
<1>2. TypeOK /\ SessionOK /\ [Next]_vars => TypeOK' /\ SessionOK' BY NextTyped
<1> QED BY <1>1, <1>2, PTL DEF Spec

-----------------------------------------------------------------------------
(* The custody boundary. *)

Crossed == \A c \in Commands : pc[c] \notin {"idle", "boundary", "done"} => have = Boundary
Custody == CustodyFirst /\ Crossed /\ (file["broker"] # 0 => have = Boundary)

\* While the boundary is incomplete no command is past it.
LEMMA StepIncomplete ==
  ASSUME Crossed, have # Boundary, NEW c \in Commands, Step(c)
  PROVE  EnsureBoundary(c)
<1>1. pc[c] \in {"idle", "boundary", "done"} BY DEF Crossed
<1> HIDE DEF Jobs, Procs, Releases, Policies
<1> QED BY <1>1 DEF Step, ReadPolicy, EnsureFile, Reload, Allow, List, Remove, Add, Pending, Runtime,
     Disable, Enable, Judge, Restart, Session, At, Looks, NoRuntime

\* Complete, it stays so.
LEMMA StepComplete ==
  ASSUME have = Boundary, NEW c \in Commands, Step(c)
  PROVE  have' = have
<1> HIDE DEF Jobs, Procs, Releases, Policies
<1> QED BY DEF Step, EnsureBoundary, AfterBoundary, ReadPolicy, EnsureFile, NoFile, Reload, Allow, List,
     NoDecl, Remove, Add, Pending, Runtime, Disable, Enable, Judge, Restart, Session, Looks, NoRuntime

LEMMA NextCustody ==
  ASSUME TypeOK, Custody, [Next]_vars
  PROVE  Custody'
<1> HIDE DEF Jobs, Procs, Releases, Policies, Steps
<1>1. CASE have = Boundary
  <2>1. have' = have
    BY <1>1, StepComplete DEF Next, vars, boundary, StartInstall, StartLogin, Begins, Stop, Respawn, Reboot,
       EditPolicy, Upgrade, AgentDeclares
  <2> QED BY <1>1, <2>1 DEF Custody, CustodyFirst, Crossed, Boundary
<1>2. CASE have # Boundary
  <2>1. /\ oauth = {} /\ ~enabled /\ proc.state = "off" /\ file["broker"] = 0
        /\ \A c \in Commands : pc[c] \in {"idle", "boundary", "done"}
    BY <1>2 DEF Custody, CustodyFirst, Crossed, TypeOK
  <2> DEFINE Quiet == /\ oauth = {} /\ ~enabled /\ proc.state = "off" /\ file["broker"] = 0
                      /\ \A c \in Commands : pc[c] \in {"idle", "boundary", "done"}
  <2>2. Quiet'
    <3>1. CASE \E c \in Commands : StartInstall(c)
      BY <2>1, <3>1 DEF StartInstall, Begins, boundary, target, TypeOK
    <3>2. CASE \E c \in Commands : StartLogin(c) BY <2>1, <3>2 DEF StartLogin
    <3>3. CASE \E c \in Commands : Step(c)
      <4>1. PICK c \in Commands : EnsureBoundary(c) BY <1>2, <3>3, StepIncomplete DEF Custody
      <4>2. Goto(c, "boundary") BY <1>2, <4>1 DEF EnsureBoundary, AfterBoundary
      <4>3. \A d \in Commands : pc'[d] \in {"idle", "boundary", "done"}
        BY <2>1, <4>2 DEF Goto, Notes, TypeOK
      <4> QED BY <2>1, <4>1, <4>3 DEF EnsureBoundary, target
    <3>4. CASE \E c \in Commands : Stop(c)
      BY <2>1, <3>4 DEF Stop, Ends, boundary, target, TypeOK
    <3>5. CASE Respawn BY <2>1, <3>5 DEF Respawn
    <3>6. CASE Reboot
      <4>1. proc' = Off BY <2>1, <3>6 DEF Reboot
      <4> QED BY <2>1, <3>6, <4>1 DEF Reboot, Off, boundary, Elsewhere
    <3>7. CASE EditPolicy
      <4>1. UNCHANGED <<pc, oauth, target>> BY <3>7 DEF EditPolicy, Elsewhere
      <4>2. UNCHANGED <<pc, oauth, enabled, proc, file>> BY <4>1 DEF target
      <4> QED BY <2>1, <4>2
    <3>8. CASE Upgrade
      <4>1. UNCHANGED <<pc, oauth, enabled, proc, file>>
        BY <3>8 DEF Upgrade, Elsewhere, boundary, target
      <4> QED BY <2>1, <4>1
    <3>9. CASE AgentDeclares
      <4>1. UNCHANGED <<pc, oauth, enabled, proc, file>>
        BY <3>9 DEF AgentDeclares, Elsewhere, boundary
      <4> QED BY <2>1, <4>1
    <3>10. CASE UNCHANGED vars BY <2>1, <3>10 DEF vars, locals, boundary, target
    <3> QED BY <3>1, <3>2, <3>3, <3>4, <3>5, <3>6, <3>7, <3>8, <3>9, <3>10 DEF Next
  <2> QED BY <2>2 DEF Custody, CustodyFirst, Crossed
<1> QED BY <1>1, <1>2

\* No credential is stored and no broker enabled or running before the whole
\* custody boundary is in place, wherever installs stopped (mcpinstall.go,
\* mcpoauth.go): for any commands, services, releases and policies, and
\* whether or not installs overlap.
THEOREM CustodyComesFirst == Spec => []CustodyFirst
<1> HIDE DEF Jobs, Procs, Releases, Policies, Steps
<1>1. Init => Custody BY DEF Init, Custody, CustodyFirst, Crossed, Off, Nothing, Files
<1>2. TypeOK /\ Custody /\ [Next]_vars => Custody' BY NextCustody
<1>3. Custody => CustodyFirst BY DEF Custody
<1> QED BY <1>1, <1>2, <1>3, TypeCorrect, PTL DEF Spec

-----------------------------------------------------------------------------
(* Who runs with whom, and what the last success is worth. *)

HIDE DEF Releases, Policies, Jobs, Procs, Files, Steps

\* An install runs alone; what a command is still sure of, nobody else is
\* about to change.
Alone == \A c \in Commands :
  /\ Running(c) => my[c].op \in {"install", "login"}
  /\ result[c] # "none" => pc[c] = "done"
  /\ Installing(c) => \A d \in Commands : d # c => ~Running(d)
  /\ clean[c] /\ my[c].op = "install" => \A d \in Commands : d # c => ~Running(d)
  /\ clean[c] /\ my[c].op = "login" =>
       \A d \in Commands : ~Installing(d) /\ (pc[d] = "session" => clean[d])

\* A login passes by the files and the configuration; only a running install
\* has replaced something.
Shape == \A c \in Commands :
  /\ my[c].op = "install" => pc[c] # "session"
  /\ my[c].op = "login" =>
       pc[c] \in {"session", "policy", "pending", "enable", "restart", "done"} /\ ~my[c].transport
  /\ my[c].payload => my[c].transport
  /\ my[c].transport => Running(c)

\* One step of c, and nothing of any other command.
Moves(c) ==
  /\ Running(c) /\ UNCHANGED <<host, policy, hands, clean, calm>>
  /\ \A d \in Commands : d # c => my'[d] = my[d] /\ pc'[d] = pc[d] /\ result'[d] = result[d]
  /\ my'[c].op = my[c].op /\ pc'[c] \notin {"idle", "session"}
  /\ pc'[c] = "done" => my'[c] = Forgets(my[c]) /\ result'[c] # "none"
  /\ pc'[c] # "done" => result'[c] = result[c]

LEMMA ForgetsFields ==
  ASSUME NEW r \in Jobs
  PROVE  /\ Forgets(r).op = r.op /\ ~Forgets(r).transport /\ ~Forgets(r).payload
         /\ r.op = "install" => Forgets(r).release = r.release
<1> QED BY DEF Forgets, NoJob

LEMMA NotesMoves ==
  ASSUME TypeOK, NEW c \in Commands, NEW r \in Jobs, NEW to, to \notin {"idle", "session"},
         r.op = my[c].op, Running(c), UNCHANGED <<host, policy, hands>>, Notes(c, r, to)
  PROVE  Moves(c) /\ pc'[c] = to /\ (to # "done" => my'[c] = r)
<1>1. my[c] \in Jobs BY DEF TypeOK
<1>2. Forgets(my[c]).op = my[c].op BY <1>1, ForgetsFields
<1> QED BY <1>2 DEF TypeOK, Moves, Notes, Ends, Running

LEMMA EndsMoves ==
  ASSUME TypeOK, NEW c \in Commands, Running(c), UNCHANGED <<host, policy, hands>>, Ends(c, "failed")
  PROVE  Moves(c) /\ pc'[c] = "done" /\ result'[c] = "failed"
<1>1. my[c] \in Jobs BY DEF TypeOK
<1>2. Forgets(my[c]).op = my[c].op BY <1>1, ForgetsFields
<1> QED BY <1>2 DEF TypeOK, Moves, Ends

LEMMA GotoMoves ==
  ASSUME TypeOK, NEW c \in Commands, NEW to, to \notin {"idle", "session"},
         Running(c), UNCHANGED <<host, policy, hands>>, Goto(c, to)
  PROVE  Moves(c) /\ pc'[c] = to /\ (to # "done" => my'[c] = my[c])
<1>1. my[c] \in Jobs BY DEF TypeOK
<1> QED BY <1>1, NotesMoves DEF Goto

LEMMA StepMoves ==
  ASSUME TypeOK, NEW c \in Commands, Step(c)
  PROVE  Moves(c)
<1> USE DEF At, Running
<1> DEFINE j == my[c]
<1>0. j \in Jobs BY DEF TypeOK
<1> HIDE DEF j
<1>1. CASE EnsureBoundary(c) BY <1>1, GotoMoves DEF EnsureBoundary
<1>2. CASE ReadPolicy(c)
  <2> DEFINE r == [j EXCEPT !.grant = policy, !.release = Payload(@)]
  <2>0. Payload(j.release) \in [Files -> Releases] BY <1>0, PayloadTyped DEF Jobs
  <2>1. r.op = j.op /\ r \in Jobs BY <1>0, <2>0 DEF TypeOK, Jobs
  <2>2. Notes(c, r, "broker") \/ Notes(c, r, "pending") BY <1>2 DEF ReadPolicy, j
  <2>3. Running(c) /\ UNCHANGED <<host, policy, hands>> BY <1>2 DEF ReadPolicy
  <2> HIDE DEF r, Running
  <2> QED BY <2>1, <2>2, <2>3, NotesMoves DEF j
<1>3. CASE \E f \in Files : EnsureFile(c, f)
  <2>1. PICK f \in Files : EnsureFile(c, f) BY <1>3
  <2>4. Running(c) /\ UNCHANGED <<host, policy, hands>> BY <2>1 DEF EnsureFile, Files
  <2> DEFINE r == [j EXCEPT !.payload = TRUE, !.transport = TRUE]
             to == AfterFile(f)
  <2>2. to \notin {"idle", "session"} BY <2>1 DEF AfterFile, Files
  <2>3. r \in Jobs /\ r.op = j.op BY <1>0 DEF Jobs
  <2>5. CASE Replace(c, f)
    <3>1. Notes(c, r, to) BY <2>5 DEF Replace, j
    <3> HIDE DEF r, to, Running
    <3> QED BY <2>2, <2>3, <2>4, <3>1, NotesMoves DEF j
  <2>6. CASE Goto(c, to)
    <3> HIDE DEF r, to, Running
    <3> QED BY <2>2, <2>4, <2>6, GotoMoves
  <2> QED BY <2>1, <2>5, <2>6 DEF EnsureFile
<1>4. CASE Reload(c) BY <1>4, GotoMoves DEF Reload
<1>5. CASE Allow(c)
  <2> DEFINE r == [j EXCEPT !.transport = @ \/ allow # j.grant.services]
  <2>1. r \in Jobs /\ r.op = j.op BY <1>0 DEF Jobs
  <2>2. Notes(c, r, "list") /\ "list" \notin {"idle", "session"} BY <1>5 DEF Allow, j
  <2>3. Running(c) /\ UNCHANGED <<host, policy, hands>> BY <1>5 DEF Allow
  <2> HIDE DEF r, Running
  <2> QED BY <2>1, <2>2, <2>3, NotesMoves DEF j
<1>6. CASE List(c)
  <2> DEFINE r == [j EXCEPT !.transport = TRUE]
             q == [j EXCEPT !.left = decl, !.transport = TRUE]
  <2>1. r \in Jobs /\ r.op = j.op /\ q \in Jobs /\ q.op = j.op BY <1>0 DEF TypeOK, Jobs
  <2>2. Notes(c, r, "pending") \/ Notes(c, q, "remove") \/ Goto(c, "pending") BY <1>6 DEF List, j
  <2>3. Running(c) /\ UNCHANGED <<host, policy, hands>> BY <1>6 DEF List
  <2> HIDE DEF r, q, Running
  <2> QED BY <2>1, <2>2, <2>3, NotesMoves, GotoMoves DEF j
<1>7. CASE Remove(c)
  <2>3. Running(c) /\ UNCHANGED <<host, policy, hands>> BY <1>7 DEF Remove
  <2>4. CASE Notes(c, [j EXCEPT !.left = j.grant.services], "add")
    <3> DEFINE r == [j EXCEPT !.left = j.grant.services]
    <3>1. r \in Jobs /\ r.op = j.op BY <1>0 DEF Jobs, Policies
    <3>2. Notes(c, r, "add") BY <2>4
    <3> HIDE DEF r, Running
    <3> QED BY <3>1, <3>2, <2>3, NotesMoves DEF j
  <2>5. CASE \E s : Notes(c, [j EXCEPT !.left = @ \ {s}], "remove")
    <3>0. PICK s : Notes(c, [j EXCEPT !.left = @ \ {s}], "remove") BY <2>5
    <3> DEFINE r == [j EXCEPT !.left = @ \ {s}]
    <3>1. r \in Jobs /\ r.op = j.op BY <1>0 DEF Jobs
    <3>2. Notes(c, r, "remove") BY <3>0
    <3> HIDE DEF r, Running
    <3> QED BY <3>1, <3>2, <2>3, NotesMoves DEF j
  <2> QED BY <1>7, <2>4, <2>5 DEF Remove, j
<1>8. CASE Add(c)
  <2>3. Running(c) /\ UNCHANGED <<host, policy, hands>> BY <1>8 DEF Add
  <2>4. CASE Goto(c, "pending") BY <2>3, <2>4, GotoMoves
  <2>5. CASE \E s : Notes(c, [j EXCEPT !.left = @ \ {s}], "add")
    <3>0. PICK s : Notes(c, [j EXCEPT !.left = @ \ {s}], "add") BY <2>5
    <3> DEFINE r == [j EXCEPT !.left = @ \ {s}]
    <3>1. r \in Jobs /\ r.op = j.op BY <1>0 DEF Jobs
    <3>2. Notes(c, r, "add") BY <3>0
    <3> HIDE DEF r, Running
    <3> QED BY <3>1, <3>2, <2>3, NotesMoves DEF j
  <2> QED BY <1>8, <2>4, <2>5 DEF Add, j
<1>9. CASE Pending(c)
  <2> DEFINE r == [j EXCEPT !.pending = j.grant.services \ oauth]
  <2>1. r \in Jobs /\ r.op = j.op BY <1>0 DEF Jobs, Policies
  <2>2. Notes(c, r, "runtime") \/ Notes(c, r, "enable") \/ Notes(c, r, "done") BY <1>9 DEF Pending, j
  <2>3. Running(c) /\ UNCHANGED <<host, policy, hands>> BY <1>9 DEF Pending
  <2> HIDE DEF r, Running
  <2> QED BY <2>1, <2>2, <2>3, NotesMoves DEF j
<1>10. CASE Runtime(c)
  <2> DEFINE r == [j EXCEPT !.enabled = enabled, !.active = (proc.state = "active")]
  <2>1. r \in Jobs /\ r.op = j.op BY <1>0 DEF TypeOK, Jobs
  <2>2. Notes(c, r, "disable") \/ Notes(c, r, "judge") \/ Notes(c, r, "enable") BY <1>10 DEF Runtime, j
  <2>3. Running(c) /\ UNCHANGED <<host, policy, hands>> BY <1>10 DEF Runtime
  <2> HIDE DEF r, Running
  <2> QED BY <2>1, <2>2, <2>3, NotesMoves DEF j
<1>11. CASE Disable(c) BY <1>11, GotoMoves DEF Disable
<1>12. CASE Enable(c) BY <1>12, GotoMoves DEF Enable, AfterEnable
<1>13. CASE Judge(c) BY <1>13, GotoMoves DEF Judge
<1>14. CASE Restart(c) BY <1>14, GotoMoves, EndsMoves DEF Restart
<1>15. CASE Session(c) BY <1>15, GotoMoves DEF Session
<1> QED BY <1>1, <1>2, <1>3, <1>4, <1>5, <1>6, <1>7, <1>8, <1>9, <1>10, <1>11, <1>12, <1>13,
         <1>14, <1>15 DEF Step

LEMMA StopMoves ==
  ASSUME TypeOK, NEW c \in Commands, Stop(c)
  PROVE  Moves(c) /\ pc'[c] = "done" /\ result'[c] = "failed"
<1> QED BY EndsMoves DEF Stop, boundary

LEMMA MovesAlone ==
  ASSUME TypeOK, Alone, NEW c \in Commands, Moves(c)
  PROVE  Alone'
<1>1. /\ \A d \in Commands : my'[d].op = my[d].op /\ clean'[d] = clean[d]
      /\ \A d \in Commands : Running(d)' => Running(d)
      /\ \A d \in Commands : Installing(d)' => Installing(d)
      /\ \A d \in Commands : pc'[d] = "session" => pc[d] = "session"
  BY DEF Moves, Running, Installing
<1>2. \A d \in Commands : result'[d] # "none" => pc'[d] = "done"
  <2>1. pc[c] # "done" BY DEF Moves, Running
  <2> QED BY <2>1 DEF Moves, Alone
<1> QED BY <1>1, <1>2 DEF Alone

LEMMA InstallAlone ==
  ASSUME TypeOK, Alone, Overlap = FALSE, NEW c \in Commands, StartInstall(c)
  PROVE  Alone'
<1>1. /\ my'[c].op = "install" /\ pc'[c] = "boundary" /\ result'[c] = "none"
      /\ \A d \in Commands : d # c => my'[d] = my[d] /\ pc'[d] = pc[d] /\ result'[d] = result[d]
      /\ \A d \in Commands : clean'[d] <=> d = c
  BY DEF StartInstall, Begins, NoJob, TypeOK
<1>2. \A d \in Commands : ~Running(d) BY DEF StartInstall
<1> QED BY <1>1, <1>2 DEF Alone, Running, Installing

LEMMA LoginAlone ==
  ASSUME TypeOK, Alone, Overlap = FALSE, NEW c \in Commands, StartLogin(c)
  PROVE  Alone'
<1>0. PICK s \in policy.services : Begins(c, "login", s, "session") BY DEF StartLogin
<1>1. /\ my'[c].op = "login" /\ pc'[c] = "session" /\ result'[c] = "none"
      /\ \A d \in Commands : d # c => my'[d] = my[d] /\ pc'[d] = pc[d] /\ result'[d] = result[d]
  BY <1>0 DEF Begins, NoJob, TypeOK
<1>3. \A d \in Commands : clean'[d] <=> d = c \/ (clean[d] /\ my[d].op = "login")
  BY DEF StartLogin
<1>2. \A d \in Commands : ~Installing(d) /\ pc[d] # "session" BY DEF StartLogin
<1>4. \A d \in Commands : ~Installing(d)' BY <1>1, <1>2 DEF Running, Installing
<1>5. \A d \in Commands : clean'[d] => my'[d].op = "login" BY <1>1, <1>3
<1>6. \A d \in Commands : pc'[d] = "session" => clean'[d] BY <1>1, <1>2, <1>3
<1>7. \A d \in Commands : /\ Running(d)' => my'[d].op \in {"install", "login"}
                          /\ result'[d] # "none" => pc'[d] = "done"
  BY <1>1 DEF Alone, Running
<1> QED BY <1>4, <1>5, <1>6, <1>7 DEF Alone

LEMMA OthersAlone ==
  ASSUME TypeOK, Alone, Respawn \/ Reboot \/ EditPolicy \/ Upgrade \/ AgentDeclares \/ UNCHANGED vars
  PROVE  Alone'
<1>1. UNCHANGED <<my, pc, result>>
  BY DEF Respawn, Reboot, EditPolicy, Upgrade, AgentDeclares, Elsewhere, vars, locals
<1>3. \/ \A d \in Commands : ~clean'[d]
      \/ clean' = clean
  BY DEF Respawn, Reboot, EditPolicy, Upgrade, AgentDeclares, Disturbed, vars, locals
<1>4. \A d \in Commands : (Running(d)' <=> Running(d)) /\ (Installing(d)' <=> Installing(d))
  BY <1>1 DEF Running, Installing
<1> QED BY <1>1, <1>3, <1>4 DEF Alone

LEMMA NextAlone ==
  ASSUME TypeOK, Alone, Overlap = FALSE, [Next]_vars
  PROVE  Alone'
<1> QED BY MovesAlone, InstallAlone, LoginAlone, OthersAlone, StepMoves, StopMoves DEF Next

-----------------------------------------------------------------------------
(* What a step of a command leaves of its notes. *)

LEMMA StepShape ==
  ASSUME TypeOK, Shape, NEW c \in Commands, Step(c)
  PROVE  Shape'
<1> USE DEF At
<1> DEFINE j == my[c]
<1>0. j \in Jobs BY DEF TypeOK
<1> HIDE DEF j
<1>a. Moves(c) BY StepMoves
<1>b. pc'[c] = "done" => my'[c].op = j.op /\ ~my'[c].transport /\ ~my'[c].payload
  BY <1>a, <1>0, ForgetsFields DEF Moves, j
<1>c. SUFFICES ASSUME pc'[c] # "done"
      PROVE  /\ j.op = "login" => pc'[c] \in {"policy", "pending", "enable", "restart"} /\ ~my'[c].transport
             /\ my'[c].payload => my'[c].transport
  BY <1>a, <1>b DEF Shape, Moves, Running, j
<1>d. /\ j.op = "login" => pc[c] \in {"session", "policy", "pending", "enable", "restart", "done"} /\ ~j.transport
      /\ j.payload => j.transport
  BY DEF Shape, j
<1>e. my \in [Commands -> Jobs] /\ pc \in [Commands -> Steps] BY DEF TypeOK
<1> USE DEF Goto, Notes, Ends
<1>1. CASE EnsureBoundary(c) BY <1>1, <1>c, <1>d, <1>e DEF EnsureBoundary, j
<1>2. CASE ReadPolicy(c)
  <2> DEFINE r == [j EXCEPT !.grant = policy, !.release = Payload(@)]
  <2>1. r.transport = j.transport /\ r.payload = j.payload BY <1>0 DEF Jobs
  <2>2. my'[c] = r /\ pc'[c] \in {"broker", "pending"} /\ (j.op = "login" => pc'[c] = "pending")
    BY <1>2, <1>c, <1>e DEF ReadPolicy, j
  <2>3. pc[c] = "policy" BY <1>2 DEF ReadPolicy
  <2> HIDE DEF r
  <2> QED BY <1>d, <2>1, <2>2, <2>3
<1>3. CASE \E f \in Files : EnsureFile(c, f)
  <2>1. PICK f \in Files : EnsureFile(c, f) BY <1>3
  <2>4. j.op # "login" BY <2>1, <1>d DEF EnsureFile, Files, j
  <2>5. CASE Replace(c, f)
    <3>1. my'[c] = [j EXCEPT !.payload = TRUE, !.transport = TRUE]
      BY <2>5, <1>c, <1>e DEF Replace, j
    <3> QED BY <1>0, <2>4, <3>1 DEF Jobs
  <2>6. CASE Goto(c, AfterFile(f)) BY <2>4, <2>6, <1>c, <1>d, <1>e DEF j
  <2> QED BY <2>1, <2>5, <2>6 DEF EnsureFile
<1>4. CASE Reload(c) BY <1>4, <1>c, <1>d, <1>e DEF Reload, j
<1>5. CASE Allow(c) BY <1>0, <1>5, <1>c, <1>d, <1>e DEF Allow, j, Jobs
<1>6. CASE List(c)
  <2>1. j.op # "login" BY <1>6, <1>d DEF List
  <2>2. \/ my'[c] = j \/ my'[c] = [j EXCEPT !.transport = TRUE]
        \/ my'[c] = [j EXCEPT !.left = decl, !.transport = TRUE]
    BY <1>6, <1>c, <1>e DEF List, j
  <2> QED BY <1>0, <1>d, <2>1, <2>2 DEF Jobs
<1>7. CASE Remove(c)
  <2>1. j.op # "login" BY <1>7, <1>d DEF Remove
  <2>2. \E left : my'[c] = [j EXCEPT !.left = left] BY <1>7, <1>c, <1>e DEF Remove, j
  <2> QED BY <1>0, <1>d, <2>1, <2>2 DEF Jobs
<1>8. CASE Add(c)
  <2>1. j.op # "login" BY <1>8, <1>d DEF Add
  <2>2. \/ my'[c] = j \/ \E left : my'[c] = [j EXCEPT !.left = left] BY <1>8, <1>c, <1>e DEF Add, j
  <2> QED BY <1>0, <1>d, <2>1, <2>2 DEF Jobs
<1>9. CASE Pending(c)
  <2> DEFINE r == [j EXCEPT !.pending = j.grant.services \ oauth]
  <2>1. r.transport = j.transport /\ r.payload = j.payload BY <1>0 DEF Jobs
  <2>2. my'[c] = r /\ (j.op = "login" => pc'[c] = "enable")
    BY <1>0, <1>9, <1>c, <1>d, <1>e DEF Pending, j, Jobs
  <2> HIDE DEF r
  <2> QED BY <1>d, <2>1, <2>2
<1>10. CASE Runtime(c)
  <2>1. j.op # "login" BY <1>10, <1>d DEF Runtime
  <2>2. my'[c] = [j EXCEPT !.enabled = enabled, !.active = (proc.state = "active")]
    BY <1>10, <1>c, <1>e DEF Runtime, j
  <2> QED BY <1>0, <1>d, <2>1, <2>2 DEF Jobs
<1>11. CASE Disable(c) BY <1>11, <1>c, <1>d, <1>e DEF Disable, j
<1>12. CASE Enable(c) BY <1>12, <1>c, <1>d, <1>e DEF Enable, AfterEnable, j
<1>13. CASE Judge(c) BY <1>13, <1>c, <1>d, <1>e DEF Judge, j
<1>14. CASE Restart(c) BY <1>14, <1>c, <1>d, <1>e DEF Restart, j
<1>15. CASE Session(c) BY <1>15, <1>c, <1>d, <1>e DEF Session, j
<1> QED BY <1>1, <1>2, <1>3, <1>4, <1>5, <1>6, <1>7, <1>8, <1>9, <1>10, <1>11, <1>12, <1>13,
         <1>14, <1>15 DEF Step

LEMMA NextShape ==
  ASSUME TypeOK, Shape, [Next]_vars
  PROVE  Shape'
<1>1. CASE \E c \in Commands : StartInstall(c)
  BY <1>1 DEF StartInstall, Begins, Shape, TypeOK, NoJob, Running
<1>2. CASE \E c \in Commands : StartLogin(c)
  BY <1>2 DEF StartLogin, Begins, Shape, TypeOK, NoJob, Running
<1>3. CASE \E c \in Commands : Step(c) BY <1>3, StepShape
<1>4. CASE \E c \in Commands : Stop(c)
  <2>1. PICK c \in Commands : Stop(c) BY <1>4
  <2>2. my[c] \in Jobs BY DEF TypeOK
  <2> QED BY <2>1, <2>2, StopMoves, ForgetsFields DEF Shape, Moves, Running
<1>5. CASE Respawn \/ Reboot \/ EditPolicy \/ Upgrade \/ AgentDeclares \/ UNCHANGED vars
  BY <1>5 DEF Respawn, Reboot, EditPolicy, Upgrade, AgentDeclares, Elsewhere, vars, locals, Shape, Running
<1> QED BY <1>1, <1>2, <1>3, <1>4, <1>5 DEF Next

-----------------------------------------------------------------------------
(* What runs is what the files say. *)

\* What an install found down before it disables is down.
Downed == \A c \in Commands :
  pc[c] = "disable" /\ ~my[c].enabled /\ ~my[c].active => ~enabled /\ proc.state = "off"

Transporting == \E c \in Commands : my[c].transport
Reloading    == \E c \in Commands : my[c].payload /\ pc[c] \in {"relay", "unit", "reload"}
Stamped      == proc.state = "active" => proc.broker = file["broker"] /\ proc.unit = file["unit"]

\* Unless an install stopped midway, systemd has the unit of the files and the
\* broker is the one of the files, or the install that replaced them is still
\* there to reload and restart.
Settled ==
  /\ proc.state # "active" => proc \in {Off, Failing}
  /\ ~midway => (loaded = file["unit"] \/ Reloading) /\ (Stamped \/ Transporting)

LEMMA DisablesAlone ==
  ASSUME Alone, Shape, NEW c \in Commands, pc[c] = "disable"
  PROVE  Installing(c) /\ \A d \in Commands : d # c => ~Running(d)
BY DEF Alone, Shape, Running, Installing

LEMMA NextDowned ==
  ASSUME TypeOK, Alone, Shape, Downed, Overlap = FALSE, [Next]_vars
  PROVE  Downed'
<1> SUFFICES ASSUME NEW c \in Commands, pc'[c] = "disable", ~my'[c].enabled, ~my'[c].active
             PROVE  ~enabled' /\ proc'.state = "off"
  BY DEF Downed
<1>1. CASE \E d \in Commands : StartInstall(d) \/ StartLogin(d)
  <2>1. PICK d \in Commands : StartInstall(d) \/ StartLogin(d) BY <1>1
  <2>2. pc'[d] # "disable" /\ pc' = [pc EXCEPT ![d] = pc'[d]]
    BY <2>1 DEF StartInstall, StartLogin, Begins, TypeOK
  <2>3. pc[c] = "disable" BY <2>2 DEF TypeOK
  <2> QED BY <2>1, <2>3, DisablesAlone DEF StartInstall, StartLogin, Running
<1>2. CASE \E d \in Commands : Step(d) \/ Stop(d)
  <2>1. PICK d \in Commands : Step(d) \/ Stop(d) BY <1>2
  <2>2. Moves(d) BY <2>1, StepMoves, StopMoves
  <2>3. d = c
    <3> SUFFICES ASSUME d # c PROVE FALSE OBVIOUS
    <3>1. pc[c] = "disable" BY <2>2 DEF Moves
    <3> QED BY <2>2, <3>1, DisablesAlone DEF Moves
  <2>4. Step(c) BY <2>1, <2>3, StopMoves
  <2>5. Runtime(c)
    <3>1. \A f \in Files : AfterFile(f) # "disable" BY DEF AfterFile, Files
    <3>2. \A r, to : Notes(c, r, to) => to = "disable" BY DEF Notes, Ends, TypeOK
    <3>3. \A to : Goto(c, to) => to = "disable" BY <3>2 DEF Goto
    <3>4. ~Ends(c, "failed") BY DEF Ends, TypeOK
    <3> QED BY <2>4, <3>1, <3>2, <3>3, <3>4 DEF Step, EnsureBoundary, ReadPolicy, EnsureFile, Replace,
        Reload, Allow, List, Remove, Add, Pending, Disable, Enable, AfterEnable, Judge, Restart, Session
  <2> DEFINE j == my[c]
  <2>6. j \in Jobs BY DEF TypeOK
  <2>7. my'[c] = [j EXCEPT !.enabled = enabled, !.active = (proc.state = "active")]
    BY <2>5 DEF Runtime, Notes, Ends, TypeOK
  <2> HIDE DEF j
  <2>8. my'[c].enabled = enabled /\ my'[c].active = (proc.state = "active") BY <2>6, <2>7 DEF Jobs
  <2> QED BY <2>5, <2>8 DEF Runtime, Looks, TypeOK, Procs
<1>3. CASE Respawn \/ Reboot \/ EditPolicy \/ Upgrade \/ AgentDeclares \/ UNCHANGED vars
  <2>1. UNCHANGED <<my, pc, enabled>>
    BY <1>3 DEF Respawn, Reboot, EditPolicy, Upgrade, AgentDeclares, Elsewhere, vars, locals, target
  <2>2. ~enabled /\ proc.state = "off" BY <2>1 DEF Downed
  <2>3. proc' = proc \/ proc' = Off
    BY <1>3, <2>2 DEF Respawn, Reboot, EditPolicy, Upgrade, AgentDeclares, vars, target
  <2> QED BY <2>1, <2>2, <2>3 DEF Off
<1> QED BY <1>1, <1>2, <1>3 DEF Next


LEMMA StartState ==
  ASSUME TypeOK, NEW unit, NEW p \in Start(unit)
  PROVE  /\ p.state # "off" /\ (p.state # "active" => p = Failing)
         /\ p.state = "active" => p.broker = file["broker"] /\ p.unit = unit /\ p.policy = policy
BY DEF Start, Failing, Fresh, Off

LEMMA MovesTransport ==
  ASSUME NEW c \in Commands, Moves(c), my[c].transport => my'[c].transport
  PROVE  Transporting => Transporting'
BY DEF Moves, Transporting

LEMMA MovesReloading ==
  ASSUME NEW c \in Commands, Moves(c), pc[c] \notin {"relay", "unit", "reload"}
  PROVE  Reloading => Reloading'
BY DEF Moves, Reloading

LEMMA QuietSettled ==
  ASSUME TypeOK, Settled, NEW c \in Commands, Moves(c), UNCHANGED <<file, loaded, proc, midway>>,
         pc[c] \notin {"relay", "unit", "reload"}, my[c].transport => my'[c].transport
  PROVE  Settled'
BY MovesTransport, MovesReloading DEF Settled, Stamped

LEMMA StepSettled ==
  ASSUME TypeOK, Alone, Shape, Downed, Settled, NEW c \in Commands, Step(c)
  PROVE  Settled'
<1> USE DEF At
<1> DEFINE j == my[c]
<1>0. j \in Jobs /\ my \in [Commands -> Jobs] /\ pc \in [Commands -> Steps] BY DEF TypeOK
<1>a. Moves(c) BY StepMoves
<1>b. j.payload => j.transport BY DEF Shape
<1>c. \A r : /\ Notes(c, r, "done") => pc'[c] = "done"
             /\ \A to : to # "done" /\ Notes(c, r, to) => pc'[c] = to /\ my'[c] = r
  BY <1>0 DEF Notes, Ends
<1>d. \A to : to # "done" /\ Goto(c, to) => pc'[c] = to /\ my'[c] = j BY <1>c DEF Goto
<1> HIDE DEF j
<1>1. CASE EnsureBoundary(c) BY <1>1, <1>a, <1>d, QuietSettled DEF EnsureBoundary, target, j
<1>2. CASE ReadPolicy(c)
  <2> DEFINE r == [j EXCEPT !.grant = policy, !.release = Payload(@)]
  <2>1. r.transport = j.transport BY <1>0 DEF Jobs
  <2>2. my'[c] = r BY <1>2, <1>c DEF ReadPolicy, j
  <2> QED BY <1>2, <1>a, <2>1, <2>2, QuietSettled DEF ReadPolicy, target, j
<1>3. CASE \E f \in Files : EnsureFile(c, f)
  <2>1. PICK f \in Files : EnsureFile(c, f) BY <1>3
  <2>2. AfterFile(f) \in {"relay", "unit", "reload"} BY <2>1 DEF AfterFile, Files
  <2>3. UNCHANGED <<loaded, proc, midway>> BY <2>1 DEF EnsureFile, NoFile
  <2>4. CASE Replace(c, f)
    <3>1. my'[c] = [j EXCEPT !.payload = TRUE, !.transport = TRUE] /\ pc'[c] = AfterFile(f)
      BY <2>4, <2>2, <1>c DEF Replace, j
    <3>2. my'[c].payload /\ my'[c].transport BY <1>0, <3>1 DEF Jobs
    <3> QED BY <2>2, <2>3, <3>1, <3>2 DEF Settled, Transporting, Reloading
  <2>5. CASE Goto(c, AfterFile(f)) /\ UNCHANGED file
    <3>1. my'[c] = j /\ pc'[c] = AfterFile(f) BY <2>5, <2>2, <1>d
    <3>2. Transporting => Transporting' BY <1>a, <3>1, MovesTransport DEF j
    <3>3. Reloading => Reloading' BY <1>a, <3>1, <2>2 DEF Reloading, Moves, j
    <3> QED BY <2>3, <2>5, <3>2, <3>3 DEF Settled, Stamped
  <2> QED BY <2>1, <2>4, <2>5 DEF EnsureFile
<1>4. CASE Reload(c)
  <2>1. my'[c] = j BY <1>4, <1>d DEF Reload
  <2>2. Transporting => Transporting' BY <1>a, <2>1, MovesTransport DEF j
  <2>3. loaded = file["unit"] \/ Reloading => loaded' = file'["unit"] \/ Reloading'
    BY <1>4, <1>a DEF Reload, Reloading, Moves
  <2> QED BY <1>4, <2>2, <2>3 DEF Settled, Stamped, Reload
<1>5. CASE Allow(c)
  <2> DEFINE r == [j EXCEPT !.transport = @ \/ allow # j.grant.services]
  <2>1. j.transport => r.transport BY <1>0 DEF Jobs
  <2>2. my'[c] = r BY <1>5, <1>c DEF Allow, j
  <2> QED BY <1>5, <1>a, <2>1, <2>2, QuietSettled DEF Allow, j
<1>6. CASE List(c)
  <2>1. \/ my'[c] = j \/ my'[c] = [j EXCEPT !.transport = TRUE]
        \/ my'[c] = [j EXCEPT !.left = decl, !.transport = TRUE]
    BY <1>6, <1>c, <1>d DEF List, j
  <2>2. j.transport => my'[c].transport BY <1>0, <2>1 DEF Jobs
  <2> QED BY <1>6, <1>a, <2>2, QuietSettled DEF List, NoDecl, j
<1>7. CASE Remove(c)
  <2>1. \/ my'[c] = [j EXCEPT !.left = j.grant.services] \/ \E s : my'[c] = [j EXCEPT !.left = @ \ {s}]
    BY <1>7, <1>c DEF Remove, j
  <2>2. j.transport => my'[c].transport BY <1>0, <2>1 DEF Jobs
  <2> QED BY <1>7, <1>a, <2>2, QuietSettled DEF Remove, NoDecl, j
<1>8. CASE Add(c)
  <2>1. my'[c] = j \/ \E s : my'[c] = [j EXCEPT !.left = @ \ {s}]
    BY <1>8, <1>c, <1>d DEF Add, j
  <2>2. j.transport => my'[c].transport BY <1>0, <2>1 DEF Jobs
  <2> QED BY <1>8, <1>a, <2>2, QuietSettled DEF Add, NoDecl, j
<1>9. CASE Pending(c)
  <2>1. j.transport => my'[c] = [j EXCEPT !.pending = j.grant.services \ oauth]
    <3>1. j.transport => j.op # "login" BY DEF Shape, j
    <3>2. j.transport => j.op = "install" BY <1>0, <1>9, <3>1 DEF Alone, Pending, Running, j
    <3> QED BY <1>9, <1>c, <3>2 DEF Pending, j
  <2>2. j.transport => my'[c].transport BY <1>0, <2>1 DEF Jobs
  <2> QED BY <1>9, <1>a, <2>2, QuietSettled DEF Pending, Looks, NoRuntime, j
<1>10. CASE Runtime(c)
  <2>1. my'[c] = [j EXCEPT !.enabled = enabled, !.active = (proc.state = "active")]
    BY <1>10, <1>c DEF Runtime, j
  <2>2. j.transport => my'[c].transport BY <1>0, <2>1 DEF Jobs
  <2> QED BY <1>10, <1>a, <2>2, QuietSettled DEF Runtime, Looks, NoRuntime, j
<1>11. CASE Disable(c)
  <2>1. proc'.state = "off" /\ proc' = Off
    <3>1. CASE j.enabled \/ j.active BY <1>11, <3>1 DEF Disable, Off, j
    <3>2. CASE ~j.enabled /\ ~j.active
      <4>1. proc.state = "off" BY <1>11, <3>2 DEF Downed, Disable, j
      <4>2. proc = Off BY <4>1 DEF Settled, Failing, Off
      <4> QED BY <1>11, <3>2, <4>1, <4>2 DEF Disable, j
    <3> QED BY <3>1, <3>2
  <2>2. loaded = file["unit"] \/ Reloading => loaded' = file'["unit"] \/ Reloading'
    BY <1>11, <1>a, MovesReloading DEF Disable, NoRuntime
  <2> QED BY <1>11, <2>1, <2>2 DEF Disable, NoRuntime, Settled, Stamped
<1>12. CASE Enable(c)
  <2>1. my'[c] = j BY <1>12, <1>d DEF Enable, AfterEnable
  <2>2. Transporting => Transporting' BY <1>a, <2>1, MovesTransport DEF j
  <2> QED BY <1>12, <2>2 DEF Enable, NoRuntime, Settled, Stamped
<1>13. CASE Judge(c)
  <2>1. j.transport => my'[c] = j BY <1>13, <1>d DEF Judge, RestartNeeded, j
  <2> QED BY <1>13, <1>a, <2>1, QuietSettled DEF Judge, Looks, NoRuntime, j
<1>14. CASE Restart(c)
  <2>1. /\ proc'.state # "active" => proc' = Failing
        /\ proc'.state = "active" => proc'.broker = file["broker"] /\ proc'.unit = loaded
    BY <1>14, StartState DEF Restart
  <2>2. loaded = file["unit"] \/ Reloading => loaded' = file'["unit"] \/ Reloading'
    BY <1>14, <1>a, MovesReloading DEF Restart
  <2>3. ~midway' => ~midway BY <1>14 DEF Restart
  <2>4. (loaded = file["unit"] \/ Reloading) => (Stamped' \/ Transporting')
    <3>1. CASE proc'.state = "active" /\ loaded # file["unit"] /\ Reloading
      <4>1. PICK d \in Commands : my[d].payload /\ pc[d] \in {"relay", "unit", "reload"} BY <3>1 DEF Reloading
      <4>2. d # c BY <1>14, <4>1 DEF Restart
      <4> QED BY <1>a, <4>1, <4>2 DEF Transporting, Shape, Moves
    <3>2. CASE proc'.state = "active" /\ loaded = file["unit"] BY <1>14, <2>1, <3>2 DEF Stamped, Restart
    <3>3. CASE proc'.state # "active" BY <3>3 DEF Stamped
    <3> QED BY <3>1, <3>2, <3>3
  <2> QED BY <2>1, <2>2, <2>3, <2>4 DEF Settled
<1>15. CASE Session(c)
  <2>1. my'[c] = j BY <1>15, <1>d DEF Session
  <2> QED BY <1>15, <1>a, <2>1, QuietSettled DEF Session, target, j
<1> QED BY <1>1, <1>2, <1>3, <1>4, <1>5, <1>6, <1>7, <1>8, <1>9, <1>10, <1>11, <1>12, <1>13,
         <1>14, <1>15 DEF Step

LEMMA NextSettled ==
  ASSUME TypeOK, Alone, Shape, Downed, Settled, [Next]_vars
  PROVE  Settled'
<1>1. CASE \E c \in Commands : StartInstall(c) \/ StartLogin(c)
  <2>1. PICK c \in Commands : StartInstall(c) \/ StartLogin(c) BY <1>1
  <2>2. PICK r : my' = [my EXCEPT ![c] = r] /\ (\A d \in Commands : d # c => pc'[d] = pc[d])
    BY <2>1 DEF StartInstall, StartLogin, Begins, TypeOK
  <2>3. ~Running(c) /\ UNCHANGED <<file, loaded, proc, midway>>
    BY <2>1 DEF StartInstall, StartLogin, Begins, target
  <2>4. ~my[c].transport /\ ~my[c].payload BY <2>3 DEF Shape
  <2>5. (Transporting => Transporting') /\ (Reloading => Reloading')
    BY <2>2, <2>4 DEF Transporting, Reloading, TypeOK
  <2> QED BY <2>3, <2>5 DEF Settled, Stamped
<1>2. CASE \E c \in Commands : Step(c) BY <1>2, StepSettled
<1>3. CASE \E c \in Commands : Stop(c)
  <2>1. PICK c \in Commands : Stop(c) BY <1>3
  <2>2. Moves(c) /\ UNCHANGED <<file, loaded, proc>> /\ midway' = (midway \/ my[c].transport)
    BY <2>1, StopMoves DEF Stop, target
  <2>3. ~midway' => ~midway /\ ~my[c].transport /\ ~my[c].payload BY <2>2 DEF Shape
  <2>4. ~midway' => (Transporting => Transporting') /\ (Reloading => Reloading')
    BY <2>2, <2>3 DEF Transporting, Reloading, Moves
  <2> QED BY <2>2, <2>3, <2>4 DEF Settled, Stamped
<1>4. CASE Respawn
  <2>1. UNCHANGED <<my, pc, file, loaded, midway>> BY <1>4 DEF Respawn, Elsewhere
  <2>2. /\ proc'.state # "active" => proc' = Failing
        /\ proc'.state = "active" => proc'.broker = file["broker"] /\ proc'.unit = loaded
    BY <1>4, StartState DEF Respawn
  <2>3. (Transporting => Transporting') /\ (Reloading => Reloading' /\ Transporting')
    BY <2>1 DEF Transporting, Reloading, Shape
  <2> QED BY <2>1, <2>2, <2>3 DEF Settled, Stamped
<1>5. CASE Reboot
  <2>1. UNCHANGED <<my, pc, file>> /\ loaded' = file["unit"] BY <1>5 DEF Reboot, Elsewhere
  <2>2. proc' \in Start(file["unit"]) \/ proc' = Off BY <1>5 DEF Reboot
  <2>3. /\ proc'.state # "active" => proc' \in {Off, Failing}
        /\ proc'.state = "active" => proc'.broker = file["broker"] /\ proc'.unit = file["unit"]
    BY <2>2, StartState DEF Off
  <2> QED BY <2>1, <2>3 DEF Settled, Stamped
<1>6. CASE EditPolicy \/ Upgrade \/ AgentDeclares \/ UNCHANGED vars
  <2>1. UNCHANGED <<my, pc, file, loaded, proc, midway>>
    BY <1>6 DEF EditPolicy, Upgrade, AgentDeclares, Elsewhere, vars, locals, target
  <2> QED BY <2>1 DEF Settled, Stamped, Transporting, Reloading
<1> QED BY <1>1, <1>2, <1>3, <1>4, <1>5, <1>6 DEF Next

-----------------------------------------------------------------------------
(* How far an undisturbed install has come. *)

PastPolicy == {"broker", "relay", "unit", "reload", "allow", "list", "remove", "add", "pending",
               "runtime", "disable", "enable", "judge", "restart", "done"}
Complete == policy.services \subseteq oauth

\* What an install with notes j has seen to by the time it is at a step.
Way(j, at) ==
  /\ at \in PastPolicy \cup {"policy"} => have = Boundary
  /\ at \in PastPolicy => policy.services # {} /\ (at # "done" => j.grant = policy)
  /\ at \in PastPolicy \ {"broker"} => file["broker"] = j.release["broker"]
  /\ at \in PastPolicy \ {"broker", "relay"} => file["relay"] = j.release["relay"]
  /\ at \in PastPolicy \ {"broker", "relay", "unit"} => file["unit"] = j.release["unit"]
  /\ at \in PastPolicy \ {"broker", "relay", "unit", "reload", "allow"} => allow = policy.services
  /\ at = "remove" => Backend = "codex" /\ decl = j.left
  /\ at = "add" => Backend = "codex" /\ j.left \subseteq policy.services /\ decl = policy.services \ j.left
  /\ at \in {"pending", "runtime", "disable", "enable", "judge", "restart", "done"} => decl = Declared(policy)
  /\ at \in {"runtime", "disable", "enable", "judge", "restart"} => j.pending = policy.services \ oauth
  /\ at = "disable" => ~Complete
  /\ at \in {"enable", "judge", "restart"} => Complete
  /\ at \in {"judge", "restart"} => enabled
  /\ at = "done" /\ Complete =>
       enabled /\ proc.state # "off" /\ (proc.state = "active" => proc.policy = policy)
  /\ at = "done" /\ ~Complete => ~enabled /\ proc.state = "off"

OnWay == \A c \in Commands :
  clean[c] /\ my[c].op = "install" /\ (Running(c) \/ result[c] = "ok") => Way(my[c], pc[c])

LEMMA StepWay ==
  ASSUME TypeOK, Alone, Shape, Downed, Settled, Crossed, NEW c \in Commands,
         my[c].op = "install", Way(my[c], pc[c]), Step(c), result'[c] # "failed"
  PROVE  Way(my[c], pc[c])'
<1> USE DEF At, PastPolicy
<1> DEFINE j == my[c]
<1>0. j \in Jobs /\ my \in [Commands -> Jobs] /\ pc \in [Commands -> Steps] BY DEF TypeOK
<1>a. Moves(c) BY StepMoves
<1>b. Way(j, pc[c]) /\ policy' = policy BY <1>a DEF Moves
<1>c. \A r : /\ Notes(c, r, "done") => pc'[c] = "done" /\ my'[c].release = j.release
             /\ \A to : to # "done" /\ Notes(c, r, to) => pc'[c] = to /\ my'[c] = r
  BY <1>0, ForgetsFields DEF Notes, Ends
<1>d. \A to : /\ Goto(c, "done") => pc'[c] = "done" /\ my'[c].release = j.release
              /\ to # "done" /\ Goto(c, to) => pc'[c] = to /\ my'[c] = j BY <1>c DEF Goto
<1>e. j.op = "install" OBVIOUS
<1> HIDE DEF j
<1>1. CASE EnsureBoundary(c)
  <2>1. CASE AfterBoundary /\ Goto(c, "policy") /\ UNCHANGED have
    <3>1. my'[c] = j /\ pc'[c] = "policy" BY <2>1, <1>d
    <3> QED BY <2>1, <3>1 DEF Way, AfterBoundary
  <2>2. CASE Goto(c, "boundary")
    <3>1. my'[c] = j /\ pc'[c] = "boundary" BY <2>2, <1>d
    <3> QED BY <3>1 DEF Way
  <2> QED BY <1>1, <2>1, <2>2 DEF EnsureBoundary
<1>2. CASE ReadPolicy(c)
  <2> DEFINE r == [j EXCEPT !.grant = policy, !.release = Payload(@)]
  <2>1. r.grant = policy BY <1>0 DEF Jobs
  <2>2. my'[c] = r /\ pc'[c] = "broker" BY <1>2, <1>c, <1>e DEF ReadPolicy, j
  <2> HIDE DEF r
  <2> QED BY <1>2, <1>b, <2>1, <2>2 DEF ReadPolicy, Way
<1>3. CASE \E f \in Files : EnsureFile(c, f)
  <2>1. PICK f \in Files : EnsureFile(c, f) BY <1>3
  <2>2. pc'[c] = AfterFile(f) /\ my'[c].release = j.release /\ my'[c].grant = j.grant
    <3>1. AfterFile(f) # "done" BY <2>1 DEF AfterFile, Files
    <3>2. CASE Replace(c, f)
      <4>1. my'[c] = [j EXCEPT !.payload = TRUE, !.transport = TRUE] /\ pc'[c] = AfterFile(f)
        BY <3>1, <3>2, <1>c DEF Replace, j
      <4> QED BY <4>1, <1>0 DEF Jobs
    <3>3. CASE Goto(c, AfterFile(f)) BY <3>1, <3>3, <1>d
    <3> QED BY <2>1, <3>2, <3>3 DEF EnsureFile
  <2>3. file' = [file EXCEPT ![f] = j.release[f]] BY <2>1 DEF EnsureFile, Replace, TypeOK, j
  <2>4. have' = have BY <2>1 DEF EnsureFile, NoFile
  <2>5. pc[c] = f BY <2>1 DEF EnsureFile
  <2>6. file \in [Files -> Releases] BY DEF TypeOK
  <2> QED BY <2>1, <2>2, <2>3, <2>4, <2>5, <2>6, <1>b DEF Way, AfterFile, Files
<1>4. CASE Reload(c)
  <2>1. my'[c] = j /\ pc'[c] = "allow" BY <1>4, <1>d DEF Reload
  <2> QED BY <1>4, <2>1, <1>b DEF Way, Reload
<1>5. CASE Allow(c)
  <2> DEFINE r == [j EXCEPT !.transport = @ \/ allow # j.grant.services]
  <2>1. r.release = j.release /\ r.grant = j.grant BY <1>0 DEF Jobs
  <2>2. my'[c] = r /\ pc'[c] = "list" BY <1>5, <1>c DEF Allow, j
  <2> HIDE DEF r
  <2> QED BY <1>5, <1>b, <2>1, <2>2 DEF Allow, Way, j
<1>6. CASE List(c)
  <2>0. j.grant = policy BY <1>6, <1>b DEF Way, List
  <2>1. CASE Goto(c, "pending") /\ decl = Declared(policy) /\ UNCHANGED decl
    <3>1. my'[c] = j /\ pc'[c] = "pending" BY <2>1, <1>d
    <3> QED BY <1>6, <2>1, <3>1, <1>b DEF List, NoDecl, Way, Declared
  <2>2. CASE /\ Backend = "claude-code" /\ decl' = {}
             /\ Notes(c, [j EXCEPT !.transport = TRUE], "pending")
    <3> DEFINE r == [j EXCEPT !.transport = TRUE]
    <3>1. r.release = j.release /\ r.grant = j.grant BY <1>0 DEF Jobs
    <3>2. my'[c] = r /\ pc'[c] = "pending" BY <2>2, <1>c
    <3> HIDE DEF r
    <3> QED BY <1>6, <2>2, <3>1, <3>2, <1>b DEF List, NoDecl, Way, Declared
  <2>3. CASE /\ Backend = "codex" /\ UNCHANGED decl
             /\ Notes(c, [j EXCEPT !.left = decl, !.transport = TRUE], "remove")
    <3> DEFINE r == [j EXCEPT !.left = decl, !.transport = TRUE]
    <3>1. r.release = j.release /\ r.grant = j.grant /\ r.left = decl BY <1>0 DEF Jobs
    <3>2. my'[c] = r /\ pc'[c] = "remove" BY <2>3, <1>c
    <3> HIDE DEF r
    <3> QED BY <1>6, <2>3, <3>1, <3>2, <1>b DEF List, NoDecl, Way
  <2> QED BY <1>6, <2>0, <2>1, <2>2, <2>3 DEF List, j
<1>7. CASE Remove(c)
  <2>1. CASE /\ j.left = {} /\ UNCHANGED decl
             /\ Notes(c, [j EXCEPT !.left = j.grant.services], "add")
    <3> DEFINE r == [j EXCEPT !.left = j.grant.services]
    <3>1. r.release = j.release /\ r.grant = j.grant /\ r.left = j.grant.services BY <1>0 DEF Jobs
    <3>2. my'[c] = r /\ pc'[c] = "add" BY <2>1, <1>c
    <3> HIDE DEF r
    <3> QED BY <1>7, <2>1, <3>1, <3>2, <1>b DEF Remove, NoDecl, Way
  <2>2. CASE \E s \in j.left : decl' = decl \ {s} /\ Notes(c, [j EXCEPT !.left = @ \ {s}], "remove")
    <3>0. PICK s \in j.left : decl' = decl \ {s} /\ Notes(c, [j EXCEPT !.left = @ \ {s}], "remove") BY <2>2
    <3> DEFINE r == [j EXCEPT !.left = @ \ {s}]
    <3>1. r.release = j.release /\ r.grant = j.grant /\ r.left = j.left \ {s} BY <1>0 DEF Jobs
    <3>2. my'[c] = r /\ pc'[c] = "remove" BY <3>0, <1>c
    <3> HIDE DEF r
    <3> QED BY <1>7, <3>0, <3>1, <3>2, <1>b DEF Remove, NoDecl, Way
  <2> QED BY <1>7, <2>1, <2>2 DEF Remove, j
<1>8. CASE Add(c)
  <2>1. CASE j.left = {} /\ Goto(c, "pending") /\ UNCHANGED decl
    <3>1. my'[c] = j /\ pc'[c] = "pending" BY <2>1, <1>d
    <3> QED BY <1>8, <2>1, <3>1, <1>b DEF Add, NoDecl, Way, Declared
  <2>2. CASE \E s \in j.left : decl' = decl \cup {s} /\ Notes(c, [j EXCEPT !.left = @ \ {s}], "add")
    <3>0. PICK s \in j.left : decl' = decl \cup {s} /\ Notes(c, [j EXCEPT !.left = @ \ {s}], "add") BY <2>2
    <3> DEFINE r == [j EXCEPT !.left = @ \ {s}]
    <3>1. r.release = j.release /\ r.grant = j.grant /\ r.left = j.left \ {s} BY <1>0 DEF Jobs
    <3>2. my'[c] = r /\ pc'[c] = "add" BY <3>0, <1>c
    <3>3. decl' = policy.services \ (j.left \ {s}) BY <1>8, <1>b, <3>0 DEF Way, Add
    <3> HIDE DEF r
    <3> QED BY <1>8, <3>0, <3>1, <3>2, <3>3, <1>b DEF Add, NoDecl, Way
  <2> QED BY <1>8, <2>1, <2>2 DEF Add, j
<1>9. CASE Pending(c)
  <2> DEFINE r == [j EXCEPT !.pending = j.grant.services \ oauth]
  <2>1. r.release = j.release /\ r.grant = j.grant /\ r.pending = j.grant.services \ oauth
    BY <1>0 DEF Jobs
  <2>2. my'[c] = r /\ pc'[c] = "runtime" BY <1>9, <1>c, <1>e DEF Pending, j
  <2> HIDE DEF r
  <2> QED BY <1>9, <1>b, <2>1, <2>2 DEF Pending, Looks, NoRuntime, Way, Declared
<1>10. CASE Runtime(c)
  <2> DEFINE r == [j EXCEPT !.enabled = enabled, !.active = (proc.state = "active")]
  <2>1. r.release = j.release /\ r.grant = j.grant /\ r.pending = j.pending BY <1>0 DEF Jobs
  <2>2. my'[c] = r /\ pc'[c] = IF j.pending # {} THEN "disable" ELSE IF enabled THEN "judge" ELSE "enable"
    BY <1>10, <1>c DEF Runtime, j
  <2>3. j.pending = {} <=> Complete BY <1>10, <1>b DEF Runtime, Way, Complete
  <2>4. UNCHANGED <<have, oauth, file, allow, decl, enabled, proc>> BY <1>10 DEF Runtime, Looks, NoRuntime
  <2>5. Complete' <=> Complete BY <1>b, <2>4 DEF Complete
  <2>6. Declared(policy)' = Declared(policy) BY <1>b DEF Declared
  <2>7. pc[c] = "runtime" BY <1>10 DEF Runtime
  <2> HIDE DEF r, Complete, Declared
  <2> QED BY <1>b, <2>1, <2>2, <2>3, <2>4, <2>5, <2>6, <2>7 DEF Way
<1>11. CASE Disable(c)
  <2>1. my'[c].release = j.release /\ pc'[c] = "done" BY <1>11, <1>d DEF Disable
  <2>2. ~enabled' /\ proc'.state = "off" BY <1>11 DEF Disable, Downed, Off, j
  <2>3. UNCHANGED <<have, oauth, file, allow, decl>> /\ pc[c] = "disable" BY <1>11 DEF Disable, NoRuntime
  <2>4. ~Complete' BY <1>b, <2>3 DEF Complete, Way
  <2>5. Declared(policy)' = Declared(policy) BY <1>b DEF Declared
  <2> HIDE DEF Declared, Complete
  <2> QED BY <1>b, <2>1, <2>2, <2>3, <2>4, <2>5 DEF Way
<1>12. CASE Enable(c)
  <2>1. my'[c] = j /\ pc'[c] = "judge" BY <1>12, <1>d, <1>e DEF Enable, AfterEnable, j
  <2>3. UNCHANGED <<have, oauth, file, allow, decl>> /\ enabled' /\ pc[c] = "enable"
    BY <1>12 DEF Enable, NoRuntime
  <2>4. Complete' <=> Complete BY <1>b, <2>3 DEF Complete
  <2>5. Declared(policy)' = Declared(policy) BY <1>b DEF Declared
  <2> HIDE DEF Declared, Complete
  <2> QED BY <1>b, <2>1, <2>3, <2>4, <2>5 DEF Way
<1>13. CASE Judge(c)
  <2>3. UNCHANGED <<have, oauth, file, allow, decl, enabled, proc>> /\ pc[c] = "judge"
    BY <1>13 DEF Judge, Looks, NoRuntime
  <2>4. Complete /\ enabled /\ j.grant = policy /\ policy.services # {} BY <1>b, <2>3 DEF Way
  <2>5. Declared(policy)' = Declared(policy) /\ Complete' BY <1>b, <2>3, <2>4 DEF Declared, Complete
  <2>6. CASE RestartNeeded(c)
    <3>1. my'[c] = j /\ pc'[c] = "restart" BY <1>13, <2>6, <1>d DEF Judge
    <3> HIDE DEF Declared, Complete
    <3> QED BY <1>b, <2>3, <2>4, <2>5, <3>1 DEF Way
  <2>7. CASE ~RestartNeeded(c)
    <3>1. my'[c].release = j.release /\ pc'[c] = "done" BY <1>13, <2>7, <1>d DEF Judge
    <3>2. proc.policy = policy BY <2>4, <2>7 DEF RestartNeeded, j
    <3>3. proc.state = "active" BY <2>4, <3>2 DEF Settled, Off, Failing
    <3> HIDE DEF Declared, Complete
    <3> QED BY <1>b, <2>3, <2>4, <2>5, <3>1, <3>2, <3>3 DEF Way
  <2> QED BY <2>6, <2>7
<1>14. CASE Restart(c)
  <2>3. UNCHANGED <<have, oauth, file, allow, decl, enabled>> /\ pc[c] = "restart"
    BY <1>14 DEF Restart
  <2>4. Complete /\ enabled BY <1>b, <2>3 DEF Way
  <2>5. Declared(policy)' = Declared(policy) /\ Complete' BY <1>b, <2>3, <2>4 DEF Declared, Complete
  <2>6. proc'.state = "active" /\ Goto(c, "done") BY <1>14 DEF Restart, Ends, TypeOK
  <2>7. proc'.policy = policy BY <1>14, <2>6, StartState DEF Restart
  <2>8. my'[c].release = j.release /\ pc'[c] = "done" BY <2>6, <1>d
  <2> HIDE DEF Declared, Complete
  <2> QED BY <1>b, <2>3, <2>4, <2>5, <2>6, <2>7, <2>8 DEF Way
<1>15. CASE Session(c) BY <1>15 DEF Session, Shape
<1> QED BY <1>1, <1>2, <1>3, <1>4, <1>5, <1>6, <1>7, <1>8, <1>9, <1>10, <1>11, <1>12, <1>13,
         <1>14, <1>15 DEF Step

\* Boots and restarts of the broker take nothing of it back.
LEMMA BackgroundWay ==
  ASSUME TypeOK, Shape, Downed, Settled, Custody, NEW c \in Commands, my[c].op = "install",
         Way(my[c], pc[c]), Respawn \/ Reboot \/ Upgrade \/ UNCHANGED vars
  PROVE  Way(my[c], pc[c])'
<1>1. UNCHANGED <<my, pc, have, policy, oauth, file, allow, decl, enabled>>
  BY DEF Respawn, Reboot, Upgrade, Elsewhere, vars, locals, boundary, target
<1>2. \/ proc' = proc
      \/ proc.state # "off" /\ proc' \in Start(loaded)
      \/ enabled /\ proc' \in Start(file["unit"])
      \/ ~enabled /\ proc' = Off
  BY DEF Respawn, Reboot, Upgrade, vars, target
<1>3. pc[c] = "done" /\ Complete =>
        enabled /\ proc'.state # "off" /\ (proc'.state = "active" => proc'.policy = policy)
  BY <1>2, StartState DEF Way, PastPolicy
<1>4. pc[c] = "done" /\ ~Complete => ~enabled /\ proc'.state = "off"
  BY <1>2 DEF Way, PastPolicy, Off
<1>5. (Complete' <=> Complete) /\ Declared(policy)' = Declared(policy) BY <1>1 DEF Complete, Declared
<1> HIDE DEF Complete, Declared
<1> QED BY <1>1, <1>3, <1>4, <1>5 DEF Way

LEMMA NextOnWay ==
  ASSUME TypeOK, Alone, Shape, Downed, Settled, Custody, OnWay, Overlap = FALSE, [Next]_vars
  PROVE  OnWay'
<1> SUFFICES ASSUME NEW c \in Commands, clean'[c], my'[c].op = "install",
                    Running(c)' \/ result'[c] = "ok"
             PROVE  Way(my[c], pc[c])'
  BY DEF OnWay
<1>1. CASE \E d \in Commands : StartInstall(d)
  <2>1. PICK d \in Commands : StartInstall(d) BY <1>1
  <2>2. d = c BY <2>1 DEF StartInstall
  <2>3. pc'[c] = "boundary" BY <2>1, <2>2 DEF StartInstall, Begins, TypeOK
  <2> QED BY <2>3 DEF Way, PastPolicy
<1>2. CASE \E d \in Commands : StartLogin(d)
  <2>1. PICK d \in Commands : StartLogin(d) BY <1>2
  <2>2. c = d \/ my[c].op = "login" BY <2>1 DEF StartLogin
  <2>3. my'[c].op = "login"
    BY <2>1, <2>2 DEF StartLogin, Begins, TypeOK, NoJob
  <2> QED BY <2>3
<1>3. CASE \E d \in Commands : Step(d) \/ Stop(d)
  <2>1. PICK d \in Commands : Step(d) \/ Stop(d) BY <1>3
  <2>2. Moves(d) BY <2>1, StepMoves, StopMoves
  <2>3. clean[c] /\ my[c].op = "install" BY <2>2 DEF Moves
  <2>4. d = c BY <2>2, <2>3 DEF Alone, Moves
  <2>5. Running(c) BY <2>2, <2>4 DEF Moves
  <2>6. Way(my[c], pc[c]) BY <2>3, <2>5 DEF OnWay
  <2>7. result'[c] # "failed"
    <3>1. result[c] = "none" BY <2>5 DEF Alone, Running, TypeOK
    <3> QED BY <2>2, <2>4, <3>1 DEF Moves, Running
  <2>8. Step(c) BY <2>1, <2>4, <2>7, StopMoves
  <2> QED BY <2>3, <2>6, <2>7, <2>8, StepWay DEF Custody
<1>4. CASE Respawn \/ Reboot \/ Upgrade \/ UNCHANGED vars
  <2>1. UNCHANGED <<my, pc, result, clean>>
    BY <1>4 DEF Respawn, Reboot, Upgrade, Elsewhere, vars, locals
  <2>2. Way(my[c], pc[c]) BY <2>1 DEF OnWay, Running
  <2> QED BY <1>4, <2>1, <2>2, BackgroundWay
<1>5. CASE EditPolicy \/ AgentDeclares
  BY <1>5 DEF EditPolicy, AgentDeclares, Disturbed
<1> QED BY <1>1, <1>2, <1>3, <1>4, <1>5 DEF Next

InstallInv == TypeOK /\ SessionOK /\ Custody /\ Alone /\ Shape /\ Downed /\ Settled /\ OnWay

LEMMA InitInstallInv == Init => InstallInv
<1> SUFFICES ASSUME Init PROVE InstallInv OBVIOUS
<1>1. TypeOK /\ SessionOK BY InitTyped DEF Init, SessionOK
<1>2. Custody BY DEF Init, Custody, CustodyFirst, Crossed, Off, Nothing, Files
<1>3. \A c \in Commands : /\ pc[c] = "idle" /\ result[c] = "none" /\ ~clean[c] /\ my[c] = NoJob
  BY DEF Init
<1>4. NoJob.op = "none" /\ ~NoJob.transport /\ ~NoJob.payload BY DEF NoJob
<1>5. Alone /\ Shape /\ Downed /\ OnWay
  BY <1>3, <1>4 DEF Alone, Shape, Downed, OnWay, Running, Installing
<1>6. Settled BY DEF Settled, Init, Off, Stamped, Nothing, Files
<1> QED BY <1>1, <1>2, <1>5, <1>6 DEF InstallInv

LEMMA NextInstallInv ==
  ASSUME InstallInv, Overlap = FALSE, [Next]_vars
  PROVE  InstallInv'
BY NextTyped, NextCustody, NextAlone, NextShape, NextDowned, NextSettled, NextOnWay DEF InstallInv

LEMMA ReportsTrue == InstallInv => InstallIsTrue
<1> SUFFICES ASSUME InstallInv, NEW c \in Commands, my[c].op = "install", result[c] = "ok", clean[c]
             PROVE  Placed(c) /\ (~midway => Installed(c))
  BY DEF InstallIsTrue
<1>1. pc[c] = "done" BY DEF InstallInv, Alone
<1>2. \A d \in Commands : ~Running(d) BY <1>1 DEF InstallInv, Alone, Running
<1>3. ~Transporting /\ ~Reloading BY <1>2 DEF Transporting, Reloading, InstallInv, Shape
<1>4. Way(my[c], "done") BY <1>1 DEF InstallInv, OnWay
<1>5. /\ have = Boundary /\ policy.services # {} /\ allow = policy.services /\ decl = Declared(policy)
      /\ \A f \in Files : file[f] = my[c].release[f]
      /\ Complete => enabled /\ proc.state # "off" /\ (proc.state = "active" => proc.policy = policy)
      /\ ~Complete => ~enabled /\ proc.state = "off"
  BY <1>4 DEF Way, PastPolicy, Files
<1>6. file = my[c].release
  <2>1. file \in [Files -> Releases] /\ my[c].release \in [Files -> Releases]
    BY DEF InstallInv, TypeOK, Jobs
  <2> QED BY <1>5, <2>1
<1>7. Placed(c)
  <2>1. enabled \in BOOLEAN BY DEF InstallInv, TypeOK
  <2> QED BY <1>5, <1>6, <2>1 DEF Placed, verifyPolicyDocuments, verifyBackendMCPConfig,
       probeMCPRuntimePresence, verifyBrokerSockets, Boundary, Complete
<1>8. ASSUME ~midway PROVE Installed(c)
  <2>1. loaded = file["unit"] /\ Stamped BY <1>3, <1>8 DEF InstallInv, Settled
  <2>2. proc.state \in {"off", "failing", "active"} BY DEF InstallInv, TypeOK, Procs
  <2>3. proc.state # "failing" => VerifyMCPBroker
    BY <1>5, <2>1, <2>2 DEF VerifyMCPBroker, verifyBrokerUser, verifyBrokerClientsGroup,
       verifyAgentIsBrokerClient, verifyBrokerHome, verifyPolicyDocuments, verifyBackendMCPConfig,
       probeMCPRuntimePresence, verifyMCPBrokerUnit, verifyBrokerSockets, Boundary, Complete
  <2> QED BY <1>5, <2>1, <2>3 DEF Installed, Stamped, Files
<1> QED BY <1>7, <1>8

\* An install that reports success leaves every file of its release, the
\* agent's configuration and the policy in place, the unit enabled and started
\* exactly where the sessions are complete, and a broker that serves the
\* current policy, whatever stopped, died, booted or was upgraded before and
\* since; the broker and unit that run are its own too, unless an install
\* stopped midway and the box was not booted since (mcpinstall.go
\* ProvisionMCPBrokerFor, mcpbroker.go VerifyMCPBrokerFor).  For any commands,
\* services, releases and policies, where an install runs alone.
THEOREM InstallsAreTrue ==
  ASSUME Overlap = FALSE
  PROVE  Spec => []InstallIsTrue
<1>1. InstallInv /\ [Next]_vars => InstallInv' BY NextInstallInv
<1> QED BY <1>1, InitInstallInv, ReportsTrue, PTL DEF Spec

-----------------------------------------------------------------------------
(* The last login. *)

\* While the policy and the agent are left alone and no install runs, a login
\* acts on the policy it read and starts only what it enabled.
LoginWay == \A c \in Commands : clean[c] /\ my[c].op = "login" =>
  /\ pc[c] \in {"pending", "enable", "restart"} => my[c].grant = policy
  /\ pc[c] = "restart" => enabled

Activates ==
  /\ \E c \in Commands : my[c].op = "login" /\ clean[c]
  /\ Complete /\ ~(enabled /\ proc.state # "off")
  => \E d \in Commands : my[d].op = "login" /\ clean[d] /\ (Running(d) \/ result[d] = "failed")

\* What a step of a login does to the broker, and when it ends well.
LEMMA LoginSteps ==
  ASSUME TypeOK, Shape, NEW c \in Commands, my[c].op = "login", Step(c)
  PROVE  /\ enabled => enabled'
         /\ proc.state # "off" => proc'.state # "off"
         /\ oauth' = oauth \/ (pc[c] = "session" /\ pc'[c] = "policy")
         /\ pc'[c] = "pending" => my'[c].grant = policy
         /\ pc'[c] \in {"enable", "restart"} => my'[c].grant = my[c].grant /\ pc[c] \in {"pending", "enable"}
         /\ pc'[c] = "restart" => enabled'
         /\ pc'[c] = "done" /\ result'[c] = "ok" =>
              \/ pc[c] = "pending" /\ ~(my[c].grant.services \subseteq oauth)
              \/ pc[c] = "restart" /\ proc'.state # "off"
<1> USE DEF At
<1> DEFINE j == my[c]
<1>0. j \in Jobs /\ my \in [Commands -> Jobs] /\ pc \in [Commands -> Steps] BY DEF TypeOK
<1>1. pc[c] \in {"session", "policy", "pending", "enable", "restart", "done"} BY DEF Shape
<1>2. \A r : /\ Notes(c, r, "done") => pc'[c] = "done"
             /\ \A to : to # "done" /\ Notes(c, r, to) => pc'[c] = to /\ my'[c] = r
  BY <1>0 DEF Notes, Ends
<1>3. \A to : to # "done" /\ Goto(c, to) => pc'[c] = to /\ my'[c] = j BY <1>2 DEF Goto
<1>4. Session(c) \/ ReadPolicy(c) \/ Pending(c) \/ Enable(c) \/ Restart(c)
  BY <1>1 DEF Step, EnsureBoundary, EnsureFile, Reload, Allow, List, Remove, Add, Runtime, Disable, Judge, Files
<1> HIDE DEF j
<1>5. CASE Session(c)
  <2>1. pc'[c] = "policy" /\ UNCHANGED <<enabled, proc>> BY <1>3, <1>5 DEF Session, target
  <2> QED BY <1>5, <2>1 DEF Session
<1>6. CASE ReadPolicy(c)
  <2> DEFINE r == [j EXCEPT !.grant = policy, !.release = Payload(@)]
  <2>1. r.grant = policy BY <1>0 DEF Jobs
  <2>2. pc'[c] = "pending" /\ my'[c] = r /\ UNCHANGED <<enabled, proc, oauth>>
    BY <1>2, <1>6 DEF ReadPolicy, target, j
  <2> HIDE DEF r
  <2> QED BY <2>1, <2>2
<1>7. CASE Pending(c)
  <2> DEFINE r == [j EXCEPT !.pending = j.grant.services \ oauth]
  <2>1. r.grant = j.grant BY <1>0 DEF Jobs
  <2>2. UNCHANGED <<enabled, proc, oauth>> /\ pc[c] = "pending" BY <1>7 DEF Pending, Looks, NoRuntime
  <2>3. IF j.grant.services \subseteq oauth THEN pc'[c] = "enable" /\ my'[c] = r ELSE pc'[c] = "done"
    <3>1. Notes(c, r, IF j.grant.services \ oauth = {} THEN "enable" ELSE "done") BY <1>7 DEF Pending, j
    <3> HIDE DEF r
    <3> QED BY <1>2, <3>1
  <2> HIDE DEF r
  <2> QED BY <2>1, <2>2, <2>3 DEF j
<1>8. CASE Enable(c)
  <2>1. pc'[c] = "restart" /\ my'[c] = j BY <1>3, <1>8 DEF Enable, AfterEnable
  <2> QED BY <1>8, <2>1 DEF Enable, NoRuntime, j
<1>9. CASE Restart(c)
  <2>1. proc'.state # "off" BY <1>9, StartState DEF Restart
  <2>2. pc'[c] = "done" BY <1>2, <1>9 DEF Restart, Goto, Ends, TypeOK
  <2> QED BY <1>9, <2>1, <2>2 DEF Restart
<1> QED BY <1>4, <1>5, <1>6, <1>7, <1>8, <1>9

LEMMA StepResult ==
  ASSUME TypeOK, NEW c \in Commands, Step(c)
  PROVE  result' \in [Commands -> {"none", "ok", "failed"}]
<1>1. \A r, to : Notes(c, r, to) => result' \in [Commands -> {"none", "ok", "failed"}]
  BY DEF TypeOK, Notes, Ends
<1>2. \A to : Goto(c, to) => result' \in [Commands -> {"none", "ok", "failed"}] BY <1>1 DEF Goto
<1>3. Ends(c, "failed") => result' \in [Commands -> {"none", "ok", "failed"}] BY DEF Ends, TypeOK
<1> QED BY <1>1, <1>2, <1>3 DEF Step, EnsureBoundary, ReadPolicy, EnsureFile, Replace, Reload, Allow,
     List, Remove, Add, Pending, Runtime, Disable, Enable, Judge, Restart, Session

LEMMA LoginStepActivates ==
  ASSUME TypeOK, Alone, Shape, LoginWay, Activates, NEW c \in Commands, Step(c),
         NEW x \in Commands, my[x].op = "login", clean[x]
  PROVE  LoginWay' /\ Activates'
<1>1. Moves(c) BY StepMoves
<1>2. my[c].op = "login" BY <1>1 DEF Alone, Moves, Installing
<1>3. LoginWay'
  BY <1>1, <1>2, LoginSteps DEF LoginWay, Moves
<1>4. SUFFICES ASSUME Complete', ~(enabled' /\ proc'.state # "off")
      PROVE  \E d \in Commands : my'[d].op = "login" /\ clean'[d] /\ (Running(d)' \/ result'[d] = "failed")
  BY <1>3 DEF Activates
<1>5. ~(enabled /\ proc.state # "off") BY <1>2, <1>4, LoginSteps
<1>6. CASE oauth' # oauth
  <2>1. pc[c] = "session" /\ pc'[c] = "policy" BY <1>2, <1>6, LoginSteps
  <2>2. clean[c] BY <2>1 DEF Alone
  <2> QED BY <1>1, <1>2, <2>1, <2>2 DEF Moves, Running
<1>7. CASE oauth' = oauth
  <2>1. Complete BY <1>1, <1>4, <1>7 DEF Complete, Moves
  <2>2. PICK d \in Commands : my[d].op = "login" /\ clean[d] /\ (Running(d) \/ result[d] = "failed")
    BY <1>5, <2>1 DEF Activates
  <2>3. CASE d # c BY <1>1, <2>2, <2>3 DEF Moves, Running
  <2>4. CASE d = c
    <3>1. ~(pc'[c] = "done" /\ result'[c] = "ok")
      <4>1. pc[c] = "pending" => my[c].grant.services \subseteq oauth BY <1>2, <2>1, <2>2, <2>4 DEF LoginWay, Complete
      <4>2. pc[c] = "restart" => enabled' BY <1>2, <2>2, <2>4, LoginSteps DEF LoginWay
      <4> QED BY <1>2, <1>4, <4>1, <4>2, LoginSteps
    <3>2. pc'[c] = "done" => result'[c] = "failed"
      <4>1. result' \in [Commands -> {"none", "ok", "failed"}] BY <1>1, StepResult
      <4> QED BY <1>1, <3>1, <4>1 DEF Moves
    <3> QED BY <1>1, <1>2, <2>2, <2>4, <3>2 DEF Moves, Running
  <2> QED BY <2>3, <2>4
<1> QED BY <1>6, <1>7

LoginInv == TypeOK /\ SessionOK /\ Alone /\ Shape /\ LoginWay /\ Activates

LEMMA NextLogins ==
  ASSUME LoginInv, Overlap = FALSE, [Next]_vars
  PROVE  LoginWay' /\ Activates'
<1>0. TypeOK /\ Alone /\ Shape /\ LoginWay /\ Activates /\ SessionOK BY DEF LoginInv
<1> SUFFICES ASSUME NEW x \in Commands, my'[x].op = "login", clean'[x]
             PROVE  LoginWay' /\ Activates'
  BY DEF LoginWay, Activates
<1>1. CASE \E c \in Commands : StartInstall(c)
  <2>1. PICK c \in Commands : StartInstall(c) BY <1>1
  <2>2. x = c BY <2>1 DEF StartInstall
  <2>3. my'[x].op = "install" BY <2>1, <2>2, <1>0 DEF StartInstall, Begins, TypeOK, NoJob
  <2> QED BY <2>3
<1>2. CASE \E c \in Commands : StartLogin(c)
  <2>1. PICK c \in Commands : StartLogin(c) BY <1>2
  <2>2. PICK s \in policy.services : Begins(c, "login", s, "session") BY <2>1 DEF StartLogin
  <2>3. /\ my'[c].op = "login" /\ pc'[c] = "session"
        /\ \A d \in Commands : d # c => my'[d] = my[d] /\ pc'[d] = pc[d]
        /\ UNCHANGED <<policy, enabled>>
    BY <2>2, <1>0 DEF Begins, TypeOK, NoJob, boundary, target
  <2>4. \A d \in Commands : clean'[d] <=> d = c \/ (clean[d] /\ my[d].op = "login")
    BY <2>1 DEF StartLogin
  <2>5. LoginWay' BY <1>0, <2>3, <2>4 DEF LoginWay
  <2> QED BY <2>3, <2>4, <2>5 DEF Activates, Running
<1>3. CASE \E c \in Commands : Step(c)
  <2>1. PICK c \in Commands : Step(c) BY <1>3
  <2>2. my[x].op = "login" /\ clean[x] BY <2>1, <1>0, StepMoves DEF Moves
  <2> QED BY <1>0, <2>1, <2>2, LoginStepActivates
<1>4. CASE \E c \in Commands : Stop(c)
  <2>1. PICK c \in Commands : Stop(c) BY <1>4
  <2>2. Moves(c) /\ pc'[c] = "done" /\ result'[c] = "failed" /\ UNCHANGED <<policy, enabled, oauth, proc>>
    BY <2>1, <1>0, StopMoves DEF Stop, boundary, target
  <2>3. LoginWay' BY <1>0, <2>2 DEF LoginWay, Moves
  <2>4. my[x].op = "login" /\ clean[x] BY <2>2 DEF Moves
  <2>5. Activates' BY <1>0, <2>2, <2>4 DEF Activates, Complete, Moves, Running
  <2> QED BY <2>3, <2>5
<1>5. CASE Respawn \/ Reboot \/ Upgrade \/ UNCHANGED vars
  <2>1. UNCHANGED <<my, pc, result, clean, policy, enabled, oauth>>
    BY <1>5 DEF Respawn, Reboot, Upgrade, Elsewhere, vars, locals, boundary, target
  <2>2. enabled /\ proc.state # "off" => proc'.state # "off"
    <3>1. \/ proc' = proc \/ proc' \in Start(loaded)
          \/ (enabled => proc' \in Start(file["unit"]))
      BY <1>5 DEF Respawn, Reboot, Upgrade, vars, target
    <3> QED BY <3>1, <1>0, StartState
  <2> QED BY <1>0, <2>1, <2>2 DEF LoginWay, Activates, Complete, Running
<1>6. CASE EditPolicy \/ AgentDeclares
  BY <1>6 DEF EditPolicy, AgentDeclares, Disturbed
<1> QED BY <1>1, <1>2, <1>3, <1>4, <1>5, <1>6 DEF Next

\* Whichever of several logins is the last to save its session brings the
\* broker up (mcpoauth.go, mcpruntime.go ActivateMCPBroker): none is left
\* complete, reported stored, and not started, where installs run alone.
THEOREM LoginsActivate ==
  ASSUME Overlap = FALSE
  PROVE  Spec => []LastLoginActivates
<1>1. Init => LoginInv
  <2>1. Init => InstallInv BY InitInstallInv
  <2>2. Init => LoginWay /\ Activates BY DEF Init, LoginWay, Activates
  <2> QED BY <2>1, <2>2 DEF LoginInv, InstallInv
<1>2. LoginInv /\ [Next]_vars => LoginInv'
  BY NextTyped, NextAlone, NextShape, NextLogins DEF LoginInv
<1>3. LoginInv => LastLoginActivates
  BY DEF LoginInv, Activates, Complete, LastLoginActivates
<1> QED BY <1>1, <1>2, <1>3, PTL DEF Spec

-----------------------------------------------------------------------------
(* An install that finds nothing to do. *)

\* What a calm install finds, and what it therefore notes.
Finds(c) ==
  /\ clean[c] /\ Placed(c) /\ Installed(c) /\ proc.state # "failing" /\ ~my[c].transport
  /\ pc[c] \in {"boundary", "policy"} => my[c].release = Shipped
  /\ pc[c] \notin {"remove", "add", "enable", "restart"}
  /\ pc[c] = "judge" => my[c].active
  /\ pc[c] = "disable" => ~my[c].enabled /\ ~my[c].active
Calmly == \A c \in Commands : calm[c] /\ Installing(c) /\ ~midway => Finds(c)

\* What the two say where the broker is not failing.
LEMMA InstalledFacts ==
  ASSUME TypeOK, NEW c \in Commands, Placed(c), Installed(c), proc.state # "failing"
  PROVE  /\ file = my[c].release /\ have = Boundary
         /\ allow = policy.services /\ decl = Declared(policy)
         /\ Complete => enabled /\ proc.state = "active" /\ loaded = file["unit"] /\ proc.policy = policy
         /\ ~Complete => ~enabled /\ proc.state = "off"
<1> QED BY DEF TypeOK, Placed, Installed, VerifyMCPBroker, verifyBackendMCPConfig,
     probeMCPRuntimePresence, verifyMCPBrokerUnit, verifyBrokerSockets, Complete

\* What they are about, left as it is, is still placed and installed.
LEMMA InstalledStays ==
  ASSUME NEW c \in Commands, NEW d \in Commands, Placed(c), Installed(c),
         my'[d].release = my[c].release,
         UNCHANGED <<have, policy, file, loaded, allow, decl, oauth, enabled, proc>>
  PROVE  Placed(d)' /\ Installed(d)'
BY DEF Placed, Installed, VerifyMCPBroker, verifyBrokerUser, verifyBrokerClientsGroup,
   verifyAgentIsBrokerClient, verifyBrokerHome, verifyPolicyDocuments, verifyBackendMCPConfig,
   probeMCPRuntimePresence, verifyMCPBrokerUnit, verifyBrokerSockets, Declared

LEMMA StepCalm ==
  ASSUME InstallInv, NEW c \in Commands, my[c].op = "install", Finds(c), Step(c)
  PROVE  UNCHANGED <<have, oauth, target>> /\ (Running(c)' => Finds(c)')
<1> USE DEF At
<1> DEFINE j == my[c]
<1>t. TypeOK /\ OnWay /\ Alone /\ Shape BY DEF InstallInv
<1>0. j \in Jobs /\ my \in [Commands -> Jobs] /\ pc \in [Commands -> Steps] BY <1>t DEF TypeOK
<1>a. Moves(c) BY <1>t, StepMoves
<1>b. Way(j, pc[c]) BY <1>a, <1>t DEF Moves, OnWay, Finds
<1>c. \A r : /\ Notes(c, r, "done") => pc'[c] = "done"
             /\ \A to : to # "done" /\ Notes(c, r, to) => pc'[c] = to /\ my'[c] = r
  BY <1>0 DEF Notes, Ends
<1>d. \A to : /\ Goto(c, "done") => pc'[c] = "done"
              /\ to # "done" /\ Goto(c, to) => pc'[c] = to /\ my'[c] = j BY <1>c DEF Goto
<1>f. /\ file = j.release
      /\ allow = policy.services /\ decl = Declared(policy)
      /\ Complete => enabled /\ proc.state = "active" /\ loaded = file["unit"] /\ proc.policy = policy
      /\ ~Complete => ~enabled /\ proc.state = "off"
  BY <1>t, InstalledFacts DEF Finds
<1>g. /\ have = Boundary /\ ~j.transport /\ ~j.payload
      /\ pc[c] \in {"boundary", "policy"} => j.release = Shipped
      /\ pc[c] \notin {"remove", "add", "enable", "restart"}
      /\ pc[c] = "judge" => j.active
      /\ pc[c] = "disable" => ~j.enabled /\ ~j.active
  BY <1>t DEF Finds, Placed, Shape
<1>h. policy' = policy /\ clean' = clean /\ host' = host BY <1>a DEF Moves
\* It is enough that the step changes nothing and leaves notes as good.
<1>i. ASSUME UNCHANGED <<have, oauth, target>>,
             pc'[c] # "done" => /\ my'[c].release = j.release /\ ~my'[c].transport
                                /\ pc'[c] \in {"boundary", "policy"} => pc[c] \in {"boundary", "policy"}
                                /\ pc'[c] \notin {"remove", "add", "enable", "restart"}
                                /\ pc'[c] = "judge" => my'[c].active
                                /\ pc'[c] = "disable" => ~my'[c].enabled /\ ~my'[c].active
      PROVE  UNCHANGED <<have, oauth, target>> /\ (Running(c)' => Finds(c)')
  <2>1. UNCHANGED <<have, policy, file, loaded, allow, decl, oauth, enabled, proc>>
    BY <1>h, <1>i DEF target
  <2>2. CASE pc'[c] # "done"
    <3>1. Placed(c)' /\ Installed(c)' BY <1>i, <2>1, <2>2, InstalledStays DEF Finds
    <3>2. pc'[c] \in {"boundary", "policy"} => my'[c].release = Shipped'
      BY <1>g, <1>h, <1>i, <2>2 DEF Shipped
    <3> HIDE DEF Installed, Placed, Shipped
    <3> QED BY <1>h, <1>i, <2>1, <2>2, <3>1, <3>2 DEF Finds
  <2>3. CASE pc'[c] = "done" BY <1>i, <2>3 DEF Running
  <2> QED BY <2>2, <2>3
<1>e. j.op = "install" OBVIOUS
<1> HIDE DEF j
<1>1. CASE EnsureBoundary(c)
  <2>1. my'[c] = j /\ pc'[c] = "policy" /\ have' = have BY <1>1, <1>d, <1>g DEF EnsureBoundary, AfterBoundary
  <2> QED BY <1>1, <1>g, <1>i, <2>1 DEF EnsureBoundary
<1>2. CASE ReadPolicy(c)
  <2> DEFINE r == [j EXCEPT !.grant = policy, !.release = Payload(@)]
  <2>0. Payload(j.release) = j.release BY <1>2, <1>g DEF ReadPolicy, Payload, Shipped, Files
  <2>1. r.transport = j.transport /\ r.release = j.release BY <1>0, <2>0 DEF Jobs
  <2>2. my'[c] = r /\ pc'[c] = "broker" BY <1>2, <1>c, <1>e DEF ReadPolicy, j
  <2> HIDE DEF r
  <2> QED BY <1>2, <1>g, <1>i, <2>1, <2>2 DEF ReadPolicy
<1>3. CASE \E f \in Files : EnsureFile(c, f)
  <2>1. PICK f \in Files : EnsureFile(c, f) BY <1>3
  <2>2. AfterFile(f) \in {"relay", "unit", "reload"} BY <2>1 DEF AfterFile, Files
  <2>3. my'[c] = j /\ pc'[c] = AfterFile(f) /\ file' = file
    BY <2>1, <2>2, <1>d, <1>f DEF EnsureFile, j
  <2>4. UNCHANGED <<have, oauth, target>> BY <2>1, <2>3 DEF EnsureFile, NoFile, target
  <2> QED BY <1>g, <1>i, <2>2, <2>3, <2>4
<1>4. CASE Reload(c)
  <2>1. my'[c] = j /\ pc'[c] = "allow" BY <1>4, <1>d DEF Reload
  <2>2. UNCHANGED <<have, oauth, target>> BY <1>4, <1>g DEF Reload, target, j
  <2> QED BY <1>g, <1>i, <2>1, <2>2
<1>5. CASE Allow(c)
  <2>0. allow = j.grant.services BY <1>b, <1>f, <1>5 DEF Allow, Way, PastPolicy
  <2> DEFINE r == [j EXCEPT !.transport = @ \/ allow # j.grant.services]
  <2>1. r.release = j.release /\ ~r.transport BY <1>0, <1>g, <2>0 DEF Jobs
  <2>2. my'[c] = r /\ pc'[c] = "list" BY <1>5, <1>c DEF Allow, j
  <2>3. UNCHANGED <<have, oauth, target>> BY <1>5, <2>0 DEF Allow, target, j
  <2> HIDE DEF r
  <2> QED BY <1>i, <2>1, <2>2, <2>3
<1>6. CASE List(c)
  <2>0. decl = Declared(j.grant) BY <1>b, <1>f, <1>6 DEF List, Way, PastPolicy
  <2>1. my'[c] = j /\ pc'[c] = "pending" BY <1>6, <2>0, <1>d DEF List, j
  <2>2. UNCHANGED <<have, oauth, target>> BY <1>6, <2>0 DEF List, NoDecl, target, j
  <2> QED BY <1>g, <1>i, <2>1, <2>2
<1>7. CASE Remove(c) BY <1>7, <1>g DEF Remove
<1>8. CASE Add(c) BY <1>8, <1>g DEF Add
<1>9. CASE Pending(c)
  <2> DEFINE r == [j EXCEPT !.pending = j.grant.services \ oauth]
  <2>1. r.release = j.release /\ r.transport = j.transport BY <1>0 DEF Jobs
  <2>2. my'[c] = r /\ pc'[c] = "runtime" BY <1>9, <1>c, <1>e DEF Pending, j
  <2>3. UNCHANGED <<have, oauth, target>> BY <1>9 DEF Pending, Looks, NoRuntime, target
  <2> HIDE DEF r
  <2> QED BY <1>g, <1>i, <2>1, <2>2, <2>3
<1>10. CASE Runtime(c)
  <2> DEFINE r == [j EXCEPT !.enabled = enabled, !.active = (proc.state = "active")]
  <2>1. /\ r.release = j.release /\ r.transport = j.transport /\ r.enabled = enabled
        /\ r.active = (proc.state = "active")
    BY <1>0 DEF Jobs
  <2>2. j.pending = {} <=> Complete BY <1>10, <1>b DEF Runtime, Way, Complete
  <2>3. CASE Complete
    <3>1. my'[c] = r /\ pc'[c] = "judge" BY <1>10, <1>c, <1>f, <2>2, <2>3 DEF Runtime, j
    <3>2. UNCHANGED <<have, oauth, target>> BY <1>10 DEF Runtime, Looks, NoRuntime, target
    <3> HIDE DEF r
    <3> QED BY <1>f, <1>g, <1>i, <2>1, <2>3, <3>1, <3>2
  <2>4. CASE ~Complete
    <3>1. my'[c] = r /\ pc'[c] = "disable" BY <1>10, <1>c, <1>f, <2>2, <2>4 DEF Runtime, j
    <3>2. UNCHANGED <<have, oauth, target>> BY <1>10 DEF Runtime, Looks, NoRuntime, target
    <3> HIDE DEF r
    <3> QED BY <1>f, <1>g, <1>i, <2>1, <2>4, <3>1, <3>2
  <2> QED BY <2>3, <2>4
<1>11. CASE Disable(c)
  <2>1. pc'[c] = "done" BY <1>11, <1>d DEF Disable
  <2>2. UNCHANGED <<have, oauth, target>> BY <1>11, <1>g DEF Disable, NoRuntime, target, j
  <2> QED BY <1>i, <2>1, <2>2
<1>12. CASE Enable(c) BY <1>12, <1>g DEF Enable
<1>13. CASE Judge(c)
  <2>0. j.grant = policy /\ Complete BY <1>13, <1>b DEF Judge, Way, PastPolicy
  <2>1. ~RestartNeeded(c) BY <1>13, <1>f, <1>g, <2>0 DEF RestartNeeded, Judge, j
  <2>2. pc'[c] = "done" BY <1>13, <1>d, <2>1 DEF Judge
  <2>3. UNCHANGED <<have, oauth, target>> BY <1>13 DEF Judge, Looks, NoRuntime, target
  <2> QED BY <1>i, <2>2, <2>3
<1>14. CASE Restart(c) BY <1>14, <1>g DEF Restart
<1>15. CASE Session(c) BY <1>15, <1>e, <1>t DEF Session, Shape, j
<1> QED BY <1>1, <1>2, <1>3, <1>4, <1>5, <1>6, <1>7, <1>8, <1>9, <1>10, <1>11, <1>12, <1>13,
         <1>14, <1>15 DEF Step

\* Begun where an install had just succeeded, it finds all of it.
LEMMA StartCalm ==
  ASSUME InstallInv, Overlap = FALSE, NEW c \in Commands, StartInstall(c), calm'[c], ~midway
  PROVE  Finds(c)'
<1>t. TypeOK /\ OnWay /\ Alone /\ Shape BY DEF InstallInv
<1>1. proc.state # "failing" BY DEF StartInstall
<1>2. PICK e \in Commands : my[e].op = "install" /\ my[e].release = Shipped /\ result[e] = "ok" /\ clean[e]
  BY DEF StartInstall
<1>3. Placed(e) /\ Installed(e) BY <1>2, ReportsTrue DEF InstallIsTrue
<1>4. /\ my'[c].release = Shipped /\ ~my'[c].transport /\ pc'[c] = "boundary" /\ clean'[c]
      /\ UNCHANGED <<host, have, policy, file, loaded, allow, decl, oauth, enabled, proc>>
  BY <1>t DEF StartInstall, Begins, NoJob, boundary, target, TypeOK
<1>5. Placed(c)' /\ Installed(c)' BY <1>2, <1>3, <1>4, InstalledStays
<1>6. Shipped' = Shipped BY <1>4 DEF Shipped
<1> HIDE DEF Installed, Placed, Shipped
<1> QED BY <1>1, <1>4, <1>5, <1>6 DEF Finds

LEMMA NextCalm ==
  ASSUME InstallInv, Calmly, Overlap = FALSE, [Next]_vars
  PROVE  Calmly'
<1> SUFFICES ASSUME NEW c \in Commands, calm'[c], Installing(c)', ~midway'
             PROVE  Finds(c)'
  BY DEF Calmly
<1>t. TypeOK /\ Alone /\ Shape BY DEF InstallInv
<1>1. CASE \E d \in Commands : StartInstall(d)
  <2>1. PICK d \in Commands : StartInstall(d) BY <1>1
  <2>2. d = c /\ midway' = midway BY <2>1 DEF StartInstall, Begins
  <2> QED BY <2>1, <2>2, StartCalm
<1>2. CASE \E d \in Commands : StartLogin(d) BY <1>2 DEF StartLogin
<1>3. CASE \E d \in Commands : Step(d) \/ Stop(d)
  <2>1. PICK d \in Commands : Step(d) \/ Stop(d) BY <1>3
  <2>2. Moves(d) BY <2>1, <1>t, StepMoves, StopMoves
  <2>3. calm[c] /\ Installing(c) BY <2>2 DEF Moves, Installing, Running
  <2>4. d = c BY <1>t, <2>2, <2>3 DEF Alone, Moves
  <2>5. Step(c) BY <1>t, <2>1, <2>4, StopMoves DEF Installing, Running
  <2>6. ~midway
    <3>1. midway' = midway \/ midway' = (midway \/ my[c].transport)
      BY <2>5 DEF Step, EnsureBoundary, ReadPolicy, EnsureFile, NoFile, Reload, Allow, List, NoDecl, Remove,
         Add, Pending, Looks, NoRuntime, Runtime, Disable, Enable, Judge, Restart, Session
    <3> QED BY <3>1
  <2>7. Finds(c) /\ my[c].op = "install" BY <2>3, <2>6 DEF Calmly, Installing
  <2> QED BY <2>5, <2>7, StepCalm DEF Installing
<1>4. CASE Respawn \/ Reboot \/ EditPolicy \/ Upgrade \/ AgentDeclares
  BY <1>4 DEF Respawn, Reboot, EditPolicy, Upgrade, AgentDeclares, Disturbed
<1>5. CASE UNCHANGED vars
  <2>1. UNCHANGED <<host, my, pc, clean, calm, midway, have, policy, file, loaded, allow, decl, oauth, enabled, proc>>
    BY <1>5 DEF vars, locals, boundary, target
  <2>2. Finds(c) BY <2>1 DEF Calmly, Installing, Running
  <2>3. Placed(c)' /\ Installed(c)' BY <2>1, <2>2, InstalledStays DEF Finds
  <2>4. Shipped' = Shipped BY <2>1 DEF Shipped
  <2> HIDE DEF Installed, Placed, Shipped
  <2> QED BY <2>1, <2>2, <2>3, <2>4 DEF Finds
<1> QED BY <1>1, <1>2, <1>3, <1>4, <1>5 DEF Next

LEMMA CalmChangesNothing ==
  ASSUME InstallInv, Calmly, [Next]_vars, NEW c \in Commands,
         calm[c], Installing(c), pc'[c] # pc[c], ~midway, Overlap = FALSE
  PROVE  UNCHANGED <<have, oauth, target>>
<1>t. TypeOK /\ Alone BY DEF InstallInv
<1>1. CASE \E d \in Commands : Step(d) \/ Stop(d)
  <2>1. PICK d \in Commands : Step(d) \/ Stop(d) BY <1>1
  <2>2. d = c BY <1>t, <2>1, StepMoves, StopMoves DEF Moves
  <2>3. CASE Step(c) BY <2>3, StepCalm DEF Calmly, Installing
  <2>4. CASE Stop(c) BY <2>4 DEF Stop, boundary
  <2> QED BY <2>1, <2>2, <2>3, <2>4
<1>2. CASE \E d \in Commands : StartInstall(d) \/ StartLogin(d)
  <2>1. PICK d \in Commands : StartInstall(d) \/ StartLogin(d) BY <1>2
  <2>2. ~Running(d) /\ (d # c => pc'[c] = pc[c])
    BY <1>t, <2>1 DEF StartInstall, StartLogin, Begins, TypeOK
  <2> QED BY <2>2 DEF Installing
<1>3. CASE Respawn \/ Reboot \/ EditPolicy \/ Upgrade \/ AgentDeclares \/ UNCHANGED vars
  BY <1>3 DEF Respawn, Reboot, EditPolicy, Upgrade, AgentDeclares, Elsewhere, vars, locals
<1> QED BY <1>1, <1>2, <1>3 DEF Next

\* An install that follows a successful one, with nothing changed between and a
\* broker that is up or rightly down, changes nothing of the box
\* (mcpinstall.go, mcpruntime.go), for any commands, services, releases and
\* policies, where installs run alone.
THEOREM CalmInstallsLeaveAlone ==
  ASSUME Overlap = FALSE
  PROVE  Spec => LeftAlone
<1> DEFINE Quiet == \A c \in Commands :
             calm[c] /\ Installing(c) /\ pc'[c] # pc[c] /\ ~midway => UNCHANGED <<have, oauth, target>>
<1>1. Init => InstallInv /\ Calmly
  <2>1. Init => Calmly BY DEF Init, Calmly
  <2> QED BY <2>1, InitInstallInv
<1>2. InstallInv /\ Calmly /\ [Next]_vars => InstallInv' /\ Calmly' BY NextInstallInv, NextCalm
<1>3. InstallInv /\ Calmly /\ [Next]_vars => [Quiet]_vars BY CalmChangesNothing
<1> QED BY <1>1, <1>2, <1>3, PTL DEF Spec, LeftAlone
=============================================================================
