-------------------------- MODULE BrainSync_proofs --------------------------
(***************************************************************************)
(* Theorems about BrainSync: for any boxes, notes and running syncs.       *)
(***************************************************************************)
EXTENDS BrainSync, TLAPS

\* No two syncs work on one box.
Alone == \A s, t \in Syncs : Running(s) /\ box[s] = box[t] => s = t

\* The steps that come after the hub is known to be there.
Beyond == {"detach", "fetchHub", "mergeHub", "abortHub", "bundleHub", "fetchGuest",
           "mergeGuest", "abortGuest", "finished"}

\* What a running sync may rely on.
Ready(s) ==
  /\ Running(s) => Initialized(vault[box[s]])
  /\ pc[s] \in {"findHub", "clone"} => carried[s] # {}
  /\ pc[s] \in Beyond => Initialized(hub)

Base == TypeOK /\ Alone /\ \A s \in Syncs : Ready(s)

\* Where what a sync began with has got to: out to the hub ...
Outward(s) ==
  LET b == box[s]
      all == held[s].box
  IN  /\ pc[s] = "snapshot" => /\ all \subseteq vault[b].main \cup vault[b].work
                               /\ dirty[s] \/ all \subseteq vault[b].main
      /\ Running(s) /\ pc[s] # "snapshot" => all \subseteq vault[b].main
      /\ pc[s] \in {"findHub", "clone", "fetchHub"} => all \subseteq carried[s]
      /\ pc[s] \in {"mergeHub", "abortHub"} => all \subseteq replica[b]
      /\ pc[s] \in {"detach", "bundleHub", "fetchGuest", "mergeGuest", "abortGuest",
                    "finished"} => "toHub" \in conflict[s] \/ all \subseteq hub.main

\* ... and in to the box.
Inward(s) ==
  LET all == held[s].hub
  IN  /\ Running(s) => all \subseteq hub.main
      /\ pc[s] = "fetchGuest" => all \subseteq carried[s]
      /\ pc[s] \in {"mergeGuest", "abortGuest"} => all \subseteq seen[box[s]]
      /\ pc[s] = "finished" => "toGuest" \in conflict[s] \/ all \subseteq vault[box[s]].main

Underway == \A s \in Syncs : Outward(s) /\ Inward(s)

\* No history anywhere has a marker in it, under way or merged.
Clean(h) == Markers \notin h
Unmarked ==
  /\ \A b \in Boxes :
       /\ Clean(vault[b].main) /\ Clean(vault[b].merging)
       /\ Clean(replica[b]) /\ Clean(seen[b])
  /\ Clean(hub.main) /\ Clean(hub.merging)
  /\ \A s \in Syncs : Clean(carried[s])

\* Nobody has edited the files of a stopped merge.
Unmeddled == hub.resolution = {} /\ \A b \in Boxes : vault[b].resolution = {}

-----------------------------------------------------------------------------
(* The type invariant. *)

LEMMA VaultType ==
  ASSUME NEW v \in Vaults
  PROVE  /\ Aborted(v) \in Vaults
         /\ Committed(v) \in Vaults
         /\ [Nowhere EXCEPT !.main = Everything(v)] \in Vaults
         /\ \A h \in Histories : /\ [v EXCEPT !.main = Joined(@, h)] \in Vaults
                                /\ [v EXCEPT !.merging = h] \in Vaults
         /\ \A n \in Notes : /\ [v EXCEPT !.work = @ \cup {n}] \in Vaults
                            /\ [v EXCEPT !.resolution = @ \cup {n}] \in Vaults
BY DEF Vaults, Histories, Joined, Aborted, Committed, Everything, Nowhere

LEMMA ShapeInit == Init => VaultsOK /\ SyncsOK
<1> SUFFICES ASSUME Init PROVE VaultsOK /\ SyncsOK
  OBVIOUS
<1>1. Nowhere \in Vaults
  BY DEF Nowhere, Vaults, Histories
<1>2. VaultsOK
  BY <1>1 DEF Init, VaultsOK, Histories
<1>3. SyncsOK
  BY MarkersAssumption DEF Init, SyncsOK, Histories, Steps, Running
<1> QED BY <1>2, <1>3

\* A step that goes on to another place and changes nothing that is typed here
\* but what it says.
LEMMA GotoType ==
  ASSUME SyncsOK, NEW s \in Syncs, NEW from, NEW to \in Steps,
         from # "idle", to # "idle", Goto(s, from, to), UNCHANGED <<box, dirty, held>>,
         carried' \in [Syncs -> Histories],
         conflict' \in [Syncs -> SUBSET {"toHub", "toGuest"}]
  PROVE  SyncsOK'
BY DEF SyncsOK, Goto, Running

LEMMA ForgetType ==
  ASSUME SyncsOK, NEW s \in Syncs, Forget(s)
  PROVE  SyncsOK'
BY MarkersAssumption DEF SyncsOK, Forget, Running, Histories, Steps

\* The box of a sync at one of its steps.
LEMMA AtStep ==
  ASSUME SyncsOK, VaultsOK, NEW s \in Syncs, pc[s] # "idle"
  PROVE  box[s] \in Boxes /\ vault[box[s]] \in Vaults
BY DEF SyncsOK, VaultsOK, Running

LEMMA StepShape ==
  ASSUME VaultsOK, SyncsOK, NEW s \in Syncs, Step(s)
  PROVE  VaultsOK' /\ SyncsOK'
<1>1. ASSUME pc[s] # "idle" PROVE box[s] \in Boxes /\ vault[box[s]] \in Vaults
  BY <1>1, AtStep
<1>2. carried[s] \in Histories /\ conflict[s] \subseteq {"toHub", "toGuest"}
  BY DEF SyncsOK
<1>3. CASE Snapshot(s)
  <2>1. vault' \in [Boxes -> Vaults]
    BY <1>1, <1>3, VaultType DEF Snapshot, Goto, VaultsOK
  <2>2. VaultsOK'
    BY <1>3, <2>1 DEF Snapshot, VaultsOK
  <2>3. SyncsOK'
    BY <1>3, GotoType DEF Snapshot, Steps, syncVars, SyncsOK
  <2> QED BY <2>2, <2>3
<1>4. CASE BundleGuest(s)
  <2>1. VaultsOK'
    BY <1>4 DEF BundleGuest, vaultVars, VaultsOK
  <2>2. vault[box[s]].main \in Histories
    BY <1>1, <1>4 DEF BundleGuest, Goto, Vaults
  <2>3. SyncsOK'
    BY <1>4, <2>2, GotoType DEF BundleGuest, Steps, SyncsOK
  <2> QED BY <2>1, <2>3
<1>5. CASE FindHub(s)
  <2>1. VaultsOK'
    BY <1>5 DEF FindHub, vaultVars, VaultsOK
  <2>2. SyncsOK'
    BY <1>5, GotoType DEF FindHub, Steps, syncVars, SyncsOK
  <2> QED BY <2>1, <2>2
<1>6. CASE CloneHub(s)
  <2>1. VaultsOK'
    BY <1>2, <1>6 DEF CloneHub, VaultsOK, Nowhere, Vaults, Histories
  <2>2. SyncsOK'
    BY <1>6, GotoType DEF CloneHub, Steps, syncVars, SyncsOK
  <2> QED BY <2>1, <2>2
<1>7. CASE DetachHub(s)
  <2>1. VaultsOK'
    BY <1>7 DEF DetachHub, VaultsOK
  <2>2. SyncsOK'
    BY <1>7, GotoType DEF DetachHub, Steps, syncVars, SyncsOK
  <2> QED BY <2>1, <2>2
<1>8. CASE FetchHub(s)
  <2>1. VaultsOK'
    BY <1>1, <1>2, <1>8 DEF FetchHub, Goto, VaultsOK
  <2>2. SyncsOK'
    BY <1>8, GotoType DEF FetchHub, Steps, syncVars, SyncsOK
  <2> QED BY <2>1, <2>2
<1>9. CASE MergeHub(s)
  <2>1. replica[box[s]] \in Histories
    BY <1>1, <1>9 DEF MergeHub, Goto, VaultsOK
  <2>2. hub' \in Vaults
    BY <1>9, <2>1 DEF MergeHub, VaultsOK, Vaults, Histories, Joined
  <2>3. VaultsOK'
    BY <1>9, <2>2 DEF MergeHub, VaultsOK
  <2>4. SyncsOK'
    BY <1>9, GotoType DEF MergeHub, Steps, syncVars, SyncsOK
  <2> QED BY <2>3, <2>4
<1>10. CASE AbortHub(s)
  <2>1. VaultsOK'
    BY <1>10 DEF AbortHub, VaultsOK, Vaults, Histories, Aborted
  <2>2. conflict' \in [Syncs -> SUBSET {"toHub", "toGuest"}]
    BY <1>2, <1>10 DEF AbortHub, SyncsOK
  <2>3. SyncsOK'
    BY <1>10, <2>2, GotoType DEF AbortHub, Steps, SyncsOK
  <2> QED BY <2>1, <2>3
<1>11. CASE BundleHub(s)
  <2>1. VaultsOK'
    BY <1>11 DEF BundleHub, vaultVars, VaultsOK
  <2>2. hub.main \in Histories
    BY DEF VaultsOK, Vaults
  <2>3. SyncsOK'
    BY <1>11, <2>2, GotoType DEF BundleHub, Steps, SyncsOK
  <2> QED BY <2>1, <2>3
<1>12. CASE FetchGuest(s)
  <2>1. VaultsOK'
    BY <1>1, <1>2, <1>12 DEF FetchGuest, Goto, VaultsOK
  <2>2. SyncsOK'
    BY <1>12, GotoType DEF FetchGuest, Steps, syncVars, SyncsOK
  <2> QED BY <2>1, <2>2
<1>13. CASE MergeGuest(s)
  <2>1. seen[box[s]] \in Histories
    BY <1>1, <1>13 DEF MergeGuest, Goto, VaultsOK
  <2>2. \E v \in Vaults : vault' = [vault EXCEPT ![box[s]] = v]
    <3>1. box[s] \in Boxes /\ vault[box[s]] \in Vaults
      BY <1>1, <1>13 DEF MergeGuest, Goto
    <3>2. /\ [vault[box[s]] EXCEPT !.main = Joined(@, seen[box[s]])] \in Vaults
          /\ [vault[box[s]] EXCEPT !.merging = seen[box[s]]] \in Vaults
      BY <2>1, <3>1, VaultType
    <3>3. vault = [vault EXCEPT ![box[s]] = vault[box[s]]]
      BY DEF VaultsOK
    <3> QED BY <1>13, <3>1, <3>2, <3>3 DEF MergeGuest
  <2>3. VaultsOK'
    BY <1>13, <2>2 DEF MergeGuest, VaultsOK
  <2>4. SyncsOK'
    BY <1>13, GotoType DEF MergeGuest, Steps, syncVars, SyncsOK
  <2> QED BY <2>3, <2>4
<1>14. CASE AbortGuest(s)
  <2>1. vault' \in [Boxes -> Vaults]
    BY <1>1, <1>14 DEF AbortGuest, Goto, VaultsOK, Vaults, Histories, Aborted
  <2>2. VaultsOK'
    BY <1>14, <2>1 DEF AbortGuest, VaultsOK
  <2>3. conflict' \in [Syncs -> SUBSET {"toHub", "toGuest"}]
    BY <1>2, <1>14 DEF AbortGuest, SyncsOK
  <2>4. SyncsOK'
    BY <1>14, <2>3, GotoType DEF AbortGuest, Steps, SyncsOK
  <2> QED BY <2>2, <2>4
<1>15. CASE Return(s) \/ Stop(s)
  <2>1. Forget(s) /\ UNCHANGED vaultVars
    BY <1>15 DEF Return, Stop
  <2>2. VaultsOK'
    BY <2>1 DEF vaultVars, VaultsOK
  <2> QED BY <2>1, <2>2, ForgetType
<1> QED
  BY <1>3, <1>4, <1>5, <1>6, <1>7, <1>8, <1>9, <1>10, <1>11, <1>12, <1>13, <1>14, <1>15
  DEF Step

LEMMA StartShape ==
  ASSUME VaultsOK, SyncsOK, NEW s \in Syncs, NEW b \in Boxes, Start(s, b)
  PROVE  VaultsOK' /\ SyncsOK'
<1>1. VaultsOK'
  BY DEF Start, vaultVars, VaultsOK
<1>2. vault[b].main \cup vault[b].work \in Histories /\ hub.main \in Histories
  BY DEF VaultsOK, Vaults, Histories
<1>3. Unsaved(vault[b]) \in BOOLEAN
  BY DEF Unsaved
<1>4. held' \in [Syncs -> [box : Histories, hub : Histories]]
  BY <1>2 DEF Start, SyncsOK
<1>5. SyncsOK'
  BY <1>3, <1>4 DEF Start, SyncsOK, Running, Steps
<1> QED BY <1>1, <1>5

\* The agents and the operator.
Others ==
  \/ \E b \in Boxes : ScaffoldVault(b) \/ OperatorMerges(b)
  \/ \E n \in Notes : OperatorEdits(n) \/ \E b \in Boxes : AgentEdits(b, n)
  \/ OperatorCommits

LEMMA OthersShape ==
  ASSUME VaultsOK, SyncsOK, Others
  PROVE  VaultsOK' /\ SyncsOK'
<1>1. UNCHANGED <<pc, syncVars>>
  BY DEF Others, ScaffoldVault, OperatorMerges, OperatorEdits, AgentEdits, OperatorCommits
<1>2. SyncsOK'
  BY <1>1 DEF SyncsOK, syncVars, Running
<1>3. ASSUME NEW b \in Boxes, ScaffoldVault(b) PROVE VaultsOK'
  <2>1. [vault[b] EXCEPT !.main = {b}] \in Vaults
    BY DEF VaultsOK, Vaults, Histories
  <2> QED BY <1>3, <2>1 DEF ScaffoldVault, VaultsOK
<1>4. ASSUME NEW b \in Boxes, OperatorMerges(b) PROVE VaultsOK'
  <2>1. replica[b] \in Histories
    BY DEF VaultsOK
  <2> QED BY <1>4, <2>1 DEF OperatorMerges, VaultsOK, Vaults, Histories, Joined
<1>5. ASSUME NEW v \in Vaults, NEW n \in Notes, NEW left PROVE Edited(v, n, left) \subseteq Vaults
  BY VaultType DEF Edited, Histories
<1>6. ASSUME NEW n \in Notes, OperatorEdits(n) PROVE VaultsOK'
  BY <1>5, <1>6 DEF OperatorEdits, VaultsOK
<1>7. ASSUME NEW n \in Notes, NEW b \in Boxes, AgentEdits(b, n) PROVE VaultsOK'
  <2>1. PICK v \in Vaults : vault' = [vault EXCEPT ![b] = v]
    BY <1>5, <1>7 DEF AgentEdits, VaultsOK
  <2> QED BY <1>7, <2>1 DEF AgentEdits, VaultsOK
<1>8. ASSUME OperatorCommits PROVE VaultsOK'
  BY <1>8 DEF OperatorCommits, VaultsOK, Vaults, Histories, Nowhere, Everything
<1> QED BY <1>2, <1>3, <1>4, <1>6, <1>7, <1>8 DEF Others

-----------------------------------------------------------------------------
(* What a step leaves alone. *)

\* No main branch ever loses anything.
LEMMA Forward ==
  ASSUME VaultsOK, SyncsOK, [Next]_vars
  PROVE  /\ hub.main \subseteq hub'.main
         /\ \A b \in Boxes :
              /\ vault[b].main \subseteq vault'[b].main
              /\ vault[b].main \cup vault[b].work \subseteq vault'[b].main \cup vault'[b].work
<1>1. ASSUME NEW s \in Syncs, Step(s)
      PROVE  /\ hub.main \subseteq hub'.main
             /\ \A b \in Boxes :
                  /\ vault[b].main \subseteq vault'[b].main
                  /\ vault[b].main \cup vault[b].work \subseteq vault'[b].main \cup vault'[b].work
  <2>1. ASSUME pc[s] # "idle" PROVE box[s] \in Boxes
    BY <2>1, AtStep
  <2>2. hub.main \subseteq hub'.main
    <3>1. CASE CloneHub(s)
      BY <3>1 DEF CloneHub, Initialized
    <3>2. CASE MergeHub(s)
      BY <3>2 DEF MergeHub, Joined, VaultsOK, Vaults
    <3>3. CASE AbortHub(s)
      BY <3>3 DEF AbortHub, Aborted, VaultsOK, Vaults
    <3>4. CASE UNCHANGED hub
      BY <3>4
    <3> QED
      BY <1>1, <3>1, <3>2, <3>3, <3>4
      DEF Step, Snapshot, BundleGuest, FindHub, DetachHub, FetchHub, BundleHub, FetchGuest,
          MergeGuest, AbortGuest, Return, Stop, vaultVars
  <2>3. ASSUME NEW b \in Boxes
        PROVE  /\ vault[b].main \subseteq vault'[b].main
               /\ vault[b].main \cup vault[b].work \subseteq vault'[b].main \cup vault'[b].work
    <3>0. vault[b] \in Vaults
      BY DEF VaultsOK
    <3>1. CASE Snapshot(s)
      BY <2>1, <3>0, <3>1
      DEF Snapshot, Goto, Committed, Everything, Nowhere, VaultsOK, Vaults
    <3>2. CASE MergeGuest(s)
      <4>1. vault'[b] \in {vault[b], [vault[b] EXCEPT !.main = Joined(@, seen[b])],
                           [vault[b] EXCEPT !.merging = seen[b]]}
        BY <2>1, <3>2 DEF MergeGuest, Goto, VaultsOK
      <4> QED BY <3>0, <4>1 DEF Joined, Vaults
    <3>3. CASE AbortGuest(s)
      BY <2>1, <3>0, <3>3 DEF AbortGuest, Goto, Aborted, VaultsOK, Vaults
    <3>4. CASE UNCHANGED vault
      BY <3>4
    <3> QED
      BY <1>1, <3>1, <3>2, <3>3, <3>4
      DEF Step, BundleGuest, FindHub, CloneHub, DetachHub, FetchHub, MergeHub, AbortHub,
          BundleHub, FetchGuest, Return, Stop, vaultVars
  <2> QED BY <2>2, <2>3
<1>2. ASSUME Others
      PROVE  /\ hub.main \subseteq hub'.main
             /\ \A b \in Boxes :
                  /\ vault[b].main \subseteq vault'[b].main
                  /\ vault[b].main \cup vault[b].work \subseteq vault'[b].main \cup vault'[b].work
  <2>0. hub \in Vaults /\ \A b \in Boxes : vault[b] \in Vaults
    BY DEF VaultsOK
  <2>1. ASSUME NEW v \in Vaults, NEW n, NEW left, NEW w \in Edited(v, n, left)
        PROVE  w.main = v.main /\ v.work \subseteq w.work
    BY <2>1 DEF Edited, Vaults
  <2>2. ASSUME NEW b \in Boxes, ScaffoldVault(b) \/ OperatorMerges(b)
        PROVE  /\ hub.main \subseteq hub'.main
               /\ \A c \in Boxes :
                    vault[c].main \subseteq vault'[c].main /\ vault'[c].work = vault[c].work
    BY <2>0, <2>2 DEF ScaffoldVault, OperatorMerges, Initialized, Joined, VaultsOK, Vaults
  <2>3. ASSUME NEW n \in Notes, OperatorEdits(n)
        PROVE  hub.main \subseteq hub'.main /\ UNCHANGED vault
    BY <2>0, <2>1, <2>3 DEF OperatorEdits
  <2>4. ASSUME NEW n \in Notes, NEW b \in Boxes, AgentEdits(b, n)
        PROVE  /\ UNCHANGED hub
               /\ \A c \in Boxes :
                    vault'[c].main = vault[c].main /\ vault[c].work \subseteq vault'[c].work
    <3>1. PICK v \in Edited(vault[b], n, \A s \in Syncs : box[s] = b => pc[s] # "abortGuest") :
            vault' = [vault EXCEPT ![b] = v]
      BY <2>4 DEF AgentEdits
    <3>2. v.main = vault[b].main /\ vault[b].work \subseteq v.work
      BY <2>0, <2>1
    <3> QED BY <2>4, <3>1, <3>2 DEF AgentEdits, VaultsOK
  <2>5. ASSUME OperatorCommits
        PROVE  hub.main \subseteq hub'.main /\ UNCHANGED vault
    BY <2>5 DEF OperatorCommits, Everything, Nowhere
  <2> QED BY <1>2, <2>2, <2>3, <2>4, <2>5 DEF Others
<1>3. CASE UNCHANGED vaultVars
  BY <1>3 DEF vaultVars
<1> QED BY <1>1, <1>2, <1>3 DEF Next, Others, Start, vars, vaultVars

\* A step of one sync changes nothing of another sync, or of another's box.
LEMMA StepLocal ==
  ASSUME NEW s \in Syncs, Step(s), NEW t \in Syncs, t # s, SyncsOK, VaultsOK, Alone
  PROVE  /\ pc'[t] = pc[t] /\ box'[t] = box[t] /\ dirty'[t] = dirty[t]
         /\ carried'[t] = carried[t] /\ conflict'[t] = conflict[t] /\ held'[t] = held[t]
         /\ Running(t) => /\ vault'[box[t]] = vault[box[t]]
                          /\ replica'[box[t]] = replica[box[t]]
                          /\ seen'[box[t]] = seen[box[t]]
<1>1. /\ pc'[t] = pc[t] /\ box'[t] = box[t] /\ dirty'[t] = dirty[t]
      /\ carried'[t] = carried[t] /\ conflict'[t] = conflict[t] /\ held'[t] = held[t]
  BY DEF Step, Snapshot, BundleGuest, FindHub, CloneHub, DetachHub, FetchHub, MergeHub,
         AbortHub, BundleHub, FetchGuest, MergeGuest, AbortGuest, Return, Stop, Forget,
         Goto, SyncsOK, vaultVars, syncVars
<1>2. ASSUME Running(t)
      PROVE  box[t] \in Boxes /\ box[t] # box[s]
  BY <1>2 DEF Alone, SyncsOK
<1>3. ASSUME Running(t)
      PROVE  /\ vault'[box[t]] = vault[box[t]]
             /\ replica'[box[t]] = replica[box[t]]
             /\ seen'[box[t]] = seen[box[t]]
  BY <1>2, <1>3
  DEF Step, Snapshot, BundleGuest, FindHub, CloneHub, DetachHub, FetchHub, MergeHub,
      AbortHub, BundleHub, FetchGuest, MergeGuest, AbortGuest, Return, Stop, VaultsOK, vaultVars
<1> QED BY <1>1, <1>3

-----------------------------------------------------------------------------
(* What a running sync relies on. *)

LEMMA BaseInit == Init => Base
<1> SUFFICES ASSUME Init PROVE Base
  OBVIOUS
<1>1. HubOK
  BY DEF Init, HubOK
<1>2. Alone /\ \A s \in Syncs : Ready(s)
  BY DEF Init, Alone, Running, Ready, Beyond
<1> QED BY <1>1, <1>2, ShapeInit DEF Base, TypeOK

LEMMA AloneStep ==
  ASSUME SyncsOK, VaultsOK, Alone, [Next]_vars
  PROVE  Alone'
<1>1. ASSUME NEW s \in Syncs, NEW b \in Boxes, Start(s, b) PROVE Alone'
  BY <1>1 DEF Start, Alone, Running, SyncsOK
<1>2. ASSUME NEW s \in Syncs, Step(s) PROVE Alone'
  <2>1. \A t \in Syncs : Running(t)' => Running(t)
    BY <1>2
    DEF Step, Snapshot, BundleGuest, FindHub, CloneHub, DetachHub, FetchHub, MergeHub,
        AbortHub, BundleHub, FetchGuest, MergeGuest, AbortGuest, Return, Stop, Forget,
        Goto, SyncsOK, Running
  <2>2. box' = box \/ box' = [box EXCEPT ![s] = "none"]
    BY <1>2
    DEF Step, Snapshot, BundleGuest, FindHub, CloneHub, DetachHub, FetchHub, MergeHub,
        AbortHub, BundleHub, FetchGuest, MergeGuest, AbortGuest, Return, Stop, Forget,
        syncVars
  <2>3. \A t \in Syncs : Running(t)' => box'[t] \in Boxes
    BY <1>2, StepShape DEF SyncsOK
  <2> QED BY <2>1, <2>2, <2>3, MarkersAssumption DEF Alone, SyncsOK
<1>3. CASE UNCHANGED <<pc, syncVars>>
  BY <1>3 DEF Alone, Running, syncVars
<1> QED
  BY <1>1, <1>2, <1>3
  DEF Next, ScaffoldVault, OperatorMerges, OperatorEdits, AgentEdits, OperatorCommits, vars

LEMMA HubStep ==
  ASSUME Base, [Next]_vars
  PROVE  HubOK'
<1> USE DEF Base, TypeOK
<1>1. CASE Initialized(hub)
  BY <1>1, Forward DEF Initialized, HubOK
<1>2. CASE ~Initialized(hub)
  <2>1. hub = Nowhere /\ ~origin /\ \A b \in Boxes : replica[b] = {}
    BY <1>2 DEF HubOK
  <2>2. ASSUME NEW s \in Syncs, Step(s) PROVE HubOK'
    <3>1. pc[s] \notin Beyond /\ (pc[s] = "clone" => carried[s] # {})
      BY <1>2 DEF Ready
    <3>2. CASE CloneHub(s)
      BY <3>1, <3>2 DEF CloneHub, Goto, Nowhere, Initialized, HubOK
    <3>3. CASE UNCHANGED <<hub, origin, replica>>
      BY <3>3 DEF HubOK, Initialized
    <3> QED
      BY <2>2, <3>1, <3>2, <3>3
      DEF Step, Snapshot, BundleGuest, FindHub, DetachHub, FetchHub, MergeHub, AbortHub,
          BundleHub, FetchGuest, MergeGuest, AbortGuest, Return, Stop, Goto, Beyond, vaultVars
  <2>3. ASSUME Others PROVE HubOK'
    <3>1. ~Unsaved(hub)
      BY <2>1 DEF Unsaved, Nowhere
    <3>2. UNCHANGED <<hub, origin, replica>>
      BY <1>2, <2>3, <3>1
      DEF Others, ScaffoldVault, OperatorMerges, OperatorEdits, AgentEdits, OperatorCommits
    <3> QED BY <3>2 DEF HubOK, Initialized
  <2>4. CASE UNCHANGED vaultVars
    BY <2>4 DEF HubOK, Initialized, vaultVars
  <2> QED BY <2>2, <2>3, <2>4 DEF Next, Others, Start, vars, vaultVars
<1> QED BY <1>1, <1>2

LEMMA ReadyStep ==
  ASSUME Base, [Next]_vars
  PROVE  \A s \in Syncs : Ready(s)'
<1> USE DEF Base, TypeOK
<1>1. Initialized(hub) => Initialized(hub)'
  BY Forward DEF Initialized
<1>2. \A b \in Boxes : Initialized(vault[b]) => Initialized(vault[b])'
  BY Forward DEF Initialized
<1>3. ASSUME NEW s \in Syncs, box'[s] = box[s], pc'[s] = pc[s], carried'[s] = carried[s]
      PROVE  Ready(s)'
  <2>1. Running(s) => box[s] \in Boxes
    BY DEF SyncsOK
  <2> QED BY <1>1, <1>2, <1>3, <2>1 DEF Ready, Running, Initialized
<1>4. ASSUME NEW s \in Syncs, Step(s) PROVE Ready(s)'
  <2>1. Running(s) => box[s] \in Boxes /\ Initialized(vault'[box[s]])
    BY <1>2 DEF Ready, SyncsOK
  <2>2. CASE Return(s) \/ Stop(s)
    BY <2>2 DEF Return, Stop, Forget, SyncsOK, Ready, Running, Beyond
  <2>3. CASE Snapshot(s) \/ FindHub(s)
    BY <1>1, <2>1, <2>3
    DEF Snapshot, FindHub, Goto, SyncsOK, Ready, Running, Beyond, Initialized, vaultVars, syncVars
  <2>4. CASE BundleGuest(s)
    BY <1>1, <2>1, <2>4
    DEF BundleGuest, Goto, SyncsOK, Ready, Running, Beyond, Initialized, vaultVars
  <2>5. CASE CloneHub(s)
    <3>1. Initialized(hub)'
      BY <2>5 DEF CloneHub, Goto, Ready, Nowhere, Initialized
    <3> QED BY <2>1, <2>5, <3>1 DEF CloneHub, Goto, SyncsOK, Ready, Running, Initialized, syncVars
  <2>6. ASSUME pc[s] \in Beyond, pc'[s] \in Beyond, box'[s] = box[s] PROVE Ready(s)'
    BY <1>1, <2>1, <2>6 DEF Ready, Running, Beyond, Initialized
  <2>7. CASE \/ DetachHub(s) \/ FetchHub(s) \/ MergeHub(s) \/ AbortHub(s)
             \/ BundleHub(s) \/ FetchGuest(s) \/ MergeGuest(s) \/ AbortGuest(s)
    BY <2>6, <2>7
    DEF DetachHub, FetchHub, MergeHub, AbortHub, BundleHub, FetchGuest, MergeGuest,
        AbortGuest, Goto, SyncsOK, Beyond, syncVars
  <2> QED BY <1>4, <2>2, <2>3, <2>4, <2>5, <2>7 DEF Step
<1>5. ASSUME NEW s \in Syncs, Step(s), NEW t \in Syncs PROVE Ready(t)'
  BY <1>3, <1>4, <1>5, StepLocal
<1>6. ASSUME NEW s \in Syncs, NEW b \in Boxes, Start(s, b), NEW t \in Syncs PROVE Ready(t)'
  <2>1. CASE t = s
    BY <1>6, <2>1 DEF Start, Ready, SyncsOK, Beyond, Running, Initialized, vaultVars
  <2>2. CASE t # s
    BY <1>3, <1>6, <2>2 DEF Start, SyncsOK
  <2> QED BY <2>1, <2>2
<1>7. CASE UNCHANGED <<pc, syncVars>>
  BY <1>3, <1>7 DEF syncVars
<1> QED
  BY <1>5, <1>6, <1>7
  DEF Next, ScaffoldVault, OperatorMerges, OperatorEdits, AgentEdits, OperatorCommits, vars

LEMMA BaseStep ==
  ASSUME Base, [Next]_vars
  PROVE  Base'
<1>1. VaultsOK' /\ SyncsOK'
  <2>1. CASE UNCHANGED vars
    BY <2>1 DEF Base, TypeOK, VaultsOK, SyncsOK, Running, vars, vaultVars, syncVars
  <2> QED BY <2>1, StepShape, StartShape, OthersShape DEF Base, TypeOK, Next, Others
<1> QED BY <1>1, AloneStep, HubStep, ReadyStep DEF Base, TypeOK

\* Every reachable state has the shape TypeOK gives it; with it, syncs of one
\* box do not overlap and a sync that goes on relies on a hub that is there.
THEOREM TypeCorrect == Spec => []TypeOK
<1>1. Base => TypeOK
  BY DEF Base
<1> QED BY <1>1, BaseInit, BaseStep, PTL DEF Spec

-----------------------------------------------------------------------------
(* The report. *)

LEMMA UnderwayInit == Init => Underway
BY DEF Init, Underway, Outward, Inward, Running

LEMMA StartUnderway ==
  ASSUME Base, Underway, NEW s \in Syncs, NEW b \in Boxes, Start(s, b)
  PROVE  Outward(s)' /\ Inward(s)'
<1>1. vault[b] \in Vaults
  BY DEF Base, TypeOK, VaultsOK
<1>2. /\ pc'[s] = "snapshot" /\ box'[s] = b /\ dirty'[s] = Unsaved(vault[b])
      /\ held'[s] = [box |-> vault[b].main \cup vault[b].work, hub |-> hub.main]
      /\ UNCHANGED <<vault, hub, replica, seen>>
  BY DEF Start, Base, TypeOK, SyncsOK, vaultVars
<1>3. held'[s].box = vault[b].main \cup vault[b].work /\ held'[s].hub = hub.main
  BY <1>2
<1>4. dirty'[s] \/ vault[b].work = {}
  BY <1>2 DEF Unsaved
<1>5. Outward(s)'
  BY <1>2, <1>3, <1>4 DEF Outward, Running
<1>6. Inward(s)'
  BY <1>2, <1>3 DEF Inward, Running
<1> QED BY <1>5, <1>6

\* A sync that is not the one that takes the step.
LEMMA OtherUnderway ==
  ASSUME Base, [Next]_vars, NEW t \in Syncs, Outward(t), Inward(t),
         pc'[t] = pc[t], box'[t] = box[t], dirty'[t] = dirty[t],
         carried'[t] = carried[t], conflict'[t] = conflict[t], held'[t] = held[t],
         Running(t) => /\ replica'[box[t]] = replica[box[t]]
                       /\ seen'[box[t]] = seen[box[t]]
  PROVE  Outward(t)' /\ Inward(t)'
<1>1. CASE ~Running(t)
  BY <1>1 DEF Outward, Inward, Running
<1>2. CASE Running(t)
  <2>1. box[t] \in Boxes
    BY <1>2 DEF Base, TypeOK, SyncsOK
  <2>2. /\ hub.main \subseteq hub'.main
        /\ vault[box[t]].main \subseteq vault'[box[t]].main
        /\ vault[box[t]].main \cup vault[box[t]].work
             \subseteq vault'[box[t]].main \cup vault'[box[t]].work
    BY <2>1, Forward DEF Base, TypeOK
  <2>3. Outward(t)'
    BY <1>2, <2>2 DEF Outward, Running
  <2>4. Inward(t)'
    BY <1>2, <2>2 DEF Inward, Running
  <2> QED BY <2>3, <2>4
<1> QED BY <1>1, <1>2

LEMMA StepUnderway ==
  ASSUME Base, NEW s \in Syncs, Outward(s), Inward(s), Step(s)
  PROVE  Outward(s)' /\ Inward(s)'
<1> USE DEF Base, TypeOK
<1>0. Next
  BY DEF Next
<1>1. CASE Return(s) \/ Stop(s)
  <2>1. pc'[s] = "idle"
    BY <1>1 DEF Return, Stop, Forget, SyncsOK
  <2> QED BY <2>1 DEF Outward, Inward, Running
<1>2. CASE ~(Return(s) \/ Stop(s))
  <2>1. Running(s) /\ box[s] \in Boxes /\ vault[box[s]] \in Vaults
    <3>1. Running(s)
      BY <1>2
      DEF Step, Snapshot, BundleGuest, FindHub, CloneHub, DetachHub, FetchHub, MergeHub,
          AbortHub, BundleHub, FetchGuest, MergeGuest, AbortGuest, Goto, Running
    <3> QED BY <3>1, AtStep DEF Running
  <2>2. /\ hub.main \subseteq hub'.main
        /\ vault[box[s]].main \subseteq vault'[box[s]].main
    BY <1>0, <2>1, Forward
  <2>3. held[s].hub \subseteq hub'.main
    BY <2>1, <2>2 DEF Inward
  <2>4. pc[s] # "snapshot" => held[s].box \subseteq vault'[box[s]].main
    BY <2>1, <2>2 DEF Outward
  <2>5. CASE Snapshot(s)
    <3>1. held[s].box \subseteq vault'[box[s]].main
      BY <2>1, <2>5
      DEF Snapshot, Goto, Outward, Committed, Everything, Nowhere, VaultsOK
    <3> QED
      BY <2>3, <2>5, <3>1 DEF Snapshot, Goto, SyncsOK, Outward, Inward, Running, syncVars
  <2>6. CASE BundleGuest(s)
    BY <2>1, <2>3, <2>4, <2>6
    DEF BundleGuest, Goto, SyncsOK, Outward, Inward, Running, vaultVars
  <2>7. CASE FindHub(s)
    BY <2>3, <2>4, <2>7 DEF FindHub, Goto, SyncsOK, Outward, Inward, Running, vaultVars, syncVars
  <2>8. CASE CloneHub(s)
    BY <2>3, <2>4, <2>8 DEF CloneHub, Goto, SyncsOK, Outward, Inward, Running, Nowhere, syncVars
  <2>9. CASE DetachHub(s)
    BY <2>3, <2>4, <2>9 DEF DetachHub, Goto, SyncsOK, Outward, Inward, Running, syncVars
  <2>10. CASE FetchHub(s)
    BY <2>1, <2>3, <2>4, <2>10
    DEF FetchHub, Goto, SyncsOK, VaultsOK, Outward, Inward, Running, syncVars
  <2>11. CASE MergeHub(s)
    BY <2>2, <2>3, <2>4, <2>11
    DEF MergeHub, Goto, SyncsOK, VaultsOK, Vaults, Outward, Inward, Running, Joined, syncVars
  <2>12. CASE AbortHub(s)
    BY <2>3, <2>4, <2>12 DEF AbortHub, Goto, SyncsOK, Outward, Inward, Running
  <2>13. CASE BundleHub(s)
    BY <2>3, <2>4, <2>13 DEF BundleHub, Goto, SyncsOK, Outward, Inward, Running, vaultVars
  <2>14. CASE FetchGuest(s)
    BY <2>1, <2>3, <2>4, <2>14
    DEF FetchGuest, Goto, SyncsOK, VaultsOK, Outward, Inward, Running, syncVars
  <2>15. CASE MergeGuest(s)
    BY <2>1, <2>3, <2>4, <2>15
    DEF MergeGuest, Goto, SyncsOK, VaultsOK, Vaults, Outward, Inward, Running, Joined, syncVars
  <2>16. CASE AbortGuest(s)
    BY <2>3, <2>4, <2>16 DEF AbortGuest, Goto, SyncsOK, Outward, Inward, Running
  <2> QED
    BY <1>2, <2>5, <2>6, <2>7, <2>8, <2>9, <2>10, <2>11, <2>12, <2>13, <2>14, <2>15, <2>16
    DEF Step
<1> QED BY <1>1, <1>2

LEMMA UnderwayStep ==
  ASSUME Base, Underway, [Next]_vars
  PROVE  Underway'
<1>1. ASSUME NEW s \in Syncs, Step(s), NEW t \in Syncs
      PROVE  Outward(t)' /\ Inward(t)'
  <2>1. CASE t = s
    BY <1>1, <2>1, StepUnderway DEF Underway
  <2>2. CASE t # s
    BY <1>1, <2>2, StepLocal, OtherUnderway DEF Base, TypeOK, Underway
  <2> QED BY <2>1, <2>2
<1>2. ASSUME NEW s \in Syncs, NEW b \in Boxes, Start(s, b), NEW t \in Syncs
      PROVE  Outward(t)' /\ Inward(t)'
  <2>1. CASE t = s
    BY <1>2, <2>1, StartUnderway
  <2>2. CASE t # s
    BY <1>2, <2>2, OtherUnderway
    DEF Start, Base, TypeOK, SyncsOK, Underway, vaultVars
  <2> QED BY <2>1, <2>2
<1>3. CASE UNCHANGED <<pc, syncVars, replica, seen>>
  BY <1>3, OtherUnderway DEF Underway, syncVars
<1> QED
  BY <1>1, <1>2, <1>3
  DEF Next, Underway, ScaffoldVault, OperatorMerges, OperatorEdits, AgentEdits,
      OperatorCommits, vars, vaultVars

\* A sync that returns has reconciled both ways, but for a direction it reports a
\* conflict in, whatever other syncs, the agents and the operator do meanwhile and
\* wherever they fail.
THEOREM ReportsAreTrue == Spec => []ReportIsTrue
<1>1. Underway => ReportIsTrue
  BY DEF Underway, Outward, Inward, ReportIsTrue, Running
<1> QED BY <1>1, BaseInit, BaseStep, UnderwayInit, UnderwayStep, PTL DEF Spec

-----------------------------------------------------------------------------
(* Conflict markers. *)

LEMMA UnmarkedInit == Init => Unmarked
BY DEF Init, Unmarked, Clean, Nowhere

\* Only a sync that ends where it is about to abort a merge strands it in a box.
LEMMA StrandedStep ==
  ASSUME Base, [Next]_vars, NEW b \in Boxes, Stranded(b)', ~Stranded(b)
  PROVE  \E s \in Syncs : box[s] = b /\ pc[s] = "abortGuest" /\ pc'[s] = "idle"
<1> USE DEF Base, TypeOK
<1>0. /\ vault[b] \in Vaults /\ vault'[b].merging # {}
      /\ \A t \in Syncs : box'[t] = b => pc'[t] # "abortGuest"
      /\ vault[b].merging # {} => \E t \in Syncs : box[t] = b /\ pc[t] = "abortGuest"
  BY DEF VaultsOK, Stranded
<1> DEFINE Goal == \E s \in Syncs : box[s] = b /\ pc[s] = "abortGuest" /\ pc'[s] = "idle"
<1>1. ASSUME NEW s \in Syncs, Step(s) PROVE Goal
  <2>1. ASSUME vault[b].merging = {} PROVE FALSE
    <3>1. vault'[b] # vault[b]
      BY <1>0, <2>1
    <3>2. box[s] = b
      BY <1>1, <3>1
      DEF Step, Snapshot, BundleGuest, FindHub, CloneHub, DetachHub, FetchHub, MergeHub,
          AbortHub, BundleHub, FetchGuest, MergeGuest, AbortGuest, Return, Stop, VaultsOK,
          vaultVars
    <3>3. CASE MergeGuest(s)
      <4>1. pc'[s] = "abortGuest"
        BY <1>0, <2>1, <3>2, <3>3 DEF MergeGuest, Goto, SyncsOK, VaultsOK, Vaults
      <4> QED BY <1>0, <3>2, <3>3, <4>1 DEF MergeGuest, syncVars
    <3>4. CASE Snapshot(s)
      BY <1>0, <2>1, <3>2, <3>4 DEF Snapshot, Committed, Nowhere, VaultsOK
    <3>5. CASE AbortGuest(s)
      BY <1>0, <3>2, <3>5 DEF AbortGuest, Aborted, VaultsOK, Vaults
    <3> QED
      BY <1>1, <3>1, <3>3, <3>4, <3>5
      DEF Step, BundleGuest, FindHub, CloneHub, DetachHub, FetchHub, MergeHub,
          AbortHub, BundleHub, FetchGuest, Return, Stop, vaultVars
  <2>2. PICK t \in Syncs : box[t] = b /\ pc[t] = "abortGuest"
    BY <1>0, <2>1
  <2>3. t = s
    BY <1>0, <1>1, <2>2, StepLocal
  <2>4. CASE Stop(s)
    BY <2>2, <2>3, <2>4 DEF Stop, Forget, SyncsOK
  <2>5. CASE AbortGuest(s)
    BY <1>0, <2>2, <2>3, <2>5 DEF AbortGuest, Aborted, VaultsOK, Vaults
  <2> QED
    BY <1>1, <2>2, <2>3, <2>4, <2>5
    DEF Step, Snapshot, BundleGuest, FindHub, CloneHub, DetachHub, FetchHub, MergeHub,
        AbortHub, BundleHub, FetchGuest, MergeGuest, Return, Goto
<1>2. ASSUME Others PROVE vault'[b].merging = vault[b].merging /\ UNCHANGED <<pc, box>>
  <2>1. CASE \E c \in Boxes : ScaffoldVault(c)
    BY <1>0, <2>1 DEF ScaffoldVault, VaultsOK, Vaults, syncVars
  <2>2. CASE \E n \in Notes, c \in Boxes : AgentEdits(c, n)
    <3>1. PICK n \in Notes, c \in Boxes : AgentEdits(c, n)
      BY <2>2
    <3>2. PICK v : v.merging = vault[c].merging /\ vault' = [vault EXCEPT ![c] = v]
      <4>1. vault[c] \in Vaults
        BY DEF VaultsOK
      <4> QED BY <3>1, <4>1 DEF AgentEdits, Edited, Vaults
    <3> QED BY <3>1, <3>2 DEF AgentEdits, VaultsOK, syncVars
  <2>3. CASE UNCHANGED <<vault, pc, box>>
    BY <2>3
  <2> QED
    BY <1>2, <2>1, <2>2, <2>3
    DEF Others, OperatorMerges, OperatorEdits, OperatorCommits, syncVars
<1>3. ASSUME Others PROVE FALSE
  BY <1>0, <1>2, <1>3
<1>4. ASSUME NEW s \in Syncs, NEW c \in Boxes, Start(s, c) PROVE FALSE
  <2>1. PICK t \in Syncs : box[t] = b /\ pc[t] = "abortGuest"
    BY <1>0, <1>4 DEF Start, vaultVars
  <2>2. t # s
    BY <1>4, <2>1 DEF Start, Running
  <2> QED BY <1>0, <1>4, <2>1, <2>2 DEF Start, SyncsOK
<1>5. ASSUME UNCHANGED vars PROVE FALSE
  BY <1>0, <1>5 DEF vars, vaultVars, syncVars
<1>6. Goal
  BY <1>1, <1>3, <1>4, <1>5 DEF Next, Others
<1> QED BY <1>6

\* Where no history has a marker none gets one, unless a merge is stranded in a
\* box: then the snapshot of a sync of that box commits it.
LEMMA UnmarkedStep ==
  ASSUME Base, Unmarked, [Next]_vars
  PROVE  Unmarked' \/ (~NoMarkers' /\ \E b \in Boxes : Stranded(b))
<1> SUFFICES ASSUME NoMarkers' \/ \A b \in Boxes : ~Stranded(b)
             PROVE  Unmarked'
  OBVIOUS
<1> USE DEF Base, TypeOK, Clean
<1>0. /\ hub \in Vaults /\ \A b \in Boxes : vault[b] \in Vaults
      /\ \A b \in Boxes : Markers \notin vault[b].work \cup vault[b].resolution \cup {b}
      /\ Markers \notin hub.work \cup hub.resolution
  BY MarkersAssumption DEF VaultsOK, Vaults
<1>1. ASSUME NEW b \in Boxes, NEW v \in Vaults, vault' = [vault EXCEPT ![b] = v],
             Markers \notin v.main, Markers \notin v.merging
      PROVE  \A c \in Boxes : Markers \notin vault'[c].main /\ Markers \notin vault'[c].merging
  BY <1>1 DEF Unmarked, VaultsOK
<1>2. ASSUME NEW s \in Syncs, Step(s) PROVE Unmarked'
  <2>0. pc[s] # "idle" => box[s] \in Boxes
    BY AtStep
  <2>1. \A b \in Boxes : Markers \notin vault'[b].main /\ Markers \notin vault'[b].merging
    <3>1. CASE Snapshot(s)
      <4>2. box[s] \in Boxes
        BY <2>0, <3>1 DEF Snapshot, Goto
      <4>1. CASE dirty[s] /\ vault[box[s]].merging # {}
        <5>1. Stranded(box[s])
          BY <3>1, <4>1 DEF Snapshot, Goto, Alone, Running, Stranded
        <5>2. vault'[box[s]] = Committed(vault[box[s]])
          BY <3>1, <4>1, <4>2 DEF Snapshot, VaultsOK
        <5>3. Markers \in vault'[box[s]].main
          BY <4>1, <5>2 DEF Committed, Nowhere
        <5> QED BY <4>2, <5>1, <5>3 DEF NoMarkers
      <4>3. Committed(vault[box[s]]).merging = {}
        BY DEF Committed, Nowhere
      <4>5. CASE dirty[s] /\ vault[box[s]].merging = {}
        <5>1. Markers \notin Committed(vault[box[s]]).main
          BY <1>0, <4>2, <4>5 DEF Committed, Everything, Nowhere, Unmarked
        <5> QED BY <1>0, <1>1, <3>1, <4>2, <4>3, <4>5, <5>1, VaultType DEF Snapshot
      <4>6. CASE ~dirty[s]
        BY <3>1, <4>6 DEF Snapshot, Unmarked
      <4> QED BY <4>1, <4>5, <4>6
    <3>2. CASE MergeGuest(s)
      BY <1>0, <2>0, <3>2 DEF MergeGuest, Goto, Joined, Unmarked, VaultsOK, Vaults
    <3>3. CASE AbortGuest(s)
      BY <1>0, <2>0, <3>3 DEF AbortGuest, Goto, Aborted, Unmarked, VaultsOK, Vaults
    <3>4. CASE UNCHANGED vault
      BY <3>4 DEF Unmarked
    <3> QED
      BY <1>2, <3>1, <3>2, <3>3, <3>4
      DEF Step, BundleGuest, FindHub, CloneHub, DetachHub, FetchHub, MergeHub, AbortHub,
          BundleHub, FetchGuest, Return, Stop, vaultVars
  <2>2. \A b \in Boxes : Markers \notin replica'[b] /\ Markers \notin seen'[b]
    BY <1>2
    DEF Step, Snapshot, BundleGuest, FindHub, CloneHub, DetachHub, FetchHub, MergeHub,
        AbortHub, BundleHub, FetchGuest, MergeGuest, AbortGuest, Return, Stop, Unmarked,
        VaultsOK, vaultVars
  <2>3. Markers \notin hub'.main /\ Markers \notin hub'.merging
    <3>1. CASE MergeHub(s)
      BY <1>0, <2>0, <3>1 DEF MergeHub, Goto, Joined, Unmarked, Vaults
    <3>2. CASE CloneHub(s)
      BY <1>0, <3>2 DEF CloneHub, Nowhere, Unmarked, Vaults
    <3>3. CASE AbortHub(s)
      BY <1>0, <3>3 DEF AbortHub, Aborted, Unmarked, Vaults
    <3>4. CASE UNCHANGED hub
      BY <3>4 DEF Unmarked
    <3> QED
      BY <1>2, <3>1, <3>2, <3>3, <3>4
      DEF Step, Snapshot, BundleGuest, FindHub, DetachHub, FetchHub, BundleHub, FetchGuest,
          MergeGuest, AbortGuest, Return, Stop, vaultVars
  <2>4. \A t \in Syncs : Markers \notin carried'[t]
    BY <1>2, <2>0
    DEF Step, Snapshot, BundleGuest, FindHub, CloneHub, DetachHub, FetchHub, MergeHub,
        AbortHub, BundleHub, FetchGuest, MergeGuest, AbortGuest, Return, Stop, Forget, Goto,
        Unmarked, SyncsOK, syncVars
  <2> QED BY <2>1, <2>2, <2>3, <2>4 DEF Unmarked
<1>3. ASSUME Others PROVE Unmarked'
  <2>1. UNCHANGED <<replica, seen, carried>>
    BY <1>3
    DEF Others, ScaffoldVault, OperatorMerges, OperatorEdits, AgentEdits, OperatorCommits, syncVars
  <2>3. Markers \notin hub'.main /\ Markers \notin hub'.merging
    <3>1. CASE \E b \in Boxes : OperatorMerges(b)
      BY <1>0, <3>1 DEF OperatorMerges, Joined, Unmarked, Vaults
    <3>2. CASE \E n \in Notes : OperatorEdits(n)
      BY <1>0, <3>2 DEF OperatorEdits, Edited, Unmarked, Vaults
    <3>3. CASE OperatorCommits
      BY <1>0, <3>3 DEF OperatorCommits, Everything, Nowhere, Unmarked
    <3>4. CASE UNCHANGED hub
      BY <3>4 DEF Unmarked
    <3> QED BY <1>3, <3>1, <3>2, <3>3, <3>4 DEF Others, ScaffoldVault, AgentEdits
  <2>4. \A b \in Boxes : Markers \notin vault'[b].main /\ Markers \notin vault'[b].merging
    <3>1. ASSUME NEW b \in Boxes, ScaffoldVault(b)
          PROVE  \A c \in Boxes : Markers \notin vault'[c].main /\ Markers \notin vault'[c].merging
      BY <1>0, <3>1 DEF ScaffoldVault, Unmarked, VaultsOK, Vaults
    <3>2. ASSUME NEW n \in Notes, NEW b \in Boxes, AgentEdits(b, n)
          PROVE  \A c \in Boxes : Markers \notin vault'[c].main /\ Markers \notin vault'[c].merging
      <4>1. PICK v \in Edited(vault[b], n, \A s \in Syncs : box[s] = b => pc[s] # "abortGuest") :
              vault' = [vault EXCEPT ![b] = v]
        BY <3>2 DEF AgentEdits
      <4>2. v.main = vault[b].main /\ v.merging = vault[b].merging
        BY <1>0 DEF Edited, Vaults
      <4> QED BY <4>1, <4>2 DEF Unmarked, VaultsOK
    <3>3. CASE UNCHANGED vault
      BY <3>3 DEF Unmarked
    <3> QED
      BY <1>3, <3>1, <3>2, <3>3 DEF Others, OperatorMerges, OperatorEdits, OperatorCommits
  <2> QED BY <2>1, <2>3, <2>4 DEF Unmarked
<1>4. CASE UNCHANGED <<vaultVars, carried>>
  BY <1>4 DEF Unmarked, vaultVars
<1> QED BY <1>2, <1>3, <1>4 DEF Next, Others, Start, vars, syncVars

\* Whatever commands are killed, only a sync that ends where it is about to abort
\* a merge leaves one in a box for a later snapshot, and only where one was left
\* does the first conflict marker get into a history.
THEOREM MarkersComeOfAStop == Spec => MarkersNeedAStop
<1> DEFINE Inv == NoMarkers => Unmarked
<1>1. Init => Inv
  BY UnmarkedInit
<1>2. Base /\ [Next]_vars /\ NoMarkers' => NoMarkers
  BY Forward DEF Base, TypeOK, NoMarkers
<1>3. Base /\ Inv /\ [Next]_vars => Inv'
  BY <1>2, UnmarkedStep
<1>4. Unmarked' => NoMarkers'
  BY DEF Unmarked, Clean, NoMarkers
<1>5. Base /\ Inv /\ [Next]_vars =>
        [/\ \A b \in Boxes : Stranded(b)' =>
              Stranded(b) \/ \E s \in Syncs : box[s] = b /\ pc[s] = "abortGuest" /\ pc'[s] = "idle"
         /\ NoMarkers => NoMarkers' \/ \E b \in Boxes : Stranded(b)]_vars
  BY <1>4, UnmarkedStep, StrandedStep
<1> QED BY <1>1, <1>3, <1>5, BaseInit, BaseStep, PTL DEF Spec, MarkersNeedAStop

-----------------------------------------------------------------------------
(* What was written. *)

LEMMA KeptStep ==
  ASSUME Base, Unmeddled, [Next]_vars, Meddle = FALSE
  PROVE  /\ Unmeddled'
         /\ Held(hub) \subseteq Held(hub')
         /\ \A b \in Boxes : Held(vault[b]) \subseteq Held(vault'[b])
<1> USE DEF Base, TypeOK
<1> DEFINE Grows(v, w) == w.resolution = {} /\ Held(v) \subseteq Held(w)
<1>0. hub \in Vaults /\ hub.resolution = {}
      /\ \A b \in Boxes : vault[b] \in Vaults /\ vault[b].resolution = {}
  BY DEF VaultsOK, Unmeddled
<1>1. ASSUME NEW v \in Vaults, v.resolution = {}
      PROVE  /\ Grows(v, v) /\ Grows(v, Aborted(v)) /\ Grows(v, Committed(v))
             /\ Grows(v, [Nowhere EXCEPT !.main = Everything(v)])
             /\ \A h : Grows(v, [v EXCEPT !.main = Joined(@, h)])
             /\ \A h : Grows(v, [v EXCEPT !.merging = h])
             /\ \A n : Grows(v, [v EXCEPT !.work = @ \cup {n}])
  BY <1>1 DEF Held, Aborted, Committed, Everything, Nowhere, Joined, Vaults
<1>2. ASSUME NEW n, NEW left, NEW v, NEW w \in Edited(v, n, left)
      PROVE  w = [v EXCEPT !.work = @ \cup {n}]
  BY <1>2 DEF Edited
<1>3. Grows(hub, hub')
  <2>1. ASSUME NEW s \in Syncs, Step(s) PROVE Grows(hub, hub')
    <3>1. CASE CloneHub(s)
      BY <3>1 DEF CloneHub, Initialized, HubOK, Held, Nowhere
    <3>2. CASE MergeHub(s) \/ AbortHub(s)
      BY <1>0, <1>1, <3>2 DEF MergeHub, AbortHub
    <3>3. CASE UNCHANGED hub
      BY <1>0, <1>1, <3>3
    <3> QED
      BY <2>1, <3>1, <3>2, <3>3
      DEF Step, Snapshot, BundleGuest, FindHub, DetachHub, FetchHub, BundleHub, FetchGuest,
          MergeGuest, AbortGuest, Return, Stop, vaultVars
  <2>2. ASSUME NEW b \in Boxes, OperatorMerges(b) PROVE Grows(hub, hub')
    BY <1>0, <1>1, <2>2 DEF OperatorMerges
  <2>3. ASSUME NEW n \in Notes, OperatorEdits(n) PROVE Grows(hub, hub')
    BY <1>0, <1>1, <1>2, <2>3 DEF OperatorEdits
  <2>4. CASE OperatorCommits
    BY <1>0, <1>1, <2>4 DEF OperatorCommits
  <2>5. CASE UNCHANGED hub
    BY <1>0, <1>1, <2>5
  <2> QED
    BY <2>1, <2>2, <2>3, <2>4, <2>5
    DEF Next, ScaffoldVault, AgentEdits, Start, vars, vaultVars
<1>4. ASSUME NEW b \in Boxes PROVE Grows(vault[b], vault'[b])
  <2>1. ASSUME NEW s \in Syncs, Step(s) PROVE Grows(vault[b], vault'[b])
    <3>0. box[s] = b \/ vault'[b] = vault[b]
      BY <2>1
      DEF Step, Snapshot, BundleGuest, FindHub, CloneHub, DetachHub, FetchHub, MergeHub,
          AbortHub, BundleHub, FetchGuest, MergeGuest, AbortGuest, Return, Stop, VaultsOK,
          vaultVars
    <3>1. CASE Snapshot(s)
      <4>1. box[s] = b => vault'[b] \in {vault[b], Committed(vault[b])}
        BY <3>1 DEF Snapshot, VaultsOK
      <4> QED BY <1>0, <1>1, <3>0, <4>1
    <3>2. CASE MergeGuest(s)
      <4>1. box[s] = b => vault'[b] \in {vault[b],
                                        [vault[b] EXCEPT !.main = Joined(@, seen[b])],
                                        [vault[b] EXCEPT !.merging = seen[b]]}
        BY <1>0, <3>2 DEF MergeGuest, VaultsOK
      <4>2. /\ Grows(vault[b], [vault[b] EXCEPT !.main = Joined(@, seen[b])])
            /\ Grows(vault[b], [vault[b] EXCEPT !.merging = seen[b]])
            /\ Grows(vault[b], vault[b])
        BY <1>0, <1>1
      <4> HIDE DEF Grows
      <4> QED BY <3>0, <4>1, <4>2
    <3>3. CASE AbortGuest(s)
      <4>1. box[s] = b => vault'[b] = Aborted(vault[b])
        BY <3>3 DEF AbortGuest, VaultsOK
      <4> QED BY <1>0, <1>1, <3>0, <4>1
    <3>4. CASE UNCHANGED vault
      BY <1>0, <1>1, <3>4
    <3> QED
      BY <2>1, <3>1, <3>2, <3>3, <3>4
      DEF Step, BundleGuest, FindHub, CloneHub, DetachHub, FetchHub, MergeHub, AbortHub,
          BundleHub, FetchGuest, Return, Stop, vaultVars
  <2>2. ASSUME NEW c \in Boxes, ScaffoldVault(c) PROVE Grows(vault[b], vault'[b])
    BY <1>0, <2>2 DEF ScaffoldVault, Initialized, VaultsOK, Vaults, Held
  <2>3. ASSUME NEW c \in Boxes, NEW n \in Notes, AgentEdits(c, n)
        PROVE  Grows(vault[b], vault'[b])
    <3>1. vault' = [vault EXCEPT ![c] = [vault[c] EXCEPT !.work = @ \cup {n}]]
      BY <1>2, <2>3 DEF AgentEdits
    <3> QED BY <1>0, <1>1, <3>1 DEF VaultsOK
  <2>4. CASE UNCHANGED vault
    BY <1>0, <1>1, <2>4
  <2> QED
    BY <2>1, <2>2, <2>3, <2>4
    DEF Next, OperatorMerges, OperatorEdits, OperatorCommits, Start, vars, vaultVars
<1> QED BY <1>3, <1>4 DEF Unmeddled

\* Where nobody edits the files of a merge that stopped, nothing anybody wrote is
\* ever dropped, from a box or from the hub.  (Where somebody does, a sync drops
\* it: ResolutionKept.)
THEOREM NothingIsDropped ==
  ASSUME Meddle = FALSE
  PROVE  Spec => NotesKept
<1>1. Init => Unmeddled
  BY DEF Init, Unmeddled, Nowhere
<1>2. Base /\ Unmeddled /\ [Next]_vars =>
        /\ Unmeddled'
        /\ [/\ Held(hub) \subseteq Held(hub')
            /\ \A b \in Boxes : Held(vault[b]) \subseteq Held(vault'[b])]_vars
  BY KeptStep
<1> QED BY <1>1, <1>2, BaseInit, BaseStep, PTL DEF Spec, NotesKept
=============================================================================
