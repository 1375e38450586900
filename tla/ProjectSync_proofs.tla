------------------------- MODULE ProjectSync_proofs -------------------------
(***************************************************************************)
(* Theorems about ProjectSync: for any boxes, projects, refs, numbers of   *)
(* commits and of running syncs.                                           *)
(***************************************************************************)
EXTENDS ProjectSync, FiniteSetTheorems, TLAPS

\* A set of refs that is not empty has a first one: of the intervals that end
\* in one of its members, one contains no other.
LEMMA FirstRef ==
  ASSUME NEW S, S \subseteq Refs, S # {}
  PROVE  \E r \in S : \A q \in S : r <= q
<1> DEFINE Upto == {0 .. r : r \in S}
           Below == StrictSubsetOrdering(Nat)
<1>1. S \subseteq Nat
  BY RefsAssumption
<1>2. Upto # {} /\ Upto \subseteq FiniteSubsetsOf(Nat)
  <2>1. ASSUME NEW r \in S PROVE IsFiniteSet(0 .. r) /\ 0 .. r \in SUBSET Nat
    BY <1>1, FS_Interval
  <2> QED BY <2>1 DEF FiniteSubsetsOf
<1>3. PICK low \in Upto : \A u \in Upto : ~(<<u, low>> \in Below)
  <2> HIDE DEF Upto, Below
  <2>1. IsWellFoundedOn(Below, FiniteSubsetsOf(Nat))
    BY FS_StrictSubsetOrderingWellFounded DEF Below
  <2> QED BY <1>2, <2>1, WFMin
<1>4. PICK r \in S : low = 0 .. r
  OBVIOUS
<1>5. ASSUME NEW q \in S PROVE r <= q
  <2>1. SUFFICES ASSUME q < r PROVE FALSE
    BY <1>1
  <2>2. 0 .. q \subseteq 0 .. r /\ 0 .. q # 0 .. r
    BY <1>1, <2>1
  <2>3. <<0 .. q, 0 .. r>> \in Below
    BY <1>1, <2>2 DEF StrictSubsetOrdering
  <2> QED BY <1>3, <1>4, <2>3
<1> QED BY <1>5

-----------------------------------------------------------------------------
(* The type invariant. *)

LEMMA PlansType ==
  ASSUME NEW mine \in RefMaps, NEW theirs \in RefMaps
  PROVE  /\ RefPlans(mine, theirs) \in RefMaps
         /\ Divergences(mine, theirs) \subseteq Refs
BY DEF RefPlans, Divergences, RefMaps, Commits

LEMMA NoRefsType == NoRefs \in RefMaps
BY DEF NoRefs, RefMaps, Commits

\* HEAD is only ever pointed at a branch, and at one that is there.
LEMMA PreferredIsThere ==
  ASSUME NEW refs \in RefMaps
  PROVE  /\ PreferredBranch(refs) \in Branches \cup {Detached}
         /\ PreferredBranch(refs) # Detached =>
              PreferredBranch(refs) \in Branches /\ refs[PreferredBranch(refs)] # {}
         /\ PreferredBranch(refs) = Detached => \A r \in Branches : refs[r] = {}
<1> DEFINE held == {r \in Branches : refs[r] # {}}
<1>a. Detached \notin Branches /\ held \subseteq Branches /\ held \subseteq Refs
  BY RefsAssumption DEF Branches, Detached
<1>1. CASE Main \in held
  BY <1>1, <1>a DEF PreferredBranch
<1>2. CASE Main \notin held /\ held = {}
  BY <1>2, <1>a DEF PreferredBranch
<1>3. CASE Main \notin held /\ held # {}
  <2>1. \E r \in held : \A q \in held : r <= q
    <3> HIDE DEF held
    <3> QED BY <1>a, <1>3, FirstRef
  <2>2. (CHOOSE r \in held : \A q \in held : r <= q) \in held
    BY <2>1
  <2>3. PreferredBranch(refs) \in held
    BY <1>3, <2>2 DEF PreferredBranch
  <2> QED BY <1>a, <2>3
<1> QED BY <1>1, <1>2, <1>3

LEMMA HeadCommitType ==
  ASSUME TypeOK, NEW b \in Boxes, NEW p \in Projects
  PROVE  HeadCommit(b, p) \in Commits
BY DEF TypeOK, CheckoutsOK, HeadCommit, RefMaps, Branches

\* Moving HEAD, and with it the branch it names, keeps the checkouts typed.
LEMMA MoveHeadType ==
  ASSUME TypeOK, NEW b \in Boxes, NEW p \in Projects, NEW c \in Commits,
         MoveHead(b, p, c)
  PROVE  /\ guest' \in [Boxes -> [Projects -> RefMaps]]
         /\ tree' \in [Boxes -> [Projects -> Commits]]
<1>1. /\ guest \in [Boxes -> [Projects -> RefMaps]]
      /\ tree \in [Boxes -> [Projects -> Commits]]
      /\ head[b][p] \in Branches \cup {Detached}
  BY DEF TypeOK, CheckoutsOK
<1>2. tree' \in [Boxes -> [Projects -> Commits]]
  BY <1>1 DEF MoveHead
<1>3. CASE head[b][p] = Detached
  BY <1>1, <1>2, <1>3 DEF MoveHead
<1>4. CASE head[b][p] \in Branches
  <2>1. head[b][p] # Detached
    BY <1>4, RefsAssumption DEF Branches, Detached
  <2>2. guest' = [guest EXCEPT ![b][p][head[b][p]] = c]
    BY <2>1 DEF MoveHead
  <2> QED BY <1>1, <1>2, <2>2 DEF RefMaps
<1> QED BY <1>1, <1>3, <1>4

THEOREM InitTypeOK == Init => TypeOK
<1> SUFFICES ASSUME Init PROVE TypeOK
  OBVIOUS
<1> USE NoRefsType, RefsAssumption, BoundAssumption DEF Init
<1>1. CheckoutsOK
  <2>1. NoAttach \in Attachments /\ NoAttach.at = "idle"
    BY DEF NoAttach, Attachments
  <2>2. attach \in [Boxes -> Attachments] /\ \A b \in Boxes : attach[b].at = "idle"
    BY <2>1
  <2> HIDE DEF NoAttach, Attachments, RefMaps
  <2> QED BY <2>2 DEF CheckoutsOK, Branches, Commits
<1>2. HubsOK
  BY DEF HubsOK, Branches
<1>3. StagingOK
  BY DEF StagingOK, Stagings, NoStaging
<1>4. SyncsOK
  BY DEF SyncsOK, Steps, Running
<1> QED BY <1>1, <1>2, <1>3, <1>4 DEF TypeOK

\* The steps of a sync, one by one.
LEMMA ProgressTypeOK ==
  ASSUME TypeOK, NEW s \in Syncs, Progress(s)
  PROVE  TypeOK'
<1> USE NoRefsType DEF TypeOK
<1> DEFINE b == box[s]
           p == proj[s]
<1>a. /\ box[s] \in Boxes /\ proj[s] \in Projects
      /\ guest[b][p] \in RefMaps /\ seen[b][p] \in RefMaps
      /\ hub[p] \in RefMaps /\ mirror[p][b] \in RefMaps
      /\ staging[b] \in Stagings
  <2>1. Running(s)
    BY DEF Progress, PrepareStaging, CheckHistory, BundleGuest, CopyFromGuest, FindHub,
           MakeHub, FetchIntoHub, PlanOutbound, UpdateHubRef, ReadHubHead, ListHubBranches,
           PointHubHead, AfterHead, BundleHub,
           CopyToGuest, FetchIntoGuest, PlanInbound, ReadBranch, UpdateGuestRef,
           FastForward, FinishInbound, Cleanup, Goto, Running
  <2> QED BY <2>1 DEF SyncsOK, CheckoutsOK, HubsOK, StagingOK
<1> USE <1>a
<1>1. CASE PrepareStaging(s)
  BY <1>1 DEF PrepareStaging, Goto, KeepJob, KeepReport, agentVars, hubVars,
     CheckoutsOK, HubsOK, StagingOK, SyncsOK, Stagings, NoStaging, Steps, Running
<1>2. CASE CheckHistory(s)
  BY <1>2 DEF CheckHistory, Goto, KeepJob, KeepReport, agentVars, hubVars,
     CheckoutsOK, HubsOK, StagingOK, SyncsOK, Steps, Running
<1>3. CASE BundleGuest(s)
  BY <1>3 DEF BundleGuest, Goto, KeepJob, KeepReport, agentVars, hubVars,
     CheckoutsOK, HubsOK, StagingOK, SyncsOK, Stagings, Steps, Running
<1>4. CASE CopyFromGuest(s)
  BY <1>4 DEF CopyFromGuest, Goto, KeepJob, KeepReport, agentVars, hubVars,
     CheckoutsOK, HubsOK, StagingOK, SyncsOK, Stagings, Steps, Running
<1>5. CASE FindHub(s)
  BY <1>5 DEF FindHub, Goto, KeepJob, agentVars, hubVars,
     CheckoutsOK, HubsOK, StagingOK, SyncsOK, Steps, Running
<1>6. CASE MakeHub(s)
  BY <1>6 DEF MakeHub, Goto, KeepJob, KeepReport, agentVars,
     CheckoutsOK, HubsOK, StagingOK, SyncsOK, Steps, Running
<1>7. CASE FetchIntoHub(s)
  BY <1>7 DEF FetchIntoHub, Goto, KeepJob, KeepReport, agentVars,
     CheckoutsOK, HubsOK, StagingOK, SyncsOK, Steps, Running
<1>8. CASE PlanOutbound(s)
  <2>1. /\ RefPlans(hub[p], mirror[p][b]) \in RefMaps
        /\ Divergences(hub[p], mirror[p][b]) \subseteq Refs
    BY PlansType
  <2> QED BY <1>8, <2>1 DEF PlanOutbound, Goto, KeepJob, agentVars, hubVars,
     CheckoutsOK, HubsOK, StagingOK, SyncsOK, Steps, Running
<1>9. CASE \E r \in Refs : UpdateHubRef(s, r)
  <2>1. PICK r \in Refs : UpdateHubRef(s, r)
    BY <1>9
  <2>2. todo[s][r] \in Commits /\ {} \in Commits
    BY DEF SyncsOK, RefMaps, Commits
  <2>3. hub' \in [Projects -> RefMaps] /\ todo' \in [Syncs -> RefMaps]
    BY <2>1, <2>2 DEF UpdateHubRef, HubsOK, SyncsOK, RefMaps
  <2> QED BY <2>1, <2>3 DEF UpdateHubRef, Goto, KeepJob, KeepReport, agentVars,
     CheckoutsOK, HubsOK, StagingOK, SyncsOK, Steps, Running
<1>10. CASE ReadHubHead(s)
  BY <1>10 DEF ReadHubHead, AfterHead, Goto, KeepJob, KeepReport, agentVars, hubVars,
     CheckoutsOK, HubsOK, StagingOK, SyncsOK, Steps, Running
<1>20. CASE ListHubBranches(s)
  <2> DEFINE first == PreferredBranch(hub[p])
  <2>1. first \in Branches \cup {Detached} /\ (first # Detached => first \in Branches)
    BY PreferredIsThere
  <2>2. /\ pc' = [pc EXCEPT ![s] = IF first = Detached THEN AfterHead(s) ELSE "pointHub"]
        /\ branch' = [branch EXCEPT ![s] = first] /\ pc[s] = "listHub"
        /\ AfterHead(s) \in {"finished", "bundleHub"}
    BY <1>20 DEF ListHubBranches, Goto, AfterHead
  <2> HIDE DEF first
  <2> QED BY <1>20, <2>1, <2>2 DEF ListHubBranches, KeepJob, KeepReport, agentVars, hubVars,
     CheckoutsOK, HubsOK, StagingOK, SyncsOK, Steps, Running
<1>21. CASE PointHubHead(s)
  <2>1. branch[s] \in Branches
    BY <1>21 DEF PointHubHead, Goto, SyncsOK
  <2> QED BY <1>21, <2>1 DEF PointHubHead, AfterHead, Goto, KeepJob, KeepReport, agentVars,
     CheckoutsOK, HubsOK, StagingOK, SyncsOK, Steps, Running
<1>11. CASE BundleHub(s)
  BY <1>11 DEF BundleHub, Goto, KeepJob, KeepReport, agentVars, hubVars,
     CheckoutsOK, HubsOK, StagingOK, SyncsOK, Steps, Running
<1>12. CASE CopyToGuest(s)
  BY <1>12 DEF CopyToGuest, Goto, KeepJob, KeepReport, agentVars, hubVars,
     CheckoutsOK, HubsOK, StagingOK, SyncsOK, Stagings, Steps, Running
<1>13. CASE FetchIntoGuest(s)
  BY <1>13 DEF FetchIntoGuest, Goto, KeepJob, KeepReport, hubVars,
     CheckoutsOK, HubsOK, StagingOK, SyncsOK, Stagings, Steps, Running
<1>14. CASE PlanInbound(s)
  <2>1. /\ RefPlans(guest[b][p], seen[b][p]) \in RefMaps
        /\ Divergences(guest[b][p], seen[b][p]) \subseteq Refs
    BY PlansType
  <2> QED BY <1>14, <2>1 DEF PlanInbound, Goto, KeepJob, agentVars, hubVars,
     CheckoutsOK, HubsOK, StagingOK, SyncsOK, Steps, Running
<1>15. CASE ReadBranch(s)
  BY <1>15 DEF ReadBranch, Goto, KeepJob, KeepReport, agentVars, hubVars,
     CheckoutsOK, HubsOK, StagingOK, SyncsOK, Steps, Running
<1>16. CASE \E r \in Refs : UpdateGuestRef(s, r)
  <2>1. PICK r \in Refs : UpdateGuestRef(s, r)
    BY <1>16
  <2>2. todo[s][r] \in Commits /\ {} \in Commits
    BY DEF SyncsOK, RefMaps, Commits
  <2>3. guest' \in [Boxes -> [Projects -> RefMaps]] /\ todo' \in [Syncs -> RefMaps]
    BY <2>1, <2>2 DEF UpdateGuestRef, CheckoutsOK, SyncsOK, RefMaps
  <2> QED BY <2>1, <2>3 DEF UpdateGuestRef, Goto, KeepJob, KeepReport, hubVars,
     CheckoutsOK, HubsOK, StagingOK, SyncsOK, Steps, Running
<1>17. CASE \E r \in Refs : FastForward(s, r)
  <2>1. PICK r \in Refs : FastForward(s, r)
    BY <1>17
  <2>2. seen[b][p][r] \in Commits /\ {} \in Commits
    BY DEF RefMaps, Commits
  <2>3. /\ guest' \in [Boxes -> [Projects -> RefMaps]]
        /\ tree' \in [Boxes -> [Projects -> Commits]]
    <3>1. CASE MoveHead(b, p, seen[b][p][r])
      BY <2>2, <3>1, MoveHeadType
    <3>2. CASE UNCHANGED <<guest, tree>>
      BY <3>2 DEF CheckoutsOK
    <3> QED BY <2>1, <3>1, <3>2 DEF FastForward
  <2>4. todo' \in [Syncs -> RefMaps] /\ heldBack' \in [Syncs -> SUBSET Refs]
    <3>1. todo' = [todo EXCEPT ![s][r] = {}]
      BY <2>1 DEF FastForward
    <3>2. \/ UNCHANGED heldBack
          \/ heldBack' = [heldBack EXCEPT ![s] = @ \cup {r}]
      BY <2>1 DEF FastForward
    <3>3. todo' \in [Syncs -> RefMaps]
      BY <2>2, <3>1 DEF SyncsOK, RefMaps
    <3> QED BY <3>2, <3>3 DEF SyncsOK
  <2> QED BY <2>1, <2>3, <2>4 DEF FastForward, Goto, KeepJob, hubVars,
     CheckoutsOK, HubsOK, StagingOK, SyncsOK, Steps, Running
<1>18. CASE FinishInbound(s)
  BY <1>18 DEF FinishInbound, Goto, KeepJob, KeepReport, agentVars, hubVars,
     CheckoutsOK, HubsOK, StagingOK, SyncsOK, Steps, Running
<1>19. CASE Cleanup(s)
  BY <1>19 DEF Cleanup, Forget, agentVars, hubVars,
     CheckoutsOK, HubsOK, StagingOK, SyncsOK, Stagings, NoStaging, Steps, Running
<1> QED
  BY <1>1, <1>2, <1>3, <1>4, <1>5, <1>6, <1>7, <1>8, <1>9, <1>10, <1>11, <1>12, <1>13,
     <1>14, <1>15, <1>16, <1>17, <1>18, <1>19, <1>20, <1>21 DEF Progress

\* The steps in a box that no sync takes: of an attachment, of a command that
\* makes a checkout, of an agent.
Attaching(b)    == Attach(b) \/ \E p \in Projects : StartAttach(b, p)
CheckoutStep(b) == Attaching(b) \/ \E p \in Projects : AddLocal(b, p) \/ Agent(b, p)

LEMMA AttachKeeps ==
  ASSUME NEW b \in Boxes, Attaching(b)
  PROVE  /\ UNCHANGED <<seen, minted, hubMade, hub, mirror, staging, syncVars>>
         /\ AttachClones(b) \/ UNCHANGED <<guest, present, head, tree>>
         /\ AttachPointsHead(b) \/ UNCHANGED hubHead
BY DEF Attaching, Attach, StartAttach, AttachReadsHead, AttachListsBranches,
   AttachPointsHead, AttachBundles, AttachClones, AttachStops, AttachTo, hubVars

LEMMA CheckoutKeeps ==
  ASSUME NEW b \in Boxes, CheckoutStep(b)
  PROVE  UNCHANGED <<seen, hubMade, hub, mirror, staging, syncVars>>
<1>1. CASE Attaching(b)
  BY <1>1, AttachKeeps
<1>2. CASE \E p \in Projects : AddLocal(b, p) \/ Agent(b, p)
  BY <1>2 DEF AddLocal, Agent, hubVars
<1> QED BY <1>1, <1>2 DEF CheckoutStep

\* No step of a sync moves an attachment on.
LEMMA AttachKept ==
  ASSUME NEW s \in Syncs, Progress(s) \/ Fail(s) \/ Crash(s)
  PROVE  UNCHANGED attach
<1>1. CASE Progress(s)
  BY <1>1 DEF Progress, PrepareStaging, CheckHistory, BundleGuest, CopyFromGuest, FindHub,
     MakeHub, FetchIntoHub, PlanOutbound, UpdateHubRef, ReadHubHead, ListHubBranches,
     PointHubHead, BundleHub, CopyToGuest, FetchIntoGuest, PlanInbound, ReadBranch,
     UpdateGuestRef, FastForward, FinishInbound, Cleanup, agentVars
<1> QED BY <1>1 DEF Fail, Crash, agentVars

\* What an attachment holds while it is under way.
AttachOK(j) ==
  /\ j \in Attachments
  /\ j.at # "idle" => j.proj \in Projects
  /\ j.at \in {"pointHub", "clone"} => j.branch \in Branches

LEMMA AttachTypeOK ==
  ASSUME TypeOK, NEW b \in Boxes, Attaching(b)
  PROVE  TypeOK'
<1> DEFINE a == attach[b]
           p == a.proj
<1>a. AttachOK(a) /\ AttachOK(NoAttach)
  BY NoRefsType DEF TypeOK, CheckoutsOK, AttachOK, NoAttach, Attachments
<1>b. UNCHANGED <<seen, minted, hubMade, hub, mirror, staging, syncVars>>
  BY AttachKeeps
<1>c. ASSUME NEW j, AttachOK(j), attach' = [attach EXCEPT ![b] = j],
             guest' \in [Boxes -> [Projects -> RefMaps]], present' \in [Boxes -> SUBSET Projects],
             head' \in [Boxes -> [Projects -> Branches \cup {Detached}]],
             tree' \in [Boxes -> [Projects -> Commits]], hubHead' \in [Projects -> Branches]
      PROVE  TypeOK'
  <2>1. /\ attach' \in [Boxes -> Attachments]
        /\ \A d \in Boxes : AttachOK(attach'[d])
    BY <1>c DEF TypeOK, CheckoutsOK, AttachOK
  <2>2. CheckoutsOK'
    BY <1>b, <1>c, <2>1 DEF TypeOK, CheckoutsOK, AttachOK
  <2> QED BY <1>b, <1>c, <2>2 DEF TypeOK, HubsOK, StagingOK, SyncsOK, Running, syncVars
<1>d. ASSUME NEW j, AttachOK(j), attach' = [attach EXCEPT ![b] = j],
             UNCHANGED <<guest, present, head, tree, hubHead>>
      PROVE  TypeOK'
  BY <1>c, <1>d DEF TypeOK, CheckoutsOK, HubsOK
<1>1. ASSUME NEW q \in Projects, StartAttach(b, q) PROVE TypeOK'
  <2> DEFINE j == [NoAttach EXCEPT !.at = "headHub", !.proj = q]
  <2>1. AttachOK(j)
    BY NoRefsType DEF AttachOK, NoAttach, Attachments
  <2>2. attach' = [attach EXCEPT ![b] = j] /\ UNCHANGED <<guest, present, head, tree, hubHead>>
    BY <1>1 DEF StartAttach, hubVars
  <2> HIDE DEF j
  <2> QED BY <1>d, <2>1, <2>2
<1>2. CASE AttachReadsHead(b)
  <2> DEFINE j == [a EXCEPT !.at = IF Resolves(p) THEN "bundle" ELSE "listHub"]
  <2>1. AttachOK(j)
    BY <1>2, <1>a DEF AttachReadsHead, AttachTo, AttachOK, Attachments
  <2>2. attach' = [attach EXCEPT ![b] = j] /\ UNCHANGED <<guest, present, head, tree, hubHead>>
    BY <1>2 DEF AttachReadsHead, AttachTo
  <2> HIDE DEF j
  <2> QED BY <1>d, <2>1, <2>2
<1>3. CASE AttachListsBranches(b)
  <2> DEFINE first == PreferredBranch(hub[p])
             j == [a EXCEPT !.at = IF first = Detached THEN "bundle" ELSE "pointHub",
                            !.branch = first]
  <2>1. a.at = "listHub" /\ p \in Projects
    BY <1>3, <1>a DEF AttachListsBranches, AttachTo, AttachOK
  <2>2. first \in Branches \cup {Detached} /\ (first # Detached => first \in Branches)
    BY <2>1, PreferredIsThere DEF TypeOK, HubsOK
  <2>3. attach' = [attach EXCEPT ![b] = j] /\ UNCHANGED <<guest, present, head, tree, hubHead>>
    BY <1>3 DEF AttachListsBranches, AttachTo
  <2>4. AttachOK(j)
    <3> HIDE DEF first
    <3> QED BY <1>a, <2>1, <2>2 DEF AttachOK, Attachments
  <2> HIDE DEF j
  <2> QED BY <1>d, <2>3, <2>4
<1>4. CASE AttachPointsHead(b)
  <2> DEFINE j == [a EXCEPT !.at = "bundle"]
  <2>1. a.at = "pointHub" /\ p \in Projects /\ a.branch \in Branches
    BY <1>4, <1>a DEF AttachPointsHead, AttachTo, AttachOK
  <2>2. AttachOK(j)
    BY <1>a, <2>1 DEF AttachOK, Attachments
  <2>3. attach' = [attach EXCEPT ![b] = j] /\ UNCHANGED <<guest, present, head, tree>>
    BY <1>4 DEF AttachPointsHead, AttachTo
  <2>4. hubHead' \in [Projects -> Branches]
    BY <1>4, <2>1 DEF AttachPointsHead, TypeOK, HubsOK
  <2> HIDE DEF j
  <2> QED BY <1>c, <2>2, <2>3, <2>4 DEF TypeOK, CheckoutsOK
<1>5. CASE AttachBundles(b)
  <2> DEFINE j == [a EXCEPT !.at = "clone", !.branch = hubHead[p], !.refs = hub[p]]
  <2>1. a.at = "bundle" /\ p \in Projects
    BY <1>5, <1>a DEF AttachBundles, AttachTo, AttachOK
  <2>2. hubHead[p] \in Branches /\ hub[p] \in RefMaps
    BY <2>1 DEF TypeOK, HubsOK
  <2>3. AttachOK(j)
    BY <1>a, <2>1, <2>2 DEF AttachOK, Attachments
  <2>4. attach' = [attach EXCEPT ![b] = j] /\ UNCHANGED <<guest, present, head, tree, hubHead>>
    BY <1>5 DEF AttachBundles, AttachTo
  <2> HIDE DEF j
  <2> QED BY <1>d, <2>3, <2>4
<1>6. CASE AttachClones(b)
  <2> DEFINE refs == [r \in Refs |-> IF r \in Tags \cup {a.branch} THEN a.refs[r] ELSE {}]
  <2>1. /\ a.at = "clone" /\ p \in Projects /\ a.branch \in Branches /\ a.branch \in Refs
        /\ a.refs \in RefMaps
    BY <1>6, <1>a DEF AttachClones, AttachTo, AttachOK, Attachments, Branches
  <2>2. refs \in RefMaps /\ a.refs[a.branch] \in Commits
    BY <2>1 DEF RefMaps, Commits
  <2>3. /\ attach' = [attach EXCEPT ![b] = NoAttach] /\ UNCHANGED hubHead
        /\ present' = [present EXCEPT ![b] = @ \cup {p}]
        /\ guest' = [guest EXCEPT ![b][p] = refs]
        /\ head' = [head EXCEPT ![b][p] = a.branch]
        /\ tree' = [tree EXCEPT ![b][p] = a.refs[a.branch]]
    BY <1>6 DEF AttachClones, AttachTo
  <2> HIDE DEF refs
  <2>4. /\ present' \in [Boxes -> SUBSET Projects]
        /\ guest' \in [Boxes -> [Projects -> RefMaps]]
        /\ head' \in [Boxes -> [Projects -> Branches \cup {Detached}]]
        /\ tree' \in [Boxes -> [Projects -> Commits]]
        /\ hubHead' \in [Projects -> Branches]
    BY <2>1, <2>2, <2>3 DEF TypeOK, CheckoutsOK, HubsOK
  <2> QED BY <1>a, <1>c, <2>3, <2>4
<1>7. CASE AttachStops(b)
  <2>1. /\ attach' = [attach EXCEPT ![b] = NoAttach]
        /\ UNCHANGED <<guest, present, head, tree, hubHead>>
    BY <1>7 DEF AttachStops, AttachTo
  <2> QED BY <1>a, <1>d, <2>1
<1> QED BY <1>1, <1>2, <1>3, <1>4, <1>5, <1>6, <1>7 DEF Attaching, Attach

\* The steps of the agents and of the command that makes an empty checkout.
LEMMA CheckoutTypeOK ==
  ASSUME TypeOK, NEW b \in Boxes, NEW p \in Projects, AddLocal(b, p) \/ Agent(b, p)
  PROVE  TypeOK'
<1> USE NoRefsType DEF TypeOK
<1>a. /\ guest[b][p] \in RefMaps /\ seen[b][p] \in RefMaps /\ hub[p] \in RefMaps
      /\ {} \in Commits /\ HeadCommit(b, p) \in Commits
  BY HeadCommitType DEF CheckoutsOK, HubsOK, Commits
<1>1. CASE AddLocal(b, p)
  BY <1>1 DEF AddLocal, hubVars, syncVars, CheckoutsOK, HubsOK, StagingOK, SyncsOK, Running
<1>3. CASE Agent(b, p)
  <2> DEFINE known == {guest[b][p][r] : r \in Refs} \cup {seen[b][p][r] : r \in Refs}
  <2>1. known \subseteq Commits
    BY <1>a DEF RefMaps
  <2>2. UNCHANGED <<present, seen, attach, hubVars, staging, syncVars>>
    BY <1>3 DEF Agent
  <2> DEFINE Typed ==
        /\ guest \in [Boxes -> [Projects -> RefMaps]]
        /\ head \in [Boxes -> [Projects -> Branches \cup {Detached}]]
        /\ tree \in [Boxes -> [Projects -> Commits]]
        /\ minted \in [Projects -> 0 .. MaxCommits]
  <2>3. Typed'
    <3>1. ASSUME NEW other \in known \cup {{}}, AgentCommit(b, p, other)
          PROVE  Typed'
      <4>1. minted[p] + 1 \in 1 .. MaxCommits
        BY <3>1, BoundAssumption DEF AgentCommit, CheckoutsOK
      <4>2. HeadCommit(b, p) \cup other \cup Fresh(p) \in Commits
        BY <1>a, <2>1, <4>1 DEF Fresh, Commits
      <4>3. minted' \in [Projects -> 0 .. MaxCommits] /\ UNCHANGED head
        BY <3>1, <4>1 DEF AgentCommit, CheckoutsOK
      <4>4. MoveHead(b, p, HeadCommit(b, p) \cup other \cup Fresh(p))
        BY <3>1 DEF AgentCommit
      <4> QED BY <4>2, <4>3, <4>4, MoveHeadType DEF CheckoutsOK
    <3>2. ASSUME NEW r \in Branches \cup {Detached}, AgentSwitch(b, p, r)
          PROVE  Typed'
      <4>1. head' = [head EXCEPT ![b][p] = r] /\ UNCHANGED minted
        BY <3>2 DEF AgentSwitch
      <4>2. CASE r = Detached
        <5>1. tree' = [tree EXCEPT ![b][p] = HeadCommit(b, p)] /\ UNCHANGED guest
          BY <3>2, <4>2 DEF AgentSwitch
        <5>2. tree' \in [Boxes -> [Projects -> Commits]]
          BY <1>a, <5>1 DEF CheckoutsOK
        <5> QED BY <4>1, <5>1, <5>2 DEF CheckoutsOK
      <4>3. CASE r # Detached /\ guest[b][p][r] = {}
        <5>1. guest' = [guest EXCEPT ![b][p][r] = HeadCommit(b, p)]
          BY <3>2, <4>3 DEF AgentSwitch
        <5>2. guest' \in [Boxes -> [Projects -> RefMaps]]
          BY <1>a, <5>1 DEF CheckoutsOK, RefMaps
        <5>3. tree' = [tree EXCEPT ![b][p] = HeadCommit(b, p)]
          BY <3>2, <4>3 DEF AgentSwitch
        <5> QED BY <1>a, <4>1, <5>2, <5>3 DEF CheckoutsOK
      <4>4. CASE r # Detached /\ guest[b][p][r] # {}
        <5>1. guest[b][p][r] \in Commits
          BY <1>a, <4>4 DEF RefMaps, Branches
        <5>2. tree' = [tree EXCEPT ![b][p] = guest[b][p][r]] /\ UNCHANGED guest
          BY <3>2, <4>4 DEF AgentSwitch
        <5>3. tree' \in [Boxes -> [Projects -> Commits]]
          BY <5>1, <5>2 DEF CheckoutsOK
        <5> QED BY <4>1, <5>2, <5>3 DEF CheckoutsOK
      <4> QED BY <4>2, <4>3, <4>4
    <3>3. ASSUME NEW c \in known, AgentReset(b, p, c)
          PROVE  Typed'
      BY <2>1, <3>3, MoveHeadType DEF AgentReset, CheckoutsOK
    <3>4. ASSUME NEW r \in Refs, NEW c \in {{}, HeadCommit(b, p)}, AgentWriteRef(b, p, r, c)
          PROVE  Typed'
      <4>1. guest' = [guest EXCEPT ![b][p][r] = c] /\ c \in Commits
        BY <1>a, <3>4 DEF AgentWriteRef
      <4>2. guest' \in [Boxes -> [Projects -> RefMaps]]
        BY <4>1 DEF CheckoutsOK, RefMaps
      <4> QED BY <3>4, <4>2 DEF AgentWriteRef, CheckoutsOK
    <3> QED BY <1>3, <3>1, <3>2, <3>3, <3>4 DEF Agent
  <2> QED BY <2>2, <2>3 DEF hubVars, syncVars, CheckoutsOK, HubsOK, StagingOK, SyncsOK,
             Running
<1> QED BY <1>1, <1>3

LEMMA TypeStep == TypeOK /\ [Next]_vars => TypeOK'
<1> SUFFICES ASSUME TypeOK, [Next]_vars PROVE TypeOK'
  OBVIOUS
<1>1. ASSUME NEW s \in Syncs, NEW b \in Boxes, NEW p \in Projects, Start(s, b, p)
      PROVE  TypeOK'
  BY <1>1 DEF Start, Goto, KeepReport, agentVars, hubVars, TypeOK,
     CheckoutsOK, HubsOK, StagingOK, SyncsOK, Steps, Running
<1>2. ASSUME NEW s \in Syncs, Fail(s) PROVE TypeOK'
  BY <1>2 DEF Fail, KeepJob, KeepReport, agentVars, hubVars, TypeOK,
     CheckoutsOK, HubsOK, StagingOK, SyncsOK, Steps, Running
<1>3. ASSUME NEW s \in Syncs, Crash(s) PROVE TypeOK'
  BY <1>3, NoRefsType DEF Crash, Forget, agentVars, hubVars, TypeOK,
     CheckoutsOK, HubsOK, StagingOK, SyncsOK, Steps, Running
<1>4. CASE UNCHANGED vars
  BY <1>4 DEF vars, agentVars, hubVars, syncVars, TypeOK,
     CheckoutsOK, HubsOK, StagingOK, SyncsOK, Running
<1> QED BY <1>1, <1>2, <1>3, <1>4, ProgressTypeOK, AttachTypeOK, CheckoutTypeOK
     DEF Next, Attaching

\* Every variable keeps its shape, whatever overlaps.
THEOREM TypeCorrect == Spec => []TypeOK
BY InitTypeOK, TypeStep, PTL DEF Spec

\* Where a step of an attachment leaves it: back at an end, or on its way to a
\* HEAD that resolves.
AttachMove(b) ==
  \/ attach'[b].at \in {"idle", "headHub", "clone"}
  \/ /\ attach[b].at \in {"headHub", "listHub", "pointHub"}
     /\ attach'[b].proj = attach[b].proj
     /\ \/ /\ AttachReadsHead(b)
           /\ attach'[b].at = IF Resolves(attach[b].proj) THEN "bundle" ELSE "listHub"
        \/ LET first == PreferredBranch(hub[attach[b].proj])
           IN  /\ AttachListsBranches(b)
               /\ attach'[b].at = IF first = Detached THEN "bundle" ELSE "pointHub"
               /\ attach'[b].branch = first
        \/ AttachPointsHead(b) /\ attach'[b].at = "bundle" /\ attach[b].at = "pointHub"

LEMMA AttachMoves ==
  ASSUME TypeOK, NEW b \in Boxes, Attaching(b)
  PROVE  AttachMove(b)
<1> DEFINE a == attach[b]
           p == a.proj
<1>a. a \in Attachments /\ attach \in [Boxes -> Attachments]
  BY DEF TypeOK, CheckoutsOK
<1>1. ASSUME NEW q \in Projects, StartAttach(b, q) PROVE AttachMove(b)
  <2>1. attach'[b] = [NoAttach EXCEPT !.at = "headHub", !.proj = q]
    BY <1>1, <1>a DEF StartAttach
  <2>2. attach'[b].at = "headHub"
    BY <2>1 DEF NoAttach
  <2> QED BY <2>2 DEF AttachMove
<1>2. CASE AttachReadsHead(b)
  <2> DEFINE j == [a EXCEPT !.at = IF Resolves(p) THEN "bundle" ELSE "listHub"]
  <2>1. attach'[b] = j /\ a.at = "headHub"
    BY <1>2, <1>a DEF AttachReadsHead, AttachTo
  <2>2. j.proj = p /\ j.at = IF Resolves(p) THEN "bundle" ELSE "listHub"
    BY <1>a DEF Attachments
  <2> HIDE DEF j
  <2> QED BY <1>2, <2>1, <2>2 DEF AttachMove
<1>3. CASE AttachListsBranches(b)
  <2> DEFINE first == PreferredBranch(hub[p])
             j == [a EXCEPT !.at = IF first = Detached THEN "bundle" ELSE "pointHub",
                            !.branch = first]
  <2>1. attach'[b] = j /\ a.at = "listHub"
    BY <1>3, <1>a DEF AttachListsBranches, AttachTo
  <2>2. /\ j.proj = p /\ j.branch = first
        /\ j.at = IF first = Detached THEN "bundle" ELSE "pointHub"
    <3> HIDE DEF first
    <3> QED BY <1>a DEF Attachments
  <2> HIDE DEF j
  <2> QED BY <1>3, <2>1, <2>2 DEF AttachMove
<1>4. CASE AttachPointsHead(b)
  <2> DEFINE j == [a EXCEPT !.at = "bundle"]
  <2>1. attach'[b] = j /\ a.at = "pointHub"
    BY <1>4, <1>a DEF AttachPointsHead, AttachTo
  <2>2. j.proj = p /\ j.at = "bundle"
    BY <1>a DEF Attachments
  <2> HIDE DEF j
  <2> QED BY <1>4, <2>1, <2>2 DEF AttachMove
<1>5. CASE AttachBundles(b)
  <2> DEFINE j == [a EXCEPT !.at = "clone", !.branch = hubHead[p], !.refs = hub[p]]
  <2>1. attach'[b] = j
    BY <1>5, <1>a DEF AttachBundles, AttachTo
  <2>2. j.at = "clone"
    BY <1>a DEF Attachments
  <2> HIDE DEF j
  <2> QED BY <2>1, <2>2 DEF AttachMove
<1>6. CASE AttachClones(b) \/ AttachStops(b)
  <2>1. attach'[b] = NoAttach
    BY <1>6, <1>a DEF AttachClones, AttachStops, AttachTo
  <2> QED BY <2>1 DEF AttachMove, NoAttach
<1> QED BY <1>1, <1>2, <1>3, <1>4, <1>5, <1>6 DEF Attaching, Attach

\* Only a step of its own moves an attachment.
LEMMA AttachOwnStep ==
  ASSUME TypeOK, [Next]_vars, NEW b \in Boxes, attach'[b] # attach[b]
  PROVE  Attaching(b)
<1>a. attach \in [Boxes -> Attachments]
  BY DEF TypeOK, CheckoutsOK
<1>1. ASSUME NEW s \in Syncs, Progress(s) \/ Fail(s) \/ Crash(s) PROVE FALSE
  BY <1>1, AttachKept
<1>2. ASSUME NEW s \in Syncs, NEW d \in Boxes, NEW p \in Projects,
             Start(s, d, p) \/ AddLocal(d, p) \/ Agent(d, p)
      PROVE  FALSE
  BY <1>2 DEF Start, AddLocal, Agent, agentVars
<1>3. ASSUME NEW d \in Boxes, NEW p \in Projects, AddLocal(d, p) \/ Agent(d, p) PROVE FALSE
  BY <1>3 DEF AddLocal, Agent
<1>4. ASSUME NEW d \in Boxes, Attaching(d) PROVE d = b
  <2>1. \E j : attach' = [attach EXCEPT ![d] = j]
    BY <1>4 DEF Attaching, Attach, StartAttach, AttachReadsHead, AttachListsBranches,
       AttachPointsHead, AttachBundles, AttachClones, AttachStops, AttachTo
  <2> QED BY <1>a, <2>1
<1>5. CASE UNCHANGED vars
  BY <1>5 DEF vars, agentVars
<1> QED BY <1>1, <1>2, <1>3, <1>4, <1>5 DEF Next, Attaching

-----------------------------------------------------------------------------
(* Who may run at the same time. *)

\* No two running syncs are on one box; no two carry one project.
BoxesApart ==
  \A s, t \in Syncs : s # t /\ Running(s) /\ Running(t) => box[s] # box[t]
ProjectsApart ==
  \A s, t \in Syncs : s # t /\ Running(s) /\ Running(t) => proj[s] # proj[t]

\* A sync that runs after a step of some sync ran before it, for the same box
\* and the same project.
LEMMA JobsKept ==
  ASSUME TypeOK, NEW s \in Syncs, Progress(s) \/ Fail(s) \/ Crash(s),
         NEW t \in Syncs, Running(t)'
  PROVE  Running(t) /\ box'[t] = box[t] /\ proj'[t] = proj[t]
<1> USE DEF TypeOK, SyncsOK, Running, Goto, KeepJob, Forget
<1>1. CASE Fail(s) \/ Crash(s) \/ Cleanup(s)
  BY <1>1 DEF Fail, Crash, Cleanup
<1>2. CASE PrepareStaging(s) \/ CheckHistory(s) \/ BundleGuest(s) \/ CopyFromGuest(s)
  BY <1>2 DEF PrepareStaging, CheckHistory, BundleGuest, CopyFromGuest
<1>3. CASE FindHub(s) \/ MakeHub(s) \/ FetchIntoHub(s) \/ PlanOutbound(s)
           \/ ReadHubHead(s) \/ ListHubBranches(s) \/ PointHubHead(s)
  BY <1>3 DEF FindHub, MakeHub, FetchIntoHub, PlanOutbound, ReadHubHead, ListHubBranches,
     PointHubHead, AfterHead
<1>4. CASE BundleHub(s) \/ CopyToGuest(s) \/ FetchIntoGuest(s) \/ PlanInbound(s)
  BY <1>4 DEF BundleHub, CopyToGuest, FetchIntoGuest, PlanInbound
<1>5. CASE ReadBranch(s) \/ FinishInbound(s)
  BY <1>5 DEF ReadBranch, FinishInbound
<1>6. CASE \E r \in Refs : UpdateHubRef(s, r) \/ UpdateGuestRef(s, r) \/ FastForward(s, r)
  BY <1>6 DEF UpdateHubRef, UpdateGuestRef, FastForward
<1> QED BY <1>1, <1>2, <1>3, <1>4, <1>5, <1>6 DEF Progress

\* Start keeps them apart, and no other step starts a sync or moves one.
LEMMA ApartStep ==
  ASSUME TypeOK, [Next]_vars
  PROVE  /\ "box" \notin Overlap /\ BoxesApart => BoxesApart'
         /\ "project" \notin Overlap /\ ProjectsApart => ProjectsApart'
<1>1. ASSUME NEW s \in Syncs, NEW b \in Boxes, NEW p \in Projects, Start(s, b, p)
      PROVE  /\ "box" \notin Overlap /\ BoxesApart => BoxesApart'
             /\ "project" \notin Overlap /\ ProjectsApart => ProjectsApart'
  <2>1. /\ box' = [box EXCEPT ![s] = b] /\ proj' = [proj EXCEPT ![s] = p]
        /\ \A t \in Syncs \ {s} : Running(t)' <=> Running(t)
    BY <1>1 DEF Start, Goto, Running, TypeOK, SyncsOK
  <2>2. ~Running(s) /\ MayOverlap(b, p)
    BY <1>1 DEF Start, Goto, Running
  <2> QED BY <2>1, <2>2 DEF MayOverlap, BoxesApart, ProjectsApart, TypeOK, SyncsOK
<1>2. ASSUME NEW s \in Syncs, Progress(s) \/ Fail(s) \/ Crash(s)
      PROVE  (BoxesApart => BoxesApart') /\ (ProjectsApart => ProjectsApart')
  BY <1>2, JobsKept DEF BoxesApart, ProjectsApart
<1>3. ASSUME UNCHANGED <<pc, box, proj>>
      PROVE  (BoxesApart => BoxesApart') /\ (ProjectsApart => ProjectsApart')
  BY <1>3 DEF BoxesApart, ProjectsApart, Running
<1>4. ASSUME NEW b \in Boxes, CheckoutStep(b)
      PROVE  UNCHANGED <<pc, box, proj>>
  BY <1>4, CheckoutKeeps DEF syncVars
<1>5. CASE UNCHANGED vars
  BY <1>3, <1>5 DEF vars, syncVars
<1> QED BY <1>1, <1>2, <1>3, <1>4, <1>5 DEF Next, CheckoutStep, Attaching

-----------------------------------------------------------------------------
(* The host repository moves forward. *)

\* What a sync has still to write in the host repository contains what the
\* ref holds now, and not only what it held when the plan was made.
PlansForward ==
  \A s \in Syncs : pc[s] = "writeHub" =>
    \A r \in Refs : todo[s][r] # {} => hub[proj[s]][r] \subseteq todo[s][r]

\* Only UpdateHubRef writes a ref of a host repository.
LEMMA HubWriter ==
  ASSUME [Next]_vars, hub' # hub
  PROVE  \E s \in Syncs, r \in Refs : UpdateHubRef(s, r)
<1>1. ASSUME NEW s \in Syncs, Progress(s), ~\E r \in Refs : UpdateHubRef(s, r)
      PROVE  UNCHANGED hub
  BY <1>1 DEF Progress, PrepareStaging, CheckHistory, BundleGuest, CopyFromGuest, FindHub,
     MakeHub, FetchIntoHub, PlanOutbound, ReadHubHead, ListHubBranches, PointHubHead,
     AfterHead, BundleHub, CopyToGuest,
     FetchIntoGuest, PlanInbound, ReadBranch, UpdateGuestRef, FastForward,
     FinishInbound, Cleanup, hubVars
<1>2. ASSUME NEW s \in Syncs, NEW b \in Boxes, NEW p \in Projects, Start(s, b, p)
      PROVE  UNCHANGED hub
  BY <1>2 DEF Start, hubVars
<1>3. ASSUME NEW s \in Syncs, Fail(s) \/ Crash(s) PROVE UNCHANGED hub
  BY <1>3 DEF Fail, Crash, hubVars
<1>4. ASSUME NEW b \in Boxes, CheckoutStep(b)
      PROVE  UNCHANGED hub
  BY <1>4, CheckoutKeeps DEF syncVars
<1>5. CASE UNCHANGED vars
  BY <1>5 DEF vars, hubVars
<1> QED BY <1>1, <1>2, <1>3, <1>4, <1>5 DEF Next, CheckoutStep, Attaching

\* A sync that is writing after a step was writing before it with the same
\* plan, or has just planned, or has just written one ref.
LEMMA WritingStep ==
  ASSUME TypeOK, [Next]_vars, NEW s \in Syncs, pc'[s] = "writeHub"
  PROVE  \/ PlanOutbound(s)
         \/ \E r \in Refs : UpdateHubRef(s, r)
         \/ pc[s] = "writeHub" /\ todo'[s] = todo[s] /\ proj'[s] = proj[s]
<1> USE DEF TypeOK, SyncsOK, Goto
<1>1. ASSUME NEW t \in Syncs, Progress(t)
      PROVE  \/ PlanOutbound(s)
             \/ \E r \in Refs : UpdateHubRef(s, r)
             \/ pc[s] = "writeHub" /\ todo'[s] = todo[s] /\ proj'[s] = proj[s]
  <2>1. CASE PrepareStaging(t) \/ CheckHistory(t) \/ BundleGuest(t) \/ CopyFromGuest(t)
    BY <2>1 DEF PrepareStaging, CheckHistory, BundleGuest, CopyFromGuest, KeepJob
  <2>2. CASE FindHub(t) \/ MakeHub(t) \/ FetchIntoHub(t) \/ ReadHubHead(t)
             \/ ListHubBranches(t) \/ PointHubHead(t)
    BY <2>2 DEF FindHub, MakeHub, FetchIntoHub, ReadHubHead, ListHubBranches, PointHubHead,
       AfterHead, KeepJob
  <2>3. CASE BundleHub(t) \/ CopyToGuest(t) \/ FetchIntoGuest(t)
    BY <2>3 DEF BundleHub, CopyToGuest, FetchIntoGuest, KeepJob
  <2>4. CASE ReadBranch(t) \/ FinishInbound(t)
    BY <2>4 DEF ReadBranch, FinishInbound, KeepJob
  <2>5. CASE PlanOutbound(t)
    BY <2>5 DEF PlanOutbound, KeepJob
  <2>6. CASE PlanInbound(t)
    BY <2>6 DEF PlanInbound, KeepJob
  <2>7. CASE \E r \in Refs : UpdateHubRef(t, r)
    BY <2>7 DEF UpdateHubRef, KeepJob
  <2>8. CASE \E r \in Refs : UpdateGuestRef(t, r)
    BY <2>8 DEF UpdateGuestRef, KeepJob
  <2>9. CASE \E r \in Refs : FastForward(t, r)
    BY <2>9 DEF FastForward, KeepJob
  <2>10. CASE Cleanup(t)
    BY <2>10 DEF Cleanup, Forget
  <2> QED BY <1>1, <2>1, <2>2, <2>3, <2>4, <2>5, <2>6, <2>7, <2>8, <2>9, <2>10 DEF Progress
<1>2. ASSUME NEW t \in Syncs, NEW b \in Boxes, NEW p \in Projects, Start(t, b, p)
      PROVE  pc[s] = "writeHub" /\ todo'[s] = todo[s] /\ proj'[s] = proj[s]
  BY <1>2 DEF Start
<1>3. ASSUME NEW t \in Syncs, Fail(t) \/ Crash(t)
      PROVE  pc[s] = "writeHub" /\ todo'[s] = todo[s] /\ proj'[s] = proj[s]
  BY <1>3 DEF Fail, Crash, Forget, KeepJob
<1>4. ASSUME NEW b \in Boxes, CheckoutStep(b)
      PROVE  UNCHANGED syncVars
  BY <1>4, CheckoutKeeps DEF syncVars
<1>5. CASE UNCHANGED syncVars
  BY <1>5 DEF syncVars
<1>6. CASE UNCHANGED vars
  BY <1>5, <1>6 DEF vars
<1> QED BY <1>1, <1>2, <1>3, <1>4, <1>5, <1>6 DEF Next, CheckoutStep, Attaching

\* Where no two running syncs carry one project, PlansForward is inductive: no
\* one else writes the refs a plan was made against.
LEMMA PlansForwardStep ==
  ASSUME TypeOK, ProjectsApart, PlansForward, [Next]_vars
  PROVE  PlansForward'
<1> SUFFICES ASSUME NEW s \in Syncs, pc'[s] = "writeHub",
                    NEW r \in Refs, todo'[s][r] # {}
             PROVE  hub'[proj'[s]][r] \subseteq todo'[s][r]
  BY DEF PlansForward
<1>1. CASE PlanOutbound(s)
  <2>1. proj'[s] = proj[s] /\ hub' = hub
    BY <1>1 DEF PlanOutbound, KeepJob, hubVars
  <2>2. todo'[s] = RefPlans(hub[proj[s]], mirror[proj[s]][box[s]])
    BY <1>1 DEF PlanOutbound, TypeOK, SyncsOK
  <2> QED BY <2>1, <2>2 DEF RefPlans
<1>2. CASE \E q \in Refs : UpdateHubRef(s, q)
  <2>1. PICK q \in Refs : UpdateHubRef(s, q)
    BY <1>2
  <2>2. pc[s] = "writeHub" /\ proj'[s] = proj[s] /\ proj[s] \in Projects
    BY <2>1 DEF UpdateHubRef, Goto, KeepJob, TypeOK, SyncsOK, Running
  <2>3. todo'[s] = [todo[s] EXCEPT ![q] = {}]
    BY <2>1 DEF UpdateHubRef, TypeOK, SyncsOK
  <2>4. r # q /\ todo'[s][r] = todo[s][r]
    BY <2>3 DEF TypeOK, SyncsOK, RefMaps
  <2>5. hub'[proj[s]][r] = hub[proj[s]][r]
    BY <2>1, <2>2, <2>4 DEF UpdateHubRef, TypeOK, HubsOK, RefMaps
  <2> QED BY <2>2, <2>4, <2>5 DEF PlansForward
<1>3. CASE pc[s] = "writeHub" /\ todo'[s] = todo[s] /\ proj'[s] = proj[s]
  <2>1. hub[proj[s]][r] \subseteq todo[s][r]
    BY <1>3 DEF PlansForward
  <2>2. CASE hub' = hub
    BY <1>3, <2>1, <2>2
  <2>3. CASE hub' # hub
    <3>1. PICK t \in Syncs, q \in Refs : UpdateHubRef(t, q)
      BY <2>3, HubWriter
    <3>2. pc[t] = "writeHub" /\ proj[t] \in Projects /\ proj[s] \in Projects
      BY <1>3, <3>1 DEF UpdateHubRef, Goto, TypeOK, SyncsOK, Running
    <3>3. CASE t = s
      BY <1>2, <3>1, <3>3
    <3>4. CASE t # s
      <4>1. proj[t] # proj[s]
        BY <1>3, <3>2, <3>4 DEF ProjectsApart, Running
      <4>2. hub'[proj[s]] = hub[proj[s]]
        BY <3>1, <3>2, <4>1 DEF UpdateHubRef, TypeOK, HubsOK
      <4> QED BY <1>3, <2>1, <4>2
    <3> QED BY <3>3, <3>4
  <2> QED BY <2>2, <2>3
<1> QED BY <1>1, <1>2, <1>3, WritingStep

\* As long as no two syncs carry one project at once, no step of any sync, agent
\* or crash makes a ref of a host repository drop a commit it held.
THEOREM HubForward == "project" \notin Overlap /\ Spec => HubMovesForward
<1> DEFINE IInv == TypeOK /\ ProjectsApart /\ PlansForward
<1> SUFFICES ASSUME "project" \notin Overlap PROVE Spec => HubMovesForward
  OBVIOUS
<1>1. Init => IInv
  BY InitTypeOK DEF Init, ProjectsApart, PlansForward, Running
<1>2. IInv /\ [Next]_vars => IInv'
  BY TypeStep, ApartStep, PlansForwardStep
<1>3. IInv /\ [Next]_vars =>
        [\A p \in Projects, r \in Refs : hub[p][r] \subseteq hub'[p][r]]_vars
  <2> SUFFICES ASSUME IInv, [Next]_vars, NEW p \in Projects, NEW r \in Refs
               PROVE  hub[p][r] \subseteq hub'[p][r]
    OBVIOUS
  <2>1. CASE hub' = hub
    BY <2>1
  <2>2. CASE hub' # hub
    <3>1. PICK s \in Syncs, q \in Refs : UpdateHubRef(s, q)
      BY <2>2, HubWriter
    <3>2. pc[s] = "writeHub" /\ todo[s][q] # {} /\ proj[s] \in Projects
      BY <3>1 DEF UpdateHubRef, IsNext, Goto, TypeOK, SyncsOK, Running
    <3>3. hub[proj[s]][q] \subseteq todo[s][q]
      BY <3>2 DEF PlansForward
    <3> QED BY <3>1, <3>2, <3>3 DEF UpdateHubRef, TypeOK, HubsOK, RefMaps
  <2> QED BY <2>1, <2>2
<1> QED BY <1>1, <1>2, <1>3, PTL DEF Spec, HubMovesForward

-----------------------------------------------------------------------------
(* Each project keeps to itself. *)

OwnRefs(p) == [Refs -> SUBSET CommitsOf(p)]

\* What the repositories hold of a project, what a sync carries of it, and what
\* lies in the staging directory for the step about to read it.
OwnHubs ==
  \A p \in Projects :
    hub[p] \in OwnRefs(p) /\ \A b \in Boxes : mirror[p][b] \in OwnRefs(p)
OwnCheckouts ==
  \A p \in Projects, b \in Boxes :
    /\ guest[b][p] \in OwnRefs(p) /\ seen[b][p] \in OwnRefs(p)
    /\ tree[b][p] \in SUBSET CommitsOf(p)
OwnJobs ==
  \A s \in Syncs : Running(s) =>
    carried[s] \in OwnRefs(proj[s]) /\ todo[s] \in OwnRefs(proj[s])
OwnStaging ==
  \A s \in Syncs :
    /\ pc[s] = "copyOut" => staging[box[s]].fromGuest \in OwnRefs(proj[s])
    /\ pc[s] = "fetchGuest" => staging[box[s]].fromHub \in OwnRefs(proj[s])

OwnAttach ==
  \A b \in Boxes : attach[b].at = "clone" => attach[b].refs \in OwnRefs(attach[b].proj)

Own == OwnHubs /\ OwnCheckouts /\ OwnJobs /\ OwnStaging /\ OwnAttach

LEMMA OwnPlans ==
  ASSUME NEW p, NEW mine \in OwnRefs(p), NEW theirs \in OwnRefs(p)
  PROVE  RefPlans(mine, theirs) \in OwnRefs(p)
BY DEF RefPlans, OwnRefs

LEMMA OwnNoRefs == \A p : NoRefs \in OwnRefs(p)
BY DEF NoRefs, OwnRefs

LEMMA OwnHeadCommit ==
  ASSUME TypeOK, OwnCheckouts, NEW b \in Boxes, NEW p \in Projects
  PROVE  HeadCommit(b, p) \in SUBSET CommitsOf(p)
BY DEF TypeOK, CheckoutsOK, OwnCheckouts, OwnRefs, HeadCommit, Branches

LEMMA OwnMoveHead ==
  ASSUME TypeOK, OwnCheckouts, NEW b \in Boxes, NEW p \in Projects,
         NEW c \in SUBSET CommitsOf(p), MoveHead(b, p, c), UNCHANGED seen
  PROVE  OwnCheckouts'
<1>1. tree' = [tree EXCEPT ![b][p] = c]
  BY DEF MoveHead
<1>2. \A q \in Projects, d \in Boxes : guest'[d][q] \in OwnRefs(q)
  <2>1. CASE head[b][p] = Detached
    BY <2>1 DEF MoveHead, OwnCheckouts
  <2>2. CASE head[b][p] # Detached
    <3>1. guest' = [guest EXCEPT ![b][p][head[b][p]] = c]
      BY <2>2 DEF MoveHead
    <3> QED BY <3>1 DEF OwnCheckouts, OwnRefs, TypeOK, CheckoutsOK
  <2> QED BY <2>1, <2>2
<1> QED BY <1>1, <1>2 DEF OwnCheckouts, TypeOK, CheckoutsOK

\* A sync on another box does not touch the staging directory a sync reads.
LEMMA OwnStagingKept ==
  ASSUME TypeOK, BoxesApart, OwnStaging, NEW s \in Syncs, Running(s),
         \A b \in Boxes \ {box[s]} : staging'[b] = staging[b],
         \A t \in Syncs \ {s} : pc'[t] = pc[t] /\ box'[t] = box[t] /\ proj'[t] = proj[t],
         pc'[s] = "copyOut" => staging'[box'[s]].fromGuest \in OwnRefs(proj'[s]),
         pc'[s] = "fetchGuest" => staging'[box'[s]].fromHub \in OwnRefs(proj'[s])
  PROVE  OwnStaging'
<1> SUFFICES ASSUME NEW t \in Syncs \ {s}, pc[t] \in {"copyOut", "fetchGuest"}
             PROVE  staging'[box[t]] = staging[box[t]]
  BY DEF OwnStaging
<1>1. Running(t) /\ box[t] \in Boxes
  BY DEF Running, TypeOK, SyncsOK
<1>2. box[t] # box[s]
  BY <1>1 DEF BoxesApart
<1> QED BY <1>1, <1>2

LEMMA OwnProgress ==
  ASSUME TypeOK, BoxesApart, Own, NEW s \in Syncs, Progress(s)
  PROVE  Own'
<1> DEFINE b == box[s]
           p == proj[s]
<1>a. /\ Running(s) /\ b \in Boxes /\ p \in Projects
      /\ hub[p] \in OwnRefs(p) /\ mirror[p][b] \in OwnRefs(p)
      /\ guest[b][p] \in OwnRefs(p) /\ seen[b][p] \in OwnRefs(p)
      /\ carried[s] \in OwnRefs(p) /\ todo[s] \in OwnRefs(p)
  <2>1. Running(s)
    BY DEF Progress, PrepareStaging, CheckHistory, BundleGuest, CopyFromGuest, FindHub,
           MakeHub, FetchIntoHub, PlanOutbound, UpdateHubRef, ReadHubHead, ListHubBranches,
           PointHubHead, AfterHead, BundleHub,
           CopyToGuest, FetchIntoGuest, PlanInbound, ReadBranch, UpdateGuestRef,
           FastForward, FinishInbound, Cleanup, Goto, Running
  <2>2. b \in Boxes /\ p \in Projects
    BY <2>1 DEF TypeOK, SyncsOK
  <2> QED BY <2>1, <2>2 DEF Own, OwnHubs, OwnCheckouts, OwnJobs
<1> USE <1>a
<1>h. OwnHubs'
  <2>1. CASE UNCHANGED <<hub, mirror>>
    BY <2>1 DEF Own, OwnHubs
  <2>2. CASE FetchIntoHub(s)
    BY <2>2 DEF FetchIntoHub, Own, OwnHubs, TypeOK, HubsOK
  <2>3. ASSUME NEW r \in Refs, UpdateHubRef(s, r) PROVE OwnHubs'
    <3>1. todo[s][r] \in SUBSET CommitsOf(p)
      BY DEF OwnRefs
    <3>2. hub' = [hub EXCEPT ![p][r] = todo[s][r]] /\ UNCHANGED mirror
      BY <2>3 DEF UpdateHubRef
    <3> QED BY <3>1, <3>2 DEF Own, OwnHubs, OwnRefs, TypeOK, HubsOK
  <2> QED BY <2>1, <2>2, <2>3 DEF Progress, PrepareStaging, CheckHistory, BundleGuest,
       CopyFromGuest, FindHub, MakeHub, PlanOutbound, ReadHubHead, ListHubBranches,
       PointHubHead, AfterHead, BundleHub,
       CopyToGuest, FetchIntoGuest, PlanInbound, ReadBranch, UpdateGuestRef,
       FastForward, FinishInbound, Cleanup, hubVars
<1>j. OwnJobs'
  <2> SUFFICES ASSUME NEW t \in Syncs, Running(t)'
               PROVE  carried'[t] \in OwnRefs(proj'[t]) /\ todo'[t] \in OwnRefs(proj'[t])
    BY DEF OwnJobs
  <2>1. Running(t) /\ proj'[t] = proj[t]
    BY JobsKept
  <2>2. carried[t] \in OwnRefs(proj[t]) /\ todo[t] \in OwnRefs(proj[t])
    BY <2>1 DEF Own, OwnJobs
  <2>3. CASE UNCHANGED <<carried, todo>>
    BY <2>1, <2>2, <2>3
  <2>4. CASE CopyFromGuest(s)
    <3>1. staging[b].fromGuest \in OwnRefs(p)
      BY <2>4 DEF CopyFromGuest, Goto, Own, OwnStaging
    <3> QED BY <2>1, <2>2, <2>4, <3>1 DEF CopyFromGuest, TypeOK, SyncsOK
  <2>5. CASE PlanOutbound(s)
    <3>1. RefPlans(hub[p], mirror[p][b]) \in OwnRefs(p)
      BY OwnPlans
    <3> QED BY <2>1, <2>2, <2>5, <3>1 DEF PlanOutbound, TypeOK, SyncsOK
  <2>6. CASE PlanInbound(s)
    <3>1. RefPlans(guest[b][p], seen[b][p]) \in OwnRefs(p)
      BY OwnPlans
    <3> QED BY <2>1, <2>2, <2>6, <3>1 DEF PlanInbound, TypeOK, SyncsOK
  <2>7. ASSUME NEW r \in Refs, todo' = [todo EXCEPT ![s][r] = {}], UNCHANGED carried
        PROVE  carried'[t] \in OwnRefs(proj'[t]) /\ todo'[t] \in OwnRefs(proj'[t])
    BY <2>1, <2>2, <2>7 DEF OwnRefs, TypeOK, SyncsOK
  <2>8. CASE BundleHub(s)
    BY <2>1, <2>2, <2>8 DEF BundleHub, TypeOK, SyncsOK
  <2>9. CASE Cleanup(s)
    BY <2>1, <2>2, <2>9, OwnNoRefs DEF Cleanup, Forget, TypeOK, SyncsOK
  <2>10. ASSUME NEW r \in Refs, UpdateHubRef(s, r) \/ UpdateGuestRef(s, r) \/ FastForward(s, r)
         PROVE  todo' = [todo EXCEPT ![s][r] = {}] /\ UNCHANGED carried
    BY <2>10 DEF UpdateHubRef, UpdateGuestRef, FastForward
  <2> QED BY <2>3, <2>4, <2>5, <2>6, <2>7, <2>8, <2>9, <2>10 DEF Progress, PrepareStaging,
       CheckHistory, BundleGuest, FindHub, MakeHub, FetchIntoHub, ReadHubHead,
       ListHubBranches, PointHubHead, AfterHead,
       CopyToGuest, FetchIntoGuest, ReadBranch, FinishInbound
<1>c. OwnCheckouts'
  <2>1. CASE UNCHANGED <<guest, seen, tree>>
    BY <2>1 DEF Own, OwnCheckouts
  <2>2. CASE FetchIntoGuest(s)
    <3>1. staging[b].fromHub \in OwnRefs(p)
      BY <2>2 DEF FetchIntoGuest, Goto, Own, OwnStaging
    <3> QED BY <2>2, <3>1 DEF FetchIntoGuest, Own, OwnCheckouts, TypeOK, CheckoutsOK
  <2>3. ASSUME NEW r \in Refs, UpdateGuestRef(s, r) PROVE OwnCheckouts'
    <3>1. todo[s][r] \in SUBSET CommitsOf(p)
      BY DEF OwnRefs
    <3>2. guest' = [guest EXCEPT ![b][p][r] = todo[s][r]] /\ UNCHANGED <<seen, tree>>
      BY <2>3 DEF UpdateGuestRef
    <3> QED BY <3>1, <3>2 DEF Own, OwnCheckouts, OwnRefs, TypeOK, CheckoutsOK
  <2>4. ASSUME NEW r \in Refs, FastForward(s, r) PROVE OwnCheckouts'
    <3>1. seen[b][p][r] \in SUBSET CommitsOf(p)
      BY DEF OwnRefs
    <3>2. \/ MoveHead(b, p, seen[b][p][r]) /\ UNCHANGED seen
          \/ UNCHANGED <<guest, seen, tree>>
      BY <2>4 DEF FastForward
    <3> QED BY <2>1, <3>1, <3>2, OwnMoveHead DEF Own
  <2> QED BY <2>1, <2>2, <2>3, <2>4 DEF Progress, PrepareStaging, CheckHistory, BundleGuest,
       CopyFromGuest, FindHub, MakeHub, FetchIntoHub, PlanOutbound, UpdateHubRef,
       ReadHubHead, ListHubBranches, PointHubHead, AfterHead, BundleHub, CopyToGuest,
       PlanInbound, ReadBranch, FinishInbound,
       Cleanup, agentVars
<1>s. OwnStaging'
  <2> USE DEF Own, OwnStaging, Goto, KeepJob, TypeOK, SyncsOK, StagingOK
  <2>1. CASE BundleGuest(s)
    <3>1. /\ staging'[b].fromGuest = guest[b][p]
          /\ pc' = [pc EXCEPT ![s] = "copyOut"] /\ UNCHANGED <<box, proj>>
          /\ \A d \in Boxes \ {b} : staging'[d] = staging[d]
      BY <2>1 DEF BundleGuest, Stagings
    <3> QED BY <3>1, OwnStagingKept
  <2>2. CASE CopyToGuest(s)
    <3>1. /\ staging'[b].fromHub = carried[s]
          /\ pc' = [pc EXCEPT ![s] = "fetchGuest"] /\ UNCHANGED <<box, proj>>
          /\ \A d \in Boxes \ {b} : staging'[d] = staging[d]
      BY <2>2 DEF CopyToGuest, Stagings
    <3> QED BY <3>1, OwnStagingKept
  <2>3. ASSUME UNCHANGED <<staging, box, proj>>,
               NEW to \in Steps \ {"copyOut", "fetchGuest"}, pc' = [pc EXCEPT ![s] = to]
        PROVE  OwnStaging'
    BY <2>3
  <2>4. CASE PrepareStaging(s)
    <3>1. /\ pc' = [pc EXCEPT ![s] = "history"] /\ UNCHANGED <<box, proj>>
          /\ \A d \in Boxes \ {b} : staging'[d] = staging[d]
      BY <2>4 DEF PrepareStaging
    <3> QED BY <3>1, OwnStagingKept
  <2>5. CASE Cleanup(s)
    <3>1. /\ pc' = [pc EXCEPT ![s] = "idle"]
          /\ \A t \in Syncs \ {s} : box'[t] = box[t] /\ proj'[t] = proj[t]
          /\ \A d \in Boxes \ {b} : staging'[d] = staging[d]
      BY <2>5 DEF Cleanup, Forget
    <3> QED BY <3>1, OwnStagingKept
  <2>6. CASE CheckHistory(s) \/ CopyFromGuest(s) \/ FindHub(s) \/ MakeHub(s)
    BY <2>3, <2>6 DEF CheckHistory, CopyFromGuest, FindHub, MakeHub, Steps
  <2>7. CASE FetchIntoHub(s) \/ PlanOutbound(s) \/ ReadHubHead(s) \/ ListHubBranches(s)
             \/ PointHubHead(s)
    BY <2>3, <2>7 DEF FetchIntoHub, PlanOutbound, ReadHubHead, ListHubBranches, PointHubHead,
       AfterHead, Steps
  <2>8. CASE BundleHub(s) \/ FetchIntoGuest(s) \/ PlanInbound(s) \/ ReadBranch(s)
    BY <2>3, <2>8 DEF BundleHub, FetchIntoGuest, PlanInbound, ReadBranch, Steps
  <2>9. CASE \E r \in Refs : UpdateHubRef(s, r) \/ UpdateGuestRef(s, r) \/ FastForward(s, r)
    BY <2>3, <2>9 DEF UpdateHubRef, UpdateGuestRef, FastForward, Steps
  <2>10. CASE FinishInbound(s)
    BY <2>3, <2>10 DEF FinishInbound, Steps
  <2> QED BY <2>1, <2>2, <2>4, <2>5, <2>6, <2>7, <2>8, <2>9, <2>10 DEF Progress
<1>t. OwnAttach'
  BY <1>a, AttachKept DEF Own, OwnAttach
<1> QED BY <1>h, <1>j, <1>c, <1>s, <1>t DEF Own

\* The agents, and the commands that make a checkout, stay within a project.
LEMMA OwnCheckoutStep ==
  ASSUME TypeOK, Own, NEW b \in Boxes, NEW p \in Projects,
         AddLocal(b, p) \/ Agent(b, p)
  PROVE  Own'
<1>a. /\ hub[p] \in OwnRefs(p) /\ guest[b][p] \in OwnRefs(p) /\ seen[b][p] \in OwnRefs(p)
      /\ HeadCommit(b, p) \in SUBSET CommitsOf(p)
  BY OwnHeadCommit DEF Own, OwnHubs, OwnCheckouts
<1>1. UNCHANGED <<hub, mirror, staging, syncVars>>
  BY DEF AddLocal, Agent, hubVars
<1>2. OwnHubs' /\ OwnJobs' /\ OwnStaging'
  BY <1>1 DEF Own, OwnHubs, OwnJobs, OwnStaging, Running, syncVars
<1>4. OwnAttach'
  <2>1. UNCHANGED attach
    BY DEF AddLocal, Agent
  <2> QED BY <2>1 DEF Own, OwnAttach
<1>3. OwnCheckouts'
  <2>1. CASE AddLocal(b, p)
    BY <2>1 DEF AddLocal, Own, OwnCheckouts
  <2>3. CASE Agent(b, p)
    <3> DEFINE known == {guest[b][p][r] : r \in Refs} \cup {seen[b][p][r] : r \in Refs}
    <3>1. known \subseteq SUBSET CommitsOf(p) /\ UNCHANGED seen
      BY <1>a, <2>3 DEF OwnRefs, Agent
    <3>2. ASSUME NEW other \in known \cup {{}}, AgentCommit(b, p, other)
          PROVE  OwnCheckouts'
      <4>1. minted[p] + 1 \in 1 .. MaxCommits
        BY <3>2, BoundAssumption DEF AgentCommit, TypeOK, CheckoutsOK
      <4>2. HeadCommit(b, p) \cup other \cup Fresh(p) \in SUBSET CommitsOf(p)
        BY <1>a, <3>1, <4>1 DEF Fresh, CommitsOf
      <4> QED BY <3>1, <3>2, <4>2, OwnMoveHead DEF AgentCommit, Own
    <3>3. ASSUME NEW r \in Branches \cup {Detached}, AgentSwitch(b, p, r)
          PROVE  OwnCheckouts'
      <4>1. CASE r = Detached
        <5>1. tree' = [tree EXCEPT ![b][p] = HeadCommit(b, p)] /\ UNCHANGED guest
          BY <3>3, <4>1 DEF AgentSwitch
        <5> QED BY <1>a, <3>1, <5>1 DEF Own, OwnCheckouts, TypeOK, CheckoutsOK
      <4>2. CASE r # Detached /\ guest[b][p][r] = {}
        <5>1. /\ guest' = [guest EXCEPT ![b][p][r] = HeadCommit(b, p)]
              /\ tree' = [tree EXCEPT ![b][p] = HeadCommit(b, p)]
          BY <3>3, <4>2 DEF AgentSwitch
        <5> QED BY <1>a, <3>1, <5>1 DEF Own, OwnCheckouts, OwnRefs, TypeOK, CheckoutsOK
      <4>3. CASE r # Detached /\ guest[b][p][r] # {}
        <5>1. tree' = [tree EXCEPT ![b][p] = guest[b][p][r]] /\ UNCHANGED guest
          BY <3>3, <4>3 DEF AgentSwitch
        <5>2. guest[b][p][r] \in SUBSET CommitsOf(p)
          BY <1>a, <4>3 DEF OwnRefs, Branches
        <5> QED BY <3>1, <5>1, <5>2 DEF Own, OwnCheckouts, TypeOK, CheckoutsOK
      <4> QED BY <4>1, <4>2, <4>3
    <3>4. ASSUME NEW c \in known, AgentReset(b, p, c)
          PROVE  OwnCheckouts'
      BY <3>1, <3>4, OwnMoveHead DEF AgentReset, Own
    <3>5. ASSUME NEW r \in Refs, NEW c \in {{}, HeadCommit(b, p)}, AgentWriteRef(b, p, r, c)
          PROVE  OwnCheckouts'
      <4>1. guest' = [guest EXCEPT ![b][p][r] = c] /\ UNCHANGED tree
        BY <3>5 DEF AgentWriteRef
      <4>2. c \in SUBSET CommitsOf(p)
        BY <1>a
      <4> QED BY <3>1, <4>1, <4>2 DEF Own, OwnCheckouts, OwnRefs, TypeOK, CheckoutsOK
    <3> QED BY <2>3, <3>2, <3>3, <3>4, <3>5 DEF Agent
  <2> QED BY <2>1, <2>3
<1> QED BY <1>2, <1>3, <1>4 DEF Own

\* An attachment carries what its project's host repository holds.
LEMMA OwnAttachStep ==
  ASSUME TypeOK, Own, NEW b \in Boxes, Attaching(b)
  PROVE  Own'
<1> DEFINE a == attach[b]
           p == a.proj
<1>a. AttachOK(a) /\ attach \in [Boxes -> Attachments]
  BY DEF TypeOK, CheckoutsOK, AttachOK
<1>b. UNCHANGED <<seen, hub, mirror, staging, syncVars>>
  BY AttachKeeps
<1>c. OwnHubs' /\ OwnJobs' /\ OwnStaging'
  BY <1>b DEF Own, OwnHubs, OwnJobs, OwnStaging, Running, syncVars
<1>d. OwnCheckouts'
  <2>1. CASE UNCHANGED <<guest, present, head, tree>>
    BY <1>b, <2>1 DEF Own, OwnCheckouts
  <2>2. CASE AttachClones(b)
    <3> DEFINE refs == [r \in Refs |-> IF r \in Tags \cup {a.branch} THEN a.refs[r] ELSE {}]
    <3>1. /\ a.at = "clone" /\ guest' = [guest EXCEPT ![b][p] = refs]
          /\ tree' = [tree EXCEPT ![b][p] = a.refs[a.branch]]
      BY <2>2 DEF AttachClones, AttachTo
    <3>2. a.refs \in OwnRefs(p) /\ a.branch \in Refs /\ p \in Projects
      BY <1>a, <3>1 DEF Own, OwnAttach, AttachOK, Branches
    <3>3. refs \in OwnRefs(p) /\ a.refs[a.branch] \in SUBSET CommitsOf(p)
      BY <3>2 DEF OwnRefs
    <3> HIDE DEF refs
    <3> QED BY <1>b, <3>1, <3>2, <3>3 DEF Own, OwnCheckouts, TypeOK, CheckoutsOK
  <2> QED BY <2>1, <2>2, AttachKeeps
<1>e. ASSUME NEW j, attach' = [attach EXCEPT ![b] = j],
             j.at = "clone" => j.refs \in OwnRefs(j.proj)
      PROVE  OwnAttach'
  BY <1>a, <1>e DEF Own, OwnAttach
<1>1. \E j : attach' = [attach EXCEPT ![b] = j]
  BY DEF Attaching, Attach, StartAttach, AttachReadsHead, AttachListsBranches,
     AttachPointsHead, AttachBundles, AttachClones, AttachStops, AttachTo
<1>2. ASSUME attach'[b].at # "clone" PROVE OwnAttach'
  BY <1>a, <1>e, <1>1, <1>2
<1>3. ASSUME AttachBundles(b) PROVE OwnAttach'
  <2> DEFINE j == [a EXCEPT !.at = "clone", !.branch = hubHead[p], !.refs = hub[p]]
  <2>1. attach' = [attach EXCEPT ![b] = j] /\ a.at = "bundle"
    BY <1>3 DEF AttachBundles, AttachTo
  <2>2. p \in Projects /\ hub[p] \in OwnRefs(p)
    BY <1>a, <2>1 DEF AttachOK, Own, OwnHubs
  <2>3. j.refs = hub[p] /\ j.proj = p
    BY <1>a DEF Attachments
  <2> HIDE DEF j
  <2> QED BY <1>e, <2>1, <2>2, <2>3
<1>4. ASSUME attach'[b].at = "clone", ~AttachBundles(b) PROVE OwnAttach'
  <2>1. attach'[b] = NoAttach \/ (\E q \in Projects : StartAttach(b, q))
        \/ AttachReadsHead(b) \/ AttachListsBranches(b) \/ AttachPointsHead(b)
    BY <1>4, <1>a DEF Attaching, Attach, AttachClones, AttachStops, AttachTo
  <2>2. attach'[b].at # "clone"
    <3>1. CASE AttachReadsHead(b)
      BY <1>a, <3>1 DEF AttachReadsHead, AttachTo, AttachOK, Attachments
    <3>2. CASE AttachListsBranches(b)
      <4> DEFINE first == PreferredBranch(hub[p])
      <4>1. attach'[b] = [a EXCEPT !.at = IF first = Detached THEN "bundle" ELSE "pointHub",
                                   !.branch = first]
        BY <1>a, <3>2 DEF AttachListsBranches, AttachTo
      <4> HIDE DEF first
      <4> QED BY <1>a, <4>1 DEF AttachOK, Attachments
    <3>3. CASE AttachPointsHead(b)
      BY <1>a, <3>3 DEF AttachPointsHead, AttachTo, AttachOK, Attachments
    <3>4. CASE attach'[b] = NoAttach
      BY <3>4 DEF NoAttach
    <3>5. ASSUME NEW q \in Projects, StartAttach(b, q) PROVE attach'[b].at # "clone"
      BY <1>a, <3>5 DEF StartAttach, NoAttach
    <3> QED BY <2>1, <3>1, <3>2, <3>3, <3>4, <3>5
  <2> QED BY <1>4, <2>2
<1>f. OwnAttach'
  BY <1>2, <1>3, <1>4
<1> QED BY <1>c, <1>d, <1>f DEF Own

\* A sync that is not running carries nothing and has nothing to write.
NothingLeft ==
  \A s \in Syncs : ~Running(s) => carried[s] = NoRefs /\ todo[s] = NoRefs

LEMMA NothingLeftStep ==
  ASSUME TypeOK, NothingLeft, [Next]_vars
  PROVE  NothingLeft'
<1> SUFFICES ASSUME NEW s \in Syncs, ~Running(s)'
             PROVE  carried'[s] = NoRefs /\ todo'[s] = NoRefs
  BY DEF NothingLeft
<1> USE DEF TypeOK, SyncsOK, NothingLeft, Running
<1>1. ASSUME NEW t \in Syncs, Cleanup(t) \/ Crash(t)
      PROVE  carried'[s] = NoRefs /\ todo'[s] = NoRefs
  BY <1>1 DEF Cleanup, Crash, Forget
<1>2. ASSUME NEW t \in Syncs, NEW from \in Steps, NEW to \in Steps \ {"idle"},
             Goto(t, from, to),
             \A u \in Syncs \ {t} : carried'[u] = carried[u] /\ todo'[u] = todo[u]
      PROVE  carried'[s] = NoRefs /\ todo'[s] = NoRefs
  BY <1>2 DEF Goto
<1>3. ASSUME NEW t \in Syncs, Progress(t), ~Cleanup(t)
      PROVE  carried'[s] = NoRefs /\ todo'[s] = NoRefs
  <2>1. CASE PrepareStaging(t) \/ CheckHistory(t) \/ BundleGuest(t) \/ CopyFromGuest(t)
    BY <1>2, <2>1 DEF PrepareStaging, CheckHistory, BundleGuest, CopyFromGuest, Steps
  <2>2. CASE FindHub(t) \/ MakeHub(t) \/ FetchIntoHub(t) \/ PlanOutbound(t)
    BY <1>2, <2>2 DEF FindHub, MakeHub, FetchIntoHub, PlanOutbound, Steps
  <2>3. CASE ReadHubHead(t) \/ ListHubBranches(t) \/ PointHubHead(t) \/ BundleHub(t)
             \/ CopyToGuest(t) \/ FetchIntoGuest(t)
    BY <1>2, <2>3 DEF ReadHubHead, ListHubBranches, PointHubHead, AfterHead, BundleHub,
       CopyToGuest, FetchIntoGuest, Steps
  <2>4. CASE PlanInbound(t) \/ ReadBranch(t) \/ FinishInbound(t)
    BY <1>2, <2>4 DEF PlanInbound, ReadBranch, FinishInbound, Steps
  <2>5. CASE \E r \in Refs : UpdateHubRef(t, r) \/ UpdateGuestRef(t, r) \/ FastForward(t, r)
    BY <1>2, <2>5 DEF UpdateHubRef, UpdateGuestRef, FastForward, Steps
  <2> QED BY <1>3, <2>1, <2>2, <2>3, <2>4, <2>5 DEF Progress
<1>4. ASSUME NEW t \in Syncs, Fail(t)
      PROVE  carried'[s] = NoRefs /\ todo'[s] = NoRefs
  BY <1>4 DEF Fail
<1>5. ASSUME NEW t \in Syncs, NEW b \in Boxes, NEW p \in Projects, Start(t, b, p)
      PROVE  carried'[s] = NoRefs /\ todo'[s] = NoRefs
  BY <1>2, <1>5 DEF Start, Steps
<1>6. CASE UNCHANGED syncVars
  BY <1>6 DEF syncVars
<1>7. ASSUME NEW b \in Boxes, CheckoutStep(b)
      PROVE  UNCHANGED syncVars
  BY <1>7, CheckoutKeeps DEF syncVars
<1> QED BY <1>1, <1>3, <1>4, <1>5, <1>6, <1>7 DEF Next, vars, CheckoutStep, Attaching

LEMMA OwnStep ==
  ASSUME TypeOK, BoxesApart, NothingLeft, Own, [Next]_vars
  PROVE  Own'
<1> USE DEF TypeOK, SyncsOK, Own, OwnHubs, OwnCheckouts, OwnJobs, OwnStaging, OwnAttach, Running
<1>1. ASSUME NEW s \in Syncs, NEW b \in Boxes, NEW p \in Projects, Start(s, b, p)
      PROVE  Own'
  <2>1. /\ UNCHANGED <<agentVars, hubVars, staging, carried, todo>>
        /\ pc[s] = "idle" /\ pc' = [pc EXCEPT ![s] = "prepare"]
        /\ box' = [box EXCEPT ![s] = b] /\ proj' = [proj EXCEPT ![s] = p]
    BY <1>1 DEF Start, Goto
  <2>2. OwnHubs' /\ OwnCheckouts' /\ OwnStaging' /\ OwnAttach'
    BY <2>1 DEF agentVars, hubVars
  <2>3. OwnJobs'
    BY <2>1, OwnNoRefs DEF NothingLeft
  <2> QED BY <2>2, <2>3
<1>2. ASSUME NEW s \in Syncs, Fail(s) PROVE Own'
  BY <1>2 DEF Fail, KeepJob, agentVars, hubVars
<1>3. ASSUME NEW s \in Syncs, Crash(s) PROVE Own'
  BY <1>3 DEF Crash, Forget, agentVars, hubVars
<1>4. CASE UNCHANGED vars
  BY <1>4 DEF vars, agentVars, hubVars, syncVars
<1> QED
  <2> USE DEF Next, CheckoutStep, Attaching
  <2> HIDE DEF TypeOK, SyncsOK, Own, OwnHubs, OwnCheckouts, OwnJobs, OwnStaging, OwnAttach,
               Running
  <2> QED BY <1>1, <1>2, <1>3, <1>4, OwnProgress, OwnAttachStep, OwnCheckoutStep DEF Attaching

\* As long as no two syncs run on one box at once, no commit of a project ever
\* reaches the host repository or a checkout of another, although every sync of
\* a box uses the same staging directory and a crash leaves it as it is.
THEOREM ProjectsStayApart == "box" \notin Overlap /\ Spec => []EachProjectApart
<1> DEFINE IInv == TypeOK /\ BoxesApart /\ NothingLeft /\ Own
<1> SUFFICES ASSUME "box" \notin Overlap PROVE Spec => []EachProjectApart
  OBVIOUS
<1>1. Init => IInv
  <2> SUFFICES ASSUME Init PROVE IInv
    OBVIOUS
  <2>1. TypeOK
    BY InitTypeOK
  <2>2. BoxesApart /\ NothingLeft /\ OwnJobs /\ OwnStaging
    BY DEF Init, BoxesApart, NothingLeft, OwnJobs, OwnStaging, Running
  <2>3. OwnHubs /\ OwnCheckouts
    BY OwnNoRefs DEF Init, OwnHubs, OwnCheckouts
  <2>4. OwnAttach
    BY DEF Init, OwnAttach, NoAttach
  <2> QED BY <2>1, <2>2, <2>3, <2>4 DEF Own
<1>2. IInv /\ [Next]_vars => IInv'
  BY TypeStep, ApartStep, NothingLeftStep, OwnStep
<1>3. IInv => EachProjectApart
  BY DEF Own, OwnHubs, OwnCheckouts, OwnRefs, EachProjectApart
<1> QED BY <1>1, <1>2, <1>3, PTL DEF Spec

-----------------------------------------------------------------------------
(* The branch a host repository's HEAD names. *)

\* A ref of a host repository is never deleted.
LEMMA RefsStay ==
  ASSUME TypeOK, [Next]_vars, NEW p \in Projects, NEW r \in Refs, hub[p][r] # {}
  PROVE  hub'[p][r] # {}
<1>1. CASE hub' = hub
  BY <1>1
<1>2. CASE hub' # hub
  <2>1. PICK s \in Syncs, q \in Refs : UpdateHubRef(s, q)
    BY <1>2, HubWriter
  <2>2. hub' = [hub EXCEPT ![proj[s]][q] = todo[s][q]] /\ todo[s][q] # {}
    BY <2>1 DEF UpdateHubRef, IsNext
  <2> QED BY <2>2 DEF TypeOK, HubsOK, RefMaps
<1> QED BY <1>1, <1>2

\* The branch a sync or an attachment is about to point HEAD at is there.
SyncTarget(s)   == pc[s] = "pointHub" => hub[proj[s]][branch[s]] # {}
AttachTarget(b) == attach[b].at = "pointHub" => hub[attach[b].proj][attach[b].branch] # {}
Targets == (\A s \in Syncs : SyncTarget(s)) /\ (\A b \in Boxes : AttachTarget(b))

\* Only ListHubBranches brings a sync to the step that points HEAD, and no other
\* sync and no step of a checkout takes from it what it has chosen.
LEMMA PointingStep ==
  ASSUME TypeOK, [Next]_vars, NEW s \in Syncs, pc'[s] = "pointHub"
  PROVE  \/ ListHubBranches(s)
         \/ pc[s] = "pointHub" /\ proj'[s] = proj[s] /\ branch'[s] = branch[s]
<1> USE DEF TypeOK, SyncsOK, Goto
<1> DEFINE Goal == \/ ListHubBranches(s)
                   \/ pc[s] = "pointHub" /\ proj'[s] = proj[s] /\ branch'[s] = branch[s]
<1>1. ASSUME NEW t \in Syncs, Progress(t) PROVE Goal
  <2>1. CASE PrepareStaging(t) \/ CheckHistory(t) \/ BundleGuest(t) \/ CopyFromGuest(t)
    BY <2>1 DEF PrepareStaging, CheckHistory, BundleGuest, CopyFromGuest, KeepJob
  <2>2. CASE FindHub(t) \/ MakeHub(t) \/ FetchIntoHub(t) \/ PlanOutbound(t)
    BY <2>2 DEF FindHub, MakeHub, FetchIntoHub, PlanOutbound, KeepJob
  <2>3. CASE ReadHubHead(t) \/ PointHubHead(t)
    BY <2>3 DEF ReadHubHead, PointHubHead, AfterHead, KeepJob
  <2>4. CASE ListHubBranches(t)
    BY <2>4 DEF ListHubBranches, KeepJob
  <2>5. CASE BundleHub(t) \/ CopyToGuest(t) \/ FetchIntoGuest(t) \/ PlanInbound(t)
    BY <2>5 DEF BundleHub, CopyToGuest, FetchIntoGuest, PlanInbound, KeepJob
  <2>6. CASE ReadBranch(t) \/ FinishInbound(t)
    BY <2>6 DEF ReadBranch, FinishInbound, KeepJob
  <2>7. CASE \E r \in Refs : UpdateHubRef(t, r) \/ UpdateGuestRef(t, r) \/ FastForward(t, r)
    BY <2>7 DEF UpdateHubRef, UpdateGuestRef, FastForward, KeepJob
  <2>8. CASE Cleanup(t)
    BY <2>8 DEF Cleanup, Forget
  <2> QED BY <1>1, <2>1, <2>2, <2>3, <2>4, <2>5, <2>6, <2>7, <2>8 DEF Progress
<1>2. ASSUME NEW t \in Syncs, NEW b \in Boxes, NEW p \in Projects, Start(t, b, p) PROVE Goal
  BY <1>2 DEF Start
<1>3. ASSUME NEW t \in Syncs, Fail(t) \/ Crash(t) PROVE Goal
  BY <1>3 DEF Fail, Crash, Forget, KeepJob
<1>4. ASSUME NEW b \in Boxes, CheckoutStep(b) PROVE Goal
  BY <1>4, CheckoutKeeps DEF syncVars
<1>5. ASSUME UNCHANGED vars PROVE Goal
  BY <1>5 DEF vars, syncVars
<1> HIDE DEF Goal, TypeOK, SyncsOK, Goto
<1>6. Goal
  BY <1>1, <1>2, <1>3, <1>4, <1>5 DEF Next, CheckoutStep, Attaching
<1> QED BY <1>6 DEF Goal

LEMMA TargetsStep ==
  ASSUME TypeOK, [Next]_vars, Targets
  PROVE  Targets'
<1>1. ASSUME NEW s \in Syncs, pc'[s] = "pointHub"
      PROVE  hub'[proj'[s]][branch'[s]] # {}
  <2>1. CASE ListHubBranches(s)
    <3> DEFINE first == PreferredBranch(hub[proj[s]])
    <3>1. /\ pc[s] = "listHub" /\ branch'[s] = first /\ proj'[s] = proj[s] /\ hub' = hub
          /\ pc'[s] = IF first = Detached THEN AfterHead(s) ELSE "pointHub"
      BY <2>1 DEF ListHubBranches, Goto, KeepJob, hubVars, TypeOK, SyncsOK
    <3>2. first # Detached
      BY <1>1, <3>1 DEF AfterHead
    <3>3. hub[proj[s]] \in RefMaps
      BY <3>1 DEF TypeOK, SyncsOK, HubsOK, Running
    <3>4. hub[proj[s]][first] # {}
      BY <3>2, <3>3, PreferredIsThere
    <3> QED BY <3>1, <3>4
  <2>2. CASE pc[s] = "pointHub" /\ proj'[s] = proj[s] /\ branch'[s] = branch[s]
    <3>1. proj[s] \in Projects /\ branch[s] \in Refs /\ hub[proj[s]][branch[s]] # {}
      BY <2>2 DEF TypeOK, SyncsOK, Running, Branches, Targets, SyncTarget
    <3> QED BY <2>2, <3>1, RefsStay
  <2> QED BY <1>1, <2>1, <2>2, PointingStep
<1>2. ASSUME NEW b \in Boxes, attach'[b].at = "pointHub"
      PROVE  hub'[attach'[b].proj][attach'[b].branch] # {}
  <2>1. CASE attach'[b] = attach[b]
    <3>1. /\ attach[b].proj \in Projects /\ attach[b].branch \in Refs
          /\ hub[attach[b].proj][attach[b].branch] # {}
      BY <1>2, <2>1 DEF TypeOK, CheckoutsOK, Branches, Targets, AttachTarget
    <3> QED BY <2>1, <3>1, RefsStay
  <2>2. CASE attach'[b] # attach[b]
    <3> DEFINE a == attach[b]
               first == PreferredBranch(hub[a.proj])
    <3>1. Attaching(b)
      BY <2>2, AttachOwnStep
    <3>2. hub' = hub
      BY <3>1, AttachKeeps
    <3>3. /\ a.at \in {"headHub", "listHub", "pointHub"} /\ attach'[b].proj = a.proj
          /\ attach'[b].branch = first /\ first # Detached
      BY <1>2, <3>1, AttachMoves DEF AttachMove
    <3>4. hub[a.proj] \in RefMaps
      BY <3>3 DEF TypeOK, CheckoutsOK, HubsOK
    <3>5. hub[a.proj][first] # {}
      BY <3>3, <3>4, PreferredIsThere
    <3> QED BY <3>2, <3>3, <3>5
  <2> QED BY <2>1, <2>2
<1> QED BY <1>1, <1>2 DEF Targets, SyncTarget, AttachTarget

\* Only the last steps of ensureHubHead write HEAD.
LEMMA HubHeadWriter ==
  ASSUME [Next]_vars, hubHead' # hubHead
  PROVE  (\E s \in Syncs : PointHubHead(s)) \/ (\E b \in Boxes : AttachPointsHead(b))
<1>1. ASSUME NEW s \in Syncs, Progress(s), ~PointHubHead(s) PROVE UNCHANGED hubHead
  BY <1>1 DEF Progress, PrepareStaging, CheckHistory, BundleGuest, CopyFromGuest, FindHub,
     MakeHub, FetchIntoHub, PlanOutbound, UpdateHubRef, ReadHubHead, ListHubBranches,
     BundleHub, CopyToGuest, FetchIntoGuest, PlanInbound, ReadBranch, UpdateGuestRef,
     FastForward, FinishInbound, Cleanup, hubVars
<1>2. ASSUME NEW s \in Syncs, NEW b \in Boxes, NEW p \in Projects, Start(s, b, p)
      PROVE  UNCHANGED hubHead
  BY <1>2 DEF Start, hubVars
<1>3. ASSUME NEW s \in Syncs, Fail(s) \/ Crash(s) PROVE UNCHANGED hubHead
  BY <1>3 DEF Fail, Crash, hubVars
<1>4. ASSUME NEW b \in Boxes, Attaching(b) PROVE AttachPointsHead(b) \/ UNCHANGED hubHead
  BY <1>4, AttachKeeps
<1>5. ASSUME NEW b \in Boxes, NEW p \in Projects, AddLocal(b, p) \/ Agent(b, p)
      PROVE  UNCHANGED hubHead
  BY <1>5 DEF AddLocal, Agent, hubVars
<1>6. CASE UNCHANGED vars
  BY <1>6 DEF vars, hubVars
<1> QED BY <1>1, <1>2, <1>3, <1>4, <1>5, <1>6 DEF Next, Attaching

\* A sync leaves the steps that see to HEAD by one of them, or stops.
LEMMA HeadedStep ==
  ASSUME TypeOK, [Next]_vars, NEW s \in Syncs, pc[s] \in Heading,
         pc'[s] \in {"bundleHub", "finished"}
  PROVE  ReadHubHead(s) \/ ListHubBranches(s) \/ PointHubHead(s)
<1> USE DEF TypeOK, SyncsOK, Goto, Heading
<1> DEFINE Goal == ReadHubHead(s) \/ ListHubBranches(s) \/ PointHubHead(s)
<1>1. ASSUME NEW t \in Syncs, Progress(t) PROVE Goal
  <2>1. CASE PrepareStaging(t) \/ CheckHistory(t) \/ BundleGuest(t) \/ CopyFromGuest(t)
    BY <2>1 DEF PrepareStaging, CheckHistory, BundleGuest, CopyFromGuest
  <2>2. CASE FindHub(t) \/ MakeHub(t) \/ FetchIntoHub(t) \/ PlanOutbound(t)
    BY <2>2 DEF FindHub, MakeHub, FetchIntoHub, PlanOutbound
  <2>3. CASE ReadHubHead(t) \/ ListHubBranches(t) \/ PointHubHead(t)
    <3>1. t = s
      BY <2>3 DEF ReadHubHead, ListHubBranches, PointHubHead
    <3> QED BY <2>3, <3>1
  <2>5. CASE BundleHub(t) \/ CopyToGuest(t) \/ FetchIntoGuest(t) \/ PlanInbound(t)
    BY <2>5 DEF BundleHub, CopyToGuest, FetchIntoGuest, PlanInbound
  <2>6. CASE ReadBranch(t) \/ FinishInbound(t)
    BY <2>6 DEF ReadBranch, FinishInbound
  <2>7. CASE \E r \in Refs : UpdateHubRef(t, r) \/ UpdateGuestRef(t, r) \/ FastForward(t, r)
    BY <2>7 DEF UpdateHubRef, UpdateGuestRef, FastForward
  <2>8. CASE Cleanup(t)
    BY <2>8 DEF Cleanup, Forget
  <2> QED BY <1>1, <2>1, <2>2, <2>3, <2>5, <2>6, <2>7, <2>8 DEF Progress
<1>2. ASSUME NEW t \in Syncs, NEW b \in Boxes, NEW p \in Projects, Start(t, b, p) PROVE Goal
  BY <1>2 DEF Start
<1>3. ASSUME NEW t \in Syncs, Fail(t) \/ Crash(t) PROVE Goal
  BY <1>3 DEF Fail, Crash, Forget
<1>4. ASSUME NEW b \in Boxes, CheckoutStep(b) PROVE Goal
  BY <1>4, CheckoutKeeps DEF syncVars
<1>5. ASSUME UNCHANGED vars PROVE Goal
  BY <1>5 DEF vars, syncVars
<1> HIDE DEF Goal, TypeOK, SyncsOK, Goto, Heading
<1>6. Goal
  BY <1>1, <1>2, <1>3, <1>4, <1>5 DEF Next, CheckoutStep, Attaching
<1> QED BY <1>6 DEF Goal

\* A HEAD that resolves keeps resolving.
LEMMA ResolvesStep ==
  ASSUME TypeOK, [Next]_vars, Targets, NEW p \in Projects, Resolves(p)
  PROVE  Resolves(p)'
<1>a. hub[p][hubHead[p]] # {} /\ hubHead[p] \in Refs
  BY DEF Resolves, TypeOK, HubsOK, Branches
<1>1. CASE hubHead' = hubHead
  BY <1>1, <1>a, RefsStay DEF Resolves
<1>2. ASSUME NEW s \in Syncs, PointHubHead(s) PROVE Resolves(p)'
  <2>1. /\ pc[s] = "pointHub" /\ hubHead' = [hubHead EXCEPT ![proj[s]] = branch[s]]
        /\ hub' = hub
    BY <1>2 DEF PointHubHead, Goto
  <2>2. hub[proj[s]][branch[s]] # {}
    BY <2>1 DEF Targets, SyncTarget
  <2> QED BY <1>a, <2>1, <2>2 DEF Resolves, TypeOK, HubsOK
<1>3. ASSUME NEW b \in Boxes, AttachPointsHead(b) PROVE Resolves(p)'
  <2>1. /\ attach[b].at = "pointHub" /\ hub' = hub
        /\ hubHead' = [hubHead EXCEPT ![attach[b].proj] = attach[b].branch]
    BY <1>3 DEF AttachPointsHead, AttachTo
  <2>2. hub[attach[b].proj][attach[b].branch] # {}
    BY <2>1 DEF Targets, AttachTarget
  <2> QED BY <1>a, <2>1, <2>2 DEF Resolves, TypeOK, HubsOK
<1> QED BY <1>1, <1>2, <1>3, HubHeadWriter

\* Whatever syncs and attachments read HEAD of one host repository, list its
\* branches and point it at one at the same time, and wherever any of them fails
\* or is killed: a HEAD that resolves keeps resolving, and the command that saw
\* to it leaves one that resolves if there is a branch at all.
THEOREM HubHeadStaysResolved == Spec => HubHeadResolves
<1> DEFINE IInv == TypeOK /\ Targets
           Kept == \A p \in Projects : Resolves(p) => Resolves(p)'
           BySync == \A s \in Syncs :
             pc[s] \in Heading /\ pc'[s] \in {"bundleHub", "finished"} /\ HasBranch(proj[s])' =>
               Resolves(proj[s])'
           ByAttach == \A b \in Boxes :
             attach[b].at \in Heading /\ attach'[b].at = "bundle" /\ HasBranch(attach[b].proj)' =>
               Resolves(attach[b].proj)'
<1>1. Init => IInv
  <2>1. Init => Targets
    BY DEF Init, Targets, SyncTarget, AttachTarget, NoAttach
  <2> QED BY <2>1, InitTypeOK
<1>2. IInv /\ [Next]_vars => IInv'
  BY TypeStep, TargetsStep
<1>3. IInv /\ [Next]_vars => Kept
  BY ResolvesStep
<1>4. IInv /\ [Next]_vars => BySync
  <2> SUFFICES ASSUME IInv, [Next]_vars, NEW s \in Syncs, pc[s] \in Heading,
                      pc'[s] \in {"bundleHub", "finished"}, HasBranch(proj[s])'
               PROVE  Resolves(proj[s])'
    OBVIOUS
  <2> DEFINE p == proj[s]
  <2>a. p \in Projects /\ hub[p] \in RefMaps
    BY DEF TypeOK, SyncsOK, HubsOK, Running, Heading
  <2>b. proj' = proj /\ hub' = hub
    BY HeadedStep DEF ReadHubHead, ListHubBranches, PointHubHead, KeepJob, hubVars
  <2>1. CASE ReadHubHead(s)
    <3>1. hubHead' = hubHead /\ pc'[s] = IF Resolves(p) THEN AfterHead(s) ELSE "listHub"
      BY <2>1 DEF ReadHubHead, Goto, hubVars, TypeOK, SyncsOK
    <3>2. Resolves(p)
      BY <3>1
    <3> QED BY <2>b, <3>1, <3>2 DEF Resolves
  <2>2. CASE ListHubBranches(s)
    <3> DEFINE first == PreferredBranch(hub[p])
    <3>1. pc'[s] = IF first = Detached THEN AfterHead(s) ELSE "pointHub"
      BY <2>2 DEF ListHubBranches, Goto, TypeOK, SyncsOK
    <3>2. first = Detached
      BY <3>1
    <3>3. \A r \in Branches : hub[p][r] = {}
      BY <2>a, <3>2, PreferredIsThere
    <3> QED BY <2>b, <3>3 DEF HasBranch
  <2>3. CASE PointHubHead(s)
    <3>1. pc[s] = "pointHub" /\ hubHead'[p] = branch[s]
      BY <2>3, <2>a DEF PointHubHead, Goto, TypeOK, HubsOK
    <3>2. hub[p][branch[s]] # {}
      BY <3>1 DEF Targets, SyncTarget
    <3> QED BY <2>b, <3>1, <3>2 DEF Resolves
  <2> QED BY <2>1, <2>2, <2>3, HeadedStep
<1>5. IInv /\ [Next]_vars => ByAttach
  <2> SUFFICES ASSUME IInv, [Next]_vars, NEW b \in Boxes, attach[b].at \in Heading,
                      attach'[b].at = "bundle", HasBranch(attach[b].proj)'
               PROVE  Resolves(attach[b].proj)'
    OBVIOUS
  <2> DEFINE p == attach[b].proj
  <2>a. p \in Projects /\ hub[p] \in RefMaps
    BY DEF TypeOK, CheckoutsOK, HubsOK, Heading
  <2>b. Attaching(b)
    BY AttachOwnStep DEF Heading
  <2>c. attach'[b].proj = p /\ hub' = hub
    BY <2>b, AttachMoves, AttachKeeps DEF AttachMove
  <2>1. CASE AttachReadsHead(b) /\ Resolves(p)
    <3>1. hubHead' = hubHead
      BY <2>1 DEF AttachReadsHead
    <3> QED BY <2>1, <2>c, <3>1 DEF Resolves
  <2>2. CASE PreferredBranch(hub[p]) = Detached
    <3>1. \A r \in Branches : hub[p][r] = {}
      BY <2>a, <2>2, PreferredIsThere
    <3> QED BY <2>c, <3>1 DEF HasBranch
  <2>3. CASE AttachPointsHead(b) /\ attach[b].at = "pointHub"
    <3>1. hubHead'[p] = attach[b].branch
      BY <2>3, <2>a DEF AttachPointsHead, TypeOK, HubsOK
    <3>2. hub[p][attach[b].branch] # {}
      BY <2>3 DEF Targets, AttachTarget
    <3> QED BY <2>c, <3>1, <3>2 DEF Resolves
  <2> QED BY <2>b, <2>1, <2>2, <2>3, AttachMoves DEF AttachMove
<1>6. IInv /\ [Next]_vars => [Kept /\ BySync /\ ByAttach]_vars
  BY <1>3, <1>4, <1>5
<1> QED BY <1>1, <1>2, <1>6, PTL DEF Spec, HubHeadResolves

-----------------------------------------------------------------------------
(* What a step of somebody else leaves to a sync that runs. *)

\* No two running syncs work in one checkout: they differ in the box or in the
\* project.
CheckoutsApart ==
  \A s, t \in Syncs :
    s # t /\ Running(s) /\ Running(t) => box[s] # box[t] \/ proj[s] # proj[t]

LEMMA CheckoutsApartStep ==
  ASSUME TypeOK, [Next]_vars, CheckoutsApart, ~({"box", "project"} \subseteq Overlap)
  PROVE  CheckoutsApart'
<1>1. ASSUME NEW s \in Syncs, NEW b \in Boxes, NEW p \in Projects, Start(s, b, p)
      PROVE  CheckoutsApart'
  <2>1. /\ box' = [box EXCEPT ![s] = b] /\ proj' = [proj EXCEPT ![s] = p]
        /\ \A t \in Syncs \ {s} : Running(t)' <=> Running(t)
    BY <1>1 DEF Start, Goto, Running, TypeOK, SyncsOK
  <2>2. ~Running(s) /\ MayOverlap(b, p)
    BY <1>1 DEF Start, Goto, Running
  <2> QED BY <2>1, <2>2 DEF MayOverlap, CheckoutsApart, TypeOK, SyncsOK
<1>2. ASSUME NEW s \in Syncs, Progress(s) \/ Fail(s) \/ Crash(s)
      PROVE  CheckoutsApart'
  BY <1>2, JobsKept DEF CheckoutsApart
<1>3. ASSUME UNCHANGED <<pc, box, proj>> PROVE CheckoutsApart'
  BY <1>3 DEF CheckoutsApart, Running
<1>4. ASSUME NEW b \in Boxes, CheckoutStep(b)
      PROVE  UNCHANGED <<pc, box, proj>>
  BY <1>4, CheckoutKeeps DEF syncVars
<1>5. CASE UNCHANGED vars
  BY <1>3, <1>5 DEF vars, syncVars
<1> QED BY <1>1, <1>2, <1>3, <1>4, <1>5 DEF Next, CheckoutStep, Attaching

\* The checkout a sync works in is there, as long as it runs: no step of the
\* model, and none of the code, takes a checkout away.
SyncedIsPresent == \A s \in Syncs : Running(s) => proj[s] \in present[box[s]]

LEMMA PresentGrows ==
  ASSUME TypeOK, [Next]_vars, NEW b \in Boxes
  PROVE  present[b] \subseteq present'[b]
<1>1. ASSUME NEW d \in Boxes, NEW p \in Projects, AddLocal(d, p)
      PROVE  present[b] \subseteq present'[b]
  <2>1. present' = [present EXCEPT ![d] = @ \cup {p}]
    BY <1>1 DEF AddLocal
  <2>2. present \in [Boxes -> SUBSET Projects]
    BY DEF TypeOK, CheckoutsOK
  <2> QED BY <2>1, <2>2
<1>2. ASSUME NEW d \in Boxes, NEW p \in Projects, Agent(d, p) PROVE UNCHANGED present
  BY <1>2 DEF Agent
<1>3. ASSUME NEW s \in Syncs, Progress(s) PROVE UNCHANGED present
  BY <1>3 DEF Progress, PrepareStaging, CheckHistory, BundleGuest, CopyFromGuest, FindHub,
     MakeHub, FetchIntoHub, PlanOutbound, UpdateHubRef, ReadHubHead, ListHubBranches,
     PointHubHead, AfterHead, BundleHub,
     CopyToGuest, FetchIntoGuest, PlanInbound, ReadBranch, UpdateGuestRef, FastForward,
     FinishInbound, Cleanup, agentVars
<1>4. ASSUME NEW s \in Syncs, NEW d \in Boxes, NEW p \in Projects,
             Start(s, d, p) \/ Fail(s) \/ Crash(s)
      PROVE  UNCHANGED present
  BY <1>4 DEF Start, Fail, Crash, agentVars
<1>5. ASSUME NEW s \in Syncs, Fail(s) \/ Crash(s) PROVE UNCHANGED present
  BY <1>5 DEF Fail, Crash, agentVars
<1>6. CASE UNCHANGED vars
  BY <1>6 DEF vars, agentVars
<1>7. ASSUME NEW d \in Boxes, Attaching(d) PROVE present[b] \subseteq present'[b]
  <2>1. CASE UNCHANGED present
    BY <2>1
  <2>2. CASE AttachClones(d)
    <3>1. present' = [present EXCEPT ![d] = @ \cup {attach[d].proj}]
      BY <2>2 DEF AttachClones
    <3>2. present \in [Boxes -> SUBSET Projects]
      BY DEF TypeOK, CheckoutsOK
    <3> QED BY <3>1, <3>2
  <2> QED BY <1>7, <2>1, <2>2, AttachKeeps
<1> QED BY <1>1, <1>2, <1>3, <1>4, <1>5, <1>6, <1>7 DEF Next, CheckoutStep, Attaching

LEMMA SyncedIsPresentStep ==
  ASSUME TypeOK, [Next]_vars, SyncedIsPresent
  PROVE  SyncedIsPresent'
<1> SUFFICES ASSUME NEW s \in Syncs, Running(s)'
             PROVE  proj'[s] \in present'[box'[s]]
  BY DEF SyncedIsPresent
<1>1. ASSUME Running(s), box'[s] = box[s], proj'[s] = proj[s]
      PROVE  proj'[s] \in present'[box'[s]]
  BY <1>1, PresentGrows DEF SyncedIsPresent, TypeOK, SyncsOK
<1>2. ASSUME NEW t \in Syncs, NEW b \in Boxes, NEW p \in Projects, Start(t, b, p)
      PROVE  proj'[s] \in present'[box'[s]]
  <2>1. CASE t = s
    <3>1. box'[s] = b /\ proj'[s] = p /\ p \in present[b] /\ UNCHANGED present
      BY <1>2, <2>1 DEF Start, agentVars, TypeOK, SyncsOK
    <3> QED BY <3>1
  <2>2. CASE t # s
    <3>1. box'[s] = box[s] /\ proj'[s] = proj[s] /\ pc'[s] = pc[s]
      BY <1>2, <2>2 DEF Start, Goto, TypeOK, SyncsOK
    <3> QED BY <1>1, <3>1 DEF Running
  <2> QED BY <2>1, <2>2
<1>3. ASSUME NEW t \in Syncs, Progress(t) \/ Fail(t) \/ Crash(t)
      PROVE  proj'[s] \in present'[box'[s]]
  BY <1>1, <1>3, JobsKept
<1>4. ASSUME UNCHANGED syncVars PROVE proj'[s] \in present'[box'[s]]
  BY <1>1, <1>4 DEF syncVars, Running
<1>5. ASSUME NEW b \in Boxes, CheckoutStep(b)
      PROVE  UNCHANGED syncVars
  BY <1>5, CheckoutKeeps DEF syncVars
<1>6. CASE UNCHANGED vars
  BY <1>4, <1>6 DEF vars
<1> QED BY <1>2, <1>3, <1>4, <1>5, <1>6 DEF Next, CheckoutStep, Attaching

\* What a sync knows, as its own process.
SameJob(s) ==
  /\ pc'[s] = pc[s] /\ box'[s] = box[s] /\ proj'[s] = proj[s]
  /\ carried'[s] = carried[s] /\ todo'[s] = todo[s] /\ branch'[s] = branch[s]
  /\ created'[s] = created[s] /\ diverged'[s] = diverged[s] /\ heldBack'[s] = heldBack[s]

\* The checkout it was given, and the host's side of its project.
SameCheckout(b, p) ==
  /\ guest'[b][p] = guest[b][p] /\ seen'[b][p] = seen[b][p]
  /\ head'[b][p] = head[b][p] /\ tree'[b][p] = tree[b][p]
SameHub(p) ==
  hub'[p] = hub[p] /\ mirror'[p] = mirror[p] /\ (p \in hubMade' <=> p \in hubMade)

\* A step of one sync leaves the others their jobs, every other checkout, every
\* other project's repository and every other box's staging directory.
LEMMA SyncTouches ==
  ASSUME TypeOK, NEW t \in Syncs, Progress(t)
  PROVE  /\ \A s \in Syncs \ {t} : SameJob(s)
         /\ UNCHANGED head
         /\ \A b \in Boxes, p \in Projects :
              b # box[t] \/ p # proj[t] => SameCheckout(b, p)
         /\ \A p \in Projects \ {proj[t]} : SameHub(p)
         /\ \A b \in Boxes \ {box[t]} : staging'[b] = staging[b]
<1> USE DEF TypeOK, CheckoutsOK, HubsOK, StagingOK, SyncsOK, SameJob, SameCheckout, SameHub,
            Goto, KeepJob, KeepReport, agentVars, hubVars
<1>1. CASE PrepareStaging(t) \/ CheckHistory(t) \/ BundleGuest(t) \/ CopyFromGuest(t)
  BY <1>1 DEF PrepareStaging, CheckHistory, BundleGuest, CopyFromGuest
<1>2. CASE FindHub(t) \/ MakeHub(t) \/ FetchIntoHub(t) \/ PlanOutbound(t)
  BY <1>2 DEF FindHub, MakeHub, FetchIntoHub, PlanOutbound
<1>3. CASE (\E r \in Refs : UpdateHubRef(t, r)) \/ ReadHubHead(t) \/ ListHubBranches(t)
           \/ PointHubHead(t) \/ BundleHub(t)
  BY <1>3 DEF UpdateHubRef, ReadHubHead, ListHubBranches, PointHubHead, AfterHead, BundleHub
<1>4. CASE CopyToGuest(t) \/ FetchIntoGuest(t) \/ PlanInbound(t) \/ ReadBranch(t)
  BY <1>4 DEF CopyToGuest, FetchIntoGuest, PlanInbound, ReadBranch
<1>5. CASE (\E r \in Refs : UpdateGuestRef(t, r)) \/ FinishInbound(t)
  BY <1>5 DEF UpdateGuestRef, FinishInbound
<1>6. CASE Cleanup(t)
  BY <1>6 DEF Cleanup, Forget
<1>7. CASE \E r \in Refs : FastForward(t, r)
  <2>1. PICK r \in Refs : FastForward(t, r)
    BY <1>7
  <2>2. MoveHead(box[t], proj[t], seen[box[t]][proj[t]][r]) \/ UNCHANGED <<guest, tree>>
    BY <2>1 DEF FastForward
  <2>3. \A b \in Boxes, p \in Projects :
          b # box[t] \/ p # proj[t] =>
            guest'[b][p] = guest[b][p] /\ tree'[b][p] = tree[b][p]
    BY <2>2 DEF MoveHead
  <2>4. \A s \in Syncs \ {t} : heldBack'[s] = heldBack[s]
    BY <2>1 DEF FastForward
  <2> QED BY <2>1, <2>3, <2>4 DEF FastForward
<1> QED BY <1>1, <1>2, <1>3, <1>4, <1>5, <1>6, <1>7 DEF Progress

\* While agents leave a checkout that is being synced alone, nothing but the
\* syncs that work in it touches it; and no agent touches the host's side.
LEMMA CheckoutTouches ==
  ASSUME TypeOK, Quiet, SyncedIsPresent, NEW b \in Boxes, CheckoutStep(b),
         NEW s \in Syncs, Running(s)
  PROVE  /\ SameJob(s) /\ SameCheckout(box[s], proj[s]) /\ SameHub(proj[s])
         /\ UNCHANGED staging
<1>1. box[s] \in Boxes /\ proj[s] \in Projects /\ proj[s] \in present[box[s]]
  BY DEF TypeOK, SyncsOK, SyncedIsPresent
<1>2. UNCHANGED <<syncVars, seen, staging, hub, mirror, hubMade>>
  BY CheckoutKeeps
<1>3. SameJob(s) /\ SameHub(proj[s])
  BY <1>2 DEF syncVars, SameJob, SameHub
<1> DEFINE Kept == /\ guest'[box[s]][proj[s]] = guest[box[s]][proj[s]]
                   /\ head'[box[s]][proj[s]] = head[box[s]][proj[s]]
                   /\ tree'[box[s]][proj[s]] = tree[box[s]][proj[s]]
<1>4. ASSUME NEW p \in Projects, AddLocal(b, p) PROVE Kept
  BY <1>4 DEF AddLocal
<1>5. ASSUME Attaching(b) PROVE Kept
  <2> DEFINE a == attach[b]
             p == a.proj
             refs == [r \in Refs |-> IF r \in Tags \cup {a.branch} THEN a.refs[r] ELSE {}]
  <2>1. CASE AttachClones(b)
    <3>1. /\ p \notin present[b]
          /\ guest' = [guest EXCEPT ![b][p] = refs]
          /\ head' = [head EXCEPT ![b][p] = a.branch]
          /\ tree' = [tree EXCEPT ![b][p] = a.refs[a.branch]]
      BY <2>1 DEF AttachClones
    <3> HIDE DEF refs
    <3>2. box[s] # b \/ proj[s] # p
      BY <1>1, <3>1
    <3> QED BY <1>1, <3>1, <3>2 DEF TypeOK, CheckoutsOK
  <2>2. CASE UNCHANGED <<guest, present, head, tree>>
    BY <2>2
  <2> HIDE DEF Kept
  <2> QED BY <1>5, <2>1, <2>2, AttachKeeps
<1>6. ASSUME NEW p \in Projects, Agent(b, p) PROVE Kept
  <2>1. box[s] # b \/ proj[s] # p
    BY <1>6 DEF Agent, AgentMay
  <2> USE DEF TypeOK, CheckoutsOK
  <2>2. ASSUME NEW c, MoveHead(b, p, c), UNCHANGED head PROVE Kept
    BY <1>1, <2>1, <2>2 DEF MoveHead
  <2>3. ASSUME NEW c, AgentCommit(b, p, c) \/ AgentReset(b, p, c) PROVE Kept
    BY <2>2, <2>3 DEF AgentCommit, AgentReset
  <2>4. ASSUME NEW r, AgentSwitch(b, p, r) PROVE Kept
    BY <1>1, <2>1, <2>4 DEF AgentSwitch
  <2>5. ASSUME NEW r, NEW c, AgentWriteRef(b, p, r, c) PROVE Kept
    BY <1>1, <2>1, <2>5 DEF AgentWriteRef
  <2> QED BY <1>6, <2>3, <2>4, <2>5 DEF Agent
<1>7. Kept
  <2> HIDE DEF Kept
  <2> QED BY <1>4, <1>5, <1>6 DEF CheckoutStep
<1> QED BY <1>2, <1>3, <1>7 DEF SameCheckout
-----------------------------------------------------------------------------
(* The worktree, the refs of a checkout and the report. *)

\* Between the reading of the checked-out branch and the last ref that is
\* written, HEAD stays where it was read.
BranchRead ==
  \A s \in Syncs : pc[s] = "writeGuest" => branch[s] = head[box[s]][proj[s]]

\* Every checkout, and every place for one, has its tree at its branch.
TreeAtBranch ==
  \A b \in Boxes, p \in Projects :
    head[b][p] # Detached => tree[b][p] = guest[b][p][head[b][p]]

\* What a sync has still to write in the checkout contains what the ref holds
\* now.
GuestPlansForward ==
  \A s \in Syncs : pc[s] \in {"readBranch", "writeGuest"} =>
    \A r \in Refs : todo[s][r] # {} => guest[box[s]][proj[s]][r] \subseteq todo[s][r]

Here(s)  == guest[box[s]][proj[s]]
There(s) == hub[proj[s]]
Behind(x, y) == x # y /\ x \subseteq y

\* A host repository that is not initialized has no ref.
UnmadeIsEmpty == \A p \in Projects \ hubMade : hub[p] = NoRefs

Outbound == {"prepare", "history", "bundle", "copyOut", "findHub", "makeHub", "fetchHub",
             "planHub"}
Inbound  == {"listHub", "pointHub", "bundleHub", "copyIn", "fetchGuest", "planGuest"}

\* Step by step, what a sync has in hand is one of the two sides as it is now,
\* and what it has named so far is what is to be named of the two.
NothingNamed(s) ==
  /\ pc[s] \in Outbound \cup {"idle"} => diverged[s] = {}
  /\ pc[s] \in Outbound \cup Inbound \cup {"idle", "writeHub", "readBranch"} =>
       heldBack[s] = {}

HasTheGuests(s) ==
  /\ pc[s] = "copyOut" => staging[box[s]].fromGuest = Here(s)
  /\ pc[s] \in {"findHub", "makeHub", "fetchHub"} => carried[s] = Here(s)
  /\ pc[s] = "planHub" => mirror[proj[s]][box[s]] = Here(s)

HasTheHubs(s) ==
  /\ pc[s] = "copyIn" => carried[s] = There(s)
  /\ pc[s] = "fetchGuest" => staging[box[s]].fromHub = There(s)
  /\ pc[s] \in {"planGuest", "readBranch", "writeGuest"} =>
       seen[box[s]][proj[s]] = There(s)

MadeTheHub(s) ==
  /\ pc[s] \in {"fetchHub", "planHub", "writeHub"} => proj[s] \in hubMade
  /\ pc[s] \in {"makeHub", "fetchHub", "planHub"} /\ created[s] => There(s) = NoRefs

\* On the way out the host's side is behind in nothing but what is still to be
\* written, and on the way in it is behind in nothing.
HubCatchesUp(s) ==
  /\ pc[s] = "writeHub" =>
       \A r \in Refs :
         /\ todo[s][r] # {} => todo[s][r] = Here(s)[r] /\ There(s)[r] \subseteq Here(s)[r]
         /\ todo[s][r] = {} => ~Behind(There(s)[r], Here(s)[r])
  /\ pc[s] \in {"writeHub", "listHub", "pointHub"} /\ created[s] =>
       \A r \in Refs : There(s)[r] \subseteq Here(s)[r]
  /\ pc[s] \in Inbound =>
       \A r \in Refs : ~Behind(There(s)[r], Here(s)[r])
  /\ pc[s] \in Inbound \cup {"writeHub"} =>
       diverged[s] = Divergences(Here(s), There(s))

GuestCatchesUp(s) ==
  pc[s] \in {"readBranch", "writeGuest"} =>
    /\ diverged[s] = Divergences(Here(s), There(s))
    /\ \A r \in Refs :
         /\ todo[s][r] # {} => /\ todo[s][r] = There(s)[r] /\ r \notin heldBack[s]
                               /\ Behind(Here(s)[r], There(s)[r])
         /\ todo[s][r] = {} => \/ Here(s)[r] = There(s)[r]
                               \/ r \in diverged[s] \cup heldBack[s]
         /\ r \in heldBack[s] => Behind(Here(s)[r], There(s)[r])

ToldTheTruth(s) ==
  pc[s] = "finished" =>
    /\ diverged[s] = Divergences(Here(s), There(s))
    /\ \A r \in Refs :
         /\ r \in heldBack[s] <=> Behind(Here(s)[r], There(s)[r])
         /\ ~Behind(There(s)[r], Here(s)[r])

OnTrack(s) ==
  /\ NothingNamed(s) /\ HasTheGuests(s) /\ HasTheHubs(s) /\ MadeTheHub(s)
  /\ HubCatchesUp(s) /\ GuestCatchesUp(s) /\ ToldTheTruth(s)

\* Only Start makes a sync run.
LEMMA Beginning ==
  ASSUME TypeOK, [Next]_vars, NEW s \in Syncs, ~Running(s), Running(s)'
  PROVE  \E b \in Boxes, p \in Projects : Start(s, b, p)
<1>1. ASSUME NEW t \in Syncs, NEW b \in Boxes, NEW p \in Projects, Start(t, b, p)
      PROVE  t = s
  BY <1>1 DEF Start, Goto, Running, TypeOK, SyncsOK
<1>2. ASSUME NEW t \in Syncs, Progress(t) \/ Fail(t) \/ Crash(t) PROVE FALSE
  BY <1>2, JobsKept
<1>3. ASSUME UNCHANGED pc PROVE FALSE
  BY <1>3 DEF Running
<1>4. ASSUME NEW b \in Boxes, CheckoutStep(b)
      PROVE  UNCHANGED pc
  BY <1>4, CheckoutKeeps DEF syncVars
<1>5. ASSUME UNCHANGED vars PROVE UNCHANGED pc
  BY <1>5 DEF vars, syncVars
<1> QED BY <1>1, <1>2, <1>3, <1>4, <1>5 DEF Next, CheckoutStep, Attaching

\* To a running sync, a step is its own, or its end, or one that leaves it what
\* nobody shares with it.
Undisturbed(s) ==
  /\ SameJob(s) /\ head'[box[s]][proj[s]] = head[box[s]][proj[s]]
  /\ CheckoutsApart => SameCheckout(box[s], proj[s])
  /\ ProjectsApart => SameHub(proj[s])
  /\ BoxesApart => staging'[box[s]] = staging[box[s]]

LEMMA OthersTouch ==
  ASSUME TypeOK, Quiet, SyncedIsPresent, [Next]_vars, NEW s \in Syncs, Running(s)
  PROVE  Progress(s) \/ Fail(s) \/ Crash(s) \/ Undisturbed(s)
<1>a. box[s] \in Boxes /\ proj[s] \in Projects
  BY DEF TypeOK, SyncsOK
<1> USE DEF Undisturbed, SameJob, SameCheckout, SameHub
<1>1. ASSUME UNCHANGED <<agentVars, hubVars, staging>>, SameJob(s) PROVE Undisturbed(s)
  BY <1>1 DEF agentVars, hubVars
<1>2. ASSUME NEW t \in Syncs, NEW b \in Boxes, NEW p \in Projects, Start(t, b, p)
      PROVE  Undisturbed(s)
  <2>1. t # s
    BY <1>2 DEF Start, Goto, Running
  <2> QED BY <1>1, <1>2, <2>1 DEF Start, Goto, KeepReport
<1>3. ASSUME NEW t \in Syncs \ {s}, Fail(t) PROVE Undisturbed(s)
  BY <1>1, <1>3 DEF Fail, KeepJob, KeepReport
<1>4. ASSUME NEW t \in Syncs \ {s}, Crash(t) PROVE Undisturbed(s)
  BY <1>1, <1>4 DEF Crash, Forget, TypeOK, SyncsOK
<1>5. ASSUME NEW t \in Syncs \ {s}, Progress(t) PROVE Undisturbed(s)
  <2>1. Running(t)
    BY <1>5 DEF Progress, PrepareStaging, CheckHistory, BundleGuest, CopyFromGuest,
           FindHub, MakeHub, FetchIntoHub, PlanOutbound, UpdateHubRef, ReadHubHead,
           ListHubBranches, PointHubHead, AfterHead,
           BundleHub, CopyToGuest, FetchIntoGuest, PlanInbound, ReadBranch,
           UpdateGuestRef, FastForward, FinishInbound, Cleanup, Goto, Running
  <2>2. SameJob(s) /\ UNCHANGED head
    BY <1>5, SyncTouches
  <2>3. CheckoutsApart => SameCheckout(box[s], proj[s])
    <3> SUFFICES ASSUME CheckoutsApart PROVE SameCheckout(box[s], proj[s])
      OBVIOUS
    <3>1. box[s] # box[t] \/ proj[s] # proj[t]
      BY <2>1 DEF CheckoutsApart
    <3> HIDE DEF SameCheckout
    <3> QED BY <1>a, <1>5, <3>1, SyncTouches
  <2>4. ProjectsApart => SameHub(proj[s])
    <3> SUFFICES ASSUME ProjectsApart PROVE SameHub(proj[s])
      OBVIOUS
    <3>1. proj[s] # proj[t]
      BY <2>1 DEF ProjectsApart
    <3> HIDE DEF SameHub
    <3> QED BY <1>a, <1>5, <3>1, SyncTouches
  <2>5. BoxesApart => staging'[box[s]] = staging[box[s]]
    <3> SUFFICES ASSUME BoxesApart PROVE staging'[box[s]] = staging[box[s]]
      OBVIOUS
    <3>1. box[s] # box[t]
      BY <2>1 DEF BoxesApart
    <3> QED BY <1>a, <1>5, <3>1, SyncTouches
  <2> QED BY <2>2, <2>3, <2>4, <2>5
<1>6. ASSUME NEW b \in Boxes, CheckoutStep(b) PROVE Undisturbed(s)
  BY <1>6, CheckoutTouches
<1>7. CASE UNCHANGED vars
  BY <1>1, <1>7 DEF vars, syncVars
<1> HIDE DEF Undisturbed, SameJob, SameCheckout, SameHub
<1> QED BY <1>2, <1>3, <1>4, <1>5, <1>6, <1>7 DEF Next, CheckoutStep, Attaching

LEMMA BranchReadStep ==
  ASSUME TypeOK, Quiet, SyncedIsPresent, [Next]_vars, BranchRead
  PROVE  BranchRead'
<1> SUFFICES ASSUME NEW s \in Syncs, pc'[s] = "writeGuest"
             PROVE  branch'[s] = head'[box'[s]][proj'[s]]
  BY DEF BranchRead
<1> USE DEF TypeOK, SyncsOK
<1>1. CASE Running(s) /\ Undisturbed(s)
  BY <1>1 DEF Undisturbed, SameJob, BranchRead
<1>2. CASE Progress(s)
  <2>1. CASE ReadBranch(s)
    BY <2>1 DEF ReadBranch, KeepJob, agentVars
  <2>2. ASSUME pc[s] = "writeGuest", UNCHANGED <<head, branch>>, KeepJob
        PROVE  branch'[s] = head'[box'[s]][proj'[s]]
    BY <2>2 DEF KeepJob, BranchRead
  <2>3. CASE \E r \in Refs : UpdateGuestRef(s, r)
    BY <2>2, <2>3 DEF UpdateGuestRef, Goto
  <2>4. CASE \E r \in Refs : FastForward(s, r)
    BY <2>2, <2>4 DEF FastForward, Goto
  <2>5. CASE PrepareStaging(s) \/ CheckHistory(s) \/ BundleGuest(s) \/ CopyFromGuest(s)
             \/ FindHub(s) \/ MakeHub(s) \/ FetchIntoHub(s) \/ PlanOutbound(s)
    BY <2>5 DEF PrepareStaging, CheckHistory, BundleGuest, CopyFromGuest, FindHub,
       MakeHub, FetchIntoHub, PlanOutbound, Goto
  <2>6. CASE (\E r \in Refs : UpdateHubRef(s, r)) \/ ReadHubHead(s) \/ ListHubBranches(s)
             \/ PointHubHead(s) \/ BundleHub(s)
             \/ CopyToGuest(s) \/ FetchIntoGuest(s) \/ PlanInbound(s)
             \/ FinishInbound(s) \/ Cleanup(s)
    BY <2>6 DEF UpdateHubRef, ReadHubHead, ListHubBranches, PointHubHead, AfterHead,
       BundleHub, CopyToGuest, FetchIntoGuest,
       PlanInbound, FinishInbound, Cleanup, Forget, Goto
  <2> QED BY <1>2, <2>1, <2>3, <2>4, <2>5, <2>6 DEF Progress
<1>3. CASE Fail(s) \/ Crash(s)
  BY <1>3 DEF Fail, Crash, Forget
<1>4. CASE ~Running(s)
  <2>1. \E b \in Boxes, p \in Projects : Start(s, b, p)
    BY <1>4, Beginning DEF Running
  <2> QED BY <2>1 DEF Start, Goto
<1> HIDE DEF TypeOK, SyncsOK
<1> QED BY <1>1, <1>2, <1>3, <1>4, OthersTouch

\* Moving HEAD moves the tree and the branch together.
LEMMA MoveHeadTree ==
  ASSUME TypeOK, TreeAtBranch, NEW b \in Boxes, NEW p \in Projects, NEW c,
         MoveHead(b, p, c), UNCHANGED head
  PROVE  TreeAtBranch'
<1> SUFFICES ASSUME NEW d \in Boxes, NEW q \in Projects, head[d][q] # Detached
             PROVE  tree'[d][q] = guest'[d][q][head[d][q]]
  BY DEF TreeAtBranch
<1> USE DEF TypeOK, CheckoutsOK
<1>1. tree' = [tree EXCEPT ![b][p] = c] /\ tree[d][q] = guest[d][q][head[d][q]]
  BY DEF MoveHead, TreeAtBranch
<1>2. CASE d = b /\ q = p
  <2>1. guest' = [guest EXCEPT ![b][p][head[b][p]] = c] /\ head[b][p] \in Refs
    BY <1>2 DEF MoveHead, Branches
  <2> QED BY <1>1, <1>2, <2>1 DEF RefMaps
<1>3. CASE d # b \/ q # p
  BY <1>1, <1>3 DEF MoveHead
<1> QED BY <1>2, <1>3

LEMMA TreeAtBranchStep ==
  ASSUME TypeOK, BranchRead, TreeAtBranch, [Next]_vars
  PROVE  TreeAtBranch'
<1> USE DEF TypeOK, CheckoutsOK
<1>a. ASSUME UNCHANGED <<guest, head, tree>> PROVE TreeAtBranch'
  BY <1>a DEF TreeAtBranch
\* A ref that is not the branch leaves tree and branch together.
<1>b. ASSUME NEW b \in Boxes, NEW p \in Projects, NEW r, NEW c, r # head[b][p],
             guest' = [guest EXCEPT ![b][p][r] = c], UNCHANGED <<head, tree>>
      PROVE  TreeAtBranch'
  <2> SUFFICES ASSUME NEW d \in Boxes, NEW q \in Projects, head[d][q] # Detached
               PROVE  tree[d][q] = guest'[d][q][head[d][q]]
    BY <1>b DEF TreeAtBranch
  <2>1. tree[d][q] = guest[d][q][head[d][q]] /\ head[d][q] \in Refs
    BY DEF TreeAtBranch, Branches
  <2>2. guest'[d][q][head[d][q]] = guest[d][q][head[d][q]]
    BY <1>b, <2>1 DEF RefMaps
  <2> QED BY <2>1, <2>2
<1>1. ASSUME NEW s \in Syncs, Progress(s) PROVE TreeAtBranch'
  <2>a. ASSUME NEW r, UpdateGuestRef(s, r) \/ FastForward(s, r)
        PROVE  box[s] \in Boxes /\ proj[s] \in Projects /\ branch[s] = head[box[s]][proj[s]]
    BY <2>a DEF UpdateGuestRef, FastForward, Goto, Running, SyncsOK, BranchRead
  <2>1. ASSUME NEW r \in Refs, UpdateGuestRef(s, r) PROVE TreeAtBranch'
    <3>1. /\ guest' = [guest EXCEPT ![box[s]][proj[s]][r] = todo[s][r]]
          /\ UNCHANGED <<head, tree>> /\ r # branch[s]
      BY <2>1 DEF UpdateGuestRef
    <3> QED BY <1>b, <2>a, <2>1, <3>1
  <2>2. ASSUME NEW r \in Refs, FastForward(s, r) PROVE TreeAtBranch'
    <3>1. /\ \/ MoveHead(box[s], proj[s], seen[box[s]][proj[s]][r])
             \/ UNCHANGED <<guest, tree>>
          /\ UNCHANGED head
      BY <2>2 DEF FastForward
    <3> HIDE DEF TypeOK
    <3> QED BY <1>a, <2>a, <2>2, <3>1, MoveHeadTree
  <2> QED BY <1>1, <1>a, <2>1, <2>2 DEF Progress, PrepareStaging, CheckHistory, BundleGuest,
       CopyFromGuest, FindHub, MakeHub, FetchIntoHub, PlanOutbound, UpdateHubRef,
       ReadHubHead, ListHubBranches, PointHubHead, AfterHead, BundleHub, CopyToGuest,
       FetchIntoGuest, PlanInbound, ReadBranch,
       FinishInbound, Cleanup, agentVars
<1>2. ASSUME NEW s \in Syncs, NEW b \in Boxes, NEW p \in Projects, Start(s, b, p)
      PROVE  TreeAtBranch'
  BY <1>2, <1>a DEF Start, agentVars
<1>3. ASSUME NEW s \in Syncs, Fail(s) \/ Crash(s) PROVE TreeAtBranch'
  BY <1>3, <1>a DEF Fail, Crash, agentVars
<1>4. ASSUME NEW b \in Boxes, NEW p \in Projects, AddLocal(b, p) PROVE TreeAtBranch'
  BY <1>4, <1>a DEF AddLocal
<1>5. ASSUME NEW b \in Boxes, Attaching(b) PROVE TreeAtBranch'
  <2> DEFINE a == attach[b]
             p == a.proj
             refs == [r \in Refs |-> IF r \in Tags \cup {a.branch} THEN a.refs[r] ELSE {}]
  <2>1. CASE AttachClones(b)
    <3>1. /\ a.at = "clone"
          /\ guest' = [guest EXCEPT ![b][p] = refs]
          /\ head' = [head EXCEPT ![b][p] = a.branch]
          /\ tree' = [tree EXCEPT ![b][p] = a.refs[a.branch]]
      BY <2>1 DEF AttachClones, AttachTo
    <3>2. a.branch \in Refs /\ p \in Projects
      BY <3>1 DEF Branches
    <3>3. refs[a.branch] = a.refs[a.branch]
      BY <3>2
    <3> HIDE DEF refs
    <3> QED BY <3>1, <3>2, <3>3 DEF TreeAtBranch
  <2>2. CASE UNCHANGED <<guest, present, head, tree>>
    BY <1>a, <2>2
  <2> HIDE DEF TypeOK, TreeAtBranch
  <2> QED BY <1>5, <2>1, <2>2, AttachKeeps
<1>6. ASSUME NEW b \in Boxes, NEW p \in Projects, Agent(b, p) PROVE TreeAtBranch'
  <2>1. ASSUME NEW c, AgentCommit(b, p, c) \/ AgentReset(b, p, c) PROVE TreeAtBranch'
    BY <2>1, MoveHeadTree DEF AgentCommit, AgentReset
  <2>2. ASSUME NEW r \in Refs, NEW c, AgentWriteRef(b, p, r, c) PROVE TreeAtBranch'
    BY <2>2, <1>b DEF AgentWriteRef
  <2>3. ASSUME NEW r \in Branches \cup {Detached}, AgentSwitch(b, p, r) PROVE TreeAtBranch'
    <3> SUFFICES ASSUME NEW d \in Boxes, NEW q \in Projects, head'[d][q] # Detached
                 PROVE  tree'[d][q] = guest'[d][q][head'[d][q]]
      BY DEF TreeAtBranch
    <3>1. head' = [head EXCEPT ![b][p] = r]
      BY <2>3 DEF AgentSwitch
    <3>2. CASE d = b /\ q = p
      <4>1. r \in Refs /\ head'[d][q] = r /\ r # Detached
        BY <3>1, <3>2 DEF Branches
      <4>2. CASE guest[b][p][r] = {}
        <5>1. /\ guest' = [guest EXCEPT ![b][p][r] = HeadCommit(b, p)]
              /\ tree' = [tree EXCEPT ![b][p] = HeadCommit(b, p)]
          BY <2>3, <4>1, <4>2 DEF AgentSwitch
        <5> QED BY <3>2, <4>1, <5>1 DEF RefMaps
      <4>3. CASE guest[b][p][r] # {}
        <5>1. tree' = [tree EXCEPT ![b][p] = guest[b][p][r]] /\ UNCHANGED guest
          BY <2>3, <4>1, <4>3 DEF AgentSwitch
        <5> QED BY <3>2, <4>1, <5>1
      <4> QED BY <4>2, <4>3
    <3>3. CASE d # b \/ q # p
      <4>1. head'[d][q] = head[d][q]
        BY <3>1, <3>3
      <4>2. guest'[d][q] = guest[d][q] /\ tree'[d][q] = tree[d][q]
        BY <2>3, <3>3 DEF AgentSwitch
      <4> QED BY <4>1, <4>2 DEF TreeAtBranch
    <3> QED BY <3>2, <3>3
  <2> HIDE DEF TypeOK
  <2> QED BY <1>6, <2>1, <2>2, <2>3 DEF Agent
<1>7. CASE UNCHANGED vars
  BY <1>7, <1>a DEF vars, agentVars
<1> HIDE DEF TypeOK
<1> QED BY <1>1, <1>2, <1>3, <1>4, <1>5, <1>6, <1>7 DEF Next, CheckoutStep, Attaching

\* As long as agents leave a checkout that is being synced alone, the index and
\* the worktree of every checkout are at the commit of its branch, whatever
\* syncs overlap and wherever one fails: the branch that was checked out is
\* never among the refs a sync writes beside the worktree.
THEOREM WorktreesStayWhole == Quiet /\ Spec => []WorktreeFollowsBranch
<1> DEFINE IInv == TypeOK /\ SyncedIsPresent /\ BranchRead /\ TreeAtBranch
<1> SUFFICES ASSUME Quiet PROVE Spec => []WorktreeFollowsBranch
  OBVIOUS
<1>1. Init => IInv
  <2> SUFFICES ASSUME Init PROVE IInv
    OBVIOUS
  <2>1. TypeOK
    BY InitTypeOK
  <2>2. SyncedIsPresent /\ BranchRead
    BY DEF Init, SyncedIsPresent, BranchRead, Running
  <2>3. TreeAtBranch
    BY RefsAssumption DEF Init, TreeAtBranch, NoRefs
  <2> QED BY <2>1, <2>2, <2>3
<1>2. IInv /\ [Next]_vars => IInv'
  BY TypeStep, SyncedIsPresentStep, BranchReadStep, TreeAtBranchStep
<1>3. IInv => WorktreeFollowsBranch
  BY DEF TypeOK, CheckoutsOK, TreeAtBranch, WorktreeFollowsBranch
<1> QED BY <1>1, <1>2, <1>3, PTL DEF Spec

\* Where no two running syncs work in one checkout, GuestPlansForward is
\* inductive: no one else writes the refs a plan was made against.
LEMMA GuestPlansForwardStep ==
  ASSUME TypeOK, Quiet, CheckoutsApart, SyncedIsPresent, BranchRead, GuestPlansForward,
         [Next]_vars
  PROVE  GuestPlansForward'
<1> SUFFICES ASSUME NEW s \in Syncs, pc'[s] \in {"readBranch", "writeGuest"},
                    NEW r \in Refs, todo'[s][r] # {}
             PROVE  guest'[box'[s]][proj'[s]][r] \subseteq todo'[s][r]
  BY DEF GuestPlansForward
<1> DEFINE b == box[s]
           p == proj[s]
<1> USE DEF TypeOK, SyncsOK
<1>1. CASE Running(s) /\ Undisturbed(s)
  BY <1>1 DEF Undisturbed, SameJob, SameCheckout, GuestPlansForward
<1>2. CASE Progress(s)
  <2>1. CASE PlanInbound(s)
    <3>1. box'[s] = b /\ proj'[s] = p /\ UNCHANGED guest
      BY <2>1 DEF PlanInbound, KeepJob, agentVars
    <3>2. todo'[s] = RefPlans(guest[b][p], seen[b][p])
      BY <2>1 DEF PlanInbound
    <3> QED BY <3>1, <3>2 DEF RefPlans
  <2>2. CASE ReadBranch(s)
    BY <2>2 DEF ReadBranch, Goto, KeepJob, agentVars, GuestPlansForward
  <2>3. ASSUME NEW q \in Refs, UpdateGuestRef(s, q) \/ FastForward(s, q)
        PROVE  guest'[box'[s]][proj'[s]][r] \subseteq todo'[s][r]
    <3>1. /\ pc[s] = "writeGuest" /\ box'[s] = b /\ proj'[s] = p
          /\ todo' = [todo EXCEPT ![s][q] = {}]
      BY <2>3 DEF UpdateGuestRef, FastForward, Goto, KeepJob
    <3>2. r # q /\ todo'[s][r] = todo[s][r]
      BY <3>1 DEF RefMaps
    <3>3. guest[b][p][r] \subseteq todo[s][r] /\ b \in Boxes /\ p \in Projects
      BY <3>1, <3>2 DEF GuestPlansForward, Running
    <3>4. guest'[b][p][r] = guest[b][p][r]
      <4>1. CASE UpdateGuestRef(s, q)
        BY <3>2, <3>3, <4>1 DEF UpdateGuestRef, CheckoutsOK, RefMaps
      <4>2. CASE FastForward(s, q)
        <5>1. head[b][p] = q
          BY <3>1, <4>2 DEF FastForward, BranchRead
        <5>2. MoveHead(b, p, seen[b][p][q]) \/ UNCHANGED guest
          BY <4>2 DEF FastForward
        <5> QED BY <3>2, <3>3, <5>1, <5>2 DEF MoveHead, CheckoutsOK, RefMaps
      <4> QED BY <2>3, <4>1, <4>2
    <3> QED BY <3>1, <3>2, <3>3, <3>4
  <2>4. CASE PrepareStaging(s) \/ CheckHistory(s) \/ BundleGuest(s) \/ CopyFromGuest(s)
             \/ FindHub(s) \/ MakeHub(s) \/ FetchIntoHub(s) \/ PlanOutbound(s)
    BY <2>4 DEF PrepareStaging, CheckHistory, BundleGuest, CopyFromGuest, FindHub,
       MakeHub, FetchIntoHub, PlanOutbound, Goto
  <2>5. CASE (\E q \in Refs : UpdateHubRef(s, q)) \/ ReadHubHead(s) \/ ListHubBranches(s)
             \/ PointHubHead(s) \/ BundleHub(s)
             \/ CopyToGuest(s) \/ FetchIntoGuest(s) \/ FinishInbound(s) \/ Cleanup(s)
    BY <2>5 DEF UpdateHubRef, ReadHubHead, ListHubBranches, PointHubHead, AfterHead,
       BundleHub, CopyToGuest, FetchIntoGuest,
       FinishInbound, Cleanup, Forget, Goto
  <2> QED BY <1>2, <2>1, <2>2, <2>3, <2>4, <2>5 DEF Progress
<1>3. CASE Fail(s) \/ Crash(s)
  BY <1>3 DEF Fail, Crash, Forget
<1>4. CASE ~Running(s)
  <2>1. \E d \in Boxes, q \in Projects : Start(s, d, q)
    BY <1>4, Beginning DEF Running
  <2> QED BY <2>1 DEF Start, Goto
<1> HIDE DEF TypeOK, SyncsOK
<1> QED BY <1>1, <1>2, <1>3, <1>4, OthersTouch

\* Of the steps that change a plan, only the two that write a ref of a checkout
\* touch a ref of a checkout.
LEMMA GuestWriter ==
  ASSUME [Next]_vars, guest' # guest, todo' # todo
  PROVE  \E s \in Syncs, r \in Refs : UpdateGuestRef(s, r) \/ FastForward(s, r)
<1>1. ASSUME NEW s \in Syncs, Progress(s),
             ~\E r \in Refs : UpdateGuestRef(s, r) \/ FastForward(s, r)
      PROVE  UNCHANGED guest
  BY <1>1 DEF Progress, PrepareStaging, CheckHistory, BundleGuest, CopyFromGuest, FindHub,
     MakeHub, FetchIntoHub, PlanOutbound, UpdateHubRef, ReadHubHead, ListHubBranches,
     PointHubHead, AfterHead, BundleHub,
     CopyToGuest, FetchIntoGuest, PlanInbound, ReadBranch, FinishInbound, Cleanup, agentVars
<1>2. ASSUME NEW s \in Syncs, NEW b \in Boxes, NEW p \in Projects, Start(s, b, p)
      PROVE  UNCHANGED guest
  BY <1>2 DEF Start, agentVars
<1>3. ASSUME NEW s \in Syncs, Fail(s) \/ Crash(s) PROVE UNCHANGED guest
  BY <1>3 DEF Fail, Crash, agentVars
<1>4. ASSUME NEW b \in Boxes, CheckoutStep(b)
      PROVE  UNCHANGED todo
  BY <1>4, CheckoutKeeps DEF syncVars
<1>5. CASE UNCHANGED vars
  BY <1>5 DEF vars, agentVars
<1> QED BY <1>1, <1>2, <1>3, <1>4, <1>5 DEF Next, CheckoutStep, Attaching

\* As long as agents leave a checkout that is being synced alone, and no two
\* syncs work in one checkout at once, no sync makes a ref of a checkout drop a
\* commit it held, by update-ref or through the worktree.
THEOREM GuestForward ==
  Quiet /\ ~({"box", "project"} \subseteq Overlap) /\ Spec => GuestMovesForward
<1> DEFINE IInv == /\ TypeOK /\ CheckoutsApart /\ SyncedIsPresent /\ BranchRead
                   /\ GuestPlansForward
           Moves == todo' # todo =>
                      \A b \in Boxes, p \in Projects, r \in Refs :
                        guest[b][p][r] \subseteq guest'[b][p][r]
<1> SUFFICES ASSUME Quiet, ~({"box", "project"} \subseteq Overlap)
             PROVE  Spec => GuestMovesForward
  OBVIOUS
<1>1. Init => IInv
  BY InitTypeOK DEF Init, CheckoutsApart, SyncedIsPresent, BranchRead, GuestPlansForward,
     Running
<1>2. IInv /\ [Next]_vars => IInv'
  BY TypeStep, CheckoutsApartStep, SyncedIsPresentStep, BranchReadStep, GuestPlansForwardStep
<1>3. IInv /\ [Next]_vars => [Moves]_vars
  <2> SUFFICES ASSUME IInv, [Next]_vars, todo' # todo, NEW b \in Boxes, NEW p \in Projects,
                      NEW r \in Refs
               PROVE  guest[b][p][r] \subseteq guest'[b][p][r]
    OBVIOUS
  <2> USE DEF TypeOK, CheckoutsOK
  <2>1. CASE guest' = guest
    BY <2>1
  <2>2. CASE guest' # guest
    <3>1. PICK s \in Syncs, q \in Refs : UpdateGuestRef(s, q) \/ FastForward(s, q)
      BY <2>2, GuestWriter
    <3>2. CASE UpdateGuestRef(s, q)
      <4>1. guest[box[s]][proj[s]][q] \subseteq todo[s][q]
        BY <3>2 DEF UpdateGuestRef, IsNext, Goto, GuestPlansForward
      <4> QED BY <3>2, <4>1 DEF UpdateGuestRef, RefMaps
    <3>3. CASE FastForward(s, q)
      <4> DEFINE d == box[s]
                 g == proj[s]
      <4>1. HeadCommit(d, g) \subseteq seen[d][g][q] /\ MoveHead(d, g, seen[d][g][q])
        BY <2>2, <3>3 DEF FastForward
      <4>2. CASE head[d][g] = Detached
        BY <2>2, <4>1, <4>2 DEF MoveHead
      <4>3. CASE head[d][g] # Detached
        <5>1. /\ guest' = [guest EXCEPT ![d][g][head[d][g]] = seen[d][g][q]]
              /\ guest[d][g][head[d][g]] \subseteq seen[d][g][q]
          BY <4>1, <4>3 DEF MoveHead, HeadCommit
        <5> QED BY <5>1 DEF RefMaps
      <4> QED BY <4>2, <4>3
    <3> QED BY <3>1, <3>2, <3>3
  <2> QED BY <2>1, <2>2
<1> QED BY <1>1, <1>2, <1>3, PTL DEF Spec, GuestMovesForward

-----------------------------------------------------------------------------
(* What a sync reports is so. *)

LEMMA DivergencesAgree ==
  ASSUME NEW mine, NEW theirs
  PROVE  Divergences(mine, theirs) = Divergences(theirs, mine)
BY DEF Divergences

LEMMA UnmadeIsEmptyStep ==
  ASSUME TypeOK, UnmadeIsEmpty, \A s \in Syncs : MadeTheHub(s), [Next]_vars
  PROVE  UnmadeIsEmpty'
<1> USE DEF TypeOK, HubsOK, UnmadeIsEmpty
<1>1. CASE hub' # hub
  <2>1. PICK s \in Syncs, r \in Refs : UpdateHubRef(s, r)
    BY <1>1, HubWriter
  <2>2. proj[s] \in hubMade /\ UNCHANGED hubMade /\ hub' = [hub EXCEPT ![proj[s]][r] = todo[s][r]]
    BY <2>1 DEF UpdateHubRef, Goto, MadeTheHub
  <2> QED BY <2>2
<1>2. CASE hub' = hub
  <2>1. hubMade \subseteq hubMade'
    <3>1. ASSUME NEW s \in Syncs, Progress(s) PROVE hubMade \subseteq hubMade'
      BY <3>1 DEF Progress, PrepareStaging, CheckHistory, BundleGuest, CopyFromGuest,
         FindHub, MakeHub, FetchIntoHub, PlanOutbound, UpdateHubRef, ReadHubHead,
         ListHubBranches, PointHubHead, AfterHead,
         BundleHub, CopyToGuest, FetchIntoGuest, PlanInbound, ReadBranch, UpdateGuestRef,
         FastForward, FinishInbound, Cleanup, hubVars
    <3>2. ASSUME NEW s \in Syncs, NEW b \in Boxes, NEW p \in Projects, Start(s, b, p)
          PROVE  UNCHANGED hubMade
      BY <3>2 DEF Start, hubVars
    <3>3. ASSUME NEW s \in Syncs, Fail(s) \/ Crash(s) PROVE UNCHANGED hubMade
      BY <3>3 DEF Fail, Crash, hubVars
    <3>4. ASSUME NEW b \in Boxes, CheckoutStep(b)
          PROVE  UNCHANGED hubMade
      BY <3>4, CheckoutKeeps DEF syncVars
    <3>5. CASE UNCHANGED vars
      BY <3>5 DEF vars, hubVars
    <3> HIDE DEF TypeOK, HubsOK, UnmadeIsEmpty
    <3> QED BY <3>1, <3>2, <3>3, <3>4, <3>5 DEF Next, CheckoutStep, Attaching
  <2> QED BY <1>2, <2>1
<1> QED BY <1>1, <1>2

\* The steps of others leave a sync on its track.
LEMMA OnTrackUndisturbed ==
  ASSUME NEW s \in Syncs, SameJob(s), SameCheckout(box[s], proj[s]), SameHub(proj[s]),
         staging'[box[s]] = staging[box[s]], OnTrack(s)
  PROVE  OnTrack(s)'
<1> USE DEF OnTrack, SameJob, SameCheckout, SameHub, Here, There
<1>1. NothingNamed(s)' /\ HasTheGuests(s)' /\ HasTheHubs(s)' /\ MadeTheHub(s)'
  BY DEF NothingNamed, HasTheGuests, HasTheHubs, MadeTheHub
<1>2. HubCatchesUp(s)'
  BY DEF HubCatchesUp
<1>3. GuestCatchesUp(s)'
  BY DEF GuestCatchesUp
<1>4. ToldTheTruth(s)'
  BY DEF ToldTheTruth
<1> QED BY <1>1, <1>2, <1>3, <1>4

\* On the way out, up to the plan: no step writes a ref of either side.
LEMMA OnTrackOutbound ==
  ASSUME TypeOK, UnmadeIsEmpty, NEW s \in Syncs, Running(s), OnTrack(s),
         PrepareStaging(s) \/ CheckHistory(s) \/ BundleGuest(s) \/ CopyFromGuest(s)
           \/ FindHub(s) \/ MakeHub(s) \/ FetchIntoHub(s) \/ PlanOutbound(s)
  PROVE  OnTrack(s)'
<1> DEFINE b == box[s]
           p == proj[s]
<1>a. b \in Boxes /\ p \in Projects /\ NoRefs \in RefMaps
  BY NoRefsType DEF TypeOK, SyncsOK
<1> USE DEF TypeOK, SyncsOK, HubsOK, StagingOK, CheckoutsOK, KeepJob, KeepReport, Goto, Steps
<1>b. UNCHANGED <<guest, hub, seen>> /\ box'[s] = b /\ proj'[s] = p
  BY DEF PrepareStaging, CheckHistory, BundleGuest, CopyFromGuest, FindHub, MakeHub,
     FetchIntoHub, PlanOutbound, agentVars, hubVars
<1>c. Here(s)' = Here(s) /\ There(s)' = There(s)
  BY <1>b DEF Here, There
<1>d. pc[s] \in Outbound /\ diverged[s] = {} /\ heldBack[s] = {}
  BY DEF PrepareStaging, CheckHistory, BundleGuest, CopyFromGuest, FindHub, MakeHub,
     FetchIntoHub, PlanOutbound, OnTrack, NothingNamed, Outbound
<1> USE DEF OnTrack, NothingNamed, HasTheGuests, HasTheHubs, MadeTheHub, HubCatchesUp,
            GuestCatchesUp, ToldTheTruth, Outbound, Inbound
<1>1. CASE PrepareStaging(s)
  <2>1. pc'[s] = "history" /\ diverged'[s] = {} /\ heldBack'[s] = {}
    BY <1>1, <1>d DEF PrepareStaging
  <2> QED BY <2>1
<1>2. CASE CheckHistory(s)
  <2>1. diverged'[s] = {} /\ heldBack'[s] = {}
    BY <1>2, <1>d DEF CheckHistory
  <2>2. CASE Here(s) # NoRefs
    <3>1. pc'[s] = "bundle"
      BY <1>2, <2>2 DEF CheckHistory, Here
    <3> QED BY <2>1, <3>1
  <2>3. CASE Here(s) = NoRefs
    <3>1. \A r \in Refs : Here(s)[r] = {} /\ ~Behind(There(s)[r], Here(s)[r])
      BY <2>3 DEF NoRefs, Behind
    <3>2. Divergences(Here(s), There(s)) = {}
      BY <3>1 DEF Divergences
    <3>3. CASE p \in hubMade
      <4>1. pc'[s] = "bundleHub"
        BY <1>2, <2>3, <3>3 DEF CheckHistory, Here
      <4> QED BY <1>c, <2>1, <3>1, <3>2, <4>1
    <3>4. CASE p \notin hubMade
      <4>1. pc'[s] = "finished"
        BY <1>2, <2>3, <3>4 DEF CheckHistory, Here
      <4>2. There(s) = NoRefs
        BY <1>a, <3>4 DEF UnmadeIsEmpty, There
      <4>3. \A r \in Refs : ~Behind(Here(s)[r], There(s)[r])
        BY <2>3, <4>2 DEF Behind
      <4> QED BY <1>c, <2>1, <3>1, <3>2, <4>1, <4>3
    <3> QED BY <3>3, <3>4
  <2> QED BY <2>2, <2>3
<1>3. CASE BundleGuest(s)
  <2>1. pc'[s] = "copyOut" /\ diverged'[s] = {} /\ heldBack'[s] = {}
    BY <1>3, <1>d DEF BundleGuest
  <2>2. staging'[b].fromGuest = Here(s)
    BY <1>3, <1>a DEF BundleGuest, Stagings, Here
  <2> QED BY <1>b, <1>c, <2>1, <2>2
<1>4. CASE CopyFromGuest(s)
  <2>1. pc'[s] = "findHub" /\ diverged'[s] = {} /\ heldBack'[s] = {}
    BY <1>4, <1>d DEF CopyFromGuest
  <2>2. carried'[s] = Here(s)
    BY <1>4 DEF CopyFromGuest
  <2> QED BY <1>c, <2>1, <2>2
<1>5. CASE FindHub(s)
  <2>1. diverged'[s] = {} /\ heldBack'[s] = {} /\ carried'[s] = Here(s)
    BY <1>5, <1>d DEF FindHub
  <2>2. CASE p \in hubMade
    <3>1. pc'[s] = "fetchHub" /\ ~created'[s] /\ proj'[s] \in hubMade'
      BY <1>5, <1>b, <2>2 DEF FindHub, hubVars
    <3> QED BY <1>c, <2>1, <3>1
  <2>3. CASE p \notin hubMade
    <3>1. pc'[s] = "makeHub"
      BY <1>5, <2>3 DEF FindHub
    <3>2. There(s) = NoRefs
      BY <1>a, <2>3 DEF UnmadeIsEmpty, There
    <3> QED BY <1>c, <2>1, <3>1, <3>2
  <2> QED BY <2>2, <2>3
<1>6. CASE MakeHub(s)
  <2>1. /\ pc'[s] = "fetchHub" /\ diverged'[s] = {} /\ heldBack'[s] = {}
        /\ carried'[s] = Here(s) /\ created'[s] = created[s] /\ proj'[s] \in hubMade'
        /\ created[s] => There(s) = NoRefs
    BY <1>6, <1>b, <1>d DEF MakeHub
  <2> QED BY <1>c, <2>1
<1>7. CASE FetchIntoHub(s)
  <2>1. /\ pc'[s] = "planHub" /\ diverged'[s] = {} /\ heldBack'[s] = {}
        /\ created'[s] = created[s] /\ proj'[s] \in hubMade'
        /\ created[s] => There(s) = NoRefs
    BY <1>7, <1>b, <1>d DEF FetchIntoHub
  <2>2. mirror'[p][b] = Here(s)
    BY <1>7, <1>a DEF FetchIntoHub
  <2> QED BY <1>b, <1>c, <2>1, <2>2
<1>8. CASE PlanOutbound(s)
  <2>1. /\ pc'[s] = "writeHub" /\ heldBack'[s] = {} /\ created'[s] = created[s]
        /\ mirror[p][b] = Here(s) /\ There(s) = hub[p]
        /\ created[s] => There(s) = NoRefs
        /\ proj'[s] \in hubMade'
    BY <1>8, <1>b, <1>d DEF PlanOutbound, There, hubVars
  <2>2. todo'[s] = RefPlans(There(s), Here(s))
    BY <1>8, <2>1 DEF PlanOutbound
  <2>3. diverged'[s] = Divergences(Here(s), There(s))
    <3>1. diverged'[s] = diverged[s] \cup Divergences(There(s), Here(s))
      BY <1>8, <2>1 DEF PlanOutbound
    <3> QED BY <1>d, <3>1, DivergencesAgree
  <2>4. \A r \in Refs :
          /\ todo'[s][r] # {} => todo'[s][r] = Here(s)[r] /\ There(s)[r] \subseteq Here(s)[r]
          /\ todo'[s][r] = {} => ~Behind(There(s)[r], Here(s)[r])
          /\ created[s] => There(s)[r] \subseteq Here(s)[r]
    BY <2>1, <2>2 DEF RefPlans, Behind, NoRefs
  <2> QED BY <1>c, <2>1, <2>3, <2>4
<1> HIDE DEF OnTrack, NothingNamed, HasTheGuests, HasTheHubs, MadeTheHub, HubCatchesUp,
            GuestCatchesUp, ToldTheTruth, Outbound, Inbound, TypeOK
<1> QED BY <1>1, <1>2, <1>3, <1>4, <1>5, <1>6, <1>7, <1>8

\* A host repository has what was planned, ref by ref.
LEMMA OnTrackWriteHub ==
  ASSUME TypeOK, NEW s \in Syncs, Running(s), OnTrack(s),
         NEW q \in Refs, UpdateHubRef(s, q)
  PROVE  OnTrack(s)'
<1> DEFINE b == box[s]
           p == proj[s]
<1> USE DEF TypeOK, SyncsOK, HubsOK, CheckoutsOK, KeepJob, KeepReport, Goto
<1>a. /\ b \in Boxes /\ p \in Projects
      /\ UNCHANGED <<guest, hubMade>> /\ box'[s] = b /\ proj'[s] = p
      /\ pc[s] = "writeHub" /\ pc'[s] = "writeHub" /\ created'[s] = created[s]
      /\ diverged'[s] = diverged[s] /\ heldBack'[s] = heldBack[s]
      /\ hub' = [hub EXCEPT ![p][q] = todo[s][q]]
      /\ todo' = [todo EXCEPT ![s][q] = {}] /\ todo[s][q] # {}
  BY DEF UpdateHubRef, agentVars, IsNext
<1>b. Here(s)' = Here(s) /\ There(s)' = [There(s) EXCEPT ![q] = todo[s][q]]
  BY <1>a DEF Here, There
<1>c. todo'[s] = [todo[s] EXCEPT ![q] = {}]
  BY <1>a
<1>d. /\ There(s) \in [Refs -> Commits] /\ todo[s] \in [Refs -> Commits]
      /\ todo[s][q] = Here(s)[q] /\ There(s)[q] \subseteq Here(s)[q]
      /\ diverged[s] = Divergences(Here(s), There(s)) /\ heldBack[s] = {}
      /\ p \in hubMade
  BY <1>a DEF OnTrack, HubCatchesUp, NothingNamed, MadeTheHub, There, RefMaps, Outbound, Inbound
<1>e. \A r \in Refs \ {q} : There(s)'[r] = There(s)[r] /\ todo'[s][r] = todo[s][r]
  BY <1>b, <1>c, <1>d
<1>f. There(s)'[q] = Here(s)[q] /\ todo'[s][q] = {}
  BY <1>b, <1>c, <1>d
<1>1. Divergences(Here(s), There(s)') = Divergences(Here(s), There(s))
  BY <1>d, <1>e, <1>f DEF Divergences
<1>2. ASSUME NEW r \in Refs
      PROVE  /\ todo'[s][r] # {} => /\ todo'[s][r] = Here(s)[r]
                                    /\ There(s)'[r] \subseteq Here(s)[r]
             /\ todo'[s][r] = {} => ~Behind(There(s)'[r], Here(s)[r])
             /\ created[s] => There(s)'[r] \subseteq Here(s)[r]
  <2>1. CASE r = q
    BY <1>f, <2>1 DEF Behind
  <2>2. CASE r # q
    BY <1>a, <1>e, <2>2 DEF OnTrack, HubCatchesUp
  <2> QED BY <2>1, <2>2
<1>3. HubCatchesUp(s)'
  BY <1>a, <1>b, <1>d, <1>1, <1>2 DEF HubCatchesUp, Inbound
<1>4. NothingNamed(s)' /\ MadeTheHub(s)'
  BY <1>a, <1>d DEF NothingNamed, MadeTheHub, Outbound, Inbound
<1>5. HasTheGuests(s)' /\ HasTheHubs(s)' /\ GuestCatchesUp(s)' /\ ToldTheTruth(s)'
  BY <1>a DEF HasTheGuests, HasTheHubs, GuestCatchesUp, ToldTheTruth
<1> QED BY <1>3, <1>4, <1>5 DEF OnTrack

\* From the last ref of the host repository to the plan for the checkout.
LEMMA OnTrackInbound ==
  ASSUME TypeOK, NEW s \in Syncs, Running(s), OnTrack(s),
         ReadHubHead(s) \/ ListHubBranches(s) \/ PointHubHead(s) \/ BundleHub(s)
         \/ CopyToGuest(s) \/ FetchIntoGuest(s)
           \/ PlanInbound(s) \/ ReadBranch(s)
  PROVE  OnTrack(s)'
<1> DEFINE b == box[s]
           p == proj[s]
<1>a. b \in Boxes /\ p \in Projects
  BY DEF TypeOK, SyncsOK
<1> USE DEF TypeOK, SyncsOK, HubsOK, StagingOK, CheckoutsOK, KeepJob, KeepReport, Goto
<1>b. UNCHANGED <<guest, hub, hubMade>> /\ box'[s] = b /\ proj'[s] = p
  BY DEF ReadHubHead, ListHubBranches, PointHubHead, AfterHead, BundleHub, CopyToGuest,
     FetchIntoGuest, PlanInbound, ReadBranch,
     agentVars, hubVars
<1>c. Here(s)' = Here(s) /\ There(s)' = There(s)
  BY <1>b DEF Here, There
<1>d. heldBack'[s] = {}
  BY DEF ReadHubHead, ListHubBranches, PointHubHead, AfterHead, BundleHub, CopyToGuest,
     FetchIntoGuest, PlanInbound, ReadBranch,
     OnTrack, NothingNamed, Outbound, Inbound
<1>e. CASE pc'[s] \in Inbound /\ diverged'[s] = Divergences(Here(s), There(s))
           /\ HasTheHubs(s)' /\ (\A r \in Refs : ~Behind(There(s)[r], Here(s)[r]))
           /\ (pc'[s] \in {"listHub", "pointHub"} /\ created'[s] =>
                 \A r \in Refs : There(s)[r] \subseteq Here(s)[r])
  <2>1. HubCatchesUp(s)'
    BY <1>c, <1>e DEF HubCatchesUp, Inbound
  <2>2. NothingNamed(s)' /\ HasTheGuests(s)' /\ MadeTheHub(s)'
    BY <1>d, <1>e DEF NothingNamed, HasTheGuests, MadeTheHub, Outbound, Inbound
  <2>3. GuestCatchesUp(s)' /\ ToldTheTruth(s)'
    BY <1>e DEF GuestCatchesUp, ToldTheTruth, Inbound
  <2> QED BY <1>e, <2>1, <2>2, <2>3 DEF OnTrack
<1>f. CASE pc'[s] = "finished" /\ There(s) = Here(s)
           /\ diverged'[s] = Divergences(Here(s), There(s))
  <2>1. \A r \in Refs : ~Behind(There(s)[r], Here(s)[r]) /\ ~Behind(Here(s)[r], There(s)[r])
    BY <1>f DEF Behind
  <2>2. ToldTheTruth(s)'
    BY <1>c, <1>d, <1>f, <2>1 DEF ToldTheTruth
  <2> QED BY <1>f, <2>2 DEF OnTrack, NothingNamed, HasTheGuests, HasTheHubs, MadeTheHub,
       HubCatchesUp, GuestCatchesUp, Outbound, Inbound
<1> USE DEF OnTrack, HubCatchesUp, HasTheHubs, Inbound
<1>1. CASE ReadHubHead(s) \/ ListHubBranches(s) \/ PointHubHead(s)
  <2>1. /\ diverged'[s] = Divergences(Here(s), There(s))
        /\ \A r \in Refs : ~Behind(There(s)[r], Here(s)[r])
    BY <1>1 DEF ReadHubHead, ListHubBranches, PointHubHead, NoRefs
  <2>2. /\ pc'[s] \in {"listHub", "pointHub", AfterHead(s)}
        /\ created'[s] = created[s]
        /\ AfterHead(s) = IF created[s] THEN "finished" ELSE "bundleHub"
    BY <1>1 DEF ReadHubHead, ListHubBranches, PointHubHead, AfterHead
  <2>3. created[s] => \A r \in Refs : There(s)[r] \subseteq Here(s)[r]
    BY <1>1 DEF ReadHubHead, ListHubBranches, PointHubHead
  <2>4. CASE pc'[s] # "finished"
    <3>1. pc'[s] \in {"listHub", "pointHub", "bundleHub"}
      BY <2>2, <2>4
    <3>2. HasTheHubs(s)'
      BY <3>1
    <3> HIDE DEF OnTrack, HubCatchesUp, HasTheHubs, TypeOK
    <3>3. pc'[s] \in Inbound
      BY <3>1
    <3>4. created'[s] => \A r \in Refs : There(s)[r] \subseteq Here(s)[r]
      BY <2>2, <2>3
    <3> QED BY <1>e, <2>1, <3>2, <3>3, <3>4
  <2>5. CASE pc'[s] = "finished"
    <3>1. created[s]
      BY <2>2, <2>5
    <3>3. \A r \in Refs : There(s)[r] = Here(s)[r]
      BY <2>1, <2>3, <3>1 DEF Behind
    <3>4. There(s) = Here(s)
      BY <1>a, <3>3 DEF There, Here, RefMaps
    <3> HIDE DEF OnTrack, HubCatchesUp, HasTheHubs, TypeOK
    <3> QED BY <1>f, <2>1, <2>5, <3>4
  <2> QED BY <2>4, <2>5
<1>2. CASE BundleHub(s)
  <2>1. /\ diverged'[s] = Divergences(Here(s), There(s))
        /\ \A r \in Refs : ~Behind(There(s)[r], Here(s)[r])
    BY <1>2 DEF BundleHub
  <2>2. CASE There(s) # NoRefs
    <3>1. pc'[s] = "copyIn" /\ carried'[s] = There(s)
      BY <1>2, <2>2 DEF BundleHub, There
    <3>2. HasTheHubs(s)'
      BY <1>c, <3>1
    <3> HIDE DEF OnTrack, HubCatchesUp, HasTheHubs, TypeOK
    <3> QED BY <1>e, <2>1, <3>1, <3>2
  <2>3. CASE There(s) = NoRefs
    <3>1. pc'[s] = "finished"
      BY <1>2, <2>3 DEF BundleHub, There
    <3>2. \A r \in Refs : There(s)[r] = Here(s)[r]
      BY <2>1, <2>3 DEF Behind, NoRefs
    <3>3. There(s) = Here(s)
      BY <1>a, <3>2 DEF There, Here, RefMaps
    <3> HIDE DEF OnTrack, HubCatchesUp, HasTheHubs, TypeOK
    <3> QED BY <1>f, <2>1, <3>1, <3>3
  <2> QED BY <2>2, <2>3
<1>3. CASE CopyToGuest(s)
  <2>1. /\ pc'[s] = "fetchGuest" /\ diverged'[s] = Divergences(Here(s), There(s))
        /\ \A r \in Refs : ~Behind(There(s)[r], Here(s)[r])
        /\ carried[s] = There(s)
    BY <1>3 DEF CopyToGuest
  <2>2. staging'[b].fromHub = There(s)
    BY <1>3, <1>a, <2>1 DEF CopyToGuest, Stagings
  <2>3. HasTheHubs(s)'
    BY <1>b, <1>c, <2>1, <2>2
  <2> HIDE DEF OnTrack, HubCatchesUp, HasTheHubs, TypeOK
  <2> QED BY <1>e, <2>1, <2>3
<1>4. CASE FetchIntoGuest(s)
  <2>1. /\ pc'[s] = "planGuest" /\ diverged'[s] = Divergences(Here(s), There(s))
        /\ \A r \in Refs : ~Behind(There(s)[r], Here(s)[r])
        /\ staging[b].fromHub = There(s)
    BY <1>4 DEF FetchIntoGuest
  <2>2. seen'[b][p] = There(s)
    BY <1>4, <1>a, <2>1 DEF FetchIntoGuest
  <2>3. HasTheHubs(s)'
    BY <1>b, <1>c, <2>1, <2>2
  <2> HIDE DEF OnTrack, HubCatchesUp, HasTheHubs, TypeOK
  <2> QED BY <1>e, <2>1, <2>3
<1>g. CASE /\ pc'[s] \in {"readBranch", "writeGuest"} /\ HasTheHubs(s)'
           /\ GuestCatchesUp(s)'
  BY <1>d, <1>g DEF NothingNamed, HasTheGuests, MadeTheHub, ToldTheTruth, Outbound
<1>5. CASE PlanInbound(s)
  <2>1. /\ pc'[s] = "readBranch" /\ seen[b][p] = There(s) /\ seen'[b][p] = There(s)
        /\ diverged[s] = Divergences(Here(s), There(s)) /\ Here(s) = guest[b][p]
        /\ \A r \in Refs : ~Behind(There(s)[r], Here(s)[r])
    BY <1>5 DEF PlanInbound, Here, agentVars
  <2>2. todo'[s] = RefPlans(Here(s), There(s))
    BY <1>5, <2>1 DEF PlanInbound
  <2>3. diverged'[s] = Divergences(Here(s), There(s))
    BY <1>5, <2>1 DEF PlanInbound
  <2>4. ASSUME NEW r \in Refs
        PROVE  /\ todo'[s][r] # {} => /\ todo'[s][r] = There(s)[r]
                                      /\ Behind(Here(s)[r], There(s)[r])
               /\ todo'[s][r] = {} => Here(s)[r] = There(s)[r] \/ r \in diverged'[s]
    BY <2>1, <2>2, <2>3 DEF RefPlans, Behind, Divergences
  <2>5. GuestCatchesUp(s)'
    BY <1>c, <1>d, <2>1, <2>3, <2>4 DEF GuestCatchesUp
  <2>6. HasTheHubs(s)'
    BY <1>b, <1>c, <2>1
  <2> HIDE DEF OnTrack, HubCatchesUp, HasTheHubs, TypeOK
  <2> QED BY <1>g, <2>1, <2>5, <2>6
<1>6. CASE ReadBranch(s)
  <2>1. /\ pc[s] = "readBranch" /\ pc'[s] = "writeGuest" /\ seen'[b][p] = There(s)
        /\ todo' = todo /\ diverged' = diverged /\ heldBack' = heldBack
    BY <1>6 DEF ReadBranch, agentVars
  <2>2. GuestCatchesUp(s)'
    BY <1>c, <2>1 DEF GuestCatchesUp
  <2>3. HasTheHubs(s)'
    BY <1>b, <1>c, <2>1
  <2> HIDE DEF OnTrack, HubCatchesUp, HasTheHubs, TypeOK
  <2> QED BY <1>g, <2>1, <2>2, <2>3
<1> HIDE DEF OnTrack, HubCatchesUp, HasTheHubs, TypeOK
<1> QED BY <1>1, <1>2, <1>3, <1>4, <1>5, <1>6

\* A checkout has what was planned, ref by ref, or the ref is held back.
LEMMA OnTrackWriteGuest ==
  ASSUME TypeOK, BranchRead, NEW s \in Syncs, Running(s), OnTrack(s),
         NEW q \in Refs, UpdateGuestRef(s, q) \/ FastForward(s, q)
  PROVE  OnTrack(s)'
<1> DEFINE b == box[s]
           p == proj[s]
<1> USE DEF TypeOK, SyncsOK, HubsOK, CheckoutsOK, KeepJob, KeepReport, Goto
<1>a. /\ b \in Boxes /\ p \in Projects
      /\ UNCHANGED <<hub, seen>> /\ box'[s] = b /\ proj'[s] = p
      /\ pc[s] = "writeGuest" /\ pc'[s] = "writeGuest"
      /\ diverged'[s] = diverged[s]
      /\ todo' = [todo EXCEPT ![s][q] = {}] /\ todo[s][q] # {}
  BY DEF UpdateGuestRef, FastForward, hubVars, IsNext
<1>b. There(s)' = There(s) /\ seen[b][p] = There(s) /\ seen'[b][p] = There(s)
  BY <1>a DEF There, OnTrack, HasTheHubs
<1>c. todo'[s][q] = {} /\ \A r \in Refs \ {q} : todo'[s][r] = todo[s][r]
  BY <1>a DEF RefMaps
<1>d. /\ Here(s) \in [Refs -> Commits]
      /\ todo[s][q] = There(s)[q] /\ Behind(Here(s)[q], There(s)[q]) /\ q \notin heldBack[s]
      /\ diverged[s] = Divergences(Here(s), There(s))
  BY <1>a DEF OnTrack, GuestCatchesUp, Here, RefMaps
<1>e. \A r \in Refs \ {q} :
        /\ todo[s][r] # {} => /\ todo[s][r] = There(s)[r] /\ r \notin heldBack[s]
                              /\ Behind(Here(s)[r], There(s)[r])
        /\ todo[s][r] = {} => \/ Here(s)[r] = There(s)[r]
                              \/ r \in diverged[s] \cup heldBack[s]
        /\ r \in heldBack[s] => Behind(Here(s)[r], There(s)[r])
  BY <1>a DEF OnTrack, GuestCatchesUp
<1>1. CASE Here(s)' = [Here(s) EXCEPT ![q] = There(s)[q]] /\ heldBack'[s] = heldBack[s]
  <2>1. /\ Here(s)'[q] = There(s)[q]
        /\ \A r \in Refs \ {q} : Here(s)'[r] = Here(s)[r]
    BY <1>d, <1>1
  <2>2. Divergences(Here(s)', There(s)) = Divergences(Here(s), There(s))
    BY <1>d, <2>1 DEF Divergences, Behind
  <2> QED BY <1>a, <1>b, <1>c, <1>d, <1>e, <1>1, <2>1, <2>2 DEF GuestCatchesUp, OnTrack,
       NothingNamed, HasTheGuests, HasTheHubs, MadeTheHub, HubCatchesUp, ToldTheTruth,
       Outbound, Inbound
<1>2. CASE Here(s)' = Here(s) /\ heldBack'[s] = heldBack[s] \cup {q}
  BY <1>a, <1>b, <1>c, <1>d, <1>e, <1>2 DEF GuestCatchesUp, OnTrack, NothingNamed,
     HasTheGuests, HasTheHubs, MadeTheHub, HubCatchesUp, ToldTheTruth, Outbound, Inbound
<1>3. CASE UpdateGuestRef(s, q)
  <2>1. Here(s)' = [Here(s) EXCEPT ![q] = There(s)[q]]
    BY <1>3, <1>a, <1>d DEF UpdateGuestRef, Here
  <2>2. heldBack'[s] = heldBack[s]
    BY <1>3 DEF UpdateGuestRef
  <2> HIDE DEF TypeOK
  <2> QED BY <1>1, <2>1, <2>2
<1>4. CASE FastForward(s, q)
  <2>1. head[b][p] = q /\ q # Detached /\ HeadCommit(b, p) = Here(s)[q]
    BY <1>4, <1>a, RefsAssumption DEF FastForward, BranchRead, HeadCommit, Here, Detached
  <2>2. CASE UNCHANGED heldBack
    <3>1. ~(There(s)[q] \subseteq HeadCommit(b, p))
      BY <1>d, <2>1 DEF Behind
    <3>2. MoveHead(b, p, There(s)[q])
      BY <1>4, <1>a, <1>b, <1>d, <2>2, <3>1 DEF FastForward
    <3>3. Here(s)' = [Here(s) EXCEPT ![q] = There(s)[q]]
      BY <1>a, <2>1, <3>2 DEF MoveHead, Here
    <3> HIDE DEF TypeOK
    <3> QED BY <1>1, <2>2, <3>3
  <2>3. CASE heldBack' = [heldBack EXCEPT ![s] = @ \cup {q}] /\ UNCHANGED <<guest, tree>>
    <3>1. Here(s)' = Here(s) /\ heldBack'[s] = heldBack[s] \cup {q}
      BY <1>a, <2>3 DEF Here
    <3> HIDE DEF TypeOK
    <3> QED BY <1>2, <3>1
  <2> QED BY <1>4, <2>2, <2>3 DEF FastForward
<1> QED BY <1>3, <1>4

\* The end: with nothing left to write, all that differs has been named.
LEMMA OnTrackFinish ==
  ASSUME TypeOK, NEW s \in Syncs, Running(s), OnTrack(s), FinishInbound(s)
  PROVE  OnTrack(s)'
<1> USE DEF TypeOK, SyncsOK
<1>1. /\ pc[s] = "writeGuest" /\ pc'[s] = "finished" /\ todo[s] = NoRefs
      /\ UNCHANGED <<guest, hub, box, proj, diverged, heldBack>>
  BY DEF FinishInbound, Goto, KeepJob, KeepReport, agentVars, hubVars
<1>2. Here(s)' = Here(s) /\ There(s)' = There(s)
  BY <1>1 DEF Here, There
<1>3. \A r \in Refs :
        /\ Here(s)[r] = There(s)[r] \/ r \in diverged[s] \cup heldBack[s]
        /\ r \in heldBack[s] => Behind(Here(s)[r], There(s)[r])
  BY <1>1 DEF OnTrack, GuestCatchesUp, NoRefs
<1>4. diverged[s] = Divergences(Here(s), There(s))
  BY <1>1 DEF OnTrack, GuestCatchesUp
<1>5. ASSUME NEW r \in Refs
      PROVE  /\ r \in heldBack[s] <=> Behind(Here(s)[r], There(s)[r])
             /\ ~Behind(There(s)[r], Here(s)[r])
  BY <1>3, <1>4 DEF Behind, Divergences
<1> QED BY <1>1, <1>2, <1>4, <1>5 DEF OnTrack, ToldTheTruth, NothingNamed, HasTheGuests,
     HasTheHubs, MadeTheHub, HubCatchesUp, GuestCatchesUp, Outbound, Inbound

\* A sync that is stopped, or that has not begun, claims nothing.
LEMMA OnTrackSilent ==
  ASSUME NEW s \in Syncs,
         \/ pc'[s] = "failed"
         \/ pc'[s] \in {"idle", "prepare"} /\ diverged'[s] = {} /\ heldBack'[s] = {}
  PROVE  OnTrack(s)'
BY DEF OnTrack, NothingNamed, HasTheGuests, HasTheHubs, MadeTheHub, HubCatchesUp,
   GuestCatchesUp, ToldTheTruth, Outbound, Inbound

LEMMA OnTrackStep ==
  ASSUME TypeOK, Quiet, BoxesApart, ProjectsApart, SyncedIsPresent, BranchRead,
         UnmadeIsEmpty, [Next]_vars, NEW s \in Syncs, OnTrack(s)
  PROVE  OnTrack(s)'
<1>1. CASE Running(s) /\ Undisturbed(s)
  <2>1. CheckoutsApart
    BY DEF BoxesApart, CheckoutsApart
  <2> QED BY <1>1, <2>1, OnTrackUndisturbed DEF Undisturbed
<1>2. CASE Running(s) /\ Progress(s)
  <2>1. CASE Cleanup(s)
    BY <2>1, OnTrackSilent DEF Cleanup, Forget, TypeOK, SyncsOK
  <2> QED BY <1>2, <2>1, OnTrackOutbound, OnTrackWriteHub, OnTrackInbound,
             OnTrackWriteGuest, OnTrackFinish DEF Progress
<1>3. CASE Fail(s)
  BY <1>3, OnTrackSilent DEF Fail, TypeOK, SyncsOK
<1>4. CASE Crash(s)
  BY <1>4, OnTrackSilent DEF Crash, Forget, TypeOK, SyncsOK
<1>5. CASE ~Running(s) /\ ~Running(s)'
  <2>1. diverged[s] = {} /\ heldBack[s] = {} /\ pc'[s] = "idle" /\ pc[s] = "idle"
    BY <1>5 DEF Running, OnTrack, NothingNamed
  <2>2. diverged'[s] = diverged[s] /\ heldBack'[s] = heldBack[s]
    <3>1. ASSUME NEW t \in Syncs, Progress(t)
          PROVE  diverged'[s] = diverged[s] /\ heldBack'[s] = heldBack[s]
      <4>1. CASE t = s
        BY <2>1, <3>1, <4>1 DEF Progress, PrepareStaging, CheckHistory, BundleGuest,
           CopyFromGuest, FindHub, MakeHub, FetchIntoHub, PlanOutbound, UpdateHubRef,
           ReadHubHead, ListHubBranches, PointHubHead, AfterHead, BundleHub, CopyToGuest,
           FetchIntoGuest, PlanInbound, ReadBranch,
           UpdateGuestRef, FastForward, FinishInbound, Cleanup, Goto
      <4> QED BY <3>1, <4>1, SyncTouches DEF SameJob
    <3>2. ASSUME NEW t \in Syncs, Crash(t)
          PROVE  diverged'[s] = diverged[s] /\ heldBack'[s] = heldBack[s]
      BY <2>1, <3>2 DEF Crash, Forget, TypeOK, SyncsOK
    <3>3. ASSUME NEW t \in Syncs, Fail(t) PROVE UNCHANGED <<diverged, heldBack>>
      BY <3>3 DEF Fail, KeepReport
    <3>4. ASSUME NEW t \in Syncs, NEW b \in Boxes, NEW p \in Projects, Start(t, b, p)
          PROVE  UNCHANGED <<diverged, heldBack>>
      BY <3>4 DEF Start, KeepReport
    <3>5. ASSUME NEW b \in Boxes, CheckoutStep(b)
          PROVE  UNCHANGED <<diverged, heldBack>>
      BY <3>5, CheckoutKeeps DEF syncVars
    <3>6. CASE UNCHANGED vars
      BY <3>6 DEF vars, syncVars
    <3> QED BY <3>1, <3>2, <3>3, <3>4, <3>5, <3>6 DEF Next, CheckoutStep, Attaching
  <2> QED BY <2>1, <2>2, OnTrackSilent
<1>6. CASE ~Running(s) /\ Running(s)'
  <2>1. PICK b \in Boxes, p \in Projects : Start(s, b, p)
    BY <1>6, Beginning
  <2>2. diverged[s] = {} /\ heldBack[s] = {}
    BY <1>6 DEF Running, OnTrack, NothingNamed
  <2> QED BY <2>1, <2>2, OnTrackSilent DEF Start, Goto, KeepReport, TypeOK, SyncsOK
<1> QED BY <1>1, <1>2, <1>3, <1>4, <1>5, <1>6, OthersTouch

\* As long as agents leave a checkout that is being synced alone and no two
\* syncs share a box or a project, what a sync that returned no error reported
\* is so when it returns: every ref on which the two sides still differ is named
\* as diverged or as held back, and none is named otherwise, wherever other
\* syncs fail, are killed and are run again.
THEOREM ReportsAreTrue ==
  Quiet /\ "box" \notin Overlap /\ "project" \notin Overlap /\ Spec => []ReportIsTrue
<1> DEFINE IInv == /\ TypeOK /\ BoxesApart /\ ProjectsApart /\ SyncedIsPresent /\ BranchRead
                   /\ UnmadeIsEmpty /\ \A s \in Syncs : OnTrack(s)
<1> SUFFICES ASSUME Quiet, "box" \notin Overlap, "project" \notin Overlap
             PROVE  Spec => []ReportIsTrue
  OBVIOUS
<1>1. Init => IInv
  <2> SUFFICES ASSUME Init PROVE IInv
    OBVIOUS
  <2>1. TypeOK
    BY InitTypeOK
  <2>2. BoxesApart /\ ProjectsApart /\ SyncedIsPresent /\ BranchRead /\ UnmadeIsEmpty
    BY DEF Init, BoxesApart, ProjectsApart, SyncedIsPresent, BranchRead, UnmadeIsEmpty,
       Running
  <2>3. ASSUME NEW s \in Syncs PROVE OnTrack(s)
    BY DEF Init, OnTrack, NothingNamed, HasTheGuests, HasTheHubs, MadeTheHub, HubCatchesUp,
       GuestCatchesUp, ToldTheTruth, Outbound, Inbound
  <2> QED BY <2>1, <2>2, <2>3
<1>2. IInv /\ [Next]_vars => IInv'
  <2> SUFFICES ASSUME IInv, [Next]_vars PROVE IInv'
    OBVIOUS
  <2>1. \A s \in Syncs : OnTrack(s)'
    BY OnTrackStep
  <2>2. UnmadeIsEmpty'
    BY UnmadeIsEmptyStep DEF OnTrack
  <2> QED BY <2>1, <2>2, TypeStep, ApartStep, SyncedIsPresentStep, BranchReadStep
<1>3. IInv => ReportIsTrue
  <2> SUFFICES ASSUME NEW s \in Syncs, OnTrack(s), pc[s] = "finished", NEW r \in Refs
               PROVE  /\ r \in diverged[s] <=> /\ ~(Here(s)[r] \subseteq There(s)[r])
                                               /\ ~(There(s)[r] \subseteq Here(s)[r])
                      /\ r \in heldBack[s] <=> /\ Here(s)[r] # There(s)[r]
                                               /\ Here(s)[r] \subseteq There(s)[r]
                      /\ Here(s)[r] # There(s)[r] =>
                           Here(s)[r] \subseteq There(s)[r] \/ r \in diverged[s]
    BY DEF ReportIsTrue, Here, There
  <2>1. /\ diverged[s] = Divergences(Here(s), There(s))
        /\ r \in heldBack[s] <=> Behind(Here(s)[r], There(s)[r])
        /\ ~Behind(There(s)[r], Here(s)[r])
    BY DEF OnTrack, ToldTheTruth
  <2> QED BY <2>1 DEF Behind, Divergences
<1> QED BY <1>1, <1>2, <1>3, PTL DEF Spec
=============================================================================
