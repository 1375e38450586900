------------------------------ MODULE BrainSync ------------------------------
(***************************************************************************)
(* `torio brain sync`: the reconciliation of the vault in a box with the   *)
(* one the host keeps, both ways (internal/brain/sync.go, ADR-0025).  A    *)
(* rebind of the hub runs two of them on its own (ADR-0026).               *)
(*                                                                         *)
(* The hub vault is the operator's: a conflict is resolved in it with      *)
(* ordinary Git, while syncs go on running.  Agents write into a vault and *)
(* never commit.                                                           *)
(*                                                                         *)
(* A history is a set: of notes, of the roots `brain init` made, and of    *)
(* Markers when a stopped merge was committed as it stood.  Two histories  *)
(* merge to their union and one is an ancestor of another when it is a     *)
(* subset of it.  The two copies of a bundle and what surrounds them have  *)
(* no branch but an error and go with the `bundle create` before them.     *)
(***************************************************************************)
EXTENDS Naturals, FiniteSets

CONSTANTS
  Boxes,      \* the guests; a box also names the root of the vault made in it
  Notes,      \* what agents and the operator write
  Markers,    \* conflict markers in a committed file
  Syncs,      \* the invocations that may be running
  Meddle      \* somebody edits the files of a merge that was left to be resolved

Steps == {"idle", "snapshot", "bundle", "findHub", "clone", "detach", "fetchHub",
          "mergeHub", "abortHub", "bundleHub", "fetchGuest", "mergeGuest",
          "abortGuest", "finished"}

ASSUME MarkersAssumption  == Markers \notin Boxes \cup Notes /\ "none" \notin Boxes
ASSUME OperatorAssumption == Meddle \in BOOLEAN

Histories == SUBSET (Boxes \cup Notes \cup {Markers})
Vaults    == [main : Histories, work : SUBSET Notes,
              merging : Histories, resolution : SUBSET Notes]
Nowhere   == [main |-> {}, work |-> {}, merging |-> {}, resolution |-> {}]

VARIABLES
  vault,     \* vault[b]: its main branch, what is written and not committed, the
             \* other side of a merge that stopped, and the edits to its files
  hub,       \* the same of the hub vault
  origin,    \* the hub vault has a configured remote
  replica,   \* replica[b]: refs/torio/<b> in the hub vault
  seen,      \* seen[b]: refs/torio/hub in the vault of b
  written,   \* the notes written so far

  pc,        \* pc[s]: the next step of sync s
  box,       \* box[s]: the box it reconciles
  dirty,     \* dirty[s]: the git state its status report held
  carried,   \* carried[s]: the bundle under way
  conflict,  \* conflict[s]: report.ConflictOutbound and report.ConflictInbound
  held       \* held[s]: what its box and the hub held when it began

vaultVars == <<vault, hub, origin, replica, seen, written>>
syncVars  == <<box, dirty, carried, conflict, held>>
vars      == <<vaultVars, pc, syncVars>>

Initialized(v) == v.main # {}
Unsaved(v)     == v.work # {} \/ v.merging # {}
Running(s)     == pc[s] # "idle"
Goto(s, from, to) == pc[s] = from /\ pc' = [pc EXCEPT ![s] = to]

Init ==
  /\ vault    = [b \in Boxes |-> Nowhere]
  /\ hub      = Nowhere
  /\ origin   = FALSE
  /\ replica  = [b \in Boxes |-> {}]
  /\ seen     = [b \in Boxes |-> {}]
  /\ written  = {}
  /\ pc       = [s \in Syncs |-> "idle"]
  /\ box      = [s \in Syncs |-> "none"]
  /\ dirty    = [s \in Syncs |-> FALSE]
  /\ carried  = [s \in Syncs |-> {}]
  /\ conflict = [s \in Syncs |-> {}]
  /\ held     = [s \in Syncs |-> [box |-> {}, hub |-> {}]]

----------------------------------------------------------------------------
(* Git. *)

\* Fault: the merge takes the other side.
TakeTheirs(mine, theirs) == theirs

Joined(mine, theirs) == mine \cup theirs

\* `git merge` exits with an error where it stops on a conflict ...
Conflicts(v, theirs) ==
  /\ v.merging = {}
  /\ ~(v.main \subseteq theirs) /\ ~(theirs \subseteq v.main)

\* ... and where it does not start: another merge is not concluded, or files it
\* would write are changed.
Refused(v, theirs) ==
  v.merging # {} \/ (v.work # {} /\ ~(theirs \subseteq v.main))

\* `git merge --abort`: whoever started the merge.
Aborted(v) == [v EXCEPT !.merging = {}, !.resolution = {}]

Everything(v) == v.main \cup v.work \cup v.merging \cup v.resolution

\* `git add -A` and `git commit`: a stopped merge is concluded as it stands.
Committed(v) ==
  [Nowhere EXCEPT !.main = Everything(v) \cup (IF v.merging = {} THEN {} ELSE {Markers})]

----------------------------------------------------------------------------
(* A sync. *)

\* Sync up to the staging.  The status is read here and used in the snapshot.
\* Two syncs of one box do not overlap: that is the operator's doing, the code
\* does not keep them apart.
Start(s, b) ==
  /\ ~Running(s)
  /\ \A t \in Syncs : box[t] # b
  /\ Initialized(vault[b])
  /\ pc'    = [pc EXCEPT ![s] = "snapshot"]
  /\ box'   = [box EXCEPT ![s] = b]
  /\ dirty' = [dirty EXCEPT ![s] = Unsaved(vault[b])]
  /\ held'  = [held EXCEPT ![s] = [box |-> vault[b].main \cup vault[b].work,
                                   hub |-> hub.main]]
  /\ UNCHANGED <<vaultVars, carried, conflict>>

\* Fault: what the agent left unsaved stays behind.
SnapshotNothing(s) ==
  /\ Goto(s, "snapshot", "bundle")
  /\ UNCHANGED <<vaultVars, syncVars>>

\* snapshotGuestVault
Snapshot(s) ==
  /\ Goto(s, "snapshot", "bundle")
  /\ vault' = IF dirty[s] THEN [vault EXCEPT ![box[s]] = Committed(@)] ELSE vault
  /\ UNCHANGED <<hub, origin, replica, seen, written, syncVars>>

BundleGuest(s) ==
  /\ Goto(s, "bundle", "findHub")
  /\ carried' = [carried EXCEPT ![s] = vault[box[s]].main]
  /\ UNCHANGED <<vaultVars, box, dirty, conflict, held>>

\* Fault: a hub is taken to be there.
FindHubAlways(s) ==
  /\ Goto(s, "findHub", "fetchHub")
  /\ UNCHANGED <<vaultVars, syncVars>>

\* ensureHubVault: whether the hub is there ...
FindHub(s) ==
  /\ Goto(s, "findHub", IF Initialized(hub) THEN "fetchHub" ELSE "clone")
  /\ UNCHANGED <<vaultVars, syncVars>>

\* ... and if not, a clone, which Git refuses where one has appeared since ...
CloneHub(s) ==
  /\ Goto(s, "clone", "detach")
  /\ ~Initialized(hub)
  /\ hub'    = [Nowhere EXCEPT !.main = carried[s]]
  /\ origin' = TRUE
  /\ UNCHANGED <<vault, replica, seen, written, syncVars>>

\* ... without the remote it records.  Such a hub has all there is.
DetachHub(s) ==
  /\ Goto(s, "detach", "bundleHub")
  /\ origin
  /\ origin' = FALSE
  /\ UNCHANGED <<vault, hub, replica, seen, written, syncVars>>

\* The fetch is not forced: it fails unless it moves the ref forward.  With no
\* commit ahead there is no merge.
FetchHub(s) ==
  /\ Goto(s, "fetchHub", IF carried[s] \subseteq hub.main THEN "bundleHub" ELSE "mergeHub")
  /\ replica[box[s]] \subseteq carried[s]
  /\ replica' = [replica EXCEPT ![box[s]] = carried[s]]
  /\ UNCHANGED <<vault, hub, origin, seen, written, syncVars>>

\* mergeHost
MergeHub(s) ==
  LET theirs == replica[box[s]]
  IN  /\ \/ /\ Goto(s, "mergeHub", "bundleHub")
            /\ hub.merging = {}
            /\ hub' = [hub EXCEPT !.main = Joined(@, theirs)]
         \/ /\ Goto(s, "mergeHub", "abortHub")
            /\ Conflicts(hub, theirs)
            /\ hub' = [hub EXCEPT !.merging = theirs]
         \/ /\ Goto(s, "mergeHub", "abortHub")
            /\ Refused(hub, theirs)
            /\ UNCHANGED hub
      /\ UNCHANGED <<vault, origin, replica, seen, written, syncVars>>

\* The merge that failed is abandoned; there has to be one to abandon.
AbortHub(s) ==
  /\ Goto(s, "abortHub", "bundleHub")
  /\ hub.merging # {}
  /\ hub' = Aborted(hub)
  /\ conflict' = [conflict EXCEPT ![s] = @ \cup {"toHub"}]
  /\ UNCHANGED <<vault, origin, replica, seen, written, box, dirty, carried, held>>

BundleHub(s) ==
  /\ Goto(s, "bundleHub", "fetchGuest")
  /\ carried' = [carried EXCEPT ![s] = hub.main]
  /\ UNCHANGED <<vaultVars, box, dirty, conflict, held>>

FetchGuest(s) ==
  /\ Goto(s, "fetchGuest",
          IF carried[s] \subseteq vault[box[s]].main THEN "finished" ELSE "mergeGuest")
  /\ seen[box[s]] \subseteq carried[s]
  /\ seen' = [seen EXCEPT ![box[s]] = carried[s]]
  /\ UNCHANGED <<vault, hub, origin, replica, written, syncVars>>

\* mergeGuest
MergeGuest(s) ==
  LET b == box[s]
      theirs == seen[b]
  IN  /\ \/ /\ Goto(s, "mergeGuest", "finished")
            /\ vault[b].merging = {}
            /\ vault' = [vault EXCEPT ![b].main = Joined(@, theirs)]
         \/ /\ Goto(s, "mergeGuest", "abortGuest")
            /\ Conflicts(vault[b], theirs)
            /\ vault' = [vault EXCEPT ![b].merging = theirs]
         \/ /\ Goto(s, "mergeGuest", "abortGuest")
            /\ Refused(vault[b], theirs)
            /\ UNCHANGED vault
      /\ UNCHANGED <<hub, origin, replica, seen, written, syncVars>>

\* Fault: the conflict is reported and the merge left as it stopped.
AbortGuestLater(s) ==
  /\ Goto(s, "abortGuest", "finished")
  /\ conflict' = [conflict EXCEPT ![s] = @ \cup {"toGuest"}]
  /\ UNCHANGED <<vaultVars, box, dirty, carried, held>>

AbortGuest(s) ==
  /\ Goto(s, "abortGuest", "finished")
  /\ vault[box[s]].merging # {}
  /\ vault' = [vault EXCEPT ![box[s]] = Aborted(@)]
  /\ conflict' = [conflict EXCEPT ![s] = @ \cup {"toGuest"}]
  /\ UNCHANGED <<hub, origin, replica, seen, written, box, dirty, carried, held>>

Forget(s) ==
  /\ pc'       = [pc EXCEPT ![s] = "idle"]
  /\ box'      = [box EXCEPT ![s] = "none"]
  /\ dirty'    = [dirty EXCEPT ![s] = FALSE]
  /\ carried'  = [carried EXCEPT ![s] = {}]
  /\ conflict' = [conflict EXCEPT ![s] = {}]
  /\ held'     = [held EXCEPT ![s] = [box |-> {}, hub |-> {}]]

Return(s) == pc[s] = "finished" /\ Forget(s) /\ UNCHANGED vaultVars

\* A command fails, the operator cancels, the process is killed: what was done
\* stays done.
Stop(s) == Running(s) /\ Forget(s) /\ UNCHANGED vaultVars

Step(s) ==
  \/ Snapshot(s) \/ BundleGuest(s)
  \/ FindHub(s) \/ CloneHub(s) \/ DetachHub(s)
  \/ FetchHub(s) \/ MergeHub(s) \/ AbortHub(s)
  \/ BundleHub(s) \/ FetchGuest(s) \/ MergeGuest(s) \/ AbortGuest(s)
  \/ Return(s) \/ Stop(s)

----------------------------------------------------------------------------
(* The agents and the operator. *)

\* `torio brain init`: a root of the box's own, unrelated to any other.
ScaffoldVault(b) ==
  /\ ~Initialized(vault[b])
  /\ vault' = [vault EXCEPT ![b].main = {b}]
  /\ UNCHANGED <<hub, origin, replica, seen, written, pc, syncVars>>

\* Somebody writes a note: in any file, or in one of a merge that was left to be
\* resolved, which one about to be aborted is not.
Edited(v, n, left) ==
  {[v EXCEPT !.work = @ \cup {n}]}
    \cup (IF Meddle /\ v.merging # {} /\ left
          THEN {[v EXCEPT !.resolution = @ \cup {n}]} ELSE {})

AgentEdits(b, n) ==
  /\ Initialized(vault[b])
  /\ n \notin written
  /\ written' = written \cup {n}
  /\ \E v \in Edited(vault[b], n, \A s \in Syncs : box[s] = b => pc[s] # "abortGuest") :
       vault' = [vault EXCEPT ![b] = v]
  /\ UNCHANGED <<hub, origin, replica, seen, pc, syncVars>>

OperatorEdits(n) ==
  /\ Initialized(hub)
  /\ n \notin written
  /\ written' = written \cup {n}
  /\ hub' \in Edited(hub, n, \A s \in Syncs : pc[s] # "abortHub")
  /\ UNCHANGED <<vault, origin, replica, seen, pc, syncVars>>

\* `git merge refs/torio/<b>` in the hub vault, the first half of a resolution.
OperatorMerges(b) ==
  /\ Initialized(hub)
  /\ hub.merging = {}
  /\ \/ hub' = [hub EXCEPT !.main = Joined(@, replica[b])]
     \/ Conflicts(hub, replica[b]) /\ hub' = [hub EXCEPT !.merging = replica[b]]
  /\ UNCHANGED <<vault, origin, replica, seen, written, pc, syncVars>>

\* `git commit -a` in it: a stopped merge is concluded, resolved.
OperatorCommits ==
  /\ Unsaved(hub)
  /\ hub' = [Nowhere EXCEPT !.main = Everything(hub)]
  /\ UNCHANGED <<vault, origin, replica, seen, written, pc, syncVars>>

Next ==
  \/ \E s \in Syncs : (\E b \in Boxes : Start(s, b)) \/ Step(s)
  \/ \E b \in Boxes : ScaffoldVault(b) \/ OperatorMerges(b)
  \/ \E n \in Notes : OperatorEdits(n) \/ \E b \in Boxes : AgentEdits(b, n)
  \/ OperatorCommits

Spec == Init /\ [][Next]_vars

----------------------------------------------------------------------------
(* What the reconciliation promises. *)

\* The shape of the vaults, the hub and the running syncs, where a hub that was
\* never made is empty and no ref of it is written.
VaultsOK ==
  /\ vault   \in [Boxes -> Vaults]
  /\ hub     \in Vaults
  /\ origin  \in BOOLEAN
  /\ replica \in [Boxes -> Histories]
  /\ seen    \in [Boxes -> Histories]
  /\ written \subseteq Notes
HubOK ==
  ~Initialized(hub) => hub = Nowhere /\ ~origin /\ \A b \in Boxes : replica[b] = {}
SyncsOK ==
  /\ pc       \in [Syncs -> Steps]
  /\ box      \in [Syncs -> Boxes \cup {"none"}]
  /\ dirty    \in [Syncs -> BOOLEAN]
  /\ carried  \in [Syncs -> Histories]
  /\ conflict \in [Syncs -> SUBSET {"toHub", "toGuest"}]
  /\ held     \in [Syncs -> [box : Histories, hub : Histories]]
  /\ \A s \in Syncs : Running(s) <=> box[s] \in Boxes
TypeOK == VaultsOK /\ HubOK /\ SyncsOK

\* What somebody put into a vault, whether it is committed or not.
Held(v) == v.main \cup v.work \cup v.resolution

\* No step of a sync drops anything anybody wrote, from a vault or from the hub,
\* with other syncs running and agents and the operator writing (ADR-0026, "a
\* failed direction leaves that direction exactly as it was").
NotesKept ==
  [][/\ Held(hub) \subseteq Held(hub')
     /\ \A b \in Boxes : Held(vault[b]) \subseteq Held(vault'[b])]_vars

\* A sync that returns has reconciled both ways, but for a direction it reports
\* a conflict in: the hub holds all the box had when the sync began, unsaved
\* work included, and the box all the hub had.
ReportIsTrue ==
  \A s \in Syncs : pc[s] = "finished" =>
    /\ "toHub" \notin conflict[s] => held[s].box \subseteq hub.main
    /\ "toGuest" \notin conflict[s] => held[s].hub \subseteq vault[box[s]].main

\* A merge that stopped in a box is left there, for the snapshot of a later sync
\* to commit, only by a sync that ends where it is about to abort the merge; and
\* nothing else brings a conflict marker into any history (mergeGuest,
\* snapshotGuestVault).
NoMarkers == Markers \notin hub.main /\ \A b \in Boxes : Markers \notin vault[b].main
Stranded(b) == vault[b].merging # {} /\ \A s \in Syncs : box[s] = b => pc[s] # "abortGuest"
MarkersNeedAStop ==
  [][/\ \A b \in Boxes : Stranded(b)' =>
          Stranded(b) \/ \E s \in Syncs : box[s] = b /\ pc[s] = "abortGuest" /\ pc'[s] = "idle"
     /\ NoMarkers => NoMarkers' \/ \E b \in Boxes : Stranded(b)]_vars

\* What the operator has edited to resolve a conflict in the hub stays there, and
\* is committed with the merge: no sync takes it away (mergeHost, "aborted,
\* leaving that side exactly as it was"; ADR-0025, "resolved by the operator").
ResolutionKept == [][hub.resolution \subseteq hub'.main \cup hub'.resolution]_vars
=============================================================================
