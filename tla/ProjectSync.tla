----------------------------- MODULE ProjectSync -----------------------------
(***************************************************************************)
(* `torio project sync`: the reconciliation of a local project's checkout  *)
(* in a box with the bare repository the host keeps for it                 *)
(* (internal/projects/sync.go, internal/projects/bundle.go, ADR-0029).     *)
(*                                                                         *)
(* Each invocation of the command is a process of its own: nothing in the  *)
(* code keeps two of them apart, and nothing keeps the agents that work in *)
(* the checkouts still while one runs.  Which overlaps the operator lets   *)
(* happen is therefore a parameter, Overlap and Quiet, and not a guard of  *)
(* the code.  The same goes for attachments, which clone from the host     *)
(* repository; in one box there is one of them at a time.                  *)
(*                                                                         *)
(* A commit is the set of commits reachable from it, itself included, so   *)
(* `merge-base --is-ancestor a b` is a \subseteq b and a merge is a union  *)
(* with one commit more.  A ref that does not exist has the value {}.      *)
(***************************************************************************)
EXTENDS Naturals, FiniteSets

CONSTANTS
  Boxes,        \* the guests, one per backend
  Projects,     \* the local projects: registry entries with no remote
  Refs,         \* the names under refs/heads and refs/tags, in sorted order
  Tags,         \* those of them under refs/tags
  Main,         \* heads/main
  Syncs,        \* the invocations of `torio project sync` that may be running
  MaxCommits,   \* how many commits are ever made in one project
  Overlap,      \* what may run at once: Syncs that share a "box", Syncs
                \* that share a "project", an "attach" beside a sync
  Quiet         \* agents leave a checkout alone while it is being synced

ASSUME RefsAssumption ==
  /\ Refs \subseteq Nat \ {0}
  /\ Tags \subseteq Refs
  /\ Main \in Refs \ Tags
ASSUME OperatorAssumption ==
  /\ Overlap \subseteq {"box", "project", "attach"}
  /\ Quiet \in BOOLEAN
ASSUME BoundAssumption == MaxCommits \in Nat

Branches == Refs \ Tags
Detached == 0           \* a HEAD that names no branch
None     == "none"      \* the box or the project of a sync that is not running

CommitsOf(p) == {p} \X (1 .. MaxCommits)
Commits      == SUBSET (Projects \X (1 .. MaxCommits))
RefMaps      == [Refs -> Commits]
NoRefs       == [r \in Refs |-> {}]

VARIABLES
  guest,     \* guest[b][p][r]: the refs of the checkout of p in box b
  present,   \* present[b]: the projects box b holds a checkout of
  head,      \* head[b][p]: the branch the checkout stands on, or Detached
  tree,      \* tree[b][p]: the commit the working tree and the index are at
  seen,      \* seen[b][p][r]: refs/torio/hub in the checkout
  minted,    \* minted[p]: how many commits of p have been made
  attach,    \* attach[b]: the attachment from a host repository under way in b

  hubMade,   \* the projects whose host repository has been initialized
  hub,       \* hub[p][r]: the refs of p's host repository
  hubHead,   \* hubHead[p]: the branch its HEAD names
  mirror,    \* mirror[p][b][r]: refs/torio/<b> in it

  staging,   \* staging[b]: the one sync staging directory of box b

  pc,        \* pc[s]: the next step of sync s
  box,       \* box[s]: the box the command was pointed at
  proj,      \* proj[s]: the project it was given
  carried,   \* carried[s]: the bundle in its private host staging
  todo,      \* todo[s][r]: the target of the ref update still to be made
  branch,    \* branch[s]: the branch it chose for HEAD, later the checked-out one
  created,   \* created[s]: report.HubCreated
  diverged,  \* diverged[s]: report.Diverged
  heldBack   \* heldBack[s]: report.HeldBack

agentVars == <<guest, present, head, tree, seen, minted, attach>>
hubVars   == <<hubMade, hub, hubHead, mirror>>
syncVars  == <<pc, box, proj, carried, todo, branch, created, diverged, heldBack>>
vars      == <<agentVars, hubVars, staging, syncVars>>

----------------------------------------------------------------------------
(* The decision: what moves, and what is named. *)

\* Fault: every ref that differs is written, as a forced fetch would.
RefPlansForced(mine, theirs) ==
  [r \in Refs |-> IF mine[r] # theirs[r] THEN theirs[r] ELSE {}]

\* planRefUpdates: a ref moves where this side has not got it, or where what
\* this side holds is an ancestor of what is arriving.
RefPlans(mine, theirs) ==
  [r \in Refs |-> IF mine[r] # theirs[r] /\ mine[r] \subseteq theirs[r]
                  THEN theirs[r] ELSE {}]

\* Fault: a ref the other side is merely behind on is named too.
DivergencesOrBehind(mine, theirs) == {r \in Refs : ~(mine[r] \subseteq theirs[r])}

\* ... and is named where neither side contains the other.
Divergences(mine, theirs) ==
  {r \in Refs : ~(mine[r] \subseteq theirs[r]) /\ ~(theirs[r] \subseteq mine[r])}

\* sortedRefNames: r is the first ref a plan still has to write.
IsNext(plan, r) ==
  /\ plan[r] # {}
  /\ \A q \in Refs : plan[q] # {} => r <= q

\* Fault: the conventional name is taken without looking for it.
MainAnyway(refs) == Main

\* Fault: the tags are listed with the branches.
FirstOfAnyKind(refs) ==
  LET held == {r \in Refs : refs[r] # {}}
  IN  IF held = {} THEN Detached ELSE CHOOSE r \in held : \A q \in held : r <= q

\* preferredBranch: main if there is one, otherwise the first, Detached if there
\* is none.  (The code tries master second: a name that is not among Refs.)
PreferredBranch(refs) ==
  LET held == {r \in Branches : refs[r] # {}}
  IN  IF Main \in held THEN Main
      ELSE IF held = {} THEN Detached
      ELSE CHOOSE r \in held : \A q \in held : r <= q

----------------------------------------------------------------------------
NoStaging == [made |-> FALSE, fromGuest |-> NoRefs, fromHub |-> NoRefs]
Stagings  == [made : BOOLEAN, fromGuest : RefMaps, fromHub : RefMaps]

\* refs and branch of an attachment: what its bundle carries, and the branch it
\* chose for HEAD, later the one the bundle's HEAD names.
NoAttach    == [at |-> "idle", proj |-> None, branch |-> Detached, refs |-> NoRefs]
Attachments ==
  [at : {"idle", "headHub", "listHub", "pointHub", "bundle", "clone"},
   proj : Projects \cup {None}, branch : Branches \cup {Detached}, refs : RefMaps]

Steps == {"idle", "prepare", "history", "bundle", "copyOut", "findHub", "makeHub",
          "fetchHub", "planHub", "writeHub", "listHub", "pointHub", "bundleHub",
          "copyIn", "fetchGuest", "planGuest", "readBranch", "writeGuest", "finished", "failed"}

Running(s) == pc[s] # "idle"

Init ==
  /\ guest   = [b \in Boxes |-> [p \in Projects |-> NoRefs]]
  /\ present = [b \in Boxes |-> {}]
  /\ head    = [b \in Boxes |-> [p \in Projects |-> Main]]
  /\ tree    = [b \in Boxes |-> [p \in Projects |-> {}]]
  /\ seen    = [b \in Boxes |-> [p \in Projects |-> NoRefs]]
  /\ minted  = [p \in Projects |-> 0]
  /\ attach  = [b \in Boxes |-> NoAttach]
  /\ hubMade = {}
  /\ hub     = [p \in Projects |-> NoRefs]
  /\ hubHead = [p \in Projects |-> Main]
  /\ mirror  = [p \in Projects |-> [b \in Boxes |-> NoRefs]]
  /\ staging = [b \in Boxes |-> NoStaging]
  /\ pc       = [s \in Syncs |-> "idle"]
  /\ box      = [s \in Syncs |-> None]
  /\ proj     = [s \in Syncs |-> None]
  /\ carried  = [s \in Syncs |-> NoRefs]
  /\ todo     = [s \in Syncs |-> NoRefs]
  /\ branch   = [s \in Syncs |-> Detached]
  /\ created  = [s \in Syncs |-> FALSE]
  /\ diverged = [s \in Syncs |-> {}]
  /\ heldBack = [s \in Syncs |-> {}]

Goto(s, from, to) == pc[s] = from /\ pc' = [pc EXCEPT ![s] = to]

\* Between two steps a sync keeps everything but its program counter and what
\* the step names.
KeepJob    == UNCHANGED <<box, proj>>
KeepReport == UNCHANGED <<created, diverged, heldBack>>

----------------------------------------------------------------------------
(* Outbound: the checkout's refs to the host repository. *)

MayOverlap(b, p) ==
  /\ \A t \in Syncs : Running(t) =>
       /\ box[t] = b  => "box" \in Overlap
       /\ proj[t] = p => "project" \in Overlap
  /\ "attach" \in Overlap \/ \A c \in Boxes : attach[c] = NoAttach

\* Sync up to its deferred cleanup: a box with no checkout of the project is
\* refused before anything is touched.
Start(s, b, p) ==
  /\ p \in present[b]
  /\ MayOverlap(b, p)
  /\ Goto(s, "idle", "prepare")
  /\ box'  = [box EXCEPT ![s] = b]
  /\ proj' = [proj EXCEPT ![s] = p]
  /\ UNCHANGED <<agentVars, hubVars, staging, carried, todo, branch>>
  /\ KeepReport

\* prepareSyncStaging: clear what is there, make the directory.
PrepareStaging(s) ==
  /\ Goto(s, "prepare", "history")
  /\ staging' = [staging EXCEPT ![box[s]] = [NoStaging EXCEPT !.made = TRUE]]
  /\ UNCHANGED <<agentVars, hubVars, carried, todo, branch>>
  /\ KeepJob /\ KeepReport

\* guestHasHistory, and the way on when there is none.
CheckHistory(s) ==
  /\ Goto(s, "history", IF guest[box[s]][proj[s]] # NoRefs THEN "bundle"
                         ELSE IF proj[s] \in hubMade THEN "bundleHub" ELSE "finished")
  /\ UNCHANGED <<agentVars, hubVars, staging, carried, todo, branch>>
  /\ KeepJob /\ KeepReport

\* `git bundle create`, which refuses to write an empty bundle.
BundleGuest(s) ==
  /\ Goto(s, "bundle", "copyOut")
  /\ staging[box[s]].made
  /\ guest[box[s]][proj[s]] # NoRefs
  /\ staging' = [staging EXCEPT ![box[s]].fromGuest = guest[box[s]][proj[s]]]
  /\ UNCHANGED <<agentVars, hubVars, carried, todo, branch>>
  /\ KeepJob /\ KeepReport

\* CopyFromGuest, and the check that the bundle arrived.
CopyFromGuest(s) ==
  /\ Goto(s, "copyOut", "findHub")
  /\ staging[box[s]].fromGuest # NoRefs
  /\ carried' = [carried EXCEPT ![s] = staging[box[s]].fromGuest]
  /\ UNCHANGED <<agentVars, hubVars, staging, todo, branch>>
  /\ KeepJob /\ KeepReport

\* ensureHubRepository, hubExists: a host repository is one that has a HEAD.
FindHub(s) ==
  /\ Goto(s, "findHub", IF proj[s] \in hubMade THEN "fetchHub" ELSE "makeHub")
  /\ created' = [created EXCEPT ![s] = proj[s] \notin hubMade]
  /\ UNCHANGED <<agentVars, hubVars, staging, carried, todo, branch, diverged, heldBack>>
  /\ KeepJob

\* ensureHubRepository, init --bare: run on a repository, it leaves the refs.
MakeHub(s) ==
  /\ Goto(s, "makeHub", "fetchHub")
  /\ hubMade' = hubMade \cup {proj[s]}
  /\ UNCHANGED <<agentVars, hub, hubHead, mirror, staging, carried, todo, branch>>
  /\ KeepJob /\ KeepReport

\* The forced and pruned fetch into this box's own namespace.
FetchIntoHub(s) ==
  /\ Goto(s, "fetchHub", "planHub")
  /\ mirror' = [mirror EXCEPT ![proj[s]][box[s]] = carried[s]]
  /\ UNCHANGED <<agentVars, hubMade, hub, hubHead, staging, carried, todo, branch>>
  /\ KeepJob /\ KeepReport

\* The two ref lists and planRefUpdates over them.
PlanOutbound(s) ==
  LET ours   == hub[proj[s]]
      theirs == mirror[proj[s]][box[s]]
  IN  /\ Goto(s, "planHub", "writeHub")
      /\ todo' = [todo EXCEPT ![s] = RefPlans(ours, theirs)]
      /\ diverged' = [diverged EXCEPT ![s] = @ \cup Divergences(ours, theirs)]
      /\ UNCHANGED <<agentVars, hubVars, staging, carried, branch, created, heldBack>>
      /\ KeepJob

\* Fault: the path of the host repository leaves out the project.
UpdateOneHub(s, r) ==
  /\ Goto(s, "writeHub", "writeHub")
  /\ IsNext(todo[s], r)
  /\ hub'  = [p \in Projects |-> [hub[p] EXCEPT ![r] = todo[s][r]]]
  /\ todo' = [todo EXCEPT ![s][r] = {}]
  /\ UNCHANGED <<agentVars, hubMade, hubHead, mirror, staging, carried, branch>>
  /\ KeepJob /\ KeepReport

\* Fault: the loop over the plans does not get past the first.
UpdateHubRefAgain(s, r) ==
  /\ Goto(s, "writeHub", "writeHub")
  /\ IsNext(todo[s], r)
  /\ hub'  = [hub EXCEPT ![proj[s]][r] = todo[s][r]]
  /\ UNCHANGED <<agentVars, hubMade, hubHead, mirror, staging, carried, todo, branch>>
  /\ KeepJob /\ KeepReport

\* One `update-ref`: the target is what the plan read, and no old value is given.
UpdateHubRef(s, r) ==
  /\ Goto(s, "writeHub", "writeHub")
  /\ IsNext(todo[s], r)
  /\ hub'  = [hub EXCEPT ![proj[s]][r] = todo[s][r]]
  /\ todo' = [todo EXCEPT ![s][r] = {}]
  /\ UNCHANGED <<agentVars, hubMade, hubHead, mirror, staging, carried, branch>>
  /\ KeepJob /\ KeepReport

\* ensureHubHead, for a sync and for an attachment: HEAD is read, the branches
\* are listed if it does not resolve, and it is pointed at one of them.
Resolves(p) == hub[p][hubHead[p]] # {}

\* A host repository this sync made is done.
AfterHead(s) == IF created[s] THEN "finished" ELSE "bundleHub"

ReadHubHead(s) ==
  /\ todo[s] = NoRefs
  /\ Goto(s, "writeHub", IF Resolves(proj[s]) THEN AfterHead(s) ELSE "listHub")
  /\ UNCHANGED <<agentVars, hubVars, staging, carried, todo, branch>>
  /\ KeepJob /\ KeepReport

ListHubBranches(s) ==
  LET first == PreferredBranch(hub[proj[s]])
  IN  /\ Goto(s, "listHub", IF first = Detached THEN AfterHead(s) ELSE "pointHub")
      /\ branch' = [branch EXCEPT ![s] = first]
      /\ UNCHANGED <<agentVars, hubVars, staging, carried, todo>>
      /\ KeepJob /\ KeepReport

\* `symbolic-ref HEAD`, wherever it points by now.
PointHubHead(s) ==
  /\ Goto(s, "pointHub", AfterHead(s))
  /\ hubHead' = [hubHead EXCEPT ![proj[s]] = branch[s]]
  /\ UNCHANGED <<agentVars, hubMade, hub, mirror, staging, carried, todo, branch>>
  /\ KeepJob /\ KeepReport

----------------------------------------------------------------------------
(* Inbound: the host repository's refs to the checkout. *)

\* The host's refs are listed and bundled; with none there is nothing to carry.
BundleHub(s) ==
  /\ Goto(s, "bundleHub", IF hub[proj[s]] = NoRefs THEN "finished" ELSE "copyIn")
  /\ carried' = [carried EXCEPT ![s] = IF hub[proj[s]] = NoRefs THEN @ ELSE hub[proj[s]]]
  /\ UNCHANGED <<agentVars, hubVars, staging, todo, branch>>
  /\ KeepJob /\ KeepReport

\* CopyToGuest and the chmod that follows it.
CopyToGuest(s) ==
  /\ Goto(s, "copyIn", "fetchGuest")
  /\ staging[box[s]].made
  /\ staging' = [staging EXCEPT ![box[s]].fromHub = carried[s]]
  /\ UNCHANGED <<agentVars, hubVars, carried, todo, branch>>
  /\ KeepJob /\ KeepReport

\* The forced and pruned fetch into refs/torio/hub.
FetchIntoGuest(s) ==
  /\ Goto(s, "fetchGuest", "planGuest")
  /\ staging[box[s]].fromHub # NoRefs
  /\ seen' = [seen EXCEPT ![box[s]][proj[s]] = staging[box[s]].fromHub]
  /\ UNCHANGED <<guest, present, head, tree, minted, attach, hubVars, staging, carried, todo, branch>>
  /\ KeepJob /\ KeepReport

\* Fault: what comes from the host wins wherever the two differ.
PlanInboundForced(s) ==
  LET mine   == guest[box[s]][proj[s]]
      theirs == seen[box[s]][proj[s]]
  IN  /\ Goto(s, "planGuest", "readBranch")
      /\ todo' = [todo EXCEPT ![s] = RefPlansForced(mine, theirs)]
      /\ UNCHANGED <<agentVars, hubVars, staging, carried, branch>>
      /\ KeepJob /\ KeepReport

PlanInbound(s) ==
  LET mine   == guest[box[s]][proj[s]]
      theirs == seen[box[s]][proj[s]]
  IN  /\ Goto(s, "planGuest", "readBranch")
      /\ todo' = [todo EXCEPT ![s] = RefPlans(mine, theirs)]
      /\ diverged' = [diverged EXCEPT ![s] = @ \cup Divergences(mine, theirs)]
      /\ UNCHANGED <<agentVars, hubVars, staging, carried, branch, created, heldBack>>
      /\ KeepJob

\* checkedOutBranch: read once, before the first write.
ReadBranch(s) ==
  /\ Goto(s, "readBranch", "writeGuest")
  /\ branch' = [branch EXCEPT ![s] = head[box[s]][proj[s]]]
  /\ UNCHANGED <<agentVars, hubVars, staging, carried, todo>>
  /\ KeepJob /\ KeepReport

\* Fault: the checked-out branch is written like any other ref.
UpdateAnyGuestRef(s, r) ==
  /\ Goto(s, "writeGuest", "writeGuest")
  /\ IsNext(todo[s], r)
  /\ guest' = [guest EXCEPT ![box[s]][proj[s]][r] = todo[s][r]]
  /\ todo'  = [todo EXCEPT ![s][r] = {}]
  /\ UNCHANGED <<present, head, tree, seen, minted, attach, hubVars, staging, carried, branch>>
  /\ KeepJob /\ KeepReport

\* Any ref but that branch: one `update-ref`.
UpdateGuestRef(s, r) ==
  /\ Goto(s, "writeGuest", "writeGuest")
  /\ IsNext(todo[s], r)
  /\ r # branch[s]
  /\ guest' = [guest EXCEPT ![box[s]][proj[s]][r] = todo[s][r]]
  /\ todo'  = [todo EXCEPT ![s][r] = {}]
  /\ UNCHANGED <<present, head, tree, seen, minted, attach, hubVars, staging, carried, branch>>
  /\ KeepJob /\ KeepReport

\* The commit HEAD stands for, whatever the working tree is at.
HeadCommit(b, p) ==
  IF head[b][p] = Detached THEN tree[b][p] ELSE guest[b][p][head[b][p]]

\* HEAD moves to commit c, and the branch it names with it.
MoveHead(b, p, c) ==
  /\ tree' = [tree EXCEPT ![b][p] = c]
  /\ guest' = IF head[b][p] = Detached THEN guest
              ELSE [guest EXCEPT ![b][p][head[b][p]] = c]

\* fastForwardCheckout: `merge --ff-only` of what the mirror holds into
\* whatever HEAD is now.  Git moves it, answers that it is up to date, or
\* refuses: because HEAD is not an ancestor, or because of work in the tree.
FastForward(s, r) ==
  LET b == box[s]
      p == proj[s]
      arriving == seen[b][p][r]
  IN  /\ Goto(s, "writeGuest", "writeGuest")
      /\ IsNext(todo[s], r)
      /\ r = branch[s]
      /\ todo' = [todo EXCEPT ![s][r] = {}]
      /\ \/ /\ HeadCommit(b, p) \subseteq arriving
            /\ MoveHead(b, p, arriving)
            /\ UNCHANGED heldBack
         \/ /\ arriving \subseteq HeadCommit(b, p)
            /\ UNCHANGED <<guest, tree, heldBack>>
         \/ /\ ~(arriving \subseteq HeadCommit(b, p))
            /\ heldBack' = [heldBack EXCEPT ![s] = @ \cup {r}]
            /\ UNCHANGED <<guest, tree>>
      /\ UNCHANGED <<present, head, seen, minted, attach, hubVars, staging, carried,
                     branch, created, diverged>>
      /\ KeepJob

FinishInbound(s) ==
  /\ todo[s] = NoRefs
  /\ Goto(s, "writeGuest", "finished")
  /\ UNCHANGED <<agentVars, hubVars, staging, carried, todo, branch>>
  /\ KeepJob /\ KeepReport

----------------------------------------------------------------------------
(* The end of a sync. *)

Forget(s) ==
  /\ pc'       = [pc EXCEPT ![s] = "idle"]
  /\ box'      = [box EXCEPT ![s] = None]
  /\ proj'     = [proj EXCEPT ![s] = None]
  /\ carried'  = [carried EXCEPT ![s] = NoRefs]
  /\ todo'     = [todo EXCEPT ![s] = NoRefs]
  /\ branch'   = [branch EXCEPT ![s] = Detached]
  /\ created'  = [created EXCEPT ![s] = FALSE]
  /\ diverged' = [diverged EXCEPT ![s] = {}]
  /\ heldBack' = [heldBack EXCEPT ![s] = {}]

\* A command fails, cannot run, or the operator cancels: Sync returns its
\* error, and nothing written so far is taken back.
Fail(s) ==
  /\ pc[s] \notin {"idle", "finished", "failed"}
  /\ pc' = [pc EXCEPT ![s] = "failed"]
  /\ UNCHANGED <<agentVars, hubVars, staging, carried, todo, branch>>
  /\ KeepJob /\ KeepReport

\* The deferred removal of the box's staging, which runs on every return.
Cleanup(s) ==
  /\ pc[s] \in {"finished", "failed"}
  /\ staging' = [staging EXCEPT ![box[s]] = NoStaging]
  /\ Forget(s)
  /\ UNCHANGED <<agentVars, hubVars>>

\* The process is killed, or its cleanup could not reach the guest.
Crash(s) ==
  /\ Running(s)
  /\ Forget(s)
  /\ UNCHANGED <<agentVars, hubVars, staging>>

\* What a sync does when every command it runs does what it was asked.
Progress(s) ==
  \/ PrepareStaging(s) \/ CheckHistory(s) \/ BundleGuest(s) \/ CopyFromGuest(s)
  \/ FindHub(s) \/ MakeHub(s) \/ FetchIntoHub(s) \/ PlanOutbound(s)
  \/ (\E r \in Refs : UpdateHubRef(s, r))
  \/ ReadHubHead(s) \/ ListHubBranches(s) \/ PointHubHead(s)
  \/ BundleHub(s) \/ CopyToGuest(s) \/ FetchIntoGuest(s) \/ PlanInbound(s)
  \/ ReadBranch(s)
  \/ (\E r \in Refs : UpdateGuestRef(s, r)) \/ (\E r \in Refs : FastForward(s, r))
  \/ FinishInbound(s) \/ Cleanup(s)

\* The next command cannot do it: the directory or the bundle it needs is gone.
CannotProceed(s) ==
  LET there == staging[box[s]]
  IN  \/ pc[s] = "bundle" /\ (~there.made \/ guest[box[s]][proj[s]] = NoRefs)
      \/ pc[s] = "copyOut" /\ there.fromGuest = NoRefs
      \/ pc[s] = "copyIn" /\ ~there.made
      \/ pc[s] = "fetchGuest" /\ there.fromHub = NoRefs

----------------------------------------------------------------------------
(* The checkouts: how they come to be, and what an agent does in one. *)

\* Add with --local: `git init`, an unborn main.
AddLocal(b, p) ==
  /\ p \notin present[b]
  /\ present' = [present EXCEPT ![b] = @ \cup {p}]
  /\ UNCHANGED <<guest, head, tree, seen, minted, attach, hubVars, staging, syncVars>>

\* attachFromHub: of a project that has a host repository with a ref in it.
StartAttach(b, p) ==
  /\ attach[b] = NoAttach
  /\ "attach" \in Overlap \/ \A s \in Syncs : ~Running(s)
  /\ p \notin present[b]
  /\ p \in hubMade
  /\ hub[p] # NoRefs
  /\ attach' = [attach EXCEPT ![b] = [NoAttach EXCEPT !.at = "headHub", !.proj = p]]
  /\ UNCHANGED <<guest, present, head, tree, seen, minted, hubVars, staging, syncVars>>

AttachTo(b, from, next) ==
  /\ attach[b].at = from
  /\ attach' = [attach EXCEPT ![b] = next]
  /\ UNCHANGED <<seen, minted, hubMade, hub, mirror, staging, syncVars>>

AttachReadsHead(b) ==
  LET a == attach[b]
  IN  /\ AttachTo(b, "headHub",
                  [a EXCEPT !.at = IF Resolves(a.proj) THEN "bundle" ELSE "listHub"])
      /\ UNCHANGED <<guest, present, head, tree, hubHead>>

AttachListsBranches(b) ==
  LET a == attach[b]
      first == PreferredBranch(hub[a.proj])
  IN  /\ AttachTo(b, "listHub",
                  [a EXCEPT !.at = IF first = Detached THEN "bundle" ELSE "pointHub",
                            !.branch = first])
      /\ UNCHANGED <<guest, present, head, tree, hubHead>>

AttachPointsHead(b) ==
  LET a == attach[b]
  IN  /\ AttachTo(b, "pointHub", [a EXCEPT !.at = "bundle"])
      /\ hubHead' = [hubHead EXCEPT ![a.proj] = a.branch]
      /\ UNCHANGED <<guest, present, head, tree>>

\* `bundle create` with HEAD among the names, which has to resolve.
AttachBundles(b) ==
  LET a == attach[b]
  IN  /\ AttachTo(b, "bundle",
                  [a EXCEPT !.at = "clone", !.branch = hubHead[a.proj], !.refs = hub[a.proj]])
      /\ Resolves(a.proj)
      /\ UNCHANGED <<guest, present, head, tree, hubHead>>

\* attachFromBundle: a clone, which Git refuses where a checkout has appeared,
\* takes the branch the bundle's HEAD names and the tags; dropping the bundle's
\* origin drops the other branches.
AttachClones(b) ==
  LET a == attach[b]
      p == a.proj
  IN  /\ AttachTo(b, "clone", NoAttach)
      /\ p \notin present[b]
      /\ present' = [present EXCEPT ![b] = @ \cup {p}]
      /\ guest' = [guest EXCEPT ![b][p] =
                     [r \in Refs |-> IF r \in Tags \cup {a.branch} THEN a.refs[r] ELSE {}]]
      /\ head' = [head EXCEPT ![b][p] = a.branch]
      /\ tree' = [tree EXCEPT ![b][p] = a.refs[a.branch]]
      /\ UNCHANGED hubHead

\* A command fails, the operator cancels, the process is killed.
AttachStops(b) ==
  /\ attach[b] # NoAttach
  /\ AttachTo(b, attach[b].at, NoAttach)
  /\ UNCHANGED <<guest, present, head, tree, hubHead>>

Attach(b) ==
  \/ AttachReadsHead(b) \/ AttachListsBranches(b) \/ AttachPointsHead(b)
  \/ AttachBundles(b) \/ AttachClones(b) \/ AttachStops(b)

AgentMay(b, p) ==
  /\ p \in present[b]
  /\ Quiet => \A s \in Syncs : ~(box[s] = b /\ proj[s] = p)

Fresh(p) == {<<p, minted[p] + 1>>}

\* `git commit`, and `git merge` of what the checkout holds in any ref.
AgentCommit(b, p, other) ==
  /\ minted[p] < MaxCommits
  /\ minted' = [minted EXCEPT ![p] = @ + 1]
  /\ MoveHead(b, p, HeadCommit(b, p) \cup other \cup Fresh(p))
  /\ UNCHANGED head

\* `git switch`, `git switch -c` and `git switch --detach`.
AgentSwitch(b, p, r) ==
  /\ r # head[b][p]
  /\ HeadCommit(b, p) # {}
  /\ head' = [head EXCEPT ![b][p] = r]
  /\ IF r = Detached \/ guest[b][p][r] = {}
     THEN /\ tree' = [tree EXCEPT ![b][p] = HeadCommit(b, p)]
          /\ guest' = IF r = Detached THEN guest
                      ELSE [guest EXCEPT ![b][p][r] = HeadCommit(b, p)]
     ELSE tree' = [tree EXCEPT ![b][p] = guest[b][p][r]] /\ UNCHANGED guest
  /\ UNCHANGED minted

\* `git reset --hard`, to a commit some ref of the repository names.
AgentReset(b, p, c) ==
  /\ c # {}
  /\ MoveHead(b, p, c)
  /\ UNCHANGED <<head, minted>>

\* `git branch -D`, and `git tag -f` at HEAD.
AgentWriteRef(b, p, r, c) ==
  /\ r # head[b][p]
  /\ c = {} \/ r \in Tags
  /\ guest' = [guest EXCEPT ![b][p][r] = c]
  /\ UNCHANGED <<head, tree, minted>>

Agent(b, p) ==
  LET known == {guest[b][p][r] : r \in Refs} \cup {seen[b][p][r] : r \in Refs}
  IN  /\ AgentMay(b, p)
      /\ \/ \E other \in known \cup {{}} : AgentCommit(b, p, other)
         \/ \E r \in Branches \cup {Detached} : AgentSwitch(b, p, r)
         \/ \E c \in known : AgentReset(b, p, c)
         \/ \E r \in Refs, c \in {{}, HeadCommit(b, p)} : AgentWriteRef(b, p, r, c)
      /\ UNCHANGED <<present, seen, attach, hubVars, staging, syncVars>>

----------------------------------------------------------------------------
Next ==
  \/ \E s \in Syncs :
       \/ \E b \in Boxes, p \in Projects : Start(s, b, p)
       \/ Progress(s)
       \/ Fail(s)
       \/ Crash(s)
  \/ \E b \in Boxes, p \in Projects :
       AddLocal(b, p) \/ StartAttach(b, p) \/ Agent(b, p)
  \/ \E b \in Boxes : Attach(b)

\* Sync is straight-line code with no wait of its own and every command it
\* runs exits: it takes its next step, or the error when there is none to take.
Fairness == \A s \in Syncs : WF_vars(Progress(s) \/ (CannotProceed(s) /\ Fail(s)))

Spec     == Init /\ [][Next]_vars
FairSpec == Spec /\ Fairness

----------------------------------------------------------------------------
(* What the reconciliation promises. *)

\* The shape of the state: what the checkouts, the host repositories, the
\* staging directories and the running syncs hold.
CheckoutsOK ==
  /\ guest   \in [Boxes -> [Projects -> RefMaps]]
  /\ present \in [Boxes -> SUBSET Projects]
  /\ head    \in [Boxes -> [Projects -> Branches \cup {Detached}]]
  /\ tree    \in [Boxes -> [Projects -> Commits]]
  /\ seen    \in [Boxes -> [Projects -> RefMaps]]
  /\ minted  \in [Projects -> 0 .. MaxCommits]
  /\ attach  \in [Boxes -> Attachments]
  /\ \A b \in Boxes :
       /\ attach[b].at # "idle" => attach[b].proj \in Projects
       /\ attach[b].at \in {"pointHub", "clone"} => attach[b].branch \in Branches

HubsOK ==
  /\ hubMade \subseteq Projects
  /\ hub     \in [Projects -> RefMaps]
  /\ hubHead \in [Projects -> Branches]
  /\ mirror  \in [Projects -> [Boxes -> RefMaps]]

StagingOK == staging \in [Boxes -> Stagings]

SyncsOK ==
  /\ pc       \in [Syncs -> Steps]
  /\ box      \in [Syncs -> Boxes \cup {None}]
  /\ proj     \in [Syncs -> Projects \cup {None}]
  /\ carried  \in [Syncs -> RefMaps]
  /\ todo     \in [Syncs -> RefMaps]
  /\ branch   \in [Syncs -> Branches \cup {Detached}]
  /\ created  \in [Syncs -> BOOLEAN]
  /\ diverged \in [Syncs -> SUBSET Refs]
  /\ heldBack \in [Syncs -> SUBSET Refs]
  /\ \A s \in Syncs :
       /\ Running(s) => box[s] \in Boxes /\ proj[s] \in Projects
       /\ pc[s] = "pointHub" => branch[s] \in Branches

TypeOK == CheckoutsOK /\ HubsOK /\ StagingOK /\ SyncsOK

\* A ref of a host repository only ever moves to a commit that contains what
\* the ref held, so no history a sync carried to the host is dropped there
\* (ADR-0029, "A ref moves only forward").
HubMovesForward ==
  [][\A p \in Projects, r \in Refs : hub[p][r] \subseteq hub'[p][r]]_vars

\* A sync drops no commit from a ref of a checkout either: every ref it writes
\* there, by update-ref or through the worktree, moves forward.  (What moves a
\* ref without touching a sync's plan is an agent's own doing.)
GuestMovesForward ==
  [][todo' # todo =>
       \A b \in Boxes, p \in Projects, r \in Refs :
         guest[b][p][r] \subseteq guest'[b][p][r]]_vars

\* The host repository and the checkouts of a project hold that project's
\* commits and no other's, although every sync of a box goes through the one
\* staging directory ("one bare repository per local project").
EachProjectApart ==
  \A p \in Projects, r \in Refs :
    /\ hub[p][r] \subseteq CommitsOf(p)
    /\ \A b \in Boxes : guest[b][p][r] \subseteq CommitsOf(p)

\* The index and the working tree are at the commit of the branch the checkout
\* stands on: no sync moves that branch from under them (syncInbound, "A ref
\* write would leave the index and the tree at the old commit").
WorktreeFollowsBranch ==
  \A b \in Boxes : \A p \in present[b] :
    head[b][p] # Detached => tree[b][p] = guest[b][p][head[b][p]]

\* What a sync that returned no error says is so: the refs it named as diverged
\* are those where neither side contains the other, the refs it named as held
\* back are those where only the checkout lags, and all others agree.
ReportIsTrue ==
  \A s \in Syncs : pc[s] = "finished" =>
    \A r \in Refs :
      LET here == guest[box[s]][proj[s]][r]
          there == hub[proj[s]][r]
      IN  /\ r \in diverged[s] <=> ~(here \subseteq there) /\ ~(there \subseteq here)
          /\ r \in heldBack[s] <=> here # there /\ here \subseteq there
          /\ here # there => here \subseteq there \/ r \in diverged[s]

\* Whatever syncs and attachments look at HEAD, list the branches and point it at
\* one at the same time: a HEAD that resolves keeps resolving, and the command
\* that has seen to it leaves one that resolves, unless there is no branch ("It
\* has to: a clone reads HEAD", ensureHubHead).
Heading == {"writeHub", "headHub", "listHub", "pointHub"}
HasBranch(p) == \E r \in Branches : hub[p][r] # {}
HubHeadResolves ==
  [][/\ \A p \in Projects : Resolves(p) => Resolves(p)'
     /\ \A s \in Syncs :
          pc[s] \in Heading /\ pc'[s] \in {"bundleHub", "finished"} /\ HasBranch(proj[s])' =>
            Resolves(proj[s])'
     /\ \A b \in Boxes :
          attach[b].at \in Heading /\ attach'[b].at = "bundle" /\ HasBranch(attach[b].proj)' =>
            Resolves(attach[b].proj)']_vars

\* What does not hold: that a HEAD which resolves stays where it is.  It does not
\* say which branch was first where an attachment has found HEAD not to resolve
\* and listed the branches while a sync was about to write another (sync.go:322,
\* 337).
HubHeadSettles ==
  [][\A p \in Projects : Resolves(p) => hubHead'[p] = hubHead[p]]_vars

\* A sync that started ends, whatever the agents and the other syncs do.
SyncReturns == \A s \in Syncs : Running(s) ~> ~Running(s)
=============================================================================
