--------------------------- MODULE ProjectCommands ---------------------------
(***************************************************************************)
(* `torio project add`, `set-remote` and `remove`: how a project comes to  *)
(* be registered, corrected and forgotten, and what happens to its         *)
(* checkouts (internal/projects/manager.go, bundle.go, remoteaccess.go,    *)
(* internal/config/registry.go; ADR-0018, 0023, 0024, 0027).               *)
(*                                                                         *)
(* The registry is one document for all boxes; each box holds a checkout   *)
(* of its own.  A command is a process: it may stop after any of its       *)
(* steps, and only the registry update is under a lock.                    *)
(*                                                                         *)
(* The remote of a record and the origin of a checkout are the same kind   *)
(* of value, and Local, the empty one, stands for "none" in both.  What is *)
(* at a workspace path without being a repository is refused by every      *)
(* command and is not modelled.                                            *)
(***************************************************************************)
EXTENDS Naturals, FiniteSets

CONSTANTS
  Boxes, Projects, Remotes, Local, NoEntry, MaxProjects,
  Bundle,       \* the origin a clone of a carried bundle is left with
  Commands,     \* the invocations that may be running
  Sources,      \* the ways an addition may be given, of AllSources
  SameProject,  \* commands on one project may overlap
  Hands         \* when others touch a checkout: "never", "quiet" (while no
                \* command runs on it) or "always"

AllSources == {"clone", "init", "bundle", "hub"}

ASSUME EntriesAssumption == Local \notin Remotes /\ NoEntry \notin Remotes \cup {Local}
ASSUME OriginAssumption  == Bundle \notin Remotes \cup {Local}
ASSUME SourcesAssumption == Sources \subseteq AllSources
ASSUME OperatorAssumption == SameProject \in BOOLEAN /\ Hands \in {"never", "quiet", "always"}

VARIABLES
  record,   \* record[p]: the shared registry document
  lock,     \* the commands that hold the lock on its directory: one at most

  tree,     \* tree[b][p]: the checkout of p in box b
  key,      \* key[b]: the projects box b holds a deploy key for
  wired,    \* wired[b]: those whose own fetches use it (includeIf)
  byHand,   \* byHand[b]: the checkouts whose origin somebody else wrote last
  hub,      \* the local projects a sync has given a host repository

  pc,       \* pc[c]: the next step of command c
  job,      \* job[c]: what it was asked, and the entry it resolved
  found,    \* found[c]: the checkout as it inspected it
  keyed,    \* keyed[c]: the remote is read with the deploy key
  read      \* read[c]: the document as read under the lock

guestVars   == <<tree, key, wired, byHand, hub>>
commandVars == <<job, found, keyed, read>>
vars        == <<record, lock, guestVars, pc, commandVars>>

Shared == INSTANCE Registry WITH
  Projects <- Projects, Remotes <- Remotes, Local <- Local, NoEntry <- NoEntry,
  MaxProjects <- MaxProjects, record <- record

Origins == Remotes \cup {Local, Bundle}
Trees   == [there : BOOLEAN, origin : Origins, shared : BOOLEAN, tidy : BOOLEAN]
Absent  == [there |-> FALSE, origin |-> Local, shared |-> FALSE, tidy |-> TRUE]
Made(o) == [there |-> TRUE, origin |-> o, shared |-> FALSE, tidy |-> TRUE]

Jobs  == [op : {"none", "add", "set", "remove"}, box : Boxes \cup {"none"},
          project : Projects \cup {"none"}, want : Remotes \cup {Local},
          source : AllSources \cup {"none"}, was : Shared!Entries]
NoJob == [op |-> "none", box |-> "none", project |-> "none", want |-> Local,
          source |-> "none", was |-> NoEntry]

Steps == {"idle", "inspect", "read", "readAgain", "make", "dropOrigin", "share",
          "wire", "verify", "lock", "write", "written", "reach", "attach",
          "finished", "differs"}

Running(c) == pc[c] # "idle"
Here(c)    == tree[job[c].box][job[c].project]

Init ==
  /\ record = [p \in Projects |-> NoEntry]
  /\ lock   = {}
  /\ tree   = [b \in Boxes |-> [p \in Projects |-> Absent]]
  /\ key    = [b \in Boxes |-> {}]
  /\ wired  = [b \in Boxes |-> {}]
  /\ byHand = [b \in Boxes |-> {}]
  /\ hub    = {}
  /\ pc     = [c \in Commands |-> "idle"]
  /\ job    = [c \in Commands |-> NoJob]
  /\ found  = [c \in Commands |-> Absent]
  /\ keyed  = [c \in Commands |-> FALSE]
  /\ read   = [c \in Commands |-> [p \in Projects |-> NoEntry]]

Goto(c, from, to) == pc[c] = from /\ pc' = [pc EXCEPT ![c] = to]

----------------------------------------------------------------------------
(* Starting a command. *)

MayStart(c, p) ==
  /\ ~Running(c)
  /\ SameProject \/ \A d \in Commands : Running(d) => job[d].project # p

Begin(c, first, asked) ==
  /\ MayStart(c, asked.project)
  /\ pc'  = [pc EXCEPT ![c] = first]
  /\ job' = [job EXCEPT ![c] = asked]
  /\ UNCHANGED <<record, lock, guestVars, found, keyed, read>>

\* Add up to requirePrepared.  A project already registered with other details,
\* or that the registry would not take, is refused before the guest is touched.
\* With the id alone the remote comes from the record: a clone when there is
\* one, and otherwise the host repository.  The record is read again after that,
\* and a removal in between leaves an addition like any other.
StartAdd(c, b, p, e, source) ==
  /\ source = "clone" <=> e \in Remotes
  /\ record[p] = e \/ (/\ SameProject \/ source # "hub"
                       /\ Shared!CanRegister(record, p, e))
  /\ Begin(c, "inspect", [op |-> "add", box |-> b, project |-> p, want |-> e,
                          source |-> source, was |-> record[p]])

\* Fault: a project is taken off its remote.
StartSetAnyRemote(c, b, p, r) ==
  /\ record[p] # NoEntry
  /\ Begin(c, "lock", [op |-> "set", box |-> b, project |-> p, want |-> r,
                       source |-> "none", was |-> record[p]])

\* SetRemote up to the update.  A remote is never taken away: the checkouts of
\* the other boxes would still point at it.
StartSetRemote(c, b, p, r) ==
  /\ r # Local
  /\ record[p] # NoEntry
  /\ Begin(c, "lock", [op |-> "set", box |-> b, project |-> p, want |-> r,
                       source |-> "none", was |-> record[p]])

\* Remove: the guest is only asked whether it holds a deploy key.
StartRemove(c, b, p) ==
  /\ record[p] # NoEntry
  /\ Begin(c, "lock", [op |-> "remove", box |-> b, project |-> p, want |-> Local,
                       source |-> "none", was |-> record[p]])

----------------------------------------------------------------------------
(* Add: from the inspection to the verified checkout. *)

\* Fault: a record with no remote agrees with any origin.
AgreesOrLocal(t, e) == t.origin = e \/ e = Local

\* OriginMatches: the origin is the remote on record; for a local project, none.
Agrees(t, e) == t.origin = e

\* requireAdoptable: ownership and mode are put right afterwards.
Adoptable(t, e) == Agrees(t, e) /\ t.tidy

\* compliant: the postconditions of an addition.
Compliant(t, e) == t.there /\ Agrees(t, e) /\ t.tidy /\ t.shared

InspectForAdd(c) ==
  /\ Goto(c, "inspect", IF job[c].want \in Remotes THEN "read" ELSE "make")
  /\ found' = [found EXCEPT ![c] = Here(c)]
  /\ UNCHANGED <<record, lock, guestVars, job, keyed, read>>

AfterRead(c) == IF job[c].op = "add" THEN "make" ELSE "attach"

\* ensureRemoteReadable, readable as it is: a key that is there is used.
ReadRemote(c) ==
  /\ Goto(c, "read", AfterRead(c))
  /\ keyed' = [keyed EXCEPT ![c] = job[c].project \in key[job[c].box]]
  /\ UNCHANGED <<record, lock, guestVars, job, found, read>>

\* ensureRemoteReadable, an SSH remote that cannot be read: a project without a
\* deploy key is given one.  (With a key, the addition stops here.)
MakeKey(c) ==
  /\ Goto(c, "read", "readAgain")
  /\ job[c].project \notin key[job[c].box]
  /\ key' = [key EXCEPT ![job[c].box] = @ \cup {job[c].project}]
  /\ UNCHANGED <<record, lock, tree, wired, byHand, hub, commandVars>>

ReadWithKey(c) ==
  /\ Goto(c, "readAgain", AfterRead(c))
  /\ keyed' = [keyed EXCEPT ![c] = TRUE]
  /\ UNCHANGED <<record, lock, guestVars, job, found, read>>

SetTree(c, t) == tree' = [tree EXCEPT ![job[c].box][job[c].project] = t]

\* An existing checkout is adopted or refused: never cloned over.  One made
\* since it was looked for is what `git init` finds and leaves as it is.
Adopt(c) ==
  /\ Goto(c, "make", "share")
  /\ IF found[c].there THEN Adoptable(found[c], job[c].want)
                       ELSE Here(c).there /\ job[c].source = "init"
  /\ UNCHANGED <<record, lock, guestVars, commandVars>>

\* `git clone` of the remote, and `git init`, where nothing is.
Make(c) ==
  /\ Goto(c, "make", "share")
  /\ ~found[c].there /\ ~Here(c).there
  /\ job[c].source \in {"clone", "init"}
  /\ SetTree(c, Made(job[c].want))
  /\ UNCHANGED <<record, lock, key, wired, byHand, hub, commandVars>>

\* attachFromBundle, attachFromHub: the clone records the bundle as its origin.
CloneBundle(c) ==
  /\ Goto(c, "make", "dropOrigin")
  /\ ~found[c].there /\ ~Here(c).there
  /\ job[c].source = "bundle" \/ (job[c].source = "hub" /\ job[c].project \in hub)
  /\ SetTree(c, Made(Bundle))
  /\ UNCHANGED <<record, lock, key, wired, byHand, hub, commandVars>>

\* `git remote remove origin`.
DropOrigin(c) ==
  /\ Goto(c, "dropOrigin", "share")
  /\ Here(c).there /\ Here(c).origin # Local
  /\ SetTree(c, [Here(c) EXCEPT !.origin = Local])
  /\ UNCHANGED <<record, lock, key, wired, byHand, hub, commandVars>>

\* ensureSharedPermissions, ensureSafeDirectory.
Share(c) ==
  /\ Goto(c, "share", IF keyed[c] THEN "wire" ELSE "verify")
  /\ Here(c).there
  /\ SetTree(c, [Here(c) EXCEPT !.shared = TRUE])
  /\ UNCHANGED <<record, lock, key, wired, byHand, hub, commandVars>>

\* provisionGuestGitAccess.
Wire(c) ==
  /\ Goto(c, "wire", "verify")
  /\ wired' = [wired EXCEPT ![job[c].box] = @ \cup {job[c].project}]
  /\ UNCHANGED <<record, lock, tree, key, byHand, hub, commandVars>>

VerifyAdd(c) ==
  /\ Goto(c, "verify", "lock")
  /\ job[c].op = "add"
  /\ Compliant(Here(c), job[c].want)
  /\ UNCHANGED <<record, lock, guestVars, commandVars>>

----------------------------------------------------------------------------
(* The registry update, under the lock. *)

\* Fault: the lock is taken from whoever holds it (as where flock is missing).
LockAnyway(c) ==
  /\ Goto(c, "lock", "write")
  /\ lock' = lock \cup {c}
  /\ read' = [read EXCEPT ![c] = record]
  /\ UNCHANGED <<record, guestVars, job, found, keyed>>

\* withRegistryLock, and the document as it is now.
TakeLock(c) ==
  /\ Goto(c, "lock", "write")
  /\ lock = {}
  /\ lock' = {c}
  /\ read' = [read EXCEPT ![c] = record]
  /\ UNCHANGED <<record, guestVars, job, found, keyed>>

\* persist: on top of the document as it is now, and nothing if it is there.
AddsEntry(j, doc) ==
  /\ j.op = "add"
  /\ doc[j.project] = j.want \/ Shared!CanRegister(doc, j.project, j.want)

\* One atomic rename, of what the update makes of the document that was read.
WriteRegistry(c) ==
  LET j == job[c]
      Put(e) == [read[c] EXCEPT ![j.project] = e]
  IN  /\ Goto(c, "write", "written")
      /\ \/ AddsEntry(j, read[c]) /\ record' = Put(j.want)
         \/ j.op = "set" /\ Shared!CanCorrect(read[c], j.project, j.want) /\ record' = Put(j.want)
         \/ j.op = "remove" /\ Shared!CanForget(read[c], j.project) /\ record' = Put(NoEntry)
      /\ UNCHANGED <<lock, guestVars, commandVars>>

\* The document is read back, and the lock let go.  A removal that finds the
\* entry gone is done as well.
ReleaseLock(c) ==
  /\ \/ Goto(c, "written", IF job[c].op = "set" THEN "reach" ELSE "finished")
     \/ /\ job[c].op = "remove" /\ ~Shared!CanForget(read[c], job[c].project)
        /\ Goto(c, "write", "finished")
  /\ lock' = lock \ {c}
  /\ UNCHANGED <<record, guestVars, commandVars>>

----------------------------------------------------------------------------
(* SetRemote: the checkout follows the record where it may. *)

\* Fault: whatever origin the checkout has is repointed.
FollowsAlways(t, was) == TRUE

\* A checkout without an origin is given one (promoting); one that holds the
\* remote being replaced is moved; anything else is left alone.
Follows(t, was) == t.origin = Local \/ Agrees(t, was)

ReachCheckout(c) ==
  LET t == Here(c)
      promoting == t.origin = Local
  IN  /\ Goto(c, "reach", IF ~t.there THEN "finished"
                          ELSE IF ~Follows(t, job[c].was) THEN "differs"
                          ELSE IF promoting THEN "read" ELSE "attach")
      /\ found' = [found EXCEPT ![c] = t]
      /\ UNCHANGED <<record, lock, guestVars, job, keyed, read>>

\* A guest that cannot be reached is reported, and the command is done.
NotReached(c) ==
  /\ Goto(c, "reach", "finished")
  /\ UNCHANGED <<record, lock, guestVars, commandVars>>

\* `remote add origin` wants none to be there, `remote set-url origin` wants one.
AttachOrigin(c) ==
  /\ Goto(c, "attach", IF keyed[c] THEN "wire" ELSE "verify")
  /\ Here(c).there
  /\ (Here(c).origin = Local) <=> (found[c].origin = Local)
  /\ SetTree(c, [Here(c) EXCEPT !.origin = job[c].want])
  /\ byHand' = [byHand EXCEPT ![job[c].box] = @ \ {job[c].project}]
  /\ UNCHANGED <<record, lock, key, wired, hub, commandVars>>

VerifySetRemote(c) ==
  /\ Goto(c, "verify", "finished")
  /\ job[c].op = "set"
  /\ Here(c).there /\ Agrees(Here(c), job[c].want)
  /\ UNCHANGED <<record, lock, guestVars, commandVars>>

----------------------------------------------------------------------------
(* The end of a command. *)

Forget(c) ==
  /\ pc'    = [pc EXCEPT ![c] = "idle"]
  /\ lock'  = lock \ {c}
  /\ job'   = [job EXCEPT ![c] = NoJob]
  /\ found' = [found EXCEPT ![c] = Absent]
  /\ keyed' = [keyed EXCEPT ![c] = FALSE]
  /\ read'  = [read EXCEPT ![c] = [p \in Projects |-> NoEntry]]

Return(c) ==
  /\ pc[c] \in {"finished", "differs"}
  /\ Forget(c)
  /\ UNCHANGED <<record, guestVars>>

\* A refusal, a command that failed, a cancel, a kill: what was done stays done,
\* and the system lets go of the lock of a process that is gone.
Stop(c) ==
  /\ Running(c)
  /\ Forget(c)
  /\ UNCHANGED <<record, guestVars>>

Step(c) ==
  \/ InspectForAdd(c) \/ ReadRemote(c) \/ MakeKey(c) \/ ReadWithKey(c)
  \/ Adopt(c) \/ Make(c) \/ CloneBundle(c) \/ DropOrigin(c)
  \/ Share(c) \/ Wire(c) \/ VerifyAdd(c)
  \/ TakeLock(c) \/ WriteRegistry(c) \/ ReleaseLock(c)
  \/ ReachCheckout(c) \/ NotReached(c) \/ AttachOrigin(c) \/ VerifySetRemote(c)
  \/ Return(c) \/ Stop(c)

----------------------------------------------------------------------------
(* Everybody else. *)

MayTouch(b, p) ==
  /\ Hands # "never"
  /\ Hands = "quiet" => \A c \in Commands : ~(job[c].box = b /\ job[c].project = p)

\* Somebody clones by hand, sets or drops the origin, or deletes the checkout.
HandOrigin(b, p, o) ==
  /\ MayTouch(b, p)
  /\ tree' = [tree EXCEPT ![b][p] =
                IF @.there THEN [@ EXCEPT !.origin = o] ELSE Made(o)]
  /\ byHand' = [byHand EXCEPT ![b] = @ \cup {p}]
  /\ UNCHANGED <<record, lock, key, wired, hub, pc, commandVars>>

HandDelete(b, p) ==
  /\ MayTouch(b, p)
  /\ tree[b][p].there
  /\ tree' = [tree EXCEPT ![b][p] = Absent]
  /\ byHand' = [byHand EXCEPT ![b] = @ \ {p}]
  /\ UNCHANGED <<record, lock, key, wired, hub, pc, commandVars>>

\* Work that is not committed yet, and its commit.
AgentWorks(b, p) ==
  /\ MayTouch(b, p)
  /\ tree[b][p].there
  /\ tree' = [tree EXCEPT ![b][p].tidy = ~@]
  /\ UNCHANGED <<record, lock, key, wired, byHand, hub, pc, commandVars>>

\* `torio project sync` of a local project: ProjectSync says how.
SyncedToHost(p) ==
  /\ record[p] = Local
  /\ hub' = hub \cup {p}
  /\ UNCHANGED <<record, lock, tree, key, wired, byHand, pc, commandVars>>

Next ==
  \/ \E c \in Commands, b \in Boxes, p \in Projects :
       \/ \E e \in Remotes \cup {Local}, source \in Sources : StartAdd(c, b, p, e, source)
       \/ \E r \in Remotes \cup {Local} : StartSetRemote(c, b, p, r)
       \/ StartRemove(c, b, p)
  \/ \E c \in Commands : Step(c)
  \/ \E b \in Boxes, p \in Projects :
       \/ \E o \in Remotes \cup {Local} : HandOrigin(b, p, o)
       \/ HandDelete(b, p)
       \/ AgentWorks(b, p)
  \/ \E p \in Projects : SyncedToHost(p)

Spec == Init /\ [][Next]_vars

----------------------------------------------------------------------------
(* What the commands promise. *)

\* The shape of the registry, the boxes and the running commands.
RegistryOK == record \in [Projects -> Shared!Entries] /\ lock \subseteq Commands
GuestsOK ==
  /\ tree   \in [Boxes -> [Projects -> Trees]]
  /\ key    \in [Boxes -> SUBSET Projects]
  /\ wired  \in [Boxes -> SUBSET Projects]
  /\ byHand \in [Boxes -> SUBSET Projects]
  /\ hub    \subseteq Projects
CommandsOK ==
  /\ pc    \in [Commands -> Steps]
  /\ job   \in [Commands -> Jobs]
  /\ \A c \in Commands :
       Running(c) =>
         /\ job[c].box \in Boxes /\ job[c].project \in Projects
         /\ job[c].op = "set" => job[c].want \in Remotes
  /\ found \in [Commands -> Trees]
  /\ keyed \in [Commands -> BOOLEAN]
  /\ read  \in [Commands -> [Projects -> Shared!Entries]]
TypeOK == RegistryOK /\ GuestsOK /\ CommandsOK

\* The registry file, its lock and its readers implement the registry: every
\* change of the document is one addition, one correction or one removal on top
\* of the last, however the commands interleave and wherever they are killed.
RegistryKept == Shared!Spec

\* Two projects never come to hold one remote, although each addition checked
\* that long before it was recorded (ErrDuplicateRemote).
RemotesUnique == Shared!RemotesUnique

\* Nothing is recorded until the guest holds it: when an addition registers a
\* project, the box it worked in has the shared checkout the record describes
\* (Add, "Nothing is written to config until every guest postcondition holds").
RecordedLast ==
  [][\A p \in Projects : record[p] = NoEntry /\ record'[p] # NoEntry =>
       \E c \in Commands :
         /\ job[c].op = "add" /\ job[c].project = p
         /\ Here(c).there /\ Here(c).shared /\ Here(c).origin = record'[p]]_vars

\* A checkout somebody else made or pointed elsewhere keeps the origin it has,
\* unless the remote it holds is the one a set-remote replaces, or none; and no
\* command ever takes a checkout away (SetRemote, Remove, requireAdoptable).
CheckoutsKept ==
  [][pc' # pc => \A b \in Boxes, p \in Projects :
       tree[b][p].there =>
         /\ tree'[b][p].there
         /\ p \in byHand[b] /\ tree'[b][p].origin # tree[b][p].origin =>
              \E c \in Commands :
                /\ job[c].op = "set" /\ job[c].box = b /\ job[c].project = p
                /\ tree[b][p].origin \in {Local, job[c].was}]_vars

\* A set-remote that leaves a checkout alone because its origin "differs" has
\* found somebody's deliberate act (SetRemote: "an origin pointing anywhere else
\* is somebody's deliberate act").
DifferingIsDeliberate ==
  \A c \in Commands : pc[c] = "differs" => job[c].project \in byHand[job[c].box]
=============================================================================
