# Torio, verified

Torio runs coding agents in virtual machines ("boxes", one per backend), and keeps what
they share on the host: a registry of projects, one bare Git repository per project that is
on no forge, and one hub vault of notes, the Second Brain. This directory holds TLA+ models
of that machinery, TLC runs that check them on small instances, and TLAPS proofs that hold
for instances of any size. `PROJECT.json` maps every definition to the lines it models and
lists runs, faults, findings, hazards and theorems.

    tlc -workers 2 -config MCProjectSync_quiet.cfg MCProjectSync.tla
    tlapm ProjectSync_proofs.tla

## 1. The system

| part | state it keeps | operations | talks to |
| --- | --- | --- | --- |
| **Projects** `internal/projects` | checkouts in the boxes, deploy keys and their includes, the host repositories, one sync staging directory per box | `add`, `set-remote`, `remove`, `sync`, session preflights | registry; box and host commands through `execx` |
| **Registry** `internal/config` | `projects.json`, shared by every box; an advisory lock on its directory | `WithProject`, `WithUpdatedRemote`, `WithoutProject` under `UpdateRegistry` | the file system |
| **Second Brain** `internal/brain` | a vault in each box, the hub vault on the host, refs each keeps of the other; a guest lock directory | `init`, `import`, `export`, `sync` | box and host commands |
| **SSH mediation** `internal/sshagent`, `cli/mediate.go` | a listener, its connections, an audit file, a latch once recording failed | `Serve`, list identities, sign | the operator's agent, the guest |
| **MCP broker** `cmd/torio-mcp-broker`, `internal/mcpbroker` | upstream connections, the audit latch, the digest of the policy it read, one OAuth session file per upstream | start, serve a connection, list tools, call a tool, stop | upstream servers, agents in the box |
| **MCP activation** `internal/lima/mcp*.go`, `cli/mcp.go` | in the box: the custody boundary, the broker's files and unit, the agent's configuration, the sessions | `mcp install`, `mcp login` | systemd and files in the guest |
| **VM life cycle** `internal/lima`, `internal/backend` | the box: absent, stopped, running; the backend declared for it; what a bootstrap installed | `init`, `start`, `stop`, `bootstrap` | limactl, the guest |
| **Hub** `internal/tui`, `cli/ui.go` | the binding to a backend, derived facts, a busy label, the screens | one operation or session at a time, probes beside it, `rebind` | all managers |
| **Status** `internal/status` | none between polls | `Poll`: box, session, marker, progress | the guest |

Nothing is a long-running service but the MCP broker, the mediation of one session and the
hub. Everything else is one process per command, and processes meet in shared files: the
registry, the host repositories, a box's staging directory, the vaults. Only the registry
update holds a lock. A command is a sequence of external commands (`git`, `limactl`), each of
which may fail, and the process may be killed between any two.

### What is hard

- **Overlap without locks.** Two syncs of one project decide on ref listings each made
  before the other wrote; two syncs of one box share a staging directory with fixed names.
- **Agents do not stop.** They commit, switch, reset and delete in the checkouts while a sync
  runs there, between what it read and what it writes.
- **Stops halfway.** Guest work comes first and the record last when a project is added, and
  the other way round when its remote is corrected; a rerun has to complete either.
- **State left behind.** A bundle in the staging, a half-made host repository, an origin that
  names a bundle, a merge that stopped on a conflict.
- **One registry, several boxes.** A correction is recorded for all and reaches the checkouts
  one box at a time.
- **A log that must lead.** Connections share one recorder; a write or a sync fails in the
  middle, a process dies between a line and its sync.
- **Parts that depend on each other.** A unit on disk and the one in memory, a policy edited
  after the broker read it, a session without the group provisioning gave it.
- **Late answers.** The hub's probes take minutes; operations, other probes and a change of box
  overtake them, and an answer finds another screen than the one that asked.

### What makes each part correct

- Synchronization: refs only move forward, on both sides; a project's commits stay in that
  project; the worktree follows its branch; the branch a new box lands on exists; the
  report is the truth; it ends.
- Attachment: nothing is recorded that the box does not hold; no checkout is taken away or
  repointed unless the operator asked for that very change; what is left alone is left alone
  for the reason given.
- Registry: concurrent commands act one after the other, and no two projects share a remote.
- Second Brain: nothing written is dropped, conflict markers are committed only after a sync that
  died at the one place where it leaves them, the report is the truth.
- Creation and import of a vault: it is empty or whole wherever a command stops, and what the
  agent wrote in it is kept.
- Mediation and broker: a decision is on disk before it has an effect; once recording failed,
  nothing more passes; every request ends.
- Activation: no credential before the custody boundary; what an install reports is so; the
  login that completes the set starts the broker.
- Life cycle: a box is driven as what it was built for; a bootstrap that reports success is
  right; drift is reported and never repaired behind the operator's back; a rerun completes.
- Hub: one operation at a time; what is shown is about the box it is bound to.

Every place where one of these could go wrong is listed in `PROJECT.json` under "hazards".

## 2. Plan

The order of work, the most important behaviour first:

1. **ProjectSync**, with proofs. The code that moves commits comes first.
2. **Registry**, the abstract registry, and **ProjectCommands**, which implements it, with proofs.
3. **BrainSync**, with proofs; **Vault**, creation and import on one box, with proofs.
4. **GuestSteps**, **ClaudeCode** and **Codex** (the steps of a bootstrap as data), and **Box**,
   which runs them, with proofs.
5. **McpInstall**, with proofs.
6. **AuditedBroker**, the abstract promise; **AuditSink**, what both processes share;
   **Mediation** and **McpBroker**; and **Brokers**, their composition, which implements the
   promise, with proofs.
7. **Wizard** and **Hub**, with proofs.

All of these are written. What the next steps would be: a second box in **Box** with the shared
registry of projects, the refresh of an OAuth session in the daemon against a login in another
process, and the moves a sync makes stated against an abstract specification of two sides that only
grow.

## 3. The modules

Names follow the code: an action has the name of the function or of the step of the function
it stands for, and a comment where they differ. Definitions marked *Fault* are plausible bugs
of the code, used to see that a property notices them; no specification uses them.

### ProjectSync - `torio project sync`

A commit is the set of commits reachable from it, so `merge-base --is-ancestor` is set
inclusion; a ref without a value is `{}`. `guest`, `head`, `tree`, `seen` are a checkout,
`hub`, `hubHead`, `mirror` a host repository, `staging[b]` the one staging directory of a box.
A sync is a program counter over `Steps`: one step per external command that changes something
another process can see, and one per read that is used later. `PlanOutbound` and `PlanInbound`
list both sides' refs and decide; `UpdateHubRef` and `UpdateGuestRef` write one ref each from
that plan, so every window between the listing and a write is there. `Fail` is any command's
error followed by the deferred cleanup, `Crash` a kill without it. `ensureHubHead` is three
commands and three steps: `ReadHubHead`, `ListHubBranches`, `PointHubHead`, with the branch kept
between. `attach[b]` is the attachment from a host repository under way in a box
(`attachFromHub`): the same three steps, then `AttachBundles` and `AttachClones`; `AttachStops` is
its failure and its kill, which leave the same. `Agent` is whoever works in the checkout: commits
and merges, switch (with a new branch), reset, delete, tag.

Abstracted: names of refs are numbers in sorted order (`master`, the second choice of
`preferredBranch`, is not one of them, and a clash of names as file and directory cannot
happen); the listing of one side's refs is one step; counting the commits of a move changes
nothing and is left out; uncommitted files are not modelled, only the commit the index and the
tree are at; a box has one attachment at a time (two of them in one box share the guest staging
path of `bundle.go`, of which the model keeps nothing).

What the code does not prevent is a parameter: `Overlap` says what may run at once - syncs that
share a box, syncs that share a project, attachments beside a sync - and `Quiet` whether agents
leave a checkout alone during its own sync.

### Registry and ProjectCommands - `add`, `set-remote`, `remove`

`Registry` is the promise: a document changed one whole entry at a time. `ProjectCommands` is
how: early checks on an unlocked read, minutes of guest work, then `TakeLock` (which reads),
`WriteRegistry`, `ReleaseLock`. `Shared == INSTANCE Registry` shares its constants and `record`;
the code's decisions on a document (`CanRegister`, `CanCorrect`, `CanForget`) are the abstract
module's, applied to what was read under the lock, and `RegistryKept == Shared!Spec` says the
interleaved file updates are registry updates.

A command is a program counter again, with `job` (what was asked, and the entry it resolved at
its start), `found` (the checkout as it saw it) and `read`. `tree[b][p]` keeps what decisions
read: there or not, its origin, shared permissions, tidy (clean, complete and without a
credential helper). `byHand` remembers whose origin it is. `Stop` is every failed command,
cancel and kill: no step has an undo.

Parameters: `SameProject` (commands on one project overlap) and `Hands` (when somebody sets an
origin or deletes a checkout by hand: never, while no command runs on it, or always).

### BrainSync - `torio brain sync`

A history is a set of contributions: a root per box, the notes, and `Markers` if conflict
markers were ever committed. A vault is its main branch, unsaved work, and a merge that stopped
with the edits made to resolve it. `Snapshot` uses the status `Start` read. Merges have the
three outcomes of Git: done, stopped on a conflict, not started. `AbortHub` and `AbortGuest` run
after either of the last two, as in the code. `Stop` ends a sync at any step;
`Meddle` lets people edit the files of a merge that stopped. Any two histories that diverged may
conflict or merge.

Abstracted: note contents and file names; the clone of the hub is one step; staging is private
to a sync, since two syncs of one box are assumed not to overlap (`Start`).

### Vault - `torio brain init` and `torio brain import`

One box, one vault, any number of commands. A directory is its files, what HEAD holds, all its
history ever held, and whether it has no, one or more commits; `vault`, `staging` and
`candidate` are the three directories the code moves about. A note's content is only who wrote
it. `lock` is the guest's lock directory: who made it, whose token is in it, whether it looks
stale. `MakeLock`, `ReadAge`, `StealLock`, `WriteToken`, `VerifyLock`, `Release` are its steps;
`Abandoned` is a lock whose maker died. Then one action per guest command of an init
(`CleanStaging` .. `Promote`) or an import (`CleanImport` .. `Exchange`), `Undo` and `Tidy` for
the deferred functions, `Fail` and `Kill`. An exchange whose answer is lost has happened.
Parameters: `Races` (a live holder outrun, a lock that changes hands while it is found stale)
and `Quiet` (the agent leaves the vault alone from an import's copy to its end).

### GuestSteps, ClaudeCode, Codex and Box - `torio vm`

A guest is a set of parts, each absent, good, stricter, drifted or foreign (bytes nobody
checked). GuestSteps names the kinds of step a bootstrap is made of; ClaudeCode and Codex list
their steps under the names of the Go methods; `Bootstrap` in Box concatenates them in the order
of the code. `plan[c]` is what a command has left, and each kind of step is one action: `Prove`,
`MakeAbsent` then `Write`, `Repoint` (the only repair in place), `DownloadAbsent` which inserts
`Fetch`, `Check`, `Place`, `Clear`. `Declare`, `Make`, `Boot`, `Reconnect`, `Halt` are the life
cycle; `Booted` reruns provisioning, which may fail with the VM up, and a session authenticated
before provisioning lacks the group. `Die`, `ForceStop`, `BootByHand`, `Tighten` (the agent) and
`Meddle` (a hand) happen at any time. `resolveBackend` is `Resolves`.

Abstracted: a configuration that exists and declares nothing is taken for none, so `Resolves`
allows a flag there that the code compares with the default; contents of a part; a probe and what
it proves are one step; a hand does not write a path between the probe that missed it and its
install (`Writing`).

### McpInstall - `torio mcp install` and `torio mcp login`

`have` is the custody boundary, `file` the release at each installed path, `loaded` the unit
systemd has in memory, `allow` and `decl` the two halves of the agent's configuration, `proc`
the broker with the release, unit and policy it started from. An install is a sequence of steps
that change at most one thing each; a login stores a session and may activate the broker.
`Respawn` is Restart=on-failure, `Reboot` a boot of the box; `EditPolicy`, `Upgrade` and
`AgentDeclares` change what installs aim at. `clean`, `calm` and `midway` are history: whether
what a report relies on changed since, whether nothing did, whether an earlier install stopped
halfway. What an install puts at each path is read when the code reads it: the unit is part of the
torio that runs, the executables are read after the boundary and the policy (`Payload`), so an
upgrade in between is an install of two releases. An upgrade between the two executables is left
out.

### AuditedBroker, AuditSink, Mediation, McpBroker and Brokers

`AuditedBroker` is what both audited processes promise: a decision goes into `log`, is `held`,
and takes effect once; a sink that is `shut` records nothing more until another process starts,
and a line whose sync was not confirmed may be on disk. `AuditSink` is the recorder, one text in
the two Go packages, and the connections: `Write` reads the latch and writes under the mutex,
`Sync` confirms or latches, `Act` goes upstream, `Answer` to the peer. `Mediation` adds the
session's proxy: accept, dial, the three kinds of request, the dialog, a stop that waits.
`McpBroker` adds the daemon: the policy it loads, its upstreams all or none, sockets, digest and
readiness in that order, pages of tools, calls. `Brokers` composes them (`system` says which of
the two an execution is about: they share no state), states fairness and the refinement
`AuditedFirst == Abstract!Spec`.

Abstracted: a request is its number, what it asks for and whether it was allowed; two services
with tools of their own are `ServiceOf`; the pages of one listing are compared with the grant
together when the last has come (`Build`), so a listing put together from before and after a
change upstream is not among them - no property reads what was listed.

### Wizard and Hub - `torio ui`

`Wizard` is the setup graph as a function of facts. `Hub` is the Bubble Tea loop: `Deliver` is
Update with one message, an action per message type; `Key` is Update with a key, an action per
handler; `Run` and `Resolve` are the functions that run beside the loop. `jobs` is the work under
way, each piece with its kind, its answer and, for an answer about a box, the facts it read.
`busy`, `probing`, `verified`, `afterSession`, `preview` are the fields of that name. `target`
is the package variable `lima.InstanceName`, which every command reads as it runs, `bound` the
box the dependencies were built for: they differ while a rebind is under way. Three variables
are history: `of`, the box the facts were read of; `fresh`, whether they came from the newest
probe, an older one, or from around a rebind; `strayed`, whether the answer that would have
given the lock back went to a screen that drops it.

Abstracted: what an operation does is `Effect` on five facts of a box; the answers of two older
probes with equal content are one piece of work; a probe of the guest reads it at one point; the
lists, forms and cursors of the screens are left out but for `preview`, which decides: the setup
form and the key that confirms are one `Key`. The brain syncs a rebind starts are left out; they
are BrainSync's.

### Model values

The MC modules give the constants their values. Boxes, projects, remotes, commands and syncs
are symmetric where their runs say so: nothing tells them apart but their names. `returns` and
`broker`, which check liveness, use no symmetry and no view. The view `Live` of MCProjectSync
drops, per step, what is written whole before it is read again (a bundle nobody will copy, a
mirror outside the plan made from it), so two states it identifies have the same successors up
to it and agree on every property checked.

## 4. The runs

| run | question | bounds |
| --- | --- | --- |
| `quiet` | Does history survive the meeting of two boxes in one repository, and does the report say what happened? | 2 boxes, 1 project, main and a tag, 2 commits, 1 sync at a time |
| `busy` | Does a new box find a branch to land on, when a sync and an attachment repair one HEAD and agents rewrite branches? | 2 boxes, 2 branches, 1 commit, 1 sync beside attachments |
| `returns` | Does every sync end, with another taking its staging away? | 1 box, 2 syncs, liveness |
| `apart` | Can a bundle left by a killed sync reach another project? | 2 boxes, 2 projects, 2 syncs |
| `registry` | Does the locked file implement the registry, is nothing recorded that is not held? | 2 projects, 2 remotes, 2 commands |
| `checkouts` | Is any checkout lost or repointed against its owner? | 1 box, 1 project, 2 commands, hands between commands |
| `reconcile` | Is anything written dropped, is the report true? | 2 boxes, 1 note, 2 syncs |
| `bootstrap` | Is a bootstrap that reports success right, whatever earlier ones left, and drift never repaired? | 1 command at a time, both backends, 7 parts a hand may change, 1 change |
| `install` | Is what an install reports so, does the last login start the broker, is a rerun idle? | 2 commands, 2 services, 2 releases, 2 edits, 1 change by the agent |
| `vault` | Is the vault never half made, and is no note lost? | 2 commands, 3 paths, 4 kinds of import |
| `broker` | Do both processes implement AuditedBroker, is drift visible, does every request end? | 2 connections, 2 requests, 2 starts, 2 tools, 1 edit, liveness |
| `hub` | Is there one operation at a time, and are the facts shown the bound box's? | 2 boxes, 3 kinds of start, 4 keys, 3 pieces of work when a key is pressed |

Why the bounds are enough to be interesting: a divergence takes two commits, one on each side; a
race on a host repository takes two boxes; a race on a staging directory takes two projects; a
lost registry update takes two commands and two entries. In `quiet` a tag stands for every ref
that is not checked out; `busy` needs a second branch for HEAD to go to, and a second box whose
attachment listed the branches before the sync wrote one. In `reconcile` the roots of the two
boxes already diverge, so one note is enough to be lost; the theorems hold for any number. Its
syncs are stopped at every step. In `bootstrap` a stop may fall between any two steps, so a rerun
meets every leftover; one change by hand is enough to be repaired wrongly. In `install` an edit of
the policy must meet an install of another release and two logins that each think the other comes
last. In `vault` a second command takes over the lock of a dead one, with its staging in place. In
`broker` one connection's failed sync must meet another's record, and a second start the log of
the first; two cursors let an upstream go round for ever. In `hub` four keys are an operation, a
change of screen or a rebind while it runs, and a probe that overtakes another; the operations
that answer in a screen's own handler (preflight, install) need two. `Effect` makes a box pass
through every step of the wizard from the three starts, not from one start in one sitting. Where a
theorem covers the property, the bound only makes the model checkable; where none does, section 6
says so.

**Fairness.** `returns` and `broker` assume some. `Sync` is straight-line code without waits or
retries, and every command it runs exits (each runs under the invocation's deadline), so a sync
that can take its next step, or can only fail, eventually does: weak fairness of that
disjunction, per sync. Nothing is assumed of agents, of other commands, or that a step succeeds.
In Brokers, per connection: the steps of its handler, because the confirmation dialog expires,
the calls upstream and the enumeration of tools run under timeouts (`BuildFails` covers the
latter: without it an upstream could hand out cursors for ever), and the operator's agent is
assumed to answer or hang up; strong fairness of `Write`, because the mutex of the recorder comes
free again and again and Go starves nobody; that the guest of a session that ended hangs up,
because its ssh is gone; and the last step of a stop. A peer need not ask, and a guest whose
session goes on need not hang up.

**Deadlock** is checked in every run but two: in `broker` and `hub` the bounds on starts and keys
let a system come to rest.

### What the findings say

Where the code and what is said of it part, each with its lines in `PROJECT.json`:

- *sync.go:300*. ADR-0029 says a ref moves only forward. It does when syncs of one project do not
  overlap (`HubForward`); when they do, the second `update-ref`, given no old value, replaces what
  the first wrote (`HubMovesForward` with an `Overlap` of one project).
- *sync.go:70*. One repository per project, but one staging directory per box with fixed names:
  overlapping syncs of two projects in one box carry one's history into the other's repository.
  Without overlap they stay apart, killed syncs included (`ProjectsStayApart`).
- *manager.go:433*. A correction made from one box cannot be finished on another: the origin `add`
  wrote there is compared with the already corrected record and reported as somebody's choice.
- *brain/sync.go:361*. A merge that cannot be made is said to leave that side exactly as it was;
  when the operator is in the middle of a merge in the hub, the abort discards it (`NotesKept` with
  `Meddle = TRUE`).
- *vm.go:149*. A `vm init` without `--backend` declares nothing, so a later command with the flag
  drives the guest as another agent. `bootstrap` runs with named flags only (`Named`); with
  `NoFlag` among them `DeclaredIsBuilt` and `BootstrapIsTrue` see it.
- *lifecycle.go:27*. The stale session is dropped only after the start's own limactl start: a boot
  by hand, or a start stopped before it, leaves a session without the group, which a bootstrap
  refuses and a second start (already running) does not mend.
- *mcppayload.go:60*. A rerun after an install stopped between replacing a file and its
  daemon-reload or restart finds the file current and skips both (`RerunIsTrue`: what
  `InstallIsTrue` leaves open after such a stop, which broker and which unit run, asked as well).
- *sync.go:337*. HEAD of a host repository is read, the branches are listed and it is repointed by
  three commands, by syncs and attachments alike: a HEAD that meanwhile came to resolve to `main`
  is still moved to the branch that was listed first (`HubHeadSettles`). It resolves all the same
  (`HubHeadResolves`).
- *mcpactivate.go:86*. A broker that could not start is neither active nor inactive, so the install
  that `mcp status` recommends refuses it.
- *sshagent/audit.go:69*. The latch after a failed write lives in the process: the next one appends
  to the uncertain tail. `AuditedBroker` therefore promises it per process.
- *tui/brain.go:76*. A preflight or an install whose operator changes the screen meanwhile never
  gives the lock back (`strayed`).
- *ui.go:314*, *root.go:576*, *root.go:583*. A rebind moves a global that probes under way read, so
  their answers are about the other box; overlapping probes overwrite newer facts; a failed
  operation is not followed by a probe. These are the exceptions `fresh` records.
- *mcp.go:153*, *mcp.go:160*. A refused hand-off leaves its completion registered for the next
  session; and a note is written from beside the loop.

## 5. What is proved

Each proof module EXTENDS its specification; a theorem holds for every value of the constants
its module's assumptions allow (finite or not, except where a maximum is a natural number).

**ProjectSync_proofs.** `TypeCorrect`. `HubForward`: if syncs of one project do not overlap, no
ref of a host repository loses a commit. The property alone is not inductive, because
`UpdateHubRef` trusts a plan made earlier; the invariant adds `ProjectsApart` (running syncs
have different projects) and `PlansForward` (while a sync writes, every planned target contains
what the ref holds). Agents, failures and kills are unrestricted. `ProjectsStayApart`: if syncs
of one box do not overlap, no commit reaches another project. Its invariant `Own` follows the
commits through every place they pass: checkouts, host repositories, mirrors, the bundle a sync
carries, and the staging of a box from `PrepareStaging` on; what a killed sync left there is
harmless because the next one clears it first. `HubHeadStaysResolved` assumes nothing: by `Targets`
the branch a sync or an attachment is about to point HEAD at has commits, because no step takes a
ref of a host repository away, and the command that saw HEAD resolve, or pointed it, leaves it so
whatever the others do in between.

Three more assume that agents leave a checkout alone while it is synced (`Quiet`).
`WorktreesStayWhole`, whatever overlaps: by `BranchRead` the branch a running sync read is the one
checked out, so no ref it writes beside the worktree is it, and by `TreeAtBranch` the worktree is
still at that branch when `merge --ff-only` finds it. `GuestForward`, if no two syncs work in one
checkout (`CheckoutsApart`): `GuestPlansForward` says, per ref a sync has still to write in the
guest, that the target contains what the ref holds. `ReportsAreTrue`, if no two syncs share a box
or a project: `OnTrack` follows every ref through the whole sync, from the two reads
(`HasTheGuests`, `HasTheHubs`) through what is decided of it and the two halves that are written
(`HubCatchesUp`, `GuestCatchesUp`) to what is said at the end (`ToldTheTruth`). What was read stays
so until it is used, a ref still to write lags behind its target, and of one that is written or was
never planned the two sides agree or its name is in the report.

**ProjectCommands_proofs.** `TypeCorrect`. `ImplementsRegistry`: initial states map to initial
states and each step to a registry step or a stutter. The invariant `LockKept` says only the
holder is between `TakeLock` and `ReleaseLock` and that what it read is still the record; that
is what makes its decision on `read` a decision on `record`. `RemotesStayUnique` follows on the
abstract side, where it is inductive. `CheckoutsStayKept`, when `Hands # "always"` (nobody touches
a checkout while a command runs on it): by the invariant `HandsOff` an addition never drops the
origin of a checkout somebody else set, and a set-remote that goes on to attach has found no
origin there or the remote it replaces. `RegisteredIsHeld`, under the same assumption and when
commands on one project do not overlap either: by `Prepared` an addition past its verification
still has the checkout it verified.

**BrainSync_proofs.** `TypeCorrect`. `ReportsAreTrue`, with other syncs stopping anywhere and the
operator free: `Underway` says per step what the hub already holds of what the box held at the
start, and the other way. `MarkersComeOfAStop`, whatever is killed wherever: a merge is stranded
in a box only by the sync that ended at its abort, and `Unmarked`, that no history has a marker,
merged or under way, is kept by every step but the snapshot of a stranded merge.
`NothingIsDropped`, if nobody edits the files of a merge left to be resolved: `Unmeddled` says
there is no resolution to lose.

**Box_proofs.** `TypeCorrect`: with `Ordered`, that what a command has left to do is the rest of a
list its kind can have, which is why a step finds only the parts it names. The plans a download
goes through are spelled out from the last step to the first (`claudePlace` to `claudeFetch`,
`codexPlace` to `codexFetch`). `OnlyCheckedBytes`, if commands that write do not overlap (`Alone`):
by `Checked` what a download found good and has not used up is not foreign, so what it puts under
the pinned name is not; a file that lies in the staging from before is rewritten by a fetch and
checked again. `DeclaredStaysBuilt`, if each command also names its backend: by `Agreed` an init
that is to declare finds its own backend declared or none, and one that is to make finds its own,
wherever the init before it stopped. Boots, deaths of the VM, the agent and the operator's hands
are unrestricted.

The other three theorems need what each step of a list is *about*. `BootWhole` shows of the two
lists that every step names parts of its own kind (`About`), that what is proved at all is owed by
a step that finds it or puts it in place, and that the owner of a binary and its answer come after
what installs it (`InOrder`); `Tamed` carries the first through every plan, and `Guest` says what a
part can have become: scratch never drifts, only private directories are stricter, only binaries
and scratch foreign, and in a guest no hand has touched, whose last boot provisioned it, all that a
boot supplies is held. `BootstrapTellsTheTruth`: by `Owing`, until a bootstrap ends every part it
proves is held now or owed by a step it has left. That a part once held stays held (`HeldStays`)
rests on `Awaited` - what a plan is still to place is absent until it does - and so on commands that
write not overlapping; a stop, a boot or a dead VM takes no part away, and a session whose member
of the group is held comes back with the group. `RerunsAreNotRefused`: by `Ready` what a step takes
for granted is good or an earlier step of the same plan sees to it, so each probe finds its part
(`Found`) and only a hand, a weak boot or a stale session is left to refuse for. `DriftIsKept`
follows from `Awaited` and `Guest`: the only step that can name a drifted part is the link's.

**McpInstall_proofs.** `TypeCorrect`. `CustodyComesFirst`: no session document, enabled unit or
running broker exists before the boundary is complete. Inductive with `Crossed` (a command past
its boundary step has a complete boundary) and that a broker's file implies it; nothing takes a
part of the boundary away. Overlapping commands, stops, crashes and boots are unrestricted.
`InstallsAreTrue`, `LoginsActivate` and `CalmInstallsLeaveAlone`, if installs and logins do not
overlap (`Alone`; nothing in the code locks two of them against each other). `Settled` says that
outside an install the unit in force is the file's and the process was started from the files
there are, `Downed` that an install that found the broker off and disabled finds it so when it
comes to disable it; `OnWay` says per step what an install on which nothing else happened has in
place already (`Way`), and its last step is what the report says is placed, whatever stopped
before (`Placed`); with `Settled` it is also what runs (`Installed`), unless an install stopped
midway and the box was not booted since. Only that part has the exception. `LoginWay` does the
same for a login, from the stored session to the activation. A calm rerun (`Calmly`) has found on
every step what it would have written (`Finds`), so the step writes nothing.

**Vault_proofs.** `TypeCorrect`. `VaultStaysWhole`, if locks do not race (`Races = {}`), with
failures, kills and the agent free: `Exclusive` says only the lock's maker is at work, so what a
command finds in `staging` and `candidate` is what it put there, and `Staged` and `Built` say per
step what that is: a whole scaffold from its commit to its promotion, a whole candidate from its
commit to the exchange, and the old vault in its place from then to the end of a rollback.
`NotesStayKept`, if also the agent rests during an import (`Quiet`): `Carried` follows the notes
from the vault into the candidate's files, its history and back. A first import has no notes to
carry, because a vault that is not one has neither files nor history (`Sound`). `ReportsAreTrue`, if
locks do not race and with the agent free again: `Brought` follows what an import was given from
the checked copy through the candidate's files and history into the vault's, which no later commit
of the agent takes it from, and says that a command undoing an exchange knows that it failed.

**Brokers_proofs.** `TypeCorrect`. `ImplementsAuditedBroker`: every step of the agent proxy and of
the MCP broker is a step of AuditedBroker or a stutter. The invariant says that the requests are
numbered apart, that one that is not recorded has a number no record carries, and that while
recording has not failed the one connection between its write and its sync holds the mutex;
that is what makes the record that is synced the one the effect is for. `DriftIsVisible`: by
`Honest` the digest names the policy the process read or nothing and goes when the process goes,
and what a connection was granted was granted by that policy. Connections, requests, starts,
kills, edits and failing writes are unrestricted.

**Hub_proofs.** `TypeCorrect`. `OneOperationAtATime`: inductive is that no two pieces of work that
hold the lock are under way, that `busy` says whether one is, and that a lock whose answer was
dropped is held by none. Boxes, keys and pieces of work are unrestricted. `FactsAreOfTheBox`: by
`Truthful` a probe asked around a rebind is marked stale, every other was asked of the box that is
bound, and unless a change is done whose probe is still to be asked (`Pending`)
what the newest answers tell is true of it; what an older answer tells is not, and the property
says so (`fresh`).

## 6. What is only model-checked, and what is not modelled

Only TLC, on the instances above: `SyncReturns` of ProjectSync and `RequestsEnd` of Brokers, which
are liveness under fairness and out of the prover's reach. Every other property of the runs is the
conclusion of a theorem, under the assumptions section 5 names.

The assumptions of passing runs are stated, and TLC shows what happens without them: agents at
work in a checkout during its own sync can lose a commit of a checked-out branch
(`GuestMovesForward`, `WorktreeFollowsBranch` with `Quiet = FALSE`); an origin set by hand while
`set-remote` runs can be overwritten (`CheckoutsKept` with `Hands = "always"`); additions on one
project at once can record what no checkout holds (`RecordedLast` with `SameProject = TRUE`).
Two leftovers of a kill in `brain sync` are in the model and stay: markers from one at
`abortGuest`, which the next snapshot commits (`MarkersNeedAStop` says there is no other way), and
the remote of the hub from one between its clone and `remote remove`.

Likewise an agent that writes while an import runs loses the note it wrote after the copy
(`NotesKept` of Vault with `Quiet = FALSE`), and a stale lock taken over while it changes hands, or
from a live holder, lets one init promote the other's half-made scaffold (`NeverHalf` with `Races`).

Not modelled, and why:

- *Reads that decide nothing*: `projects list` and `show`, session preflights, `mcp status`, the
  status poller and status line, `brain export`, the doctor's checks. They change no state.
- *Parsing and trusted storage of configuration*: sequential, unit-tested; the fallback that reads
  projects from an older configuration with it.
- *OAuth*: discovery, the browser flow and the refresh of a session are exchanges with a service;
  only that a login stores a session is kept.
- *Archive unpacking, redaction, the relay of the MCP connector, process groups of external
  commands*: one actor each, input and output.
- *Construction of guest command lines, rendering, the lists and forms of the hub's screens.*
- *Scripts, site, the prompts of the brain kit, the editor plugin*: no state of the running system.
- *Deletion of a box*: torio has no such command; limactl does it.
