------------------------------- MODULE Vault -------------------------------
(***************************************************************************)
(* `torio brain init` and `torio brain import` on one box (internal/brain  *)
(* manager.go, transfer.go): the guest lock and the recovery of a stale    *)
(* one, the scaffold that is staged and promoted, the candidate that is    *)
(* built beside the vault and exchanged with it, and the rollback.  Every  *)
(* step is one guest command; commands fail and die between any two, and   *)
(* the agent goes on writing notes.                                        *)
(***************************************************************************)
EXTENDS Naturals, FiniteSets

CONSTANTS
  Commands,   \* torio processes
  Asks,       \* what imports are asked to bring: sets of paths
  Writes,     \* the paths the agent writes
  Races,      \* "outrun": a live holder's lock may look stale;
              \* "recover": a lock may change hands while it is found stale
  Quiet       \* TRUE: the agent leaves the vault alone from the copy to the end

ASSUME RacesAssumption == Races \subseteq {"outrun", "recover"}
ASSUME QuietAssumption == Quiet \in BOOLEAN
ASSUME CommandsAssumption == {"none", "dead"} \cap Commands = {}

\* A canonical file, a note, and what is under the subtree named by --into.
Paths    == {"readme", "note", "into"}
ASSUME AsksAssumption == Asks \subseteq {{"readme"}, {"note"}, {"readme", "note"}, {"into"}}
ASSUME WritesAssumption == Writes \subseteq Paths

Contents == {"none", "template", "agent", "payload"}
Files    == [Paths -> Contents]
Nothing  == [p \in Paths |-> "none"]
Pairs(f) == {<<p, f[p]>> : p \in {q \in Paths : f[q] # "none"}}

\* A directory: its files, and of its repository what HEAD holds, all that its
\* history ever held, and the number of commits (2 stands for more).
Dirs  == [here : BOOLEAN, files : Files, head : Files,
          kept : SUBSET (Paths \X Contents), commits : 0..2]
Empty == [here |-> TRUE, files |-> Nothing, head |-> Nothing, kept |-> {}, commits |-> 0]
Gone  == [Empty EXCEPT !.here = FALSE]

VARIABLES
  vault,      \* the canonical directory
  staging,    \* .torio-brain-staging: the scaffold of an init
  candidate,  \* .torio-brain-candidate: what an import exchanges the vault with
  payload,    \* the files in .torio-brain-import-staging
  skill,      \* the retrieval skill is installed
  lock,       \* .torio-brain-init.lock
  my,         \* my[c]: what command c was asked and knows
  pc,         \* pc[c]: the step it is at
  result,     \* result[c]: how its last run ended
  written     \* the paths the agent wrote

places == <<vault, staging, candidate, payload, skill>>
ends   == <<result, written>>
vars   == <<places, lock, my, pc, ends>>

Jobs == [op : {"init", "import"}, what : {{}} \cup Asks, existing : BOOLEAN, replace : BOOLEAN,
         tried : BOOLEAN, swapped : BOOLEAN, failed : BOOLEAN]
Job(op, what) == [op |-> op, what |-> what, existing |-> FALSE, replace |-> FALSE,
                  tried |-> FALSE, swapped |-> FALSE, failed |-> FALSE]

\* maker: the command that made the directory; token: whose token is in it.
Free  == [maker |-> "none", token |-> "none", old |-> FALSE]
Locks == [maker : Commands \cup {"none", "dead"}, token : Commands \cup {"none", "dead"}, old : BOOLEAN]

Waiting == {"lock", "stale", "steal"}
Body    == {"inspect", "refresh", "clean", "scaffold", "commit", "promoting", "rmdir", "promote",
            "copy", "check", "build", "checkpoint", "merge", "exchange", "verify", "skill"}
Steps   == {"idle"} \cup Waiting \cup {"token", "owned"} \cup Body \cup {"undo", "tidy", "release"}

Init ==
  /\ vault = Empty /\ staging = Gone /\ candidate = Gone /\ payload = {} /\ skill = FALSE
  /\ lock = Free /\ my = [c \in Commands |-> Job("init", {})] /\ pc = [c \in Commands |-> "idle"]
  /\ result = [c \in Commands |-> "none"] /\ written = {}

-----------------------------------------------------------------------------
\* inspectStatus.
State(d) ==
  IF ~d.here \/ (d.files = Nothing /\ d.commits = 0) THEN "uninitialized"
  ELSE IF d.files["readme"] # "none" /\ d.commits > 0 THEN "initialized" ELSE "drift"

\* `git add -A` and `git commit`.
Committed(d) == [d EXCEPT !.head = d.files, !.kept = @ \cup Pairs(d.files),
                          !.commits = IF @ = 2 THEN 2 ELSE @ + 1]

\* isPristineScaffold: one commit, a clean tree, the templates and nothing else.
Pristine(d) ==
  /\ d.commits = 1 /\ d.files = d.head
  /\ d.files = [Nothing EXCEPT !["readme"] = "template"]

\* importConflicts.
Conflicts(what) == {p \in what : vault.files[p] # "none"}

Running(c)   == pc[c] # "idle"
At(c, step)  == pc[c] = step
Goto(c, to)  == pc' = [pc EXCEPT ![c] = to] /\ UNCHANGED <<my, ends>>
Know(c, j, to) == pc' = [pc EXCEPT ![c] = to] /\ my' = [my EXCEPT ![c] = j] /\ UNCHANGED ends
Done(c, how) == /\ pc' = [pc EXCEPT ![c] = "idle"] /\ my' = [my EXCEPT ![c] = Job("init", {})]
                /\ result' = [result EXCEPT ![c] = how] /\ UNCHANGED written

Start(c) == \E j \in {Job("init", {})} \cup {Job("import", w) : w \in Asks} :
  /\ ~Running(c)
  /\ my' = [my EXCEPT ![c] = j] /\ pc' = [pc EXCEPT ![c] = "lock"]
  /\ result' = [result EXCEPT ![c] = "none"]
  /\ UNCHANGED <<places, lock, written>>

-----------------------------------------------------------------------------
(* The lock. *)

\* Fault: the directory is made with -p.
MakeLockAnyway(c) ==
  /\ At(c, "lock") /\ UNCHANGED places
  /\ lock' = [maker |-> c, token |-> "none", old |-> FALSE] /\ Goto(c, "token")

MakeLock(c) ==
  /\ At(c, "lock") /\ UNCHANGED places
  /\ IF lock = Free
     THEN /\ lock' = [maker |-> c, token |-> "none", old |-> FALSE]
          /\ Know(c, [my[c] EXCEPT !.tried = FALSE], "token")
     ELSE /\ UNCHANGED lock
          /\ IF my[c].tried THEN Done(c, "failed") ELSE Goto(c, "stale")

\* recoverStaleInitLock: its age is read ...
ReadAge(c) ==
  /\ At(c, "stale") /\ UNCHANGED <<places, lock>>
  /\ IF lock = Free THEN Know(c, [my[c] EXCEPT !.tried = TRUE], "lock")
     ELSE IF lock.old THEN Goto(c, "steal") ELSE Done(c, "failed")

\* ... and the directory at its path is moved away and removed.
StealLock(c) ==
  /\ At(c, "steal") /\ UNCHANGED places
  /\ lock.old \/ lock = Free \/ "recover" \in Races
  /\ IF lock = Free THEN Done(c, "failed") /\ UNCHANGED lock
     ELSE lock' = Free /\ Know(c, [my[c] EXCEPT !.tried = TRUE], "lock")

\* The token goes into whatever directory is at the path.
WriteToken(c) ==
  /\ At(c, "token") /\ lock # Free /\ UNCHANGED places
  /\ lock' = [lock EXCEPT !.token = c, !.old = FALSE] /\ Goto(c, "owned")

Mine(c) == lock.token = c
VerifyLock(c) == At(c, "owned") /\ Mine(c) /\ Goto(c, "inspect") /\ UNCHANGED <<places, lock>>

Touch(c) == Mine(c) /\ lock' = [lock EXCEPT !.old = FALSE]

\* It ages when nobody refreshes it for ten minutes.
Age ==
  /\ lock # Free /\ ~lock.old /\ (lock.maker = "dead" \/ "outrun" \in Races)
  /\ lock' = [lock EXCEPT !.old = TRUE] /\ UNCHANGED <<places, my, pc, ends>>

Abandoned(c) == IF lock.maker # c THEN lock
                ELSE [lock EXCEPT !.maker = "dead", !.token = IF @ = c THEN "dead" ELSE @]

\* Fault: the deferred release overwrites the error that was to be returned.
ReleaseForgets(c) ==
  /\ At(c, "release") /\ Mine(c) /\ lock' = Free /\ Done(c, "ok") /\ UNCHANGED places

Release(c) ==
  /\ At(c, "release") /\ UNCHANGED places
  /\ \/ Mine(c) /\ lock' = Free /\ Done(c, IF my[c].failed THEN "failed" ELSE "ok")
     \/ lock' = Abandoned(c) /\ Done(c, "failed")

-----------------------------------------------------------------------------
(* Init. *)

Keep == UNCHANGED <<staging, candidate, payload, skill, lock>>

\* A directory that is missing is made; one that is whole is left alone.
InspectInit(c) ==
  /\ At(c, "inspect") /\ my[c].op = "init" /\ Keep
  /\ State(vault) # "drift"
  /\ vault' = IF vault.here THEN vault ELSE Empty
  /\ Goto(c, IF State(vault) = "initialized" THEN "skill" ELSE "refresh")

Refresh(c) ==
  /\ At(c, "refresh") /\ Touch(c) /\ UNCHANGED places
  /\ Goto(c, IF my[c].op = "init" THEN "clean" ELSE "exchange")

CleanStaging(c) ==
  /\ At(c, "clean") /\ my[c].op = "init" /\ staging' = Gone /\ Goto(c, "scaffold")
  /\ UNCHANGED <<vault, candidate, payload, skill, lock>>

\* The directories and, one after the other, the templates.
Scaffold(c) ==
  /\ At(c, "scaffold") /\ UNCHANGED <<vault, candidate, payload, skill, lock>>
  /\ \/ ~staging.here /\ staging' = Empty /\ Goto(c, "scaffold")
     \/ /\ staging.here /\ staging' = [staging EXCEPT !.files["readme"] = "template"]
        /\ Goto(c, "commit")

CommitStaging(c) ==
  /\ At(c, "commit") /\ my[c].op = "init" /\ staging.here
  /\ staging' = Committed(staging) /\ Goto(c, "promoting")
  /\ UNCHANGED <<vault, candidate, payload, skill, lock>>

RefreshPromote(c) == At(c, "promoting") /\ Touch(c) /\ Goto(c, "rmdir") /\ UNCHANGED places

RemoveEmpty(c) ==
  /\ At(c, "rmdir") /\ vault = Empty /\ vault' = Gone /\ Goto(c, "promote") /\ Keep

\* mv -T: over nothing or an empty directory.
Promote(c) ==
  /\ At(c, "promote") /\ staging.here /\ vault \in {Gone, Empty}
  /\ vault' = staging /\ staging' = Gone /\ Know(c, [my[c] EXCEPT !.swapped = TRUE], "verify")
  /\ UNCHANGED <<candidate, payload, skill, lock>>

\* The postcondition, and the skill, which goes in by way of its own staging.
Verify(c) ==
  /\ At(c, "verify") /\ State(vault) = "initialized" /\ Goto(c, "skill")
  /\ UNCHANGED <<places, lock>>

InstallSkill(c) ==
  /\ At(c, "skill") /\ skill' = TRUE
  /\ Goto(c, IF my[c].op = "init" THEN "release" ELSE "tidy")
  /\ UNCHANGED <<vault, staging, candidate, payload, lock>>

-----------------------------------------------------------------------------
(* Import. *)

InspectImport(c) ==
  LET what == my[c].what
      old  == State(vault) = "initialized"
      clash == Conflicts(what) # {}
  IN  /\ At(c, "inspect") /\ my[c].op = "import" /\ State(vault) # "drift"
      /\ old /\ clash => what # {"into"} /\ Pristine(vault)
      /\ Know(c, [my[c] EXCEPT !.existing = old, !.replace = old /\ clash], "clean")
      /\ UNCHANGED <<places, lock>>

CleanImport(c) ==
  /\ At(c, "clean") /\ my[c].op = "import"
  /\ payload' = {} /\ candidate' = Gone /\ Goto(c, "copy")
  /\ UNCHANGED <<vault, staging, skill, lock>>

\* limactl copy: in part, when it fails.
Copy(c) ==
  /\ At(c, "copy") /\ UNCHANGED <<vault, staging, candidate, skill, lock>>
  /\ \E got \in SUBSET my[c].what :
       payload' = got /\ 
       IF got = my[c].what THEN Goto(c, "check") ELSE Know(c, [my[c] EXCEPT !.failed = TRUE], "tidy")

\* verifyGuestPayload: links, count and checksums against the manifest.
Check(c) == At(c, "check") /\ payload = my[c].what /\ Goto(c, "build") /\ UNCHANGED <<places, lock>>

\* Fault: the candidate starts empty, the vault's notes are not copied into it.
BuildWithoutNotes(c) ==
  /\ At(c, "build")
  /\ candidate' = Empty /\ Goto(c, "merge")
  /\ UNCHANGED <<vault, staging, payload, skill, lock>>

Build(c) ==
  /\ At(c, "build")
  /\ candidate' = IF my[c].existing THEN [vault EXCEPT !.here = TRUE] ELSE Empty
  /\ Goto(c, IF my[c].existing THEN "checkpoint" ELSE "merge")
  /\ UNCHANGED <<vault, staging, payload, skill, lock>>

\* What the agent had not committed is, before anything lands on it.
Checkpoint(c) ==
  /\ At(c, "checkpoint") /\ candidate.here
  /\ candidate' = Committed(candidate) /\ Goto(c, "merge")
  /\ UNCHANGED <<vault, staging, payload, skill, lock>>

\* Fault: what is there already is run together with what arrives.
MergedTorn(f, new) == [p \in Paths |-> IF p \in new THEN IF f[p] = "agent" THEN "torn" ELSE "payload" ELSE f[p]]
Merged(f, new)     == [p \in Paths |-> IF p \in new THEN "payload" ELSE f[p]]

\* cp --update=none-fail, or a plain one over a pristine scaffold, or mv -T of
\* the subtree; a first import gets the templates it does not bring.
Merge(c) ==
  LET f == Merged(candidate.files, payload) IN
  /\ At(c, "merge") /\ candidate.here
  /\ my[c].replace \/ \A p \in payload : candidate.files[p] = "none"
  /\ candidate' = [candidate EXCEPT !.files =
       IF ~my[c].existing /\ f["readme"] = "none" THEN [f EXCEPT !["readme"] = "template"] ELSE f]
  /\ payload' = {} /\ Goto(c, "commit")
  /\ UNCHANGED <<vault, staging, skill, lock>>

CommitImport(c) ==
  /\ At(c, "commit") /\ my[c].op = "import" /\ candidate.here
  /\ candidate' = Committed(candidate) /\ Goto(c, "refresh")
  /\ UNCHANGED <<vault, staging, payload, skill, lock>>

\* renameat2(RENAME_EXCHANGE): both must be there.
Swap == /\ vault.here /\ candidate.here
        /\ vault' = candidate /\ candidate' = vault
        /\ UNCHANGED <<staging, payload, skill, lock>>

\* Whose answer is lost has happened, and the command does not know.
Exchange(c) ==
  /\ At(c, "exchange") /\ Swap
  /\ \/ Know(c, [my[c] EXCEPT !.swapped = TRUE], "verify")
     \/ Know(c, [my[c] EXCEPT !.failed = TRUE], "tidy")

\* A rollback that fails keeps the candidate for the operator.
Undo(c) ==
  /\ At(c, "undo")
  /\ \/ Swap /\ Goto(c, "tidy")
     \/ payload' = {} /\ Goto(c, "release") /\ UNCHANGED <<vault, staging, candidate, skill, lock>>

\* The deferred removal, whose own failure is not looked at.
Tidy(c) ==
  /\ At(c, "tidy") /\ Goto(c, "release") /\ UNCHANGED <<vault, skill, lock>>
  /\ \/ UNCHANGED <<staging, candidate, payload>>
     \/ IF my[c].op = "init" THEN staging' = Gone /\ UNCHANGED <<candidate, payload>>
        ELSE candidate' = Gone /\ payload' = {} /\ UNCHANGED staging

-----------------------------------------------------------------------------
\* An error: an answer that is not as it should be, a command that fails, a
\* timeout.  The deferred functions run.
Fail(c) ==
  /\ UNCHANGED places
  /\ \/ pc[c] \in Waiting /\ Done(c, "failed") /\ UNCHANGED lock
     \/ pc[c] \in {"token", "owned"} /\ Done(c, "failed") /\ lock' = Free
     \/ /\ pc[c] \in Body /\ UNCHANGED lock
        /\ Know(c, [my[c] EXCEPT !.failed = TRUE],
                IF ~my[c].swapped THEN "tidy" ELSE IF my[c].op = "init" THEN "release" ELSE "undo")

Kill(c) == Running(c) /\ lock' = Abandoned(c) /\ Done(c, "failed") /\ UNCHANGED places

\* The agent writes into a vault that is one.
Busy(c) == my[c].op = "import" /\ pc[c] \in
             {"checkpoint", "merge", "commit", "refresh", "exchange", "verify", "skill", "undo"}
AgentMay == State(vault) = "initialized" /\ (Quiet => \A c \in Commands : ~Busy(c))
AgentWrite(p) ==
  /\ AgentMay /\ vault' = [vault EXCEPT !.files[p] = "agent"] /\ written' = written \cup {p}
  /\ UNCHANGED <<staging, candidate, payload, skill, lock, my, pc, result>>
AgentCommit ==
  /\ AgentMay /\ vault' = Committed(vault)
  /\ UNCHANGED <<staging, candidate, payload, skill, lock, my, pc, ends>>

Step(c) ==
  \/ Start(c) \/ MakeLock(c) \/ ReadAge(c) \/ StealLock(c) \/ WriteToken(c) \/ VerifyLock(c) \/ Release(c)
  \/ InspectInit(c) \/ Refresh(c) \/ CleanStaging(c) \/ Scaffold(c) \/ CommitStaging(c)
  \/ RefreshPromote(c) \/ RemoveEmpty(c) \/ Promote(c) \/ Verify(c) \/ InstallSkill(c)
  \/ InspectImport(c) \/ CleanImport(c) \/ Copy(c) \/ Check(c) \/ Build(c) \/ Checkpoint(c) \/ Merge(c)
  \/ CommitImport(c) \/ Exchange(c) \/ Undo(c) \/ Tidy(c) \/ Fail(c) \/ Kill(c)

Next == (\E c \in Commands : Step(c)) \/ Age \/ AgentCommit \/ \E p \in Writes : AgentWrite(p)
Spec == Init /\ [][Next]_vars

-----------------------------------------------------------------------------
TypeOK ==
  /\ vault \in Dirs /\ staging \in Dirs /\ candidate \in Dirs
  /\ payload \subseteq Paths /\ skill \in BOOLEAN /\ lock \in Locks
  /\ my \in [Commands -> Jobs] /\ pc \in [Commands -> Steps]
  /\ result \in [Commands -> {"none", "ok", "failed"}] /\ written \subseteq Paths

\* Wherever commands stop, the vault is missing, empty or whole: never the half
\* of a scaffold or of an import, which both commands would refuse for ever as
\* data that is not theirs.
NeverHalf == State(vault) # "drift"

\* What the agent wrote is in the vault or in its history, through every
\* import, rollback, kill and takeover of the lock ("Existing data is never
\* overwritten").
NotesKept == \A p \in written : <<p, "agent">> \in Pairs(vault.files) \cup vault.kept

\* A command that returned no error leaves a managed vault with its skill, and
\* an import has brought all it was asked to, committed.
ReportIsTrue ==
  [][\A c \in Commands : result[c] # "ok" /\ result'[c] = "ok" =>
       /\ State(vault) = "initialized" /\ skill
       /\ \A p \in my[c].what : <<p, "payload">> \in vault.kept]_vars
=============================================================================
