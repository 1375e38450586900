---------------------------- MODULE Vault_proofs ----------------------------
(***************************************************************************)
(* Proofs about Vault, for any number of commands and imports: the vault   *)
(* is never half made when locks do not race, no note is lost when also    *)
(* the agent rests during an import, and a command that reports success    *)
(* has done what it was asked.  Inductive is that the lock's maker is the  *)
(* only command at work, what staging and candidate hold at each of its    *)
(* steps, and how far an import has brought what it was given.             *)
(***************************************************************************)
EXTENDS Vault, TLAPS

\* Where a command works under the lock.
Holding == {"token", "owned"} \cup Body \cup {"undo", "tidy", "release"}

\* A lock is its maker's, and goes stale only when that command died.
Exclusive ==
  /\ \A c \in Commands : pc[c] \in Holding => lock.maker = c
  /\ lock.old = TRUE => lock.maker = "dead"

Initialized(d) == State(d) = "initialized"

\* A directory that is not there holds nothing, and no commit no history.
Sound(d) ==
  /\ d.here = FALSE => d.files = Nothing /\ d.kept = {} /\ d.commits = 0
  /\ d.commits = 0 => d.kept = {}

Import(c, steps) == my[c].op = "import" /\ pc[c] \in steps

\* The scaffold of an init, from its commit to its promotion.
Staged(c) ==
  /\ my[c].op = "init" /\ pc[c] = "commit" => staging.here = TRUE /\ staging.files["readme"] # "none"
  /\ pc[c] \in {"promoting", "rmdir", "promote"} => Initialized(staging)

\* Only an init is at the steps of one, and only an import at an import's.
OfInit   == {"scaffold", "promoting", "rmdir", "promote"}
OfImport == {"copy", "check", "build", "checkpoint", "merge", "exchange", "undo"}
Kind(c)  == /\ pc[c] \in OfInit => my[c].op = "init"
            /\ pc[c] \in OfImport => my[c].op = "import"
Kinds    == \A c \in Commands : Kind(c)

\* What an import found in the vault, and its candidate from then on: the new
\* vault until the exchange, and the old one afterwards.
Built(c) ==
  /\ Import(c, {"clean", "copy", "check", "build"}) =>
       State(vault) = IF my[c].existing = TRUE THEN "initialized" ELSE "uninitialized"
  /\ Import(c, {"checkpoint"}) \/ (Import(c, {"merge"}) /\ my[c].existing = TRUE) => Initialized(candidate)
  /\ Import(c, {"commit"}) => candidate.here = TRUE /\ candidate.files["readme"] # "none"
  /\ Import(c, {"refresh", "exchange"}) => Initialized(candidate)
  /\ Import(c, {"verify", "skill"}) \/ pc[c] = "undo" => State(candidate) # "drift"
  /\ my[c].op = "import" /\ my[c].swapped = TRUE => pc[c] \in {"verify", "skill", "undo", "tidy", "release"}

\* If the agent rests during imports: its notes are in d, or in d's history.
Spared(d)    == Quiet = TRUE => \A p \in written : <<p, "agent">> \in Pairs(d.files) \cup d.kept
InHistory(d) == Quiet = TRUE => \A p \in written : <<p, "agent">> \in d.kept

Carried(c) ==
  /\ Import(c, {"checkpoint"}) => Spared(candidate)
  /\ Import(c, {"merge", "commit", "refresh", "exchange"}) => InHistory(candidate)
  /\ Import(c, {"verify", "skill"}) \/ pc[c] = "undo" => Spared(candidate)

Local(c)  == Staged(c) /\ Built(c) /\ Carried(c)
Steadfast == NeverHalf /\ Spared(vault) /\ Sound(vault) /\ Sound(staging) /\ Sound(candidate)
IInv      == TypeOK /\ Kinds /\ Exclusive /\ Steadfast /\ \A c \in Commands : Local(c)

-----------------------------------------------------------------------------
(* Directories. *)

LEMMA StateOf ==
  ASSUME NEW d \in Dirs
  PROVE  /\ Initialized(d) <=> d.here = TRUE /\ d.files["readme"] # "none" /\ d.commits > 0
         /\ State(d) = "uninitialized" <=> d.here = FALSE \/ (d.files = Nothing /\ d.commits = 0)
         /\ State(d) # "drift" <=> Initialized(d) \/ State(d) = "uninitialized"
<1>1. Nothing["readme"] = "none" BY DEF Nothing, Paths
<1>2. d.here \in BOOLEAN /\ d.commits \in 0..2 BY DEF Dirs
<1> QED BY <1>1, <1>2 DEF State, Initialized

LEMMA PairsOf ==
  ASSUME NEW f \in Files
  PROVE  Pairs(f) \subseteq Paths \X Contents
BY DEF Pairs, Files

LEMMA NoDirs ==
  /\ Empty \in Dirs /\ Empty.here = TRUE /\ Empty.files = Nothing /\ Empty.kept = {} /\ Empty.commits = 0
  /\ Gone \in Dirs /\ Gone.here = FALSE /\ Gone.files = Nothing /\ Gone.kept = {} /\ Gone.commits = 0
  /\ Nothing \in Files /\ Pairs(Nothing) = {}
<1>1. Nothing \in Files /\ \A p \in Paths : Nothing[p] = "none" BY DEF Nothing, Files, Contents
<1>2. Pairs(Nothing) = {} BY <1>1 DEF Pairs
<1> HIDE DEF Nothing
<1>3. Empty \in Dirs BY <1>1 DEF Empty, Dirs
<1>4. Gone \in Dirs BY <1>3 DEF Gone, Dirs
<1> QED BY <1>1, <1>2, <1>3, <1>4 DEF Empty, Gone

LEMMA CommittedOf ==
  ASSUME NEW d \in Dirs
  PROVE  /\ Committed(d) \in Dirs /\ Committed(d).here = d.here /\ Committed(d).files = d.files
         /\ Committed(d).kept = d.kept \cup Pairs(d.files) /\ Committed(d).commits \in 1..2
<1>1. d.files \in Files /\ d.kept \in SUBSET (Paths \X Contents) /\ d.commits \in 0..2 BY DEF Dirs
<1> DEFINE n == IF d.commits = 2 THEN 2 ELSE d.commits + 1
           k == d.kept \cup Pairs(d.files)
<1>2. n \in 1..2 BY <1>1
<1>3. k \in SUBSET (Paths \X Contents) BY <1>1, PairsOf
<1>4. Committed(d) = [d EXCEPT !.head = d.files, !.kept = k, !.commits = n]
  BY DEF Committed
<1> HIDE DEF n, k
<1>5. [d EXCEPT !.head = d.files, !.kept = k, !.commits = n] \in Dirs
  <2>1. n \in 0..2 BY <1>2
  <2>2. [d EXCEPT !.head = d.files] \in Dirs BY <1>1 DEF Dirs
  <2> DEFINE e == [d EXCEPT !.head = d.files]
  <2>3. e \in Dirs BY <2>2
  <2>4. [d EXCEPT !.head = d.files, !.kept = k, !.commits = n] = [e EXCEPT !.kept = k, !.commits = n]
    OBVIOUS
  <2> HIDE DEF e
  <2>5. [e EXCEPT !.kept = k] \in Dirs BY <1>3, <2>3 DEF Dirs
  <2>6. [e EXCEPT !.kept = k, !.commits = n] \in Dirs BY <2>1, <2>3, <2>5, <1>3 DEF Dirs
  <2> QED BY <2>4, <2>6
<1>6. /\ Committed(d).here = d.here /\ Committed(d).files = d.files
      /\ Committed(d).kept = k /\ Committed(d).commits = n
  BY <1>4 DEF Dirs
<1> QED BY <1>2, <1>4, <1>5, <1>6 DEF k

LEMMA FilledOf ==
  ASSUME NEW d \in Dirs, NEW f \in Files
  PROVE  LET e == [d EXCEPT !.files = f]
         IN  e \in Dirs /\ e.here = d.here /\ e.files = f /\ e.kept = d.kept /\ e.commits = d.commits
BY DEF Dirs

LEMMA WrittenOf ==
  ASSUME NEW d \in Dirs, NEW p \in Paths, NEW x \in Contents
  PROVE  LET e == [d EXCEPT !.files[p] = x]
         IN  /\ e \in Dirs /\ e.here = d.here /\ e.files = [d.files EXCEPT ![p] = x]
             /\ e.kept = d.kept /\ e.commits = d.commits
<1> DEFINE f == [d.files EXCEPT ![p] = x]
<1>1. f \in Files BY DEF Dirs, Files
<1>2. [d EXCEPT !.files[p] = x] = [d EXCEPT !.files = f] BY DEF Dirs
<1> HIDE DEF f
<1>3. LET e == [d EXCEPT !.files = f]
      IN  e \in Dirs /\ e.here = d.here /\ e.files = f /\ e.kept = d.kept /\ e.commits = d.commits
  BY <1>1, FilledOf
<1> QED BY <1>2, <1>3 DEF f

-----------------------------------------------------------------------------
(* A command's progress. *)

Control  == /\ my \in [Commands -> Jobs] /\ pc \in [Commands -> Steps]
            /\ result \in [Commands -> {"none", "ok", "failed"}] /\ written \subseteq Paths
Ground   == /\ vault \in Dirs /\ staging \in Dirs /\ candidate \in Dirs
            /\ payload \subseteq Paths /\ skill \in BOOLEAN

\* Only command c moves.
Only(c) ==
  /\ \A d \in Commands \ {c} : pc'[d] = pc[d] /\ my'[d] = my[d]
  /\ written' = written

\* It goes to a step, knowing j.
Moved(c, j, to) == Control' /\ Only(c) /\ pc'[c] = to /\ my'[c] = j

LEMMA TypeSplit == TypeOK <=> Ground /\ Control /\ lock \in Locks
BY DEF TypeOK, Ground, Control

LEMMA JobOf ==
  ASSUME NEW op \in {"init", "import"}, NEW what \in {{}} \cup Asks
  PROVE  /\ Job(op, what) \in Jobs /\ Job(op, what).swapped = FALSE
BY DEF Job, Jobs

LEMMA KnownOf ==
  ASSUME NEW j \in Jobs, NEW b \in BOOLEAN
  PROVE  /\ [j EXCEPT !.tried = b] \in Jobs /\ [j EXCEPT !.tried = b].op = j.op
         /\ [j EXCEPT !.tried = b].swapped = j.swapped
         /\ [j EXCEPT !.swapped = b] \in Jobs /\ [j EXCEPT !.swapped = b].op = j.op
         /\ [j EXCEPT !.failed = b] \in Jobs /\ [j EXCEPT !.failed = b].op = j.op
         /\ [j EXCEPT !.failed = b].swapped = j.swapped
BY DEF Jobs

LEMMA GotoMoved ==
  ASSUME Control, NEW c \in Commands, NEW to \in Steps, Goto(c, to)
  PROVE  Moved(c, my[c], to)
BY DEF Control, Goto, Moved, Only, ends

LEMMA KnowMoved ==
  ASSUME Control, NEW c \in Commands, NEW to \in Steps, NEW j \in Jobs, Know(c, j, to)
  PROVE  Moved(c, j, to)
BY DEF Control, Know, Moved, Only, ends

LEMMA DoneMoved ==
  ASSUME Control, NEW c \in Commands, NEW how \in {"ok", "failed"}, Done(c, how)
  PROVE  Moved(c, Job("init", {}), "idle")
BY JobOf DEF Control, Done, Moved, Only, Steps

LEMMA LockTypes ==
  ASSUME lock \in Locks, NEW c \in Commands
  PROVE  /\ Free \in Locks /\ [maker |-> c, token |-> "none", old |-> FALSE] \in Locks
         /\ [lock EXCEPT !.old = FALSE] \in Locks /\ [lock EXCEPT !.old = TRUE] \in Locks
         /\ [lock EXCEPT !.token = c, !.old = FALSE] \in Locks
         /\ [lock EXCEPT !.token = c, !.old = FALSE].maker = lock.maker
         /\ [lock EXCEPT !.token = c, !.old = FALSE].old = FALSE
         /\ Abandoned(c) \in Locks /\ Abandoned(c).old = lock.old
         /\ Abandoned(c).maker = IF lock.maker = c THEN "dead" ELSE lock.maker
<1> DEFINE t == IF lock.token = c THEN "dead" ELSE lock.token
           l == lock
           m == [lock EXCEPT !.maker = "dead"]
<1>1. l \in Locks /\ l = lock OBVIOUS
<1>2. m \in Locks /\ m.maker = "dead" /\ m.old = lock.old BY DEF Locks
<1>3. t \in Commands \cup {"none", "dead"} BY DEF Locks
<1>4. Abandoned(c) = IF lock.maker # c THEN lock ELSE [m EXCEPT !.token = t]
  BY DEF Abandoned, Locks
<1> HIDE DEF m, t, l
<1>5. [m EXCEPT !.token = t] \in Locks /\ [m EXCEPT !.token = t].maker = "dead"
      /\ [m EXCEPT !.token = t].old = lock.old
  BY <1>2, <1>3 DEF Locks
<1>6. /\ Abandoned(c) \in Locks /\ Abandoned(c).old = lock.old
      /\ Abandoned(c).maker = IF lock.maker = c THEN "dead" ELSE lock.maker
  BY <1>4, <1>5
<1> DEFINE n == [lock EXCEPT !.token = c]
<1>7. n \in Locks /\ n.maker = lock.maker BY DEF Locks
<1>8. [lock EXCEPT !.token = c, !.old = FALSE] = [n EXCEPT !.old = FALSE] OBVIOUS
<1> HIDE DEF n
<1>9. [n EXCEPT !.old = FALSE] \in Locks /\ [n EXCEPT !.old = FALSE].maker = n.maker
      /\ [n EXCEPT !.old = FALSE].old = FALSE
  BY <1>7 DEF Locks
<1>10. Free \in Locks /\ [maker |-> c, token |-> "none", old |-> FALSE] \in Locks BY DEF Free, Locks
<1>11. [lock EXCEPT !.old = FALSE] \in Locks /\ [lock EXCEPT !.old = TRUE] \in Locks BY DEF Locks
<1> QED BY <1>6, <1>7, <1>8, <1>9, <1>10, <1>11

-----------------------------------------------------------------------------
(* What a step leaves to the others. *)

\* A step of the command at work keeps the lock and what the invariant says of
\* its own directories.
Works(c) ==
  /\ TypeOK' /\ Only(c) /\ Kind(c)' /\ pc[c] \in Holding /\ pc'[c] \in Holding
  /\ lock'.maker = lock.maker /\ (lock'.old = TRUE => lock.old = TRUE)
  /\ Steadfast /\ Local(c) => Steadfast' /\ Local(c)'

\* Any other step leaves the directories as they are.
Waits(c) ==
  /\ TypeOK' /\ Only(c) /\ Kind(c)' /\ UNCHANGED places
  /\ Local(c) => Local(c)'
  /\ Races = {} /\ Exclusive => Exclusive'

LEMMA KindsKept ==
  ASSUME Kinds, NEW c \in Commands, Only(c), Kind(c)'
  PROVE  Kinds'
BY DEF Kinds, Kind, Only

LEMMA WorksKept ==
  ASSUME IInv, NEW c \in Commands, Works(c)
  PROVE  IInv'
<1>1. \A d \in Commands \ {c} : pc[d] \notin Holding
  <2>1. lock.maker = c BY DEF IInv, Exclusive, Works
  <2> QED BY <2>1 DEF IInv, Exclusive
<1>2. \A d \in Commands \ {c} : pc'[d] = pc[d] /\ my'[d] = my[d] BY DEF Works, Only
<1>3. Exclusive' BY <1>1, <1>2 DEF IInv, Exclusive, Works
<1>4. ASSUME NEW d \in Commands \ {c} PROVE Local(d)'
  <2>1. pc'[d] \notin Holding /\ pc'[d] = pc[d] /\ my'[d] = my[d] BY <1>1, <1>2
  <2>2. my[d].op = "import" /\ my[d].swapped = TRUE => FALSE
    BY <2>1 DEF IInv, Local, Built, Holding, Body
  <2>3. pc'[d] \notin {"commit", "promoting", "rmdir", "promote", "clean", "copy", "check", "build",
                      "checkpoint", "merge", "refresh", "exchange", "verify", "skill", "undo"}
    BY <2>1 DEF Holding, Body
  <2>4. Staged(d)' BY <2>3 DEF Staged
  <2>5. Built(d)' BY <2>1, <2>2, <2>3 DEF Built, Import
  <2>6. Carried(d)' BY <2>3 DEF Carried, Import
  <2> QED BY <2>4, <2>5, <2>6 DEF Local
<1>5. Steadfast' /\ Local(c)' BY DEF IInv, Works
<1>6. Kinds' BY KindsKept DEF IInv, Works
<1> QED BY <1>3, <1>4, <1>5, <1>6 DEF IInv, Works

LEMMA StillLocal ==
  ASSUME UNCHANGED places, written' = written, NEW d, pc'[d] = pc[d], my'[d] = my[d], Local(d)
  PROVE  Local(d)'
<1>1. vault' = vault /\ staging' = staging /\ candidate' = candidate BY DEF places
<1> QED BY <1>1 DEF Local, Staged, Built, Carried, Import, Spared, InHistory

LEMMA StillSteadfast ==
  ASSUME UNCHANGED places, written' = written, Steadfast
  PROVE  Steadfast'
<1>1. vault' = vault /\ staging' = staging /\ candidate' = candidate BY DEF places
<1> QED BY <1>1 DEF Steadfast, NeverHalf, Spared, Sound

LEMMA WaitsKept ==
  ASSUME IInv, NEW c \in Commands, Waits(c), Races = {}
  PROVE  IInv'
<1>1. \A d \in Commands \ {c} : pc'[d] = pc[d] /\ my'[d] = my[d] BY DEF Waits, Only
<1>2. UNCHANGED places /\ written' = written BY DEF Waits, Only
<1>3. ASSUME NEW d \in Commands \ {c} PROVE Local(d)' BY <1>1, <1>2, StillLocal DEF IInv
<1>4. Steadfast' BY <1>2, StillSteadfast DEF IInv
<1>5. Kinds' BY KindsKept DEF IInv, Waits
<1> QED BY <1>3, <1>4, <1>5 DEF IInv, Waits

\* Where the invariant says nothing of a command's directories.
Elsewhere == Waiting \cup {"idle", "token", "owned", "inspect", "tidy", "release"}

LEMMA ElsewhereLocal ==
  ASSUME NEW c, pc'[c] \in Elsewhere,
         my'[c].op = "import" /\ my'[c].swapped = TRUE => pc'[c] \in {"tidy", "release"}
  PROVE  Local(c)'
<1>1. pc'[c] \notin {"commit", "promoting", "rmdir", "promote", "clean", "copy", "check", "build",
                    "checkpoint", "merge", "refresh", "exchange", "verify", "skill", "undo"}
  BY DEF Elsewhere, Waiting
<1>2. Staged(c)' BY <1>1 DEF Staged
<1>3. Built(c)' BY <1>1 DEF Built, Import
<1>4. Carried(c)' BY <1>1 DEF Carried, Import
<1> QED BY <1>2, <1>3, <1>4 DEF Local

LEMMA GroundUnmoved ==
  ASSUME TypeOK, UNCHANGED places
  PROVE  Ground'
BY TypeSplit DEF Ground, places

LEMMA Retyped ==
  ASSUME Ground', Control', lock' \in Locks
  PROVE  TypeOK'
BY DEF TypeOK, Ground, Control

LEMMA Names == "none" \notin Commands /\ "dead" \notin Commands
BY CommandsAssumption

LEMMA Alone ==
  ASSUME Exclusive, NEW c \in Commands, pc[c] \in Holding \/ lock.maker \notin Commands
  PROVE  \A d \in Commands \ {c} : pc[d] \notin Holding
BY DEF Exclusive

LEMMA SameLock ==
  ASSUME Exclusive, NEW c \in Commands, Only(c), lock' = lock, pc'[c] \in Holding => pc[c] \in Holding
  PROVE  Exclusive'
BY DEF Exclusive, Only

LEMMA OtherLock ==
  ASSUME Exclusive, NEW c \in Commands, Only(c), \A d \in Commands \ {c} : pc[d] \notin Holding,
         lock'.old = TRUE => lock'.maker = "dead", pc'[c] \in Holding => lock'.maker = c
  PROVE  Exclusive'
BY DEF Exclusive, Only

\* Of a step to where nothing is said of c, all that is left is its lock.
LEMMA WaitsBy ==
  ASSUME TypeOK, NEW c \in Commands, NEW j, NEW to, Moved(c, j, to), to \in Elsewhere,
         UNCHANGED places, lock' \in Locks,
         j.swapped = FALSE \/ (j.op = my[c].op /\ j.swapped = my[c].swapped /\ pc[c] \in Elsewhere \ {"tidy", "release"}),
         Races = {} /\ Exclusive => Exclusive'
  PROVE  Waits(c)
<1>1. TypeOK' BY GroundUnmoved, Retyped DEF Moved
<1>2. Local(c) => Local(c)'
  <2> SUFFICES ASSUME Local(c) PROVE Local(c)'
    OBVIOUS
  <2>1. pc[c] \in Elsewhere \ {"tidy", "release"} => ~(my[c].op = "import" /\ my[c].swapped = TRUE)
    BY DEF Local, Built, Elsewhere, Waiting
  <2>2. pc'[c] \in Elsewhere /\ my'[c] = j BY DEF Moved
  <2>3. my'[c].op = "import" /\ my'[c].swapped = TRUE => pc'[c] \in {"tidy", "release"}
    BY <2>1, <2>2
  <2> QED BY <2>2, <2>3, ElsewhereLocal
<1>3. Kind(c)' BY DEF Kind, Moved, Elsewhere, Waiting, OfInit, OfImport
<1> QED BY <1>1, <1>2, <1>3 DEF Waits, Moved

LEMMA StartWaits ==
  ASSUME TypeOK, NEW c \in Commands, Start(c)
  PROVE  Waits(c)
<1>1. PICK j \in {Job("init", {})} \cup {Job("import", w) : w \in Asks} :
        my' = [my EXCEPT ![c] = j] /\ pc' = [pc EXCEPT ![c] = "lock"]
  BY DEF Start
<1>2. j \in Jobs /\ j.swapped = FALSE BY <1>1, JobOf
<1>3. Moved(c, j, "lock")
  BY <1>1, <1>2, TypeSplit DEF Start, Moved, Only, Control, Steps, Waiting
<1>4. UNCHANGED places /\ lock' = lock BY DEF Start
<1>5. Exclusive => Exclusive' BY <1>3, <1>4, SameLock DEF Moved, Holding, Body
<1>6. lock' \in Locks /\ "lock" \in Elsewhere BY <1>4, TypeSplit DEF Elsewhere, Waiting
<1> QED BY <1>2, <1>3, <1>4, <1>5, <1>6, WaitsBy

LEMMA DoneFacts ==
  ASSUME TypeOK, NEW c \in Commands, NEW how \in {"ok", "failed"}, Done(c, how)
  PROVE  /\ Moved(c, Job("init", {}), "idle") /\ Job("init", {}).swapped = FALSE
         /\ "idle" \in Elsewhere /\ "idle" \notin Holding
BY DoneMoved, JobOf, TypeSplit DEF Elsewhere, Holding, Body

\* The steps of the lock.
LEMMA MakeLockWaits ==
  ASSUME TypeOK, NEW c \in Commands, MakeLock(c)
  PROVE  Waits(c)
<1>1. UNCHANGED places /\ pc[c] = "lock" BY DEF MakeLock, At
<1>2. Control /\ lock \in Locks /\ my[c] \in Jobs BY TypeSplit DEF Control
<1>3. pc[c] \in Elsewhere \ {"tidy", "release"} BY <1>1 DEF Elsewhere, Waiting
<1>4. CASE lock = Free
  <2> DEFINE j == [my[c] EXCEPT !.tried = FALSE]
  <2>1. lock' = [maker |-> c, token |-> "none", old |-> FALSE] /\ Know(c, j, "token")
    BY <1>4 DEF MakeLock
  <2>2. j \in Jobs /\ j.op = my[c].op /\ j.swapped = my[c].swapped BY <1>2, KnownOf
  <2> HIDE DEF j
  <2>3. "token" \in Steps /\ "token" \in Elsewhere BY DEF Steps, Elsewhere
  <2>4. Moved(c, j, "token") BY <1>2, <2>1, <2>2, <2>3, KnowMoved
  <2>5. lock' \in Locks BY <1>2, <2>1, LockTypes
  <2>6. Exclusive => Exclusive'
    <3>1. lock.maker \notin Commands BY <1>4, Names DEF Free
    <3>2. lock'.maker = c /\ lock'.old = FALSE BY <2>1
    <3> QED BY <2>4, <3>1, <3>2, Alone, OtherLock DEF Moved
  <2> QED BY <1>1, <1>3, <2>2, <2>3, <2>4, <2>5, <2>6, WaitsBy
<1>5. CASE lock # Free /\ my[c].tried
  <2>1. Done(c, "failed") /\ lock' = lock BY <1>5 DEF MakeLock
  <2>2. lock' \in Locks BY <1>2, <2>1
  <2>3. Exclusive => Exclusive' BY <2>1, DoneFacts, SameLock DEF Moved
  <2> QED BY <1>1, <2>1, <2>2, <2>3, DoneFacts, WaitsBy
<1>6. CASE lock # Free /\ ~my[c].tried
  <2>1. Goto(c, "stale") /\ lock' = lock BY <1>6 DEF MakeLock
  <2>2. "stale" \in Steps /\ "stale" \in Elsewhere /\ "stale" \notin Holding
    BY DEF Steps, Elsewhere, Waiting, Holding, Body
  <2>3. Moved(c, my[c], "stale") BY <1>2, <2>1, <2>2, GotoMoved
  <2>4. lock' \in Locks BY <1>2, <2>1
  <2>5. Exclusive => Exclusive' BY <2>1, <2>2, <2>3, SameLock DEF Moved
  <2> QED BY <1>1, <1>3, <2>2, <2>3, <2>4, <2>5, WaitsBy
<1> QED BY <1>4, <1>5, <1>6

LEMMA ReadAgeWaits ==
  ASSUME TypeOK, NEW c \in Commands, ReadAge(c)
  PROVE  Waits(c)
<1>1. UNCHANGED places /\ pc[c] = "stale" /\ lock' = lock BY DEF ReadAge, At
<1>2. Control /\ lock' \in Locks /\ my[c] \in Jobs BY <1>1, TypeSplit DEF Control
<1>3. pc[c] \in Elsewhere \ {"tidy", "release"} BY <1>1 DEF Elsewhere, Waiting
<1>4. CASE lock = Free
  <2> DEFINE j == [my[c] EXCEPT !.tried = TRUE]
  <2>1. Know(c, j, "lock") BY <1>4 DEF ReadAge
  <2>2. j \in Jobs /\ j.op = my[c].op /\ j.swapped = my[c].swapped BY <1>2, KnownOf
  <2> HIDE DEF j
  <2>3. "lock" \in Steps /\ "lock" \in Elsewhere /\ "lock" \notin Holding
    BY DEF Steps, Elsewhere, Waiting, Holding, Body
  <2>4. Moved(c, j, "lock") BY <1>2, <2>1, <2>2, <2>3, KnowMoved
  <2>5. Exclusive => Exclusive' BY <1>1, <2>3, <2>4, SameLock DEF Moved
  <2> QED BY <1>1, <1>2, <1>3, <2>2, <2>3, <2>4, <2>5, WaitsBy
<1>5. CASE lock # Free /\ lock.old
  <2>1. Goto(c, "steal") BY <1>5 DEF ReadAge
  <2>2. "steal" \in Steps /\ "steal" \in Elsewhere /\ "steal" \notin Holding
    BY DEF Steps, Elsewhere, Waiting, Holding, Body
  <2>3. Moved(c, my[c], "steal") BY <1>2, <2>1, <2>2, GotoMoved
  <2>4. Exclusive => Exclusive' BY <1>1, <2>2, <2>3, SameLock DEF Moved
  <2> QED BY <1>1, <1>2, <1>3, <2>2, <2>3, <2>4, WaitsBy
<1>6. CASE lock # Free /\ ~lock.old
  <2>1. Done(c, "failed") BY <1>6 DEF ReadAge
  <2>2. Exclusive => Exclusive' BY <1>1, <2>1, DoneFacts, SameLock DEF Moved
  <2> QED BY <1>1, <1>2, <2>1, <2>2, DoneFacts, WaitsBy
<1> QED BY <1>4, <1>5, <1>6

LEMMA StealLockWaits ==
  ASSUME TypeOK, NEW c \in Commands, StealLock(c)
  PROVE  Waits(c)
<1>1. UNCHANGED places /\ pc[c] = "steal" BY DEF StealLock, At
<1>2. Control /\ lock \in Locks /\ my[c] \in Jobs BY TypeSplit DEF Control
<1>3. pc[c] \in Elsewhere \ {"tidy", "release"} BY <1>1 DEF Elsewhere, Waiting
<1>4. CASE lock = Free
  <2>1. Done(c, "failed") /\ lock' = lock BY <1>4 DEF StealLock
  <2>2. lock' \in Locks BY <1>2, <2>1
  <2>3. Exclusive => Exclusive' BY <2>1, DoneFacts, SameLock DEF Moved
  <2> QED BY <1>1, <2>1, <2>2, <2>3, DoneFacts, WaitsBy
<1>5. CASE lock # Free
  <2> DEFINE j == [my[c] EXCEPT !.tried = TRUE]
  <2>1. Know(c, j, "lock") /\ lock' = Free BY <1>5 DEF StealLock
  <2>2. j \in Jobs /\ j.op = my[c].op /\ j.swapped = my[c].swapped BY <1>2, KnownOf
  <2> HIDE DEF j
  <2>3. "lock" \in Steps /\ "lock" \in Elsewhere /\ "lock" \notin Holding
    BY DEF Steps, Elsewhere, Waiting, Holding, Body
  <2>4. Moved(c, j, "lock") BY <1>2, <2>1, <2>2, <2>3, KnowMoved
  <2>5. lock' \in Locks BY <1>2, <2>1, LockTypes
  <2>6. Races = {} /\ Exclusive => Exclusive'
    <3> SUFFICES ASSUME Races = {}, Exclusive PROVE Exclusive'
      OBVIOUS
    <3>1. lock.old = TRUE
      <4>1. lock.old BY <1>5 DEF StealLock
      <4> QED BY <1>2, <4>1 DEF Locks
    <3>2. lock.maker \notin Commands BY <3>1, Names DEF Exclusive
    <3>3. lock'.old = FALSE BY <2>1 DEF Free
    <3> QED BY <2>3, <2>4, <3>2, <3>3, Alone, OtherLock DEF Moved
  <2> QED BY <1>1, <1>3, <2>2, <2>3, <2>4, <2>5, <2>6, WaitsBy
<1> QED BY <1>4, <1>5

LEMMA WriteTokenWaits ==
  ASSUME TypeOK, NEW c \in Commands, WriteToken(c)
  PROVE  Waits(c)
<1>1. /\ UNCHANGED places /\ pc[c] = "token" /\ Goto(c, "owned")
      /\ lock' = [lock EXCEPT !.token = c, !.old = FALSE]
  BY DEF WriteToken, At
<1>2. Control /\ lock \in Locks BY TypeSplit
<1>3. /\ "owned" \in Steps /\ "owned" \in Elsewhere
      /\ pc[c] \in Elsewhere \ {"tidy", "release"} /\ pc[c] \in Holding
  BY <1>1 DEF Steps, Elsewhere, Holding
<1>4. Moved(c, my[c], "owned") BY <1>1, <1>2, <1>3, GotoMoved
<1>5. lock' \in Locks /\ lock'.maker = lock.maker /\ lock'.old = FALSE BY <1>1, <1>2, LockTypes
<1>6. Exclusive => Exclusive'
  <2>1. Exclusive => lock'.maker = c BY <1>3, <1>5 DEF Exclusive
  <2> QED BY <1>3, <1>4, <1>5, <2>1, Alone, OtherLock DEF Moved
<1> QED BY <1>1, <1>3, <1>4, <1>5, <1>6, WaitsBy

LEMMA VerifyLockWaits ==
  ASSUME TypeOK, NEW c \in Commands, VerifyLock(c)
  PROVE  Waits(c)
<1>1. UNCHANGED places /\ pc[c] = "owned" /\ Goto(c, "inspect") /\ lock' = lock
  BY DEF VerifyLock, At
<1>2. Control /\ lock' \in Locks BY <1>1, TypeSplit
<1>3. /\ "inspect" \in Steps /\ "inspect" \in Elsewhere
      /\ pc[c] \in Elsewhere \ {"tidy", "release"} /\ pc[c] \in Holding
  BY <1>1 DEF Steps, Body, Elsewhere, Holding
<1>4. Moved(c, my[c], "inspect") BY <1>1, <1>2, <1>3, GotoMoved
<1>5. Exclusive => Exclusive' BY <1>1, <1>3, <1>4, SameLock DEF Moved
<1> QED BY <1>1, <1>2, <1>3, <1>4, <1>5, WaitsBy

LEMMA ReleaseWaits ==
  ASSUME TypeOK, NEW c \in Commands, Release(c)
  PROVE  Waits(c)
<1>1. UNCHANGED places /\ pc[c] \in Holding BY DEF Release, At, Holding
<1>2. PICK how \in {"ok", "failed"} : Done(c, how) BY DEF Release
<1>3. Control /\ lock \in Locks BY TypeSplit
<1>4. Moved(c, Job("init", {}), "idle") /\ "idle" \notin Holding BY <1>2, DoneFacts
<1>5. lock' = Free \/ lock' = Abandoned(c) BY DEF Release
<1>6. lock' \in Locks BY <1>3, <1>5, LockTypes
<1>7. Exclusive => Exclusive'
  <2> SUFFICES ASSUME Exclusive PROVE Exclusive'
    OBVIOUS
  <2>1. lock.maker = c BY <1>1 DEF Exclusive
  <2>2. lock'.old = TRUE => lock'.maker = "dead"
    <3>1. CASE lock' = Free BY <3>1 DEF Free
    <3>2. CASE lock' = Abandoned(c) BY <1>3, <2>1, <3>2, LockTypes
    <3> QED BY <1>5, <3>1, <3>2
  <2> QED BY <1>1, <1>4, <2>2, Alone, OtherLock DEF Moved
<1> QED BY <1>1, <1>2, <1>6, <1>7, DoneFacts, WaitsBy

LEMMA KillWaits ==
  ASSUME TypeOK, NEW c \in Commands, Kill(c)
  PROVE  Waits(c)
<1>1. UNCHANGED places /\ lock' = Abandoned(c) /\ Done(c, "failed") BY DEF Kill
<1>2. lock \in Locks BY TypeSplit
<1>3. Moved(c, Job("init", {}), "idle") /\ "idle" \notin Holding BY <1>1, DoneFacts
<1>4. lock' \in Locks BY <1>1, <1>2, LockTypes
<1>5. Exclusive => Exclusive'
  <2> SUFFICES ASSUME Exclusive PROVE Exclusive'
    OBVIOUS
  <2>1. CASE lock.maker = c
    <3>1. \A d \in Commands \ {c} : pc[d] \notin Holding BY <2>1 DEF Exclusive
    <3>2. lock'.maker = "dead" BY <1>1, <1>2, <2>1, LockTypes
    <3> QED BY <1>3, <3>1, <3>2, OtherLock DEF Moved
  <2>2. CASE lock.maker # c
    <3>1. lock' = lock BY <1>1, <2>2 DEF Abandoned
    <3> QED BY <1>3, <3>1, SameLock DEF Moved
  <2> QED BY <2>1, <2>2
<1> QED BY <1>1, <1>3, <1>4, <1>5, DoneFacts, WaitsBy

-----------------------------------------------------------------------------
(* Work under the lock. *)

LEMMA Refreshed ==
  ASSUME lock \in Locks, NEW c, lock' = lock \/ Touch(c)
  PROVE  lock' \in Locks /\ lock'.maker = lock.maker /\ (lock'.old = TRUE => lock.old = TRUE)
BY DEF Touch, Locks

LEMMA WorksBy ==
  ASSUME TypeOK, NEW c \in Commands, NEW j, NEW to, Moved(c, j, to), Ground',
         pc[c] \in Holding, to \in Holding, lock' = lock \/ Touch(c),
         to \in OfInit => j.op = "init", to \in OfImport => j.op = "import",
         Steadfast /\ Local(c) => Steadfast' /\ Local(c)'
  PROVE  Works(c)
<1>1. lock' \in Locks /\ lock'.maker = lock.maker /\ (lock'.old = TRUE => lock.old = TRUE)
  BY Refreshed, TypeSplit
<1>2. Kind(c)' BY DEF Kind, Moved
<1> QED BY <1>1, <1>2, Retyped DEF Works, Moved

\* Nothing is known of an init but its scaffold ...
LEMMA InitLocal ==
  ASSUME NEW c, my'[c].op = "init", pc'[c] # "undo", Staged(c)'
  PROVE  Local(c)'
<1>1. Built(c)' BY DEF Built, Import
<1>2. Carried(c)' BY DEF Carried, Import
<1> QED BY <1>1, <1>2 DEF Local

\* ... nor of an import but its candidate.
LEMMA ImportLocal ==
  ASSUME NEW c, my'[c].op = "import", pc'[c] \notin {"promoting", "rmdir", "promote"},
         Built(c)', Carried(c)'
  PROVE  Local(c)'
BY DEF Local, Staged

LEMMA Ops == TypeOK => \A c \in Commands : my[c] \in Jobs /\ my[c].op \in {"init", "import"}
BY DEF TypeOK, Jobs

\* A change of staging or candidate to a directory that is sound.
LEMMA SteadfastBy ==
  ASSUME Steadfast, written' = written, vault' = vault,
         staging' = staging \/ Sound(staging'), candidate' = candidate \/ Sound(candidate')
  PROVE  Steadfast'
BY DEF Steadfast, NeverHalf, Spared, Sound

LEMMA SoundDirs ==
  /\ Sound(Empty) /\ Sound(Gone)
  /\ \A d \in Dirs : Sound(d) /\ d.here = TRUE => Sound(Committed(d))
  /\ \A d, e \in Dirs : Sound(d) /\ e.here = TRUE /\ e.kept = d.kept /\ e.commits = d.commits => Sound(e)
<1>1. Sound(Empty) /\ Sound(Gone) BY NoDirs DEF Sound
<1>2. ASSUME NEW d \in Dirs, d.here = TRUE PROVE Sound(Committed(d))
  <2>1. Committed(d).here = TRUE /\ Committed(d).commits \in 1..2 BY <1>2, CommittedOf
  <2>2. Committed(d).commits # 0 BY <2>1
  <2> QED BY <2>1, <2>2 DEF Sound
<1>3. ASSUME NEW d \in Dirs, NEW e \in Dirs, Sound(d), e.here = TRUE, e.kept = d.kept, e.commits = d.commits
      PROVE  Sound(e)
  BY <1>3 DEF Sound
<1>4. \A d, e \in Dirs : Sound(d) /\ e.here = TRUE /\ e.kept = d.kept /\ e.commits = d.commits => Sound(e)
  BY <1>3
<1>5. \A d \in Dirs : Sound(d) /\ d.here = TRUE => Sound(Committed(d)) BY <1>2
<1> HIDE DEF Sound
<1> QED BY <1>1, <1>4, <1>5

\* The steps of an init.
LEMMA InspectInitWorks ==
  ASSUME TypeOK, NEW c \in Commands, InspectInit(c)
  PROVE  Works(c)
<1> DEFINE to == IF State(vault) = "initialized" THEN "skill" ELSE "refresh"
<1>1. /\ pc[c] = "inspect" /\ my[c].op = "init" /\ Goto(c, to) /\ State(vault) # "drift"
      /\ vault' = IF vault.here THEN vault ELSE Empty
      /\ UNCHANGED <<staging, candidate, payload, skill, lock>>
  BY DEF InspectInit, At, Keep
<1>2. to \in {"skill", "refresh"} OBVIOUS
<1> HIDE DEF to
<1>3. to \in Steps /\ to \in Holding /\ pc[c] \in Holding BY <1>1, <1>2 DEF Steps, Holding, Body
<1>4. Moved(c, my[c], to) BY <1>1, <1>3, GotoMoved, TypeSplit
<1>5. Ground' BY <1>1, NoDirs, TypeSplit DEF Ground
<1>6. ASSUME Steadfast, Local(c) PROVE Steadfast' /\ Local(c)'
  <2>1. my'[c].op = "init" /\ pc'[c] = to /\ written' = written BY <1>1, <1>4 DEF Moved, Only
  <2>2. Staged(c)' BY <1>2, <2>1 DEF Staged
  <2>3. Local(c)' BY <1>2, <2>1, <2>2, InitLocal
  <2>4. Sound(staging)' /\ Sound(candidate)' BY <1>1, <1>6 DEF Steadfast, Sound
  <2>5. CASE vault.here = TRUE
    <3>1. vault' = vault BY <1>1, <2>5
    <3> QED BY <1>6, <2>1, <2>3, <2>4, <3>1 DEF Steadfast, NeverHalf, Spared, Sound
  <2>6. CASE vault.here = FALSE
    <3>1. vault' = Empty /\ vault.files = Nothing /\ vault.kept = {}
      BY <1>1, <1>6, <2>6 DEF Steadfast, Sound
    <3>2. Spared(vault)' BY <1>6, <2>1, <3>1, NoDirs DEF Steadfast, Spared
    <3>3. State(Empty) # "drift" BY NoDirs, StateOf
    <3>4. NeverHalf' BY <3>1, <3>3 DEF NeverHalf
    <3>5. Sound(vault)' BY <3>1, SoundDirs DEF Sound
    <3> QED BY <2>3, <2>4, <3>2, <3>4, <3>5 DEF Steadfast
  <2>7. vault.here \in BOOLEAN BY TypeSplit DEF Ground, Dirs
  <2> QED BY <2>5, <2>6, <2>7
<1> QED BY <1>1, <1>2, <1>3, <1>4, <1>5, <1>6, WorksBy DEF OfInit, OfImport

LEMMA RefreshWorks ==
  ASSUME TypeOK, NEW c \in Commands, Refresh(c)
  PROVE  Works(c)
<1> DEFINE to == IF my[c].op = "init" THEN "clean" ELSE "exchange"
<1>1. pc[c] = "refresh" /\ Goto(c, to) /\ Touch(c) /\ UNCHANGED places BY DEF Refresh, At
<1>2. /\ to \in Steps /\ to \in Holding /\ pc[c] \in Holding
      /\ to \notin OfInit /\ (to \in OfImport => my[c].op = "import")
  BY <1>1, Ops DEF Steps, Holding, Body, OfInit, OfImport
<1>3. Moved(c, my[c], to) BY <1>1, <1>2, GotoMoved, TypeSplit
<1>4. Ground' BY <1>1, GroundUnmoved
<1>5. ASSUME Steadfast, Local(c) PROVE Steadfast' /\ Local(c)'
  <2>1. my'[c] = my[c] /\ pc'[c] = to /\ written' = written BY <1>3 DEF Moved, Only
  <2>2. Steadfast' BY <1>1, <1>5, <2>1, StillSteadfast
  <2>3. CASE my[c].op = "init"
    <3>1. pc'[c] = "clean" /\ my'[c].op = "init" BY <2>1, <2>3
    <3>2. Staged(c)' BY <3>1 DEF Staged
    <3> QED BY <2>2, <3>1, <3>2, InitLocal
  <2>4. CASE my[c].op = "import"
    <3>1. pc'[c] = "exchange" /\ my'[c].op = "import" BY <2>1, <2>4
    <3>2. candidate' = candidate BY <1>1 DEF places
    <3>3. Built(c)' BY <1>1, <1>5, <2>1, <2>4, <3>1, <3>2 DEF Local, Built, Import
    <3>4. Carried(c)' BY <1>1, <1>5, <2>1, <2>4, <3>1, <3>2 DEF Local, Carried, Import, InHistory
    <3> QED BY <2>2, <3>1, <3>3, <3>4, ImportLocal
  <2> QED BY <2>3, <2>4, Ops
<1> QED BY <1>1, <1>2, <1>3, <1>4, <1>5, WorksBy DEF OfInit, OfImport

LEMMA CleanStagingWorks ==
  ASSUME TypeOK, NEW c \in Commands, CleanStaging(c)
  PROVE  Works(c)
<1>1. /\ pc[c] = "clean" /\ my[c].op = "init" /\ Goto(c, "scaffold") /\ staging' = Gone
      /\ UNCHANGED <<vault, candidate, payload, skill, lock>>
  BY DEF CleanStaging, At
<1>2. "scaffold" \in Steps /\ "scaffold" \in Holding /\ pc[c] \in Holding
  BY <1>1 DEF Steps, Holding, Body
<1>3. Moved(c, my[c], "scaffold") BY <1>1, <1>2, GotoMoved, TypeSplit
<1>4. Ground' BY <1>1, NoDirs, TypeSplit DEF Ground
<1>5. ASSUME Steadfast, Local(c) PROVE Steadfast' /\ Local(c)'
  <2>1. my'[c].op = "init" /\ pc'[c] = "scaffold" /\ written' = written BY <1>1, <1>3 DEF Moved, Only
  <2>2. Steadfast' BY <1>1, <1>5, <2>1, SoundDirs, SteadfastBy
  <2>3. Staged(c)' BY <2>1 DEF Staged
  <2> QED BY <2>1, <2>2, <2>3, InitLocal
<1> QED BY <1>1, <1>2, <1>3, <1>4, <1>5, WorksBy DEF OfInit, OfImport

LEMMA ScaffoldWorks ==
  ASSUME TypeOK, NEW c \in Commands, my[c].op = "init", Scaffold(c)
  PROVE  Works(c)
<1>1. pc[c] = "scaffold" /\ UNCHANGED <<vault, candidate, payload, skill, lock>> BY DEF Scaffold, At
<1>2. /\ {"scaffold", "commit"} \subseteq Steps /\ {"scaffold", "commit"} \subseteq Holding
      /\ pc[c] \in Holding
  BY <1>1 DEF Steps, Holding, Body
<1>3. CASE ~staging.here
  <2>1. staging' = Empty /\ Goto(c, "scaffold") BY <1>3 DEF Scaffold
  <2>2. Moved(c, my[c], "scaffold") BY <1>2, <2>1, GotoMoved, TypeSplit
  <2>3. Ground' BY <1>1, <2>1, NoDirs, TypeSplit DEF Ground
  <2>4. ASSUME Steadfast, Local(c) PROVE Steadfast' /\ Local(c)'
    <3>1. my'[c].op = "init" /\ pc'[c] = "scaffold" /\ written' = written BY <2>2 DEF Moved, Only
    <3>2. Steadfast' BY <1>1, <2>1, <2>4, <3>1, SoundDirs, SteadfastBy
    <3>3. Staged(c)' BY <3>1 DEF Staged
    <3> QED BY <3>1, <3>2, <3>3, InitLocal
  <2> QED BY <1>1, <1>2, <2>2, <2>3, <2>4, WorksBy DEF OfInit, OfImport
<1>4. CASE staging.here
  <2> DEFINE e == [staging EXCEPT !.files["readme"] = "template"]
  <2>1. staging' = e /\ Goto(c, "commit") BY <1>4 DEF Scaffold
  <2>2. staging \in Dirs /\ "readme" \in Paths /\ "template" \in Contents
    BY TypeSplit DEF Ground, Paths, Contents
  <2>3. e \in Dirs /\ e.here = staging.here /\ e.files = [staging.files EXCEPT !["readme"] = "template"]
        /\ e.kept = staging.kept /\ e.commits = staging.commits
    BY <2>2, WrittenOf
  <2> HIDE DEF e
  <2>4. Moved(c, my[c], "commit") BY <1>2, <2>1, GotoMoved, TypeSplit
  <2>5. Ground' BY <1>1, <2>1, <2>3, TypeSplit DEF Ground
  <2>6. e.here = TRUE BY <1>4, <2>2, <2>3 DEF Dirs
  <2>7. e.files["readme"] = "template" BY <2>2, <2>3 DEF Dirs, Files
  <2>8. ASSUME Steadfast, Local(c) PROVE Steadfast' /\ Local(c)'
    <3>1. my'[c].op = "init" /\ pc'[c] = "commit" /\ written' = written BY <2>4 DEF Moved, Only
    <3>2. Sound(e) BY <2>2, <2>3, <2>6, <2>8, SoundDirs DEF Steadfast
    <3>3. Steadfast' BY <1>1, <2>1, <2>8, <3>1, <3>2, SteadfastBy
    <3>4. Staged(c)' BY <2>1, <2>6, <2>7, <3>1 DEF Staged
    <3> QED BY <3>1, <3>3, <3>4, InitLocal
  <2> QED BY <1>1, <1>2, <2>4, <2>5, <2>8, WorksBy DEF OfInit, OfImport
<1> QED BY <1>3, <1>4

LEMMA CommitStagingWorks ==
  ASSUME TypeOK, NEW c \in Commands, CommitStaging(c)
  PROVE  Works(c)
<1> DEFINE e == Committed(staging)
<1>1. /\ pc[c] = "commit" /\ my[c].op = "init" /\ Goto(c, "promoting") /\ staging.here /\ staging' = e
      /\ UNCHANGED <<vault, candidate, payload, skill, lock>>
  BY DEF CommitStaging, At
<1>2. "promoting" \in Steps /\ "promoting" \in Holding /\ pc[c] \in Holding
  BY <1>1 DEF Steps, Holding, Body
<1>3. Moved(c, my[c], "promoting") BY <1>1, <1>2, GotoMoved, TypeSplit
<1>4. staging \in Dirs BY TypeSplit DEF Ground
<1>5. /\ e \in Dirs /\ e.here = staging.here /\ e.files = staging.files /\ e.commits \in 1..2
  BY <1>4, CommittedOf
<1>6. Steadfast => Sound(e) BY <1>1, <1>4, SoundDirs DEF Steadfast, Dirs
<1> HIDE DEF e
<1>7. Ground' BY <1>1, <1>5, TypeSplit DEF Ground
<1>8. ASSUME Steadfast, Local(c) PROVE Steadfast' /\ Local(c)'
  <2>1. my'[c].op = "init" /\ pc'[c] = "promoting" /\ written' = written BY <1>1, <1>3 DEF Moved, Only
  <2>2. Steadfast' BY <1>1, <1>6, <1>8, <2>1, SteadfastBy
  <2>3. staging.here = TRUE /\ staging.files["readme"] # "none" BY <1>1, <1>8 DEF Local, Staged
  <2>4. e.commits > 0 BY <1>5
  <2>5. Initialized(e) BY <1>5, <2>3, <2>4, StateOf
  <2>6. Staged(c)' BY <1>1, <2>1, <2>5 DEF Staged, Initialized
  <2> QED BY <2>1, <2>2, <2>6, InitLocal
<1> QED BY <1>1, <1>2, <1>3, <1>7, <1>8, WorksBy DEF OfInit, OfImport

\* From the commit of the scaffold to its promotion only an init gets there.
LEMMA RefreshPromoteWorks ==
  ASSUME TypeOK, NEW c \in Commands, my[c].op = "init", RefreshPromote(c)
  PROVE  Works(c)
<1>1. pc[c] = "promoting" /\ Goto(c, "rmdir") /\ Touch(c) /\ UNCHANGED places BY DEF RefreshPromote, At
<1>2. "rmdir" \in Steps /\ "rmdir" \in Holding /\ pc[c] \in Holding BY <1>1 DEF Steps, Holding, Body
<1>3. Moved(c, my[c], "rmdir") BY <1>1, <1>2, GotoMoved, TypeSplit
<1>4. Ground' BY <1>1, GroundUnmoved
<1>5. ASSUME Steadfast, Local(c) PROVE Steadfast' /\ Local(c)'
  <2>1. my'[c].op = "init" /\ pc'[c] = "rmdir" /\ written' = written BY <1>3 DEF Moved, Only
  <2>2. Steadfast' BY <1>1, <1>5, <2>1, StillSteadfast
  <2>3. Staged(c)' BY <1>1, <1>5, <2>1 DEF Local, Staged, places
  <2> QED BY <2>1, <2>2, <2>3, InitLocal
<1> QED BY <1>1, <1>2, <1>3, <1>4, <1>5, WorksBy DEF OfInit, OfImport

LEMMA RemoveEmptyWorks ==
  ASSUME TypeOK, NEW c \in Commands, my[c].op = "init", RemoveEmpty(c)
  PROVE  Works(c)
<1>1. /\ pc[c] = "rmdir" /\ Goto(c, "promote") /\ vault = Empty /\ vault' = Gone
      /\ UNCHANGED <<staging, candidate, payload, skill, lock>>
  BY DEF RemoveEmpty, Keep, At
<1>2. "promote" \in Steps /\ "promote" \in Holding /\ pc[c] \in Holding BY <1>1 DEF Steps, Holding, Body
<1>3. Moved(c, my[c], "promote") BY <1>1, <1>2, GotoMoved, TypeSplit
<1>4. Ground' BY <1>1, NoDirs, TypeSplit DEF Ground
<1>5. ASSUME Steadfast, Local(c) PROVE Steadfast' /\ Local(c)'
  <2>1. my'[c].op = "init" /\ pc'[c] = "promote" /\ written' = written BY <1>3 DEF Moved, Only
  <2>2. Spared(vault)' BY <1>1, <1>5, <2>1, NoDirs DEF Steadfast, Spared
  <2>3. State(Gone) # "drift" BY NoDirs, StateOf
  <2>4. Sound(staging)' /\ Sound(candidate)' BY <1>1, <1>5 DEF Steadfast, Sound
  <2>5. NeverHalf' /\ Sound(vault)' BY <1>1, <2>3, SoundDirs DEF NeverHalf, Sound
  <2>6. Staged(c)' BY <1>1, <1>5, <2>1 DEF Local, Staged
  <2>7. Local(c)' BY <2>1, <2>6, InitLocal
  <2> QED BY <2>2, <2>4, <2>5, <2>7 DEF Steadfast
<1> QED BY <1>1, <1>2, <1>3, <1>4, <1>5, WorksBy DEF OfInit, OfImport

LEMMA PromoteWorks ==
  ASSUME TypeOK, NEW c \in Commands, my[c].op = "init", Promote(c)
  PROVE  Works(c)
<1> DEFINE j == [my[c] EXCEPT !.swapped = TRUE]
<1>1. /\ pc[c] = "promote" /\ Know(c, j, "verify") /\ vault \in {Gone, Empty}
      /\ vault' = staging /\ staging' = Gone /\ UNCHANGED <<candidate, payload, skill, lock>>
  BY DEF Promote, At
<1>2. "verify" \in Steps /\ "verify" \in Holding /\ pc[c] \in Holding BY <1>1 DEF Steps, Holding, Body
<1>3. j \in Jobs /\ j.op = "init" BY Ops, KnownOf
<1> HIDE DEF j
<1>4. Moved(c, j, "verify") BY <1>1, <1>2, <1>3, KnowMoved, TypeSplit
<1>5. Ground' BY <1>1, NoDirs, TypeSplit DEF Ground
<1>6. ASSUME Steadfast, Local(c) PROVE Steadfast' /\ Local(c)'
  <2>1. my'[c].op = "init" /\ pc'[c] = "verify" /\ written' = written BY <1>3, <1>4 DEF Moved, Only
  <2>2. Spared(vault)' BY <1>1, <1>6, <2>1, NoDirs DEF Steadfast, Spared
  <2>3. State(staging) # "drift" BY <1>1, <1>6 DEF Local, Staged, Initialized
  <2>4. Sound(vault)' /\ Sound(candidate)' BY <1>1, <1>6 DEF Steadfast, Sound
  <2>5. NeverHalf' /\ Sound(staging)' BY <1>1, <2>3, SoundDirs DEF NeverHalf, Sound
  <2>6. Staged(c)' BY <2>1 DEF Staged
  <2>7. Local(c)' BY <2>1, <2>6, InitLocal
  <2> QED BY <2>2, <2>4, <2>5, <2>7 DEF Steadfast
<1> QED BY <1>1, <1>2, <1>3, <1>4, <1>5, <1>6, WorksBy DEF OfInit, OfImport

LEMMA VerifyWorks ==
  ASSUME TypeOK, NEW c \in Commands, Verify(c)
  PROVE  Works(c)
<1>1. pc[c] = "verify" /\ Goto(c, "skill") /\ lock' = lock /\ UNCHANGED places BY DEF Verify, At
<1>2. "skill" \in Steps /\ "skill" \in Holding /\ pc[c] \in Holding BY <1>1 DEF Steps, Holding, Body
<1>3. Moved(c, my[c], "skill") BY <1>1, <1>2, GotoMoved, TypeSplit
<1>4. Ground' BY <1>1, GroundUnmoved
<1>5. ASSUME Steadfast, Local(c) PROVE Steadfast' /\ Local(c)'
  <2>1. my'[c] = my[c] /\ pc'[c] = "skill" /\ written' = written BY <1>3 DEF Moved, Only
  <2>2. Steadfast' BY <1>1, <1>5, <2>1, StillSteadfast
  <2>3. candidate' = candidate BY <1>1 DEF places
  <2>4. Staged(c)' BY <2>1 DEF Staged
  <2>5. Built(c)' BY <1>1, <1>5, <2>1, <2>3 DEF Local, Built, Import
  <2>6. Carried(c)' BY <1>1, <1>5, <2>1, <2>3 DEF Local, Carried, Import, Spared
  <2> QED BY <2>2, <2>4, <2>5, <2>6 DEF Local
<1> QED BY <1>1, <1>2, <1>3, <1>4, <1>5, WorksBy DEF OfInit, OfImport

\* What ends the work leaves nothing to say of c.
LEMMA EndsLocal ==
  ASSUME NEW c, pc'[c] \in {"tidy", "release"}
  PROVE  Local(c)'
BY ElsewhereLocal DEF Elsewhere

LEMMA InstallSkillWorks ==
  ASSUME TypeOK, NEW c \in Commands, InstallSkill(c)
  PROVE  Works(c)
<1> DEFINE to == IF my[c].op = "init" THEN "release" ELSE "tidy"
<1>1. /\ pc[c] = "skill" /\ Goto(c, to) /\ skill' = TRUE
      /\ UNCHANGED <<vault, staging, candidate, payload, lock>>
  BY DEF InstallSkill, At
<1>2. to \in {"release", "tidy"} OBVIOUS
<1> HIDE DEF to
<1>3. to \in Steps /\ to \in Holding /\ pc[c] \in Holding BY <1>1, <1>2 DEF Steps, Holding, Body
<1>4. Moved(c, my[c], to) BY <1>1, <1>3, GotoMoved, TypeSplit
<1>5. Ground' BY <1>1, TypeSplit DEF Ground
<1>6. ASSUME Steadfast, Local(c) PROVE Steadfast' /\ Local(c)'
  <2>1. pc'[c] = to /\ written' = written BY <1>4 DEF Moved, Only
  <2>2. Steadfast' BY <1>1, <1>6, <2>1, SteadfastBy
  <2> QED BY <1>2, <2>1, <2>2, EndsLocal
<1> QED BY <1>1, <1>2, <1>3, <1>4, <1>5, <1>6, WorksBy DEF OfInit, OfImport

\* The steps of an import.
LEMMA InspectImportWorks ==
  ASSUME TypeOK, NEW c \in Commands, InspectImport(c)
  PROVE  Works(c)
<1> DEFINE old   == State(vault) = "initialized"
           other == old /\ Conflicts(my[c].what) # {}
           j     == [my[c] EXCEPT !.existing = old, !.replace = other]
<1>1. /\ pc[c] = "inspect" /\ my[c].op = "import" /\ Know(c, j, "clean") /\ State(vault) # "drift"
      /\ UNCHANGED <<places, lock>>
  BY DEF InspectImport, At
<1>2. "clean" \in Steps /\ "clean" \in Holding /\ pc[c] \in Holding BY <1>1 DEF Steps, Holding, Body
<1>3. old \in BOOLEAN /\ other \in BOOLEAN OBVIOUS
<1>4. vault \in Dirs BY TypeSplit DEF Ground
<1>5. old = TRUE => State(vault) = "initialized" OBVIOUS
<1>6. old # TRUE => State(vault) = "uninitialized" BY <1>1, <1>4, StateOf DEF Initialized
<1> HIDE DEF old, other
<1>7. j \in Jobs /\ j.op = "import" /\ j.existing = old /\ j.swapped = my[c].swapped
  <2> DEFINE k == [my[c] EXCEPT !.existing = old]
  <2>1. my[c] \in Jobs BY Ops
  <2>2. k \in Jobs /\ k.op = my[c].op /\ k.existing = old /\ k.swapped = my[c].swapped
    BY <1>3, <2>1 DEF Jobs
  <2>3. j = [k EXCEPT !.replace = other] OBVIOUS
  <2> HIDE DEF j, k
  <2>4. LET m == [k EXCEPT !.replace = other]
        IN  m \in Jobs /\ m.op = k.op /\ m.existing = k.existing /\ m.swapped = k.swapped
    BY <1>3, <2>2 DEF Jobs
  <2> QED BY <1>1, <2>2, <2>3, <2>4
<1> HIDE DEF j
<1>8. Moved(c, j, "clean") BY <1>1, <1>2, <1>7, KnowMoved, TypeSplit
<1>9. Ground' BY <1>1, GroundUnmoved
<1>10. ASSUME Steadfast, Local(c) PROVE Steadfast' /\ Local(c)'
  <2>1. my'[c] = j /\ pc'[c] = "clean" /\ written' = written /\ vault' = vault
    BY <1>1, <1>8 DEF Moved, Only, places
  <2>2. Steadfast' BY <1>1, <1>10, <2>1, StillSteadfast
  <2>3. j.swapped # TRUE BY <1>1, <1>7, <1>10 DEF Local, Built
  <2>4. State(vault') = IF j.existing = TRUE THEN "initialized" ELSE "uninitialized"
    BY <1>5, <1>6, <1>7, <2>1
  <2>5. Built(c)' BY <2>1, <2>3, <2>4 DEF Built, Import
  <2>6. Carried(c)' BY <2>1 DEF Carried, Import
  <2> QED BY <1>7, <2>1, <2>2, <2>5, <2>6, ImportLocal
<1> QED BY <1>1, <1>2, <1>7, <1>8, <1>9, <1>10, WorksBy DEF OfInit, OfImport

\* What was found stays so while the vault does.
LEMMA StillReading ==
  ASSUME NEW c, Local(c), Import(c, {"clean", "copy", "check", "build"}), vault' = vault,
         my'[c] = my[c], pc'[c] \in {"copy", "check", "build"}
  PROVE  Local(c)'
<1>1. my'[c].op = "import" /\ pc[c] \in {"clean", "copy", "check", "build"} BY DEF Import
<1>2. my[c].swapped # TRUE BY <1>1 DEF Local, Built, Import
<1>3. Built(c)' BY <1>1, <1>2 DEF Local, Built, Import
<1>4. Carried(c)' BY DEF Carried, Import
<1> QED BY <1>1, <1>3, <1>4, ImportLocal

LEMMA CleanImportWorks ==
  ASSUME TypeOK, NEW c \in Commands, CleanImport(c)
  PROVE  Works(c)
<1>1. /\ pc[c] = "clean" /\ my[c].op = "import" /\ Goto(c, "copy") /\ payload' = {} /\ candidate' = Gone
      /\ UNCHANGED <<vault, staging, skill, lock>>
  BY DEF CleanImport, At
<1>2. "copy" \in Steps /\ "copy" \in Holding /\ pc[c] \in Holding BY <1>1 DEF Steps, Holding, Body
<1>3. Moved(c, my[c], "copy") BY <1>1, <1>2, GotoMoved, TypeSplit
<1>4. Ground' BY <1>1, NoDirs, TypeSplit DEF Ground
<1>5. ASSUME Steadfast, Local(c) PROVE Steadfast' /\ Local(c)'
  <2>1. my'[c] = my[c] /\ pc'[c] = "copy" /\ written' = written BY <1>3 DEF Moved, Only
  <2>2. Steadfast' BY <1>1, <1>5, <2>1, SoundDirs, SteadfastBy
  <2>3. Local(c)' BY <1>1, <1>5, <2>1, StillReading DEF Import
  <2> QED BY <2>2, <2>3
<1> QED BY <1>1, <1>2, <1>3, <1>4, <1>5, WorksBy DEF OfInit, OfImport

LEMMA CopyWorks ==
  ASSUME TypeOK, NEW c \in Commands, my[c].op = "import", Copy(c)
  PROVE  Works(c)
<1>1. pc[c] = "copy" /\ UNCHANGED <<vault, staging, candidate, skill, lock>> BY DEF Copy, At
<1>2. PICK got \in SUBSET my[c].what :
        /\ payload' = got
        /\ IF got = my[c].what THEN Goto(c, "check") ELSE Know(c, [my[c] EXCEPT !.failed = TRUE], "tidy")
  BY DEF Copy
<1>3. /\ {"check", "tidy"} \subseteq Steps /\ {"check", "tidy"} \subseteq Holding
      /\ pc[c] \in Holding
  BY <1>1 DEF Steps, Holding, Body
<1>4. payload' \subseteq Paths
  <2>1. my[c] \in Jobs BY Ops
  <2>2. my[c].what \in {{}} \cup Asks BY <2>1 DEF Jobs
  <2>3. my[c].what \subseteq Paths BY <2>2, AsksAssumption DEF Paths
  <2> QED BY <1>2, <2>3
<1>5. Ground' BY <1>1, <1>4, TypeSplit DEF Ground
<1>6. CASE Goto(c, "check")
  <2>1. Moved(c, my[c], "check") BY <1>3, <1>6, GotoMoved, TypeSplit
  <2>2. ASSUME Steadfast, Local(c) PROVE Steadfast' /\ Local(c)'
    <3>1. my'[c] = my[c] /\ pc'[c] = "check" /\ written' = written BY <2>1 DEF Moved, Only
    <3>2. Steadfast' BY <1>1, <2>2, <3>1, SteadfastBy
    <3>3. Local(c)' BY <1>1, <2>2, <3>1, StillReading DEF Import
    <3> QED BY <3>2, <3>3
  <2> QED BY <1>1, <1>3, <1>5, <2>1, <2>2, WorksBy DEF OfInit, OfImport
<1>7. CASE Know(c, [my[c] EXCEPT !.failed = TRUE], "tidy")
  <2> DEFINE j == [my[c] EXCEPT !.failed = TRUE]
  <2>1. j \in Jobs /\ Know(c, j, "tidy") BY <1>7, KnownOf, Ops
  <2> HIDE DEF j
  <2>2. Moved(c, j, "tidy") BY <1>3, <2>1, KnowMoved, TypeSplit
  <2>3. ASSUME Steadfast, Local(c) PROVE Steadfast' /\ Local(c)'
    <3>1. pc'[c] = "tidy" /\ written' = written BY <2>2 DEF Moved, Only
    <3>2. Steadfast' BY <1>1, <2>3, <3>1, SteadfastBy
    <3> QED BY <3>1, <3>2, EndsLocal
  <2> QED BY <1>1, <1>3, <1>5, <2>2, <2>3, WorksBy DEF OfInit, OfImport
<1> QED BY <1>2, <1>6, <1>7

LEMMA CheckWorks ==
  ASSUME TypeOK, NEW c \in Commands, my[c].op = "import", Check(c)
  PROVE  Works(c)
<1>1. pc[c] = "check" /\ Goto(c, "build") /\ lock' = lock /\ UNCHANGED places BY DEF Check, At
<1>2. "build" \in Steps /\ "build" \in Holding /\ pc[c] \in Holding BY <1>1 DEF Steps, Holding, Body
<1>3. Moved(c, my[c], "build") BY <1>1, <1>2, GotoMoved, TypeSplit
<1>4. Ground' BY <1>1, GroundUnmoved
<1>5. ASSUME Steadfast, Local(c) PROVE Steadfast' /\ Local(c)'
  <2>1. my'[c] = my[c] /\ pc'[c] = "build" /\ written' = written /\ vault' = vault
    BY <1>1, <1>3 DEF Moved, Only, places
  <2>2. Steadfast' BY <1>1, <1>5, <2>1, StillSteadfast
  <2>3. Local(c)' BY <1>1, <1>5, <2>1, StillReading DEF Import
  <2> QED BY <2>2, <2>3
<1> QED BY <1>1, <1>2, <1>3, <1>4, <1>5, WorksBy DEF OfInit, OfImport

LEMMA BuildWorks ==
  ASSUME TypeOK, NEW c \in Commands, my[c].op = "import", Build(c)
  PROVE  Works(c)
<1>1. pc[c] = "build" /\ UNCHANGED <<vault, staging, payload, skill, lock>> BY DEF Build, At
<1>2. /\ {"checkpoint", "merge"} \subseteq Steps /\ {"checkpoint", "merge"} \subseteq Holding
      /\ pc[c] \in Holding
  BY <1>1 DEF Steps, Holding, Body
<1>3. vault \in Dirs BY TypeSplit DEF Ground
<1>4. my[c].existing \in BOOLEAN BY Ops DEF Jobs
<1>5. CASE my[c].existing = TRUE
  <2> DEFINE e == [vault EXCEPT !.here = TRUE]
  <2>1. candidate' = e /\ Goto(c, "checkpoint") BY <1>5 DEF Build
  <2>2. /\ e \in Dirs /\ e.here = TRUE /\ e.files = vault.files /\ e.kept = vault.kept
        /\ e.commits = vault.commits
    BY <1>3 DEF Dirs
  <2> HIDE DEF e
  <2>3. Moved(c, my[c], "checkpoint") BY <1>2, <2>1, GotoMoved, TypeSplit
  <2>4. Ground' BY <1>1, <2>1, <2>2, TypeSplit DEF Ground
  <2>5. ASSUME Steadfast, Local(c) PROVE Steadfast' /\ Local(c)'
    <3>1. my'[c] = my[c] /\ pc'[c] = "checkpoint" /\ written' = written BY <2>3 DEF Moved, Only
    <3>2. Sound(e) BY <1>3, <2>2, <2>5, SoundDirs DEF Steadfast
    <3>3. Steadfast' BY <1>1, <2>1, <2>5, <3>1, <3>2, SteadfastBy
    <3>4. Initialized(vault) BY <1>1, <1>5, <2>5 DEF Local, Built, Import, Initialized
    <3>5. Initialized(e) BY <1>3, <2>2, <3>4, StateOf
    <3>6. my[c].swapped # TRUE BY <1>1, <2>5 DEF Local, Built
    <3>7. Built(c)' BY <2>1, <3>1, <3>5, <3>6 DEF Built, Import, Initialized
    <3>8. Spared(candidate)' BY <2>1, <2>2, <2>5, <3>1 DEF Steadfast, Spared
    <3>9. Carried(c)' BY <3>1, <3>8 DEF Carried, Import
    <3> QED BY <3>1, <3>3, <3>7, <3>9, ImportLocal
  <2> QED BY <1>1, <1>2, <2>3, <2>4, <2>5, WorksBy DEF OfInit, OfImport
<1>6. CASE my[c].existing = FALSE
  <2>1. candidate' = Empty /\ Goto(c, "merge") BY <1>6 DEF Build
  <2>2. Moved(c, my[c], "merge") BY <1>2, <2>1, GotoMoved, TypeSplit
  <2>3. Ground' BY <1>1, <2>1, NoDirs, TypeSplit DEF Ground
  <2>4. ASSUME Steadfast, Local(c) PROVE Steadfast' /\ Local(c)'
    <3>1. my'[c] = my[c] /\ pc'[c] = "merge" /\ written' = written BY <2>2 DEF Moved, Only
    <3>2. Steadfast' BY <1>1, <2>1, <2>4, <3>1, SoundDirs, SteadfastBy
    <3>3. State(vault) = "uninitialized" BY <1>1, <1>6, <2>4 DEF Local, Built, Import
    <3>4. vault.files = Nothing /\ vault.kept = {}
      BY <1>3, <2>4, <3>3, StateOf DEF Steadfast, Sound
    <3>5. Quiet = TRUE => written = {} BY <2>4, <3>4, NoDirs DEF Steadfast, Spared
    <3>6. InHistory(candidate)' BY <3>1, <3>5 DEF InHistory
    <3>7. my[c].swapped # TRUE BY <1>1, <2>4 DEF Local, Built
    <3>8. Built(c)' BY <1>6, <3>1, <3>7 DEF Built, Import
    <3>9. Carried(c)' BY <3>1, <3>6 DEF Carried, Import
    <3> QED BY <3>1, <3>2, <3>8, <3>9, ImportLocal
  <2> QED BY <1>1, <1>2, <2>2, <2>3, <2>4, WorksBy DEF OfInit, OfImport
<1> QED BY <1>4, <1>5, <1>6

LEMMA CheckpointWorks ==
  ASSUME TypeOK, NEW c \in Commands, my[c].op = "import", Checkpoint(c)
  PROVE  Works(c)
<1> DEFINE e == Committed(candidate)
<1>1. /\ pc[c] = "checkpoint" /\ Goto(c, "merge") /\ candidate.here /\ candidate' = e
      /\ UNCHANGED <<vault, staging, payload, skill, lock>>
  BY DEF Checkpoint, At
<1>2. "merge" \in Steps /\ "merge" \in Holding /\ pc[c] \in Holding BY <1>1 DEF Steps, Holding, Body
<1>3. Moved(c, my[c], "merge") BY <1>1, <1>2, GotoMoved, TypeSplit
<1>4. candidate \in Dirs BY TypeSplit DEF Ground
<1>5. /\ e \in Dirs /\ e.here = candidate.here /\ e.files = candidate.files /\ e.commits \in 1..2
      /\ e.kept = candidate.kept \cup Pairs(candidate.files)
  BY <1>4, CommittedOf
<1>6. Steadfast => Sound(e) BY <1>1, <1>4, SoundDirs DEF Steadfast, Dirs
<1> HIDE DEF e
<1>7. Ground' BY <1>1, <1>5, TypeSplit DEF Ground
<1>8. ASSUME Steadfast, Local(c) PROVE Steadfast' /\ Local(c)'
  <2>1. my'[c] = my[c] /\ pc'[c] = "merge" /\ written' = written BY <1>3 DEF Moved, Only
  <2>2. Steadfast' BY <1>1, <1>6, <1>8, <2>1, SteadfastBy
  <2>3. Initialized(candidate) BY <1>1, <1>8 DEF Local, Built, Import
  <2>4. e.commits > 0 BY <1>5
  <2>5. Initialized(e) BY <1>4, <1>5, <2>3, <2>4, StateOf
  <2>6. my[c].swapped # TRUE BY <1>1, <1>8 DEF Local, Built
  <2>7. Built(c)' BY <1>1, <2>1, <2>5, <2>6 DEF Built, Import, Initialized
  <2>8. InHistory(candidate)' BY <1>1, <1>5, <1>8, <2>1 DEF Local, Carried, Import, Spared, InHistory
  <2>9. Carried(c)' BY <2>1, <2>8 DEF Carried, Import
  <2> QED BY <2>1, <2>2, <2>7, <2>9, ImportLocal
<1> QED BY <1>1, <1>2, <1>3, <1>7, <1>8, WorksBy DEF OfInit, OfImport

LEMMA MergeWorks ==
  ASSUME TypeOK, NEW c \in Commands, my[c].op = "import", Merge(c)
  PROVE  Works(c)
<1> DEFINE f == Merged(candidate.files, payload)
           g == IF ~my[c].existing /\ f["readme"] = "none" THEN [f EXCEPT !["readme"] = "template"] ELSE f
           e == [candidate EXCEPT !.files = g]
<1>1. /\ pc[c] = "merge" /\ Goto(c, "commit") /\ candidate.here /\ candidate' = e /\ payload' = {}
      /\ UNCHANGED <<vault, staging, skill, lock>>
  BY DEF Merge, At
<1>2. "commit" \in Steps /\ "commit" \in Holding /\ pc[c] \in Holding BY <1>1 DEF Steps, Holding, Body
<1>3. Moved(c, my[c], "commit") BY <1>1, <1>2, GotoMoved, TypeSplit
<1>4. candidate \in Dirs /\ candidate.files \in Files BY TypeSplit DEF Ground, Dirs
<1>5. f \in Files
  <2>1. "payload" \in Contents BY DEF Contents
  <2> QED BY <1>4, <2>1 DEF Merged, Files
<1>6. f["readme"] = candidate.files["readme"] \/ f["readme"] = "payload" BY DEF Merged, Paths
<1> HIDE DEF f
<1>7. g \in Files BY <1>5 DEF Files, Paths, Contents
<1>8. candidate.files["readme"] # "none" \/ my[c].existing # TRUE => g["readme"] # "none"
  <2>1. [f EXCEPT !["readme"] = "template"]["readme"] = "template" BY <1>5 DEF Files, Paths
  <2>2. my[c].existing \in BOOLEAN BY Ops DEF Jobs
  <2> QED BY <1>6, <2>1, <2>2
<1> HIDE DEF g
<1>9. e \in Dirs /\ e.here = candidate.here /\ e.files = g /\ e.kept = candidate.kept
      /\ e.commits = candidate.commits
  BY <1>4, <1>7, FilledOf
<1> HIDE DEF e
<1>10. Ground' BY <1>1, <1>9, TypeSplit DEF Ground
<1>11. e.here = TRUE BY <1>1, <1>4, <1>9 DEF Dirs
<1>12. ASSUME Steadfast, Local(c) PROVE Steadfast' /\ Local(c)'
  <2>1. my'[c] = my[c] /\ pc'[c] = "commit" /\ written' = written BY <1>3 DEF Moved, Only
  <2>2. Sound(e) BY <1>4, <1>9, <1>11, <1>12, SoundDirs DEF Steadfast
  <2>3. Steadfast' BY <1>1, <1>12, <2>1, <2>2, SteadfastBy
  <2>4. my[c].existing = TRUE => Initialized(candidate) BY <1>1, <1>12 DEF Local, Built, Import
  <2>5. e.files["readme"] # "none" BY <1>4, <1>8, <1>9, <2>4, StateOf
  <2>6. my[c].swapped # TRUE BY <1>1, <1>12 DEF Local, Built
  <2>7. Built(c)' BY <1>1, <1>11, <2>1, <2>5, <2>6 DEF Built, Import
  <2>8. InHistory(candidate)' BY <1>1, <1>9, <1>12, <2>1 DEF Local, Carried, Import, InHistory
  <2>9. Carried(c)' BY <2>1, <2>8 DEF Carried, Import
  <2> QED BY <2>1, <2>3, <2>7, <2>9, ImportLocal
<1> QED BY <1>1, <1>2, <1>3, <1>10, <1>12, WorksBy DEF OfInit, OfImport

LEMMA CommitImportWorks ==
  ASSUME TypeOK, NEW c \in Commands, CommitImport(c)
  PROVE  Works(c)
<1> DEFINE e == Committed(candidate)
<1>1. /\ pc[c] = "commit" /\ my[c].op = "import" /\ Goto(c, "refresh") /\ candidate.here /\ candidate' = e
      /\ UNCHANGED <<vault, staging, payload, skill, lock>>
  BY DEF CommitImport, At
<1>2. "refresh" \in Steps /\ "refresh" \in Holding /\ pc[c] \in Holding BY <1>1 DEF Steps, Holding, Body
<1>3. Moved(c, my[c], "refresh") BY <1>1, <1>2, GotoMoved, TypeSplit
<1>4. candidate \in Dirs BY TypeSplit DEF Ground
<1>5. /\ e \in Dirs /\ e.here = candidate.here /\ e.files = candidate.files /\ e.commits \in 1..2
      /\ e.kept = candidate.kept \cup Pairs(candidate.files)
  BY <1>4, CommittedOf
<1>6. Steadfast => Sound(e) BY <1>1, <1>4, SoundDirs DEF Steadfast, Dirs
<1> HIDE DEF e
<1>7. Ground' BY <1>1, <1>5, TypeSplit DEF Ground
<1>8. ASSUME Steadfast, Local(c) PROVE Steadfast' /\ Local(c)'
  <2>1. my'[c] = my[c] /\ pc'[c] = "refresh" /\ written' = written BY <1>3 DEF Moved, Only
  <2>2. Steadfast' BY <1>1, <1>6, <1>8, <2>1, SteadfastBy
  <2>3. candidate.here = TRUE /\ candidate.files["readme"] # "none"
    BY <1>1, <1>8 DEF Local, Built, Import
  <2>4. e.commits > 0 BY <1>5
  <2>5. Initialized(e) BY <1>5, <2>3, <2>4, StateOf
  <2>6. my[c].swapped # TRUE BY <1>1, <1>8 DEF Local, Built
  <2>7. Built(c)' BY <1>1, <2>1, <2>5, <2>6 DEF Built, Import, Initialized
  <2>8. InHistory(candidate)' BY <1>1, <1>5, <1>8, <2>1 DEF Local, Carried, Import, InHistory
  <2>9. Carried(c)' BY <2>1, <2>8 DEF Carried, Import
  <2> QED BY <1>1, <2>1, <2>2, <2>7, <2>9, ImportLocal
<1> QED BY <1>1, <1>2, <1>3, <1>7, <1>8, WorksBy DEF OfInit, OfImport

\* The vault and a candidate that is none the worse change places.
LEMMA Swapped ==
  ASSUME TypeOK, Swap, Steadfast, written' = written, State(candidate) # "drift", Spared(candidate)
  PROVE  Ground' /\ Steadfast' /\ Spared(candidate)' /\ State(candidate') # "drift"
<1>1. vault' = candidate /\ candidate' = vault /\ UNCHANGED <<staging, payload, skill, lock>> BY DEF Swap
<1>2. Ground' BY <1>1, TypeSplit DEF Ground
<1>3. Sound(vault)' /\ Sound(candidate)' /\ Sound(staging)' BY <1>1 DEF Steadfast, Sound
<1>4. Spared(vault)' /\ Spared(candidate)' BY <1>1 DEF Steadfast, Spared
<1>5. NeverHalf' /\ State(candidate') # "drift" BY <1>1 DEF Steadfast, NeverHalf
<1> QED BY <1>2, <1>3, <1>4, <1>5 DEF Steadfast

LEMMA ExchangeWorks ==
  ASSUME TypeOK, NEW c \in Commands, my[c].op = "import", Exchange(c)
  PROVE  Works(c)
<1>1. pc[c] = "exchange" /\ Swap /\ lock' = lock BY DEF Exchange, Swap, At
<1>2. /\ {"verify", "tidy"} \subseteq Steps /\ {"verify", "tidy"} \subseteq Holding
      /\ pc[c] \in Holding
  BY <1>1 DEF Steps, Holding, Body
<1>3. Ground' BY <1>1, TypeSplit DEF Ground, Swap
<1>4. ASSUME Steadfast, Local(c), written' = written
      PROVE  Steadfast' /\ Spared(candidate)' /\ State(candidate') # "drift"
  <2>1. Initialized(candidate) /\ InHistory(candidate)
    BY <1>1, <1>4 DEF Local, Built, Carried, Import
  <2>2. State(candidate) # "drift" BY <2>1 DEF Initialized
  <2>3. Spared(candidate) BY <2>1 DEF Spared, InHistory
  <2> QED BY <1>1, <1>4, <2>2, <2>3, Swapped
<1>5. CASE Know(c, [my[c] EXCEPT !.swapped = TRUE], "verify")
  <2> DEFINE j == [my[c] EXCEPT !.swapped = TRUE]
  <2>1. j \in Jobs /\ j.op = "import" /\ Know(c, j, "verify") BY <1>5, KnownOf, Ops
  <2> HIDE DEF j
  <2>2. Moved(c, j, "verify") BY <1>2, <2>1, KnowMoved, TypeSplit
  <2>3. ASSUME Steadfast, Local(c) PROVE Steadfast' /\ Local(c)'
    <3>1. my'[c].op = "import" /\ pc'[c] = "verify" /\ written' = written BY <2>1, <2>2 DEF Moved, Only
    <3>2. Steadfast' /\ Spared(candidate)' /\ State(candidate') # "drift" BY <1>4, <2>3, <3>1
    <3>3. Built(c)' BY <3>1, <3>2 DEF Built, Import
    <3>4. Carried(c)' BY <3>1, <3>2 DEF Carried, Import
    <3> QED BY <3>1, <3>2, <3>3, <3>4, ImportLocal
  <2> QED BY <1>1, <1>2, <1>3, <2>2, <2>3, WorksBy DEF OfInit, OfImport
<1>6. CASE Know(c, [my[c] EXCEPT !.failed = TRUE], "tidy")
  <2> DEFINE j == [my[c] EXCEPT !.failed = TRUE]
  <2>1. j \in Jobs /\ Know(c, j, "tidy") BY <1>6, KnownOf, Ops
  <2> HIDE DEF j
  <2>2. Moved(c, j, "tidy") BY <1>2, <2>1, KnowMoved, TypeSplit
  <2>3. ASSUME Steadfast, Local(c) PROVE Steadfast' /\ Local(c)'
    <3>1. pc'[c] = "tidy" /\ written' = written BY <2>2 DEF Moved, Only
    <3> QED BY <1>4, <2>3, <3>1, EndsLocal
  <2> QED BY <1>1, <1>2, <1>3, <2>2, <2>3, WorksBy DEF OfInit, OfImport
<1> QED BY <1>5, <1>6 DEF Exchange

\* How a command ends under the lock.
LEMMA UndoWorks ==
  ASSUME TypeOK, NEW c \in Commands, Undo(c)
  PROVE  Works(c)
<1>1. pc[c] = "undo" BY DEF Undo, At
<1>2. /\ {"tidy", "release"} \subseteq Steps /\ {"tidy", "release"} \subseteq Holding
      /\ pc[c] \in Holding
  BY <1>1 DEF Steps, Holding, Body
<1>3. CASE Swap /\ Goto(c, "tidy")
  <2>1. Moved(c, my[c], "tidy") BY <1>2, <1>3, GotoMoved, TypeSplit
  <2>2. Ground' BY <1>3, TypeSplit DEF Ground, Swap
  <2>3. ASSUME Steadfast, Local(c) PROVE Steadfast' /\ Local(c)'
    <3>1. pc'[c] = "tidy" /\ written' = written BY <2>1 DEF Moved, Only
    <3>2. State(candidate) # "drift" /\ Spared(candidate)
      BY <1>1, <2>3 DEF Local, Built, Carried
    <3>3. Steadfast' BY <1>3, <2>3, <3>1, <3>2, Swapped
    <3> QED BY <3>1, <3>3, EndsLocal
  <2>4. lock' = lock BY <1>3 DEF Swap
  <2> QED BY <1>2, <2>1, <2>2, <2>3, <2>4, WorksBy DEF OfInit, OfImport
<1>4. CASE payload' = {} /\ Goto(c, "release") /\ UNCHANGED <<vault, staging, candidate, skill, lock>>
  <2>1. Moved(c, my[c], "release") BY <1>2, <1>4, GotoMoved, TypeSplit
  <2>2. Ground' BY <1>4, TypeSplit DEF Ground
  <2>3. ASSUME Steadfast, Local(c) PROVE Steadfast' /\ Local(c)'
    <3>1. pc'[c] = "release" /\ written' = written BY <2>1 DEF Moved, Only
    <3>2. Steadfast' BY <1>4, <2>3, <3>1, SteadfastBy
    <3> QED BY <3>1, <3>2, EndsLocal
  <2> QED BY <1>2, <1>4, <2>1, <2>2, <2>3, WorksBy DEF OfInit, OfImport
<1> QED BY <1>3, <1>4 DEF Undo

LEMMA TidyWorks ==
  ASSUME TypeOK, NEW c \in Commands, Tidy(c)
  PROVE  Works(c)
<1>1. /\ pc[c] = "tidy" /\ Goto(c, "release") /\ UNCHANGED <<vault, skill, lock>>
      /\ staging' \in {staging, Gone} /\ candidate' \in {candidate, Gone} /\ payload' \in {payload, {}}
  BY DEF Tidy, At
<1>2. "release" \in Steps /\ "release" \in Holding /\ pc[c] \in Holding BY <1>1 DEF Steps, Holding
<1>3. Moved(c, my[c], "release") BY <1>1, <1>2, GotoMoved, TypeSplit
<1>4. Ground' BY <1>1, NoDirs, TypeSplit DEF Ground
<1>5. ASSUME Steadfast, Local(c) PROVE Steadfast' /\ Local(c)'
  <2>1. pc'[c] = "release" /\ written' = written BY <1>3 DEF Moved, Only
  <2>2. Steadfast' BY <1>1, <1>5, <2>1, SoundDirs, SteadfastBy
  <2> QED BY <2>1, <2>2, EndsLocal
<1> QED BY <1>1, <1>2, <1>3, <1>4, <1>5, WorksBy DEF OfInit, OfImport

LEMMA FailStep ==
  ASSUME TypeOK, NEW c \in Commands, Fail(c)
  PROVE  Works(c) \/ Waits(c)
<1>1. UNCHANGED places BY DEF Fail
<1>2. lock \in Locks /\ my[c] \in Jobs BY TypeSplit, Ops
<1>3. CASE pc[c] \in Waiting /\ Done(c, "failed") /\ lock' = lock
  <2>1. Exclusive => Exclusive' BY <1>3, DoneFacts, SameLock DEF Moved
  <2> QED BY <1>1, <1>2, <1>3, <2>1, DoneFacts, WaitsBy
<1>4. CASE pc[c] \in {"token", "owned"} /\ Done(c, "failed") /\ lock' = Free
  <2>1. pc[c] \in Holding BY <1>4 DEF Holding
  <2>2. lock'.old = FALSE BY <1>4 DEF Free
  <2>3. Exclusive => Exclusive' BY <1>4, <2>1, <2>2, DoneFacts, Alone, OtherLock DEF Moved
  <2>4. lock' \in Locks BY <1>2, <1>4, LockTypes
  <2> QED BY <1>1, <1>4, <2>3, <2>4, DoneFacts, WaitsBy
<1>5. CASE pc[c] \in Body /\ lock' = lock
             /\ Know(c, [my[c] EXCEPT !.failed = TRUE],
                     IF ~my[c].swapped THEN "tidy" ELSE IF my[c].op = "init" THEN "release" ELSE "undo")
  <2> DEFINE j  == [my[c] EXCEPT !.failed = TRUE]
             to == IF ~my[c].swapped THEN "tidy" ELSE IF my[c].op = "init" THEN "release" ELSE "undo"
  <2>1. Know(c, j, to) BY <1>5
  <2>2. to \in {"tidy", "release", "undo"} /\ (to = "undo" => my[c].op = "import" /\ my[c].swapped)
    BY Ops
  <2>3. j \in Jobs /\ j.op = my[c].op /\ j.swapped = my[c].swapped BY <1>2, KnownOf
  <2> HIDE DEF j, to
  <2>4. to \in Steps /\ to \in Holding /\ pc[c] \in Holding BY <1>5, <2>2 DEF Steps, Holding
  <2>5. Moved(c, j, to) BY <2>1, <2>3, <2>4, KnowMoved, TypeSplit
  <2>6. Ground' BY <1>1, GroundUnmoved
  <2>7. ASSUME Steadfast, Local(c) PROVE Steadfast' /\ Local(c)'
    <3>1. my'[c] = j /\ pc'[c] = to /\ written' = written BY <2>5 DEF Moved, Only
    <3>2. Steadfast' BY <1>1, <2>7, <3>1, StillSteadfast
    <3>3. CASE to = "undo"
      <4>1. my[c].op = "import" /\ my[c].swapped = TRUE BY <1>2, <2>2, <3>3 DEF Jobs
      <4>2. pc[c] \in {"verify", "skill"}
        <5>1. pc[c] \in {"verify", "skill", "undo", "tidy", "release"} BY <2>7, <4>1 DEF Local, Built
        <5> QED BY <1>5, <5>1 DEF Body
      <4>3. State(candidate) # "drift" /\ Spared(candidate)
        BY <2>7, <4>1, <4>2 DEF Local, Built, Carried, Import
      <4>4. candidate' = candidate BY <1>1 DEF places
      <4>5. my'[c].op = "import" /\ pc'[c] = "undo" BY <2>3, <3>1, <3>3, <4>1
      <4>6. Built(c)' BY <4>3, <4>4, <4>5 DEF Built, Import
      <4>7. Carried(c)' BY <3>1, <4>3, <4>4, <4>5 DEF Carried, Import, Spared
      <4> QED BY <3>2, <4>5, <4>6, <4>7, ImportLocal
    <3>4. CASE to # "undo" BY <2>2, <3>1, <3>2, <3>4, EndsLocal
    <3> QED BY <3>3, <3>4
  <2>8. to \notin OfInit /\ (to \in OfImport => j.op = "import") BY <2>2, <2>3 DEF OfInit, OfImport
  <2> QED BY <1>5, <2>4, <2>5, <2>6, <2>7, <2>8, WorksBy
<1> QED BY <1>3, <1>4, <1>5 DEF Fail

-----------------------------------------------------------------------------
(* The agent and time. *)

LEMMA AgentKept ==
  ASSUME IInv, AgentMay, UNCHANGED <<staging, candidate, payload, skill, lock, my, pc, result>>,
         vault' \in Dirs, Initialized(vault'), Sound(vault'), Spared(vault)', written' \subseteq Paths
  PROVE  IInv'
<1>1. TypeOK' BY DEF IInv, TypeOK
<1>2. Kinds' BY DEF IInv, Kinds, Kind
<1>3. Exclusive' BY DEF IInv, Exclusive
<1>4. Steadfast' BY DEF IInv, Steadfast, NeverHalf, Initialized, Sound
<1>5. ASSUME NEW c \in Commands PROVE Local(c)'
  <2>1. Local(c) /\ Kind(c) BY DEF IInv, Kinds
  <2>2. State(vault) = "initialized" /\ State(vault') = "initialized" BY DEF AgentMay, Initialized
  <2>3. pc'[c] = pc[c] /\ my'[c] = my[c] /\ staging' = staging /\ candidate' = candidate OBVIOUS
  <2>4. Staged(c)' BY <2>1, <2>3 DEF Local, Staged
  <2>5. Import(c, {"clean", "copy", "check", "build"}) => my[c].existing = TRUE
    BY <2>1, <2>2 DEF Local, Built
  <2>6. Built(c)' BY <2>1, <2>2, <2>3, <2>5 DEF Local, Built, Import
  <2>7. Quiet = TRUE => ~Busy(c) BY DEF AgentMay
  <2>8. Carried(c)' BY <2>1, <2>3, <2>7 DEF Kind, OfImport, Busy, Carried, Import, Spared, InHistory
  <2> QED BY <2>4, <2>6, <2>8 DEF Local
<1> QED BY <1>1, <1>2, <1>3, <1>4, <1>5 DEF IInv

LEMMA AgentWriteIs ==
  ASSUME TypeOK, NEW p \in Writes, AgentWrite(p)
  PROVE  /\ vault' \in Dirs /\ vault'.here = vault.here /\ vault'.files = [vault.files EXCEPT ![p] = "agent"]
         /\ vault'.kept = vault.kept /\ vault'.commits = vault.commits
         /\ p \in Paths /\ written' = written \cup {p} /\ written' \subseteq Paths
         /\ UNCHANGED <<staging, candidate, payload, skill, lock, my, pc, result>>
<1>1. vault \in Dirs /\ p \in Paths /\ "agent" \in Contents
  BY TypeSplit, WritesAssumption DEF Ground, Contents
<1>2. vault' = [vault EXCEPT !.files[p] = "agent"] BY DEF AgentWrite
<1> DEFINE e == [vault EXCEPT !.files[p] = "agent"]
<1>3. /\ e \in Dirs /\ e.here = vault.here /\ e.files = [vault.files EXCEPT ![p] = "agent"]
      /\ e.kept = vault.kept /\ e.commits = vault.commits
  BY <1>1, WrittenOf
<1>4. vault' = e BY <1>2
<1> HIDE DEF e
<1>5. written' = written \cup {p} /\ UNCHANGED <<staging, candidate, payload, skill, lock, my, pc, result>>
  BY DEF AgentWrite
<1>6. written' \subseteq Paths BY <1>1, <1>5 DEF TypeOK
<1> QED BY <1>1, <1>3, <1>4, <1>5, <1>6

LEMMA AgentWriteKept ==
  ASSUME IInv, NEW p \in Writes, AgentWrite(p)
  PROVE  IInv'
<1>1. TypeOK /\ AgentMay /\ Steadfast BY DEF IInv, AgentWrite
<1>2. vault \in Dirs /\ vault.files \in Files BY <1>1, TypeSplit DEF Ground, Dirs
<1>3. Initialized(vault) BY <1>1 DEF AgentMay, Initialized
<1>4. vault'.files["readme"] # "none"
  BY <1>1, <1>2, <1>3, AgentWriteIs, StateOf DEF Files, Paths
<1>5. Initialized(vault') BY <1>1, <1>2, <1>3, <1>4, AgentWriteIs, StateOf
<1>6. vault'.here = TRUE BY <1>1, <1>2, <1>3, AgentWriteIs, StateOf
<1>7. Sound(vault') BY <1>1, <1>2, <1>6, AgentWriteIs, SoundDirs DEF Steadfast
<1>8. Spared(vault)'
  <2> SUFFICES ASSUME Quiet = TRUE, NEW q \in written'
               PROVE  <<q, "agent">> \in Pairs(vault'.files) \cup vault'.kept
    BY DEF Spared
  <2>1. q \in Paths BY <1>1, AgentWriteIs
  <2>2. CASE q = p
    <3>1. vault'.files[q] = "agent" BY <1>1, <1>2, <2>1, <2>2, AgentWriteIs DEF Files
    <3> QED BY <2>1, <3>1 DEF Pairs
  <2>3. CASE q # p
    <3>1. <<q, "agent">> \in Pairs(vault.files) \cup vault.kept
      BY <1>1, <2>3, AgentWriteIs DEF Steadfast, Spared
    <3>2. vault'.files[q] = vault.files[q] BY <1>1, <1>2, <2>1, <2>3, AgentWriteIs DEF Files
    <3>3. CASE <<q, "agent">> \in Pairs(vault.files)
      <4>1. vault.files[q] = "agent" BY <3>3 DEF Pairs
      <4> QED BY <2>1, <3>2, <4>1 DEF Pairs
    <3>4. CASE <<q, "agent">> \in vault.kept BY <1>1, <3>4, AgentWriteIs
    <3> QED BY <3>1, <3>3, <3>4
  <2> QED BY <2>2, <2>3
<1> QED BY <1>1, <1>5, <1>7, <1>8, AgentKept, AgentWriteIs

LEMMA AgentCommitKept ==
  ASSUME IInv, AgentCommit
  PROVE  IInv'
<1> DEFINE e == Committed(vault)
<1>1. /\ TypeOK /\ AgentMay /\ Steadfast /\ vault' = e
      /\ UNCHANGED <<staging, candidate, payload, skill, lock, my, pc, result, written>>
  BY DEF IInv, AgentCommit, ends
<1>2. vault \in Dirs BY <1>1, TypeSplit DEF Ground
<1>3. /\ e \in Dirs /\ e.here = vault.here /\ e.files = vault.files
      /\ e.kept = vault.kept \cup Pairs(vault.files) /\ e.commits \in 1..2
  BY <1>2, CommittedOf
<1>4. Initialized(vault) BY <1>1 DEF AgentMay, Initialized
<1>5. vault.here = TRUE BY <1>2, <1>4, StateOf
<1>6. Sound(e) BY <1>1, <1>2, <1>5, SoundDirs DEF Steadfast
<1> HIDE DEF e
<1>7. e.commits > 0 BY <1>3
<1>8. Initialized(e) BY <1>2, <1>3, <1>4, <1>7, StateOf
<1>9. Spared(vault)' BY <1>1, <1>3 DEF Steadfast, Spared
<1>10. written' \subseteq Paths BY <1>1 DEF TypeOK
<1> QED BY <1>1, <1>3, <1>6, <1>8, <1>9, <1>10, AgentKept

LEMMA AgeKept ==
  ASSUME IInv, Age, Races = {}
  PROVE  IInv'
<1>1. lock' = [lock EXCEPT !.old = TRUE] /\ UNCHANGED <<places, my, pc, ends>> /\ lock.maker = "dead"
  BY DEF Age
<1>2. TypeOK /\ lock \in Locks BY TypeSplit DEF IInv
<1>3. lock'.maker = "dead" /\ lock' \in Locks BY <1>1, <1>2 DEF Locks
<1>4. TypeOK' BY <1>1, <1>2, <1>3 DEF TypeOK, places, ends
<1>5. Kinds' BY <1>1 DEF IInv, Kinds, Kind
<1>6. Exclusive' BY <1>1, <1>3 DEF IInv, Exclusive
<1>7. written' = written BY <1>1 DEF ends
<1>8. Steadfast' BY <1>1, <1>7, StillSteadfast DEF IInv
<1>9. ASSUME NEW c \in Commands PROVE Local(c)'
  <2>1. pc'[c] = pc[c] /\ my'[c] = my[c] BY <1>1
  <2> QED BY <1>1, <1>7, <2>1, StillLocal DEF IInv
<1> QED BY <1>4, <1>5, <1>6, <1>8, <1>9 DEF IInv

-----------------------------------------------------------------------------
(* Together. *)

\* Every step of a command is work under the lock or leaves the directories.
LEMMA CommandStep ==
  ASSUME TypeOK, Kinds, NEW c \in Commands, Step(c)
  PROVE  Works(c) \/ Waits(c)
<1>1. /\ pc[c] \in OfInit => my[c].op = "init"
      /\ pc[c] \in OfImport => my[c].op = "import"
  BY DEF Kinds, Kind
<1>2. CASE Start(c) \/ MakeLock(c) \/ ReadAge(c) \/ StealLock(c) \/ WriteToken(c) \/ VerifyLock(c)
           \/ Release(c) \/ Kill(c)
  BY <1>2, StartWaits, MakeLockWaits, ReadAgeWaits, StealLockWaits, WriteTokenWaits, VerifyLockWaits,
     ReleaseWaits, KillWaits
<1>3. CASE InspectInit(c) \/ Refresh(c) \/ CleanStaging(c) \/ CommitStaging(c) \/ Verify(c)
           \/ InstallSkill(c)
  BY <1>3, InspectInitWorks, RefreshWorks, CleanStagingWorks, CommitStagingWorks, VerifyWorks,
     InstallSkillWorks
<1>4. CASE Scaffold(c) \/ RefreshPromote(c) \/ RemoveEmpty(c) \/ Promote(c)
  <2>1. my[c].op = "init"
    BY <1>1, <1>4 DEF Scaffold, RefreshPromote, RemoveEmpty, Promote, At, OfInit
  <2> QED BY <1>4, <2>1, ScaffoldWorks, RefreshPromoteWorks, RemoveEmptyWorks, PromoteWorks
<1>5. CASE Copy(c) \/ Check(c) \/ Build(c) \/ Checkpoint(c) \/ Merge(c) \/ Exchange(c)
  <2>1. my[c].op = "import"
    BY <1>1, <1>5 DEF Copy, Check, Build, Checkpoint, Merge, Exchange, At, OfImport
  <2> QED BY <1>5, <2>1, CopyWorks, CheckWorks, BuildWorks, CheckpointWorks, MergeWorks, ExchangeWorks
<1>6. CASE InspectImport(c) \/ CleanImport(c) \/ CommitImport(c) \/ Undo(c) \/ Tidy(c)
  BY <1>6, InspectImportWorks, CleanImportWorks, CommitImportWorks, UndoWorks, TidyWorks
<1>7. CASE Fail(c) BY <1>7, FailStep
<1> QED BY <1>2, <1>3, <1>4, <1>5, <1>6, <1>7 DEF Step

LEMMA InitTyped == Init => TypeOK /\ Kinds
<1> SUFFICES ASSUME Init PROVE TypeOK /\ Kinds
  OBVIOUS
<1>1. Job("init", {}) \in Jobs BY JobOf
<1>2. Free \in Locks BY DEF Free, Locks
<1>3. TypeOK BY <1>1, <1>2, NoDirs DEF Init, TypeOK, Steps
<1>4. Kinds BY DEF Init, Kinds, Kind, OfInit, OfImport
<1> QED BY <1>3, <1>4

LEMMA NextTyped == TypeOK /\ Kinds /\ [Next]_vars => TypeOK' /\ Kinds'
<1> SUFFICES ASSUME TypeOK, Kinds, [Next]_vars PROVE TypeOK' /\ Kinds'
  OBVIOUS
<1>1. ASSUME NEW c \in Commands, Step(c) PROVE TypeOK' /\ Kinds'
  <2>1. Works(c) \/ Waits(c) BY <1>1, CommandStep
  <2> QED BY <2>1, KindsKept DEF Works, Waits
<1>2. CASE Age
  <2>1. [lock EXCEPT !.old = TRUE] \in Locks BY DEF TypeOK, Locks
  <2> QED BY <1>2, <2>1 DEF Age, TypeOK, Kinds, Kind, places, ends
<1>3. CASE AgentCommit
  <2>1. vault' \in Dirs BY <1>3, CommittedOf DEF AgentCommit, TypeOK
  <2> QED BY <1>3, <2>1 DEF AgentCommit, TypeOK, Kinds, Kind, ends
<1>4. ASSUME NEW p \in Writes, AgentWrite(p) PROVE TypeOK' /\ Kinds'
  BY <1>4, AgentWriteIs DEF TypeOK, Kinds, Kind
<1>5. CASE UNCHANGED vars BY <1>5 DEF vars, places, ends, TypeOK, Kinds, Kind
<1> QED BY <1>1, <1>2, <1>3, <1>4, <1>5 DEF Next

LEMMA InitHolds == Init => IInv
<1> SUFFICES ASSUME Init PROVE IInv
  OBVIOUS
<1>1. TypeOK /\ Kinds BY InitTyped
<1>2. Exclusive BY DEF Init, Exclusive, Holding, Body, Free
<1>3. State(Empty) # "drift" BY NoDirs, StateOf
<1>4. Steadfast BY <1>3, SoundDirs DEF Init, Steadfast, NeverHalf, Spared
<1>5. ASSUME NEW c \in Commands PROVE Local(c)
  <2>1. pc[c] = "idle" /\ my[c].swapped = FALSE BY JobOf DEF Init
  <2> QED BY <2>1 DEF Local, Staged, Built, Carried, Import
<1> QED BY <1>1, <1>2, <1>4, <1>5 DEF IInv

LEMMA NextHolds == Races = {} /\ IInv /\ [Next]_vars => IInv'
<1> SUFFICES ASSUME Races = {}, IInv, [Next]_vars PROVE IInv'
  OBVIOUS
<1>1. ASSUME NEW c \in Commands, Step(c) PROVE IInv'
  <2>1. Works(c) \/ Waits(c) BY <1>1, CommandStep DEF IInv
  <2> QED BY <2>1, WorksKept, WaitsKept
<1>2. CASE Age BY <1>2, AgeKept
<1>3. CASE AgentCommit BY <1>3, AgentCommitKept
<1>4. ASSUME NEW p \in Writes, AgentWrite(p) PROVE IInv' BY <1>4, AgentWriteKept
<1>5. CASE UNCHANGED vars
  <2>1. /\ UNCHANGED places /\ written' = written /\ my' = my /\ pc' = pc /\ lock' = lock /\ result' = result
    BY <1>5 DEF vars, ends
  <2>2. \A c \in Commands : Local(c)' BY <2>1, StillLocal DEF IInv
  <2>3. Steadfast' BY <2>1, StillSteadfast DEF IInv
  <2>4. TypeOK' BY <2>1 DEF IInv, TypeOK, places
  <2>5. Kinds' /\ Exclusive' BY <2>1 DEF IInv, Kinds, Kind, Exclusive
  <2> QED BY <2>2, <2>3, <2>4, <2>5 DEF IInv
<1> QED BY <1>1, <1>2, <1>3, <1>4, <1>5 DEF Next

\* Every reachable state of the vault, its working directories, the lock and
\* the commands has the shape TypeOK gives it, whatever races there are.
THEOREM TypeCorrect == Spec => []TypeOK
<1>1. TypeOK /\ Kinds => TypeOK OBVIOUS
<1> QED BY <1>1, InitTyped, NextTyped, PTL DEF Spec

\* When no lock changes hands while it is found stale and live holders refresh
\* theirs in time, the vault is missing, empty or whole wherever inits and
\* imports fail or are killed, and whatever the agent does meanwhile.
THEOREM VaultStaysWhole == Races = {} /\ Spec => []NeverHalf
<1> SUFFICES ASSUME Races = {} PROVE Spec => []NeverHalf
  OBVIOUS
<1>1. IInv => NeverHalf BY DEF IInv, Steadfast
<1>2. IInv /\ [Next]_vars => IInv' BY NextHolds
<1> QED BY <1>1, <1>2, InitHolds, PTL DEF Spec

\* If also the agent rests from an import's copy to its end, every note it
\* wrote is in the vault or in its history, through every import, rollback,
\* kill and takeover of a dead holder's lock.
THEOREM NotesStayKept == Races = {} /\ Quiet = TRUE /\ Spec => []NotesKept
<1> SUFFICES ASSUME Races = {}, Quiet = TRUE PROVE Spec => []NotesKept
  OBVIOUS
<1>1. IInv => NotesKept BY DEF IInv, Steadfast, Spared, NotesKept
<1>2. IInv /\ [Next]_vars => IInv' BY NextHolds
<1> QED BY <1>1, <1>2, InitHolds, PTL DEF Spec

-----------------------------------------------------------------------------
(* What a command reports is so. *)

\* What an import was asked to bring is in the history h.
Landed(c, h) == \A p \in my[c].what : <<p, "payload">> \in h

\* What command knows it failed.
Erred(j) == j.failed = TRUE

\* How far command c has brought it: into the payload, into the candidate, into
\* its history and with the exchange into the vault's; and what is so where it
\* is at its end and nothing failed.
Brought(c) ==
  /\ my[c].op = "init" => my[c].what = {}
  /\ Import(c, {"build", "checkpoint", "merge"}) => payload = my[c].what
  /\ Import(c, {"commit"}) => \A p \in my[c].what : candidate.files[p] = "payload"
  /\ Import(c, {"refresh", "exchange"}) => Landed(c, candidate.kept)
  /\ pc[c] \in {"verify", "skill"} => Landed(c, vault.kept)
  /\ pc[c] = "skill" => Initialized(vault)
  /\ pc[c] = "undo" => Erred(my[c])
  /\ pc[c] \in {"tidy", "release"} /\ my[c].failed = FALSE =>
       Initialized(vault) /\ skill = TRUE /\ Landed(c, vault.kept)

LEMMA AskKept ==
  ASSUME NEW j \in Jobs, NEW b \in BOOLEAN
  PROVE  /\ [j EXCEPT !.tried = b].op = j.op /\ [j EXCEPT !.tried = b].what = j.what
         /\ [j EXCEPT !.swapped = b].op = j.op /\ [j EXCEPT !.swapped = b].what = j.what
         /\ [j EXCEPT !.failed = b].op = j.op /\ [j EXCEPT !.failed = b].what = j.what
         /\ b = TRUE => Erred([j EXCEPT !.failed = b])
BY DEF Jobs, Erred

LEMMA MovesTo ==
  ASSUME TypeOK, NEW c \in Commands, NEW to, NEW j,
         (Goto(c, to) /\ j = my[c]) \/ Know(c, j, to)
  PROVE  pc'[c] = to /\ my'[c] = j
BY DEF Goto, Know, TypeOK

LEMMA KnowsTo ==
  ASSUME TypeOK, NEW c \in Commands, NEW to, NEW b \in BOOLEAN
  PROVE  /\ Know(c, [my[c] EXCEPT !.tried = b], to) =>
              pc'[c] = to /\ my'[c].op = my[c].op /\ my'[c].what = my[c].what
         /\ Know(c, [my[c] EXCEPT !.swapped = b], to) =>
              pc'[c] = to /\ my'[c].op = my[c].op /\ my'[c].what = my[c].what
         /\ Know(c, [my[c] EXCEPT !.failed = b], to) =>
              /\ pc'[c] = to /\ my'[c].op = my[c].op /\ my'[c].what = my[c].what
              /\ b = TRUE => Erred(my'[c])
<1> DEFINE t == [my[c] EXCEPT !.tried = b]
           s == [my[c] EXCEPT !.swapped = b]
           f == [my[c] EXCEPT !.failed = b]
<1>1. /\ t.op = my[c].op /\ t.what = my[c].what /\ s.op = my[c].op /\ s.what = my[c].what
      /\ f.op = my[c].op /\ f.what = my[c].what
      /\ b = TRUE => Erred(f)
  BY AskKept DEF TypeOK
<1>2. SUFFICES /\ Know(c, t, to) =>
                    pc'[c] = to /\ my'[c].op = my[c].op /\ my'[c].what = my[c].what
               /\ Know(c, s, to) =>
                    pc'[c] = to /\ my'[c].op = my[c].op /\ my'[c].what = my[c].what
               /\ Know(c, f, to) =>
                    /\ pc'[c] = to /\ my'[c].op = my[c].op /\ my'[c].what = my[c].what
                    /\ b = TRUE => Erred(my'[c])
  OBVIOUS
<1> HIDE DEF t, s, f
<1>3. \A j : Know(c, j, to) => pc'[c] = to /\ my'[c] = j BY MovesTo
<1> QED BY <1>1, <1>3

\* Where nothing is said of a command.
Silent == {"idle", "lock", "stale", "steal", "token", "owned", "inspect", "clean", "scaffold",
           "promoting", "rmdir", "promote", "copy", "check"}

LEMMA BroughtSilent ==
  ASSUME NEW c, pc'[c] \in Silent, my'[c].op = "init" => my'[c].what = {}
  PROVE  Brought(c)'
BY DEF Brought, Import, Silent

\* A command that knows it failed claims nothing.
LEMMA BroughtFailed ==
  ASSUME NEW c, pc'[c] \in {"undo", "tidy", "release"}, Erred(my'[c]),
         my'[c].op = "init" => my'[c].what = {}
  PROVE  Brought(c)'
BY DEF Brought, Import, Erred

LEMMA BroughtDone ==
  ASSUME TypeOK, NEW c \in Commands, NEW how, Done(c, how)
  PROVE  Brought(c)'
<1>1. pc'[c] = "idle" /\ my'[c] = Job("init", {}) BY DEF Done, TypeOK
<1>2. Job("init", {}).what = {} BY DEF Job
<1> QED BY <1>1, <1>2, BroughtSilent DEF Silent

LEMMA BroughtLock ==
  ASSUME TypeOK, NEW c \in Commands, Brought(c),
         Start(c) \/ MakeLock(c) \/ ReadAge(c) \/ StealLock(c) \/ WriteToken(c) \/ VerifyLock(c)
           \/ Release(c) \/ Kill(c)
  PROVE  Brought(c)'
<1>1. my[c] \in Jobs BY DEF TypeOK
<1>2. CASE Start(c)
  <2>1. PICK j \in {Job("init", {})} \cup {Job("import", w) : w \in Asks} :
          my' = [my EXCEPT ![c] = j] /\ pc' = [pc EXCEPT ![c] = "lock"]
    BY <1>2 DEF Start
  <2>2. /\ Job("init", {}).what = {}
        /\ \A w \in Asks : Job("import", w).op = "import"
    BY DEF Job
  <2>4. j.op = "init" => j.what = {} BY <2>1, <2>2
  <2>3. pc'[c] = "lock" /\ my'[c] = j BY <2>1 DEF TypeOK
  <2>5. my'[c].op = "init" => my'[c].what = {} BY <2>3, <2>4
  <2> QED BY <2>3, <2>5, BroughtSilent DEF Silent
<1>3. ASSUME NEW to \in Silent, NEW b \in BOOLEAN,
             Goto(c, to) \/ Know(c, [my[c] EXCEPT !.tried = b], to)
      PROVE  Brought(c)'
  <2>1. Goto(c, to) => pc'[c] = to /\ my'[c] = my[c] BY MovesTo
  <2>2. pc'[c] = to /\ my'[c].op = my[c].op /\ my'[c].what = my[c].what
    BY <1>3, <2>1, KnowsTo
  <2> QED BY <2>2, BroughtSilent DEF Brought
<1>4. \A to \in {"token", "stale", "lock", "steal", "owned", "inspect"} : to \in Silent
  BY DEF Silent
<1>5. \/ \E to \in {"token", "stale", "lock", "steal", "owned", "inspect"}, b \in BOOLEAN :
           Goto(c, to) \/ Know(c, [my[c] EXCEPT !.tried = b], to)
      \/ Done(c, "failed") \/ Done(c, "ok") \/ Start(c)
  <2>1. CASE MakeLock(c) BY <2>1 DEF MakeLock
  <2>2. CASE ReadAge(c) BY <2>2 DEF ReadAge
  <2>3. CASE StealLock(c) BY <2>3 DEF StealLock
  <2>4. CASE WriteToken(c) \/ VerifyLock(c) BY <2>4 DEF WriteToken, VerifyLock
  <2>5. CASE Release(c) \/ Kill(c) BY <2>5 DEF Release, Kill
  <2> QED BY <2>1, <2>2, <2>3, <2>4, <2>5
<1> QED BY <1>2, <1>3, <1>4, <1>5, BroughtDone

\* The steps of an init, and those it shares with an import.
LEMMA BroughtInit ==
  ASSUME TypeOK, Kinds, NEW c \in Commands, Brought(c),
         InspectInit(c) \/ Refresh(c) \/ CleanStaging(c) \/ Scaffold(c) \/ CommitStaging(c)
           \/ RefreshPromote(c) \/ RemoveEmpty(c) \/ Promote(c) \/ Verify(c) \/ InstallSkill(c)
  PROVE  Brought(c)'
<1>1. my[c] \in Jobs /\ vault \in Dirs /\ Kind(c) BY DEF TypeOK, Kinds
<1>2. my[c].op = "init" => my[c].what = {} BY DEF Brought
<1>3. my[c].op \in {"init", "import"} BY <1>1 DEF Jobs
<1>4. CASE InspectInit(c)
  <2>1. CASE State(vault) = "initialized"
    <3>1. pc'[c] = "skill" /\ my'[c] = my[c] /\ my[c].op = "init"
      BY <1>4, <2>1, MovesTo DEF InspectInit
    <3>2. vault' = vault
      <4>1. vault.here = TRUE BY <1>1, <2>1, StateOf DEF Initialized
      <4> QED BY <1>4, <4>1 DEF InspectInit
    <3> QED BY <1>2, <2>1, <3>1, <3>2 DEF Brought, Import, Landed, Initialized
  <2>2. CASE State(vault) # "initialized"
    <3>1. pc'[c] = "refresh" /\ my'[c] = my[c] /\ my[c].op = "init"
      BY <1>4, <2>2, MovesTo DEF InspectInit
    <3> QED BY <1>2, <3>1 DEF Brought, Import
  <2> QED BY <2>1, <2>2
<1>5. CASE Refresh(c)
  <2>1. /\ pc[c] = "refresh" /\ my'[c] = my[c] /\ UNCHANGED candidate
        /\ pc'[c] = IF my[c].op = "init" THEN "clean" ELSE "exchange"
    BY <1>5, MovesTo DEF Refresh, At, places
  <2>2. CASE my[c].op = "init" BY <1>2, <2>1, <2>2, BroughtSilent DEF Silent
  <2>3. CASE my[c].op = "import"
    BY <2>1, <2>3 DEF Brought, Import, Landed
  <2> QED BY <1>3, <2>2, <2>3
<1>6. CASE CleanStaging(c) \/ CommitStaging(c) \/ RefreshPromote(c) \/ RemoveEmpty(c)
  <2>1. my'[c] = my[c] /\ pc'[c] \in {"scaffold", "promoting", "rmdir", "promote"}
    BY <1>6, MovesTo DEF CleanStaging, CommitStaging, RefreshPromote, RemoveEmpty
  <2> QED BY <1>2, <2>1, BroughtSilent DEF Silent
<1>7. CASE Scaffold(c)
  <2>1. my'[c] = my[c] /\ pc'[c] \in {"scaffold", "commit"} /\ pc[c] = "scaffold"
    BY <1>7, MovesTo DEF Scaffold, At
  <2>2. my[c].op = "init" BY <1>1, <2>1 DEF Kind, OfInit
  <2> QED BY <1>2, <2>1, <2>2 DEF Brought, Import
<1>8. CASE Promote(c)
  <2>1. /\ pc'[c] = "verify" /\ pc[c] = "promote"
        /\ my'[c] = [my[c] EXCEPT !.swapped = TRUE]
    BY <1>8, MovesTo DEF Promote, At
  <2>2. my[c].op = "init" BY <1>1, <2>1 DEF Kind, OfInit
  <2>3. my'[c].op = "init" /\ my'[c].what = {} BY <1>1, <1>2, <2>1, <2>2, AskKept
  <2> QED BY <2>1, <2>3 DEF Brought, Import, Landed
<1>9. CASE Verify(c)
  <2>1. /\ pc'[c] = "skill" /\ pc[c] = "verify" /\ my'[c] = my[c] /\ UNCHANGED vault
        /\ Initialized(vault)
    BY <1>9, MovesTo DEF Verify, At, places, Initialized
  <2> QED BY <2>1 DEF Brought, Import, Landed, Initialized
<1>10. CASE InstallSkill(c)
  <2>1. /\ pc'[c] \in {"release", "tidy"} /\ pc[c] = "skill" /\ my'[c] = my[c]
        /\ UNCHANGED vault /\ skill' = TRUE
    BY <1>10, MovesTo DEF InstallSkill, At
  <2> QED BY <2>1 DEF Brought, Import, Landed, Initialized
<1> QED BY <1>4, <1>5, <1>6, <1>7, <1>8, <1>9, <1>10

\* What an import brings goes into the candidate's history whole.
LEMMA BroughtMerge ==
  ASSUME TypeOK, Kinds, NEW c \in Commands, Brought(c), Merge(c) \/ CommitImport(c)
  PROVE  Brought(c)'
<1>1. /\ my[c] \in Jobs /\ candidate \in Dirs /\ candidate.files \in Files /\ Kind(c)
      /\ my[c].what \subseteq Paths
  BY AsksAssumption DEF TypeOK, Kinds, Jobs, Dirs, Paths
<1>2. my[c].op = "init" => my[c].what = {} BY DEF Brought
<1>3. CASE Merge(c)
  <2> DEFINE f == Merged(candidate.files, payload)
             g == IF ~my[c].existing /\ f["readme"] = "none"
                  THEN [f EXCEPT !["readme"] = "template"] ELSE f
  <2>1. /\ pc'[c] = "commit" /\ pc[c] = "merge" /\ my'[c] = my[c]
        /\ candidate' = [candidate EXCEPT !.files = g]
    BY <1>3, MovesTo DEF Merge, At
  <2>2. payload = my[c].what BY <1>1, <2>1 DEF Brought, Import, Kind, OfImport
  <2>3. f \in Files /\ \A p \in payload : f[p] = "payload"
    BY <1>1, <2>2 DEF Merged, Files, Contents
  <2> HIDE DEF f
  <2>4. g \in Files /\ \A p \in payload : g[p] = "payload"
    BY <1>1, <2>2, <2>3 DEF Files, Contents, Paths
  <2> HIDE DEF g
  <2>5. candidate'.files = g BY <1>1, <2>1, <2>4, FilledOf
  <2> QED BY <1>2, <2>1, <2>2, <2>4, <2>5 DEF Brought, Import
<1>4. CASE CommitImport(c)
  <2>1. /\ pc'[c] = "refresh" /\ pc[c] = "commit" /\ my'[c] = my[c] /\ my[c].op = "import"
        /\ candidate' = Committed(candidate)
    BY <1>4, MovesTo DEF CommitImport, At
  <2>2. \A p \in my[c].what : candidate.files[p] = "payload" BY <2>1 DEF Brought, Import
  <2>3. Committed(candidate).kept = candidate.kept \cup Pairs(candidate.files)
    BY <1>1, CommittedOf
  <2>4. \A p \in my[c].what : <<p, "payload">> \in Pairs(candidate.files)
    BY <1>1, <2>2 DEF Pairs
  <2>5. Landed(c, candidate.kept)' BY <2>1, <2>3, <2>4 DEF Landed
  <2> QED BY <2>1, <2>5 DEF Brought, Import
<1> QED BY <1>3, <1>4

LEMMA BroughtImport ==
  ASSUME TypeOK, Kinds, NEW c \in Commands, Brought(c),
         InspectImport(c) \/ CleanImport(c) \/ Copy(c) \/ Check(c) \/ Build(c) \/ Checkpoint(c)
           \/ Exchange(c) \/ Undo(c) \/ Tidy(c)
  PROVE  Brought(c)'
<1>1. my[c] \in Jobs /\ Kind(c) BY DEF TypeOK, Kinds
<1>2. my[c].op = "init" => my[c].what = {} BY DEF Brought
<1>3. CASE InspectImport(c)
  <2> DEFINE j(old, new) == [my[c] EXCEPT !.existing = old, !.replace = new]
  <2>1. PICK old \in BOOLEAN, new \in BOOLEAN : Know(c, j(old, new), "clean")
    BY <1>3 DEF InspectImport
  <2>2. j(old, new).op = my[c].op /\ j(old, new).what = my[c].what BY <1>1 DEF Jobs
  <2> HIDE DEF j
  <2>3. pc'[c] = "clean" /\ my'[c] = j(old, new) BY <2>1, MovesTo
  <2>4. my'[c].op = "init" => my'[c].what = {} BY <1>2, <2>2, <2>3
  <2> QED BY <2>3, <2>4, BroughtSilent DEF Silent
<1>4. CASE CleanImport(c)
  <2>1. pc'[c] = "copy" /\ my'[c] = my[c] BY <1>4, MovesTo DEF CleanImport
  <2> QED BY <1>2, <2>1, BroughtSilent DEF Silent
<1>5. CASE Copy(c)
  <2>1. CASE Goto(c, "check")
    <3>1. pc'[c] = "check" /\ my'[c] = my[c] BY <2>1, MovesTo
    <3> QED BY <1>2, <3>1, BroughtSilent DEF Silent
  <2>2. CASE Know(c, [my[c] EXCEPT !.failed = TRUE], "tidy")
    <3>1. /\ pc'[c] = "tidy" /\ my'[c].op = my[c].op /\ my'[c].what = my[c].what
          /\ Erred(my'[c])
      BY <2>2, KnowsTo
    <3>2. my'[c].op = "init" => my'[c].what = {} BY <1>2, <3>1
    <3> QED BY <3>1, <3>2, BroughtFailed
  <2> QED BY <1>5, <2>1, <2>2 DEF Copy
<1>6. CASE Check(c)
  <2>1. /\ pc'[c] = "build" /\ my'[c] = my[c] /\ payload = my[c].what /\ UNCHANGED payload
    BY <1>6, MovesTo DEF Check, places
  <2> QED BY <1>2, <2>1 DEF Brought, Import
<1>7. CASE Build(c) \/ Checkpoint(c)
  <2>1. /\ pc'[c] \in {"checkpoint", "merge"} /\ pc[c] \in {"build", "checkpoint"}
        /\ my'[c] = my[c] /\ UNCHANGED payload
    BY <1>7, MovesTo DEF Build, Checkpoint, At
  <2> QED BY <2>1 DEF Brought, Import
<1>8. CASE Exchange(c)
  <2>1. pc[c] = "exchange" /\ my[c].op = "import" /\ vault' = candidate
    BY <1>1, <1>8 DEF Exchange, At, Swap, Kind, OfImport
  <2>2. CASE Know(c, [my[c] EXCEPT !.swapped = TRUE], "verify")
    <3>1. pc'[c] = "verify" /\ my'[c].what = my[c].what /\ my'[c].op = "import"
      BY <2>1, <2>2, KnowsTo
    <3>2. Landed(c, candidate.kept) BY <2>1 DEF Brought, Import
    <3> QED BY <2>1, <3>1, <3>2 DEF Brought, Import, Landed
  <2>3. CASE Know(c, [my[c] EXCEPT !.failed = TRUE], "tidy")
    <3>1. /\ pc'[c] = "tidy" /\ my'[c].op = my[c].op /\ my'[c].what = my[c].what
          /\ Erred(my'[c])
      BY <2>3, KnowsTo
    <3>2. my'[c].op = "init" => my'[c].what = {} BY <1>2, <3>1
    <3> QED BY <3>1, <3>2, BroughtFailed
  <2> QED BY <1>8, <2>2, <2>3 DEF Exchange
<1>9. CASE Undo(c)
  <2>1. pc'[c] \in {"tidy", "release"} /\ my'[c] = my[c] /\ pc[c] = "undo"
    BY <1>9, MovesTo DEF Undo, At
  <2>2. Erred(my[c]) BY <2>1 DEF Brought
  <2>3. Erred(my'[c]) BY <2>1, <2>2
  <2>4. my'[c].op = "init" => my'[c].what = {} BY <1>2, <2>1
  <2> QED BY <2>1, <2>3, <2>4, BroughtFailed
<1>10. CASE Tidy(c)
  <2>1. /\ pc'[c] = "release" /\ my'[c] = my[c] /\ pc[c] = "tidy"
        /\ UNCHANGED <<vault, skill>>
    BY <1>10, MovesTo DEF Tidy, At
  <2> QED BY <1>2, <2>1 DEF Brought, Import, Landed, Initialized
<1> QED BY <1>3, <1>4, <1>5, <1>6, <1>7, <1>8, <1>9, <1>10

LEMMA BroughtFail ==
  ASSUME TypeOK, NEW c \in Commands, Brought(c), Fail(c)
  PROVE  Brought(c)'
<1>1. my[c] \in Jobs BY DEF TypeOK
<1>2. my[c].op = "init" => my[c].what = {} BY DEF Brought
<1>3. CASE Done(c, "failed") BY <1>3, BroughtDone
<1>4. CASE Know(c, [my[c] EXCEPT !.failed = TRUE],
                IF ~my[c].swapped THEN "tidy" ELSE IF my[c].op = "init" THEN "release" ELSE "undo")
  <2> DEFINE to == IF ~my[c].swapped THEN "tidy"
                   ELSE IF my[c].op = "init" THEN "release" ELSE "undo"
  <2>1. to \in {"undo", "tidy", "release"} OBVIOUS
  <2>2. Know(c, [my[c] EXCEPT !.failed = TRUE], to) BY <1>4
  <2> HIDE DEF to
  <2>3. /\ pc'[c] = to /\ my'[c].op = my[c].op /\ my'[c].what = my[c].what
        /\ Erred(my'[c])
    BY <2>2, KnowsTo
  <2>4. my'[c].op = "init" => my'[c].what = {} BY <1>2, <2>3
  <2>5. pc'[c] \in {"undo", "tidy", "release"} BY <2>1, <2>3
  <2> QED BY <2>3, <2>4, <2>5, BroughtFailed
<1> QED BY <1>3, <1>4 DEF Fail

\* Of a command that is not at work nothing is said; one that is keeps what it
\* has brought through the steps of the others.
LEMMA BroughtElsewhere ==
  ASSUME NEW d, pc'[d] = pc[d], my'[d] = my[d], Brought(d), pc[d] \notin Holding
  PROVE  Brought(d)'
BY DEF Brought, Import, Holding, Body

LEMMA BroughtStill ==
  ASSUME NEW d, pc'[d] = pc[d], my'[d] = my[d], Brought(d), UNCHANGED <<payload, candidate, skill>>,
         \/ vault' = vault
         \/ Initialized(vault') /\ vault.kept \subseteq vault'.kept
  PROVE  Brought(d)'
BY DEF Brought, Import, Landed, Initialized

LEMMA BroughtStep ==
  ASSUME IInv, [Next]_vars, \A c \in Commands : Brought(c)
  PROVE  \A c \in Commands : Brought(c)'
<1>1. TypeOK /\ Kinds /\ Exclusive BY DEF IInv
<1>2. ASSUME NEW c \in Commands, Step(c), NEW d \in Commands PROVE Brought(d)'
  <2>1. CASE d = c
    BY <1>1, <1>2, <2>1, BroughtLock, BroughtInit, BroughtMerge, BroughtImport, BroughtFail DEF Step
  <2>2. CASE d # c
    <3>1. Works(c) \/ Waits(c) BY <1>1, <1>2, CommandStep
    <3>2. pc'[d] = pc[d] /\ my'[d] = my[d] BY <2>2, <3>1 DEF Works, Waits, Only
    <3>3. CASE Works(c)
      <4>1. pc[d] \notin Holding BY <1>1, <2>2, <3>3, Alone DEF Works
      <4> QED BY <3>2, <4>1, BroughtElsewhere
    <3>4. CASE Waits(c)
      <4>1. UNCHANGED <<payload, candidate, skill, vault>> BY <3>4 DEF Waits, places
      <4> QED BY <3>2, <4>1, BroughtStill
    <3> QED BY <3>1, <3>3, <3>4
  <2> QED BY <2>1, <2>2
<1>3. ASSUME UNCHANGED <<payload, candidate, skill, my, pc>>,
             \/ vault' = vault
             \/ Initialized(vault') /\ vault.kept \subseteq vault'.kept,
             NEW d \in Commands
      PROVE  Brought(d)'
  <2>1. pc'[d] = pc[d] /\ my'[d] = my[d] BY <1>3
  <2> QED BY <1>3, <2>1, BroughtStill
<1>4. CASE Age \/ UNCHANGED vars BY <1>3, <1>4 DEF Age, vars, places
<1>5. ASSUME AgentCommit \/ \E p \in Writes : AgentWrite(p)
      PROVE  /\ UNCHANGED <<payload, candidate, skill, my, pc>>
             /\ Initialized(vault') /\ vault.kept \subseteq vault'.kept
  <2>1. vault \in Dirs /\ vault.files \in Files BY <1>1 DEF TypeOK, Dirs
  <2>2. Initialized(vault) BY <1>5 DEF AgentCommit, AgentWrite, AgentMay, Initialized
  <2>3. vault.here = TRUE /\ vault.files["readme"] # "none" /\ vault.commits > 0
    BY <2>1, <2>2, StateOf
  <2>4. CASE AgentCommit
    <3>1. vault' = Committed(vault) /\ UNCHANGED <<payload, candidate, skill, my, pc>>
      BY <2>4 DEF AgentCommit
    <3>2. /\ vault' \in Dirs /\ vault'.here = vault.here /\ vault'.files = vault.files
          /\ vault'.kept = vault.kept \cup Pairs(vault.files) /\ vault'.commits \in 1..2
      BY <2>1, <3>1, CommittedOf
    <3>3. vault'.commits > 0 BY <3>2
    <3>4. Initialized(vault') BY <2>3, <3>2, <3>3, StateOf
    <3> QED BY <3>1, <3>2, <3>4
  <2>5. ASSUME NEW p \in Writes, AgentWrite(p)
        PROVE  /\ UNCHANGED <<payload, candidate, skill, my, pc>>
               /\ Initialized(vault') /\ vault.kept \subseteq vault'.kept
    <3>1. /\ vault' \in Dirs /\ vault'.here = vault.here
          /\ vault'.files = [vault.files EXCEPT ![p] = "agent"]
          /\ vault'.kept = vault.kept /\ vault'.commits = vault.commits /\ p \in Paths
          /\ UNCHANGED <<payload, candidate, skill, my, pc>>
      BY <1>1, <2>5, AgentWriteIs
    <3>2. vault'.files["readme"] # "none" BY <2>1, <2>3, <3>1 DEF Files, Paths
    <3>3. Initialized(vault') BY <2>3, <3>1, <3>2, StateOf
    <3> QED BY <3>1, <3>3
  <2> QED BY <1>5, <2>4, <2>5
<1> QED BY <1>2, <1>3, <1>4, <1>5 DEF Next

\* When locks do not race, a command that returned no error has left a managed
\* vault with its skill, and an import has brought all it was asked to into the
\* vault's history, whatever the agent writes meanwhile and wherever other
\* commands fail or are killed.
THEOREM ReportsAreTrue == Races = {} /\ Spec => ReportIsTrue
<1> DEFINE All  == IInv /\ \A c \in Commands : Brought(c)
           Said == \A c \in Commands : result[c] # "ok" /\ result'[c] = "ok" =>
                     /\ State(vault) = "initialized" /\ skill
                     /\ \A p \in my[c].what : <<p, "payload">> \in vault.kept
<1> SUFFICES ASSUME Races = {} PROVE Spec => ReportIsTrue
  OBVIOUS
<1>1. Init => All
  <2> SUFFICES ASSUME Init PROVE \A c \in Commands : Brought(c)
    BY InitHolds
  <2>1. Job("init", {}).what = {} BY DEF Job
  <2> QED BY <2>1 DEF Init, Brought, Import
<1>2. All /\ [Next]_vars => All'
  BY NextHolds, BroughtStep
<1>3. All /\ [Next]_vars => [Said]_vars
  <2> SUFFICES ASSUME All, [Next]_vars, NEW c \in Commands, result[c] # "ok", result'[c] = "ok"
               PROVE  /\ State(vault) = "initialized" /\ skill
                      /\ \A p \in my[c].what : <<p, "payload">> \in vault.kept
    OBVIOUS
  <2>1. TypeOK BY DEF IInv
  <2>2. Release(c) /\ ~my[c].failed
    <3>1. CASE UNCHANGED result BY <3>1
    <3>2. ASSUME NEW d \in Commands, NEW how, Done(d, how) PROVE d = c /\ how = "ok"
      BY <2>1, <3>2 DEF Done, TypeOK
    <3>3. ASSUME NEW d \in Commands, Start(d) PROVE FALSE
      BY <2>1, <3>3 DEF Start, TypeOK
    <3>4. ASSUME NEW d \in Commands, Step(d), ~Release(d), ~Start(d)
          PROVE  UNCHANGED result \/ Done(d, "failed")
      <4> USE DEF Goto, Know, ends
      <4>1. CASE MakeLock(d) \/ ReadAge(d) \/ StealLock(d) \/ WriteToken(d) \/ VerifyLock(d) \/ Kill(d)
        BY <4>1 DEF MakeLock, ReadAge, StealLock, WriteToken, VerifyLock, Kill
      <4>2. CASE InspectInit(d) \/ Refresh(d) \/ CleanStaging(d) \/ Scaffold(d) \/ CommitStaging(d)
        BY <4>2 DEF InspectInit, Refresh, CleanStaging, Scaffold, CommitStaging
      <4>3. CASE RefreshPromote(d) \/ RemoveEmpty(d) \/ Promote(d) \/ Verify(d) \/ InstallSkill(d)
        BY <4>3 DEF RefreshPromote, RemoveEmpty, Promote, Verify, InstallSkill
      <4>4. CASE InspectImport(d) \/ CleanImport(d) \/ Copy(d) \/ Check(d) \/ Build(d) \/ Checkpoint(d)
        BY <4>4 DEF InspectImport, CleanImport, Copy, Check, Build, Checkpoint
      <4>5. CASE Merge(d) \/ CommitImport(d) \/ Exchange(d) \/ Undo(d) \/ Tidy(d)
        BY <4>5 DEF Merge, CommitImport, Exchange, Undo, Tidy
      <4>6. CASE Fail(d) BY <4>6 DEF Fail
      <4> QED BY <3>4, <4>1, <4>2, <4>3, <4>4, <4>5, <4>6 DEF Step
    <3>5. CASE \E d \in Commands : Step(d)
      <4>1. PICK d \in Commands : Step(d) BY <3>5
      <4>2. Release(d) BY <3>1, <3>2, <3>3, <3>4, <4>1
      <4>3. \/ Done(d, IF my[d].failed THEN "failed" ELSE "ok")
            \/ Done(d, "failed")
        BY <4>2 DEF Release
      <4>4. d = c /\ ~my[c].failed BY <3>2, <4>3
      <4> QED BY <4>2, <4>4
    <3>6. CASE Age \/ AgentCommit \/ (\E p \in Writes : AgentWrite(p)) \/ UNCHANGED vars
      BY <3>1, <3>6 DEF Age, AgentCommit, AgentWrite, ends, vars
    <3> QED BY <3>5, <3>6 DEF Next
  <2>3. pc[c] = "release" /\ my[c].failed = FALSE
    BY <2>1, <2>2 DEF Release, At, TypeOK, Jobs
  <2> QED BY <2>3 DEF Brought, Initialized, Landed
<1> QED BY <1>1, <1>2, <1>3, PTL DEF Spec, ReportIsTrue

=============================================================================
