------------------------------ MODULE Registry ------------------------------
(***************************************************************************)
(* What the shared project registry promises (internal/config/projects.go, *)
(* internal/config/registry.go): one document, changed one entry at a time *)
(* by an addition, a correction or a removal, in which no two projects are *)
(* attached to the same remote.                                            *)
(*                                                                         *)
(* How commands reach it through a file and an advisory lock is in         *)
(* ProjectCommands, which implements this specification.                   *)
(***************************************************************************)
EXTENDS Naturals, FiniteSets

CONSTANTS
  Projects,      \* the project ids
  Remotes,       \* the Git remotes a record may hold
  Local,         \* the empty remote: the project is on no forge
  NoEntry,       \* the project is not registered
  MaxProjects    \* maxProjects

VARIABLE record  \* record[p]: the remote the registry holds for p

Entries == Remotes \cup {Local, NoEntry}

Registered(doc) == {p \in Projects : doc[p] # NoEntry}

\* Fault: no remote is ever taken.
FreeForAll(doc, p, e) == FALSE

\* Another project already holds remote e.  An absent remote is not one two
\* projects can share.
Taken(doc, p, e) == e # Local /\ \E q \in Projects \ {p} : doc[q] = e

\* WithProject, WithUpdatedRemote, WithoutProject: whether each accepts.
CanRegister(doc, p, e) ==
  /\ doc[p] = NoEntry
  /\ ~Taken(doc, p, e)
  /\ Cardinality(Registered(doc)) < MaxProjects
CanCorrect(doc, p, r) == doc[p] # NoEntry /\ ~Taken(doc, p, r)
CanForget(doc, p)     == doc[p] # NoEntry

Init == record = [p \in Projects |-> NoEntry]

Register(p, e) == CanRegister(record, p, e) /\ record' = [record EXCEPT ![p] = e]
Correct(p, r)  == CanCorrect(record, p, r) /\ record' = [record EXCEPT ![p] = r]
Forget(p)      == CanForget(record, p) /\ record' = [record EXCEPT ![p] = NoEntry]

Next == \E p \in Projects :
  \/ \E e \in Remotes \cup {Local} : Register(p, e)
  \/ \E r \in Remotes : Correct(p, r)
  \/ Forget(p)

Spec == Init /\ [][Next]_record

\* No two projects hold the same remote, whichever order their additions and
\* corrections came in (ErrDuplicateRemote).
RemotesUnique ==
  \A p, q \in Projects : p # q /\ record[p] \in Remotes => record[p] # record[q]
=============================================================================
