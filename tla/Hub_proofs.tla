----------------------------- MODULE Hub_proofs -----------------------------
(***************************************************************************)
(* Proofs about Hub, for any number of boxes, keys and pieces of work.     *)
(* IInv: no two pieces of work that hold the lock are under way, busy says *)
(* whether one is, and a lock whose answer was dropped is held by none.    *)
(* Truthful: work asked around a rebind is stale, the rest was asked of    *)
(* the box bound to; and what is fresh is so of that box, unless a change  *)
(* the hub is about to probe for is still to be delivered.                 *)
(***************************************************************************)
EXTENDS Hub, FiniteSetTheorems, TLAPS

\* What a piece of work may be for, when it is not a box.
Names == {"", "running", "vm-init", "vm-start", "vm-stop", "bootstrap", "brain-init", "brain-sync",
          "brain-import", "project-add", "project-remove", "project-sync", "set-remote", "activate",
          "backend login", "shell", "checkout", "mcp login"}

Records == [kind : Kinds, what : Boxes \cup Names, at : {"asked", "moved", "done"}, ok : BOOLEAN,
            facts : Facts, of : Boxes, fresh : Freshness]

\* A rebind names a box, a probe of the guest the state it was asked in.
Asked(j) == /\ j \in Records
            /\ j.kind = "rebind" => j.what \in Boxes
            /\ j.kind = "guest" => j.what = "running"
AllAsked(S) == \A j \in S : Asked(j)

\* TypeOK but for the work under way.
Typed ==
  /\ world \in [Boxes -> Facts] /\ registry \in 0..1 /\ target \in Boxes /\ bound \in Boxes /\ of \in Boxes
  /\ active \in Screens /\ facts \in Facts /\ fresh \in Freshness /\ keys \in 0..MaxKeys
  /\ probed \in BOOLEAN /\ probing \in BOOLEAN /\ verified \in BOOLEAN /\ busy \in BOOLEAN
  /\ afterSession \in BOOLEAN /\ preview \in BOOLEAN /\ strayed \in BOOLEAN

Locks(j) == j.kind \in Locking
Idle(S)  == \A j \in S : ~Locks(j)

\* The work in S, the lock and whether its answer was dropped agree.
OneLock(S, lock, dropped) ==
  /\ \A i, j \in S : Locks(i) /\ Locks(j) => i = j
  /\ lock = TRUE <=> (dropped = TRUE \/ \E j \in S : Locks(j))
  /\ dropped = TRUE => Idle(S)

IInv == Typed /\ AllAsked(jobs) /\ OneLock(jobs, busy, strayed)

-----------------------------------------------------------------------------
(* Sets of work. *)

LEMMA WithoutHolder ==
  ASSUME NEW S, NEW lock \in BOOLEAN, NEW dropped \in BOOLEAN, OneLock(S, lock, dropped),
         NEW j \in S, Locks(j)
  PROVE  Idle(S \ {j}) /\ lock = TRUE /\ dropped = FALSE
BY DEF OneLock, Idle

LEMMA WithoutIdle ==
  ASSUME NEW S, NEW lock, NEW dropped, OneLock(S, lock, dropped), NEW j, ~Locks(j)
  PROVE  OneLock(S \ {j}, lock, dropped) /\ OneLock(S \cup {j}, lock, dropped)
BY DEF OneLock, Idle

LEMMA WithHolder ==
  ASSUME NEW S, Idle(S), NEW j, Locks(j)
  PROVE  OneLock(S \cup {j}, TRUE, FALSE)
BY DEF OneLock, Idle

LEMMA AllIdle ==
  ASSUME NEW S, Idle(S)
  PROVE  OneLock(S, FALSE, FALSE) /\ OneLock(S, TRUE, TRUE)
BY DEF OneLock, Idle

LEMMA AskedWith ==
  ASSUME NEW S, AllAsked(S), NEW j
  PROVE  AllAsked(S \ {j}) /\ (Asked(j) => AllAsked(S \cup {j}))
BY DEF AllAsked

\* How fresh an answer is changes neither what it is nor whether it locks.
LEMMA FreshOnly ==
  ASSUME NEW j, Asked(j), NEW n \in Freshness
  PROVE  Asked([j EXCEPT !.fresh = n]) /\ (Locks([j EXCEPT !.fresh = n]) <=> Locks(j))
BY DEF Asked, Records, Locks

LEMMA Aged ==
  ASSUME NEW S, AllAsked(S), NEW T, T = Older(S) \/ T = Cut(S)
  PROVE  /\ AllAsked(T) /\ (Idle(S) => Idle(T))
         /\ \A lock, dropped : OneLock(S, lock, dropped) => OneLock(T, lock, dropped)
<1>1. PICK n \in [S -> Freshness] : T = {[j EXCEPT !.fresh = n[j]] : j \in S}
  <2>1. \A j \in S : j.fresh \in Freshness BY DEF AllAsked, Asked, Records
  <2>2. CASE T = Older(S)
    <3> DEFINE n == [j \in S |-> IF j.fresh = 2 THEN 1 ELSE j.fresh]
    <3>1. n \in [S -> Freshness] BY <2>1 DEF Freshness
    <3>2. T = {[j EXCEPT !.fresh = n[j]] : j \in S} BY <2>2 DEF Older
    <3> QED BY <3>1, <3>2
  <2>3. CASE T = Cut(S)
    <3> DEFINE n == [j \in S |-> 0]
    <3>1. n \in [S -> Freshness] BY DEF Freshness
    <3>2. T = {[j EXCEPT !.fresh = n[j]] : j \in S} BY <2>3 DEF Cut
    <3> QED BY <3>1, <3>2
  <2> QED BY <2>2, <2>3
<1> DEFINE M(j) == [j EXCEPT !.fresh = n[j]]
<1>2. \A j \in S : Asked(M(j)) /\ (Locks(M(j)) <=> Locks(j)) BY FreshOnly DEF AllAsked
<1>3. T = {M(j) : j \in S} BY <1>1
<1> HIDE DEF M
<1>4. AllAsked(T) BY <1>2, <1>3 DEF AllAsked
<1>5. Idle(S) <=> Idle(T) BY <1>2, <1>3 DEF Idle
<1>6. ASSUME NEW lock, NEW dropped, OneLock(S, lock, dropped)
      PROVE  OneLock(T, lock, dropped)
  BY <1>2, <1>3, <1>5, <1>6 DEF OneLock
<1> QED BY <1>4, <1>5, <1>6

LEMMA JobAsked ==
  ASSUME Typed, NEW kind \in Kinds, NEW what \in Boxes \cup Names,
         kind = "rebind" => what \in Boxes, kind = "guest" => what = "running"
  PROVE  Asked(Job(kind, what)) /\ (Locks(Job(kind, what)) <=> kind \in Locking)
<1>1. NoFacts \in Facts BY DEF NoFacts, Facts, BoxStates, Credentials
<1> DEFINE n == NoFacts
<1>2. n \in Facts BY <1>1
<1> HIDE DEF n
<1>3. Job(kind, what) = [kind |-> kind, what |-> what, at |-> "asked", ok |-> FALSE, facts |-> n,
                         of |-> bound, fresh |-> IF kind \in Locking \/ target # bound THEN 0 ELSE 2]
  BY DEF Job, n
<1> QED BY <1>2, <1>3 DEF Typed, Asked, Records, Locks, Freshness

\* The three pieces of work that Update itself starts.
LEMMA ProbeAsked ==
  ASSUME Typed
  PROVE  /\ Asked(Job("box", "")) /\ ~Locks(Job("box", ""))
         /\ Asked(Job("guest", "running")) /\ ~Locks(Job("guest", "running"))
<1>1. "" \in Names /\ "running" \in Names BY DEF Names
<1>2. "box" \in Kinds /\ "guest" \in Kinds /\ "box" \notin Locking /\ "guest" \notin Locking
  BY DEF Kinds, Locking
<1>3. Asked(Job("box", "")) /\ (Locks(Job("box", "")) <=> "box" \in Locking)
  BY <1>1, <1>2, JobAsked
<1>4. Asked(Job("guest", "running")) /\ (Locks(Job("guest", "running")) <=> "guest" \in Locking)
  BY <1>1, <1>2, JobAsked
<1> QED BY <1>2, <1>3, <1>4

LEMMA HolderAsked ==
  ASSUME Typed, NEW kind \in Locking, NEW what \in Boxes \cup Names, kind = "rebind" => what \in Boxes
  PROVE  Asked(Job(kind, what)) /\ Locks(Job(kind, what))
<1>1. kind \in Kinds /\ kind # "guest" BY DEF Kinds, Locking
<1> QED BY <1>1, JobAsked

-----------------------------------------------------------------------------
(* Work beside the loop. *)

\* An answer takes the place of the question.
LEMMA AnswerStep ==
  ASSUME IInv, NEW j \in jobs, NEW k, Asked(k), Locks(k) <=> Locks(j),
         NEW S, AllAsked(S), Idle(jobs \ {j}) => Idle(S),
         OneLock(jobs \ {j}, busy, strayed) => OneLock(S, busy, strayed),
         jobs' = S \cup {k}, UNCHANGED <<busy, strayed>>
  PROVE  AllAsked(jobs') /\ OneLock(jobs', busy', strayed')
<1>1. AllAsked(jobs') BY AskedWith
<1>2. CASE Locks(j)
  <2>1. Idle(S) /\ busy = TRUE /\ strayed = FALSE BY <1>2, WithoutHolder DEF IInv, Typed
  <2> QED BY <1>1, <1>2, <2>1, WithHolder
<1>3. CASE ~Locks(j)
  <2>1. OneLock(S, busy, strayed) BY <1>3, WithoutIdle DEF IInv
  <2> QED BY <1>1, <1>3, <2>1, WithoutIdle
<1> QED BY <1>2, <1>3

LEMMA DoneAsked ==
  ASSUME NEW j, Asked(j), NEW ok \in BOOLEAN
  PROVE  /\ Asked([j EXCEPT !.at = "done", !.ok = ok])
         /\ Locks([j EXCEPT !.at = "done", !.ok = ok]) <=> Locks(j)
BY DEF Asked, Records, Locks

LEMMA AtAsked ==
  ASSUME NEW j, Asked(j), NEW at \in {"moved", "done"}
  PROVE  Asked([j EXCEPT !.at = at]) /\ (Locks([j EXCEPT !.at = at]) <=> Locks(j))
BY DEF Asked, Records, Locks

LEMMA HeardAsked ==
  ASSUME NEW j, Asked(j), NEW ok \in BOOLEAN, NEW b \in Boxes, NEW f \in Facts
  PROVE  /\ Asked([j EXCEPT !.at = "done", !.ok = ok, !.of = b, !.facts = f])
         /\ Locks([j EXCEPT !.at = "done", !.ok = ok, !.of = b, !.facts = f]) <=> Locks(j)
BY DEF Asked, Records, Locks

LEMMA LeastFresh == ASSUME NEW n \in Freshness PROVE Least(n, 1) \in Freshness
BY DEF Least, Freshness

\* What an operation leaves of a box is a box.
LEMMA EffectTyped ==
  ASSUME Typed, NEW op
  PROVE  Effect(op, target)[2] \in Facts /\ Effect(op, target)[3] \in 0..1
<1> DEFINE w == world[target]
<1>1. w \in Facts BY DEF Typed
<1>2. /\ [w EXCEPT !.Box = "stopped"] \in Facts /\ [w EXCEPT !.Box = "running"] \in Facts
      /\ [w EXCEPT !.Bootstrapped = TRUE] \in Facts /\ [w EXCEPT !.BrainReady = TRUE] \in Facts
  BY <1>1 DEF Facts, BoxStates
<1> HIDE DEF Facts
<1> QED BY <1>1, <1>2 DEF Effect, Typed

LEMMA RunStep ==
  ASSUME IInv, NEW j \in jobs, Run(j)
  PROVE  IInv'
<1>1. Asked(j) /\ AllAsked(jobs \ {j}) BY AskedWith DEF IInv, AllAsked
<1>2. UNCHANGED <<target, bound, active, probed, probing, verified, facts, of, busy, afterSession,
                  preview, strayed, keys>>
  BY DEF Run, screenVars
<1>3. CASE Operate(j)
  <2> DEFINE e == Effect(j.what, target)
  <2>1. e[2] \in Facts /\ e[3] \in 0..1 BY EffectTyped DEF IInv
  <2>2. /\ world' = world \/ world' = [world EXCEPT ![target] = e[2]]
        /\ registry' \in {registry, e[3]}
    BY <1>3 DEF Operate
  <2>3. fresh' \in Freshness BY <1>3, LeastFresh DEF Operate, IInv, Typed
  <2>4. Typed' BY <1>2, <2>1, <2>2, <2>3 DEF IInv, Typed
  <2>5. AllAsked(jobs') /\ OneLock(jobs', busy', strayed')
    <3>1. Asked([j EXCEPT !.at = "done", !.ok = TRUE])
          /\ (Locks([j EXCEPT !.at = "done", !.ok = TRUE]) <=> Locks(j))
      BY <1>1, DoneAsked
    <3>2. Asked([j EXCEPT !.at = "done"]) /\ (Locks([j EXCEPT !.at = "done"]) <=> Locks(j))
      BY <1>1, AtAsked
    <3>3. CASE jobs' = (jobs \ {j}) \cup {[j EXCEPT !.at = "done", !.ok = TRUE]}
      BY <1>1, <1>2, <3>1, <3>3, AnswerStep
    <3>4. CASE jobs' = (jobs \ {j}) \cup {[j EXCEPT !.at = "done"]}
      BY <1>1, <1>2, <3>2, <3>4, AnswerStep
    <3>5. CASE jobs' = Older(jobs \ {j}) \cup {[j EXCEPT !.at = "done"]}
      <4>1. /\ AllAsked(Older(jobs \ {j})) /\ (Idle(jobs \ {j}) => Idle(Older(jobs \ {j})))
            /\ OneLock(jobs \ {j}, busy, strayed) => OneLock(Older(jobs \ {j}), busy, strayed)
        BY <1>1, Aged
      <4> QED BY <1>2, <3>2, <3>5, <4>1, AnswerStep
    <3> QED BY <1>3, <3>3, <3>4, <3>5 DEF Operate
  <2> QED BY <2>4, <2>5 DEF IInv
<1>4. CASE Session(j)
  <2>1. PICK ok \in BOOLEAN : jobs' = (jobs \ {j}) \cup {[j EXCEPT !.at = "done", !.ok = ok]}
    BY <1>4 DEF Session
  <2>2. AllAsked(jobs') /\ OneLock(jobs', busy', strayed')
    BY <1>1, <1>2, <2>1, DoneAsked, AnswerStep
  <2>3. [world[target] EXCEPT !.Credential = "present"] \in Facts
    BY DEF IInv, Typed, Facts, Credentials
  <2>4. world' = world \/ world' = [world EXCEPT ![target] = [world[target] EXCEPT !.Credential = "present"]]
    BY <1>4 DEF Session
  <2> HIDE DEF Facts
  <2>5. Typed' BY <1>2, <1>4, <2>3, <2>4 DEF Session, IInv, Typed
  <2> QED BY <2>2, <2>5 DEF IInv
<1>5. CASE BoxAnswers(j)
  <2>1. PICK ok \in BOOLEAN :
          jobs' = (jobs \ {j}) \cup
            {[j EXCEPT !.at = "done", !.ok = ok, !.of = target,
                       !.facts = IF ok THEN BoxOnly(world[target].Box) ELSE NoFacts]}
    BY <1>5 DEF BoxAnswers
  <2>2. NoFacts \in Facts BY DEF NoFacts, Facts, BoxStates, Credentials
  <2>3. BoxOnly(world[target].Box) \in Facts
    <3>1. world[target].Box \in BoxStates \cup {""} BY DEF IInv, Typed, Facts
    <3> DEFINE n == NoFacts
    <3>2. n \in Facts BY <2>2
    <3> HIDE DEF n
    <3>3. [n EXCEPT !.Box = world[target].Box, !.Credential = "unknown"] \in Facts
      BY <3>1, <3>2 DEF Facts, Credentials
    <3> QED BY <3>3 DEF BoxOnly, n
  <2> DEFINE f == IF ok THEN BoxOnly(world[target].Box) ELSE NoFacts
  <2>4. f \in Facts /\ target \in Boxes BY <2>2, <2>3 DEF IInv, Typed
  <2> HIDE DEF f
  <2>5. jobs' = (jobs \ {j}) \cup {[j EXCEPT !.at = "done", !.ok = ok, !.of = target, !.facts = f]}
    BY <2>1 DEF f
  <2>6. AllAsked(jobs') /\ OneLock(jobs', busy', strayed')
    BY <1>1, <1>2, <2>4, <2>5, HeardAsked, AnswerStep
  <2> QED BY <1>2, <1>5, <2>6 DEF BoxAnswers, IInv, Typed
<1>6. CASE GuestAnswers(j)
  <2>1. PICK v, rest \in BOOLEAN :
          jobs' = (jobs \ {j}) \cup
            {[j EXCEPT !.at = "done", !.ok = TRUE, !.of = target,
                       !.facts = [Heard(Truth(target), v /\ world[target].Box = "running", rest)
                                   EXCEPT !.Box = j.what]]}
    BY <1>6 DEF GuestAnswers
  <2> DEFINE t == Truth(target)
             p == v /\ world[target].Box = "running"
             h == Heard(t, p, rest)
             f == [h EXCEPT !.Box = j.what]
  <2>2. t \in Facts BY DEF Truth, IInv, Typed, Facts
  <2>3. p \in BOOLEAN BY DEF IInv, Typed
  <2> HIDE DEF t, p
  <2>4. h \in Facts
    <3>1. /\ t.Bootstrapped \in BOOLEAN /\ t.BrainReady \in BOOLEAN
          /\ t.Credential \in Credentials \cup {""} /\ t.ProjectCount \in 0..1
          /\ t.Box \in BoxStates \cup {""}
      BY <2>2 DEF Facts
    <3>2. "unknown" \in Credentials BY DEF Credentials
    <3>3. (IF p /\ t.Bootstrapped THEN t.Credential ELSE "unknown") \in Credentials \cup {""}
      BY <3>1, <3>2
    <3>0. 0 \in 0..1 OBVIOUS
    <3>4. (IF rest THEN t.ProjectCount ELSE 0) \in 0..1 BY <3>0, <3>1, Zenon
    <3>5. (p /\ t.Bootstrapped) \in BOOLEAN /\ (p /\ t.Bootstrapped /\ rest /\ t.BrainReady) \in BOOLEAN
      OBVIOUS
    <3> QED BY <3>1, <3>3, <3>4, <3>5 DEF Heard, Facts
  <2>5. j.what = "running" BY <1>1, <1>6 DEF GuestAnswers, Asked
  <2> HIDE DEF h
  <2>6. f \in Facts BY <2>4, <2>5 DEF Facts, BoxStates
  <2>7. target \in Boxes BY DEF IInv, Typed
  <2>8. jobs' = (jobs \ {j}) \cup {[j EXCEPT !.at = "done", !.ok = TRUE, !.of = target, !.facts = f]}
    BY <2>1 DEF f, h, p, t
  <2> HIDE DEF f
  <2>9. AllAsked(jobs') /\ OneLock(jobs', busy', strayed')
    BY <1>1, <1>2, <2>6, <2>7, <2>8, HeardAsked, AnswerStep
  <2> QED BY <1>2, <1>6, <2>9 DEF GuestAnswers, IInv, Typed
<1>7. CASE Resolved(j)
  <2>1. PICK ok \in BOOLEAN : jobs' = (jobs \ {j}) \cup {[j EXCEPT !.at = "done", !.ok = ok]}
    BY <1>7 DEF Resolved
  <2>2. AllAsked(jobs') /\ OneLock(jobs', busy', strayed')
    BY <1>1, <1>2, <2>1, DoneAsked, AnswerStep
  <2> QED BY <1>2, <1>7, <2>2 DEF Resolved, IInv, Typed
<1> QED BY <1>3, <1>4, <1>5, <1>6, <1>7 DEF Run

LEMMA ResolveStep ==
  ASSUME IInv, NEW j \in jobs, Resolve(j)
  PROVE  IInv'
<1>1. Asked(j) /\ AllAsked(jobs \ {j}) BY AskedWith DEF IInv, AllAsked
<1>2. j.kind = "rebind" /\ j.what \in Boxes BY <1>1 DEF Resolve, Asked
<1>3. UNCHANGED <<world, registry, bound, active, probed, probing, verified, facts, of, busy,
                  afterSession, preview, fresh, strayed, keys>>
  BY DEF Resolve, screenVars
<1>4. target' \in {target, bound, j.what} BY DEF Resolve
<1>5. Typed' BY <1>2, <1>3, <1>4 DEF IInv, Typed
<1> DEFINE C == Cut(jobs \ {j})
<1>6. /\ AllAsked(C) /\ (Idle(jobs \ {j}) => Idle(C))
      /\ OneLock(jobs \ {j}, busy, strayed) => OneLock(C, busy, strayed)
  BY <1>1, Aged
<1> HIDE DEF C
<1>7. CASE \E at \in {"moved", "done"} : jobs' = C \cup {[j EXCEPT !.at = at]}
  <2>1. PICK at \in {"moved", "done"} : jobs' = C \cup {[j EXCEPT !.at = at]} BY <1>7
  <2>2. AllAsked(jobs') /\ OneLock(jobs', busy', strayed')
    BY <1>1, <1>3, <1>6, <2>1, AtAsked, AnswerStep
  <2> QED BY <1>5, <2>2 DEF IInv
<1>8. CASE jobs' = (jobs \ {j}) \cup {[j EXCEPT !.at = "done", !.ok = TRUE]}
  <2>1. AllAsked(jobs') /\ OneLock(jobs', busy', strayed')
    BY <1>1, <1>3, <1>8, DoneAsked, AnswerStep
  <2> QED BY <1>5, <2>1 DEF IInv
<1> QED BY <1>7, <1>8 DEF Resolve, C

-----------------------------------------------------------------------------
(* Update. *)

\* A probe asks beside whatever is left, and holds no lock.
LEMMA ProbeStep ==
  ASSUME Typed, NEW S, AllAsked(S), NEW lock, NEW dropped, OneLock(S, lock, dropped), Probe(S)
  PROVE  AllAsked(jobs') /\ OneLock(jobs', lock, dropped) /\ fresh' \in Freshness /\ probing' = TRUE
<1>1. Asked(Job("box", "")) /\ ~Locks(Job("box", "")) BY ProbeAsked
<1>2. AllAsked(Older(S)) /\ OneLock(Older(S), lock, dropped) BY Aged
<1>3. AllAsked(jobs') BY <1>1, <1>2, AskedWith DEF Probe
<1>4. OneLock(jobs', lock, dropped) BY <1>1, <1>2, WithoutIdle DEF Probe
<1> QED BY <1>3, <1>4, LeastFresh DEF Probe, Typed

LEMMA DeliverStep ==
  ASSUME IInv, NEW j \in jobs, Deliver(j)
  PROVE  IInv'
<1> DEFINE left == jobs \ {j}
<1>1. Asked(j) /\ AllAsked(left) BY AskedWith DEF IInv, AllAsked
<1>2. /\ j.ok \in BOOLEAN /\ j.facts \in Facts /\ j.of \in Boxes /\ j.fresh \in Freshness
      /\ j.what \in Boxes \cup Names
  BY <1>1 DEF Asked, Records
<1>3. UNCHANGED <<world, registry, target, keys>> BY DEF Deliver
<1>4. ~Locks(j) => OneLock(left, busy, strayed) BY WithoutIdle DEF IInv
<1>5. Locks(j) => Idle(left) /\ busy = TRUE /\ strayed = FALSE
  BY WithoutHolder DEF IInv, Typed
<1>6. Typed BY DEF IInv
<1>7. Idle(left) => OneLock(left, FALSE, FALSE) /\ OneLock(left, TRUE, TRUE) BY AllIdle
<1> HIDE DEF left
<1>11. CASE BoxMsg(j)
  <2>1. ~Locks(j) BY <1>11 DEF BoxMsg, Locks, Locking
  <2>2. Typed' BY <1>2, <1>3, <1>6, <1>11 DEF BoxMsg, Typed
  <2>3. UNCHANGED <<busy, strayed>> BY <1>11 DEF BoxMsg
  <2>4. CASE jobs' = left BY <1>1, <1>4, <2>1, <2>2, <2>3, <2>4 DEF IInv
  <2>5. CASE jobs' = left \cup {[Job("guest", "running") EXCEPT !.fresh = j.fresh]}
    <3>1. Asked(Job("guest", "running")) /\ ~Locks(Job("guest", "running"))
      BY <1>6, ProbeAsked
    <3>2. /\ Asked([Job("guest", "running") EXCEPT !.fresh = j.fresh])
          /\ ~Locks([Job("guest", "running") EXCEPT !.fresh = j.fresh])
      BY <1>2, <3>1, FreshOnly
    <3>3. AllAsked(jobs') BY <1>1, <2>5, <3>2, AskedWith
    <3>4. OneLock(jobs', busy, strayed) BY <1>4, <2>1, <2>5, <3>2, WithoutIdle
    <3> QED BY <2>2, <2>3, <3>3, <3>4 DEF IInv
  <2>6. jobs' = left \/ jobs' = left \cup {[Job("guest", "running") EXCEPT !.fresh = j.fresh]}
    BY <1>11 DEF BoxMsg, left
  <2> QED BY <2>4, <2>5, <2>6
<1>12. CASE FactsMsg(j)
  <2>1. ~Locks(j) BY <1>12 DEF FactsMsg, Locks, Locking
  <2>2. Typed' BY <1>2, <1>3, <1>6, <1>12 DEF FactsMsg, Typed
  <2>3. UNCHANGED <<busy, strayed>> /\ jobs' = left BY <1>12 DEF FactsMsg, left
  <2> QED BY <1>1, <1>4, <2>1, <2>2, <2>3 DEF IInv
<1>13. CASE OpMsg(j)
  <2>1. Locks(j) BY <1>13 DEF OpMsg, Locks, Locking, Kinds
  <2>2. busy' = FALSE /\ strayed' = FALSE BY <1>5, <1>13, <2>1 DEF OpMsg
  <2>3. CASE Probe(left)
    <3>1. AllAsked(jobs') /\ OneLock(jobs', FALSE, FALSE) /\ fresh' \in Freshness /\ probing' = TRUE
      BY <1>1, <1>5, <1>6, <1>7, <2>1, <2>3, ProbeStep
    <3>2. Typed' BY <1>3, <1>6, <1>13, <3>1 DEF OpMsg, Typed
    <3> QED BY <2>2, <3>1, <3>2 DEF IInv
  <2>4. CASE jobs' = left /\ UNCHANGED <<probing, fresh>>
    <3>1. Typed' BY <1>3, <1>6, <1>13, <2>4 DEF OpMsg, Typed
    <3> QED BY <1>1, <1>5, <1>7, <2>1, <2>2, <2>4, <3>1 DEF IInv
  <2> QED BY <1>13, <2>3, <2>4 DEF OpMsg, left
<1>14. CASE RebindMsg(j)
  <2>1. Locks(j) BY <1>14 DEF RebindMsg, Locks, Locking, Kinds
  <2>2. busy' = FALSE /\ strayed' = FALSE BY <1>5, <1>14, <2>1 DEF RebindMsg
  <2>3. j.what \in Boxes BY <1>1, <1>14 DEF RebindMsg, Asked
  <2>4. NoFacts \in Facts BY DEF NoFacts, Facts, BoxStates, Credentials
  <2>5. Typed'
    <3>1. 1 \in Freshness BY DEF Freshness
    <3>2. CASE j.ok BY <1>3, <1>6, <1>14, <2>3, <2>4, <3>1, <3>2 DEF RebindMsg, Typed
    <3>3. CASE ~j.ok BY <1>3, <1>6, <1>14, <3>3 DEF RebindMsg, Typed
    <3> QED BY <3>2, <3>3
  <2>6. CASE jobs' = left BY <1>1, <1>5, <1>7, <2>1, <2>2, <2>5, <2>6 DEF IInv
  <2>7. CASE jobs' = left \cup {[Job("box", "") EXCEPT !.of = j.what, !.fresh = 2]}
    <3> DEFINE n == Job("box", "")
    <3>1. Asked(n) /\ ~Locks(n) BY <1>6, ProbeAsked
    <3> HIDE DEF n
    <3> DEFINE k == [n EXCEPT !.of = j.what, !.fresh = 2]
    <3>6. n \in Records /\ n.kind \notin Locking /\ 2 \in Freshness BY <3>1 DEF Asked, Locks, Freshness
    <3>7. k \in Records /\ k.kind = n.kind /\ k.what = n.what BY <2>3, <3>6 DEF Records
    <3>2. Asked(k) /\ ~Locks(k) BY <3>1, <3>7 DEF Asked, Locks
    <3>3. jobs' = left \cup {k} BY <2>7 DEF n
    <3> HIDE DEF k
    <3>4. AllAsked(jobs') BY <1>1, <3>2, <3>3, AskedWith
    <3>5. OneLock(jobs', FALSE, FALSE) BY <1>5, <1>7, <2>1, <3>2, <3>3, WithoutIdle
    <3> QED BY <2>2, <2>5, <3>4, <3>5 DEF IInv
  <2> QED BY <1>14, <2>6, <2>7 DEF RebindMsg, left
<1>15. CASE SpecMsg(j)
  <2>1. Locks(j) BY <1>15 DEF SpecMsg, Locks, Locking, Kinds
  <2>2. busy' = j.ok /\ strayed' = FALSE BY <1>5, <1>15, <2>1 DEF SpecMsg
  <2>3. Typed' BY <1>2, <1>3, <1>6, <1>15 DEF SpecMsg, Typed
  <2>4. CASE j.ok
    <3>1. jobs' = left \cup {Job("session", j.what)} BY <1>15, <2>4 DEF SpecMsg, left
    <3>2. Asked(Job("session", j.what)) /\ Locks(Job("session", j.what))
      BY <1>2, <1>6, HolderAsked DEF Kinds, Locking
    <3>3. AllAsked(jobs') BY <1>1, <3>1, <3>2, AskedWith
    <3>4. OneLock(jobs', TRUE, FALSE) BY <1>5, <2>1, <3>1, <3>2, WithHolder
    <3> QED BY <2>2, <2>3, <2>4, <3>3, <3>4, <1>2 DEF IInv
  <2>5. CASE ~j.ok
    <3>1. jobs' = left BY <1>15, <2>5 DEF SpecMsg, left
    <3> QED BY <1>1, <1>2, <1>5, <1>7, <2>1, <2>2, <2>3, <2>5, <3>1 DEF IInv
  <2> QED BY <2>4, <2>5
<1>16. CASE ExecDoneMsg(j)
  <2> DEFINE follow == afterSession /\ j.ok
             S == left \cup IF follow THEN {Job("op", "activate")} ELSE {}
  <2>1. Locks(j) BY <1>16 DEF ExecDoneMsg, Locks, Locking, Kinds
  <2>2. strayed' = FALSE /\ busy' = follow /\ Probe(S) BY <1>5, <1>16, <2>1 DEF ExecDoneMsg, left
  <2>3. Asked(Job("op", "activate")) /\ Locks(Job("op", "activate"))
    <3>1. "op" \in Locking /\ "activate" \in Names BY DEF Names, Kinds, Locking
    <3> QED BY <1>6, <3>1, HolderAsked
  <2>4. AllAsked(S) /\ OneLock(S, follow, FALSE)
    <3>1. CASE follow
      <4>1. S = left \cup {Job("op", "activate")} /\ follow = TRUE BY <3>1
      <4> QED BY <1>1, <1>5, <2>1, <2>3, <4>1, AskedWith, WithHolder
    <3>2. CASE ~follow
      <4>1. S = left /\ follow = FALSE BY <3>2
      <4> QED BY <1>1, <1>5, <1>7, <2>1, <4>1
    <3> QED BY <3>1, <3>2
  <2>5. follow \in BOOLEAN BY <1>2, <1>6 DEF Typed
  <2> HIDE DEF S, follow
  <2>6. AllAsked(jobs') /\ OneLock(jobs', follow, FALSE) /\ fresh' \in Freshness /\ probing' = TRUE
    BY <1>6, <2>2, <2>4, ProbeStep
  <2>7. Typed' BY <1>3, <1>6, <1>16, <2>2, <2>5, <2>6 DEF ExecDoneMsg, Typed
  <2> QED BY <2>2, <2>6, <2>7 DEF IInv
<1>17. CASE PreviewMsg(j)
  <2>1. Locks(j) BY <1>17 DEF PreviewMsg, Locks, Locking, Kinds
  <2>2. jobs' = left BY <1>17 DEF PreviewMsg, left
  <2>3. Typed' BY <1>2, <1>3, <1>6, <1>17 DEF PreviewMsg, Typed
  <2>4. \/ busy' = FALSE /\ strayed' = FALSE
        \/ busy' = TRUE /\ strayed' = TRUE
    BY <1>5, <1>17, <2>1 DEF PreviewMsg
  <2> QED BY <1>1, <1>5, <1>7, <2>1, <2>2, <2>3, <2>4 DEF IInv
<1>18. CASE InstallMsg(j)
  <2>1. Locks(j) BY <1>18 DEF InstallMsg, Locks, Locking, Kinds
  <2>2. CASE Probe(left) /\ busy' = FALSE /\ strayed' = strayed
    <3>1. AllAsked(jobs') /\ OneLock(jobs', FALSE, FALSE) /\ fresh' \in Freshness /\ probing' = TRUE
      BY <1>1, <1>5, <1>6, <1>7, <2>1, <2>2, ProbeStep
    <3>2. Typed' BY <1>3, <1>6, <1>18, <2>2, <3>1 DEF InstallMsg, Typed
    <3> QED BY <1>5, <2>1, <2>2, <3>1, <3>2 DEF IInv
  <2>3. CASE /\ jobs' = left /\ UNCHANGED <<probing, fresh>>
             /\ \/ busy' = FALSE /\ strayed' = strayed
                \/ busy' = busy /\ strayed' = TRUE
    <3>1. Typed' BY <1>3, <1>6, <1>18, <2>3 DEF InstallMsg, Typed
    <3> QED BY <1>1, <1>5, <1>7, <2>1, <2>3, <3>1 DEF IInv
  <2>4. CASE active = "mcp"
    <3>1. busy' = FALSE /\ strayed' = strayed BY <1>18, <2>4 DEF InstallMsg
    <3>2. \/ Probe(left)
          \/ jobs' = left /\ UNCHANGED <<probing, fresh>>
      BY <1>18, <2>4 DEF InstallMsg, left
    <3> QED BY <2>2, <2>3, <3>1, <3>2
  <2>5. CASE active # "mcp" BY <1>18, <2>3, <2>5 DEF InstallMsg, left
  <2> QED BY <2>4, <2>5
<1> QED BY <1>11, <1>12, <1>13, <1>14, <1>15, <1>16, <1>17, <1>18 DEF Deliver

-----------------------------------------------------------------------------
(* Keys. *)

LEMMA BeginStep ==
  ASSUME IInv, NEW kind \in Locking, NEW what \in Boxes \cup Names, kind = "rebind" => what \in Boxes,
         Begin(kind, what), strayed' = strayed
  PROVE  /\ busy' \in BOOLEAN /\ AllAsked(jobs') /\ OneLock(jobs', busy', strayed')
         /\ UNCHANGED <<probing, fresh>>
<1>1. ~busy /\ busy' = TRUE /\ jobs' = jobs \cup {Job(kind, what)} /\ UNCHANGED <<probing, fresh>>
  BY DEF Begin
<1>2. Idle(jobs) /\ strayed = FALSE BY <1>1 DEF IInv, Typed, OneLock, Idle
<1>3. Asked(Job(kind, what)) /\ Locks(Job(kind, what)) BY HolderAsked DEF IInv
<1>4. AllAsked(jobs') BY <1>1, <1>3, AskedWith DEF IInv
<1>5. OneLock(jobs', TRUE, FALSE) BY <1>1, <1>2, <1>3, WithHolder
<1> QED BY <1>1, <1>2, <1>4, <1>5

\* What a key leaves of the lock and of the work under way.
Kept == /\ busy' \in BOOLEAN /\ probing' \in BOOLEAN /\ fresh' \in Freshness
        /\ AllAsked(jobs') /\ OneLock(jobs', busy', strayed')

LEMMA BeginKept ==
  ASSUME IInv, NEW kind \in Locking \ {"rebind"}, NEW what \in Names, Begin(kind, what),
         strayed' = strayed
  PROVE  Kept
<1>1. kind \in Locking /\ what \in Boxes \cup Names /\ kind # "rebind" OBVIOUS
<1>2. /\ busy' \in BOOLEAN /\ AllAsked(jobs') /\ OneLock(jobs', busy', strayed')
      /\ UNCHANGED <<probing, fresh>>
  BY <1>1, BeginStep
<1> QED BY <1>2 DEF Kept, IInv, Typed

LEMMA NothingKept ==
  ASSUME IInv, UNCHANGED <<jobs, busy, probing, fresh, strayed>>
  PROVE  Kept
BY DEF Kept, IInv, Typed

LEMMA ProbeKept ==
  ASSUME IInv, Probe(jobs), UNCHANGED <<busy, strayed>>
  PROVE  Kept
<1>1. AllAsked(jobs') /\ OneLock(jobs', busy, strayed) /\ fresh' \in Freshness /\ probing' = TRUE
  BY ProbeStep DEF IInv
<1> QED BY <1>1 DEF Kept, IInv, Typed

LEMMA OperationsKept ==
  ASSUME IInv, Operations, strayed' = strayed
  PROVE  Kept
<1>1. {"op", "spec", "preview", "install"} \subseteq Locking \ {"rebind"} BY DEF Kinds, Locking
<1>2. CASE DashboardKey BY <1>1, <1>2, BeginKept DEF DashboardKey, Names
<1>3. CASE AddProject BY <1>1, <1>3, BeginKept DEF AddProject, Names
<1>4. CASE ChangeProject BY <1>1, <1>4, BeginKept DEF ChangeProject, Names
<1>5. CASE OpenCheckout BY <1>1, <1>5, BeginKept DEF OpenCheckout, Names
<1>6. CASE InstallMcp BY <1>1, <1>6, BeginKept DEF InstallMcp, Names
<1>7. CASE ChooseBox
  <2>1. PICK b \in Boxes : Begin("rebind", b) BY <1>7 DEF ChooseBox
  <2>2. "rebind" \in Locking BY DEF Kinds, Locking
  <2>3. /\ busy' \in BOOLEAN /\ AllAsked(jobs') /\ OneLock(jobs', busy', strayed')
        /\ UNCHANGED <<probing, fresh>>
    BY <2>1, <2>2, BeginStep
  <2> QED BY <2>3 DEF Kept, IInv, Typed
<1> QED BY <1>2, <1>3, <1>4, <1>5, <1>6, <1>7 DEF Operations

LEMMA KeyStep ==
  ASSUME IInv, Key
  PROVE  IInv'
<1>1. UNCHANGED <<world, registry, target, bound, facts, of, probed, verified, strayed>> BY DEF Key
<1>2. keys' \in 0..MaxKeys BY HubAssumption DEF Key, IInv, Typed
<1>3. {"op", "spec", "preview", "install"} \subseteq Locking \ {"rebind"} BY DEF Kinds, Locking
<1>4. ASSUME Kept, active' \in Screens, afterSession' \in BOOLEAN, preview' \in BOOLEAN PROVE IInv'
  <2>1. Typed' BY <1>1, <1>2, <1>4 DEF Kept, IInv, Typed
  <2> QED BY <1>4, <2>1 DEF Kept, IInv
<1>5. active \in Screens /\ afterSession \in BOOLEAN /\ preview \in BOOLEAN BY DEF IInv, Typed
<1>6. ASSUME NEW s \in Screens, SwitchTo(s) PROVE IInv'
  <2>1. active' \in Screens /\ UNCHANGED <<busy, afterSession, preview>> BY <1>6 DEF SwitchTo
  <2>2. Probe(jobs) \/ UNCHANGED <<jobs, probing, fresh>> BY <1>6 DEF SwitchTo
  <2>3. Kept BY <1>1, <2>1, <2>2, ProbeKept, NothingKept
  <2> QED BY <1>4, <1>5, <2>1, <2>3
<1>7. CASE Operations /\ UNCHANGED <<active, afterSession, preview>>
  <2>1. Kept BY <1>1, <1>7, OperationsKept
  <2> QED BY <1>4, <1>5, <1>7, <2>1
<1>8. CASE Refresh
  <2>1. Kept BY <1>1, <1>8, ProbeKept DEF Refresh
  <2> QED BY <1>4, <1>5, <1>8, <2>1 DEF Refresh
<1>9. CASE SetupStep
  <2>1. UNCHANGED <<afterSession, preview>> BY <1>9 DEF SetupStep
  <2>2. CASE NextStep(facts) \in {"vm-init", "vm-start", "bootstrap", "brain-init"}
             /\ Begin("op", NextStep(facts)) /\ UNCHANGED active
    <3>1. NextStep(facts) \in Names BY <2>2 DEF Names
    <3>2. Kept BY <1>1, <1>3, <2>2, <3>1, BeginKept
    <3> QED BY <1>4, <1>5, <2>1, <2>2, <3>2
  <2>3. CASE Begin("spec", "backend login") /\ UNCHANGED active
    <3>1. Kept BY <1>1, <1>3, <2>3, BeginKept DEF Names
    <3> QED BY <1>4, <1>5, <2>1, <2>3, <3>1
  <2>4. CASE active' = "projects" /\ UNCHANGED <<jobs, busy, probing, fresh>>
    <3>1. Kept /\ "projects" \in Screens BY <1>1, <2>4, NothingKept DEF Screens
    <3> QED BY <1>4, <1>5, <2>1, <2>4, <3>1
  <2> QED BY <1>9, <2>2, <2>3, <2>4 DEF SetupStep
<1>10. CASE BrainKey
  <2>1. UNCHANGED <<active, afterSession>> /\ preview' \in BOOLEAN BY <1>5, <1>10 DEF BrainKey
  <2>2. \/ Begin("op", "brain-init") \/ Begin("op", "brain-sync") \/ Begin("preview", "")
        \/ Begin("op", "brain-import") \/ UNCHANGED <<jobs, busy, probing, fresh>>
    BY <1>10 DEF BrainKey
  <2>3. Kept BY <1>1, <1>3, <2>2, BeginKept, NothingKept DEF Names
  <2> QED BY <1>4, <1>5, <2>1, <2>3
<1>11. CASE LoginMcp
  <2>1. afterSession' = TRUE /\ UNCHANGED <<active, preview>> BY <1>11 DEF LoginMcp
  <2>2. Begin("spec", "mcp login") \/ UNCHANGED <<jobs, busy, probing, fresh>> BY <1>11 DEF LoginMcp
  <2>3. Kept BY <1>1, <1>3, <2>2, BeginKept, NothingKept DEF Names
  <2> QED BY <1>4, <1>5, <2>1, <2>3
<1> QED BY <1>6, <1>7, <1>8, <1>9, <1>10, <1>11 DEF Key

-----------------------------------------------------------------------------
LEMMA InitHolds == Init => IInv
<1> SUFFICES ASSUME Init PROVE IInv OBVIOUS
<1>1. NoFacts \in Facts BY DEF NoFacts, Facts, BoxStates, Credentials
<1>2. world \in [Boxes -> Facts] BY HubAssumption DEF Init
<1>3. 0 \in 0..1 /\ 0 \in 0..MaxKeys /\ 1 \in Freshness BY HubAssumption DEF Freshness
<1>4. Typed
  <2> HIDE DEF NoFacts, Facts, Freshness
  <2> QED BY <1>1, <1>2, <1>3 DEF Init, Typed, Screens
<1>5. Asked(Job("box", "")) /\ ~Locks(Job("box", "")) BY <1>4, ProbeAsked
<1>6. AllAsked(jobs) /\ Idle(jobs) BY <1>5 DEF Init, AllAsked, Idle
<1>7. OneLock(jobs, FALSE, FALSE) BY <1>6, AllIdle
<1> QED BY <1>4, <1>6, <1>7 DEF Init, IInv

LEMMA NextHolds == IInv /\ [Next]_vars => IInv'
<1> SUFFICES ASSUME IInv, [Next]_vars PROVE IInv' OBVIOUS
<1>1. CASE Key BY <1>1, KeyStep
<1>2. ASSUME NEW j \in jobs, Run(j) \/ Resolve(j) \/ Deliver(j) PROVE IInv'
  BY <1>2, RunStep, ResolveStep, DeliverStep
<1>3. CASE UNCHANGED vars
  BY <1>3 DEF vars, screenVars, IInv, Typed
<1> QED BY <1>1, <1>2, <1>3 DEF Next

LEMMA Shape == IInv => TypeOK
<1> SUFFICES ASSUME IInv PROVE TypeOK OBVIOUS
<1>1. \A j \in jobs : j \in Records BY DEF IInv, AllAsked, Asked
<1>2. \A j \in jobs : /\ j.kind \in Kinds /\ j.at \in {"asked", "moved", "done"} /\ j.ok \in BOOLEAN
                      /\ j.facts \in Facts /\ j.of \in Boxes /\ j.fresh \in Freshness
  BY <1>1 DEF Records
<1> QED BY <1>2 DEF IInv, Typed, TypeOK

LEMMA Lone == IInv => OneOperation
<1> SUFFICES ASSUME IInv PROVE OneOperation OBVIOUS
<1> DEFINE locking == {j \in jobs : j.kind \in Locking}
<1>1. \A i, j \in locking : i = j BY DEF IInv, OneLock, Locks
<1>2. Cardinality(locking) <= 1
  <2> HIDE DEF locking
  <2>1. CASE locking = {}
    <3>1. Cardinality({}) = 0 BY FS_EmptySet
    <3> QED BY <2>1, <3>1
  <2>2. CASE locking # {}
    <3>1. PICK x : locking = {x} BY <1>1, <2>2
    <3>2. Cardinality({x}) = 1 BY FS_Singleton
    <3> QED BY <3>1, <3>2
  <2> QED BY <2>1, <2>2
<1>3. busy <=> (locking # {} \/ strayed) BY DEF IInv, Typed, OneLock, Locks
<1> QED BY <1>2, <1>3 DEF OneOperation

\* Every reachable state of the hub has the shape TypeOK gives it.
THEOREM TypeCorrect == Spec => []TypeOK
BY InitHolds, NextHolds, Shape, PTL DEF Spec

\* However answers, keys and rebinds interleave, one piece of work at a time
\* holds busy, and only an answer a screen dropped keeps it (tui/root.go:146).
THEOREM OneOperationAtATime == Spec => []OneOperation
BY InitHolds, NextHolds, Lone, PTL DEF Spec

-----------------------------------------------------------------------------
(* What the screens say of the box. *)

\* A change of a box that a probe is about to be asked for: an operation that
\* succeeded, a session that ended.
Pending(S) == \E j \in S : j.at = "done" /\ ((j.kind = "op" /\ j.ok) \/ j.kind = "session")

Fits(f) == f.Box = world[bound].Box /\ NotAfter(NextStep(f), NextStep(Truth(bound)))

\* What an answer of the newest probe says, or will be asked to say, is so.
Tells(j) == j.fresh = 2 =>
  /\ j.kind = "box" /\ j.at = "done" /\ j.ok => j.facts = BoxOnly(world[bound].Box)
  /\ j.kind = "guest" /\ j.at = "asked" => world[bound].Box = "running"
  /\ j.kind = "guest" /\ j.at = "done" => Fits(j.facts)

\* Around a rebind nothing is fresh; what is, was read of the box bound to.
Mine(j) ==
  /\ target # bound \/ Locks(j) => j.fresh = 0
  /\ j.at # "done" => j.ok = FALSE
  /\ j.at = "done" /\ j.fresh # 0 => j.of = bound
  /\ j.kind = "rebind" /\ (j.at = "moved" \/ (j.at = "done" /\ j.ok)) => target = j.what
  /\ j.kind = "rebind" => j.what # bound
  /\ j.kind = "guest" /\ j.fresh = 2 => probed

Truthful ==
  /\ \A j \in jobs : Mine(j)
  /\ probed /\ fresh # 0 => of = bound
  /\ fresh = 2 => probed /\ (verified \/ \E j \in jobs : j.kind = "guest")
  /\ ~Pending(jobs) => (\A j \in jobs : Tells(j)) /\ (fresh = 2 => Fits(facts))

\* k is j, or an older j.
Lower(k, j) ==
  /\ k.kind = j.kind /\ k.what = j.what /\ k.at = j.at /\ k.ok = j.ok /\ k.facts = j.facts /\ k.of = j.of
  /\ j.fresh = 0 => k.fresh = 0
  /\ k.fresh = 2 => j.fresh = 2

LEMMA OlderLower ==
  ASSUME NEW S, AllAsked(S)
  PROVE  /\ \A k \in Older(S) : k.fresh # 2 /\ \E j \in S : Lower(k, j)
         /\ \A j \in S : \E k \in Older(S) : Lower(k, j)
<1>1. ASSUME NEW j \in S
      PROVE  /\ Lower([j EXCEPT !.fresh = IF @ = 2 THEN 1 ELSE @], j)
             /\ [j EXCEPT !.fresh = IF @ = 2 THEN 1 ELSE @].fresh # 2
  <2>1. j \in Records BY DEF AllAsked, Asked
  <2> QED BY <2>1 DEF Records, Lower
<1> QED BY <1>1 DEF Older

LEMMA CutLower ==
  ASSUME NEW S, AllAsked(S)
  PROVE  /\ \A k \in Cut(S) : k.fresh = 0 /\ \E j \in S : Lower(k, j)
         /\ \A j \in S : \E k \in Cut(S) : Lower(k, j)
<1>1. ASSUME NEW j \in S
      PROVE  Lower([j EXCEPT !.fresh = 0], j) /\ [j EXCEPT !.fresh = 0].fresh = 0
  <2>1. j \in Records BY DEF AllAsked, Asked
  <2> QED BY <2>1 DEF Records, Lower
<1> QED BY <1>1 DEF Cut

LEMMA LowerSame == ASSUME NEW j PROVE Lower(j, j)
BY DEF Lower

LEMMA LowerMine ==
  ASSUME NEW j, NEW k, Lower(k, j)
  PROVE  (Mine(j) => Mine(k)) /\ (Tells(j) => Tells(k))
BY DEF Lower, Mine, Tells, Locks

LEMMA LowerPending ==
  ASSUME NEW S, NEW T, \A j \in S : \E k \in T : Lower(k, j), Pending(S)
  PROVE  Pending(T)
BY DEF Lower, Pending

LEMMA JobFields ==
  ASSUME NEW kind, NEW what
  PROVE  /\ Job(kind, what).kind = kind /\ Job(kind, what).what = what /\ Job(kind, what).at = "asked"
         /\ Job(kind, what).ok = FALSE
         /\ target # bound \/ kind \in Locking => Job(kind, what).fresh = 0
BY DEF Job

\* A piece of work just asked for.
LEMMA JobMine ==
  ASSUME NEW kind, NEW what, kind # "guest", kind = "rebind" => what # bound
  PROVE  Mine(Job(kind, what)) /\ Tells(Job(kind, what))
<1> DEFINE n == Job(kind, what)
<1>1. n.kind = kind /\ n.what = what /\ n.at = "asked" /\ n.ok = FALSE /\ (target # bound \/ kind \in Locking => n.fresh = 0)
  BY DEF Job
<1> HIDE DEF n
<1>2. Mine(n) /\ Tells(n) BY <1>1 DEF Mine, Tells, Locks
<1> QED BY <1>2 DEF n

\* Where neither a box nor the binding changes, old work and new work that is
\* as it should be leave the screens as true as they were.
LEMMA Carry ==
  ASSUME Truthful, UNCHANGED <<world, registry, target, bound, facts, probed>>,
         \A k \in jobs' : (Mine(k) /\ (~Pending(jobs) => Tells(k))) \/ \E j \in jobs : Lower(k, j),
         ~Pending(jobs') => ~Pending(jobs),
         probed' /\ fresh' # 0 => of' = bound,
         fresh' = 2 => probed' /\ (verified' \/ \E j \in jobs' : j.kind = "guest"),
         fresh' = 2 => fresh = 2
  PROVE  Truthful'
<1>1. \A k \in jobs' : Mine(k) /\ (~Pending(jobs) => Tells(k)) BY LowerMine DEF Truthful
<1>2. \A k \in jobs' : Mine(k)' BY <1>1 DEF Mine
<1>3. ~Pending(jobs) => \A k \in jobs' : Tells(k)' BY <1>1 DEF Tells, Fits, Truth
<1>4. ~Pending(jobs) => (fresh' = 2 => Fits(facts)') BY DEF Truthful, Fits, Truth
<1>5. Pending(jobs)' <=> Pending(jobs') BY DEF Pending
<1> QED BY <1>2, <1>3, <1>4, <1>5 DEF Truthful

\* While a change is still to be probed for, or all has just been made older,
\* nothing is said of the box.
LEMMA Blur ==
  ASSUME \A k \in jobs' : Mine(k)', probed' /\ fresh' # 0 => of' = bound',
         fresh' = 2 => probed' /\ (verified' \/ \E k \in jobs' : k.kind = "guest"),
         \/ Pending(jobs')
         \/ fresh' # 2 /\ \A k \in jobs' : k.fresh = 2 => k.kind = "box" /\ k.at = "asked"
  PROVE  Truthful'
<1>1. Pending(jobs)' <=> Pending(jobs') BY DEF Pending
<1>2. ASSUME NEW k, k.fresh = 2 => k.kind = "box" /\ k.at = "asked" PROVE Tells(k)'
  BY <1>2 DEF Tells
<1> QED BY <1>1, <1>2 DEF Truthful

\* An answer to j, with what it says.
LEMMA AnswerFields ==
  ASSUME NEW j, Asked(j), NEW ok \in BOOLEAN, NEW b, NEW f
  PROVE  /\ LET k == [j EXCEPT !.at = "done", !.ok = ok] IN
            /\ k.kind = j.kind /\ k.what = j.what /\ k.at = "done" /\ k.ok = ok /\ k.fresh = j.fresh /\ k.of = j.of
         /\ LET k == [j EXCEPT !.at = "done"] IN
            /\ k.kind = j.kind /\ k.what = j.what /\ k.at = "done" /\ k.ok = j.ok /\ k.fresh = j.fresh /\ k.of = j.of
         /\ LET k == [j EXCEPT !.at = "done", !.ok = ok, !.of = b, !.facts = f] IN
            /\ k.kind = j.kind /\ k.what = j.what /\ k.at = "done" /\ k.ok = ok /\ k.fresh = j.fresh
            /\ k.of = b /\ k.facts = f
BY DEF Asked, Records

LEMMA LeastIs == ASSUME NEW n \in Freshness PROVE Least(n, 1) # 2 /\ (Least(n, 1) # 0 => n # 0)
BY DEF Least, Freshness

LEMMA OperateTruth ==
  ASSUME IInv, Truthful, NEW j \in jobs, j.at = "asked", j.kind = "op", Operate(j),
         UNCHANGED <<target, bound, probed, verified, facts, of>>
  PROVE  Truthful'
<1> DEFINE left == jobs \ {j}
           k == [j EXCEPT !.at = "done", !.ok = TRUE]
           n == [j EXCEPT !.at = "done"]
<1>1. Asked(j) /\ AllAsked(left) BY AskedWith DEF IInv, AllAsked
<1>2. Locks(j) BY DEF Locks, Locking, Kinds
<1>3. j.fresh = 0 /\ j.ok = FALSE BY <1>2 DEF Truthful, Mine
<1>4. k.kind = "op" /\ k.at = "done" /\ k.ok = TRUE /\ k.fresh = 0 BY <1>1, <1>3, AnswerFields
<1>5. n.kind = "op" /\ n.at = "done" /\ n.ok = FALSE /\ n.fresh = 0 BY <1>1, <1>3, AnswerFields
<1>6. \A i \in left : Mine(i) BY DEF Truthful
<1>7. fresh \in Freshness BY DEF IInv, Typed
<1> HIDE DEF k, n
<1>8. Mine(k) /\ Mine(n) /\ Tells(n) BY <1>4, <1>5 DEF Mine, Tells
<1>9. \A i : Mine(i)' <=> Mine(i) BY DEF Mine
<1>10. CASE jobs' = left \cup {k} /\ UNCHANGED fresh
  <2>1. Pending(jobs') BY <1>4, <1>10 DEF Pending
  <2>2. \A i \in jobs' : Mine(i)' BY <1>6, <1>8, <1>9, <1>10
  <2>3. fresh' = 2 => probed' /\ (verified' \/ \E i \in jobs' : i.kind = "guest") BY <1>10 DEF Truthful
  <2> QED BY <1>10, <2>1, <2>2, <2>3, Blur DEF Truthful
<1>11. CASE jobs' = left \cup {n} /\ UNCHANGED <<world, registry, fresh>>
  <2>1. ~Pending(jobs') => ~Pending(jobs) BY <1>11 DEF Pending
  <2>2. fresh' = 2 => probed' /\ (verified' \/ \E i \in jobs' : i.kind = "guest") BY <1>11 DEF Truthful
  <2>3. \A i \in jobs' : (Mine(i) /\ (~Pending(jobs) => Tells(i))) \/ \E h \in jobs : Lower(i, h)
    BY <1>8, <1>11, LowerSame
  <2> QED BY <1>11, <2>1, <2>2, <2>3, Carry DEF Truthful
<1>12. CASE jobs' = Older(left) \cup {n} /\ fresh' = Least(fresh, 1)
  <2>1. \A i \in Older(left) : i.fresh # 2 /\ \E h \in left : Lower(i, h) BY <1>1, OlderLower
  <2>2. \A i \in jobs' : Mine(i)' BY <1>6, <1>8, <1>9, <1>12, <2>1, LowerMine
  <2>3. fresh' # 2 /\ (fresh' # 0 => fresh # 0) BY <1>7, <1>12, LeastIs
  <2>4. ASSUME NEW i \in jobs' PROVE i.fresh # 2
    <3>1. CASE i = n BY <1>5, <3>1
    <3>2. CASE i \in Older(left) BY <2>1, <3>2
    <3> QED BY <1>12, <2>4, <3>1, <3>2
  <2> QED BY <2>2, <2>3, <2>4, Blur DEF Truthful
<1> QED BY <1>10, <1>11, <1>12 DEF Operate, k, n

LEMMA SessionTruth ==
  ASSUME IInv, Truthful, NEW j \in jobs, j.kind = "session", Session(j),
         UNCHANGED <<target, bound, probed, verified, facts, of>>
  PROVE  Truthful'
<1>1. PICK ok \in BOOLEAN : jobs' = (jobs \ {j}) \cup {[j EXCEPT !.at = "done", !.ok = ok]} BY DEF Session
<1> DEFINE k == [j EXCEPT !.at = "done", !.ok = ok]
<1>2. j.fresh = 0
  <2>1. Locks(j) BY DEF Locks, Locking, Kinds
  <2> QED BY <2>1 DEF Truthful, Mine
<1>3. k.kind = "session" /\ k.at = "done" /\ k.fresh = 0 BY <1>2, AnswerFields DEF IInv, AllAsked
<1>4. jobs' = (jobs \ {j}) \cup {k} BY <1>1
<1> HIDE DEF k
<1>5. Pending(jobs') BY <1>3, <1>4 DEF Pending
<1>6. Mine(k) BY <1>3 DEF Mine
<1>7. \A i \in jobs' : Mine(i)'
  <2>1. \A i : Mine(i)' <=> Mine(i) BY DEF Mine
  <2> QED BY <1>4, <1>6, <2>1 DEF Truthful
<1>8. fresh' = fresh BY DEF Session
<1>9. fresh' = 2 => probed' /\ (verified' \/ \E i \in jobs' : i.kind = "guest") BY <1>4, <1>8 DEF Truthful
<1> QED BY <1>5, <1>7, <1>8, <1>9, Blur DEF Truthful

LEMMA BoxAnswersTruth ==
  ASSUME IInv, Truthful, NEW j \in jobs, BoxAnswers(j),
         UNCHANGED <<target, bound, probed, verified, facts, of>>
  PROVE  Truthful'
<1>1. PICK ok \in BOOLEAN :
        jobs' = (jobs \ {j}) \cup
          {[j EXCEPT !.at = "done", !.ok = ok, !.of = target,
                     !.facts = IF ok THEN BoxOnly(world[target].Box) ELSE NoFacts]}
  BY DEF BoxAnswers
<1> DEFINE f == IF ok THEN BoxOnly(world[target].Box) ELSE NoFacts
           k == [j EXCEPT !.at = "done", !.ok = ok, !.of = target, !.facts = f]
<1>2. k.kind = "box" /\ k.at = "done" /\ k.ok = ok /\ k.fresh = j.fresh /\ k.of = target /\ k.facts = f
  <2>1. Asked(j) /\ j.kind = "box" BY DEF IInv, AllAsked, BoxAnswers
  <2> HIDE DEF f
  <2> QED BY <2>1, AnswerFields
<1>3. jobs' = (jobs \ {j}) \cup {k} /\ UNCHANGED <<world, registry, fresh>> BY <1>1 DEF BoxAnswers
<1>4. ok => f = BoxOnly(world[target].Box) OBVIOUS
<1> HIDE DEF k, f
<1>5. j.fresh # 0 => target = bound BY DEF Truthful, Mine
<1>6. Mine(k) /\ Tells(k)
  <2>1. Mine(k) BY <1>2, <1>5 DEF Mine, Locks, Locking
  <2>2. Tells(k) BY <1>2, <1>4, <1>5 DEF Tells
  <2> QED BY <2>1, <2>2
<1>7. ~Pending(jobs') => ~Pending(jobs)
  <2>1. j.kind = "box" BY DEF BoxAnswers
  <2> QED BY <1>3, <2>1 DEF Pending
<1>8. fresh' = 2 => probed' /\ (verified' \/ \E i \in jobs' : i.kind = "guest")
  BY <1>3 DEF Truthful, BoxAnswers
<1>9. \A i \in jobs' : (Mine(i) /\ (~Pending(jobs) => Tells(i))) \/ \E h \in jobs : Lower(i, h)
  BY <1>3, <1>6, LowerSame
<1> QED BY <1>3, <1>7, <1>8, <1>9, Carry DEF Truthful

LEMMA ResolvedTruth ==
  ASSUME IInv, Truthful, NEW j \in jobs, Resolved(j),
         UNCHANGED <<target, bound, probed, verified, facts, of>>
  PROVE  Truthful'
<1>1. PICK ok \in BOOLEAN : jobs' = (jobs \ {j}) \cup {[j EXCEPT !.at = "done", !.ok = ok]} BY DEF Resolved
<1> DEFINE k == [j EXCEPT !.at = "done", !.ok = ok]
<1>2. k.kind = j.kind /\ k.at = "done" /\ k.fresh = j.fresh BY AnswerFields DEF IInv, AllAsked
<1>3. jobs' = (jobs \ {j}) \cup {k} /\ UNCHANGED <<world, registry, fresh>> BY <1>1 DEF Resolved
<1> HIDE DEF k
<1>4. j.kind \in {"spec", "preview", "install"} BY DEF Resolved
<1>5. j.fresh = 0
  <2>1. Locks(j) BY <1>4 DEF Locks, Locking, Kinds
  <2> QED BY <2>1 DEF Truthful, Mine
<1>6. Mine(k) /\ Tells(k) BY <1>2, <1>4, <1>5 DEF Mine, Tells
<1>7. ~Pending(jobs') => ~Pending(jobs) BY <1>3, <1>4 DEF Pending
<1>8. fresh' = 2 => probed' /\ (verified' \/ \E i \in jobs' : i.kind = "guest") BY <1>3, <1>4 DEF Truthful
<1>9. \A i \in jobs' : (Mine(i) /\ (~Pending(jobs) => Tells(i))) \/ \E h \in jobs : Lower(i, h)
  BY <1>3, <1>6, LowerSame
<1> QED BY <1>3, <1>7, <1>8, <1>9, Carry DEF Truthful

\* The setup steps, as the wizard counts them (wizard/graph.go:57): what is not
\* known yet puts the next step earlier, never later.
LEMMA LessIsEarlier ==
  ASSUME NEW t \in Facts, NEW f \in Facts, f.Box = t.Box,
         t.Box \notin {"notfound", "broken", "stopped"} =>
           /\ f.Bootstrapped => t.Bootstrapped
           /\ f.Bootstrapped => f.Credential = t.Credential
           /\ f.BrainReady => t.BrainReady
           /\ f.ProjectCount # 0 => t.ProjectCount # 0
  PROVE  NotAfter(NextStep(f), NextStep(t))
<1>1. DOMAIN Steps = 1..7 BY DEF Steps
<1>2. /\ Steps[3] = "bootstrap" /\ Steps[4] = "backend-login" /\ Steps[5] = "brain-init"
      /\ Steps[6] = "project-add" /\ Steps[7] = "done"
  BY DEF Steps
<1>3. /\ NotAfter("bootstrap", "backend-login") /\ NotAfter("bootstrap", "brain-init")
      /\ NotAfter("bootstrap", "project-add") /\ NotAfter("bootstrap", "done")
  BY <1>1, <1>2 DEF NotAfter
<1>4. /\ NotAfter("brain-init", "project-add") /\ NotAfter("brain-init", "done")
      /\ NotAfter("project-add", "done")
  BY <1>1, <1>2 DEF NotAfter
<1>5. \A s : NotAfter(s, s) BY DEF NotAfter
<1>6. CASE t.Box \in {"notfound", "broken", "stopped"}
  <2>1. NextStep(f) = NextStep(t) BY <1>6 DEF NextStep
  <2> QED BY <1>5, <2>1
<1>7. CASE t.Box \notin {"notfound", "broken", "stopped"}
  <2> DEFINE Rest(g) == IF ~g.Bootstrapped THEN "bootstrap"
                        ELSE IF g.Credential = "absent" THEN "backend-login"
                        ELSE IF ~g.BrainReady THEN "brain-init"
                        ELSE IF g.ProjectCount = 0 THEN "project-add" ELSE "done"
  <2>1. NextStep(f) = Rest(f) /\ NextStep(t) = Rest(t) BY <1>7 DEF NextStep
  <2>2. NotAfter(Rest(f), Rest(t)) BY <1>3, <1>4, <1>5, <1>7
  <2> QED BY <2>1, <2>2
<1> QED BY <1>6, <1>7

LEMMA GuestAnswersTruth ==
  ASSUME IInv, Truthful, NEW j \in jobs, j.at = "asked", GuestAnswers(j),
         UNCHANGED <<target, bound, probed, verified, facts, of>>
  PROVE  Truthful'
<1>1. PICK v, rest \in BOOLEAN :
        jobs' = (jobs \ {j}) \cup
          {[j EXCEPT !.at = "done", !.ok = TRUE, !.of = target,
                     !.facts = [Heard(Truth(target), v /\ world[target].Box = "running", rest)
                                 EXCEPT !.Box = j.what]]}
  BY DEF GuestAnswers
<1> DEFINE t == Truth(target)
           p == v /\ world[target].Box = "running"
           f == [Heard(t, p, rest) EXCEPT !.Box = j.what]
           k == [j EXCEPT !.at = "done", !.ok = TRUE, !.of = target, !.facts = f]
<1>2. Asked(j) /\ j.kind = "guest" /\ j.what = "running" BY DEF IInv, AllAsked, GuestAnswers, Asked
<1>3. k.kind = "guest" /\ k.at = "done" /\ k.fresh = j.fresh /\ k.of = target /\ k.facts = f
  <2> HIDE DEF f
  <2> QED BY <1>2, AnswerFields
<1>4. jobs' = (jobs \ {j}) \cup {k} /\ UNCHANGED <<world, registry, fresh>> BY <1>1 DEF GuestAnswers
<1>5. t \in Facts BY DEF Truth, IInv, Typed, Facts
<1>6. /\ f.Box = "running" /\ f.Bootstrapped = (p /\ t.Bootstrapped)
      /\ f.Credential = IF p /\ t.Bootstrapped THEN t.Credential ELSE "unknown"
      /\ f.BrainReady = (p /\ t.Bootstrapped /\ rest /\ t.BrainReady)
      /\ f.ProjectCount = IF rest THEN t.ProjectCount ELSE 0
  BY <1>2 DEF Heard
<1>7. DOMAIN f = {"Box", "Bootstrapped", "Credential", "BrainReady", "ProjectCount"}
      /\ f = [Box |-> "running", Bootstrapped |-> p /\ t.Bootstrapped,
              Credential |-> IF p /\ t.Bootstrapped THEN t.Credential ELSE "unknown",
              BrainReady |-> p /\ t.Bootstrapped /\ rest /\ t.BrainReady,
              ProjectCount |-> IF rest THEN t.ProjectCount ELSE 0]
  BY <1>2 DEF Heard
<1> HIDE DEF t, p, k
<1>8. f \in Facts
  <2>1. /\ t.Bootstrapped \in BOOLEAN /\ t.BrainReady \in BOOLEAN
        /\ t.Credential \in Credentials \cup {""} /\ t.ProjectCount \in 0..1
    BY <1>5 DEF Facts
  <2>2. "unknown" \in Credentials /\ "running" \in BoxStates BY DEF Credentials, BoxStates
  <2>3. (IF p /\ t.Bootstrapped THEN t.Credential ELSE "unknown") \in Credentials \cup {""} BY <2>1, <2>2
  <2>4. 0 \in 0..1 OBVIOUS
  <2>5. (IF rest THEN t.ProjectCount ELSE 0) \in 0..1 BY <2>1, <2>4, Zenon
  <2>6. (p /\ t.Bootstrapped) \in BOOLEAN /\ (p /\ t.Bootstrapped /\ rest /\ t.BrainReady) \in BOOLEAN OBVIOUS
  <2> HIDE DEF f
  <2> QED BY <1>7, <2>2, <2>3, <2>5, <2>6 DEF Facts
<1> HIDE DEF f
<1>9. t.Box = "running" => NotAfter(NextStep(f), NextStep(t))
  <2>1. f.Bootstrapped => t.Bootstrapped /\ f.Credential = t.Credential BY <1>6
  <2>2. f.BrainReady => t.BrainReady BY <1>6
  <2>3. f.ProjectCount # 0 => t.ProjectCount # 0 BY <1>6
  <2> QED BY <1>5, <1>6, <1>8, <2>1, <2>2, <2>3, LessIsEarlier
<1>10. t.Box = world[target].Box BY DEF t, Truth, IInv, Typed, Facts
<1>11. j.fresh # 0 => target = bound BY DEF Truthful, Mine
<1>12. Mine(k)
  <2>1. j.fresh = 2 => probed BY <1>2 DEF Truthful, Mine
  <2> QED BY <1>3, <1>11, <2>1 DEF Mine, Locks, Locking
<1>13. ~Pending(jobs) => Tells(k)
  <2> SUFFICES ASSUME ~Pending(jobs), k.fresh = 2 PROVE Fits(f) BY <1>3 DEF Tells
  <2>1. target = bound /\ world[bound].Box = "running"
    BY <1>2, <1>3, <1>11 DEF Truthful, Tells
  <2> QED BY <1>6, <1>9, <1>10, <2>1 DEF Fits, t
<1>14. ~Pending(jobs') => ~Pending(jobs) BY <1>2, <1>4 DEF Pending
<1>15. fresh' = 2 => probed' /\ (verified' \/ \E i \in jobs' : i.kind = "guest")
  BY <1>3, <1>4 DEF Truthful
<1>16. \A i \in jobs' : (Mine(i) /\ (~Pending(jobs) => Tells(i))) \/ \E h \in jobs : Lower(i, h)
  BY <1>4, <1>12, <1>13, LowerSame
<1> QED BY <1>4, <1>14, <1>15, <1>16, Carry DEF Truthful

LEMMA RunTruth ==
  ASSUME IInv, Truthful, NEW j \in jobs, Run(j)
  PROVE  Truthful'
<1>1. UNCHANGED <<target, bound, probed, verified, facts, of>> /\ j.at = "asked" BY DEF Run, screenVars
<1> QED BY <1>1, OperateTruth, SessionTruth, BoxAnswersTruth, GuestAnswersTruth, ResolvedTruth DEF Run

LEMMA ResolveTruth ==
  ASSUME IInv, Truthful, NEW j \in jobs, Resolve(j)
  PROVE  Truthful'
<1> DEFINE left == jobs \ {j}
<1>1. UNCHANGED <<world, registry, bound, probed, verified, facts, of, fresh>> BY DEF Resolve, screenVars
<1>2. Asked(j) /\ AllAsked(left) /\ j.kind = "rebind" BY AskedWith DEF IInv, AllAsked, Resolve
<1>3. Locks(j) BY <1>2 DEF Locks, Locking, Kinds
<1>4. j.fresh = 0 BY <1>3 DEF Truthful, Mine
<1>5. \A i \in left : ~Locks(i) BY <1>3 DEF IInv, OneLock
<1>6. \A i \in left : i.kind # "rebind" BY <1>5 DEF Locks, Locking, Kinds
<1>7. CASE \E at \in {"moved", "done"} :
             /\ jobs' = Cut(left) \cup {[j EXCEPT !.at = at]}
             /\ IF at = "moved" THEN target' = j.what ELSE target' = bound
             /\ j.at # "done"
  <2>1. PICK at \in {"moved", "done"} :
             /\ jobs' = Cut(left) \cup {[j EXCEPT !.at = at]}
             /\ IF at = "moved" THEN target' = j.what ELSE target' = bound
             /\ j.at # "done"
    BY <1>7
  <2> DEFINE k == [j EXCEPT !.at = at]
  <2>2. k.kind = "rebind" /\ k.at = at /\ k.what = j.what /\ k.ok = FALSE /\ k.fresh = 0
    <3>1. j.ok = FALSE BY <2>1 DEF Truthful, Mine
    <3> QED BY <1>2, <1>4, <3>1 DEF Asked, Records
  <2>3. jobs' = Cut(left) \cup {k} BY <2>1
  <2> HIDE DEF k, left
  <2>0. j.what # bound BY <1>2 DEF Truthful, Mine
  <2>4. Mine(k)' /\ Tells(k)' BY <1>1, <2>0, <2>1, <2>2 DEF Mine, Tells
  <2>5. /\ \A i \in Cut(left) : i.fresh = 0 /\ \E h \in left : Lower(i, h)
        /\ \A h \in left : \E i \in Cut(left) : Lower(i, h)
    BY <1>2, CutLower
  <2>6. ASSUME NEW i \in Cut(left) PROVE Mine(i)' /\ Tells(i)'
    <3>1. PICK h \in left : Lower(i, h) BY <2>5
    <3>2. i.kind # "rebind" BY <1>6, <3>1 DEF Lower
    <3>3. Mine(h) BY DEF left, Truthful
    <3> QED BY <2>5, <3>1, <3>2, <3>3 DEF Mine, Tells, Lower
  <2>7. \A i \in jobs' : Mine(i)' /\ Tells(i)' BY <2>3, <2>4, <2>6
  <2>8. fresh = 2 => probed /\ (verified \/ \E i \in jobs' : i.kind = "guest")
    <3>1. ASSUME NEW h \in jobs, h.kind = "guest" PROVE \E i \in jobs' : i.kind = "guest"
      <4>1. h \in left BY <1>2, <3>1 DEF left
      <4> QED BY <2>3, <2>5, <3>1, <4>1 DEF Lower
    <3> QED BY <3>1 DEF Truthful
  <2>9. ~Pending(jobs)' => ~Pending(jobs)
    <3>1. Pending(jobs) => Pending(left) BY <1>2 DEF Pending, left
    <3>2. Pending(left) => Pending(Cut(left)) BY <2>5, LowerPending
    <3>3. Pending(Cut(left)) => Pending(jobs') BY <2>3 DEF Pending
    <3>4. Pending(jobs') <=> Pending(jobs)' BY DEF Pending
    <3> QED BY <3>1, <3>2, <3>3, <3>4
  <2>10. Fits(facts)' <=> Fits(facts) BY <1>1 DEF Fits, Truth
  <2> QED BY <1>1, <2>7, <2>8, <2>9, <2>10 DEF Truthful
<1>8. CASE j.at = "moved" /\ target' = target /\ jobs' = left \cup {[j EXCEPT !.at = "done", !.ok = TRUE]}
  <2> DEFINE k == [j EXCEPT !.at = "done", !.ok = TRUE]
  <2>1. k.kind = "rebind" /\ k.at = "done" /\ k.what = j.what /\ k.fresh = 0 BY <1>2, <1>4, AnswerFields
  <2>2. jobs' = left \cup {k} BY <1>8
  <2> HIDE DEF k
  <2>3. target = j.what BY <1>2, <1>8 DEF Truthful, Mine
  <2>0. j.what # bound BY <1>2 DEF Truthful, Mine
  <2>4. Mine(k) /\ Tells(k) BY <2>0, <2>1, <2>3 DEF Mine, Tells
  <2>5. ~Pending(jobs') => ~Pending(jobs) BY <1>2, <2>2 DEF Pending
  <2>6. fresh = 2 => probed /\ (verified \/ \E i \in jobs' : i.kind = "guest")
    BY <1>2, <2>2 DEF Truthful
  <2>7. \A i \in jobs' : (Mine(i) /\ (~Pending(jobs) => Tells(i))) \/ \E h \in jobs : Lower(i, h)
    BY <2>2, <2>4, LowerSame
  <2> QED BY <1>1, <1>8, <2>5, <2>6, <2>7, Carry DEF Truthful
<1> QED BY <1>7, <1>8 DEF Resolve

LEMMA ProbeTruth ==
  ASSUME Typed, NEW S, AllAsked(S), \A h \in S : Mine(h), Probe(S), probed /\ fresh # 0 => of = bound,
         UNCHANGED <<target, bound, probed, of>>
  PROVE  Truthful'
<1> DEFINE n == Job("box", "")
<1>1. n.kind = "box" /\ n.at = "asked" BY DEF Job
<1>2. Mine(n) BY JobMine
<1>3. jobs' = Older(S) \cup {n} /\ fresh' = Least(fresh, 1) BY DEF Probe
<1> HIDE DEF n
<1>4. \A k \in Older(S) : k.fresh # 2 /\ \E h \in S : Lower(k, h) BY OlderLower
<1>5. \A k \in Older(S) : Mine(k) BY <1>4, LowerMine
<1>6. \A k \in jobs' : Mine(k)'
  <2>1. \A k : Mine(k)' <=> Mine(k) BY DEF Mine
  <2> QED BY <1>2, <1>3, <1>5, <2>1
<1>7. ASSUME NEW k \in jobs', k.fresh = 2 PROVE k.kind = "box" /\ k.at = "asked"
  <2>1. k \notin Older(S) BY <1>4, <1>7
  <2> QED BY <1>1, <1>3, <1>7, <2>1
<1>8. fresh' # 2 /\ (fresh' # 0 => fresh # 0) BY <1>3, LeastIs DEF Typed
<1> QED BY <1>6, <1>7, <1>8, Blur

\* An answer that says nothing of the box is taken out.
LEMMA LeftTruth ==
  ASSUME Truthful, NEW j \in jobs, jobs' = jobs \ {j}, j.kind # "guest",
         ~((j.kind = "op" /\ j.ok) \/ j.kind = "session"),
         UNCHANGED <<world, registry, target, bound, facts, of, fresh, probed, verified>>
  PROVE  Truthful'
<1>1. ~Pending(jobs') => ~Pending(jobs) BY DEF Pending
<1>2. \A k \in jobs' : (Mine(k) /\ (~Pending(jobs) => Tells(k))) \/ \E h \in jobs : Lower(k, h)
  BY LowerSame
<1>3. fresh' = 2 => probed' /\ (verified' \/ \E k \in jobs' : k.kind = "guest") BY DEF Truthful
<1> QED BY <1>1, <1>2, <1>3, Carry DEF Truthful

\* A piece of work that holds the lock says nothing of the box.
LEMMA HolderTruth ==
  ASSUME Truthful, NEW S, \A h \in S : h \in jobs, NEW kind \in Locking, NEW what,
         kind = "rebind" => what # bound,
         jobs' = S \cup {Job(kind, what)}, ~Pending(S) => ~Pending(jobs),
         (\E h \in jobs : h.kind = "guest") => \E h \in S : h.kind = "guest",
         UNCHANGED <<world, registry, target, bound, facts, of, fresh, probed, verified>>
  PROVE  Truthful'
<1> DEFINE n == Job(kind, what)
<1>1. Mine(n) /\ Tells(n)
  <2>1. kind # "guest" BY DEF Locking
  <2> QED BY <2>1, JobMine
<1>2. jobs' = S \cup {n} OBVIOUS
<1> HIDE DEF n
<1>3. ~Pending(jobs') => ~Pending(jobs) BY <1>2 DEF Pending
<1>4. \A k \in jobs' : (Mine(k) /\ (~Pending(jobs) => Tells(k))) \/ \E h \in jobs : Lower(k, h)
  BY <1>1, <1>2, LowerSame
<1>5. fresh' = 2 => probed' /\ (verified' \/ \E k \in jobs' : k.kind = "guest") BY <1>2 DEF Truthful
<1> QED BY <1>3, <1>4, <1>5, Carry DEF Truthful

LEMMA BoxMsgTruth ==
  ASSUME IInv, Truthful, NEW j \in jobs, j.at = "done", BoxMsg(j), UNCHANGED <<world, registry>>
  PROVE  Truthful'
<1>1. j.kind = "box" /\ UNCHANGED <<target, bound>> BY DEF BoxMsg
<1>2. CASE ~j.ok BY <1>1, <1>2, LeftTruth DEF BoxMsg
<1>3. CASE j.ok
  <2> DEFINE n == [Job("guest", "running") EXCEPT !.fresh = j.fresh]
  <2>1. /\ probed' = TRUE /\ facts' = j.facts /\ of' = j.of /\ fresh' = j.fresh
        /\ verified' = (j.facts.Box # "running")
        /\ jobs' = (jobs \ {j}) \cup IF verified' THEN {} ELSE {n}
    BY <1>3 DEF BoxMsg
  <2>2. n.kind = "guest" /\ n.at = "asked" /\ n.fresh = j.fresh /\ n.ok = FALSE BY DEF Job
  <2> HIDE DEF n
  <2>3. Mine(j) BY DEF Truthful
  <2>4. ASSUME NEW k, k = n PROVE Mine(k)'
    <3>1. target # bound => j.fresh = 0 BY <2>3 DEF Mine
    <3> QED BY <1>1, <2>1, <2>2, <2>4, <3>1 DEF Mine, Locks, Locking
  <2>5. \A k \in jobs' : k \in jobs \/ (k = n /\ j.facts.Box = "running") BY <2>1
  <2>6. \A k \in jobs' : Mine(k)'
    <3>1. \A k : Mine(k) => Mine(k)' BY <1>1, <2>1 DEF Mine
    <3> QED BY <2>4, <2>5, <3>1 DEF Truthful
  <2>7. fresh' # 0 => of' = bound BY <2>1, <2>3 DEF Mine
  <2>8. fresh' = 2 => verified' \/ \E k \in jobs' : k.kind = "guest" BY <2>1, <2>2
  <2>9. ~Pending(jobs') => ~Pending(jobs) BY <1>1, <2>1 DEF Pending
  <2>10. ASSUME ~Pending(jobs), j.fresh = 2
         PROVE  world[bound].Box = j.facts.Box /\ Fits(j.facts)
    <3>1. j.facts = BoxOnly(world[bound].Box) BY <1>1, <1>3, <2>10 DEF Truthful, Tells
    <3> DEFINE b == world[bound].Box
               f == BoxOnly(b)
               t == Truth(bound)
    <3>2. f.Box = b /\ f.Bootstrapped = FALSE /\ f.BrainReady = FALSE /\ f.ProjectCount = 0
      BY DEF BoxOnly, NoFacts
    <3>3. t \in Facts /\ t.Box = b BY DEF Truth, IInv, Typed, Facts
    <3>4. f \in Facts
      <4>1. j.facts \in Facts BY DEF IInv, AllAsked, Asked, Records
      <4> QED BY <3>1, <4>1
    <3> HIDE DEF f, t, b
    <3>5. NotAfter(NextStep(f), NextStep(t)) BY <3>2, <3>3, <3>4, LessIsEarlier
    <3> QED BY <3>1, <3>2, <3>5 DEF Fits, f, t, b
  <2>11. ASSUME ~Pending(jobs) PROVE (\A k \in jobs' : Tells(k)') /\ (fresh' = 2 => Fits(facts)')
    <3>1. \A k : Tells(k)' <=> Tells(k) BY <1>1 DEF Tells, Fits, Truth
    <3>2. j.facts.Box = "running" => Tells(n) BY <2>2, <2>10, <2>11 DEF Tells
    <3>3. \A k \in jobs : Tells(k) BY <2>11 DEF Truthful
    <3>4. \A k \in jobs' : Tells(k)' BY <2>5, <3>1, <3>2, <3>3
    <3>5. Fits(facts)' <=> Fits(j.facts) BY <1>1, <2>1 DEF Fits, Truth
    <3> QED BY <2>1, <2>10, <2>11, <3>4, <3>5
  <2>12. Pending(jobs)' <=> Pending(jobs') BY DEF Pending
  <2> QED BY <1>1, <2>1, <2>6, <2>7, <2>8, <2>9, <2>11, <2>12 DEF Truthful
<1> QED BY <1>2, <1>3

LEMMA FactsMsgTruth ==
  ASSUME IInv, Truthful, NEW j \in jobs, j.at = "done", FactsMsg(j), UNCHANGED <<world, registry>>
  PROVE  Truthful'
<1>1. /\ j.kind = "guest" /\ verified' = TRUE /\ facts' = j.facts /\ of' = j.of /\ fresh' = j.fresh
      /\ jobs' = jobs \ {j} /\ UNCHANGED <<target, bound, probed>>
  BY DEF FactsMsg
<1>2. \A k : (Mine(k)' <=> Mine(k)) /\ (Tells(k)' <=> Tells(k)) BY <1>1 DEF Mine, Tells, Fits, Truth
<1>3. Mine(j) BY DEF Truthful
<1>4. fresh' # 0 => of' = bound BY <1>1, <1>3 DEF Mine
<1>5. Pending(jobs)' <=> Pending(jobs) BY <1>1 DEF Pending
<1>6. ~Pending(jobs) /\ j.fresh = 2 => Fits(j.facts) BY <1>1 DEF Truthful, Tells
<1>7. Fits(facts)' <=> Fits(j.facts) BY <1>1 DEF Fits, Truth
<1>8. j.fresh = 2 => probed BY <1>1, <1>3 DEF Mine
<1> QED BY <1>1, <1>2, <1>4, <1>5, <1>6, <1>7, <1>8 DEF Truthful

LEMMA OpMsgTruth ==
  ASSUME IInv, Truthful, NEW j \in jobs, j.at = "done", OpMsg(j), UNCHANGED <<world, registry, target>>
  PROVE  Truthful'
<1>1. j.kind = "op" /\ UNCHANGED <<bound, facts, of, probed, verified>> BY DEF OpMsg
<1>2. CASE j.ok
  <2>1. Probe(jobs \ {j}) BY <1>2 DEF OpMsg
  <2>2. AllAsked(jobs \ {j}) BY AskedWith DEF IInv
  <2> QED BY <1>1, <2>1, <2>2, ProbeTruth DEF Truthful, IInv
<1>3. CASE ~j.ok
  <2>1. jobs' = jobs \ {j} /\ UNCHANGED fresh BY <1>3 DEF OpMsg
  <2> QED BY <1>1, <1>3, <2>1, LeftTruth
<1> QED BY <1>2, <1>3

LEMMA RebindMsgTruth ==
  ASSUME IInv, Truthful, NEW j \in jobs, j.at = "done", RebindMsg(j), UNCHANGED <<world, registry, target>>
  PROVE  Truthful'
<1>1. j.kind = "rebind" BY DEF RebindMsg
<1>2. CASE ~j.ok
  <2>1. jobs' = jobs \ {j} /\ UNCHANGED <<bound, fresh, facts, of, probed, verified>>
    BY <1>2 DEF RebindMsg
  <2> QED BY <1>1, <2>1, LeftTruth
<1>3. CASE j.ok
  <2> DEFINE n == [Job("box", "") EXCEPT !.of = j.what, !.fresh = 2]
  <2>1. bound' = j.what /\ of' = j.what /\ fresh' = 1 /\ probed' = FALSE /\ jobs' = (jobs \ {j}) \cup {n}
    BY <1>3 DEF RebindMsg
  <2>2. n.kind = "box" /\ n.at = "asked" /\ n.ok = FALSE BY DEF Job
  <2> HIDE DEF n
  <2>3. target = j.what /\ target # bound /\ Locks(j)
    <3>1. Mine(j) BY DEF Truthful
    <3> QED BY <1>1, <1>3, <3>1 DEF Mine, Locks, Locking, Kinds
  <2>4. ASSUME NEW k, k = n PROVE Mine(k)'
    BY <2>1, <2>2, <2>3, <2>4 DEF Mine, Locks, Locking
  <2>5. ASSUME NEW k \in jobs \ {j} PROVE k.fresh = 0 /\ Mine(k)'
    <3>1. Mine(k) /\ ~Locks(k) BY <2>3 DEF Truthful, IInv, OneLock
    <3>2. k.kind # "rebind" BY <3>1 DEF Locks, Locking, Kinds
    <3>3. k.fresh = 0 BY <2>3, <3>1 DEF Mine
    <3> QED BY <3>1, <3>2, <3>3 DEF Mine
  <2>6. \A k \in jobs' : Mine(k)' BY <2>1, <2>4, <2>5
  <2>7. \A k \in jobs' : k.fresh = 2 => k.kind = "box" /\ k.at = "asked" BY <2>1, <2>2, <2>5
  <2> QED BY <2>1, <2>6, <2>7, Blur
<1> QED BY <1>2, <1>3

LEMMA SpecMsgTruth ==
  ASSUME IInv, Truthful, NEW j \in jobs, j.at = "done", SpecMsg(j), UNCHANGED <<world, registry, target>>
  PROVE  Truthful'
<1>1. j.kind = "spec" /\ UNCHANGED <<bound, facts, of, fresh, probed, verified>> BY DEF SpecMsg
<1>2. CASE ~j.ok
  <2>1. jobs' = jobs \ {j} BY <1>2 DEF SpecMsg
  <2> QED BY <1>1, <2>1, LeftTruth
<1>3. CASE j.ok
  <2> DEFINE S == jobs \ {j}
             w == j.what
  <2>1. jobs' = S \cup {Job("session", w)} BY <1>3 DEF SpecMsg
  <2>2. ~Pending(S) => ~Pending(jobs) BY <1>1 DEF Pending
  <2>3. (\E h \in jobs : h.kind = "guest") => \E h \in S : h.kind = "guest" BY <1>1
  <2>4. "session" \in Locking BY DEF Locking, Kinds
  <2>5. \A h \in S : h \in jobs OBVIOUS
  <2> HIDE DEF S, w
  <2> QED BY <1>1, <2>1, <2>2, <2>3, <2>4, <2>5, HolderTruth
<1> QED BY <1>2, <1>3

LEMMA ExecDoneMsgTruth ==
  ASSUME IInv, Truthful, NEW j \in jobs, j.at = "done", ExecDoneMsg(j), UNCHANGED <<world, registry, target>>
  PROVE  Truthful'
<1> DEFINE left == jobs \ {j}
           S == left \cup IF afterSession /\ j.ok THEN {Job("op", "activate")} ELSE {}
<1>1. Probe(S) /\ UNCHANGED <<bound, facts, of, probed, verified>> BY DEF ExecDoneMsg
<1>2. Asked(Job("op", "activate")) /\ Mine(Job("op", "activate"))
  <2>1. "op" \in Locking /\ "activate" \in Names BY DEF Names, Kinds, Locking
  <2> QED BY <2>1, HolderAsked, JobMine DEF IInv
<1>3. AllAsked(left) BY AskedWith DEF IInv
<1>4. AllAsked(S) BY <1>2, <1>3, AskedWith
<1>5. \A h \in S : Mine(h) BY <1>2 DEF Truthful
<1> HIDE DEF S
<1> QED BY <1>1, <1>4, <1>5, ProbeTruth DEF Truthful, IInv

LEMMA PreviewMsgTruth ==
  ASSUME IInv, Truthful, NEW j \in jobs, PreviewMsg(j), UNCHANGED <<world, registry, target>>
  PROVE  Truthful'
<1>1. j.kind = "preview" /\ jobs' = jobs \ {j} /\ UNCHANGED <<bound, facts, of, fresh, probed, verified>>
  BY DEF PreviewMsg
<1> QED BY <1>1, LeftTruth

LEMMA InstallMsgTruth ==
  ASSUME IInv, Truthful, NEW j \in jobs, InstallMsg(j), UNCHANGED <<world, registry, target>>
  PROVE  Truthful'
<1>1. j.kind = "install" /\ UNCHANGED <<bound, facts, of, probed, verified>> BY DEF InstallMsg
<1>2. CASE Probe(jobs \ {j})
  <2>1. AllAsked(jobs \ {j}) BY AskedWith DEF IInv
  <2> QED BY <1>1, <1>2, <2>1, ProbeTruth DEF Truthful, IInv
<1>3. CASE jobs' = jobs \ {j} /\ UNCHANGED fresh BY <1>1, <1>3, LeftTruth
<1> QED BY <1>2, <1>3 DEF InstallMsg

LEMMA DeliverTruth ==
  ASSUME IInv, Truthful, NEW j \in jobs, Deliver(j)
  PROVE  Truthful'
<1>1. j.at = "done" /\ UNCHANGED <<world, registry, target>> BY DEF Deliver
<1> QED BY <1>1, BoxMsgTruth, FactsMsgTruth, OpMsgTruth, RebindMsgTruth, SpecMsgTruth, ExecDoneMsgTruth,
           PreviewMsgTruth, InstallMsgTruth DEF Deliver

-----------------------------------------------------------------------------
LEMMA BeginTruth ==
  ASSUME Truthful, NEW kind \in Locking, NEW what, kind = "rebind" => what # bound, Begin(kind, what),
         UNCHANGED <<world, registry, target, bound, facts, of, probed, verified>>
  PROVE  Truthful'
<1>1. jobs' = jobs \cup {Job(kind, what)} /\ UNCHANGED fresh BY DEF Begin
<1> QED BY <1>1, HolderTruth

LEMMA KeyTruth ==
  ASSUME IInv, Truthful, Key
  PROVE  Truthful'
<1>1. UNCHANGED <<world, registry, target, bound, facts, of, probed, verified>> BY DEF Key
<1>2. CASE Probe(jobs) BY <1>1, <1>2, ProbeTruth DEF Truthful, IInv
<1>3. CASE UNCHANGED <<jobs, fresh>>
  <2>1. \A k \in jobs' : (Mine(k) /\ (~Pending(jobs) => Tells(k))) \/ \E h \in jobs : Lower(k, h)
    BY <1>3, LowerSame
  <2> QED BY <1>1, <1>3, <2>1, Carry DEF Truthful
<1>4. CASE \E kind \in {"op", "spec", "preview", "install"}, what \in Names : Begin(kind, what)
  <2>1. PICK kind \in {"op", "spec", "preview", "install"}, what \in Names : Begin(kind, what) BY <1>4
  <2>2. kind \in Locking /\ kind # "rebind" BY DEF Locking, Kinds
  <2> QED BY <1>1, <2>1, <2>2, BeginTruth
<1>5. CASE ChooseBox
  <2>1. PICK b \in Boxes \ {bound} : Begin("rebind", b) BY <1>5 DEF ChooseBox
  <2>2. "rebind" \in Locking BY DEF Locking, Kinds
  <2> QED BY <1>1, <2>1, <2>2, BeginTruth
<1>6. ASSUME NEW s \in Screens, SwitchTo(s) PROVE Truthful'
  BY <1>2, <1>3, <1>6 DEF SwitchTo
<1>7. CASE Operations
  <2>1. CASE DashboardKey BY <1>4, <2>1 DEF DashboardKey, Names
  <2>2. CASE AddProject \/ ChangeProject \/ OpenCheckout \/ InstallMcp
    BY <1>4, <2>2 DEF AddProject, ChangeProject, OpenCheckout, InstallMcp, Names
  <2> QED BY <1>5, <1>7, <2>1, <2>2 DEF Operations
<1>8. CASE Refresh BY <1>2, <1>8 DEF Refresh
<1>9. CASE SetupStep
  <2>1. \/ \E step \in {"vm-init", "vm-start", "bootstrap", "brain-init"} : Begin("op", step)
        \/ Begin("spec", "backend login") \/ UNCHANGED <<jobs, fresh>>
    BY <1>9 DEF SetupStep
  <2> QED BY <1>3, <1>4, <2>1 DEF Names
<1>10. CASE BrainKey BY <1>3, <1>4, <1>10 DEF BrainKey, Names
<1>11. CASE LoginMcp BY <1>3, <1>4, <1>11 DEF LoginMcp, Names
<1> QED BY <1>6, <1>7, <1>8, <1>9, <1>10, <1>11 DEF Key

LEMMA InitTruth == Init => Truthful
<1> SUFFICES ASSUME Init PROVE Truthful OBVIOUS
<1> DEFINE n == Job("box", "")
<1>1. n.kind = "box" /\ n.at = "asked" /\ n.ok = FALSE BY DEF Job
<1>2. Mine(n) /\ Tells(n) BY JobMine
<1>3. jobs = {n} /\ probed = FALSE /\ fresh = 1 BY DEF Init
<1> HIDE DEF n
<1> QED BY <1>2, <1>3 DEF Truthful

LEMMA NextTruth == IInv /\ Truthful /\ [Next]_vars => Truthful'
<1> SUFFICES ASSUME IInv, Truthful, [Next]_vars PROVE Truthful' OBVIOUS
<1>1. CASE UNCHANGED vars
  <2>1. UNCHANGED <<world, registry, target, bound, facts, probed, jobs, fresh, of, verified>>
    BY <1>1 DEF vars, screenVars
  <2>2. \A k \in jobs' : (Mine(k) /\ (~Pending(jobs) => Tells(k))) \/ \E h \in jobs : Lower(k, h)
    BY <2>1, LowerSame
  <2> QED BY <2>1, <2>2, Carry DEF Truthful
<1>2. CASE Next BY <1>2, KeyTruth, RunTruth, ResolveTruth, DeliverTruth DEF Next
<1> QED BY <1>1, <1>2

LEMMA TruthTells == IInv /\ Truthful => FactsAreTheBox
<1> SUFFICES ASSUME IInv, Truthful PROVE FactsAreTheBox OBVIOUS
<1>1. probed /\ fresh > 0 => of = bound
  <2>1. fresh > 0 => fresh # 0 BY DEF IInv, Typed, Freshness
  <2> QED BY <2>1 DEF Truthful
<1>2. ASSUME jobs = {}, fresh = 2
      PROVE  probed /\ verified /\ NotAfter(NextStep(facts), NextStep(Truth(bound)))
  <2>1. ~Pending(jobs) BY <1>2 DEF Pending
  <2> QED BY <1>2, <2>1 DEF Truthful, Fits
<1> QED BY <1>1, <1>2 DEF FactsAreTheBox

\* However probes, operations and rebinds interleave, the facts on screen are
\* of the box the hub is bound to unless asked for around a rebind; and when
\* nothing is under way the wizard's step, from the newest probe, is not past
\* the one the box needs (wizard/graph.go:57).
THEOREM FactsAreOfTheBox == Spec => []FactsAreTheBox
<1>1. Init => IInv /\ Truthful BY InitHolds, InitTruth
<1>2. (IInv /\ Truthful) /\ [Next]_vars => (IInv /\ Truthful)' BY NextHolds, NextTruth
<1> QED BY <1>1, <1>2, TruthTells, PTL DEF Spec
=============================================================================
