----------------------------- MODULE Box_proofs -----------------------------
(***************************************************************************)
(* Proofs about Box: what a command has left to do is always the rest of a *)
(* list the source names.  From that, where two commands that write do not *)
(* overlap: no program is installed whose bytes were not checked, and the  *)
(* instance's configuration names the agent its guest was built for.       *)
(* The second half follows what each step of a list is about, in a guest   *)
(* that stops and boots between any two of them: a bootstrap that reports  *)
(* success is right, what a command leaves behind is no later one's        *)
(* obstacle, and drift is reported and kept.                               *)
(***************************************************************************)
EXTENDS Box, SequenceTheorems, TLAPS

\* The parts the lists name, and "none".
Names ==
  {"none", "projects group", "session", "architecture", "git", "mounts", "shell helper", "enter helper",
   "jq", "claude user", "claude in projects", "claude groups", "claude sudo", "claude staging",
   "claude binary", "claude link", "claude home", "claude profile", "claude brain", "claude workspace",
   "claude session helper", "claude push helper", "claude settings", "claude waiting helper",
   "claude waiting marker", "claude servers", "claude credential", "codex user", "codex in projects",
   "codex groups", "codex sudo", "codex staging", "codex extract", "codex binary", "codex link",
   "codex home", "codex profile", "codex brain", "codex workspace", "codex session helper",
   "codex push helper", "codex system config", "codex waiting helper", "codex waiting marker",
   "codex servers", "codex credential"}

\* The steps of a list that brings nothing from outside, and of a start or stop.
Verbs   == {"running", "prove", "provePath", "proveOwner", "create", "write", "repoint", "link",
            "observe", "install", "check", "clear", "answer"}
Plain   == [does : Verbs, part : Names, from : Names]
Machine == [does : {"boot", "reconnect", "halt"}, part : Names, from : Names]
Calm(pl)     == pl \in Seq(Plain)
Starts(pl, s) == pl # <<>> /\ Head(pl) = s

\* What a download has left, from its last step that matters to its first.
claudePlace(pl) == Starts(pl, Places("claude binary", "claude staging")) /\ Calm(Tail(pl))
claudeCheck(pl) == Starts(pl, Checks("claude staging")) /\ claudePlace(Tail(pl))
claudeFetch(pl) == Starts(pl, Fetches("claude staging")) /\ claudeCheck(Tail(pl))

codexPlace(pl)  == Starts(pl, Places("codex binary", "codex extract")) /\ Calm(Tail(pl))
codexUnpack(pl) == Starts(pl, Places("codex extract", "codex staging")) /\ codexPlace(Tail(pl))
codexClear(pl)  == Starts(pl, Clears("codex extract")) /\ codexUnpack(Tail(pl))
codexCheck(pl)  == Starts(pl, Checks("codex staging")) /\ codexClear(Tail(pl))
codexFetch(pl)  == Starts(pl, Fetches("codex staging")) /\ codexCheck(Tail(pl))

Downloads(pl) == \/ claudePlace(pl) \/ claudeCheck(pl) \/ claudeFetch(pl)
                 \/ codexPlace(pl) \/ codexUnpack(pl) \/ codexClear(pl) \/ codexCheck(pl) \/ codexFetch(pl)

declares(pl) == pl = <<Host("declare"), Host("make")>>
makes(pl)    == pl = <<Host("make")>>

\* A plan and the job it is for.
Follows(j, pl) ==
  \/ pl = <<>>
  \/ j.op = "init" /\ (declares(pl) \/ makes(pl))
  \/ j.op \in {"start", "stop"} /\ pl \in Seq(Machine)
  \/ j.op = "bootstrap" /\ Calm(pl)
  \/ j.op = "bootstrap" /\ j.reconcile = TRUE /\ Downloads(pl)

Jobs == [op : {"none", "init", "start", "stop", "bootstrap"}, flag : Flags \cup {NoFlag},
         backend : Backends, reconcile : BOOLEAN]

GuestTyped ==
  /\ declared \in Backends \cup {"none"} /\ built \in Backends \cup {"none"}
  /\ vm \in {"absent", "stopped", "running", "broken"}
  /\ session \in {"none", "stale", "fresh"}
  /\ part \in [Parts -> Conditions]
  /\ hands \in 0..MaxHands /\ weak \in BOOLEAN
JobsTyped ==
  /\ job \in [Commands -> Jobs] /\ touched \in [Commands -> BOOLEAN]
  /\ result \in [Commands -> {"none", "ok", "refused", "failed"}]
  /\ plan = [c \in Commands |-> plan[c]]
Ordered == \A c \in Commands : Follows(job[c], plan[c])

Base == GuestTyped /\ JobsTyped /\ Ordered

\* Commands that write are under way one at a time.
Changing(c) == Running(c) /\ Changes(job[c])
Alone == \A c, d \in Commands : Changing(c) /\ Changing(d) => c = d

\* What a download found good and has not used up is not foreign yet.
Checked ==
  \A c \in Commands :
    /\ claudePlace(plan[c]) => part["claude staging"] # "foreign"
    /\ codexClear(plan[c]) \/ codexUnpack(plan[c]) => part["codex staging"] # "foreign"
    /\ codexPlace(plan[c]) => part["codex extract"] # "foreign"

\* An init with a flag, and what it finds declared as it goes.
Declaring(c) ==
  /\ declares(plan[c]) \/ makes(plan[c]) => job[c].flag # NoFlag /\ job[c].flag = job[c].backend
  /\ declares(plan[c]) => declared \in {"none", job[c].backend}
  /\ makes(plan[c]) => declared = job[c].backend
Agreed == (built # "none" => declared = built) /\ \A c \in Commands : Declaring(c)

-----------------------------------------------------------------------------
(* Lists of steps. *)

LEMMA One ==
  ASSUME NEW does \in Verbs,
         NEW p \in Names, NEW q \in Names
  PROVE  Step(does, p, q) \in Plain /\ <<Step(does, p, q)>> \in Seq(Plain)
<1> DEFINE s == Step(does, p, q)
<1>1. s \in Plain BY DEF Step, Plain
<1> HIDE DEF s
<1>2. <<s>> \in Seq(Plain) BY <1>1
<1> QED BY <1>1, <1>2 DEF s

LEMMA Joins ==
  ASSUME NEW S, NEW s \in Seq(S), NEW t \in Seq(S)
  PROVE  s \o t \in Seq(S) /\ ToSet(s) \subseteq ToSet(s \o t) /\ ToSet(t) \subseteq ToSet(s \o t)
<1>1. /\ s \o t \in Seq(S) /\ Len(s \o t) = Len(s) + Len(t)
      /\ \A i \in 1..Len(s) + Len(t) : (s \o t)[i] = IF i <= Len(s) THEN s[i] ELSE t[i - Len(s)]
  BY ConcatProperties
<1>2. /\ Len(s) \in Nat /\ Len(t) \in Nat /\ DOMAIN s = 1..Len(s) /\ DOMAIN t = 1..Len(t)
      /\ DOMAIN (s \o t) = 1..Len(s \o t)
  BY <1>1, LenProperties
<1>3. ASSUME NEW i \in DOMAIN s PROVE s[i] \in ToSet(s \o t)
  <2>1. i \in DOMAIN (s \o t) /\ (s \o t)[i] = s[i] BY <1>1, <1>2, <1>3
  <2> QED BY <2>1 DEF ToSet
<1>4. ASSUME NEW i \in DOMAIN t PROVE t[i] \in ToSet(s \o t)
  <2>1. i + Len(s) \in DOMAIN (s \o t) /\ (s \o t)[i + Len(s)] = t[i] BY <1>1, <1>2, <1>4
  <2> QED BY <2>1 DEF ToSet
<1> QED BY <1>1, <1>3, <1>4 DEF ToSet

LEMMA Known ==
  /\ "none" \in Names /\ "projects group" \in Names /\ "session" \in Names
  /\ "architecture" \in Names /\ "git" \in Names /\ "mounts" \in Names
  /\ "shell helper" \in Names /\ "enter helper" \in Names /\ "jq" \in Names
  /\ "claude user" \in Names /\ "claude in projects" \in Names /\ "claude groups" \in Names
  /\ "claude sudo" \in Names /\ "claude staging" \in Names /\ "claude binary" \in Names
  /\ "claude link" \in Names /\ "claude home" \in Names /\ "claude profile" \in Names
  /\ "claude brain" \in Names /\ "claude workspace" \in Names
  /\ "claude session helper" \in Names /\ "claude push helper" \in Names
  /\ "claude settings" \in Names /\ "claude waiting helper" \in Names
  /\ "claude waiting marker" \in Names /\ "claude servers" \in Names
  /\ "claude credential" \in Names /\ "codex user" \in Names /\ "codex in projects" \in Names
  /\ "codex groups" \in Names /\ "codex sudo" \in Names /\ "codex staging" \in Names
  /\ "codex extract" \in Names /\ "codex binary" \in Names /\ "codex link" \in Names
  /\ "codex home" \in Names /\ "codex profile" \in Names /\ "codex brain" \in Names
  /\ "codex workspace" \in Names /\ "codex session helper" \in Names
  /\ "codex push helper" \in Names /\ "codex system config" \in Names
  /\ "codex waiting helper" \in Names /\ "codex waiting marker" \in Names
  /\ "codex servers" \in Names /\ "codex credential" \in Names
  /\ "running" \in Verbs /\ "prove" \in Verbs /\ "provePath" \in Verbs /\ "proveOwner" \in Verbs
  /\ "create" \in Verbs /\ "write" \in Verbs /\ "repoint" \in Verbs /\ "link" \in Verbs
  /\ "observe" \in Verbs /\ "install" \in Verbs /\ "check" \in Verbs /\ "clear" \in Verbs
  /\ "answer" \in Verbs
BY Zenon DEF Names, Verbs

LEMMA Listed ==
  ASSUME NEW S, NEW a \in S, NEW b \in S, NEW c \in S, NEW d \in S
  PROVE  <<a>> \in Seq(S) /\ <<a, b>> \in Seq(S) /\ <<a, b, c, d>> \in Seq(S)
OBVIOUS

LEMMA Only == ASSUME NEW x PROVE x \in ToSet(<<x>>)
<1>1. 1 \in DOMAIN <<x>> /\ <<x>>[1] = x OBVIOUS
<1> QED BY <1>1 DEF ToSet

\* The lists of the two backends hold nothing but plain steps, and the install
\* of the versioned binary is one of them.
LEMMA ClaudeCalm ==
  /\ Calm(Claude!VerifyIdentity) /\ Calm(Claude!VerifyMembership)
  /\ Calm(Claude!VerifyIsolation) /\ Calm(Claude!Install) /\ Calm(Claude!VerifyVersion)
  /\ Calm(Claude!RequiredPaths) /\ Calm(Claude!Session) /\ Calm(Claude!VerifyGuardrails)
  /\ Calm(Claude!ProbeAuth)
  /\ Claude!Installs("claude binary") \in ToSet(Claude!Install)
<1>1. ASSUME NEW does \in Verbs, NEW p \in Names, NEW q \in Names
      PROVE  Claude!Step(does, p, q) \in Plain
  BY One DEF Step, Claude!Step
<1>2. ASSUME NEW p \in Names, NEW q \in Names
      PROVE  /\ Claude!Proves(p) \in Plain /\ Claude!ProvesPath(p) \in Plain
             /\ Claude!ProvesOwner(p) \in Plain /\ Claude!Creates(p) \in Plain
             /\ Claude!Repoints(p) \in Plain /\ Claude!Observes(p) \in Plain
             /\ Claude!Installs(p) \in Plain /\ Claude!Answers(p, q) \in Plain
  BY <1>1, Known
  DEF Claude!Proves, Claude!ProvesPath, Claude!ProvesOwner, Claude!Creates, Claude!Repoints,
      Claude!Observes, Claude!Installs, Claude!Answers
<1>3. /\ Claude!Answers("claude link", "claude binary") \in Plain
      /\ Claude!Creates("claude push helper") \in Plain
      /\ Claude!Creates("claude session helper") \in Plain
      /\ Claude!Creates("claude settings") \in Plain
      /\ Claude!Creates("claude waiting helper") \in Plain
      /\ Claude!Creates("claude waiting marker") \in Plain
      /\ Claude!Installs("claude binary") \in Plain
      /\ Claude!Observes("claude credential") \in Plain
      /\ Claude!Observes("claude servers") \in Plain /\ Claude!Proves("claude groups") \in Plain
      /\ Claude!Proves("claude home") \in Plain /\ Claude!Proves("claude in projects") \in Plain
      /\ Claude!Proves("claude sudo") \in Plain /\ Claude!Proves("claude user") \in Plain
      /\ Claude!Proves("claude workspace") \in Plain /\ Claude!Proves("jq") \in Plain
      /\ Claude!ProvesOwner("claude binary") \in Plain
      /\ Claude!ProvesPath("claude brain") \in Plain
      /\ Claude!ProvesPath("claude profile") \in Plain
      /\ Claude!Repoints("claude link") \in Plain
  BY <1>2, Known
<1>4. /\ Calm(Claude!VerifyIdentity) /\ Calm(Claude!VerifyMembership)
      /\ Calm(Claude!verifyGroupsExact) /\ Calm(Claude!verifyNoSudo)
      /\ Calm(Claude!verifyTarget) /\ Calm(Claude!reconcileCommandPath)
      /\ Calm(Claude!VerifyVersion) /\ Calm(Claude!RequiredPaths) /\ Calm(Claude!Session)
      /\ Calm(Claude!reconcileManagedSettings) /\ Calm(Claude!verifyWaitingMarkerDependencies)
      /\ Calm(Claude!reconcileWaitingMarkerState) /\ Calm(Claude!reportMCPServers)
      /\ Calm(Claude!ProbeAuth)
  <2>1. Calm(Claude!VerifyIdentity) BY <1>3, Listed DEF Calm, Claude!VerifyIdentity
  <2>2. Calm(Claude!VerifyMembership) BY <1>3, Listed DEF Calm, Claude!VerifyMembership
  <2>3. Calm(Claude!verifyGroupsExact) BY <1>3, Listed DEF Calm, Claude!verifyGroupsExact
  <2>4. Calm(Claude!verifyNoSudo) BY <1>3, Listed DEF Calm, Claude!verifyNoSudo
  <2>5. Calm(Claude!verifyTarget) BY <1>3, Listed DEF Calm, Claude!verifyTarget
  <2>6. Calm(Claude!reconcileCommandPath) BY <1>3, Listed DEF Calm, Claude!reconcileCommandPath
  <2>7. Calm(Claude!VerifyVersion) BY <1>3, Listed DEF Calm, Claude!VerifyVersion
  <2>8. Calm(Claude!RequiredPaths) BY <1>3, Listed DEF Calm, Claude!RequiredPaths
  <2>9. Calm(Claude!Session) BY <1>3, Listed DEF Calm, Claude!Session
  <2>10. Calm(Claude!reconcileManagedSettings) BY <1>3, Listed DEF Calm, Claude!reconcileManagedSettings
  <2>11. Calm(Claude!verifyWaitingMarkerDependencies)
    BY <1>3, Listed DEF Calm, Claude!verifyWaitingMarkerDependencies
  <2>12. Calm(Claude!reconcileWaitingMarkerState) BY <1>3, Listed DEF Calm, Claude!reconcileWaitingMarkerState
  <2>13. Calm(Claude!reportMCPServers) BY <1>3, Listed DEF Calm, Claude!reportMCPServers
  <2>14. Calm(Claude!ProbeAuth) BY <1>3, Listed DEF Calm, Claude!ProbeAuth
  <2> QED BY <2>1, <2>2, <2>3, <2>4, <2>5, <2>6, <2>7, <2>8, <2>9, <2>10, <2>11, <2>12, <2>13, <2>14
<1>5. Calm(<<Claude!Installs("claude binary")>>) /\ Calm(<<Claude!Creates("claude waiting helper")>>)
  BY <1>3, Listed DEF Calm
<1>6. Calm(Claude!VerifyIsolation) BY <1>4, Joins DEF Calm, Claude!VerifyIsolation
<1>7. Calm(Claude!Install) /\ Claude!Installs("claude binary") \in ToSet(Claude!Install)
  <2> DEFINE a == <<Claude!Installs("claude binary")>>
             b == a \o Claude!verifyTarget
  <2>1. Claude!Installs("claude binary") \in ToSet(a) BY Only
  <2>2. Calm(b) /\ ToSet(a) \subseteq ToSet(b) BY <1>4, <1>5, Joins DEF Calm
  <2>3. Calm(b \o Claude!reconcileCommandPath) /\ ToSet(b) \subseteq ToSet(b \o Claude!reconcileCommandPath)
    <3> HIDE DEF b
    <3> QED BY <1>4, <2>2, Joins DEF Calm
  <2> QED BY <2>1, <2>2, <2>3 DEF Claude!Install
<1>8. Calm(Claude!reconcileWaitingMarkerHelper)
  BY <1>4, <1>5, Joins DEF Calm, Claude!reconcileWaitingMarkerHelper
<1>9. Calm(Claude!VerifyGuardrails)
  <2> DEFINE a == Claude!reconcileManagedSettings \o Claude!reconcileWaitingMarkerHelper
             b == a \o Claude!reconcileWaitingMarkerState
  <2>1. Calm(a) BY <1>4, <1>8, Joins DEF Calm
  <2>2. Calm(b)
    <3> HIDE DEF a
    <3> QED BY <1>4, <2>1, Joins DEF Calm
  <2>3. Calm(b \o Claude!reportMCPServers)
    <3> HIDE DEF b
    <3> QED BY <1>4, <2>2, Joins DEF Calm
  <2> QED BY <2>3 DEF Claude!VerifyGuardrails
<1> QED BY <1>4, <1>6, <1>7, <1>9

LEMMA CodexCalm ==
  /\ Calm(Cdx!VerifyIdentity) /\ Calm(Cdx!VerifyMembership) /\ Calm(Cdx!VerifyIsolation)
  /\ Calm(Cdx!Install) /\ Calm(Cdx!VerifyVersion) /\ Calm(Cdx!RequiredPaths)
  /\ Calm(Cdx!Session) /\ Calm(Cdx!VerifyGuardrails) /\ Calm(Cdx!ProbeAuth)
  /\ Cdx!Installs("codex binary") \in ToSet(Cdx!Install)
<1>1. ASSUME NEW does \in Verbs, NEW p \in Names, NEW q \in Names
      PROVE  Cdx!Step(does, p, q) \in Plain
  BY One DEF Step, Cdx!Step
<1>2. ASSUME NEW p \in Names, NEW q \in Names
      PROVE  /\ Cdx!Proves(p) \in Plain /\ Cdx!ProvesPath(p) \in Plain
             /\ Cdx!ProvesOwner(p) \in Plain /\ Cdx!Creates(p) \in Plain
             /\ Cdx!Repoints(p) \in Plain /\ Cdx!Observes(p) \in Plain
             /\ Cdx!Installs(p) \in Plain /\ Cdx!Answers(p, q) \in Plain
  BY <1>1, Known
  DEF Cdx!Proves, Cdx!ProvesPath, Cdx!ProvesOwner, Cdx!Creates, Cdx!Repoints, Cdx!Observes,
      Cdx!Installs, Cdx!Answers
<1>3. /\ Cdx!Answers("codex link", "codex binary") \in Plain
      /\ Cdx!Creates("codex push helper") \in Plain
      /\ Cdx!Creates("codex session helper") \in Plain
      /\ Cdx!Creates("codex system config") \in Plain
      /\ Cdx!Creates("codex waiting helper") \in Plain
      /\ Cdx!Creates("codex waiting marker") \in Plain /\ Cdx!Installs("codex binary") \in Plain
      /\ Cdx!Observes("codex credential") \in Plain /\ Cdx!Observes("codex servers") \in Plain
      /\ Cdx!Proves("codex groups") \in Plain /\ Cdx!Proves("codex home") \in Plain
      /\ Cdx!Proves("codex in projects") \in Plain /\ Cdx!Proves("codex sudo") \in Plain
      /\ Cdx!Proves("codex user") \in Plain /\ Cdx!Proves("codex workspace") \in Plain
      /\ Cdx!Proves("jq") \in Plain /\ Cdx!ProvesOwner("codex binary") \in Plain
      /\ Cdx!ProvesPath("codex brain") \in Plain /\ Cdx!ProvesPath("codex profile") \in Plain
      /\ Cdx!Repoints("codex link") \in Plain
  BY <1>2, Known
<1>4. /\ Calm(Cdx!VerifyIdentity) /\ Calm(Cdx!VerifyMembership) /\ Calm(Cdx!verifyGroupsExact)
      /\ Calm(Cdx!verifyNoSudo) /\ Calm(Cdx!verifyTarget) /\ Calm(Cdx!reconcileCommandPath)
      /\ Calm(Cdx!VerifyVersion) /\ Calm(Cdx!RequiredPaths) /\ Calm(Cdx!Session)
      /\ Calm(Cdx!reconcileSystemConfig) /\ Calm(Cdx!verifyWaitingMarkerDependencies)
      /\ Calm(Cdx!reconcileWaitingMarkerState) /\ Calm(Cdx!reportMCPServers)
      /\ Calm(Cdx!ProbeAuth)
  <2>1. Calm(Cdx!VerifyIdentity) BY <1>3, Listed DEF Calm, Cdx!VerifyIdentity
  <2>2. Calm(Cdx!VerifyMembership) BY <1>3, Listed DEF Calm, Cdx!VerifyMembership
  <2>3. Calm(Cdx!verifyGroupsExact) BY <1>3, Listed DEF Calm, Cdx!verifyGroupsExact
  <2>4. Calm(Cdx!verifyNoSudo) BY <1>3, Listed DEF Calm, Cdx!verifyNoSudo
  <2>5. Calm(Cdx!verifyTarget) BY <1>3, Listed DEF Calm, Cdx!verifyTarget
  <2>6. Calm(Cdx!reconcileCommandPath) BY <1>3, Listed DEF Calm, Cdx!reconcileCommandPath
  <2>7. Calm(Cdx!VerifyVersion) BY <1>3, Listed DEF Calm, Cdx!VerifyVersion
  <2>8. Calm(Cdx!RequiredPaths) BY <1>3, Listed DEF Calm, Cdx!RequiredPaths
  <2>9. Calm(Cdx!Session) BY <1>3, Listed DEF Calm, Cdx!Session
  <2>10. Calm(Cdx!reconcileSystemConfig) BY <1>3, Listed DEF Calm, Cdx!reconcileSystemConfig
  <2>11. Calm(Cdx!verifyWaitingMarkerDependencies) BY <1>3, Listed DEF Calm, Cdx!verifyWaitingMarkerDependencies
  <2>12. Calm(Cdx!reconcileWaitingMarkerState) BY <1>3, Listed DEF Calm, Cdx!reconcileWaitingMarkerState
  <2>13. Calm(Cdx!reportMCPServers) BY <1>3, Listed DEF Calm, Cdx!reportMCPServers
  <2>14. Calm(Cdx!ProbeAuth) BY <1>3, Listed DEF Calm, Cdx!ProbeAuth
  <2> QED BY <2>1, <2>2, <2>3, <2>4, <2>5, <2>6, <2>7, <2>8, <2>9, <2>10, <2>11, <2>12, <2>13, <2>14
<1>5. Calm(<<Cdx!Installs("codex binary")>>) /\ Calm(<<Cdx!Creates("codex waiting helper")>>)
  BY <1>3, Listed DEF Calm
<1>6. Calm(Cdx!VerifyIsolation) BY <1>4, Joins DEF Calm, Cdx!VerifyIsolation
<1>7. Calm(Cdx!Install) /\ Cdx!Installs("codex binary") \in ToSet(Cdx!Install)
  <2> DEFINE a == <<Cdx!Installs("codex binary")>>
             b == a \o Cdx!verifyTarget
  <2>1. Cdx!Installs("codex binary") \in ToSet(a) BY Only
  <2>2. Calm(b) /\ ToSet(a) \subseteq ToSet(b) BY <1>4, <1>5, Joins DEF Calm
  <2>3. Calm(b \o Cdx!reconcileCommandPath) /\ ToSet(b) \subseteq ToSet(b \o Cdx!reconcileCommandPath)
    <3> HIDE DEF b
    <3> QED BY <1>4, <2>2, Joins DEF Calm
  <2> QED BY <2>1, <2>2, <2>3 DEF Cdx!Install
<1>8. Calm(Cdx!reconcileWaitingMarkerHelper)
  BY <1>4, <1>5, Joins DEF Calm, Cdx!reconcileWaitingMarkerHelper
<1>9. Calm(Cdx!VerifyGuardrails)
  <2> DEFINE a == Cdx!reconcileSystemConfig \o Cdx!reconcileWaitingMarkerHelper
             b == a \o Cdx!reconcileWaitingMarkerState
  <2>1. Calm(a) BY <1>4, <1>8, Joins DEF Calm
  <2>2. Calm(b)
    <3> HIDE DEF a
    <3> QED BY <1>4, <2>1, Joins DEF Calm
  <2>3. Calm(b \o Cdx!reportMCPServers)
    <3> HIDE DEF b
    <3> QED BY <1>4, <2>2, Joins DEF Calm
  <2> QED BY <2>3 DEF Cdx!VerifyGuardrails
<1> QED BY <1>4, <1>6, <1>7, <1>9

\* A backend's whole list.
LEMMA BootstrapCalm ==
  ASSUME NEW b \in Backends
  PROVE  /\ Calm(Bootstrap(b))
         /\ Of(b, Claude!Installs("claude binary"), Cdx!Installs("codex binary")) \in ToSet(Bootstrap(b))
<1> DEFINE x == Of(b, Claude!Installs("claude binary"), Cdx!Installs("codex binary"))
<1>1. /\ Calm(Of(b, Claude!VerifyIdentity, Cdx!VerifyIdentity))
      /\ Calm(Of(b, Claude!VerifyMembership, Cdx!VerifyMembership))
      /\ Calm(Of(b, Claude!VerifyIsolation, Cdx!VerifyIsolation))
      /\ Calm(Of(b, Claude!Install, Cdx!Install))
      /\ Calm(Of(b, Claude!VerifyVersion, Cdx!VerifyVersion))
      /\ Calm(Of(b, Claude!RequiredPaths, Cdx!RequiredPaths))
      /\ Calm(Of(b, Claude!Session, Cdx!Session))
      /\ Calm(Of(b, Claude!VerifyGuardrails, Cdx!VerifyGuardrails))
      /\ Calm(Of(b, Claude!ProbeAuth, Cdx!ProbeAuth))
      /\ x \in ToSet(Of(b, Claude!Install, Cdx!Install))
  BY ClaudeCalm, CodexCalm DEF Of
<1>2. ASSUME NEW does \in Verbs, NEW p \in Names PROVE Calm(<<Step(does, p, "none")>>)
  BY One, Known DEF Calm
<1>3. /\ Calm(verifyTorioProjectsGroup)
      /\ Calm(verifyOperatorInTorioProjects)
      /\ Calm(verifyArch)
      /\ Calm(verifyGit)
      /\ Calm(verifyNoHostMounts)
      /\ Calm(verifyOperatorShellHelper)
      /\ Calm(verifyProjectEnterHelper)
  BY <1>2, Known
  DEF Proves, Creates, verifyTorioProjectsGroup, verifyOperatorInTorioProjects, verifyArch, verifyGit,
      verifyNoHostMounts, verifyOperatorShellHelper, verifyProjectEnterHelper
<1> DEFINE s1 == Of(b, Claude!VerifyIdentity, Cdx!VerifyIdentity)
           s2 == s1 \o verifyTorioProjectsGroup
           s3 == s2 \o Of(b, Claude!VerifyMembership, Cdx!VerifyMembership)
           s4 == s3 \o verifyOperatorInTorioProjects
           s5 == s4 \o Of(b, Claude!VerifyIsolation, Cdx!VerifyIsolation)
           s6 == s5 \o Of(b, Claude!Install, Cdx!Install)
           s7 == s6 \o verifyArch
           s8 == s7 \o Of(b, Claude!VerifyVersion, Cdx!VerifyVersion)
           s9 == s8 \o verifyGit
           s10 == s9 \o Of(b, Claude!RequiredPaths, Cdx!RequiredPaths)
           s11 == s10 \o verifyNoHostMounts
           s12 == s11 \o verifyOperatorShellHelper
           s13 == s12 \o verifyProjectEnterHelper
           s14 == s13 \o Of(b, Claude!Session, Cdx!Session)
           s15 == s14 \o Of(b, Claude!VerifyGuardrails, Cdx!VerifyGuardrails)
           s16 == s15 \o Of(b, Claude!ProbeAuth, Cdx!ProbeAuth)
<1>4. Calm(s1) BY <1>1
<1>5. Calm(s2)
  <2> HIDE DEF s1, x
  <2> QED BY <1>1, <1>3, <1>4, Joins DEF Calm
<1>6. Calm(s3)
  <2> HIDE DEF s2, x
  <2> QED BY <1>1, <1>3, <1>5, Joins DEF Calm
<1>7. Calm(s4)
  <2> HIDE DEF s3, x
  <2> QED BY <1>1, <1>3, <1>6, Joins DEF Calm
<1>8. Calm(s5)
  <2> HIDE DEF s4, x
  <2> QED BY <1>1, <1>3, <1>7, Joins DEF Calm
<1>9. Calm(s6) /\ x \in ToSet(s6)
  <2> HIDE DEF s5, x
  <2> QED BY <1>1, <1>3, <1>8, Joins DEF Calm
<1>10. Calm(s7) /\ x \in ToSet(s7)
  <2> HIDE DEF s6, x
  <2> QED BY <1>1, <1>3, <1>9, Joins DEF Calm
<1>11. Calm(s8) /\ x \in ToSet(s8)
  <2> HIDE DEF s7, x
  <2> QED BY <1>1, <1>3, <1>10, Joins DEF Calm
<1>12. Calm(s9) /\ x \in ToSet(s9)
  <2> HIDE DEF s8, x
  <2> QED BY <1>1, <1>3, <1>11, Joins DEF Calm
<1>13. Calm(s10) /\ x \in ToSet(s10)
  <2> HIDE DEF s9, x
  <2> QED BY <1>1, <1>3, <1>12, Joins DEF Calm
<1>14. Calm(s11) /\ x \in ToSet(s11)
  <2> HIDE DEF s10, x
  <2> QED BY <1>1, <1>3, <1>13, Joins DEF Calm
<1>15. Calm(s12) /\ x \in ToSet(s12)
  <2> HIDE DEF s11, x
  <2> QED BY <1>1, <1>3, <1>14, Joins DEF Calm
<1>16. Calm(s13) /\ x \in ToSet(s13)
  <2> HIDE DEF s12, x
  <2> QED BY <1>1, <1>3, <1>15, Joins DEF Calm
<1>17. Calm(s14) /\ x \in ToSet(s14)
  <2> HIDE DEF s13, x
  <2> QED BY <1>1, <1>3, <1>16, Joins DEF Calm
<1>18. Calm(s15) /\ x \in ToSet(s15)
  <2> HIDE DEF s14, x
  <2> QED BY <1>1, <1>3, <1>17, Joins DEF Calm
<1>19. Calm(s16) /\ x \in ToSet(s16)
  <2> HIDE DEF s15, x
  <2> QED BY <1>1, <1>3, <1>18, Joins DEF Calm
<1> QED BY <1>19 DEF Bootstrap

\* The parts a download goes through.
LEMMA Binary ==
  /\ "claude binary" \in Parts /\ "codex binary" \in Parts
  /\ "claude staging" \in Parts /\ "codex staging" \in Parts /\ "codex extract" \in Parts
<1>1. ASSUME NEW b \in Backends, NEW s \in ToSet(Bootstrap(b)), s.does # "observe", s.part # "session"
      PROVE  s.part \in Parts
  <2>1. s.part \in Proven(b) BY <1>1 DEF Proven
  <2>2. Proven(b) \cup Provisioned(b) \in {Proven(c) \cup Provisioned(c) : c \in Backends} OBVIOUS
  <2> QED BY <2>1, <2>2, Zenon DEF Parts
<1>2. Claude!Installs("claude binary") \in ToSet(Bootstrap("claude-code"))
      /\ Cdx!Installs("codex binary") \in ToSet(Bootstrap("codex"))
  <2>1. Of("claude-code", Claude!Installs("claude binary"), Cdx!Installs("codex binary"))
          = Claude!Installs("claude binary")
        /\ Of("codex", Claude!Installs("claude binary"), Cdx!Installs("codex binary"))
          = Cdx!Installs("codex binary")
    BY DEF Of
  <2> QED BY <2>1, BootstrapCalm DEF Backends
<1>3. /\ Claude!Installs("claude binary").does = "install"
      /\ Claude!Installs("claude binary").part = "claude binary"
      /\ Cdx!Installs("codex binary").does = "install"
      /\ Cdx!Installs("codex binary").part = "codex binary"
  BY DEF Claude!Installs, Claude!Step, Cdx!Installs, Cdx!Step
<1>4. "claude binary" \in Parts
  <2> DEFINE s == Claude!Installs("claude binary")
  <2>1. s \in ToSet(Bootstrap("claude-code")) /\ s.does = "install" /\ s.part = "claude binary"
    BY <1>2, <1>3
  <2> HIDE DEF s
  <2> QED BY <1>1, <2>1 DEF Backends
<1>5. "codex binary" \in Parts
  <2> DEFINE s == Cdx!Installs("codex binary")
  <2>1. s \in ToSet(Bootstrap("codex")) /\ s.does = "install" /\ s.part = "codex binary"
    BY <1>2, <1>3
  <2> HIDE DEF s
  <2> QED BY <1>1, <2>1 DEF Backends
<1>6. "claude staging" \in Parts /\ "codex staging" \in Parts /\ "codex extract" \in Parts
  <2> DEFINE U == UNION {Proven(b) \cup Provisioned(b) : b \in Backends}
             D == {"claude staging", "codex staging", "codex extract"}
  <2>1. Parts = U \cup D BY Zenon DEF Parts
  <2> HIDE DEF U
  <2> QED BY <2>1
<1> QED BY <1>4, <1>5, <1>6

-----------------------------------------------------------------------------
(* What a command is planned to do, and what it has left. *)

LEMMA Does ==
  ASSUME NEW p, NEW q
  PROVE  /\ Places(p, q).does = "place" /\ Checks(p).does = "check" /\ Fetches(p).does = "fetch"
         /\ Clears(p).does = "clear" /\ Host(p).does = p
BY DEF Places, Checks, Fetches, Clears, Host, Step

LEMMA DownloadHead ==
  ASSUME NEW pl, Downloads(pl)
  PROVE  pl # <<>> /\ Head(pl).does \in {"place", "check", "clear", "fetch"}
<1>1. pl # <<>> /\ \E p, q : Head(pl) \in {Places(p, q), Checks(p), Clears(p), Fetches(p)}
  BY DEF Downloads, claudePlace, claudeCheck, claudeFetch, codexPlace, codexUnpack, codexClear, codexCheck,
         codexFetch, Starts
<1> QED BY <1>1, Does

LEMMA InitHead ==
  ASSUME NEW pl
  PROVE  /\ declares(pl) => pl # <<>> /\ Head(pl).does = "declare"
         /\ makes(pl) => pl # <<>> /\ Head(pl).does = "make"
<1>1. declares(pl) => pl # <<>> /\ Head(pl) = Host("declare") BY DEF declares
<1>2. makes(pl) => pl # <<>> /\ Head(pl) = Host("make") BY DEF makes
<1> QED BY <1>1, <1>2, Does

LEMMA PlannedFollows ==
  ASSUME NEW op \in {"init", "start", "stop", "bootstrap"}, NEW b \in Backends, NEW j, j.op = op
  PROVE  Follows(j, Planned(op, b)) /\ ~Downloads(Planned(op, b))
         /\ (declares(Planned(op, b)) => op = "init") /\ ~makes(Planned(op, b))
<1>1. CASE op = "init"
  <2>1. Planned(op, b) = <<Host("declare"), Host("make")>> BY <1>1 DEF Planned
  <2>2. Head(Planned(op, b)).does = "declare" BY <2>1, Does
  <2>3. ~Downloads(Planned(op, b)) BY <2>2, DownloadHead
  <2>4. ~makes(Planned(op, b)) BY <2>2, InitHead
  <2> QED BY <1>1, <2>1, <2>3, <2>4 DEF Follows, declares
<1>2. CASE op \in {"start", "stop"}
  <2>1. Host("boot") \in Machine /\ Host("reconnect") \in Machine /\ Host("halt") \in Machine
    BY Known DEF Host, Step, Machine
  <2>2. Planned(op, b) = <<Host("boot"), Host("reconnect")>> \/ Planned(op, b) = <<Host("halt")>>
    BY <1>2 DEF Planned
  <2>3. Planned(op, b) \in Seq(Machine) BY <2>1, <2>2, Listed
  <2>4. Head(Planned(op, b)).does \in {"boot", "halt"} BY <2>2, Does
  <2>5. ~Downloads(Planned(op, b)) BY <2>4, DownloadHead
  <2>6. ~declares(Planned(op, b)) /\ ~makes(Planned(op, b)) BY <2>4, InitHead
  <2> QED BY <1>2, <2>3, <2>5, <2>6 DEF Follows
<1>3. CASE op = "bootstrap"
  <2>1. Calm(<<Host("running")>>) BY One, Known DEF Host, Calm
  <2>2. Calm(Bootstrap(b)) BY BootstrapCalm
  <2>3. Planned(op, b) = <<Host("running")>> \o Bootstrap(b) BY <1>3 DEF Planned
  <2>4. Calm(Planned(op, b)) BY <2>1, <2>2, <2>3, Joins DEF Calm
  <2>5. Head(Planned(op, b)) = Host("running")
    <3> DEFINE h == Host("running")
               s == Bootstrap(b)
    <3>1. s \in Seq(Plain) BY <2>2 DEF Calm
    <3> HIDE DEF h, s
    <3>2. Head(<<h>> \o s) = h BY <3>1
    <3> QED BY <2>3, <3>2 DEF h, s
  <2>6. Head(Planned(op, b)).does = "running" BY <2>5, Does
  <2>7. ~Downloads(Planned(op, b)) BY <2>6, DownloadHead
  <2>8. ~declares(Planned(op, b)) /\ ~makes(Planned(op, b)) BY <2>6, InitHead
  <2> QED BY <1>3, <2>4, <2>7, <2>8 DEF Follows
<1> QED BY <1>1, <1>2, <1>3

\* What the first step of a plan says of the rest.
LEMMA CalmParts ==
  ASSUME NEW pl, Calm(pl), pl # <<>>
  PROVE  Calm(Tail(pl)) /\ Head(pl) \in Plain
BY HeadTailProperties DEF Calm

LEMMA CalmApart ==
  ASSUME NEW pl, Calm(pl)
  PROVE  ~Downloads(pl) /\ ~declares(pl) /\ ~makes(pl)
<1>1. ASSUME pl # <<>> PROVE Head(pl).does \in Verbs BY <1>1, CalmParts DEF Plain
<1>2. "place" \notin Verbs /\ "fetch" \notin Verbs /\ "declare" \notin Verbs /\ "make" \notin Verbs
  BY DEF Verbs
<1>3. ASSUME NEW q, Calm(q) PROVE ~claudePlace(q) /\ ~codexPlace(q) /\ ~codexUnpack(q)
  <2>1. q # <<>> => Head(q).does \in Verbs BY <1>3, CalmParts DEF Plain
  <2>2. claudePlace(q) \/ codexPlace(q) \/ codexUnpack(q) =>
          q # <<>> /\ \E p, f : Head(q) = Places(p, f)
    BY DEF claudePlace, codexPlace, codexUnpack, Starts
  <2> QED BY <1>2, <2>1, <2>2, Does
<1>4. ASSUME NEW q, Calm(q) PROVE ~claudeCheck(q) /\ ~codexClear(q)
  <2>1. q # <<>> => Calm(Tail(q)) BY <1>4, CalmParts
  <2> QED BY <1>3, <2>1 DEF claudeCheck, codexClear, Starts
<1>5. ~codexCheck(pl)
  <2>1. pl # <<>> => Calm(Tail(pl)) BY CalmParts
  <2> QED BY <1>4, <2>1 DEF codexCheck, Starts
<1>6. ~claudeFetch(pl) /\ ~codexFetch(pl)
  <2>1. claudeFetch(pl) \/ codexFetch(pl) => pl # <<>> /\ \E p : Head(pl) = Fetches(p)
    BY DEF claudeFetch, codexFetch, Starts
  <2> QED BY <1>1, <1>2, <2>1, Does
<1>7. ~declares(pl) /\ ~makes(pl)
  BY <1>1, <1>2, InitHead
<1> QED BY <1>3, <1>4, <1>5, <1>6, <1>7 DEF Downloads

-----------------------------------------------------------------------------
(* A step of a command. *)

\* What command c has left when one of its steps is over: nothing, the rest, or
\* the rest with what is made of a missing part before it.
Moves(c) ==
  \/ plan'[c] = <<>>
  \/ plan'[c] = Tail(plan[c])
  \/ /\ Calm(plan[c]) /\ plan[c] # <<>> /\ job[c].reconcile /\ job[c].op = "bootstrap"
     /\ Calm(plan'[c]) \/ claudeFetch(plan'[c]) \/ codexFetch(plan'[c])

Others(c) == /\ \A d \in Commands : d # c => plan'[d] = plan[d]
             /\ plan' = [d \in Commands |-> plan'[d]]
             /\ result' \in [Commands -> {"none", "ok", "refused", "failed"}]
             /\ UNCHANGED <<job, touched>>

\* The shapes a plan with this first step can have.
LEMMA ByHead ==
  ASSUME Base, NEW c \in Commands, Running(c)
  PROVE  LET s == Head(plan[c])
             j == job[c]
             d == s.does
             pl == plan[c]
         IN  /\ d = "declare" => j.op = "init" /\ declares(pl)
             /\ d = "make" => j.op = "init" /\ makes(pl)
             /\ d \in {"boot", "reconnect", "halt"} => j.op \in {"start", "stop"} /\ pl \in Seq(Machine)
             /\ d \in {"running", "prove", "provePath", "proveOwner", "create", "write", "repoint",
                       "link", "observe", "install", "answer"} => j.op = "bootstrap" /\ Calm(pl)
             /\ d = "fetch" => claudeFetch(pl) \/ codexFetch(pl)
             /\ d = "check" => Calm(pl) \/ claudeCheck(pl) \/ codexCheck(pl)
             /\ d = "clear" => Calm(pl) \/ codexClear(pl)
             /\ d = "place" => claudePlace(pl) \/ codexUnpack(pl) \/ codexPlace(pl)
             /\ d \notin {"declare", "make", "boot", "reconnect", "halt"} => j.op = "bootstrap"
             /\ Downloads(pl) => j.op = "bootstrap" /\ j.reconcile = TRUE
<1> DEFINE pl == plan[c]
           j == job[c]
<1>0. pl # <<>> /\ Follows(j, pl) BY DEF Running, Base, Ordered
<1>1. CASE j.op = "init" /\ (declares(pl) \/ makes(pl))
  <2>1. \/ declares(pl) /\ Head(pl).does = "declare"
        \/ makes(pl) /\ Head(pl).does = "make"
    BY <1>1, InitHead
  <2>2. ~Downloads(pl) BY <2>1, DownloadHead
  <2> QED BY <1>1, <2>1, <2>2
<1>2. CASE j.op \in {"start", "stop"} /\ pl \in Seq(Machine)
  <2>1. Head(pl) \in Machine BY <1>0, <1>2, HeadTailProperties
  <2>2. Head(pl).does \in {"boot", "reconnect", "halt"} BY <2>1 DEF Machine
  <2>3. ~Downloads(pl) BY <2>2, DownloadHead
  <2> QED BY <1>2, <2>2, <2>3
<1>3. CASE j.op = "bootstrap" /\ Calm(pl)
  <2>1. Head(pl).does \in Verbs BY <1>0, <1>3, CalmParts DEF Plain
  <2>2. Head(pl).does \notin {"declare", "make", "boot", "reconnect", "halt", "fetch", "place"}
    BY <2>1 DEF Verbs
  <2>3. ~Downloads(pl) BY <1>3, CalmApart
  <2> QED BY <1>3, <2>2, <2>3
<1>4. CASE j.op = "bootstrap" /\ j.reconcile = TRUE /\ Downloads(pl)
  <2>1. ASSUME claudePlace(pl) \/ codexUnpack(pl) \/ codexPlace(pl) PROVE Head(pl).does = "place"
    <3>1. \E p, f : Head(pl) = Places(p, f)
      BY <2>1 DEF claudePlace, codexUnpack, codexPlace, Starts
    <3> QED BY <3>1, Does
  <2>2. ASSUME claudeCheck(pl) \/ codexCheck(pl) PROVE Head(pl).does = "check"
    <3>1. \E p : Head(pl) = Checks(p) BY <2>2 DEF claudeCheck, codexCheck, Starts
    <3> QED BY <3>1, Does
  <2>3. ASSUME claudeFetch(pl) \/ codexFetch(pl) PROVE Head(pl).does = "fetch"
    <3>1. \E p : Head(pl) = Fetches(p) BY <2>3 DEF claudeFetch, codexFetch, Starts
    <3> QED BY <3>1, Does
  <2>4. ASSUME codexClear(pl) PROVE Head(pl).does = "clear"
    <3>1. \E p : Head(pl) = Clears(p) BY <2>4 DEF codexClear, Starts
    <3> QED BY <3>1, Does
  <2> QED BY <1>4, <2>1, <2>2, <2>3, <2>4 DEF Downloads
<1> QED BY <1>0, <1>1, <1>2, <1>3, <1>4 DEF Follows

\* The rest of a plan is a plan of the same job.
LEMMA MovesOn ==
  ASSUME Base, NEW c \in Commands, Running(c), Moves(c), Others(c)
  PROVE  Ordered'
<1> DEFINE pl == plan[c]
           j == job[c]
           rest == plan'[c]
<1>0. pl # <<>> /\ Follows(j, pl) BY DEF Running, Base, Ordered
<1>1. job' = job BY DEF Others
<1>2. Follows(j, rest)
  <2>1. CASE rest = <<>> BY <2>1 DEF Follows
  <2>2. CASE rest = Tail(pl)
    <3>1. CASE j.op = "init" /\ (declares(pl) \/ makes(pl))
      <4>1. \A a, b : Tail(<<a, b>>) = <<b>> /\ Tail(<<a>>) = <<>> OBVIOUS
      <4>2. Tail(<<Host("declare"), Host("make")>>) = <<Host("make")>> /\ Tail(<<Host("make")>>) = <<>>
        BY <4>1
      <4> QED BY <2>2, <3>1, <4>2 DEF Follows, declares, makes
    <3>2. CASE j.op \in {"start", "stop"} /\ pl \in Seq(Machine)
      BY <1>0, <2>2, <3>2, HeadTailProperties DEF Follows
    <3>3. CASE j.op = "bootstrap" /\ Calm(pl)
      BY <1>0, <2>2, <3>3, CalmParts DEF Follows
    <3>4. CASE j.op = "bootstrap" /\ j.reconcile = TRUE /\ Downloads(pl)
      <4>1. Calm(rest) \/ Downloads(rest)
        BY <2>2, <3>4
        DEF Downloads, claudePlace, claudeCheck, claudeFetch, codexPlace, codexUnpack, codexClear,
            codexCheck, codexFetch
      <4> QED BY <3>4, <4>1 DEF Follows
    <3> QED BY <1>0, <3>1, <3>2, <3>3, <3>4 DEF Follows
  <2>3. CASE j.op = "bootstrap" /\ j.reconcile /\ (Calm(rest) \/ claudeFetch(rest) \/ codexFetch(rest))
    <3>1. j.reconcile = TRUE BY <2>3 DEF Base, JobsTyped, Jobs
    <3> QED BY <2>3, <3>1 DEF Follows, Downloads
  <2> QED BY <2>1, <2>2, <2>3 DEF Moves
<1>3. ASSUME NEW d \in Commands, d # c PROVE Follows(job'[d], plan'[d])
  BY <1>1, <1>3 DEF Others, Base, Ordered
<1> QED BY <1>1, <1>2, <1>3 DEF Ordered

LEMMA EndMoves ==
  ASSUME JobsTyped, NEW c \in Commands, NEW how \in {"ok", "refused", "failed"}, End(c, how)
  PROVE  plan'[c] = <<>> /\ Others(c)
BY DEF End, Others, JobsTyped

LEMMA AdvanceMoves ==
  ASSUME JobsTyped, NEW c \in Commands, Advance(c)
  PROVE  plan'[c] = Tail(plan[c]) /\ Others(c)
BY DEF Advance, Others, JobsTyped

LEMMA InsertMoves ==
  ASSUME JobsTyped, NEW c \in Commands, NEW steps, Insert(c, steps)
  PROVE  plan'[c] = steps \o Tail(plan[c]) /\ Others(c)
BY DEF Insert, Others, JobsTyped

\* One step after the other.
LEMMA First ==
  ASSUME NEW S, NEW s \in Seq(S), NEW a, NEW b, NEW c, NEW d
  PROVE  /\ <<a>> \o s # <<>> /\ Head(<<a>> \o s) = a /\ Tail(<<a>> \o s) = s
         /\ <<a, b>> \o s # <<>> /\ Head(<<a, b>> \o s) = a /\ Tail(<<a, b>> \o s) = <<b>> \o s
         /\ <<a, b, c>> \o s # <<>> /\ Head(<<a, b, c>> \o s) = a /\ Tail(<<a, b, c>> \o s) = <<b, c>> \o s
         /\ <<a, b, c, d>> \o s # <<>> /\ Head(<<a, b, c, d>> \o s) = a
         /\ Tail(<<a, b, c, d>> \o s) = <<b, c, d>> \o s
<1>1. <<a>> \o s # <<>> /\ Head(<<a>> \o s) = a /\ Tail(<<a>> \o s) = s OBVIOUS
<1>2. <<a, b>> \o s # <<>> /\ Head(<<a, b>> \o s) = a /\ Tail(<<a, b>> \o s) = <<b>> \o s OBVIOUS
<1>3. <<a, b, c>> \o s # <<>> /\ Head(<<a, b, c>> \o s) = a /\ Tail(<<a, b, c>> \o s) = <<b, c>> \o s
  OBVIOUS
<1>4. /\ <<a, b, c, d>> \o s # <<>> /\ Head(<<a, b, c, d>> \o s) = a
      /\ Tail(<<a, b, c, d>> \o s) = <<b, c, d>> \o s
  OBVIOUS
<1> QED BY <1>1, <1>2, <1>3, <1>4

LEMMA ConsIn == ASSUME NEW S, NEW a \in S, NEW s \in Seq(S) PROVE <<a>> \o s \in Seq(S)
OBVIOUS

LEMMA Downloading ==
  ASSUME NEW q, Calm(q)
  PROVE  claudeFetch(Claude!download \o q) /\ codexFetch(Cdx!download \o q)
<1>1. claudeFetch(Claude!download \o q)
  <2> DEFINE F == Fetches("claude staging")
             C == Checks("claude staging")
             P == Places("claude binary", "claude staging")
             K == Clears("claude staging")
             S == Plain \cup {F, C, P, K}
             pl == Claude!download \o q
  <2>1. Claude!download = <<F, C, P, K>>
    BY DEF Claude!download, Claude!Fetches, Claude!Checks, Claude!Places, Claude!Clears, Claude!Step,
           Fetches, Checks, Places, Clears, Step
  <2>2. q \in Seq(S) /\ Calm(<<K>> \o q)
    <3>1. K \in Plain BY One, Known DEF Clears
    <3> HIDE DEF K
    <3>2. <<K>> \o q \in Seq(Plain) BY <3>1, ConsIn DEF Calm
    <3>3. Plain \subseteq S OBVIOUS
    <3> HIDE DEF S
    <3> QED BY <3>2, <3>3, SeqMonotonic DEF Calm
  <2>3. F \in S /\ C \in S /\ P \in S /\ K \in S OBVIOUS
  <2> HIDE DEF F, C, P, K, S
  <2>4. pl = <<F, C, P, K>> \o q BY <2>1
  <2> HIDE DEF pl
  <2>5. /\ pl # <<>> /\ Head(pl) = F
        /\ Tail(pl) # <<>> /\ Head(Tail(pl)) = C
        /\ Tail(Tail(pl)) # <<>> /\ Head(Tail(Tail(pl))) = P
        /\ Tail(Tail(Tail(pl))) = <<K>> \o q
    <3> DEFINE y == Tail(pl)
               z == Tail(y)
    <3>1. pl # <<>> /\ Head(pl) = F /\ y = <<C, P, K>> \o q BY <2>2, <2>4, First
    <3> HIDE DEF y
    <3>2. y # <<>> /\ Head(y) = C /\ z = <<P, K>> \o q BY <2>2, <3>1, First
    <3> HIDE DEF z
    <3>3. z # <<>> /\ Head(z) = P /\ Tail(z) = <<K>> \o q BY <2>2, <3>2, First
    <3> QED BY <3>1, <3>2, <3>3 DEF y, z
  <2>6. claudeFetch(pl) BY <2>2, <2>5 DEF claudeFetch, claudeCheck, claudePlace, Starts, F, C, P
  <2> QED BY <2>6 DEF pl
<1>2. codexFetch(Cdx!download \o q)
  <2> DEFINE F == Fetches("codex staging")
             C == Checks("codex staging")
             E == Clears("codex extract")
             P == Places("codex extract", "codex staging")
             B == Places("codex binary", "codex extract")
             K == Clears("codex staging")
             S == Plain \cup {F, C, E, P, B, K}
             u == <<K>> \o q
             t == <<E, P, B, E>> \o u
             pl == Cdx!download \o q
  <2>1. Cdx!download = (<<F, C>> \o <<E, P, B, E>>) \o <<K>>
    <3>1. Cdx!Fetches("codex staging") = F /\ Cdx!Checks("codex staging") = C
          /\ Cdx!Clears("codex extract") = E /\ Cdx!Places("codex extract", "codex staging") = P
          /\ Cdx!Places("codex binary", "codex extract") = B /\ Cdx!Clears("codex staging") = K
      BY DEF Cdx!Fetches, Cdx!Checks, Cdx!Places, Cdx!Clears, Cdx!Step, Fetches, Checks, Places, Clears, Step
    <3> HIDE DEF F, C, E, P, B, K
    <3> QED BY <3>1 DEF Cdx!download, Cdx!extract
  <2>2. q \in Seq(S) /\ u \in Seq(S) /\ Calm(<<E>> \o u)
    <3>1. K \in Plain /\ E \in Plain BY One, Known DEF Clears
    <3> HIDE DEF K, E
    <3>2. u \in Seq(Plain) BY <3>1, ConsIn DEF Calm
    <3> HIDE DEF u
    <3>3. <<E>> \o u \in Seq(Plain) BY <3>1, <3>2, ConsIn
    <3>4. Plain \subseteq S OBVIOUS
    <3> HIDE DEF S
    <3> QED BY <3>2, <3>3, <3>4, SeqMonotonic DEF Calm
  <2>3. F \in S /\ C \in S /\ E \in S /\ P \in S /\ B \in S /\ K \in S OBVIOUS
  <2> HIDE DEF F, C, E, P, B, K, S
  <2>4. /\ <<K>> \in Seq(S) /\ <<F>> \in Seq(S) /\ <<C>> \in Seq(S) /\ <<F, C>> \in Seq(S)
        /\ <<E, P, B, E>> \in Seq(S)
    BY <2>3, Listed
  <2>5. t \in Seq(S) BY <2>2, <2>4, ConcatProperties
  <2>6. pl = <<F, C>> \o t
    <3> DEFINE f == <<F, C>>
               e == <<E, P, B, E>>
               k == <<K>>
    <3>1. f \in Seq(S) /\ e \in Seq(S) /\ k \in Seq(S) BY <2>4
    <3>2. pl = ((f \o e) \o k) \o q BY <2>1
    <3>3. t = e \o (k \o q) OBVIOUS
    <3> HIDE DEF f, e, k, t, pl
    <3>4. f \o e \in Seq(S) /\ k \o q \in Seq(S) BY <2>2, <3>1, ConcatProperties
    <3>5. ((f \o e) \o k) \o q = (f \o e) \o (k \o q)
      <4> DEFINE g == f \o e
      <4>1. g \in Seq(S) BY <3>4
      <4> HIDE DEF g
      <4>2. q \in Seq(S) /\ k \in Seq(S) BY <2>2, <3>1
      <4>3. (g \o k) \o q = g \o (k \o q) BY <4>1, <4>2, ConcatAssociative
      <4> QED BY <4>3 DEF g
    <3>6. (f \o e) \o (k \o q) = f \o (e \o (k \o q)) BY <3>1, <3>4, ConcatAssociative
    <3>7. pl = f \o t BY <3>2, <3>3, <3>5, <3>6
    <3> QED BY <3>7 DEF f
  <2>7. /\ t # <<>> /\ Head(t) = E
        /\ Tail(t) # <<>> /\ Head(Tail(t)) = P
        /\ Tail(Tail(t)) # <<>> /\ Head(Tail(Tail(t))) = B
        /\ Tail(Tail(Tail(t))) = <<E>> \o u
    <3>1. u \in Seq(S) /\ t = <<E, P, B, E>> \o u BY <2>2
    <3> DEFINE y == Tail(t)
               z == Tail(y)
    <3> HIDE DEF u, t
    <3>2. t # <<>> /\ Head(t) = E /\ y = <<P, B, E>> \o u BY <3>1, First
    <3> HIDE DEF y
    <3>3. y # <<>> /\ Head(y) = P /\ z = <<B, E>> \o u BY <3>1, <3>2, First
    <3> HIDE DEF z
    <3>4. z # <<>> /\ Head(z) = B /\ Tail(z) = <<E>> \o u BY <3>1, <3>3, First
    <3> QED BY <3>2, <3>3, <3>4 DEF y, z
  <2> HIDE DEF t, pl
  <2>8. pl # <<>> /\ Head(pl) = F /\ Tail(pl) = <<C>> \o t BY <2>5, <2>6, First
  <2> DEFINE v == Tail(pl)
  <2>9. v # <<>> /\ Head(v) = C /\ Tail(v) = t
    <3>1. v = <<C>> \o t BY <2>8
    <3> HIDE DEF v
    <3> QED BY <2>5, <3>1, First
  <2>10. codexClear(t) BY <2>2, <2>7 DEF codexClear, codexUnpack, codexPlace, Starts, E, P, B
  <2>11. codexFetch(pl) BY <2>8, <2>9, <2>10 DEF codexFetch, codexCheck, Starts, F, C
  <2> QED BY <2>11 DEF pl
<1> QED BY <1>1, <1>2

\* What any command may do next.
Acts(c) == \/ Declare(c) \/ Make(c) \/ Boot(c) \/ Reconnect(c) \/ Halt(c)
           \/ GuestStep(c) \/ Fail(c)

LEMMA Ended ==
  ASSUME Base, NEW c \in Commands, NEW how \in {"ok", "refused", "failed"}, End(c, how)
  PROVE  Moves(c) /\ Others(c)
BY EndMoves DEF Base, Moves

LEMMA Advanced ==
  ASSUME Base, NEW c \in Commands, Advance(c)
  PROVE  Moves(c) /\ Others(c)
BY AdvanceMoves DEF Base, Moves

\* What is made of a missing part comes before the rest.
LEMMA Inserted ==
  ASSUME Base, NEW c \in Commands, Running(c), job[c].reconcile,
         Head(plan[c]).does \in {"create", "repoint", "install"},
         \/ Insert(c, <<Writes(Next1(c).part)>>)
         \/ Insert(c, <<Links(Next1(c).part)>>)
         \/ Insert(c, Of(job[c].backend, Claude!download, Cdx!download))
  PROVE  Moves(c) /\ Others(c)
<1>1. plan[c] # <<>> /\ job[c].op = "bootstrap" /\ Calm(plan[c]) BY ByHead DEF Running
<1> DEFINE rest == Tail(plan[c])
           p == Next1(c).part
<1>2. Calm(rest) /\ p \in Names BY <1>1, CalmParts DEF Next1, Plain
<1> HIDE DEF rest, p
<1>3. ASSUME NEW s \in Plain PROVE Calm(<<s>> \o rest)
  BY <1>2, ConsIn DEF Calm
<1>4. Writes(p) \in Plain /\ Links(p) \in Plain BY <1>2, One, Known DEF Writes, Links
<1>5. Others(c) BY InsertMoves DEF Base
<1>6. CASE Insert(c, <<Writes(p)>>)
  <2>1. plan'[c] = <<Writes(p)>> \o rest BY <1>6, InsertMoves DEF Base, rest
  <2>2. Calm(plan'[c]) BY <1>3, <1>4, <2>1
  <2> QED BY <1>1, <1>5, <2>2 DEF Moves
<1>7. CASE Insert(c, <<Links(p)>>)
  <2>1. plan'[c] = <<Links(p)>> \o rest BY <1>7, InsertMoves DEF Base, rest
  <2>2. Calm(plan'[c]) BY <1>3, <1>4, <2>1
  <2> QED BY <1>1, <1>5, <2>2 DEF Moves
<1>8. CASE Insert(c, Of(job[c].backend, Claude!download, Cdx!download))
  <2>1. plan'[c] = Of(job[c].backend, Claude!download, Cdx!download) \o rest
    BY <1>8, InsertMoves DEF Base, rest
  <2>2. plan'[c] = Claude!download \o rest \/ plan'[c] = Cdx!download \o rest BY <2>1 DEF Of
  <2>3. claudeFetch(plan'[c]) \/ codexFetch(plan'[c]) BY <1>2, <2>2, Downloading
  <2> QED BY <1>1, <1>5, <2>3 DEF Moves
<1> QED BY <1>6, <1>7, <1>8 DEF p

LEMMA SetTyped ==
  ASSUME GuestTyped, NEW p, NEW to \in Conditions, SetPart(p, to)
  PROVE  GuestTyped'
BY DEF GuestTyped, SetPart

LEMMA SameTyped == GuestTyped /\ UNCHANGED guestVars => GuestTyped'
BY DEF GuestTyped, guestVars

LEMMA BootedTyped ==
  ASSUME GuestTyped, Booted
  PROVE  GuestTyped'
<1>1. part' \in [Parts -> Conditions] BY DEF GuestTyped, Booted, Conditions
<1> QED BY <1>1 DEF GuestTyped, Booted

LEMMA GuestStepGoesOn ==
  ASSUME Base, NEW c \in Commands, GuestStep(c)
  PROVE  Running(c) /\ Moves(c) /\ Others(c) /\ GuestTyped'
<1>0. Running(c)
  BY DEF GuestStep, Prove, Answer, MakeAbsent, Write, Repoint, DownloadAbsent, Fetch, Check, Place,
         Clear, In
<1> USE <1>0
<1>a. GuestTyped BY DEF Base
<1>b. "good" \in Conditions /\ "absent" \in Conditions /\ "foreign" \in Conditions BY DEF Conditions
<1>c. ASSUME Refuse(c) \/ (Advance(c) /\ UNCHANGED guestVars) \/ (End(c, "failed") /\ UNCHANGED guestVars)
      PROVE  Moves(c) /\ Others(c) /\ GuestTyped'
  BY <1>a, <1>c, Ended, Advanced, SameTyped DEF Refuse
<1>d. ASSUME NEW p, NEW to \in Conditions, SetPart(p, to), Advance(c) \/ End(c, "failed")
      PROVE  Moves(c) /\ Others(c) /\ GuestTyped'
  BY <1>a, <1>d, Ended, Advanced, SetTyped
<1>1. CASE Prove(c) BY <1>1, <1>c DEF Prove
<1>2. CASE Answer(c) BY <1>2, <1>c DEF Answer
<1>3. CASE MakeAbsent(c)
  <2>1. CASE /\ job[c].reconcile /\ Insert(c, <<Writes(Next1(c).part)>>) /\ UNCHANGED guestVars
    <3>1. Head(plan[c]).does \in {"create", "repoint", "install"} BY <1>3 DEF MakeAbsent, In, Next1
    <3> QED BY <1>a, <2>1, <3>1, Inserted, SameTyped
  <2> QED BY <1>3, <1>c, <2>1 DEF MakeAbsent
<1>4. CASE Write(c) BY <1>4, <1>b, <1>d DEF Write
<1>5. CASE Repoint(c)
  <2>1. CASE /\ job[c].reconcile /\ Insert(c, <<Links(Next1(c).part)>>) /\ UNCHANGED guestVars
    <3>1. Head(plan[c]).does \in {"create", "repoint", "install"} BY <1>5 DEF Repoint, In, Next1
    <3> QED BY <1>a, <2>1, <3>1, Inserted, SameTyped
  <2> QED BY <1>5, <1>c, <2>1 DEF Repoint
<1>6. CASE DownloadAbsent(c)
  <2>1. CASE /\ job[c].reconcile /\ Insert(c, Of(job[c].backend, Claude!download, Cdx!download))
             /\ UNCHANGED guestVars
    <3>1. Head(plan[c]).does \in {"create", "repoint", "install"} BY <1>6 DEF DownloadAbsent, In, Next1
    <3> QED BY <1>a, <2>1, <3>1, Inserted, SameTyped
  <2> QED BY <1>6, <1>c, <2>1 DEF DownloadAbsent
<1>7. CASE Fetch(c) BY <1>7, <1>b, <1>d DEF Fetch
<1>8. CASE Check(c) BY <1>8, <1>b, <1>c, <1>d DEF Check
<1>9. CASE Place(c)
  <2>1. CASE SetPart(Next1(c).part, part[Next1(c).from]) /\ Advance(c)
    <3>1. claudePlace(plan[c]) \/ codexUnpack(plan[c]) \/ codexPlace(plan[c])
      BY <1>9, ByHead DEF Place, In, Next1
    <3>2. Next1(c).from \in {"claude staging", "codex staging", "codex extract"}
      <4>1. \/ Next1(c) = Places("claude binary", "claude staging")
            \/ Next1(c) = Places("codex extract", "codex staging")
            \/ Next1(c) = Places("codex binary", "codex extract")
        BY <3>1 DEF claudePlace, codexUnpack, codexPlace, Starts, Next1
      <4>2. Places("claude binary", "claude staging").from = "claude staging" BY DEF Places, Step
      <4>3. Places("codex extract", "codex staging").from = "codex staging" BY DEF Places, Step
      <4>4. Places("codex binary", "codex extract").from = "codex extract" BY DEF Places, Step
      <4> QED BY <4>1, <4>2, <4>3, <4>4
    <3>3. part[Next1(c).from] \in Conditions BY <1>a, <3>2, Binary DEF GuestTyped
    <3> QED BY <1>d, <2>1, <3>3
  <2> QED BY <1>9, <1>b, <1>c, <1>d, <2>1 DEF Place
<1>10. CASE Clear(c) BY <1>10, <1>b, <1>d DEF Clear
<1> QED
  BY <1>1, <1>2, <1>3, <1>4, <1>5, <1>6, <1>7, <1>8, <1>9, <1>10 DEF GuestStep

LEMMA ActsGoOn ==
  ASSUME Base, NEW c \in Commands, Acts(c)
  PROVE  Running(c) /\ Moves(c) /\ Others(c) /\ GuestTyped'
<1>a. GuestTyped /\ JobsTyped BY DEF Base
<1>b. ASSUME Refuse(c) PROVE Moves(c) /\ Others(c) /\ GuestTyped'
  BY <1>a, <1>b, Ended, SameTyped DEF Refuse
<1>1. CASE Declare(c)
  <2>1. job[c].flag \in Backends \cup {"none"} BY <1>a, FlagsAssumption DEF JobsTyped, Jobs, NoFlag
  <2>2. GuestTyped' BY <1>1, <1>a, <2>1 DEF Declare, GuestTyped
  <2> QED BY <1>1, <2>2, Advanced DEF Declare
<1>2. CASE Make(c)
  <2>1. job[c].backend \in Backends BY <1>a DEF JobsTyped, Jobs
  <2>2. GuestTyped' BY <1>2, <1>a, <2>1 DEF Make, GuestTyped
  <2> QED BY <1>2, <2>2, Advanced DEF Make
<1>3. CASE Boot(c)
  <2>1. CASE vm = "running" /\ End(c, "ok") /\ UNCHANGED guestVars
    BY <1>3, <1>a, <2>1, Ended, SameTyped DEF Boot
  <2>2. CASE vm = "stopped" /\ Booted /\ (IF weak' = weak THEN Advance(c) ELSE End(c, "failed"))
    BY <1>3, <1>a, <2>2, Ended, Advanced, BootedTyped DEF Boot
  <2> QED BY <1>3, <1>b, <2>1, <2>2 DEF Boot
<1>4. CASE Reconnect(c)
  <2>1. CASE vm = "running"
    <3>1. GuestTyped' BY <1>4, <1>a, <2>1 DEF Reconnect, Reconnected, GuestTyped
    <3> QED BY <1>4, <2>1, <3>1, Advanced DEF Reconnect
  <2> QED BY <1>4, <1>b, <2>1 DEF Reconnect
<1>5. CASE Halt(c)
  <2>1. CASE vm \in {"running", "stopped"}
    <3>1. GuestTyped' BY <1>5, <1>a, <2>1 DEF Halt, GuestTyped
    <3> QED BY <1>5, <2>1, <3>1, Advanced DEF Halt
  <2> QED BY <1>5, <1>b, <2>1 DEF Halt
<1>6. CASE GuestStep(c) BY <1>6, GuestStepGoesOn
<1>7. CASE Fail(c) BY <1>7, <1>a, Ended, SameTyped DEF Fail
<1> QED BY <1>1, <1>2, <1>3, <1>4, <1>5, <1>6, <1>7 DEF Acts

-----------------------------------------------------------------------------
(* A command begins, and the world turns. *)

Begins(c) == StartInit(c) \/ StartStart(c) \/ StartStop(c) \/ StartBootstrap(c) \/ StartVerify(c)

LEMMA BeginsWith ==
  ASSUME Base, NEW c \in Commands, Begins(c)
  PROVE  \E op \in {"init", "start", "stop", "bootstrap"}, f \in Flags, b \in Backends,
            reconcile \in BOOLEAN : Begin(c, op, f, b, reconcile)
BY DEF Begins, StartInit, StartStart, StartStop, StartBootstrap, StartVerify

LEMMA BeginStep ==
  ASSUME Base, NEW c \in Commands, NEW op \in {"init", "start", "stop", "bootstrap"}, NEW f \in Flags,
         NEW b \in Backends, NEW reconcile \in BOOLEAN, Begin(c, op, f, b, reconcile)
  PROVE  /\ Base'
         /\ ~Downloads(plan'[c]) /\ (declares(plan'[c]) => op = "init") /\ ~makes(plan'[c])
         /\ ~Running(c) /\ Resolves(f, b)
         /\ job'[c].op = op /\ job'[c].flag = f /\ job'[c].backend = b
         /\ (Overlap \/ ~Changes(job'[c]) \/ \A d \in Commands : Running(d) => ~Changes(job[d]))
         /\ \A d \in Commands : d # c => job'[d] = job[d] /\ plan'[d] = plan[d]
         /\ UNCHANGED guestVars
<1> DEFINE j == [op |-> op, flag |-> f, backend |-> b, reconcile |-> reconcile]
<1>1. /\ ~Running(c) /\ Resolves(f, b)
      /\ Overlap \/ ~Changes(j) \/ \A d \in Commands : Running(d) => ~Changes(job[d])
      /\ job' = [job EXCEPT ![c] = j] /\ plan' = [plan EXCEPT ![c] = Planned(op, b)]
      /\ result' = [result EXCEPT ![c] = "none"] /\ touched' = [touched EXCEPT ![c] = FALSE]
      /\ UNCHANGED guestVars
  BY DEF Begin
<1>2. j \in Jobs /\ j.op = op /\ j.flag = f /\ j.backend = b BY DEF Jobs
<1> HIDE DEF j
<1>3. job'[c] = j /\ plan'[c] = Planned(op, b)
      /\ \A d \in Commands : d # c => job'[d] = job[d] /\ plan'[d] = plan[d]
  BY <1>1 DEF Base, JobsTyped
<1>4. JobsTyped' BY <1>1, <1>2 DEF Base, JobsTyped
<1>5. GuestTyped' BY <1>1, SameTyped DEF Base
<1>6. Follows(j, Planned(op, b)) /\ ~Downloads(Planned(op, b))
      /\ (declares(Planned(op, b)) => op = "init") /\ ~makes(Planned(op, b))
  BY <1>2, PlannedFollows
<1>7. Ordered' BY <1>3, <1>6 DEF Base, Ordered
<1> QED BY <1>1, <1>2, <1>3, <1>4, <1>5, <1>6, <1>7 DEF Base

World == Die \/ ForceStop \/ BootByHand \/ Tighten \/ Meddle

\* The world leaves commands and bytes alone, but for making a part good,
\* stricter, absent or drifted.
LEMMA WorldStep ==
  ASSUME Base, World
  PROVE  /\ Base' /\ UNCHANGED <<declared, built, job, plan>>
         /\ \A p \in Parts : part'[p] = "foreign" => part[p] = "foreign"
<1>1. CASE Die BY <1>1 DEF Die, Base, GuestTyped, JobsTyped, Ordered
<1>2. CASE ForceStop BY <1>2 DEF ForceStop, Base, GuestTyped, JobsTyped, Ordered
<1>3. CASE BootByHand
  <2>1. GuestTyped' BY <1>3, BootedTyped DEF BootByHand, Base
  <2>2. UNCHANGED <<declared, built, job, plan, result, touched>> BY <1>3 DEF BootByHand, Booted
  <2>3. \A p \in Parts : part'[p] = "foreign" => part[p] = "foreign"
    BY <1>3 DEF BootByHand, Booted, Base, GuestTyped
  <2> QED BY <2>1, <2>2, <2>3 DEF Base, JobsTyped, Ordered
<1>4. CASE Tighten
  <2>1. PICK p : part' = [part EXCEPT ![p] = "stricter"] BY <1>4 DEF Tighten
  <2>2. UNCHANGED <<declared, built, vm, session, hands, weak, job, plan, result, touched>>
    BY <1>4 DEF Tighten
  <2>3. part' \in [Parts -> Conditions] BY <2>1 DEF Base, GuestTyped, Conditions
  <2>4. \A q \in Parts : part'[q] = "foreign" => part[q] = "foreign" BY <2>1 DEF Base, GuestTyped
  <2>5. Base' BY <2>2, <2>3 DEF Base, GuestTyped, JobsTyped, Ordered
  <2> QED BY <2>2, <2>4, <2>5
<1>5. CASE Meddle
  <2>1. PICK p \in Proven(built) \cap Touchable, to \in {"absent", "drifted"} :
          part' = [part EXCEPT ![p] = to]
    BY <1>5 DEF Meddle
  <2>2. UNCHANGED <<declared, built, vm, session, weak, job, plan, result>>
        /\ touched' = [c \in Commands |-> TRUE] /\ hands < MaxHands /\ hands' = hands + 1
    BY <1>5 DEF Meddle
  <2>3. part' \in [Parts -> Conditions] BY <2>1 DEF Base, GuestTyped, Conditions
  <2>4. \A q \in Parts : part'[q] = "foreign" => part[q] = "foreign" BY <2>1 DEF Base, GuestTyped
  <2>5. hands' \in 0..MaxHands BY <2>2, HandsAssumption DEF Base, GuestTyped
  <2>6. Base' BY <2>2, <2>3, <2>5 DEF Base, GuestTyped, JobsTyped, Ordered
  <2> QED BY <2>2, <2>4, <2>6
<1> QED BY <1>1, <1>2, <1>3, <1>4, <1>5 DEF World

LEMMA NextIs ==
  ASSUME [Next]_vars
  PROVE  \/ \E c \in Commands : Begins(c) \/ Acts(c)
         \/ World
         \/ UNCHANGED vars
BY DEF Next, Begins, Acts, World

LEMMA BaseInit == Init => Base
<1> SUFFICES ASSUME Init PROVE Base OBVIOUS
<1>1. GuestTyped
  <2>1. 0 \in 0..MaxHands BY HandsAssumption
  <2>2. part \in [Parts -> Conditions] BY DEF Init, Conditions
  <2> QED BY <2>1, <2>2 DEF Init, GuestTyped
<1>2. NoJob \in Jobs BY DEF NoJob, Jobs, Backends, Default
<1>3. JobsTyped BY <1>2 DEF Init, JobsTyped
<1>4. Ordered BY DEF Init, Ordered, Follows
<1> QED BY <1>1, <1>3, <1>4 DEF Base

LEMMA BaseStep == Base /\ [Next]_vars => Base'
<1> SUFFICES ASSUME Base, [Next]_vars PROVE Base' OBVIOUS
<1>1. ASSUME NEW c \in Commands, Begins(c) PROVE Base' BY <1>1, BeginsWith, BeginStep
<1>2. ASSUME NEW c \in Commands, Acts(c) PROVE Base'
  <2>1. Running(c) /\ Moves(c) /\ Others(c) /\ GuestTyped' BY <1>2, ActsGoOn
  <2>2. Ordered' BY <2>1, MovesOn
  <2>3. JobsTyped'
    <3>1. plan' = [d \in Commands |-> plan'[d]] BY <2>1 DEF Others
    <3> QED BY <2>1, <3>1 DEF Others, Base, JobsTyped
  <2> QED BY <2>1, <2>2, <2>3 DEF Base
<1>3. CASE World BY <1>3, WorldStep
<1>4. CASE UNCHANGED vars BY <1>4 DEF vars, guestVars, Base, GuestTyped, JobsTyped, Ordered
<1> QED BY <1>1, <1>2, <1>3, <1>4, NextIs

\* Every reachable state has the shape TypeOK gives it, and what a command has
\* left to do is the rest of its list.
THEOREM TypeCorrect == Spec => []TypeOK
<1>1. Base => TypeOK BY DEF Base, GuestTyped, JobsTyped, Jobs, TypeOK
<1> QED BY <1>1, BaseInit, BaseStep, PTL DEF Spec

-----------------------------------------------------------------------------
(* One command that writes at a time. *)

LEMMA Downloader ==
  ASSUME Base, NEW c \in Commands, Downloads(plan[c]) \/ declares(plan[c]) \/ makes(plan[c])
  PROVE  Changing(c)
<1>1. Running(c) BY DownloadHead, InitHead DEF Running
<1>2. Follows(job[c], plan[c]) BY DEF Base, Ordered
<1>3. job[c].op = "init" \/ (job[c].op = "bootstrap" /\ job[c].reconcile = TRUE)
  <2>1. CASE Downloads(plan[c]) BY <1>1, <2>1, ByHead
  <2>2. CASE declares(plan[c]) \/ makes(plan[c])
    <3>1. Head(plan[c]).does \in {"declare", "make"} BY <2>2, InitHead
    <3> QED BY <1>1, <3>1, ByHead
  <2> QED BY <2>1, <2>2
<1> QED BY <1>1, <1>3 DEF Changing, Changes

\* What holds of every command holds of one that goes on and of the others.
LEMMA AloneStep ==
  ASSUME Overlap = FALSE, Base, Alone, [Next]_vars
  PROVE  Alone'
<1>1. ASSUME NEW c \in Commands, Begins(c) PROVE Alone'
  <2>1. /\ ~Changes(job'[c]) \/ \A d \in Commands : Running(d) => ~Changes(job[d])
        /\ \A d \in Commands : d # c => job'[d] = job[d] /\ plan'[d] = plan[d]
    BY <1>1, BeginsWith, BeginStep
  <2>2. Changes(job[c])' <=> Changes(job'[c]) BY DEF Changes
  <2>3. \A d \in Commands : d # c => (Changing(d)' <=> Changing(d)) BY <2>1 DEF Changing, Running, Changes
  <2>4. Changing(c)' => \A d \in Commands : d # c => ~Changing(d)
    BY <2>1, <2>2 DEF Changing
  <2> QED BY <2>3, <2>4 DEF Alone
<1>2. ASSUME NEW c \in Commands, Acts(c) PROVE Alone'
  <2>1. Running(c) /\ Others(c) BY <1>2, ActsGoOn
  <2>2. \A d \in Commands : Changing(d)' => Changing(d)
    BY <2>1 DEF Others, Changing, Running, Changes
  <2> QED BY <2>2 DEF Alone
<1>3. CASE UNCHANGED <<job, plan>>
  BY <1>3 DEF Alone, Changing, Running, Changes
<1>4. World => UNCHANGED <<job, plan>> BY WorldStep
<1> QED BY <1>1, <1>2, <1>3, <1>4, NextIs DEF vars

-----------------------------------------------------------------------------
(* What is installed. *)

Verified == InstalledVerified /\ Checked

\* The steps that rely on bytes that were checked.
Relies(pl) == claudePlace(pl) \/ codexClear(pl) \/ codexUnpack(pl) \/ codexPlace(pl)

\* The first steps of two such plans differ.
LEMMA Distinct ==
  ASSUME NEW pl
  PROVE  /\ claudePlace(pl) => ~codexClear(pl) /\ ~codexUnpack(pl) /\ ~codexPlace(pl)
         /\ codexClear(pl) => ~codexUnpack(pl) /\ ~codexPlace(pl)
         /\ codexUnpack(pl) => ~codexPlace(pl)
         /\ claudeFetch(pl) \/ codexFetch(pl) \/ claudeCheck(pl) \/ codexCheck(pl) => ~Relies(pl)
         /\ ~Relies(<<>>)
<1> DEFINE h == Head(pl)
<1>1. /\ claudePlace(pl) => h = Places("claude binary", "claude staging")
      /\ codexPlace(pl) => h = Places("codex binary", "codex extract")
      /\ codexUnpack(pl) => h = Places("codex extract", "codex staging")
      /\ codexClear(pl) => h = Clears("codex extract")
      /\ claudeFetch(pl) => h = Fetches("claude staging")
      /\ codexFetch(pl) => h = Fetches("codex staging")
      /\ claudeCheck(pl) => h = Checks("claude staging")
      /\ codexCheck(pl) => h = Checks("codex staging")
  BY DEF claudePlace, codexPlace, codexUnpack, codexClear, claudeFetch, codexFetch, claudeCheck,
         codexCheck, Starts
<1> HIDE DEF h
<1>2. /\ claudePlace(pl) => h.does = "place" /\ h.part = "claude binary"
      /\ codexPlace(pl) => h.does = "place" /\ h.part = "codex binary"
      /\ codexUnpack(pl) => h.does = "place" /\ h.part = "codex extract"
      /\ codexClear(pl) => h.does = "clear"
      /\ claudeFetch(pl) \/ codexFetch(pl) => h.does = "fetch"
      /\ claudeCheck(pl) \/ codexCheck(pl) => h.does = "check"
  <2>1. /\ Places("claude binary", "claude staging").does = "place"
        /\ Places("claude binary", "claude staging").part = "claude binary"
        /\ Places("codex binary", "codex extract").does = "place"
        /\ Places("codex binary", "codex extract").part = "codex binary"
        /\ Places("codex extract", "codex staging").does = "place"
        /\ Places("codex extract", "codex staging").part = "codex extract"
        /\ Clears("codex extract").does = "clear"
        /\ Fetches("claude staging").does = "fetch" /\ Fetches("codex staging").does = "fetch"
        /\ Checks("claude staging").does = "check" /\ Checks("codex staging").does = "check"
    BY DEF Places, Clears, Fetches, Checks, Step
  <2> QED BY <1>1, <2>1
<1>3. ~Relies(<<>>)
  BY DEF Relies, claudePlace, codexPlace, codexUnpack, codexClear, Starts
<1> QED BY <1>2, <1>3 DEF Relies

\* Where no byte turns foreign and no plan comes to rely on one, nothing is lost.
LEMMA CheckedStays ==
  ASSUME Base, Verified, \A p \in Parts : part'[p] = "foreign" => part[p] = "foreign",
         \A c \in Commands : plan'[c] = plan[c] \/ ~Relies(plan'[c])
  PROVE  Verified'
<1>1. InstalledVerified' BY Binary DEF Verified, InstalledVerified, Binaries
<1>2. Checked'
  <2> SUFFICES ASSUME NEW c \in Commands
      PROVE  /\ claudePlace(plan'[c]) => part'["claude staging"] # "foreign"
             /\ codexClear(plan'[c]) \/ codexUnpack(plan'[c]) => part'["codex staging"] # "foreign"
             /\ codexPlace(plan'[c]) => part'["codex extract"] # "foreign"
    BY DEF Checked, claudePlace, codexClear, codexUnpack, codexPlace
  <2>1. /\ claudePlace(plan'[c]) => claudePlace(plan[c])
        /\ codexClear(plan'[c]) => codexClear(plan[c])
        /\ codexUnpack(plan'[c]) => codexUnpack(plan[c])
        /\ codexPlace(plan'[c]) => codexPlace(plan[c])
    <3>1. CASE plan'[c] = plan[c] BY <3>1
    <3>2. CASE ~Relies(plan'[c]) BY <3>2 DEF Relies
    <3> QED BY <3>1, <3>2
  <2> QED BY <2>1, Binary DEF Verified, Checked
<1> QED BY <1>1, <1>2 DEF Verified

\* What a plan that is no download goes on to relies on nothing.
LEMMA MovesFree ==
  ASSUME Base, NEW c \in Commands, Running(c), Moves(c), ~Downloads(plan[c]) \/ plan'[c] = <<>>
  PROVE  ~Relies(plan'[c])
<1> DEFINE pl == plan[c]
           j == job[c]
           rest == plan'[c]
<1>0. pl # <<>> /\ Follows(j, pl) BY DEF Running, Base, Ordered
<1>1. ASSUME ~Downloads(rest) PROVE ~Relies(rest) BY <1>1 DEF Relies, Downloads
<1>2. CASE rest = <<>> BY <1>2, Distinct
<1>3. CASE rest = Tail(pl) /\ ~Downloads(pl)
  <2>1. CASE declares(pl) \/ makes(pl)
    <3>1. \A a, b : Tail(<<a, b>>) = <<b>> /\ Tail(<<a>>) = <<>> OBVIOUS
    <3>2. rest = <<>> \/ makes(rest) BY <1>3, <2>1, <3>1 DEF declares, makes
    <3>3. ~Downloads(rest) BY <3>2, InitHead, DownloadHead
    <3> QED BY <1>1, <3>3
  <2>2. CASE pl \in Seq(Machine)
    <3>1. rest \in Seq(Machine) BY <1>0, <1>3, <2>2, HeadTailProperties
    <3>2. rest # <<>> => Head(rest) \in Machine BY <3>1, HeadTailProperties
    <3>3. rest # <<>> => Head(rest).does \in {"boot", "reconnect", "halt"} BY <3>2 DEF Machine
    <3>4. ~Downloads(rest) BY <3>3, DownloadHead
    <3> QED BY <1>1, <3>4
  <2>3. CASE Calm(pl)
    <3>1. Calm(rest) BY <1>0, <1>3, <2>3, CalmParts
    <3> QED BY <1>1, <3>1, CalmApart
  <2> QED BY <1>0, <1>3, <2>1, <2>2, <2>3 DEF Follows
<1>4. CASE Calm(rest) \/ claudeFetch(rest) \/ codexFetch(rest)
  BY <1>1, <1>4, CalmApart, Distinct
<1> QED BY <1>2, <1>3, <1>4 DEF Moves

\* Only a fetch and a placing can put bytes somewhere that nobody checked.
LEMMA NothingForeign ==
  ASSUME Base, NEW c \in Commands, Acts(c), ~Fetch(c), ~Place(c)
  PROVE  \A p \in Parts : part'[p] = "foreign" => part[p] = "foreign"
<1>1. ASSUME NEW p, NEW to \in {"good", "absent"}, SetPart(p, to)
      PROVE  \A q \in Parts : part'[q] = "foreign" => part[q] = "foreign"
  BY <1>1 DEF SetPart, Base, GuestTyped
<1>2. ASSUME Booted PROVE \A q \in Parts : part'[q] = "foreign" => part[q] = "foreign"
  BY <1>2 DEF Booted, Base, GuestTyped
<1>3. CASE Write(c) \/ Check(c) \/ Clear(c)
  <2>1. UNCHANGED part \/ \E p : \E to \in {"good", "absent"} : SetPart(p, to)
    BY <1>3 DEF Write, Check, Clear, guestVars
  <2> QED BY <1>1, <2>1
<1>4. CASE Boot(c) BY <1>2, <1>4 DEF Boot, Refuse, guestVars
<1>5. CASE Declare(c) \/ Make(c) \/ Reconnect(c) \/ Halt(c) \/ Fail(c) \/ Prove(c) \/ Answer(c)
           \/ MakeAbsent(c) \/ Repoint(c) \/ DownloadAbsent(c)
  BY <1>5
  DEF Declare, Make, Reconnect, Halt, Fail, Prove, Answer, MakeAbsent, Repoint, DownloadAbsent, Refuse,
      guestVars
<1> QED BY <1>3, <1>4, <1>5 DEF Acts, GuestStep

\* A download goes on by its own four steps, or ends.
LEMMA OwnSteps ==
  ASSUME Base, NEW c \in Commands, Acts(c), ~Fetch(c), ~Place(c), ~Check(c), ~Clear(c), Downloads(plan[c])
  PROVE  plan'[c] = <<>>
<1>1. Next1(c).does \in {"place", "check", "clear", "fetch"} BY DownloadHead DEF Next1
<1>2. Fail(c)
  BY <1>1
  DEF Acts, GuestStep, Declare, Make, Boot, Reconnect, Halt, Prove, Answer, MakeAbsent, Write, Repoint,
      DownloadAbsent, In
<1> QED BY <1>2, EndMoves DEF Fail, Base

LEMMA FetchStep ==
  ASSUME Base, Verified, Alone, NEW c \in Commands, Fetch(c)
  PROVE  Verified'
<1>1. Running(c) /\ (claudeFetch(plan[c]) \/ codexFetch(plan[c]))
  BY ByHead DEF Fetch, In, Next1
<1>2. Next1(c) = Fetches("claude staging") \/ Next1(c) = Fetches("codex staging")
  BY <1>1 DEF claudeFetch, codexFetch, Starts, Next1
<1>3. Next1(c).part \in {"claude staging", "codex staging"}
  <2>1. Fetches("claude staging").part = "claude staging" /\ Fetches("codex staging").part = "codex staging"
    BY DEF Fetches, Step
  <2> QED BY <1>2, <2>1
<1>4. PICK bytes : SetPart(Next1(c).part, bytes) BY DEF Fetch
<1>5. part'["claude binary"] = part["claude binary"] /\ part'["codex binary"] = part["codex binary"]
  BY <1>3, <1>4, Binary DEF SetPart, Base, GuestTyped
<1>6. InstalledVerified' BY <1>5 DEF Verified, InstalledVerified, Binaries
<1>7. Others(c) /\ (plan'[c] = <<>> \/ plan'[c] = Tail(plan[c]))
  BY EndMoves, AdvanceMoves DEF Fetch, Base
<1>8. ~Relies(plan'[c])
  <2>1. plan'[c] = Tail(plan[c]) => claudeCheck(plan'[c]) \/ codexCheck(plan'[c])
    BY <1>1 DEF claudeFetch, codexFetch
  <2> QED BY <1>7, <2>1, Distinct
<1>9. ASSUME NEW d \in Commands, d # c PROVE ~Relies(plan'[d])
  <2>1. Changing(c) BY <1>1, Downloader DEF Downloads
  <2>2. ~Downloads(plan[d]) BY <1>9, <2>1, Downloader DEF Alone
  <2> QED BY <1>7, <1>9, <2>2 DEF Others, Relies, Downloads
<1>10. Checked' BY <1>8, <1>9 DEF Checked, Relies, claudePlace, codexClear, codexUnpack, codexPlace
<1> QED BY <1>6, <1>10 DEF Verified

LEMMA CheckStep ==
  ASSUME Base, Verified, NEW c \in Commands, Check(c)
  PROVE  Verified'
<1>1. Acts(c) /\ ~Fetch(c) /\ ~Place(c)
  BY DEF Acts, GuestStep, Check, Fetch, Place, In
<1>2. Running(c) /\ Moves(c) /\ Others(c) BY <1>1, ActsGoOn
<1>3. \A p \in Parts : part'[p] = "foreign" => part[p] = "foreign" BY <1>1, NothingForeign
<1>4. \A d \in Commands : d # c => plan'[d] = plan[d] BY <1>2 DEF Others
<1>5. CASE ~Downloads(plan[c]) \/ plan'[c] = <<>>
  <2>1. ~Relies(plan'[c]) BY <1>2, <1>5, MovesFree
  <2> QED BY <1>3, <1>4, <2>1, CheckedStays
<1>6. CASE Downloads(plan[c]) /\ plan'[c] # <<>>
  <2>1. Condition(c) = "good" /\ Advance(c) /\ UNCHANGED guestVars BY <1>6, EndMoves DEF Check, Base
  <2>2. plan'[c] = Tail(plan[c]) BY <2>1, AdvanceMoves DEF Base
  <2>3. ~Calm(plan[c]) BY <1>6, CalmApart
  <2>4. CASE claudeCheck(plan[c])
    <3>1. Next1(c) = Checks("claude staging") BY <2>4 DEF claudeCheck, Starts, Next1
    <3>2. Checks("claude staging").part = "claude staging" BY DEF Checks, Step
    <3>3. part'["claude staging"] = "good" BY <2>1, <3>1, <3>2 DEF Condition, guestVars
    <3>4. claudePlace(plan'[c]) BY <2>2, <2>4 DEF claudeCheck
    <3>5. InstalledVerified' /\ part' = part BY <2>1 DEF Verified, InstalledVerified, guestVars
    <3>6. Checked'
      <4>1. ~codexClear(plan'[c]) /\ ~codexUnpack(plan'[c]) /\ ~codexPlace(plan'[c]) BY <3>4, Distinct
      <4> QED BY <1>4, <3>3, <3>5, <4>1
              DEF Verified, Checked, claudePlace, codexClear, codexUnpack, codexPlace
    <3> QED BY <3>5, <3>6 DEF Verified
  <2>5. CASE codexCheck(plan[c])
    <3>1. Next1(c) = Checks("codex staging") BY <2>5 DEF codexCheck, Starts, Next1
    <3>2. Checks("codex staging").part = "codex staging" BY DEF Checks, Step
    <3>3. part'["codex staging"] = "good" BY <2>1, <3>1, <3>2 DEF Condition, guestVars
    <3>4. codexClear(plan'[c]) BY <2>2, <2>5 DEF codexCheck
    <3>5. InstalledVerified' /\ part' = part BY <2>1 DEF Verified, InstalledVerified, guestVars
    <3>6. Checked'
      <4>1. ~claudePlace(plan'[c]) /\ ~codexPlace(plan'[c]) BY <3>4, Distinct
      <4> QED BY <1>4, <3>3, <3>5, <4>1
              DEF Verified, Checked, claudePlace, codexClear, codexUnpack, codexPlace
    <3> QED BY <3>5, <3>6 DEF Verified
  <2> QED BY <1>2, <2>3, <2>4, <2>5, ByHead DEF Check, In, Next1
<1> QED BY <1>5, <1>6

LEMMA ClearStep ==
  ASSUME Base, Verified, NEW c \in Commands, Clear(c)
  PROVE  Verified'
<1>1. Acts(c) /\ ~Fetch(c) /\ ~Place(c)
  BY DEF Acts, GuestStep, Clear, Fetch, Place, In
<1>2. Running(c) /\ Moves(c) /\ Others(c) BY <1>1, ActsGoOn
<1>3. \A p \in Parts : part'[p] = "foreign" => part[p] = "foreign" BY <1>1, NothingForeign
<1>4. \A d \in Commands : d # c => plan'[d] = plan[d] BY <1>2 DEF Others
<1>5. CASE ~Downloads(plan[c])
  <2>1. ~Relies(plan'[c]) BY <1>2, <1>5, MovesFree
  <2> QED BY <1>3, <1>4, <2>1, CheckedStays
<1>6. CASE Downloads(plan[c])
  <2>1. codexClear(plan[c]) BY <1>2, <1>6, ByHead, CalmApart DEF Clear, In, Next1
  <2>2. plan'[c] = Tail(plan[c]) BY AdvanceMoves DEF Clear, Base
  <2>3. codexUnpack(plan'[c]) BY <2>1, <2>2 DEF codexClear
  <2>4. ~claudePlace(plan'[c]) /\ ~codexPlace(plan'[c]) BY <2>3, Distinct
  <2>5. part'["codex staging"] # "foreign"
    BY <1>3, <2>1, Binary DEF Verified, Checked
  <2>6. InstalledVerified' BY <1>3, Binary DEF Verified, InstalledVerified, Binaries
  <2>7. Checked'
    BY <1>3, <1>4, <2>4, <2>5, Binary
    DEF Verified, Checked, claudePlace, codexClear, codexUnpack, codexPlace
  <2> QED BY <2>6, <2>7 DEF Verified
<1> QED BY <1>5, <1>6

LEMMA PlaceStep ==
  ASSUME Base, Verified, NEW c \in Commands, Place(c)
  PROVE  Verified'
<1>1. Acts(c) BY DEF Acts, GuestStep
<1>2. Running(c) /\ Moves(c) /\ Others(c) BY <1>1, ActsGoOn
<1>3. claudePlace(plan[c]) \/ codexUnpack(plan[c]) \/ codexPlace(plan[c])
  BY <1>2, ByHead DEF Place, In, Next1
<1>4. \A d \in Commands : d # c => plan'[d] = plan[d] BY <1>2 DEF Others
<1> DEFINE p == Next1(c).part
           q == Next1(c).from
<1>5. \/ p = "claude binary" /\ q = "claude staging" /\ claudePlace(plan[c])
      \/ p = "codex extract" /\ q = "codex staging" /\ codexUnpack(plan[c])
      \/ p = "codex binary" /\ q = "codex extract" /\ codexPlace(plan[c])
  <2>1. \/ Next1(c) = Places("claude binary", "claude staging") /\ claudePlace(plan[c])
        \/ Next1(c) = Places("codex extract", "codex staging") /\ codexUnpack(plan[c])
        \/ Next1(c) = Places("codex binary", "codex extract") /\ codexPlace(plan[c])
    BY <1>3 DEF claudePlace, codexUnpack, codexPlace, Starts, Next1
  <2>2. /\ Places("claude binary", "claude staging").part = "claude binary"
        /\ Places("claude binary", "claude staging").from = "claude staging"
        /\ Places("codex extract", "codex staging").part = "codex extract"
        /\ Places("codex extract", "codex staging").from = "codex staging"
        /\ Places("codex binary", "codex extract").part = "codex binary"
        /\ Places("codex binary", "codex extract").from = "codex extract"
    BY DEF Places, Step
  <2> QED BY <2>1, <2>2
<1>6. part[q] # "foreign" BY <1>5 DEF Verified, Checked
<1>7. \A x \in Parts : part'[x] = "foreign" => part[x] = "foreign"
  <2>1. UNCHANGED part \/ \E to : to # "foreign" /\ SetPart(p, to) BY <1>6 DEF Place, guestVars
  <2> QED BY <2>1 DEF SetPart, Base, GuestTyped
<1>8. CASE plan'[c] = <<>> BY <1>4, <1>7, <1>8, CheckedStays, Distinct
<1>9. CASE plan'[c] # <<>>
  <2>1. SetPart(p, part[q]) /\ Advance(c) BY <1>9, EndMoves DEF Place, Base
  <2>2. plan'[c] = Tail(plan[c]) BY <2>1, AdvanceMoves DEF Base
  <2>3. CASE claudePlace(plan[c]) \/ codexPlace(plan[c])
    <3>1. Calm(plan'[c]) BY <2>2, <2>3 DEF claudePlace, codexPlace
    <3>2. ~Relies(plan'[c]) BY <3>1, CalmApart DEF Relies, Downloads
    <3> QED BY <1>4, <1>7, <3>2, CheckedStays
  <2>4. CASE p = "codex extract" /\ q = "codex staging" /\ codexUnpack(plan[c])
    <3>1. codexPlace(plan'[c]) BY <2>2, <2>4 DEF codexUnpack
    <3>2. ~claudePlace(plan'[c]) /\ ~codexClear(plan'[c]) /\ ~codexUnpack(plan'[c]) BY <3>1, Distinct
    <3>3. part'["codex extract"] # "foreign"
      BY <1>6, <2>1, <2>4, Binary DEF SetPart, Base, GuestTyped
    <3>4. InstalledVerified' BY <1>7, Binary DEF Verified, InstalledVerified, Binaries
    <3>5. Checked'
      BY <1>4, <1>7, <3>2, <3>3, Binary
      DEF Verified, Checked, claudePlace, codexClear, codexUnpack, codexPlace
    <3> QED BY <3>4, <3>5 DEF Verified
  <2> QED BY <1>5, <2>3, <2>4
<1> QED BY <1>8, <1>9

LEMMA VerifiedInit == Init => Verified
<1> SUFFICES ASSUME Init PROVE Verified OBVIOUS
<1>1. \A p \in Parts : part[p] = "absent" BY DEF Init
<1>2. InstalledVerified BY <1>1, Binary DEF InstalledVerified, Binaries
<1>3. Checked BY <1>1, Binary DEF Checked
<1> QED BY <1>2, <1>3 DEF Verified

LEMMA VerifiedStep ==
  ASSUME Base, Alone, Verified, [Next]_vars
  PROVE  Verified'
<1>1. ASSUME NEW c \in Commands, Begins(c) PROVE Verified'
  <2>1. /\ ~Downloads(plan'[c]) /\ \A d \in Commands : d # c => plan'[d] = plan[d]
        /\ UNCHANGED guestVars
    BY <1>1, BeginsWith, BeginStep
  <2>2. ~Relies(plan'[c]) BY <2>1 DEF Relies, Downloads
  <2> QED BY <2>1, <2>2, CheckedStays DEF guestVars
<1>2. ASSUME NEW c \in Commands, Acts(c) PROVE Verified'
  <2>1. CASE Fetch(c) \/ Place(c) \/ Check(c) \/ Clear(c)
    BY <2>1, FetchStep, PlaceStep, CheckStep, ClearStep
  <2>2. CASE ~Fetch(c) /\ ~Place(c) /\ ~Check(c) /\ ~Clear(c)
    <3>1. Running(c) /\ Moves(c) /\ Others(c) BY <1>2, ActsGoOn
    <3>2. ~Downloads(plan[c]) \/ plan'[c] = <<>> BY <1>2, <2>2, OwnSteps
    <3>3. ~Relies(plan'[c]) BY <3>1, <3>2, MovesFree
    <3>4. \A d \in Commands : d # c => plan'[d] = plan[d] BY <3>1 DEF Others
    <3> QED BY <1>2, <2>2, <3>3, <3>4, NothingForeign, CheckedStays
  <2> QED BY <2>1, <2>2
<1>3. CASE World
  <2>1. UNCHANGED plan /\ \A p \in Parts : part'[p] = "foreign" => part[p] = "foreign" BY <1>3, WorldStep
  <2> QED BY <2>1, CheckedStays
<1>4. CASE UNCHANGED vars BY <1>4, CheckedStays DEF vars, guestVars
<1> QED BY <1>1, <1>2, <1>3, <1>4, NextIs

LEMMA AloneInit == Init => Alone
BY DEF Init, Alone, Changing, Running

\* Where commands that write do not overlap, the bytes behind a pinned name were
\* checked against the pin, whatever a stopped download, a boot or a hand left
\* behind (claudecode.Install, codex.Install).
THEOREM OnlyCheckedBytes ==
  ASSUME Overlap = FALSE
  PROVE  Spec => []InstalledVerified
<1>1. Verified => InstalledVerified BY DEF Verified
<1>2. Base /\ Alone /\ [Next]_vars => Alone' BY AloneStep
<1>3. Base /\ Alone /\ Verified /\ [Next]_vars => Verified' BY VerifiedStep
<1> QED BY <1>1, <1>2, <1>3, BaseInit, BaseStep, AloneInit, VerifiedInit, PTL DEF Spec

-----------------------------------------------------------------------------
(* What is declared. *)

LEMMA AgreedInit == Init => Agreed
<1> SUFFICES ASSUME Init PROVE Agreed OBVIOUS
<1>1. ~declares(<<>>) /\ ~makes(<<>>) BY InitHead
<1> QED BY <1>1 DEF Init, Agreed, Declaring

\* A command that is no init says nothing of what is declared.
LEMMA AgreedStays ==
  ASSUME Agreed, UNCHANGED <<declared, built>>,
         \A c \in Commands : \/ plan'[c] = plan[c] /\ job'[c] = job[c]
                             \/ ~declares(plan'[c]) /\ ~makes(plan'[c])
  PROVE  Agreed'
<1>1. ASSUME NEW c \in Commands
      PROVE  /\ declares(plan'[c]) \/ makes(plan'[c]) =>
                  job'[c].flag # NoFlag /\ job'[c].flag = job'[c].backend
             /\ declares(plan'[c]) => declared' \in {"none", job'[c].backend}
             /\ makes(plan'[c]) => declared' = job'[c].backend
  BY DEF Agreed, Declaring
<1> QED BY <1>1 DEF Agreed, Declaring, declares, makes

\* Only an init that has declared goes on to make.
LEMMA MovesUndeclared ==
  ASSUME Base, NEW c \in Commands, Running(c), Moves(c), Head(plan[c]).does # "declare"
  PROVE  ~declares(plan'[c]) /\ ~makes(plan'[c])
<1> DEFINE pl == plan[c]
           rest == plan'[c]
<1>0. pl # <<>> /\ Follows(job[c], pl) BY DEF Running, Base, Ordered
<1>1. CASE rest = <<>> BY <1>1, InitHead
<1>2. ASSUME Calm(rest) \/ Downloads(rest) PROVE ~declares(rest) /\ ~makes(rest)
  <2>1. CASE Calm(rest) BY <2>1, CalmApart
  <2>2. CASE Downloads(rest)
    <3>1. Head(rest).does \notin {"declare", "make"} BY <2>2, DownloadHead
    <3> QED BY <3>1, InitHead
  <2> QED BY <1>2, <2>1, <2>2
<1>3. CASE rest = Tail(pl)
  <2>1. CASE declares(pl) \/ makes(pl)
    <3>1. makes(pl) BY <2>1, InitHead
    <3>2. \A a : Tail(<<a>>) = <<>> OBVIOUS
    <3>3. rest = <<>> BY <1>3, <3>1, <3>2 DEF makes
    <3> QED BY <1>1, <3>3
  <2>2. CASE pl \in Seq(Machine)
    <3>1. rest \in Seq(Machine) BY <1>0, <1>3, <2>2, HeadTailProperties
    <3>2. rest # <<>> => Head(rest) \in Machine BY <3>1, HeadTailProperties
    <3>3. rest # <<>> => Head(rest).does \notin {"declare", "make"} BY <3>2 DEF Machine
    <3> QED BY <3>3, InitHead
  <2>3. CASE Calm(pl)
    <3>1. Calm(rest) BY <1>0, <1>3, <2>3, CalmParts
    <3> QED BY <1>2, <3>1
  <2>4. CASE Downloads(pl)
    <3>1. Calm(rest) \/ Downloads(rest)
      BY <1>3, <2>4
      DEF Downloads, claudePlace, claudeCheck, claudeFetch, codexPlace, codexUnpack, codexClear, codexCheck,
          codexFetch
    <3> QED BY <1>2, <3>1
  <2> QED BY <1>0, <2>1, <2>2, <2>3, <2>4 DEF Follows
<1>4. CASE Calm(rest) \/ claudeFetch(rest) \/ codexFetch(rest) BY <1>2, <1>4 DEF Downloads
<1> QED BY <1>1, <1>3, <1>4 DEF Moves

\* Where every command names its backend, an init finds its own declared or none.
LEMMA AgreedBegins ==
  ASSUME NoFlag \notin Flags, Base, Agreed, NEW c \in Commands, Begins(c)
  PROVE  Agreed'
<1>1. PICK op \in {"init", "start", "stop", "bootstrap"}, f \in Flags, b \in Backends,
           reconcile \in BOOLEAN : Begin(c, op, f, b, reconcile)
  BY BeginsWith
<1>2. /\ ~makes(plan'[c]) /\ Resolves(f, b) /\ job'[c].flag = f /\ job'[c].backend = b
      /\ \A d \in Commands : d # c => job'[d] = job[d] /\ plan'[d] = plan[d]
      /\ UNCHANGED guestVars
  BY <1>1, BeginStep
<1>3. f # NoFlag /\ f = b /\ declared \in {"none", b} BY <1>2 DEF Resolves
<1>4. declared' = declared /\ built' = built BY <1>2 DEF guestVars
<1>5. ASSUME NEW d \in Commands
      PROVE  /\ declares(plan'[d]) \/ makes(plan'[d]) =>
                  job'[d].flag # NoFlag /\ job'[d].flag = job'[d].backend
             /\ declares(plan'[d]) => declared' \in {"none", job'[d].backend}
             /\ makes(plan'[d]) => declared' = job'[d].backend
  <2>1. CASE d = c BY <1>2, <1>3, <1>4, <2>1
  <2>2. CASE d # c BY <1>2, <1>4, <2>2 DEF Agreed, Declaring
  <2> QED BY <2>1, <2>2
<1> QED BY <1>4, <1>5 DEF Agreed, Declaring, declares, makes

\* The init that declares, and the one that makes, are the only one there is.
LEMMA AgreedActs ==
  ASSUME Base, Alone, Agreed, NEW c \in Commands, Acts(c)
  PROVE  Agreed'
<1>1. Running(c) /\ Moves(c) /\ Others(c) BY ActsGoOn
<1>2. \A d \in Commands : job'[d] = job[d] /\ (d # c => plan'[d] = plan[d]) BY <1>1 DEF Others
<1>3. ASSUME Changing(c), NEW d \in Commands, d # c PROVE ~declares(plan'[d]) /\ ~makes(plan'[d])
  BY <1>2, <1>3, Downloader DEF Alone
<1>4. CASE Declare(c)
  <2>1. declares(plan[c]) BY <1>1, <1>4, ByHead DEF Declare, Next1
  <2>2. Changing(c) BY <2>1, Downloader
  <2>3. job[c].flag # NoFlag /\ job[c].flag = job[c].backend /\ declared \in {"none", job[c].backend}
    BY <2>1 DEF Agreed, Declaring
  <2>4. declared' = job[c].backend /\ built' = built BY <1>4, <2>3 DEF Declare
  <2>5. built' # "none" => declared' = built'
    BY <2>3, <2>4 DEF Agreed, Base, GuestTyped, Backends
  <2>6. plan'[c] = Tail(plan[c]) BY <1>4, AdvanceMoves DEF Declare, Base
  <2>7. \A a, b : Tail(<<a, b>>) = <<b>> OBVIOUS
  <2>8. makes(plan'[c]) BY <2>1, <2>6, <2>7 DEF declares, makes
  <2>9. ~declares(plan'[c])
    <3>1. Head(plan'[c]).does = "make" BY <2>8, InitHead
    <3> QED BY <3>1, InitHead
  <2>10. ASSUME NEW d \in Commands
        PROVE  /\ declares(plan'[d]) \/ makes(plan'[d]) =>
                    job'[d].flag # NoFlag /\ job'[d].flag = job'[d].backend
               /\ declares(plan'[d]) => declared' \in {"none", job'[d].backend}
               /\ makes(plan'[d]) => declared' = job'[d].backend
    <3>1. CASE d = c BY <1>2, <2>3, <2>4, <2>9, <3>1
    <3>2. CASE d # c BY <1>3, <2>2, <3>2
    <3> QED BY <3>1, <3>2
  <2> QED BY <2>5, <2>10 DEF Agreed, Declaring, declares, makes
<1>5. CASE Make(c)
  <2>1. makes(plan[c]) BY <1>1, <1>5, ByHead DEF Make, Next1
  <2>2. Changing(c) BY <2>1, Downloader
  <2>3. declared = job[c].backend BY <2>1 DEF Agreed, Declaring
  <2>4. declared' = declared /\ built' \in {built, job[c].backend} BY <1>5 DEF Make
  <2>5. built' # "none" => declared' = built' BY <2>3, <2>4 DEF Agreed
  <2>6. \A a : Tail(<<a>>) = <<>> OBVIOUS
  <2>7. plan'[c] = Tail(plan[c]) BY <1>5, AdvanceMoves DEF Make, Base
  <2>8. plan'[c] = <<>> BY <2>1, <2>6, <2>7 DEF makes
  <2>9. ~declares(plan'[c]) /\ ~makes(plan'[c]) BY <2>8, InitHead
  <2>10. \A d \in Commands : ~declares(plan'[d]) /\ ~makes(plan'[d]) BY <1>3, <2>2, <2>9
  <2> QED BY <2>5, <2>10 DEF Agreed, Declaring, declares, makes
<1>6. ASSUME ~declares(plan'[c]) /\ ~makes(plan'[c]), UNCHANGED <<declared, built>> PROVE Agreed'
  <2>1. \A d \in Commands : \/ plan'[d] = plan[d] /\ job'[d] = job[d]
                            \/ ~declares(plan'[d]) /\ ~makes(plan'[d])
    BY <1>2, <1>6
  <2> QED BY <1>6, <2>1, AgreedStays
<1>7. CASE Fail(c)
  <2>1. plan'[c] = <<>> BY <1>7, EndMoves DEF Fail, Base
  <2>2. ~declares(plan'[c]) /\ ~makes(plan'[c]) BY <2>1, InitHead
  <2> QED BY <1>6, <1>7, <2>2 DEF Fail, guestVars
<1>8. CASE Boot(c) \/ Reconnect(c) \/ Halt(c) \/ GuestStep(c)
  <2>1. Head(plan[c]).does # "declare"
    BY <1>8
    DEF GuestStep, Boot, Reconnect, Halt, Prove, Answer, MakeAbsent, Write, Repoint, DownloadAbsent, Fetch,
        Check, Place, Clear, In, Next1
  <2>2. UNCHANGED <<declared, built>>
    BY <1>8
    DEF GuestStep, Boot, Booted, Reconnect, Halt, Prove, Answer, MakeAbsent, Write, Repoint, DownloadAbsent,
        Fetch, Check, Place, Clear, SetPart, Refuse, guestVars
  <2> QED BY <1>1, <1>6, <2>1, <2>2, MovesUndeclared
<1> QED BY <1>4, <1>5, <1>7, <1>8 DEF Acts

LEMMA AgreedStep ==
  ASSUME NoFlag \notin Flags, Base, Alone, Agreed, [Next]_vars
  PROVE  Agreed'
<1>1. ASSUME UNCHANGED <<declared, built, job, plan>> PROVE Agreed'
  BY <1>1 DEF Agreed, Declaring, declares, makes
<1>2. World => Agreed' BY <1>1, WorldStep
<1>3. UNCHANGED vars => Agreed' BY <1>1 DEF vars, guestVars
<1> QED BY <1>2, <1>3, AgreedBegins, AgreedActs, NextIs

\* Where commands that write do not overlap and each names its backend, the
\* instance's configuration names the agent its guest was built for, wherever an
\* init is stopped and rerun (declareBackend, resolveBackend).
THEOREM DeclaredStaysBuilt ==
  ASSUME Overlap = FALSE, NoFlag \notin Flags
  PROVE  Spec => []DeclaredIsBuilt
<1>1. Agreed => DeclaredIsBuilt BY DEF Agreed, DeclaredIsBuilt
<1>2. Base /\ Alone /\ [Next]_vars => Alone' BY AloneStep
<1>3. Base /\ Alone /\ Agreed /\ [Next]_vars => Agreed' BY AgreedStep
<1> QED BY <1>1, <1>2, <1>3, BaseInit, BaseStep, AloneInit, AgreedInit, PTL DEF Spec

-----------------------------------------------------------------------------
(* What the steps of a plan are about. *)

Scratch == {"claude staging", "codex staging", "codex extract"}
Made == {"shell helper", "enter helper", "claude session helper", "claude push helper", "claude settings",
         "claude waiting helper", "claude waiting marker", "codex session helper", "codex push helper",
         "codex system config", "codex waiting helper", "codex waiting marker"}
BinaryOf(b) == Of(b, "claude binary", "codex binary")
LinkOf(b)   == Of(b, "claude link", "codex link")

\* What a boot supplies for a backend, and what of it a bootstrap finds as it is.
Supplies(b) == Provisioned(b) \cup OfTheImage(b)
Shown(b)    == Supplies(b) \ (Private \cup {"operator in projects"})

AllVerbs == Verbs \cup {"declare", "make", "boot", "reconnect", "halt", "fetch", "place"}
AllSteps == [does : AllVerbs, part : Names, from : Names]

\* Each kind of step is about parts of its own kind.
About(b, s) ==
  /\ s.does \in {"fetch", "check", "clear"} => s.part \in Scratch
  /\ s.does = "place" => s.from \in Scratch /\ s.part \in {"codex extract", BinaryOf(b)}
  /\ s.does = "install" => s.part = BinaryOf(b)
  /\ s.does \in {"create", "write"} => s.part \in Made
  /\ s.does \in {"repoint", "link"} => s.part = LinkOf(b)
  /\ s.does = "prove" => s.part \in Shown(b) \cup {"session"}
  /\ s.does = "provePath" => s.part \in Private /\ s.part \in Supplies(b)
  /\ s.does = "proveOwner" => s.part = BinaryOf(b)
  /\ s.does = "answer" => s.part = LinkOf(b) /\ s.from = BinaryOf(b)

Idle     == {"running", "observe", "declare", "make", "boot", "reconnect", "halt"}
Changers == {"write", "link", "fetch", "check", "place", "clear"}

\* ... and a command that only verifies has none that changes the guest.
Tame(j, s) == /\ s \in AllSteps /\ About(j.backend, s)
              /\ s.does \notin Idle => s.part \in Parts \cup {"session"}
              /\ s.does \notin {"declare", "make", "boot", "reconnect", "halt"} => j.op = "bootstrap"
              /\ j.reconcile = FALSE => j.op = "bootstrap" /\ s.does \notin Changers

TameSteps(j) == {s \in AllSteps : Tame(j, s)}
Tamed == \A c \in Commands : plan[c] \in Seq(TameSteps(job[c]))

\* A step that still has to find part p in place, or puts it there.
Owes(s, p) == s.part = p /\ s.does \in {"prove", "provePath", "proveOwner", "create", "write", "repoint", "link"}

\* What a step takes for granted, and the earlier steps that see to it.
Needs(s) == IF s.does = "proveOwner" THEN {s.part} ELSE IF s.does = "answer" THEN {s.part, s.from} ELSE {}
Provides(s, p) == s.part = p /\ s.does \in {"install", "place", "repoint", "link"}
InOrder(pl) == \A i \in DOMAIN pl : \A p \in Needs(pl[i]) : \E k \in 1..(i - 1) : Provides(pl[k], p)

LEMMA Cat ==
  ASSUME NEW S, NEW s \in Seq(S), NEW t \in Seq(S)
  PROVE  s \o t \in Seq(S) /\ ToSet(s \o t) = ToSet(s) \cup ToSet(t)
<1>1. /\ s \o t \in Seq(S) /\ Len(s \o t) = Len(s) + Len(t)
      /\ \A i \in 1..Len(s) + Len(t) : (s \o t)[i] = IF i <= Len(s) THEN s[i] ELSE t[i - Len(s)]
  BY ConcatProperties
<1>2. /\ Len(s) \in Nat /\ Len(t) \in Nat /\ DOMAIN s = 1..Len(s) /\ DOMAIN t = 1..Len(t)
      /\ DOMAIN (s \o t) = 1..Len(s \o t)
  BY <1>1, LenProperties
<1>3. ASSUME NEW i \in DOMAIN (s \o t) PROVE (s \o t)[i] \in ToSet(s) \cup ToSet(t)
  <2>1. CASE i <= Len(s) BY <1>1, <1>2, <1>3, <2>1 DEF ToSet
  <2>2. CASE ~(i <= Len(s))
    <3>1. i - Len(s) \in DOMAIN t /\ (s \o t)[i] = t[i - Len(s)] BY <1>1, <1>2, <1>3, <2>2
    <3> QED BY <3>1 DEF ToSet
  <2> QED BY <2>1, <2>2
<1>4. ToSet(s \o t) \subseteq ToSet(s) \cup ToSet(t) BY <1>3 DEF ToSet
<1> QED BY <1>1, <1>4, Joins

LEMMA HeadAndTail ==
  ASSUME NEW S, NEW s \in Seq(S), s # <<>>
  PROVE  /\ Head(s) \in S /\ Tail(s) \in Seq(S) /\ ToSet(s) = {Head(s)} \cup ToSet(Tail(s))
<1> DEFINE u == <<Head(s)>>
           t == Tail(s)
<1>1. Head(s) \in S /\ t \in Seq(S) /\ s = u \o t OBVIOUS
<1>2. u \in Seq(S) /\ ToSet(u) = {Head(s)} BY <1>1 DEF ToSet
<1> HIDE DEF u, t
<1>3. ToSet(u \o t) = ToSet(u) \cup ToSet(t) BY <1>1, <1>2, Cat
<1> QED BY <1>1, <1>2, <1>3 DEF t

LEMMA Members ==
  ASSUME NEW S, NEW s \in Seq(S)
  PROVE  /\ ToSet(s) \subseteq S
         /\ \A T : ToSet(s) \subseteq T => s \in Seq(T)
<1>1. DOMAIN s = 1..Len(s) /\ Len(s) \in Nat /\ s = [i \in 1..Len(s) |-> s[i]] BY LenProperties
<1>2. \A i \in 1..Len(s) : s[i] \in S /\ s[i] \in ToSet(s) BY <1>1, ElementOfSeq DEF ToSet
<1>3. ToSet(s) \subseteq S BY <1>1, <1>2 DEF ToSet
<1>4. ASSUME NEW T, ToSet(s) \subseteq T PROVE s \in Seq(T)
  BY <1>1, <1>2, <1>4, IsASeq
<1> QED BY <1>3, <1>4

LEMMA Sets ==
  ASSUME NEW a, NEW b, NEW c, NEW d
  PROVE  /\ ToSet(<<a>>) = {a} /\ ToSet(<<a, b>>) = {a, b} /\ ToSet(<<a, b, c, d>>) = {a, b, c, d}
BY DEF ToSet

\* A list that goes on from one in order stays in order when what it needs is
\* provided in either.
LEMMA OrderJoins ==
  ASSUME NEW S, NEW s \in Seq(S), NEW t \in Seq(S), InOrder(s),
         \A i \in DOMAIN t : \A p \in Needs(t[i]) :
           (\E k \in 1..(i - 1) : Provides(t[k], p)) \/ \E x \in ToSet(s) : Provides(x, p)
  PROVE  InOrder(s \o t)
<1> DEFINE u == s \o t
<1>1. /\ u \in Seq(S) /\ Len(u) = Len(s) + Len(t)
      /\ \A i \in 1..Len(s) + Len(t) : u[i] = IF i <= Len(s) THEN s[i] ELSE t[i - Len(s)]
  BY ConcatProperties
<1>2. /\ Len(s) \in Nat /\ Len(t) \in Nat /\ DOMAIN s = 1..Len(s) /\ DOMAIN t = 1..Len(t)
      /\ DOMAIN u = 1..Len(s) + Len(t)
  BY <1>1, LenProperties
<1> HIDE DEF u
<1>3. SUFFICES ASSUME NEW i \in DOMAIN u, NEW p \in Needs(u[i])
               PROVE  \E k \in 1..(i - 1) : Provides(u[k], p)
  BY DEF InOrder, u
<1>4. CASE i <= Len(s)
  <2>1. i \in DOMAIN s /\ u[i] = s[i] BY <1>1, <1>2, <1>4
  <2>2. PICK k \in 1..(i - 1) : Provides(s[k], p) BY <1>3, <2>1 DEF InOrder
  <2>3. u[k] = s[k] BY <1>1, <1>2, <1>4, <2>1, <2>2
  <2> QED BY <2>2, <2>3
<1>5. CASE ~(i <= Len(s))
  <2> DEFINE m == i - Len(s)
  <2>1. m \in DOMAIN t /\ u[i] = t[m] BY <1>1, <1>2, <1>5
  <2>2. CASE \E k \in 1..(m - 1) : Provides(t[k], p)
    <3>1. PICK k \in 1..(m - 1) : Provides(t[k], p) BY <2>2
    <3> DEFINE n == k + Len(s)
    <3>2. k \in Int /\ k >= 1 /\ k <= m - 1 /\ m <= Len(t) BY <1>2, <2>1, <3>1
    <3>3. n \in 1..(i - 1) /\ n \in 1..Len(s) + Len(t) /\ ~(n <= Len(s)) /\ n - Len(s) = k
      BY <1>2, <3>2
    <3>4. u[n] = t[k] BY <1>1, <3>3
    <3> QED BY <3>1, <3>3, <3>4
  <2>3. CASE \E x \in ToSet(s) : Provides(x, p)
    <3>1. PICK k \in DOMAIN s : Provides(s[k], p) BY <2>3 DEF ToSet
    <3>2. k \in 1..(i - 1) /\ u[k] = s[k] BY <1>1, <1>2, <1>5, <3>1
    <3> QED BY <3>1, <3>2
  <2> QED BY <1>3, <2>1, <2>2, <2>3
<1> QED BY <1>4, <1>5

LEMMA Needless ==
  ASSUME NEW S, NEW s \in Seq(S), NEW t \in Seq(S), InOrder(s), \A x \in ToSet(t) : Needs(x) = {}
  PROVE  InOrder(s \o t)
<1>1. \A i \in DOMAIN t : Needs(t[i]) = {} BY DEF ToSet
<1> QED BY <1>1, OrderJoins

-----------------------------------------------------------------------------
(* The lists of the two backends. *)

\* The steps the sources list.
Listings == {"prove", "provePath", "proveOwner", "create", "repoint", "observe", "install", "answer"}

\* Every step of a list is about its own parts, in order, and what is proved at
\* all is owed by a step that finds or puts it in place.
Whole(b, pl) ==
  /\ pl \in Seq(AllSteps) /\ InOrder(pl)
  /\ \A s \in ToSet(pl) : /\ About(b, s) /\ s.does \in Listings
                          /\ s.does # "observe" => \E t \in ToSet(pl) : Owes(t, s.part)

LEMMA Fields ==
  ASSUME NEW p, NEW q
  PROVE  /\ Proves(p) = [does |-> "prove", part |-> p, from |-> "none"]
         /\ ProvesPath(p) = [does |-> "provePath", part |-> p, from |-> "none"]
         /\ ProvesOwner(p) = [does |-> "proveOwner", part |-> p, from |-> "none"]
         /\ Creates(p) = [does |-> "create", part |-> p, from |-> "none"]
         /\ Writes(p) = [does |-> "write", part |-> p, from |-> "none"]
         /\ Repoints(p) = [does |-> "repoint", part |-> p, from |-> "none"]
         /\ Links(p) = [does |-> "link", part |-> p, from |-> "none"]
         /\ Observes(p) = [does |-> "observe", part |-> p, from |-> "none"]
         /\ Installs(p) = [does |-> "install", part |-> p, from |-> "none"]
         /\ Fetches(p) = [does |-> "fetch", part |-> p, from |-> "none"]
         /\ Checks(p) = [does |-> "check", part |-> p, from |-> "none"]
         /\ Clears(p) = [does |-> "clear", part |-> p, from |-> "none"]
         /\ Places(p, q) = [does |-> "place", part |-> p, from |-> q]
         /\ Answers(p, q) = [does |-> "answer", part |-> p, from |-> q]
         /\ Host(p) = [does |-> p, part |-> "none", from |-> "none"]
BY DEF Proves, ProvesPath, ProvesOwner, Creates, Writes, Repoints, Links, Observes, Installs, Fetches, Checks,
       Clears, Places, Answers, Host, Step

\* The instances for the backends list the same steps.
LEMMA SameSteps ==
  ASSUME NEW p, NEW q
  PROVE  /\ Claude!Proves(p) = Proves(p) /\ Claude!ProvesPath(p) = ProvesPath(p)
         /\ Claude!ProvesOwner(p) = ProvesOwner(p) /\ Claude!Creates(p) = Creates(p)
         /\ Claude!Repoints(p) = Repoints(p) /\ Claude!Observes(p) = Observes(p)
         /\ Claude!Installs(p) = Installs(p) /\ Claude!Answers(p, q) = Answers(p, q)
         /\ Claude!Fetches(p) = Fetches(p) /\ Claude!Checks(p) = Checks(p)
         /\ Claude!Places(p, q) = Places(p, q) /\ Claude!Clears(p) = Clears(p)
         /\ Cdx!Proves(p) = Proves(p) /\ Cdx!ProvesPath(p) = ProvesPath(p)
         /\ Cdx!ProvesOwner(p) = ProvesOwner(p) /\ Cdx!Creates(p) = Creates(p)
         /\ Cdx!Repoints(p) = Repoints(p) /\ Cdx!Observes(p) = Observes(p)
         /\ Cdx!Installs(p) = Installs(p) /\ Cdx!Answers(p, q) = Answers(p, q)
         /\ Cdx!Fetches(p) = Fetches(p) /\ Cdx!Checks(p) = Checks(p)
         /\ Cdx!Places(p, q) = Places(p, q) /\ Cdx!Clears(p) = Clears(p)
BY DEF Claude!Proves, Claude!ProvesPath, Claude!ProvesOwner, Claude!Creates, Claude!Repoints, Claude!Observes,
       Claude!Installs, Claude!Answers, Claude!Fetches, Claude!Checks, Claude!Places, Claude!Clears, Claude!Step,
       Cdx!Proves, Cdx!ProvesPath, Cdx!ProvesOwner, Cdx!Creates, Cdx!Repoints, Cdx!Observes,
       Cdx!Installs, Cdx!Answers, Cdx!Fetches, Cdx!Checks, Cdx!Places, Cdx!Clears, Cdx!Step,
       Proves, ProvesPath, ProvesOwner, Creates, Repoints, Observes, Installs, Answers, Fetches, Checks, Places,
       Clears, Step

\* The steps that find a part in place, or make it, and take nothing for granted.
Free(b) == {s \in AllSteps : s.does \in {"prove", "provePath", "create", "observe"} /\ About(b, s)}

LEMMA FreeSteps ==
  ASSUME NEW b, NEW p \in Names
  PROVE  /\ p \in Shown(b) \cup {"session"} => Proves(p) \in Free(b)
         /\ p \in Private /\ p \in Supplies(b) => ProvesPath(p) \in Free(b)
         /\ p \in Made => Creates(p) \in Free(b)
         /\ Observes(p) \in Free(b)
<1>1. ASSUME NEW v \in {"prove", "provePath", "create", "observe"}
      PROVE  [does |-> v, part |-> p, from |-> "none"] \in AllSteps
  BY <1>1, Known DEF AllSteps, AllVerbs
<1>2. ASSUME NEW v \in {"prove", "provePath", "create", "observe"}, NEW s \in AllSteps, s.does = v, s.part = p,
             v = "prove" => p \in Shown(b) \cup {"session"},
             v = "provePath" => p \in Private /\ p \in Supplies(b),
             v = "create" => p \in Made
      PROVE  s \in Free(b)
  BY <1>2 DEF Free, About
<1>3. ASSUME p \in Shown(b) \cup {"session"} PROVE Proves(p) \in Free(b)
  BY <1>1, <1>2, <1>3, Fields
<1>4. ASSUME p \in Private, p \in Supplies(b) PROVE ProvesPath(p) \in Free(b)
  BY <1>1, <1>2, <1>4, Fields
<1>5. ASSUME p \in Made PROVE Creates(p) \in Free(b)
  BY <1>1, <1>2, <1>5, Fields
<1>6. Observes(p) \in Free(b) BY <1>1, <1>2, Fields
<1> QED BY <1>3, <1>4, <1>5, <1>6

LEMMA FreeNeeds ==
  ASSUME NEW b, NEW s \in Free(b)
  PROVE  /\ s \in AllSteps /\ About(b, s) /\ Needs(s) = {} /\ s.does \in Listings
         /\ s.does # "observe" => Owes(s, s.part)
BY DEF Free, Needs, Listings, Owes

\* The install of the binary, its owner, and the link to it.
LEMMA InstallSteps ==
  ASSUME NEW b \in Backends,
         NEW a, a = Installs(BinaryOf(b)), NEW o, o = ProvesOwner(BinaryOf(b)), NEW r, r = Repoints(LinkOf(b)),
         NEW w, w = Answers(LinkOf(b), BinaryOf(b))
  PROVE  /\ a \in AllSteps /\ o \in AllSteps /\ r \in AllSteps /\ w \in AllSteps
         /\ \A s \in {a, o, r, w} : About(b, s) /\ s.does \in Listings
         /\ Owes(o, a.part) /\ Owes(o, o.part) /\ Owes(r, r.part) /\ Owes(r, w.part)
         /\ Needs(a) = {} /\ Needs(r) = {} /\ Needs(o) = {BinaryOf(b)} /\ Needs(w) = {LinkOf(b), BinaryOf(b)}
         /\ Provides(a, BinaryOf(b)) /\ Provides(r, LinkOf(b))
<1>1. /\ BinaryOf(b) \in Names /\ LinkOf(b) \in Names BY Known DEF BinaryOf, LinkOf, Of
<1>2. /\ a.does = "install" /\ a.part = BinaryOf(b) /\ a.from = "none"
      /\ o.does = "proveOwner" /\ o.part = BinaryOf(b) /\ o.from = "none"
      /\ r.does = "repoint" /\ r.part = LinkOf(b) /\ r.from = "none"
      /\ w.does = "answer" /\ w.part = LinkOf(b) /\ w.from = BinaryOf(b)
  BY Fields
<1>3. /\ a \in AllSteps /\ o \in AllSteps /\ r \in AllSteps /\ w \in AllSteps
  <2>1. \A v \in AllVerbs : \A p \in Names : \A q \in Names : [does |-> v, part |-> p, from |-> q] \in AllSteps
    BY DEF AllSteps
  <2>2. "install" \in AllVerbs /\ "proveOwner" \in AllVerbs /\ "repoint" \in AllVerbs /\ "answer" \in AllVerbs
    BY Known DEF AllVerbs
  <2> DEFINE x == BinaryOf(b)
             y == LinkOf(b)
  <2>3. /\ a = [does |-> "install", part |-> x, from |-> "none"]
        /\ o = [does |-> "proveOwner", part |-> x, from |-> "none"]
        /\ r = [does |-> "repoint", part |-> y, from |-> "none"]
        /\ w = [does |-> "answer", part |-> y, from |-> x]
    BY Fields
  <2>4. x \in Names /\ y \in Names /\ "none" \in Names BY <1>1, Known
  <2> HIDE DEF x, y
  <2> QED BY <2>1, <2>2, <2>3, <2>4
<1>4. About(b, a) /\ About(b, o) /\ About(b, r) /\ About(b, w) BY <1>2 DEF About
<1>5. \A s \in {a, o, r, w} : s.does \in Listings BY <1>2 DEF Listings
<1>6. Owes(o, a.part) /\ Owes(o, o.part) /\ Owes(r, r.part) /\ Owes(r, w.part) BY <1>2 DEF Owes
<1>7. Needs(a) = {} /\ Needs(r) = {} /\ Needs(o) = {BinaryOf(b)} /\ Needs(w) = {LinkOf(b), BinaryOf(b)}
  BY <1>2 DEF Needs
<1>8. Provides(a, BinaryOf(b)) /\ Provides(r, LinkOf(b)) BY <1>2 DEF Provides
<1> QED BY <1>3, <1>4, <1>5, <1>6, <1>7, <1>8

\* A whole list goes on with free steps, the install or the answer.
LEMMA WholeFree ==
  ASSUME NEW b, NEW s, Whole(b, s), NEW t \in Seq(Free(b))
  PROVE  Whole(b, s \o t) /\ ToSet(s) \subseteq ToSet(s \o t) /\ ToSet(t) \subseteq ToSet(s \o t)
<1>1. \A x \in ToSet(t) : x \in AllSteps /\ About(b, x) /\ Needs(x) = {} /\ x.does \in Listings
  <2>1. ToSet(t) \subseteq Free(b) BY Members
  <2> QED BY <2>1, FreeNeeds
<1>a. \A x \in ToSet(t) : x.does # "observe" => Owes(x, x.part)
  <2>1. ToSet(t) \subseteq Free(b) BY Members
  <2> QED BY <2>1, FreeNeeds
<1>2. s \in Seq(AllSteps) /\ InOrder(s) BY DEF Whole
<1>3. t \in Seq(AllSteps)
  <2> DEFINE F == Free(b)
             S == AllSteps
  <2>1. t \in Seq(F) /\ ToSet(t) \subseteq S BY <1>1
  <2> HIDE DEF F, S
  <2>2. t \in Seq(S) BY <2>1, Members
  <2> QED BY <2>2 DEF S
<1>4. s \o t \in Seq(AllSteps) /\ ToSet(s \o t) = ToSet(s) \cup ToSet(t) BY <1>2, <1>3, Cat
<1>5. InOrder(s \o t)
  <2> DEFINE S == AllSteps
  <2>1. s \in Seq(S) /\ t \in Seq(S) BY <1>2, <1>3
  <2>2. \A x \in ToSet(t) : Needs(x) = {} BY <1>1
  <2> HIDE DEF S
  <2> QED BY <1>2, <2>1, <2>2, Needless
<1>6. ASSUME NEW x \in ToSet(s) \cup ToSet(t)
      PROVE  /\ About(b, x) /\ x.does \in Listings
             /\ x.does # "observe" => \E y \in ToSet(s) \cup ToSet(t) : Owes(y, x.part)
  <2>1. CASE x \in ToSet(s) BY <2>1 DEF Whole
  <2>2. CASE x \in ToSet(t) BY <1>1, <1>a, <2>2
  <2> QED BY <1>6, <2>1, <2>2
<1> DEFINE u == s \o t
<1> HIDE DEF u
<1>7. Whole(b, u) BY <1>4, <1>5, <1>6 DEF Whole, u
<1> QED BY <1>4, <1>7 DEF u

LEMMA WholeInstall ==
  ASSUME NEW b \in Backends, NEW s, Whole(b, s),
         NEW t, t = <<Installs(BinaryOf(b)), ProvesOwner(BinaryOf(b)), Repoints(LinkOf(b))>>
  PROVE  /\ Whole(b, s \o t) /\ ToSet(s) \subseteq ToSet(s \o t)
         /\ Installs(BinaryOf(b)) \in ToSet(s \o t) /\ ProvesOwner(BinaryOf(b)) \in ToSet(s \o t)
         /\ Repoints(LinkOf(b)) \in ToSet(s \o t)
<1> DEFINE a == Installs(BinaryOf(b))
           o == ProvesOwner(BinaryOf(b))
           r == Repoints(LinkOf(b))
<1>1. /\ a \in AllSteps /\ o \in AllSteps /\ r \in AllSteps
      /\ \A x \in {a, o, r} : About(b, x) /\ x.does \in Listings
      /\ Owes(o, a.part) /\ Owes(o, o.part) /\ Owes(r, r.part)
      /\ Needs(a) = {} /\ Needs(r) = {} /\ Needs(o) = {BinaryOf(b)} /\ Provides(a, BinaryOf(b))
  BY InstallSteps
<1>2. t = <<a, o, r>> OBVIOUS
<1> HIDE DEF a, o, r
<1>3. /\ t \in Seq(AllSteps) /\ ToSet(t) = {a, o, r} BY <1>1, <1>2 DEF ToSet
<1>4. s \in Seq(AllSteps) /\ InOrder(s) BY DEF Whole
<1>5. s \o t \in Seq(AllSteps) /\ ToSet(s \o t) = ToSet(s) \cup ToSet(t) BY <1>3, <1>4, Cat
<1>6. InOrder(s \o t)
  <2>1. DOMAIN t = 1..3 /\ t[1] = a /\ t[2] = o /\ t[3] = r BY <1>2
  <2>2. ASSUME NEW i \in DOMAIN t, NEW p \in Needs(t[i]) PROVE \E k \in 1..(i - 1) : Provides(t[k], p)
    <3>1. i \in 1..3 BY <2>1
    <3>2. CASE i = 2
      <4>1. 1 \in 1..(i - 1) BY <3>2
      <4>2. p = BinaryOf(b) BY <1>1, <2>1, <2>2, <3>2
      <4> QED BY <1>1, <2>1, <4>1, <4>2
    <3>3. CASE i = 1 \/ i = 3 BY <1>1, <2>1, <2>2, <3>3
    <3> QED BY <3>1, <3>2, <3>3
  <2> QED BY <1>3, <1>4, <2>2, OrderJoins
<1>7. ASSUME NEW x \in ToSet(s) \cup ToSet(t)
      PROVE  /\ About(b, x) /\ x.does \in Listings
             /\ x.does # "observe" => \E y \in ToSet(s) \cup ToSet(t) : Owes(y, x.part)
  BY <1>1, <1>3 DEF Whole
<1> DEFINE u == s \o t
<1> HIDE DEF u
<1>8. Whole(b, u) BY <1>5, <1>6, <1>7 DEF Whole, u
<1> QED BY <1>3, <1>5, <1>8 DEF u, a, o, r

LEMMA WholeAnswer ==
  ASSUME NEW b \in Backends, NEW s, Whole(b, s), Installs(BinaryOf(b)) \in ToSet(s), Repoints(LinkOf(b)) \in ToSet(s),
         NEW t, t = <<Answers(LinkOf(b), BinaryOf(b))>>
  PROVE  Whole(b, s \o t) /\ ToSet(s) \subseteq ToSet(s \o t)
<1> DEFINE a == Installs(BinaryOf(b))
           r == Repoints(LinkOf(b))
           w == Answers(LinkOf(b), BinaryOf(b))
<1>1. /\ w \in AllSteps /\ About(b, w) /\ w.does \in Listings /\ Owes(r, w.part)
      /\ Needs(w) = {LinkOf(b), BinaryOf(b)} /\ Provides(a, BinaryOf(b)) /\ Provides(r, LinkOf(b))
      /\ a \in ToSet(s) /\ r \in ToSet(s)
  BY InstallSteps
<1>2. t = <<w>> OBVIOUS
<1> HIDE DEF a, r, w
<1>3. /\ t \in Seq(AllSteps) /\ ToSet(t) = {w} BY <1>1, <1>2 DEF ToSet
<1>4. s \in Seq(AllSteps) /\ InOrder(s) BY DEF Whole
<1>5. s \o t \in Seq(AllSteps) /\ ToSet(s \o t) = ToSet(s) \cup ToSet(t) BY <1>3, <1>4, Cat
<1>6. InOrder(s \o t)
  <2>1. \A i \in DOMAIN t : \A p \in Needs(t[i]) : \E x \in ToSet(s) : Provides(x, p)
    <3>1. \A i \in DOMAIN t : t[i] \in ToSet(t) BY DEF ToSet
    <3> QED BY <1>1, <1>3, <3>1
  <2> QED BY <1>3, <1>4, <2>1, OrderJoins
<1>7. ASSUME NEW x \in ToSet(s) \cup ToSet(t)
      PROVE  /\ About(b, x) /\ x.does \in Listings
             /\ x.does # "observe" => \E y \in ToSet(s) \cup ToSet(t) : Owes(y, x.part)
  BY <1>1, <1>3 DEF Whole
<1> DEFINE u == s \o t
<1> HIDE DEF u
<1>8. Whole(b, u) BY <1>5, <1>6, <1>7 DEF Whole, u
<1> QED BY <1>5, <1>8 DEF u


LEMMA Three ==
  ASSUME NEW x, NEW y, NEW z
  PROVE  (<<x>> \o <<y>>) \o <<z>> = <<x, y, z>>
<1> DEFINE S == {x, y, z}
           u == <<x>> \o <<y>>
           v == u \o <<z>>
<1>1. <<x>> \in Seq(S) /\ <<y>> \in Seq(S) /\ <<z>> \in Seq(S) /\ <<x, y, z>> \in Seq(S) OBVIOUS
<1>2. /\ Len(<<x>>) = 1 /\ Len(<<y>>) = 1 /\ Len(<<z>>) = 1 /\ Len(<<x, y, z>>) = 3
      /\ <<x>>[1] = x /\ <<y>>[1] = y /\ <<z>>[1] = z
      /\ <<x, y, z>>[1] = x /\ <<x, y, z>>[2] = y /\ <<x, y, z>>[3] = z
  OBVIOUS
<1> HIDE DEF S
<1>3. u \in Seq(S) /\ Len(u) = 2 /\ u[1] = x /\ u[2] = y BY <1>1, <1>2, ConcatProperties
<1> HIDE DEF u
<1>4. v \in Seq(S) /\ Len(v) = 3 /\ v[1] = x /\ v[2] = y /\ v[3] = z BY <1>1, <1>2, <1>3, ConcatProperties
<1> HIDE DEF v
<1>5. \A i \in 1..3 : v[i] = <<x, y, z>>[i]
  <2> SUFFICES ASSUME NEW i \in 1..3 PROVE v[i] = <<x, y, z>>[i] OBVIOUS
  <2>1. i = 1 \/ i = 2 \/ i = 3 OBVIOUS
  <2> QED BY <1>2, <1>4, <2>1
<1>6. v = <<x, y, z>> BY <1>1, <1>2, <1>4, <1>5, SeqEqual
<1> QED BY <1>6 DEF u, v

LEMMA ClaudeLists ==
  /\ Claude!VerifyIdentity \in Seq(Free("claude-code")) /\ Claude!VerifyMembership \in Seq(Free("claude-code"))
  /\ Claude!VerifyIsolation \in Seq(Free("claude-code")) /\ Claude!RequiredPaths \in Seq(Free("claude-code"))
  /\ Claude!Session \in Seq(Free("claude-code")) /\ Claude!VerifyGuardrails \in Seq(Free("claude-code"))
  /\ Claude!ProbeAuth \in Seq(Free("claude-code"))
  /\ verifyTorioProjectsGroup \in Seq(Free("claude-code")) /\ verifyOperatorInTorioProjects \in Seq(Free("claude-code"))
  /\ verifyArch \in Seq(Free("claude-code")) /\ verifyGit \in Seq(Free("claude-code")) /\ verifyNoHostMounts \in Seq(Free("claude-code"))
  /\ verifyOperatorShellHelper \in Seq(Free("claude-code")) /\ verifyProjectEnterHelper \in Seq(Free("claude-code"))
  /\ Claude!Install = <<Installs(BinaryOf("claude-code")), ProvesOwner(BinaryOf("claude-code")), Repoints(LinkOf("claude-code"))>>
  /\ Claude!VerifyVersion = <<Answers(LinkOf("claude-code"), BinaryOf("claude-code"))>>
<1> DEFINE F == Free("claude-code")
<1>2. /\ BinaryOf("claude-code") = "claude binary" /\ LinkOf("claude-code") = "claude link" BY DEF BinaryOf, LinkOf, Of
<1>3. {"claude user", "claude in projects", "claude groups", "claude sudo"}
      \cup {"claude home", "claude workspace", "jq", "projects group", "session", "architecture", "git", "mounts"}
      \subseteq Shown("claude-code") \cup {"session"}
  BY DEF Private, Shown, Supplies, Provisioned, OfTheImage, Of, Claude!ProvisionScript, Claude!OfTheImage
<1>4. {"claude profile", "claude brain"} \subseteq Private /\ {"claude profile", "claude brain"} \subseteq Supplies("claude-code")
  BY DEF Private, Supplies, Provisioned, Of, Claude!ProvisionScript
<1>5. {"shell helper", "enter helper"} \cup {"claude session helper", "claude push helper", "claude settings", "claude waiting helper", "claude waiting marker"}
      \subseteq Made
  BY DEF Made
<1>6. /\ Proves("claude user") \in F /\ Proves("claude in projects") \in F
      /\ Proves("claude groups") \in F /\ Proves("claude sudo") \in F
      /\ Proves("claude home") \in F /\ Proves("claude workspace") \in F
      /\ Proves("jq") \in F /\ Proves("projects group") \in F
      /\ Proves("session") \in F /\ Proves("architecture") \in F
      /\ Proves("git") \in F /\ Proves("mounts") \in F
      /\ Creates("shell helper") \in F /\ Creates("enter helper") \in F
      /\ Creates("claude session helper") \in F /\ Creates("claude push helper") \in F
      /\ Creates("claude settings") \in F /\ Creates("claude waiting helper") \in F
      /\ Creates("claude waiting marker") \in F /\ ProvesPath("claude profile") \in F
      /\ ProvesPath("claude brain") \in F /\ Observes("claude servers") \in F
      /\ Observes("claude credential") \in F
  <2>1. ASSUME NEW p \in Shown("claude-code") \cup {"session"}, p \in Names PROVE Proves(p) \in F
    BY <2>1, FreeSteps
  <2>2. ASSUME NEW p \in Made, p \in Names PROVE Creates(p) \in F BY <2>2, FreeSteps
  <2>3. ASSUME NEW p \in Private, p \in Supplies("claude-code"), p \in Names PROVE ProvesPath(p) \in F BY <2>3, FreeSteps
  <2>4. ASSUME NEW p \in Names PROVE Observes(p) \in F BY FreeSteps
  <2> HIDE DEF F
  <2> QED BY <1>3, <1>4, <1>5, <2>1, <2>2, <2>3, <2>4, Known
<1> HIDE DEF F
<1>7. /\ Claude!VerifyIdentity \in Seq(F) /\ verifyTorioProjectsGroup \in Seq(F)
      /\ Claude!VerifyMembership \in Seq(F) /\ verifyOperatorInTorioProjects \in Seq(F)
      /\ Claude!verifyGroupsExact \in Seq(F) /\ Claude!verifyNoSudo \in Seq(F)
      /\ verifyArch \in Seq(F) /\ verifyGit \in Seq(F)
      /\ Claude!RequiredPaths \in Seq(F) /\ verifyNoHostMounts \in Seq(F)
      /\ verifyOperatorShellHelper \in Seq(F) /\ verifyProjectEnterHelper \in Seq(F)
      /\ Claude!Session \in Seq(F) /\ Claude!reconcileManagedSettings \in Seq(F)
      /\ Claude!verifyWaitingMarkerDependencies \in Seq(F) /\ Claude!reconcileWaitingMarkerState \in Seq(F)
      /\ Claude!reportMCPServers \in Seq(F) /\ Claude!ProbeAuth \in Seq(F)
  <2>1. Claude!VerifyIdentity \in Seq(F)
    <3>1. Claude!VerifyIdentity = <<Proves("claude user")>> BY SameSteps DEF Claude!VerifyIdentity
    <3> QED BY <1>6, <3>1, Listed
  <2>2. verifyTorioProjectsGroup \in Seq(F)
    <3>1. verifyTorioProjectsGroup = <<Proves("projects group")>> BY SameSteps DEF verifyTorioProjectsGroup
    <3> QED BY <1>6, <3>1, Listed
  <2>3. Claude!VerifyMembership \in Seq(F)
    <3>1. Claude!VerifyMembership = <<Proves("claude in projects")>> BY SameSteps DEF Claude!VerifyMembership
    <3> QED BY <1>6, <3>1, Listed
  <2>4. verifyOperatorInTorioProjects \in Seq(F)
    <3>1. verifyOperatorInTorioProjects = <<Proves("session")>> BY SameSteps DEF verifyOperatorInTorioProjects
    <3> QED BY <1>6, <3>1, Listed
  <2>5. Claude!verifyGroupsExact \in Seq(F)
    <3>1. Claude!verifyGroupsExact = <<Proves("claude groups")>> BY SameSteps DEF Claude!verifyGroupsExact
    <3> QED BY <1>6, <3>1, Listed
  <2>6. Claude!verifyNoSudo \in Seq(F)
    <3>1. Claude!verifyNoSudo = <<Proves("claude sudo")>> BY SameSteps DEF Claude!verifyNoSudo
    <3> QED BY <1>6, <3>1, Listed
  <2>7. verifyArch \in Seq(F)
    <3>1. verifyArch = <<Proves("architecture")>> BY SameSteps DEF verifyArch
    <3> QED BY <1>6, <3>1, Listed
  <2>8. verifyGit \in Seq(F)
    <3>1. verifyGit = <<Proves("git")>> BY SameSteps DEF verifyGit
    <3> QED BY <1>6, <3>1, Listed
  <2>9. Claude!RequiredPaths \in Seq(F)
    <3>1. Claude!RequiredPaths = <<Proves("claude home"), ProvesPath("claude profile"), ProvesPath("claude brain"), Proves("claude workspace")>> BY SameSteps DEF Claude!RequiredPaths
    <3> QED BY <1>6, <3>1, Listed
  <2>10. verifyNoHostMounts \in Seq(F)
    <3>1. verifyNoHostMounts = <<Proves("mounts")>> BY SameSteps DEF verifyNoHostMounts
    <3> QED BY <1>6, <3>1, Listed
  <2>11. verifyOperatorShellHelper \in Seq(F)
    <3>1. verifyOperatorShellHelper = <<Creates("shell helper")>> BY SameSteps DEF verifyOperatorShellHelper
    <3> QED BY <1>6, <3>1, Listed
  <2>12. verifyProjectEnterHelper \in Seq(F)
    <3>1. verifyProjectEnterHelper = <<Creates("enter helper")>> BY SameSteps DEF verifyProjectEnterHelper
    <3> QED BY <1>6, <3>1, Listed
  <2>13. Claude!Session \in Seq(F)
    <3>1. Claude!Session = <<Creates("claude session helper"), Creates("claude push helper")>> BY SameSteps DEF Claude!Session
    <3> QED BY <1>6, <3>1, Listed
  <2>14. Claude!reconcileManagedSettings \in Seq(F)
    <3>1. Claude!reconcileManagedSettings = <<Creates("claude settings")>> BY SameSteps DEF Claude!reconcileManagedSettings
    <3> QED BY <1>6, <3>1, Listed
  <2>15. Claude!verifyWaitingMarkerDependencies \in Seq(F)
    <3>1. Claude!verifyWaitingMarkerDependencies = <<Proves("jq")>> BY SameSteps DEF Claude!verifyWaitingMarkerDependencies
    <3> QED BY <1>6, <3>1, Listed
  <2>16. Claude!reconcileWaitingMarkerState \in Seq(F)
    <3>1. Claude!reconcileWaitingMarkerState = <<Creates("claude waiting marker")>> BY SameSteps DEF Claude!reconcileWaitingMarkerState
    <3> QED BY <1>6, <3>1, Listed
  <2>17. Claude!reportMCPServers \in Seq(F)
    <3>1. Claude!reportMCPServers = <<Observes("claude servers")>> BY SameSteps DEF Claude!reportMCPServers
    <3> QED BY <1>6, <3>1, Listed
  <2>18. Claude!ProbeAuth \in Seq(F)
    <3>1. Claude!ProbeAuth = <<Observes("claude credential")>> BY SameSteps DEF Claude!ProbeAuth
    <3> QED BY <1>6, <3>1, Listed
  <2> QED BY <2>1, <2>2, <2>3, <2>4, <2>5, <2>6, <2>7, <2>8, <2>9, <2>10, <2>11, <2>12, <2>13, <2>14, <2>15, <2>16, <2>17, <2>18
<1>8. <<Creates("claude waiting helper")>> \in Seq(F) BY <1>6, Listed
<1>9. Claude!VerifyIsolation \in Seq(F) BY <1>7, Joins DEF Claude!VerifyIsolation
<1>10. Claude!reconcileWaitingMarkerHelper \in Seq(F)
  BY <1>7, <1>8, SameSteps, Joins DEF Claude!reconcileWaitingMarkerHelper
<1>11. Claude!VerifyGuardrails \in Seq(F)
  <2> DEFINE x == Claude!reconcileManagedSettings \o Claude!reconcileWaitingMarkerHelper
             y == x \o Claude!reconcileWaitingMarkerState
  <2>1. x \in Seq(F) BY <1>7, <1>10, Joins
  <2>2. y \in Seq(F)
    <3> HIDE DEF x
    <3> QED BY <1>7, <2>1, Joins
  <2>3. y \o Claude!reportMCPServers \in Seq(F)
    <3> HIDE DEF y
    <3> QED BY <1>7, <2>2, Joins
  <2> QED BY <2>3 DEF Claude!VerifyGuardrails
<1>12. Claude!Install = <<Installs(BinaryOf("claude-code")), ProvesOwner(BinaryOf("claude-code")), Repoints(LinkOf("claude-code"))>>
  <2>1. \A x, y, z : (<<x>> \o <<y>>) \o <<z>> = <<x, y, z>> BY Three
  <2>2. Claude!Install = (<<Claude!Installs("claude binary")>> \o <<Claude!ProvesOwner("claude binary")>>) \o <<Claude!Repoints("claude link")>>
    BY DEF Claude!Install, Claude!verifyTarget, Claude!reconcileCommandPath
  <2>3. Claude!Install = (<<Installs(BinaryOf("claude-code"))>> \o <<ProvesOwner(BinaryOf("claude-code"))>>) \o <<Repoints(LinkOf("claude-code"))>>
    BY <1>2, <2>2, SameSteps
  <2> QED BY <2>1, <2>3
<1>13. Claude!VerifyVersion = <<Answers(LinkOf("claude-code"), BinaryOf("claude-code"))>>
  BY <1>2, SameSteps DEF Claude!VerifyVersion
<1> QED BY <1>7, <1>9, <1>11, <1>12, <1>13 DEF F

LEMMA CodexLists ==
  /\ Cdx!VerifyIdentity \in Seq(Free("codex")) /\ Cdx!VerifyMembership \in Seq(Free("codex"))
  /\ Cdx!VerifyIsolation \in Seq(Free("codex")) /\ Cdx!RequiredPaths \in Seq(Free("codex"))
  /\ Cdx!Session \in Seq(Free("codex")) /\ Cdx!VerifyGuardrails \in Seq(Free("codex"))
  /\ Cdx!ProbeAuth \in Seq(Free("codex"))
  /\ verifyTorioProjectsGroup \in Seq(Free("codex")) /\ verifyOperatorInTorioProjects \in Seq(Free("codex"))
  /\ verifyArch \in Seq(Free("codex")) /\ verifyGit \in Seq(Free("codex")) /\ verifyNoHostMounts \in Seq(Free("codex"))
  /\ verifyOperatorShellHelper \in Seq(Free("codex")) /\ verifyProjectEnterHelper \in Seq(Free("codex"))
  /\ Cdx!Install = <<Installs(BinaryOf("codex")), ProvesOwner(BinaryOf("codex")), Repoints(LinkOf("codex"))>>
  /\ Cdx!VerifyVersion = <<Answers(LinkOf("codex"), BinaryOf("codex"))>>
<1> DEFINE F == Free("codex")
<1>2. /\ BinaryOf("codex") = "codex binary" /\ LinkOf("codex") = "codex link" BY DEF BinaryOf, LinkOf, Of
<1>3. {"codex user", "codex in projects", "codex groups", "codex sudo"}
      \cup {"codex home", "codex workspace", "jq", "projects group", "session", "architecture", "git", "mounts"}
      \subseteq Shown("codex") \cup {"session"}
  BY DEF Private, Shown, Supplies, Provisioned, OfTheImage, Of, Cdx!ProvisionScript, Cdx!OfTheImage
<1>4. {"codex profile", "codex brain"} \subseteq Private /\ {"codex profile", "codex brain"} \subseteq Supplies("codex")
  BY DEF Private, Supplies, Provisioned, Of, Cdx!ProvisionScript
<1>5. {"shell helper", "enter helper"} \cup {"codex session helper", "codex push helper", "codex system config", "codex waiting helper", "codex waiting marker"}
      \subseteq Made
  BY DEF Made
<1>6. /\ Proves("codex user") \in F /\ Proves("codex in projects") \in F
      /\ Proves("codex groups") \in F /\ Proves("codex sudo") \in F
      /\ Proves("codex home") \in F /\ Proves("codex workspace") \in F
      /\ Proves("jq") \in F /\ Proves("projects group") \in F
      /\ Proves("session") \in F /\ Proves("architecture") \in F
      /\ Proves("git") \in F /\ Proves("mounts") \in F
      /\ Creates("shell helper") \in F /\ Creates("enter helper") \in F
      /\ Creates("codex session helper") \in F /\ Creates("codex push helper") \in F
      /\ Creates("codex system config") \in F /\ Creates("codex waiting helper") \in F
      /\ Creates("codex waiting marker") \in F /\ ProvesPath("codex profile") \in F
      /\ ProvesPath("codex brain") \in F /\ Observes("codex servers") \in F
      /\ Observes("codex credential") \in F
  <2>1. ASSUME NEW p \in Shown("codex") \cup {"session"}, p \in Names PROVE Proves(p) \in F
    BY <2>1, FreeSteps
  <2>2. ASSUME NEW p \in Made, p \in Names PROVE Creates(p) \in F BY <2>2, FreeSteps
  <2>3. ASSUME NEW p \in Private, p \in Supplies("codex"), p \in Names PROVE ProvesPath(p) \in F BY <2>3, FreeSteps
  <2>4. ASSUME NEW p \in Names PROVE Observes(p) \in F BY FreeSteps
  <2> HIDE DEF F
  <2> QED BY <1>3, <1>4, <1>5, <2>1, <2>2, <2>3, <2>4, Known
<1> HIDE DEF F
<1>7. /\ Cdx!VerifyIdentity \in Seq(F) /\ verifyTorioProjectsGroup \in Seq(F)
      /\ Cdx!VerifyMembership \in Seq(F) /\ verifyOperatorInTorioProjects \in Seq(F)
      /\ Cdx!verifyGroupsExact \in Seq(F) /\ Cdx!verifyNoSudo \in Seq(F)
      /\ verifyArch \in Seq(F) /\ verifyGit \in Seq(F)
      /\ Cdx!RequiredPaths \in Seq(F) /\ verifyNoHostMounts \in Seq(F)
      /\ verifyOperatorShellHelper \in Seq(F) /\ verifyProjectEnterHelper \in Seq(F)
      /\ Cdx!Session \in Seq(F) /\ Cdx!reconcileSystemConfig \in Seq(F)
      /\ Cdx!verifyWaitingMarkerDependencies \in Seq(F) /\ Cdx!reconcileWaitingMarkerState \in Seq(F)
      /\ Cdx!reportMCPServers \in Seq(F) /\ Cdx!ProbeAuth \in Seq(F)
  <2>1. Cdx!VerifyIdentity \in Seq(F)
    <3>1. Cdx!VerifyIdentity = <<Proves("codex user")>> BY SameSteps DEF Cdx!VerifyIdentity
    <3> QED BY <1>6, <3>1, Listed
  <2>2. verifyTorioProjectsGroup \in Seq(F)
    <3>1. verifyTorioProjectsGroup = <<Proves("projects group")>> BY SameSteps DEF verifyTorioProjectsGroup
    <3> QED BY <1>6, <3>1, Listed
  <2>3. Cdx!VerifyMembership \in Seq(F)
    <3>1. Cdx!VerifyMembership = <<Proves("codex in projects")>> BY SameSteps DEF Cdx!VerifyMembership
    <3> QED BY <1>6, <3>1, Listed
  <2>4. verifyOperatorInTorioProjects \in Seq(F)
    <3>1. verifyOperatorInTorioProjects = <<Proves("session")>> BY SameSteps DEF verifyOperatorInTorioProjects
    <3> QED BY <1>6, <3>1, Listed
  <2>5. Cdx!verifyGroupsExact \in Seq(F)
    <3>1. Cdx!verifyGroupsExact = <<Proves("codex groups")>> BY SameSteps DEF Cdx!verifyGroupsExact
    <3> QED BY <1>6, <3>1, Listed
  <2>6. Cdx!verifyNoSudo \in Seq(F)
    <3>1. Cdx!verifyNoSudo = <<Proves("codex sudo")>> BY SameSteps DEF Cdx!verifyNoSudo
    <3> QED BY <1>6, <3>1, Listed
  <2>7. verifyArch \in Seq(F)
    <3>1. verifyArch = <<Proves("architecture")>> BY SameSteps DEF verifyArch
    <3> QED BY <1>6, <3>1, Listed
  <2>8. verifyGit \in Seq(F)
    <3>1. verifyGit = <<Proves("git")>> BY SameSteps DEF verifyGit
    <3> QED BY <1>6, <3>1, Listed
  <2>9. Cdx!RequiredPaths \in Seq(F)
    <3>1. Cdx!RequiredPaths = <<Proves("codex home"), ProvesPath("codex profile"), ProvesPath("codex brain"), Proves("codex workspace")>> BY SameSteps DEF Cdx!RequiredPaths
    <3> QED BY <1>6, <3>1, Listed
  <2>10. verifyNoHostMounts \in Seq(F)
    <3>1. verifyNoHostMounts = <<Proves("mounts")>> BY SameSteps DEF verifyNoHostMounts
    <3> QED BY <1>6, <3>1, Listed
  <2>11. verifyOperatorShellHelper \in Seq(F)
    <3>1. verifyOperatorShellHelper = <<Creates("shell helper")>> BY SameSteps DEF verifyOperatorShellHelper
    <3> QED BY <1>6, <3>1, Listed
  <2>12. verifyProjectEnterHelper \in Seq(F)
    <3>1. verifyProjectEnterHelper = <<Creates("enter helper")>> BY SameSteps DEF verifyProjectEnterHelper
    <3> QED BY <1>6, <3>1, Listed
  <2>13. Cdx!Session \in Seq(F)
    <3>1. Cdx!Session = <<Creates("codex session helper"), Creates("codex push helper")>> BY SameSteps DEF Cdx!Session
    <3> QED BY <1>6, <3>1, Listed
  <2>14. Cdx!reconcileSystemConfig \in Seq(F)
    <3>1. Cdx!reconcileSystemConfig = <<Creates("codex system config")>> BY SameSteps DEF Cdx!reconcileSystemConfig
    <3> QED BY <1>6, <3>1, Listed
  <2>15. Cdx!verifyWaitingMarkerDependencies \in Seq(F)
    <3>1. Cdx!verifyWaitingMarkerDependencies = <<Proves("jq")>> BY SameSteps DEF Cdx!verifyWaitingMarkerDependencies
    <3> QED BY <1>6, <3>1, Listed
  <2>16. Cdx!reconcileWaitingMarkerState \in Seq(F)
    <3>1. Cdx!reconcileWaitingMarkerState = <<Creates("codex waiting marker")>> BY SameSteps DEF Cdx!reconcileWaitingMarkerState
    <3> QED BY <1>6, <3>1, Listed
  <2>17. Cdx!reportMCPServers \in Seq(F)
    <3>1. Cdx!reportMCPServers = <<Observes("codex servers")>> BY SameSteps DEF Cdx!reportMCPServers
    <3> QED BY <1>6, <3>1, Listed
  <2>18. Cdx!ProbeAuth \in Seq(F)
    <3>1. Cdx!ProbeAuth = <<Observes("codex credential")>> BY SameSteps DEF Cdx!ProbeAuth
    <3> QED BY <1>6, <3>1, Listed
  <2> QED BY <2>1, <2>2, <2>3, <2>4, <2>5, <2>6, <2>7, <2>8, <2>9, <2>10, <2>11, <2>12, <2>13, <2>14, <2>15, <2>16, <2>17, <2>18
<1>8. <<Creates("codex waiting helper")>> \in Seq(F) BY <1>6, Listed
<1>9. Cdx!VerifyIsolation \in Seq(F) BY <1>7, Joins DEF Cdx!VerifyIsolation
<1>10. Cdx!reconcileWaitingMarkerHelper \in Seq(F)
  BY <1>7, <1>8, SameSteps, Joins DEF Cdx!reconcileWaitingMarkerHelper
<1>11. Cdx!VerifyGuardrails \in Seq(F)
  <2> DEFINE x == Cdx!reconcileSystemConfig \o Cdx!reconcileWaitingMarkerHelper
             y == x \o Cdx!reconcileWaitingMarkerState
  <2>1. x \in Seq(F) BY <1>7, <1>10, Joins
  <2>2. y \in Seq(F)
    <3> HIDE DEF x
    <3> QED BY <1>7, <2>1, Joins
  <2>3. y \o Cdx!reportMCPServers \in Seq(F)
    <3> HIDE DEF y
    <3> QED BY <1>7, <2>2, Joins
  <2> QED BY <2>3 DEF Cdx!VerifyGuardrails
<1>12. Cdx!Install = <<Installs(BinaryOf("codex")), ProvesOwner(BinaryOf("codex")), Repoints(LinkOf("codex"))>>
  <2>1. \A x, y, z : (<<x>> \o <<y>>) \o <<z>> = <<x, y, z>> BY Three
  <2>2. Cdx!Install = (<<Cdx!Installs("codex binary")>> \o <<Cdx!ProvesOwner("codex binary")>>) \o <<Cdx!Repoints("codex link")>>
    BY DEF Cdx!Install, Cdx!verifyTarget, Cdx!reconcileCommandPath
  <2>3. Cdx!Install = (<<Installs(BinaryOf("codex"))>> \o <<ProvesOwner(BinaryOf("codex"))>>) \o <<Repoints(LinkOf("codex"))>>
    BY <1>2, <2>2, SameSteps
  <2> QED BY <2>1, <2>3
<1>13. Cdx!VerifyVersion = <<Answers(LinkOf("codex"), BinaryOf("codex"))>>
  BY <1>2, SameSteps DEF Cdx!VerifyVersion
<1> QED BY <1>7, <1>9, <1>11, <1>12, <1>13 DEF F

LEMMA BootWhole ==
  ASSUME NEW b \in Backends
  PROVE  Whole(b, Bootstrap(b)) /\ Proves("session") \in ToSet(Bootstrap(b))
<1> DEFINE F == Free(b)
           x == Proves("session")
           i == Installs(BinaryOf(b))
           r == Repoints(LinkOf(b))
           l1 == Of(b, Claude!VerifyIdentity, Cdx!VerifyIdentity)
           l2 == verifyTorioProjectsGroup
           l3 == Of(b, Claude!VerifyMembership, Cdx!VerifyMembership)
           l4 == verifyOperatorInTorioProjects
           l5 == Of(b, Claude!VerifyIsolation, Cdx!VerifyIsolation)
           l6 == Of(b, Claude!Install, Cdx!Install)
           l7 == verifyArch
           l8 == Of(b, Claude!VerifyVersion, Cdx!VerifyVersion)
           l9 == verifyGit
           l10 == Of(b, Claude!RequiredPaths, Cdx!RequiredPaths)
           l11 == verifyNoHostMounts
           l12 == verifyOperatorShellHelper
           l13 == verifyProjectEnterHelper
           l14 == Of(b, Claude!Session, Cdx!Session)
           l15 == Of(b, Claude!VerifyGuardrails, Cdx!VerifyGuardrails)
           l16 == Of(b, Claude!ProbeAuth, Cdx!ProbeAuth)
           s1 == l1
           s2 == s1 \o l2
           s3 == s2 \o l3
           s4 == s3 \o l4
           s5 == s4 \o l5
           s6 == s5 \o l6
           s7 == s6 \o l7
           s8 == s7 \o l8
           s9 == s8 \o l9
           s10 == s9 \o l10
           s11 == s10 \o l11
           s12 == s11 \o l12
           s13 == s12 \o l13
           s14 == s13 \o l14
           s15 == s14 \o l15
           s16 == s15 \o l16
<1>1. /\ l1 \in Seq(F) /\ l2 \in Seq(F) /\ l3 \in Seq(F) /\ l4 \in Seq(F) /\ l5 \in Seq(F) /\ l7 \in Seq(F) /\ l9 \in Seq(F)
      /\ l10 \in Seq(F) /\ l11 \in Seq(F) /\ l12 \in Seq(F) /\ l13 \in Seq(F) /\ l14 \in Seq(F) /\ l15 \in Seq(F) /\ l16 \in Seq(F)
      /\ l6 = <<Installs(BinaryOf(b)), ProvesOwner(BinaryOf(b)), Repoints(LinkOf(b))>>
      /\ l8 = <<Answers(LinkOf(b), BinaryOf(b))>>
  BY ClaudeLists, CodexLists DEF Of, Backends
<1>2. x \in ToSet(l4) BY Only DEF verifyOperatorInTorioProjects
<1>3. Bootstrap(b) = s16 BY DEF Bootstrap
<1> HIDE DEF F, x, i, r, l1, l2, l3, l4, l5, l6, l7, l8, l9, l10, l11, l12, l13, l14, l15, l16
<1>4. Whole(b, s1)
  <2>1. <<>> \in Seq(AllSteps) /\ ToSet(<<>>) = {} BY DEF ToSet
  <2>2. Whole(b, <<>>) BY <2>1 DEF Whole, InOrder
  <2>3. <<>> \o l1 = l1 BY <1>1
  <2> QED BY <1>1, <2>2, <2>3, WholeFree DEF F
<1>5. Whole(b, s2)
  <2> HIDE DEF s1
  <2> QED BY <1>1, <1>4, WholeFree DEF F, i, r
<1>6. Whole(b, s3)
  <2> HIDE DEF s2
  <2> QED BY <1>1, <1>5, WholeFree DEF F, i, r
<1>7. Whole(b, s4) /\ x \in ToSet(s4)
  <2> HIDE DEF s3
  <2> QED BY <1>1, <1>2, <1>6, WholeFree DEF F, i, r
<1>8. Whole(b, s5) /\ x \in ToSet(s5)
  <2> HIDE DEF s4
  <2> QED BY <1>1, <1>7, WholeFree DEF F, i, r
<1>9. Whole(b, s6) /\ x \in ToSet(s6) /\ i \in ToSet(s6) /\ r \in ToSet(s6)
  <2> HIDE DEF s5
  <2> QED BY <1>1, <1>8, WholeInstall DEF F, i, r
<1>10. Whole(b, s7) /\ x \in ToSet(s7) /\ i \in ToSet(s7) /\ r \in ToSet(s7)
  <2> HIDE DEF s6
  <2> QED BY <1>1, <1>9, WholeFree DEF F, i, r
<1>11. Whole(b, s8) /\ x \in ToSet(s8)
  <2> HIDE DEF s7
  <2> QED BY <1>1, <1>10, WholeAnswer DEF F, i, r
<1>12. Whole(b, s9) /\ x \in ToSet(s9)
  <2> HIDE DEF s8
  <2> QED BY <1>1, <1>11, WholeFree DEF F, i, r
<1>13. Whole(b, s10) /\ x \in ToSet(s10)
  <2> HIDE DEF s9
  <2> QED BY <1>1, <1>12, WholeFree DEF F, i, r
<1>14. Whole(b, s11) /\ x \in ToSet(s11)
  <2> HIDE DEF s10
  <2> QED BY <1>1, <1>13, WholeFree DEF F, i, r
<1>15. Whole(b, s12) /\ x \in ToSet(s12)
  <2> HIDE DEF s11
  <2> QED BY <1>1, <1>14, WholeFree DEF F, i, r
<1>16. Whole(b, s13) /\ x \in ToSet(s13)
  <2> HIDE DEF s12
  <2> QED BY <1>1, <1>15, WholeFree DEF F, i, r
<1>17. Whole(b, s14) /\ x \in ToSet(s14)
  <2> HIDE DEF s13
  <2> QED BY <1>1, <1>16, WholeFree DEF F, i, r
<1>18. Whole(b, s15) /\ x \in ToSet(s15)
  <2> HIDE DEF s14
  <2> QED BY <1>1, <1>17, WholeFree DEF F, i, r
<1>19. Whole(b, s16) /\ x \in ToSet(s16)
  <2> HIDE DEF s15
  <2> QED BY <1>1, <1>18, WholeFree DEF F, i, r
<1> QED BY <1>3, <1>19 DEF x

-----------------------------------------------------------------------------
(* The parts and what becomes of them. *)

\* A part is of one kind.
LEMMA Apart ==
  ASSUME NEW b
  PROVE  /\ BinaryOf(b) \in Binaries /\ LinkOf(b) \in LinkParts
         /\ Scratch \cap Made = {} /\ Scratch \cap Binaries = {} /\ Scratch \cap LinkParts = {}
         /\ Scratch \cap Private = {} /\ Made \cap Binaries = {} /\ Made \cap LinkParts = {}
         /\ Made \cap Private = {} /\ Binaries \cap LinkParts = {} /\ Binaries \cap Private = {}
         /\ LinkParts \cap Private = {}
         /\ Supplies(b) \cap (Scratch \cup Binaries \cup LinkParts) = {}
         /\ "session" \notin Scratch \cup Made \cup Binaries \cup LinkParts \cup Private \cup Supplies(b)
         /\ "operator in projects" \notin Scratch \cup Made \cup Binaries \cup LinkParts \cup Private
         /\ "operator in projects" \in Provisioned(b)
         /\ Shown(b) \subseteq Supplies(b) /\ Shown(b) \cap Private = {} /\ "operator in projects" \notin Shown(b)
<1>1. BinaryOf(b) \in Binaries /\ LinkOf(b) \in LinkParts BY DEF BinaryOf, LinkOf, Of, Binaries, LinkParts
<1>2. /\ Scratch \cap Made = {} /\ Scratch \cap Binaries = {} /\ Scratch \cap LinkParts = {}
      /\ Scratch \cap Private = {}
  BY DEF Scratch, Made, Binaries, LinkParts, Private
<1>3. Made \cap Binaries = {} /\ Made \cap LinkParts = {} /\ Made \cap Private = {}
  BY DEF Made, Binaries, LinkParts, Private
<1>4. Binaries \cap LinkParts = {} /\ Binaries \cap Private = {} /\ LinkParts \cap Private = {}
  BY DEF Binaries, LinkParts, Private
<1>5. Supplies(b) \cap (Scratch \cup Binaries \cup LinkParts) = {} /\ "session" \notin Supplies(b)
  <2>1. /\ Provisioned(b) \cap (Scratch \cup Binaries \cup LinkParts) = {} /\ "session" \notin Provisioned(b)
    BY DEF Provisioned, Of, Claude!ProvisionScript, Cdx!ProvisionScript, Scratch, Binaries, LinkParts
  <2>2. /\ OfTheImage(b) \cap (Scratch \cup Binaries \cup LinkParts) = {} /\ "session" \notin OfTheImage(b)
    BY DEF OfTheImage, Of, Claude!OfTheImage, Cdx!OfTheImage, Scratch, Binaries, LinkParts
  <2> QED BY <2>1, <2>2 DEF Supplies
<1>6. "session" \notin Scratch \cup Made \cup Binaries \cup LinkParts \cup Private
  BY DEF Scratch, Made, Binaries, LinkParts, Private
<1>7. "operator in projects" \notin Scratch \cup Made \cup Binaries \cup LinkParts \cup Private
  BY DEF Scratch, Made, Binaries, LinkParts, Private
<1>8. "operator in projects" \in Provisioned(b) BY DEF Provisioned
<1>9. Shown(b) \subseteq Supplies(b) /\ Shown(b) \cap Private = {} /\ "operator in projects" \notin Shown(b)
  BY DEF Shown
<1> QED BY <1>1, <1>2, <1>3, <1>4, <1>5, <1>6, <1>7, <1>8, <1>9

LEMMA InParts ==
  /\ \A b \in Backends : Proven(b) \subseteq Parts /\ Provisioned(b) \subseteq Parts
  /\ Scratch \subseteq Parts /\ Binaries \subseteq Parts /\ "operator in projects" \in Parts
<1>1. ASSUME NEW b \in Backends PROVE Proven(b) \subseteq Parts /\ Provisioned(b) \subseteq Parts
  <2>1. Proven(b) \cup Provisioned(b) \in {Proven(c) \cup Provisioned(c) : c \in Backends} OBVIOUS
  <2> QED BY <2>1, Zenon DEF Parts
<1>2. Scratch \subseteq Parts BY Binary DEF Scratch
<1>3. Binaries \subseteq Parts BY Binary DEF Binaries
<1>4. "claude-code" \in Backends BY DEF Backends
<1>5. "operator in projects" \in Parts BY <1>1, <1>4, Apart
<1> QED BY <1>1, <1>2, <1>3, <1>5

\* What is proved is shown, private, made, or the binary and its link.
LEMMA ProvenParts ==
  ASSUME NEW b \in Backends, NEW p \in Proven(b)
  PROVE  /\ p \in Shown(b) \cup (Private \cap Supplies(b)) \cup Made \cup {BinaryOf(b), LinkOf(b)}
         /\ p # "session" /\ \E t \in ToSet(Bootstrap(b)) : Owes(t, p)
<1>1. PICK s \in ToSet(Bootstrap(b)) : s.does # "observe" /\ s.part = p BY DEF Proven
<1>2. p # "session" BY DEF Proven
<1>3. /\ About(b, s) /\ s.does \in Listings /\ \E t \in ToSet(Bootstrap(b)) : Owes(t, p)
  BY <1>1, BootWhole DEF Whole
<1>4. s.does \in {"prove", "provePath", "proveOwner", "create", "repoint", "install", "answer"}
  BY <1>1, <1>3 DEF Listings
<1> QED BY <1>1, <1>2, <1>3, <1>4 DEF About

-----------------------------------------------------------------------------
(* Every plan is tame. *)

LEMMA BeginGives ==
  ASSUME Base, NEW c \in Commands, Begins(c)
  PROVE  \E op \in {"init", "start", "stop", "bootstrap"}, b \in Backends :
            /\ job'[c] \in Jobs /\ job'[c].op = op /\ job'[c].backend = b
            /\ job'[c].reconcile = FALSE => op = "bootstrap"
            /\ plan'[c] = Planned(op, b) /\ result'[c] = "none" /\ touched'[c] = FALSE /\ ~Running(c)
            /\ \A d \in Commands : d # c => /\ job'[d] = job[d] /\ plan'[d] = plan[d]
                                            /\ result'[d] = result[d] /\ touched'[d] = touched[d]
            /\ UNCHANGED guestVars
<1>1. PICK op \in {"init", "start", "stop", "bootstrap"}, f \in Flags, b \in Backends, r \in BOOLEAN :
        Begin(c, op, f, b, r) /\ (r = FALSE => op = "bootstrap")
  BY DEF Begins, StartInit, StartStart, StartStop, StartBootstrap, StartVerify
<1> DEFINE j == [op |-> op, flag |-> f, backend |-> b, reconcile |-> r]
<1>2. /\ ~Running(c) /\ job' = [job EXCEPT ![c] = j] /\ plan' = [plan EXCEPT ![c] = Planned(op, b)]
      /\ result' = [result EXCEPT ![c] = "none"] /\ touched' = [touched EXCEPT ![c] = FALSE]
      /\ UNCHANGED guestVars
  BY <1>1 DEF Begin
<1>3. j \in Jobs /\ j.op = op /\ j.backend = b /\ (j.reconcile = FALSE => op = "bootstrap") BY <1>1 DEF Jobs
<1> HIDE DEF j
<1>4. /\ job'[c] = j /\ plan'[c] = Planned(op, b) /\ result'[c] = "none" /\ touched'[c] = FALSE
      /\ \A d \in Commands : d # c => /\ job'[d] = job[d] /\ plan'[d] = plan[d]
                                      /\ result'[d] = result[d] /\ touched'[d] = touched[d]
  BY <1>2 DEF Base, JobsTyped
<1> QED BY <1>2, <1>3, <1>4

LEMMA HostTame ==
  ASSUME NEW v \in {"declare", "make", "boot", "reconnect", "halt", "running"}, NEW j,
         v = "running" => j.op = "bootstrap", j.reconcile = FALSE => j.op = "bootstrap"
  PROVE  Host(v) \in TameSteps(j)
<1> DEFINE s == Host(v)
<1>1. s = [does |-> v, part |-> "none", from |-> "none"] BY DEF Host, Step
<1>a. v \in AllVerbs /\ "none" \in Names BY Known DEF AllVerbs
<1>b. s.does = v BY <1>1
<1>c. s \in AllSteps BY <1>1, <1>a DEF AllSteps
<1>2. s.does = v /\ s \in AllSteps BY <1>b, <1>c
<1> HIDE DEF s
<1>3. About(j.backend, s) BY <1>2 DEF About
<1>4. Tame(j, s) BY <1>2, <1>3 DEF Tame, Idle, Changers
<1> QED BY <1>2, <1>4 DEF TameSteps, s

LEMMA BootTame ==
  ASSUME NEW j, j.backend \in Backends, j.op = "bootstrap"
  PROVE  Bootstrap(j.backend) \in Seq(TameSteps(j))
<1> DEFINE b == j.backend
           pl == Bootstrap(b)
<1>1. Whole(b, pl) BY BootWhole
<1>2. ASSUME NEW s \in ToSet(pl) PROVE Tame(j, s)
  <2>1. pl \in Seq(AllSteps) BY <1>1 DEF Whole
  <2>2. s \in AllSteps
    <3> HIDE DEF pl
    <3> QED BY <2>1, <1>2, Members
  <2>3. About(b, s) /\ s.does \in Listings BY <1>1, <1>2 DEF Whole
  <2>4. s.does # "observe" => s.part \in Proven(b) \cup {"session"} BY <1>2 DEF Proven
  <2>5. s.does # "observe" => s.part \in Parts \cup {"session"} BY <2>4, InParts
  <2> QED BY <2>2, <2>3, <2>5 DEF Tame, Listings, Changers, Idle
<1>3. pl \in Seq(AllSteps) BY <1>1 DEF Whole
<1> HIDE DEF pl
<1>4. ToSet(pl) \subseteq AllSteps BY <1>3, Members
<1>5. ToSet(pl) \subseteq TameSteps(j) BY <1>2, <1>4 DEF TameSteps
<1> DEFINE T == TameSteps(j)
<1> HIDE DEF T
<1>6. pl \in Seq(T) BY <1>3, <1>5, Members DEF T
<1> QED BY <1>6 DEF T, pl

LEMMA PlannedTame ==
  ASSUME NEW j, NEW op \in {"init", "start", "stop", "bootstrap"}, NEW b \in Backends, j.op = op, j.backend = b,
         j.reconcile = FALSE => op = "bootstrap"
  PROVE  Planned(op, b) \in Seq(TameSteps(j))
<1> DEFINE T == TameSteps(j)
<1>1. CASE op # "bootstrap"
  <2>1. Host("declare") \in T /\ Host("make") \in T /\ Host("boot") \in T /\ Host("reconnect") \in T
        /\ Host("halt") \in T
    BY <1>1, HostTame
  <2>2. Planned(op, b) \in {<<Host("declare"), Host("make")>>, <<Host("boot"), Host("reconnect")>>, <<Host("halt")>>}
    BY <1>1 DEF Planned
  <2> HIDE DEF T
  <2>3. Planned(op, b) \in Seq(T) BY <2>1, <2>2, Listed
  <2> QED BY <2>3 DEF T
<1>2. CASE op = "bootstrap"
  <2> DEFINE h == Host("running")
             t == Bootstrap(b)
  <2>1. h \in T /\ t \in Seq(T) BY <1>2, HostTame, BootTame
  <2>2. Planned(op, b) = <<h>> \o t BY <1>2 DEF Planned
  <2> HIDE DEF T, h, t
  <2>3. <<h>> \o t \in Seq(T) BY <2>1, ConsIn
  <2> QED BY <2>2, <2>3 DEF T
<1> QED BY <1>1, <1>2

\* The steps of a download, and the one that places the binary.
Hauls(j) == {s \in TameSteps(j) : s.does \in {"fetch", "check", "place", "clear"}}

LEMMA HaulIn ==
  ASSUME NEW j, j.reconcile = TRUE, j.op = "bootstrap", NEW v \in {"fetch", "check", "place", "clear"},
         NEW p \in Scratch \cup {BinaryOf(j.backend)}, NEW q \in Scratch \cup {"none"}, j.backend \in Backends,
         v # "place" => p \in Scratch, v = "place" => q \in Scratch /\ p \in {"codex extract", BinaryOf(j.backend)}
  PROVE  [does |-> v, part |-> p, from |-> q] \in Hauls(j)
<1>1. p \in Parts
  <2>1. BinaryOf(j.backend) \in Binaries BY Apart
  <2> QED BY <2>1, InParts
<1>2. p \in Names /\ q \in Names /\ v \in AllVerbs
  <2>1. BinaryOf(j.backend) \in Names BY Known DEF BinaryOf, Of
  <2>2. Scratch \subseteq Names BY Known DEF Scratch
  <2>3. "none" \in Names /\ "check" \in Verbs /\ "clear" \in Verbs BY Known
  <2> QED BY <2>1, <2>2, <2>3 DEF AllVerbs
<1> DEFINE s == [does |-> v, part |-> p, from |-> q]
<1>3. s.does = v /\ s.part = p /\ s.from = q /\ s \in AllSteps BY <1>2 DEF AllSteps
<1> HIDE DEF s
<1>4. About(j.backend, s) BY <1>3 DEF About
<1>5. Tame(j, s) BY <1>1, <1>3, <1>4 DEF Tame
<1> QED BY <1>3, <1>5 DEF Hauls, TameSteps, s

LEMMA DownloadHauls ==
  ASSUME NEW j, j.reconcile = TRUE, j.op = "bootstrap", j.backend \in Backends
  PROVE  LET d == Of(j.backend, Claude!download, Cdx!download) IN
         d \in Seq(Hauls(j)) /\ \E s \in ToSet(d) : Provides(s, BinaryOf(j.backend))
<1> DEFINE H == Hauls(j)
<1>0. /\ "claude staging" \in Scratch /\ "codex staging" \in Scratch /\ "codex extract" \in Scratch
  BY DEF Scratch
<1>1. CASE j.backend = "claude-code"
  <2> DEFINE F == Fetches("claude staging")
             C == Checks("claude staging")
             P == Places("claude binary", "claude staging")
             K == Clears("claude staging")
  <2>1. BinaryOf(j.backend) = "claude binary" BY <1>1 DEF BinaryOf, Of
  <2>2. /\ F = [does |-> "fetch", part |-> "claude staging", from |-> "none"]
        /\ C = [does |-> "check", part |-> "claude staging", from |-> "none"]
        /\ P = [does |-> "place", part |-> "claude binary", from |-> "claude staging"]
        /\ K = [does |-> "clear", part |-> "claude staging", from |-> "none"]
    BY DEF Fetches, Checks, Places, Clears, Step
  <2>3. F \in H
    <3>1. [does |-> "fetch", part |-> "claude staging", from |-> "none"] \in H BY <1>0, HaulIn
    <3> QED BY <2>2, <3>1
  <2>4. C \in H
    <3>1. [does |-> "check", part |-> "claude staging", from |-> "none"] \in H BY <1>0, HaulIn
    <3> QED BY <2>2, <3>1
  <2>5. P \in H
    <3>1. [does |-> "place", part |-> "claude binary", from |-> "claude staging"] \in H BY <1>0, <2>1, HaulIn
    <3> QED BY <2>2, <3>1
  <2>6. K \in H
    <3>1. [does |-> "clear", part |-> "claude staging", from |-> "none"] \in H BY <1>0, HaulIn
    <3> QED BY <2>2, <3>1
  <2>7. Of(j.backend, Claude!download, Cdx!download) = <<F, C, P, K>>
    BY <1>1
    DEF Of, Claude!download, Claude!Fetches, Claude!Checks, Claude!Places, Claude!Clears, Claude!Step,
        Fetches, Checks, Places, Clears, Step
  <2> HIDE DEF F, C, P, K, H
  <2>8. Provides(P, "claude binary") BY <2>2 DEF Provides
  <2>9. <<F, C, P, K>> \in Seq(H) /\ P \in ToSet(<<F, C, P, K>>)
    <3>1. <<F, C, P, K>> \in Seq(H) BY <2>3, <2>4, <2>5, <2>6, Listed
    <3>2. ToSet(<<F, C, P, K>>) = {F, C, P, K} BY DEF ToSet
    <3> QED BY <3>1, <3>2
  <2> QED BY <2>1, <2>7, <2>8, <2>9 DEF H
<1>2. CASE j.backend = "codex"
  <2> DEFINE F == Fetches("codex staging")
             C == Checks("codex staging")
             E == Clears("codex extract")
             P == Places("codex extract", "codex staging")
             B == Places("codex binary", "codex extract")
             K == Clears("codex staging")
             f == <<F, C>>
             e == <<E, P, B, E>>
             k == <<K>>
  <2>1. BinaryOf(j.backend) = "codex binary" BY <1>2 DEF BinaryOf, Of
  <2>2. /\ F = [does |-> "fetch", part |-> "codex staging", from |-> "none"]
        /\ C = [does |-> "check", part |-> "codex staging", from |-> "none"]
        /\ E = [does |-> "clear", part |-> "codex extract", from |-> "none"]
        /\ P = [does |-> "place", part |-> "codex extract", from |-> "codex staging"]
        /\ B = [does |-> "place", part |-> "codex binary", from |-> "codex extract"]
        /\ K = [does |-> "clear", part |-> "codex staging", from |-> "none"]
    BY DEF Fetches, Checks, Places, Clears, Step
  <2>3. /\ [does |-> "fetch", part |-> "codex staging", from |-> "none"] \in H
        /\ [does |-> "check", part |-> "codex staging", from |-> "none"] \in H
        /\ [does |-> "clear", part |-> "codex extract", from |-> "none"] \in H
        /\ [does |-> "clear", part |-> "codex staging", from |-> "none"] \in H
    BY <1>0, HaulIn
  <2>4. [does |-> "place", part |-> "codex extract", from |-> "codex staging"] \in H BY <1>0, HaulIn
  <2>5. [does |-> "place", part |-> "codex binary", from |-> "codex extract"] \in H BY <1>0, <2>1, HaulIn
  <2>6. F \in H /\ C \in H /\ E \in H /\ P \in H /\ B \in H /\ K \in H BY <2>2, <2>3, <2>4, <2>5
  <2>7. Of(j.backend, Claude!download, Cdx!download) = (f \o e) \o k
    <3>1. Cdx!Fetches("codex staging") = F /\ Cdx!Checks("codex staging") = C
          /\ Cdx!Clears("codex extract") = E /\ Cdx!Places("codex extract", "codex staging") = P
          /\ Cdx!Places("codex binary", "codex extract") = B /\ Cdx!Clears("codex staging") = K
      BY SameSteps
    <3> HIDE DEF F, C, E, P, B, K
    <3> QED BY <1>2, <3>1 DEF Of, Cdx!download, Cdx!extract
  <2> HIDE DEF F, C, E, P, B, K, H
  <2>8. Provides(B, "codex binary") BY <2>2 DEF Provides
  <2>9. f \in Seq(H) /\ e \in Seq(H) /\ k \in Seq(H) /\ B \in ToSet(e)
    <3>1. f \in Seq(H) /\ k \in Seq(H) BY <2>6, Listed
    <3>2. e \in Seq(H) BY <2>6, Listed
    <3>3. ToSet(<<E, P, B, E>>) = {E, P, B, E} BY DEF ToSet
    <3> QED BY <3>1, <3>2, <3>3
  <2> HIDE DEF f, e, k
  <2> DEFINE g == f \o e
  <2>10. g \in Seq(H) /\ B \in ToSet(g) BY <2>9, Joins
  <2> HIDE DEF g
  <2>11. g \o k \in Seq(H) /\ B \in ToSet(g \o k) BY <2>9, <2>10, Joins
  <2> QED BY <2>1, <2>7, <2>8, <2>11 DEF H, g
<1> QED BY <1>1, <1>2 DEF Backends

-----------------------------------------------------------------------------
(* What a step of a command does to its plan and to the guest. *)

\* A step that succeeded found its part in place or put it there.
Passed(h) ==
  /\ h.does = "prove" => IF h.part = "session" THEN session' = "fresh" ELSE part'[h.part] = "good"
  /\ h.does = "provePath" => part'[h.part] \in {"good", "stricter"}
  /\ h.does = "proveOwner" => part'[h.part] \in {"good", "foreign"}
  /\ h.does \in {"create", "write", "repoint", "link"} => part'[h.part] = "good"
  /\ h.does = "install" => part'[h.part] # "absent"
  /\ h.does = "place" => part'[h.part] = part[h.from] /\ part[h.from] # "absent"

\* What is put before the rest of a plan, and what for.
Adds(j, h, steps) ==
  \/ h.does = "create" /\ part[h.part] = "absent" /\ steps = <<Writes(h.part)>>
  \/ h.does = "repoint" /\ part[h.part] # "good" /\ steps = <<Links(h.part)>>
  \/ h.does = "install" /\ part[h.part] = "absent" /\ steps = Of(j.backend, Claude!download, Cdx!download)

Ends(c, h) == plan'[c] = <<>> /\ (h.does = "boot" \/ result'[c] \in {"refused", "failed"})
GoesOn(c, h) == /\ plan'[c] = Tail(plan[c]) /\ Passed(h)
                /\ result'[c] \in {"none", "ok"} /\ (Tail(plan[c]) # <<>> => result'[c] = "none")
AddsTo(c, h) == /\ UNCHANGED guestVars /\ result'[c] = result[c] /\ job[c].reconcile = TRUE
                /\ \E steps : Adds(job[c], h, steps) /\ plan'[c] = steps \o Tail(plan[c])

\* A step that changes one part.
SetsOne(j, h) ==
  /\ Tame(j, h) /\ h.does \in Changers /\ vm = "running"
  /\ UNCHANGED <<declared, built, vm, session, hands, weak>>
  /\ \E to \in Conditions :
       /\ part' = [part EXCEPT ![h.part] = to]
       /\ h.does \in {"write", "link"} => to = "good"
       /\ h.does = "fetch" => to \in {"good", "foreign"}
       /\ h.does \in {"check", "clear"} => to = "absent"
       /\ h.does = "place" => to = "absent" \/ to = part[h.from]

\* The machine is made, halted or dies, or its session is renewed.
Powers ==
  /\ UNCHANGED <<part, hands, weak>>
  /\ \/ vm' # "running" /\ session' \in {session, "none"}
     \/ vm' = "running" /\ UNCHANGED <<vm, built>> /\ session' = Reconnected

Boots == vm = "stopped" /\ Booted

Happens(j, h) ==
  \/ UNCHANGED <<built, vm, session, part, hands, weak>>
  \/ SetsOne(j, h)
  \/ h.does \in {"make", "reconnect", "halt"} /\ Powers
  \/ h.does = "boot" /\ Boots

LEMMA TameHead ==
  ASSUME Base, Tamed, NEW c \in Commands, Running(c)
  PROVE  /\ Tame(job[c], Head(plan[c])) /\ Tail(plan[c]) \in Seq(TameSteps(job[c]))
         /\ ToSet(plan[c]) = {Head(plan[c])} \cup ToSet(Tail(plan[c]))
<1> DEFINE T == TameSteps(job[c])
<1>1. plan[c] \in Seq(T) /\ plan[c] # <<>> BY DEF Tamed, Running
<1> HIDE DEF T
<1>2. /\ Head(plan[c]) \in T /\ Tail(plan[c]) \in Seq(T)
      /\ ToSet(plan[c]) = {Head(plan[c])} \cup ToSet(Tail(plan[c]))
  BY <1>1, HeadAndTail
<1> QED BY <1>2 DEF T, TameSteps

LEMMA TameMembers ==
  ASSUME Tamed, NEW c \in Commands, NEW s \in ToSet(plan[c])
  PROVE  Tame(job[c], s) /\ Running(c)
<1> DEFINE T == TameSteps(job[c])
<1>1. plan[c] \in Seq(T) BY DEF Tamed
<1> HIDE DEF T
<1>2. s \in T BY <1>1, Members
<1>3. plan[c] # <<>> BY DEF ToSet
<1> QED BY <1>2, <1>3 DEF T, TameSteps, Running

LEMMA EndsHow ==
  ASSUME JobsTyped, NEW c \in Commands, NEW h, NEW how \in {"refused", "failed"}, End(c, how)
  PROVE  Ends(c, h)
BY DEF End, Ends, JobsTyped

LEMMA GoingOn ==
  ASSUME Base, Tamed, NEW c \in Commands, Running(c), NEW h, Advance(c), Passed(h)
  PROVE  GoesOn(c, h)
<1> DEFINE T == TameSteps(job[c])
           pl == plan[c]
<1>1. pl \in Seq(T) /\ pl # <<>> BY DEF Tamed, Running
<1>2. plan'[c] = Tail(pl) /\ result'[c] = (IF Len(pl) = 1 THEN "ok" ELSE "none")
  BY DEF Advance, Base, JobsTyped
<1> HIDE DEF T, pl
<1>3. Tail(pl) \in Seq(T) /\ Len(Tail(pl)) = Len(pl) - 1 BY <1>1, HeadTailProperties
<1>4. Len(pl) = 1 => Tail(pl) = <<>>
  <2> DEFINE t == Tail(pl)
  <2>1. t \in Seq(T) /\ Len(t) = Len(pl) - 1 BY <1>3
  <2> HIDE DEF t
  <2>2. Len(pl) = 1 => t = <<>> BY <2>1, EmptySeq
  <2> QED BY <2>2 DEF t
<1>5. Len(pl) # 1 => result'[c] = "none" BY <1>2
<1> QED BY <1>2, <1>4, <1>5 DEF GoesOn, pl

LEMMA Adding ==
  ASSUME Base, NEW c \in Commands, NEW h, NEW steps, Insert(c, steps), UNCHANGED guestVars, job[c].reconcile,
         Adds(job[c], h, steps)
  PROVE  AddsTo(c, h)
<1>1. job[c].reconcile = TRUE BY DEF Base, JobsTyped, Jobs
<1>2. plan'[c] = steps \o Tail(plan[c]) /\ result'[c] = result[c] BY DEF Insert, Base, JobsTyped
<1> QED BY <1>1, <1>2 DEF AddsTo

LEMMA SetsIt ==
  ASSUME Base, Tamed, NEW c \in Commands, Running(c), NEW h, h = Head(plan[c]), h.does \in Changers, vm = "running",
         NEW to \in Conditions, SetPart(h.part, to),
         h.does \in {"write", "link"} => to = "good", h.does = "fetch" => to \in {"good", "foreign"},
         h.does \in {"check", "clear"} => to = "absent", h.does = "place" => to = "absent" \/ to = part[h.from]
  PROVE  SetsOne(job[c], h) /\ part'[h.part] = to
<1>1. Tame(job[c], h) BY TameHead
<1>2. h.part \in Parts \cup {"session"} /\ h.does \notin Idle BY <1>1 DEF Tame, Idle, Changers
<1>3. h.part \in Parts
  <2>1. job[c].backend \in Backends BY DEF Base, JobsTyped, Jobs
  <2>2. h.part # "session"
    <3>1. h.part \in Scratch \cup {"codex extract", BinaryOf(job[c].backend)} \cup Made \cup {LinkOf(job[c].backend)}
      BY <1>1 DEF Tame, About, Changers
    <3>2. "codex extract" \in Scratch BY DEF Scratch
    <3> QED BY <2>1, <3>1, <3>2, Apart
  <2> QED BY <1>2, <2>2
<1>4. part'[h.part] = to BY <1>3 DEF SetPart, Base, GuestTyped
<1>5. SetsOne(job[c], h) BY <1>1 DEF SetsOne, SetPart
<1> QED BY <1>4, <1>5

\* What an action of a bootstrap does.
Effect(c) == LET h == Head(plan[c]) IN
  Happens(job[c], h) /\ (Ends(c, h) \/ GoesOn(c, h) \/ AddsTo(c, h))

LEMMA QuietEnd ==
  ASSUME Base, NEW c \in Commands, Refuse(c) \/ Fail(c) \/ (End(c, "failed") /\ UNCHANGED guestVars)
  PROVE  Effect(c)
<1>1. UNCHANGED guestVars /\ \E how \in {"refused", "failed"} : End(c, how) BY DEF Refuse, Fail
<1>2. Ends(c, Head(plan[c])) BY <1>1, EndsHow DEF Base
<1> QED BY <1>1, <1>2 DEF Effect, Happens, guestVars

LEMMA QuietPass ==
  ASSUME Base, Tamed, NEW c \in Commands, Running(c), Advance(c), UNCHANGED guestVars, Passed(Head(plan[c]))
  PROVE  Effect(c)
BY GoingOn DEF Effect, Happens, guestVars

LEMMA QuietAdd ==
  ASSUME Base, NEW c \in Commands, NEW steps, Insert(c, steps), UNCHANGED guestVars, job[c].reconcile,
         Adds(job[c], Head(plan[c]), steps)
  PROVE  Effect(c)
BY Adding DEF Effect, Happens, guestVars

LEMMA SetPass ==
  ASSUME Base, Tamed, NEW c \in Commands, Running(c), NEW h, h = Head(plan[c]), h.does \in Changers, vm = "running",
         NEW to \in Conditions, SetPart(h.part, to),
         h.does \in {"write", "link"} => to = "good", h.does = "fetch" => to \in {"good", "foreign"},
         h.does \in {"check", "clear"} => to = "absent", h.does = "place" => to = "absent" \/ to = part[h.from],
         \/ End(c, "failed")
         \/ Advance(c) /\ (h.does = "place" => to = part[h.from] /\ to # "absent")
  PROVE  Effect(c)
<1>1. SetsOne(job[c], h) /\ part'[h.part] = to BY SetsIt
<1>2. CASE End(c, "failed")
  <2>1. Ends(c, h) BY <1>2, EndsHow DEF Base
  <2> QED BY <1>1, <2>1 DEF Effect, Happens
<1>3. CASE Advance(c) /\ (h.does = "place" => to = part[h.from] /\ to # "absent")
  <2>1. Passed(h) BY <1>1, <1>3 DEF Passed, Changers
  <2>2. GoesOn(c, h) BY <1>3, <2>1, GoingOn
  <2> QED BY <1>1, <2>2 DEF Effect, Happens
<1> QED BY <1>2, <1>3

LEMMA Effects ==
  ASSUME Base, Tamed, NEW c \in Commands, Acts(c)
  PROVE  Effect(c)
<1> DEFINE h == Head(plan[c])
<1>0. Running(c) /\ Next1(c) = h BY ActsGoOn DEF Next1
<1>a. GuestTyped /\ JobsTyped /\ Tame(job[c], h) BY <1>0, TameHead DEF Base
<1>b. "good" \in Conditions /\ "absent" \in Conditions /\ "foreign" \in Conditions BY DEF Conditions
<1> HIDE DEF h
<1>1. CASE Declare(c)
  <2>1. h.does = "declare" /\ Advance(c) /\ UNCHANGED <<built, vm, session, part, hands, weak>>
    BY <1>0, <1>1 DEF Declare
  <2>2. Passed(h) BY <2>1 DEF Passed
  <2> QED BY <1>0, <2>1, <2>2, GoingOn DEF Effect, Happens, h
<1>2. CASE Make(c)
  <2>1. h.does = "make" /\ Advance(c) BY <1>0, <1>2 DEF Make
  <2>2. Passed(h) BY <2>1 DEF Passed
  <2>3. UNCHANGED <<built, vm, session, part, hands, weak>> \/ Powers BY <1>2 DEF Make, Powers
  <2> QED BY <1>0, <2>1, <2>2, <2>3, GoingOn DEF Effect, Happens, h
<1>3. CASE Boot(c)
  <2>1. h.does = "boot" BY <1>0, <1>3 DEF Boot
  <2>2. CASE vm = "running" /\ End(c, "ok") /\ UNCHANGED guestVars
    <3>1. plan'[c] = <<>> BY <1>a, <2>2, EndMoves
    <3> QED BY <2>1, <2>2, <3>1 DEF Effect, Happens, Ends, guestVars, h
  <2>3. CASE vm = "stopped" /\ Booted /\ (IF weak' = weak THEN Advance(c) ELSE End(c, "failed"))
    <3>1. Passed(h) BY <2>1 DEF Passed
    <3>2. GoesOn(c, h) \/ Ends(c, h) BY <1>0, <1>a, <2>3, <3>1, GoingOn, EndsHow
    <3> QED BY <2>1, <2>3, <3>2 DEF Effect, Happens, Boots, h
  <2> QED BY <1>3, <2>2, <2>3, QuietEnd DEF Boot
<1>4. CASE Reconnect(c)
  <2>1. h.does = "reconnect" BY <1>0, <1>4 DEF Reconnect
  <2>2. CASE vm = "running"
    <3>1. Powers /\ Advance(c) BY <1>4, <2>2 DEF Reconnect, Powers
    <3>2. Passed(h) BY <2>1 DEF Passed
    <3> QED BY <1>0, <2>1, <3>1, <3>2, GoingOn DEF Effect, Happens, h
  <2> QED BY <1>4, <2>2, QuietEnd DEF Reconnect
<1>5. CASE Halt(c)
  <2>1. h.does = "halt" BY <1>0, <1>5 DEF Halt
  <2>2. CASE vm \in {"running", "stopped"}
    <3>1. Powers /\ Advance(c) BY <1>5, <2>2 DEF Halt, Powers
    <3>2. Passed(h) BY <2>1 DEF Passed
    <3> QED BY <1>0, <2>1, <3>1, <3>2, GoingOn DEF Effect, Happens, h
  <2> QED BY <1>5, <2>2, QuietEnd DEF Halt
<1>6. CASE Fail(c) BY <1>6, QuietEnd
<1>7. CASE Prove(c)
  <2>1. CASE ~Holds(c) BY <1>7, <2>1, QuietEnd DEF Prove
  <2>2. CASE Holds(c)
    <3>1. Advance(c) /\ UNCHANGED guestVars /\ h.does \in {"running", "observe", "prove", "provePath", "proveOwner"}
      BY <1>0, <1>7, <2>2 DEF Prove, In
    <3>2. part' = part /\ session' = session BY <3>1 DEF guestVars
    <3>3. CASE h.does \in {"running", "observe"} BY <1>0, <3>1, <3>3, QuietPass DEF Passed, h
    <3>4. CASE h.does = "prove"
      <4>0. Next1(c).does = "prove" /\ Next1(c).part = h.part BY <1>0, <3>4
      <4>1. h.part = "session" => session = "fresh" BY <4>0, <2>2 DEF Holds, Condition, SessionCarries
      <4>2. h.part # "session" => part[h.part] = "good"
        BY <4>0, <2>2 DEF Holds, Condition
      <4>3. Passed(h)
        <5>1. CASE h.part = "session" BY <3>2, <3>4, <4>1, <5>1 DEF Passed
        <5>2. CASE h.part # "session" BY <3>2, <3>4, <4>2, <5>2 DEF Passed
        <5> QED BY <5>1, <5>2
      <4> QED BY <1>0, <3>1, <4>3, QuietPass DEF h
    <3>5. CASE h.does \in {"provePath", "proveOwner"}
      <4>1. h.part # "session"
        <5>1. job[c].backend \in Backends BY <1>a DEF JobsTyped, Jobs
        <5>2. h.part \in Private \/ h.part = BinaryOf(job[c].backend) BY <1>a, <3>5 DEF Tame, About
        <5> QED BY <5>1, <5>2, Apart
      <4>2. (h.does = "provePath" => part[h.part] \in {"good", "stricter"})
            /\ (h.does = "proveOwner" => part[h.part] \in {"good", "foreign"})
        BY <1>0, <2>2, <3>5, <4>1 DEF Holds, Condition
      <4>3. Passed(h) BY <3>2, <3>5, <4>2 DEF Passed
      <4> QED BY <1>0, <3>1, <4>3, QuietPass DEF h
    <3> QED BY <3>1, <3>3, <3>4, <3>5
  <2> QED BY <2>1, <2>2
<1>8. CASE Answer(c)
  <2>1. h.does = "answer" BY <1>0, <1>8 DEF Answer, In
  <2>2. Passed(h) BY <2>1 DEF Passed
  <2> QED BY <1>0, <1>8, <2>2, QuietEnd, QuietPass DEF Answer, h
<1>9. CASE MakeAbsent(c)
  <2>1. h.does = "create" BY <1>0, <1>9 DEF MakeAbsent, In
  <2>2. CASE Condition(c) = "absent" /\ job[c].reconcile /\ Insert(c, <<Writes(Next1(c).part)>>) /\ UNCHANGED guestVars
    <3>1. Adds(job[c], h, <<Writes(h.part)>>) BY <1>0, <2>1, <2>2 DEF Adds, Condition
    <3> QED BY <1>0, <2>2, <3>1, QuietAdd DEF h
  <2>3. CASE Condition(c) = "good" /\ Advance(c) /\ UNCHANGED guestVars
    <3>1. Passed(h) BY <1>0, <2>1, <2>3 DEF Passed, Condition, guestVars
    <3> QED BY <1>0, <2>3, <3>1, QuietPass DEF h
  <2> QED BY <1>9, <2>2, <2>3, QuietEnd DEF MakeAbsent
<1>10. CASE Write(c)
  <2>1. h.does \in {"write", "link"} /\ vm = "running" /\ SetPart(h.part, "good") /\ Advance(c)
    BY <1>0, <1>10 DEF Write, In
  <2> QED BY <1>0, <1>b, <2>1, SetPass DEF Changers, h
<1>11. CASE Repoint(c)
  <2>1. h.does = "repoint" BY <1>0, <1>11 DEF Repoint, In
  <2>2. CASE Condition(c) # "good" /\ job[c].reconcile /\ Insert(c, <<Links(Next1(c).part)>>) /\ UNCHANGED guestVars
    <3>1. Adds(job[c], h, <<Links(h.part)>>) BY <1>0, <2>1, <2>2 DEF Adds, Condition
    <3> QED BY <1>0, <2>2, <3>1, QuietAdd DEF h
  <2>3. CASE Condition(c) = "good" /\ Advance(c) /\ UNCHANGED guestVars
    <3>1. Passed(h) BY <1>0, <2>1, <2>3 DEF Passed, Condition, guestVars
    <3> QED BY <1>0, <2>3, <3>1, QuietPass DEF h
  <2> QED BY <1>11, <2>2, <2>3, QuietEnd DEF Repoint
<1>12. CASE DownloadAbsent(c)
  <2>1. h.does = "install" BY <1>0, <1>12 DEF DownloadAbsent, In
  <2> DEFINE d == Of(job[c].backend, Claude!download, Cdx!download)
  <2>2. CASE Condition(c) = "absent" /\ job[c].reconcile /\ Insert(c, d) /\ UNCHANGED guestVars
    <3>1. Adds(job[c], h, d) BY <1>0, <2>1, <2>2 DEF Adds, Condition
    <3> HIDE DEF d
    <3> QED BY <1>0, <2>2, <3>1, QuietAdd DEF h
  <2>3. CASE Condition(c) # "absent" /\ Advance(c) /\ UNCHANGED guestVars
    <3>1. Passed(h) BY <1>0, <2>1, <2>3 DEF Passed, Condition, guestVars
    <3> QED BY <1>0, <2>3, <3>1, QuietPass DEF h
  <2> QED BY <1>12, <2>2, <2>3, QuietEnd DEF DownloadAbsent
<1>13. CASE Fetch(c)
  <2>1. h.does = "fetch" /\ vm = "running" BY <1>0, <1>13 DEF Fetch, In
  <2>2. \E to \in {"good", "foreign"} : SetPart(h.part, to) /\ (Advance(c) \/ End(c, "failed"))
    BY <1>0, <1>13 DEF Fetch
  <2> QED BY <1>0, <1>b, <2>1, <2>2, SetPass DEF Changers, h
<1>14. CASE Check(c)
  <2>1. h.does = "check" /\ vm = "running" BY <1>0, <1>14 DEF Check, In
  <2>2. CASE Condition(c) = "good"
    <3>1. Passed(h) BY <2>1 DEF Passed
    <3> QED BY <1>0, <1>14, <2>2, <3>1, QuietPass DEF Check, h
  <2>3. CASE Condition(c) # "good"
    <3>1. SetPart(h.part, "absent") /\ End(c, "failed") BY <1>0, <1>14, <2>3 DEF Check
    <3> QED BY <1>0, <1>b, <2>1, <3>1, SetPass DEF Changers, h
  <2> QED BY <2>2, <2>3
<1>15. CASE Place(c)
  <2>1. h.does = "place" /\ vm = "running" BY <1>0, <1>15 DEF Place, In
  <2>2. CASE part[h.from] # "absent" /\ SetPart(h.part, part[h.from]) /\ Advance(c)
    <3>1. h.from \in Parts BY <1>a, <2>1, InParts DEF Tame, About
    <3>2. part[h.from] \in Conditions BY <1>a, <3>1 DEF GuestTyped
    <3> QED BY <1>0, <2>1, <2>2, <3>2, SetPass DEF Changers, h
  <2>3. CASE SetPart(h.part, "absent") /\ End(c, "failed")
    BY <1>0, <1>b, <2>1, <2>3, SetPass DEF Changers, h
  <2> QED BY <1>0, <1>15, <2>2, <2>3, QuietEnd DEF Place
<1>16. CASE Clear(c)
  <2>1. h.does = "clear" /\ vm = "running" /\ SetPart(h.part, "absent") /\ Advance(c)
    BY <1>0, <1>16 DEF Clear, In
  <2> QED BY <1>0, <1>b, <2>1, SetPass DEF Changers, h
<1> QED
  BY <1>1, <1>2, <1>3, <1>4, <1>5, <1>6, <1>7, <1>8, <1>9, <1>10, <1>11, <1>12, <1>13, <1>14, <1>15, <1>16
  DEF Acts, GuestStep

\* What is put before the rest of a plan is tame.
LEMMA Added ==
  ASSUME NEW j, j \in Jobs, j.reconcile = TRUE, NEW h, Tame(j, h), NEW steps, Adds(j, h, steps)
  PROVE  /\ steps \in Seq(TameSteps(j)) /\ h.part \in Parts \cup {"session"} /\ j.op = "bootstrap"
         /\ h.does \in {"create", "repoint", "install"}
         /\ h.does = "create" => part[h.part] = "absent" /\ steps = <<Writes(h.part)>>
         /\ h.does = "repoint" => part[h.part] # "good" /\ steps = <<Links(h.part)>>
         /\ h.does = "install" => /\ part[h.part] = "absent" /\ steps \in Seq(Hauls(j))
                                  /\ \E s \in ToSet(steps) : Provides(s, h.part)
<1> DEFINE T == TameSteps(j)
<1>0. j.backend \in Backends BY DEF Jobs
<1>1. /\ h.does \in {"create", "repoint", "install"}
      /\ h.does = "create" => part[h.part] = "absent" /\ steps = <<Writes(h.part)>>
      /\ h.does = "repoint" => part[h.part] # "good" /\ steps = <<Links(h.part)>>
      /\ h.does = "install" => /\ part[h.part] = "absent"
                               /\ steps = Of(j.backend, Claude!download, Cdx!download)
  BY DEF Adds
<1>2. h.part \in Parts \cup {"session"} /\ j.op = "bootstrap" /\ h.part \in Names
  BY <1>1 DEF Tame, Idle, AllSteps
<1>3. ASSUME h.does \in {"create", "repoint"} PROVE steps \in Seq(T)
  <2> DEFINE v == IF h.does = "create" THEN "write" ELSE "link"
             s == [does |-> v, part |-> h.part, from |-> "none"]
  <2>1. v \in AllVerbs /\ "none" \in Names BY Known DEF AllVerbs
  <2>2. s.does = v /\ s.part = h.part /\ s \in AllSteps BY <1>2, <2>1 DEF AllSteps
  <2>3. steps = <<s>> BY <1>1, <1>3, Fields
  <2> HIDE DEF s
  <2>4. About(j.backend, s) BY <1>3, <2>2 DEF Tame, About
  <2>5. Tame(j, s) BY <1>2, <2>2, <2>4 DEF Tame
  <2>6. s \in T BY <2>2, <2>5 DEF TameSteps
  <2> HIDE DEF T
  <2> QED BY <2>3, <2>6, Listed
<1>4. ASSUME h.does = "install"
      PROVE  steps \in Seq(Hauls(j)) /\ \E s \in ToSet(steps) : Provides(s, h.part)
  <2>1. h.part = BinaryOf(j.backend) BY <1>4 DEF Tame, About
  <2> QED BY <1>0, <1>1, <1>2, <1>4, <2>1, DownloadHauls
<1>5. ASSUME h.does = "install" PROVE steps \in Seq(T)
  <2> DEFINE H == Hauls(j)
  <2>1. steps \in Seq(H) BY <1>4, <1>5
  <2>2. H \subseteq T BY DEF Hauls
  <2> HIDE DEF H, T
  <2>3. ToSet(steps) \subseteq T BY <2>1, <2>2, Members
  <2> QED BY <2>1, <2>3, Members
<1> QED BY <1>1, <1>2, <1>3, <1>4, <1>5

\* A command that goes on has only tame steps left.
LEMMA EffectTame ==
  ASSUME Base, Tamed, NEW c \in Commands, Running(c), Effect(c)
  PROVE  plan'[c] \in Seq(TameSteps(job[c]))
<1> DEFINE T == TameSteps(job[c])
           h == Head(plan[c])
<1>1. Tame(job[c], h) /\ Tail(plan[c]) \in Seq(T) BY TameHead
<1>2. Ends(c, h) \/ GoesOn(c, h) \/ AddsTo(c, h) BY DEF Effect
<1>3. job[c] \in Jobs BY DEF Base, JobsTyped
<1> HIDE DEF T, h
<1>4. CASE Ends(c, h) BY <1>4, EmptySeq DEF Ends, T
<1>5. CASE GoesOn(c, h) BY <1>1, <1>5 DEF GoesOn, T
<1>6. CASE AddsTo(c, h)
  <2>1. PICK steps : Adds(job[c], h, steps) /\ plan'[c] = steps \o Tail(plan[c]) BY <1>6 DEF AddsTo
  <2>2. job[c].reconcile = TRUE BY <1>6 DEF AddsTo
  <2>3. steps \in Seq(T) BY <1>1, <1>3, <2>1, <2>2, Added DEF T
  <2>4. steps \o Tail(plan[c]) \in Seq(T) BY <1>1, <2>3, ConcatProperties
  <2> QED BY <2>1, <2>4 DEF T
<1> QED BY <1>2, <1>4, <1>5, <1>6

LEMMA TamedInit == Init => Tamed
<1> SUFFICES ASSUME Init, NEW c \in Commands PROVE plan[c] \in Seq(TameSteps(job[c])) BY DEF Tamed
<1> QED BY EmptySeq DEF Init

LEMMA TamedStep ==
  ASSUME Base, Tamed, [Next]_vars
  PROVE  Tamed'
<1>1. ASSUME NEW c \in Commands, Begins(c) PROVE Tamed'
  <2>1. PICK op \in {"init", "start", "stop", "bootstrap"}, b \in Backends :
            /\ job'[c].op = op /\ job'[c].backend = b
            /\ job'[c].reconcile = FALSE => op = "bootstrap"
            /\ plan'[c] = Planned(op, b)
            /\ \A d \in Commands : d # c => job'[d] = job[d] /\ plan'[d] = plan[d]
    BY <1>1, BeginGives
  <2> DEFINE j == job'[c]
  <2>2. plan'[c] \in Seq(TameSteps(j))
    <3>1. j.op = op /\ j.backend = b /\ (j.reconcile = FALSE => op = "bootstrap") BY <2>1
    <3> HIDE DEF j
    <3> QED BY <2>1, <3>1, PlannedTame
  <2> QED BY <2>1, <2>2 DEF Tamed
<1>2. ASSUME NEW c \in Commands, Acts(c) PROVE Tamed'
  <2>1. Running(c) /\ Others(c) BY <1>2, ActsGoOn
  <2>2. plan'[c] \in Seq(TameSteps(job[c])) BY <1>2, <2>1, Effects, EffectTame
  <2> QED BY <2>1, <2>2 DEF Others, Tamed
<1>3. CASE UNCHANGED <<job, plan>> BY <1>3 DEF Tamed
<1>4. World => UNCHANGED <<job, plan>> BY WorldStep
<1> QED BY <1>1, <1>2, <1>3, <1>4, NextIs DEF vars

-----------------------------------------------------------------------------
(* What the guest can come to be. *)

\* Part p as a bootstrap wants it.
Held(p) == IF p = "session" THEN session # "stale" /\ part["operator in projects"] = "good"
           ELSE part[p] = "good" \/ (p \in Private /\ part[p] = "stricter")

ScratchKept  == \A p \in Scratch : part[p] # "drifted"
SessionTold  == /\ session = "fresh" => part["operator in projects"] = "good"
                /\ vm = "running" => session # "none"
OwnStates    == \A p \in Parts : /\ part[p] = "stricter" => p \in Private
                                 /\ part[p] = "foreign" => p \in Scratch \cup Binaries
HandsOff     == hands = 0 => \A p \in Parts : part[p] # "drifted"
ShownRunning == hands = 0 /\ weak = FALSE /\ vm = "running" => \A p \in Supplies(built) \cap Parts : Held(p)
Guest == ScratchKept /\ SessionTold /\ OwnStates /\ HandsOff /\ ShownRunning

\* What a step does to the guest, whoever takes it.
Quiet == UNCHANGED <<built, vm, session, part, hands, weak>>
LEMMA Turns ==
  ASSUME Base, Tamed, [Next]_vars
  PROVE  \/ Quiet \/ Powers \/ Boots \/ Tighten \/ Meddle
         \/ \E c \in Commands : Acts(c) /\ SetsOne(job[c], Head(plan[c]))
<1>1. ASSUME NEW c \in Commands, Begins(c) PROVE Quiet
  <2>1. UNCHANGED guestVars BY <1>1, BeginGives
  <2> QED BY <2>1 DEF guestVars, Quiet
<1>2. ASSUME NEW c \in Commands, Acts(c) PROVE Quiet \/ Powers \/ Boots \/ SetsOne(job[c], Head(plan[c]))
  BY <1>2, Effects DEF Effect, Happens, Quiet
<1>3. CASE Die BY <1>3 DEF Die, Powers
<1>4. CASE ForceStop BY <1>4 DEF ForceStop, Powers
<1>5. CASE BootByHand BY <1>5 DEF BootByHand, Boots
<1> QED BY <1>1, <1>2, <1>3, <1>4, <1>5, NextIs DEF World, Quiet, vars, guestVars

\* What a backend's bootstrap proves depends on whether it is Claude Code's.
LEMMA AnyProven ==
  ASSUME NEW b
  PROVE  Proven(b) \cap Scratch = {} /\ "operator in projects" \notin Proven(b) /\ Proven(b) \subseteq Parts
<1>1. "claude-code" \in Backends /\ "codex" \in Backends BY DEF Backends
<1>2. \E d \in Backends : Proven(b) = Proven(d)
  <2>1. CASE b = "claude-code" BY <1>1, <2>1
  <2>2. CASE b # "claude-code"
    <3>1. Bootstrap(b) = Bootstrap("codex") BY <2>2 DEF Bootstrap, Of
    <3>2. Proven(b) = Proven("codex") BY <3>1 DEF Proven
    <3> QED BY <1>1, <3>2
  <2> QED BY <2>1, <2>2
<1>3. PICK d \in Backends : Proven(b) = Proven(d) BY <1>2
<1>4. ASSUME NEW p \in Proven(d) PROVE p \notin Scratch /\ p # "operator in projects"
  <2>1. p \in Shown(d) \cup (Private \cap Supplies(d)) \cup Made \cup {BinaryOf(d), LinkOf(d)}
    BY ProvenParts
  <2> QED BY <2>1, Apart
<1> QED BY <1>3, <1>4, InParts

\* A part that a step changes by itself is none that a boot supplies, but to good.
LEMMA SetsOwn ==
  ASSUME Base, NEW j \in Jobs, NEW h, SetsOne(j, h)
  PROVE  /\ h.part \in Scratch \cup Made \cup Binaries \cup LinkParts
         /\ h.part \in Made => h.does = "write" /\ part'[h.part] = "good"
         /\ h.part \in LinkParts => h.does = "link" /\ part'[h.part] = "good"
         /\ h.part \in Binaries => h.does = "place"
         /\ h.part \in Scratch =>
              part'[h.part] \in {"absent", "good", "foreign"} \cup {part[p] : p \in Scratch}
         /\ h.part \in Binaries => part'[h.part] \in {"absent"} \cup {part[p] : p \in Scratch}
         /\ \A p \in Parts : p # h.part => part'[p] = part[p]
         /\ UNCHANGED <<declared, built, vm, session, hands, weak>> /\ h.part \in Parts
<1>0. j.backend \in Backends BY DEF Jobs
<1>1. Tame(j, h) /\ h.does \in Changers /\ UNCHANGED <<declared, built, vm, session, hands, weak>> BY DEF SetsOne
<1>2. PICK to \in Conditions :
       /\ part' = [part EXCEPT ![h.part] = to]
       /\ h.does \in {"write", "link"} => to = "good"
       /\ h.does = "fetch" => to \in {"good", "foreign"}
       /\ h.does \in {"check", "clear"} => to = "absent"
       /\ h.does = "place" => to = "absent" \/ to = part[h.from]
  BY DEF SetsOne
<1>3. /\ h.does \in {"fetch", "check", "clear"} => h.part \in Scratch
      /\ h.does = "place" => h.from \in Scratch /\ h.part \in Scratch \cup Binaries
      /\ h.does = "write" => h.part \in Made
      /\ h.does = "link" => h.part \in LinkParts
  <2>1. "codex extract" \in Scratch BY DEF Scratch
  <2> QED BY <1>1, <2>1, Apart DEF Tame, About
<1>4. h.part \in Scratch \cup Made \cup Binaries \cup LinkParts BY <1>1, <1>3 DEF Changers
<1>5. h.part \in Parts
  <2>1. h.part \in Parts \cup {"session"} BY <1>1 DEF Tame, Changers, Idle
  <2> QED BY <1>4, <2>1, Apart
<1>6. part'[h.part] = to /\ \A p \in Parts : p # h.part => part'[p] = part[p]
  BY <1>2, <1>5 DEF Base, GuestTyped
<1>7. h.part \in Made => h.does = "write" BY <1>1, <1>3, Apart DEF Changers
<1>8. h.part \in LinkParts => h.does = "link" BY <1>1, <1>3, Apart DEF Changers
<1>9. h.part \in Binaries => h.does = "place" BY <1>1, <1>3, Apart DEF Changers
<1>10. h.part \in Scratch => h.does \in {"fetch", "check", "clear", "place"}
  BY <1>1, <1>3, Apart DEF Changers
<1> QED BY <1>1, <1>2, <1>3, <1>4, <1>5, <1>6, <1>7, <1>8, <1>9, <1>10

\* What a boot makes of a part.
LEMMA BootsMake ==
  ASSUME Base, Boots
  PROVE  /\ vm' = "running" /\ session' \in {"fresh", "stale"}
         /\ session' = "fresh" <=> part["operator in projects"] = "good"
         /\ UNCHANGED <<built, hands>>
         /\ \A p \in Parts : part'[p] # part[p] =>
              part'[p] = "good" /\ (p \in Supplies(built))
         /\ weak' = FALSE => \A p \in Supplies(built) \cap Parts : part[p] \in {"good", "absent"} => part'[p] = "good"
<1>1. /\ vm' = "running" /\ session' = (IF part["operator in projects"] = "good" THEN "fresh" ELSE "stale")
      /\ UNCHANGED <<built, hands>>
  BY DEF Boots, Booted
<1>2. CASE weak' = TRUE /\ UNCHANGED part BY <1>1, <1>2
<1>3. CASE /\ part' = [p \in Parts |->
                     IF \/ p \in Provisioned(built)
                        \/ p \in OfTheImage(built) /\ part[p] = "absent"
                     THEN "good" ELSE part[p]]
           /\ UNCHANGED weak
  <2>1. \A p \in Parts : part'[p] = IF \/ p \in Provisioned(built)
                                       \/ p \in OfTheImage(built) /\ part[p] = "absent"
                                    THEN "good" ELSE part[p]
    BY <1>3
  <2> QED BY <1>1, <2>1 DEF Supplies
<1> QED BY <1>2, <1>3 DEF Boots, Booted

LEMMA MeddleMakes ==
  ASSUME Base, Meddle
  PROVE  \E p \in Parts, to \in {"absent", "drifted"} :
           /\ p \notin Scratch /\ p # "operator in projects"
           /\ part'[p] = to /\ \A q \in Parts : q # p => part'[q] = part[q]
           /\ \A c \in Commands : \A s \in ToSet(plan[c]) : s.part = p => s.does \notin {"write", "link", "place"}
           /\ hands' # 0 /\ hands' # hands /\ \A c \in Commands : touched'[c] = TRUE
           /\ UNCHANGED <<vm, session, built>>
<1>1. PICK p \in Proven(built) \cap Touchable, to \in {"absent", "drifted"} :
        /\ part' = [part EXCEPT ![p] = to] /\ ~Writing(p)
  BY DEF Meddle
<1>2. p \in Parts /\ p \notin Scratch /\ p # "operator in projects" BY <1>1, AnyProven
<1>3. part'[p] = to /\ \A q \in Parts : q # p => part'[q] = part[q] BY <1>1, <1>2 DEF Base, GuestTyped
<1>4. hands' # 0 /\ hands' # hands /\ (\A c \in Commands : touched'[c] = TRUE) /\ UNCHANGED <<vm, session, built>>
  BY HandsAssumption DEF Meddle, Base, GuestTyped
<1> QED BY <1>1, <1>2, <1>3, <1>4 DEF Writing

LEMMA TightenMakes ==
  ASSUME Base, Tighten
  PROVE  \E p \in Private :
           /\ part[p] = "good" /\ (p \in Parts => part'[p] = "stricter")
           /\ \A q \in Parts : q # p => part'[q] = part[q]
           /\ UNCHANGED <<built, vm, session, hands, weak, touched>>
<1>1. PICK p \in Private \cap Touchable : part[p] = "good" /\ part' = [part EXCEPT ![p] = "stricter"] BY DEF Tighten
<1> QED BY <1>1 DEF Tighten, Base, GuestTyped

LEMMA GuestInit == Init => Guest
<1> SUFFICES ASSUME Init PROVE Guest OBVIOUS
<1>1. (\A p \in Parts : part[p] = "absent") /\ vm = "absent" /\ session = "none" BY DEF Init
<1> QED BY <1>1, InParts DEF Guest, ScratchKept, SessionTold, OwnStates, HandsOff, ShownRunning

LEMMA GuestKeeps ==
  ASSUME Base, Tamed, Guest, [Next]_vars
  PROVE  Guest'
<1>0. "operator in projects" \in Parts /\ Scratch \subseteq Parts /\ Binaries \subseteq Parts BY InParts
<1>a. GuestTyped BY DEF Base
<1>1. CASE Quiet
  BY <1>1 DEF Quiet, Guest, ScratchKept, SessionTold, OwnStates, HandsOff, ShownRunning, Held
<1>2. CASE Powers
  <2>1. UNCHANGED <<part, hands, weak>> BY <1>2 DEF Powers
  <2>2. ScratchKept' /\ OwnStates' /\ HandsOff' BY <2>1 DEF Guest, ScratchKept, OwnStates, HandsOff
  <2>3. CASE vm' # "running" /\ session' \in {session, "none"}
    BY <2>1, <2>2, <2>3 DEF Guest, SessionTold, ShownRunning
  <2>4. CASE vm' = "running" /\ UNCHANGED <<vm, built>> /\ session' = Reconnected
    <3>1. SessionTold' BY <2>1, <2>4 DEF Reconnected, SessionTold
    <3>2. ShownRunning'
      <4>1. ASSUME NEW p \in Supplies(built) \cap Parts, Held(p) PROVE Held(p)'
        <5>1. p # "session" BY Apart
        <5> QED BY <2>1, <4>1, <5>1 DEF Held
      <4> QED BY <2>1, <2>4, <4>1 DEF Guest, ShownRunning
    <3> QED BY <2>2, <3>1, <3>2 DEF Guest
  <2> QED BY <1>2, <2>3, <2>4 DEF Powers
<1>3. CASE Boots
  <2>1. /\ vm' = "running" /\ session' \in {"fresh", "stale"}
        /\ session' = "fresh" <=> part["operator in projects"] = "good"
        /\ UNCHANGED <<built, hands>>
        /\ \A p \in Parts : part'[p] # part[p] => part'[p] = "good" /\ (p \in Supplies(built))
        /\ weak' = FALSE => \A p \in Supplies(built) \cap Parts : part[p] \in {"good", "absent"} => part'[p] = "good"
    BY <1>3, BootsMake
  <2>2. ScratchKept' BY <1>0, <2>1 DEF Guest, ScratchKept
  <2>3. SessionTold' BY <1>0, <2>1 DEF SessionTold
  <2>4. OwnStates' BY <2>1 DEF Guest, OwnStates
  <2>5. HandsOff' BY <2>1 DEF Guest, HandsOff
  <2>6. ShownRunning'
    <3>1. SUFFICES ASSUME hands' = 0, weak' = FALSE, NEW p \in Supplies(built) \cap Parts PROVE Held(p)'
      BY <2>1 DEF ShownRunning
    <3>2. p # "session" /\ p \notin Scratch \cup Binaries BY Apart
    <3>3. part[p] \in {"good", "absent"} \/ (part[p] = "stricter" /\ p \in Private)
      BY <1>a, <2>1, <3>1, <3>2 DEF Guest, OwnStates, HandsOff, GuestTyped, Conditions
    <3>4. part'[p] = "good" \/ (part'[p] = "stricter" /\ p \in Private) BY <2>1, <3>1, <3>3
    <3> QED BY <3>2, <3>4 DEF Held
  <2> QED BY <2>2, <2>3, <2>4, <2>5, <2>6 DEF Guest
<1>4. CASE Tighten
  <2>1. PICK t \in Private :
           /\ part[t] = "good" /\ (t \in Parts => part'[t] = "stricter")
           /\ \A q \in Parts : q # t => part'[q] = part[q]
           /\ UNCHANGED <<built, vm, session, hands, weak, touched>>
    BY <1>4, TightenMakes
  <2>2. t \notin Scratch /\ t # "operator in projects" BY Apart
  <2>3. ScratchKept' BY <1>0, <2>1, <2>2 DEF Guest, ScratchKept
  <2>4. SessionTold' BY <1>0, <2>1, <2>2 DEF Guest, SessionTold
  <2>5. OwnStates' BY <2>1 DEF Guest, OwnStates
  <2>6. HandsOff' BY <2>1 DEF Guest, HandsOff
  <2>7. ShownRunning'
    <3>1. SUFFICES ASSUME hands = 0, weak = FALSE, vm = "running", NEW p \in Supplies(built) \cap Parts PROVE Held(p)'
      BY <2>1 DEF ShownRunning
    <3>2. Held(p) /\ p # "session" BY <3>1, Apart DEF Guest, ShownRunning
    <3> QED BY <2>1, <3>2 DEF Held
  <2> QED BY <2>3, <2>4, <2>5, <2>6, <2>7 DEF Guest
<1>5. CASE Meddle
  <2>1. PICK m \in Parts, to \in {"absent", "drifted"} :
           /\ m \notin Scratch /\ m # "operator in projects"
           /\ part'[m] = to /\ (\A q \in Parts : q # m => part'[q] = part[q])
           /\ hands' # 0 /\ UNCHANGED <<vm, session, built>>
    BY <1>5, MeddleMakes
  <2>2. ScratchKept' BY <1>0, <2>1 DEF Guest, ScratchKept
  <2>3. SessionTold' BY <1>0, <2>1 DEF Guest, SessionTold
  <2>4. OwnStates'
    <3>1. ASSUME NEW p \in Parts PROVE /\ part'[p] = "stricter" => part[p] = "stricter"
                                       /\ part'[p] = "foreign" => part[p] = "foreign"
      BY <2>1
    <3> QED BY <3>1 DEF Guest, OwnStates
  <2>5. hands' # 0 BY <2>1
  <2> QED BY <2>2, <2>3, <2>4, <2>5 DEF Guest, HandsOff, ShownRunning
<1>6. ASSUME NEW c \in Commands, SetsOne(job[c], Head(plan[c])) PROVE Guest'
  <2> DEFINE h == Head(plan[c])
  <2>0. job[c] \in Jobs BY DEF Base, JobsTyped
  <2>1. /\ h.part \in Scratch \cup Made \cup Binaries \cup LinkParts
        /\ h.part \in Made => part'[h.part] = "good"
        /\ h.part \in LinkParts => part'[h.part] = "good"
        /\ h.part \in Scratch =>
              part'[h.part] \in {"absent", "good", "foreign"} \cup {part[p] : p \in Scratch}
        /\ h.part \in Binaries => part'[h.part] \in {"absent"} \cup {part[p] : p \in Scratch}
        /\ \A p \in Parts : p # h.part => part'[p] = part[p]
        /\ UNCHANGED <<declared, built, vm, session, hands, weak>> /\ h.part \in Parts
    BY <1>6, <2>0, SetsOwn
  <2> HIDE DEF h
  <2>2. \A p \in Scratch : part[p] \in {"absent", "good", "foreign"}
    <3>1. ASSUME NEW p \in Scratch PROVE part[p] \in {"absent", "good", "foreign"}
      <4>1. part[p] \in Conditions /\ part[p] # "drifted" /\ part[p] # "stricter"
        BY <1>0, <1>a, Apart DEF GuestTyped, Guest, ScratchKept, OwnStates
      <4> QED BY <4>1 DEF Conditions
    <3> QED BY <3>1
  <2>3. part'[h.part] \in {"absent", "good", "foreign"} BY <2>1, <2>2
  <2>4. h.part \notin Scratch \cup Binaries => part'[h.part] = "good" BY <2>1
  <2>5. h.part # "operator in projects" BY <2>1, Apart
  <2>6. ScratchKept' BY <1>0, <2>1, <2>3 DEF Guest, ScratchKept
  <2>7. SessionTold' BY <1>0, <2>1, <2>5 DEF Guest, SessionTold
  <2>8. OwnStates' BY <2>1, <2>3, <2>4 DEF Guest, OwnStates
  <2>9. HandsOff' BY <2>1, <2>3 DEF Guest, HandsOff
  <2>10. ShownRunning'
    <3>1. SUFFICES ASSUME hands = 0, weak = FALSE, vm = "running", NEW p \in Supplies(built) \cap Parts PROVE Held(p)'
      BY <2>1 DEF ShownRunning
    <3>2. Held(p) /\ p # "session" /\ p \notin Scratch \cup Binaries BY <3>1, Apart DEF Guest, ShownRunning
    <3> QED BY <2>1, <2>4, <3>2 DEF Held
  <2> QED BY <2>6, <2>7, <2>8, <2>9, <2>10 DEF Guest
<1> QED BY <1>1, <1>2, <1>3, <1>4, <1>5, <1>6, Turns

-----------------------------------------------------------------------------
(* What waits to be put in place is missing until then. *)

Awaited == \A c \in Commands : \A s \in ToSet(plan[c]) :
             /\ s.does = "place" /\ s.part \in Binaries => part[s.part] = "absent"
             /\ s.does = "write" => part[s.part] \in {"absent", "good"}

\* A command that has a change of the guest left is the only one that does.
LEMMA OneChanger ==
  ASSUME Base, Tamed, Alone, NEW c \in Commands, NEW d \in Commands,
         NEW s \in ToSet(plan[c]), NEW t \in ToSet(plan[d]), s.does \in Changers, t.does \in Changers
  PROVE  c = d
<1>1. ASSUME NEW e \in Commands, NEW x \in ToSet(plan[e]), x.does \in Changers PROVE Changing(e)
  <2>1. Tame(job[e], x) /\ Running(e) BY <1>1, TameMembers
  <2>2. job[e].reconcile \in BOOLEAN BY DEF Base, JobsTyped, Jobs
  <2>3. job[e].op = "bootstrap" /\ job[e].reconcile = TRUE
    BY <1>1, <2>1, <2>2 DEF Tame, Changers
  <2> QED BY <2>1, <2>3 DEF Changing, Changes
<1>2. Changing(c) /\ Changing(d) BY <1>1
<1> QED BY <1>2 DEF Alone

\* After the binary is placed the download places nothing more.
LEMMA PlacesOnce ==
  ASSUME Base, Tamed, NEW c \in Commands, Running(c), Head(plan[c]).does = "place", Head(plan[c]).part \in Binaries,
         NEW s \in ToSet(Tail(plan[c]))
  PROVE  s.does # "place"
<1> DEFINE pl == plan[c]
<1>1. claudePlace(pl) \/ codexUnpack(pl) \/ codexPlace(pl) BY ByHead
<1>2. ~codexUnpack(pl)
  <2>1. codexUnpack(pl) => Head(pl) = Places("codex extract", "codex staging") BY DEF codexUnpack, Starts
  <2>2. Places("codex extract", "codex staging").part = "codex extract" BY DEF Places, Step
  <2>3. "codex extract" \notin Binaries BY DEF Binaries
  <2> QED BY <2>1, <2>2, <2>3
<1>3. Tail(pl) \in Seq(Plain) BY <1>1, <1>2 DEF claudePlace, codexPlace, Calm
<1> HIDE DEF pl
<1>4. s \in Plain
  <2> DEFINE t == Tail(pl)
  <2>1. s \in ToSet(t) BY DEF pl
  <2> HIDE DEF t
  <2> QED BY <1>3, <2>1, Members DEF t
<1>5. s.does \in Verbs BY <1>4 DEF Plain
<1> QED BY <1>5 DEF Verbs

\* A command that begins has no change planned.
LEMMA PlannedCalm ==
  ASSUME NEW op \in {"init", "start", "stop", "bootstrap"}, NEW b \in Backends, NEW s \in ToSet(Planned(op, b))
  PROVE  s.does \notin Changers
<1>1. CASE op # "bootstrap"
  <2>1. Planned(op, b) \in {<<Host("declare"), Host("make")>>, <<Host("boot"), Host("reconnect")>>, <<Host("halt")>>}
    BY <1>1 DEF Planned
  <2>2. \A x, y : ToSet(<<x, y>>) = {x, y} /\ ToSet(<<x>>) = {x} BY Sets
  <2>3. s \in {Host("declare"), Host("make"), Host("boot"), Host("reconnect"), Host("halt")} BY <2>1, <2>2
  <2>4. s.does \in {"declare", "make", "boot", "reconnect", "halt"} BY <2>3, Does
  <2> QED BY <2>4 DEF Changers
<1>2. CASE op = "bootstrap"
  <2> DEFINE h == Host("running")
             u == <<h>>
             t == Bootstrap(b)
  <2>1. Whole(b, t) BY BootWhole
  <2>2. t \in Seq(AllSteps) /\ h \in AllSteps /\ h.does = "running"
    <3>1. h \in TameSteps([op |-> "bootstrap", backend |-> b, reconcile |-> TRUE]) BY HostTame
    <3> QED BY <2>1, <3>1, Does DEF Whole, TameSteps
  <2>3. \A x \in ToSet(t) : x.does \in Listings BY <2>1 DEF Whole
  <2>4. Planned(op, b) = u \o t BY <1>2 DEF Planned
  <2> HIDE DEF h, t
  <2>a. \A x : ToSet(<<x>>) = {x} BY Sets
  <2>b. \A x \in AllSteps : <<x>> \in Seq(AllSteps) OBVIOUS
  <2>5. u \in Seq(AllSteps) /\ ToSet(u) = {h} BY <2>2, <2>a, <2>b
  <2> HIDE DEF u
  <2>6. ToSet(u \o t) = ToSet(u) \cup ToSet(t) BY <2>2, <2>5, Cat
  <2>7. s = h \/ s \in ToSet(t) BY <2>4, <2>5, <2>6
  <2> QED BY <2>2, <2>3, <2>7 DEF Listings, Changers
<1> QED BY <1>1, <1>2

\* What is left of a plan: what was, or what is made of a missing part.
LEMMA LeftOf ==
  ASSUME Base, Tamed, NEW c \in Commands, Running(c), Effect(c), NEW s \in ToSet(plan'[c])
  PROVE  \/ s \in ToSet(Tail(plan[c]))
         \/ /\ AddsTo(c, Head(plan[c])) /\ Tame(job[c], s)
            /\ s.does = "write" => s.part = Head(plan[c]).part /\ part[s.part] = "absent"
            /\ s.does = "place" /\ s.part \in Binaries => part[s.part] = "absent"
<1> DEFINE h == Head(plan[c])
           T == TameSteps(job[c])
           r == Tail(plan[c])
<1>1. Tame(job[c], h) /\ r \in Seq(T) /\ job[c] \in Jobs BY TameHead DEF Base, JobsTyped
<1>2. Ends(c, h) \/ GoesOn(c, h) \/ AddsTo(c, h) BY DEF Effect
<1> HIDE DEF h, T
<1>3. CASE Ends(c, h) BY <1>3 DEF Ends, ToSet
<1>4. CASE GoesOn(c, h) BY <1>4 DEF GoesOn
<1>5. CASE AddsTo(c, h)
  <2>1. PICK steps : Adds(job[c], h, steps) /\ plan'[c] = steps \o r BY <1>5 DEF AddsTo
  <2>2. job[c].reconcile = TRUE BY <1>5 DEF AddsTo
  <2>3. /\ steps \in Seq(T) /\ h.does \in {"create", "repoint", "install"}
        /\ h.does = "create" => part[h.part] = "absent" /\ steps = <<Writes(h.part)>>
        /\ h.does = "repoint" => part[h.part] # "good" /\ steps = <<Links(h.part)>>
        /\ h.does = "install" => part[h.part] = "absent" /\ steps \in Seq(Hauls(job[c]))
    BY <1>1, <2>1, <2>2, Added DEF T
  <2> HIDE DEF r
  <2>4. s \in ToSet(steps) \/ s \in ToSet(r) BY <1>1, <2>1, <2>3, Cat
  <2>5. ASSUME s \in ToSet(steps)
        PROVE  /\ Tame(job[c], s)
               /\ s.does = "write" => s.part = h.part /\ part[s.part] = "absent"
               /\ s.does = "place" /\ s.part \in Binaries => part[s.part] = "absent"
    <3>1. s \in T BY <2>3, <2>5, Members
    <3>2. Tame(job[c], s) BY <3>1 DEF T, TameSteps
    <3>3. CASE h.does = "create"
      <4>1. s = Writes(h.part) BY <2>3, <2>5, <3>3, Sets
      <4>2. s.does = "write" /\ s.part = h.part BY <4>1, Fields
      <4> QED BY <2>3, <3>2, <3>3, <4>2
    <3>4. CASE h.does = "repoint"
      <4>1. s = Links(h.part) BY <2>3, <2>5, <3>4, Sets
      <4>2. s.does = "link" BY <4>1, Fields
      <4> QED BY <3>2, <4>2
    <3>5. CASE h.does = "install"
      <4> DEFINE H == Hauls(job[c])
      <4>1. steps \in Seq(H) BY <2>3, <3>5
      <4> HIDE DEF H
      <4>2. s \in H BY <2>5, <4>1, Members
      <4>3. s.does \in {"fetch", "check", "place", "clear"} BY <4>2 DEF H, Hauls
      <4>4. h.part = BinaryOf(job[c].backend) BY <1>1, <3>5 DEF Tame, About
      <4>5. s.does = "place" => s.part \in {"codex extract", h.part} BY <3>2, <4>4 DEF Tame, About
      <4>6. "codex extract" \notin Binaries BY DEF Binaries
      <4> QED BY <2>3, <3>2, <3>5, <4>3, <4>5, <4>6
    <3> QED BY <2>3, <3>3, <3>4, <3>5
  <2> QED BY <1>5, <2>4, <2>5 DEF h, r
<1> QED BY <1>2, <1>3, <1>4, <1>5

LEMMA AwaitedInit == Init => Awaited
<1> SUFFICES ASSUME Init, NEW c \in Commands PROVE ToSet(plan[c]) = {} BY DEF Awaited
<1> QED BY DEF Init, ToSet

LEMMA AwaitedStep ==
  ASSUME Base, Tamed, Alone, Guest, Awaited, [Next]_vars
  PROVE  Awaited'
<1>a. GuestTyped /\ Binaries \subseteq Parts /\ Scratch \subseteq Parts BY InParts DEF Base
\* A step of plan c is about a part of the guest that is neither private nor scratch.
<1>b. ASSUME NEW c \in Commands, NEW s \in ToSet(plan[c]),
             (s.does = "place" /\ s.part \in Binaries) \/ s.does = "write"
      PROVE  s.part \in Parts /\ s.part \notin Scratch \cup Private /\ s.does \in Changers
             /\ (s.does = "write" => s.part \in Made)
  <2>1. Tame(job[c], s) BY <1>b, TameMembers
  <2>2. s.does \in Changers /\ s.does \notin Idle BY <1>b DEF Changers, Idle
  <2>3. s.does = "write" => s.part \in Made BY <2>1 DEF Tame, About
  <2>4. s.part \in Parts \cup {"session"} BY <2>1, <2>2 DEF Tame
  <2>5. s.part \in Made \cup Binaries BY <1>b, <2>3
  <2> QED BY <2>2, <2>3, <2>4, <2>5, Apart
\* Where the parts that wait stay as they are, or are put right, nothing more is to do.
<1>c. ASSUME \A c \in Commands : plan'[c] = plan[c],
             \A c \in Commands : \A s \in ToSet(plan[c]) :
               /\ s.does = "place" /\ s.part \in Binaries => part'[s.part] = part[s.part]
               /\ s.does = "write" => part'[s.part] \in {part[s.part], "good"}
      PROVE  Awaited'
  <2>1. SUFFICES ASSUME NEW c \in Commands, NEW s \in ToSet(plan[c])
                 PROVE  /\ s.does = "place" /\ s.part \in Binaries => part'[s.part] = "absent"
                        /\ s.does = "write" => part'[s.part] \in {"absent", "good"}
    BY <1>c DEF Awaited
  <2> QED BY <1>c DEF Awaited
<1>1. ASSUME NEW c \in Commands, Begins(c) PROVE Awaited'
  <2>1. PICK op \in {"init", "start", "stop", "bootstrap"}, b \in Backends :
            /\ plan'[c] = Planned(op, b) /\ \A d \in Commands : d # c => plan'[d] = plan[d]
            /\ UNCHANGED guestVars
    BY <1>1, BeginGives
  <2>2. \A s \in ToSet(plan'[c]) : s.does \notin {"place", "write"} BY <2>1, PlannedCalm DEF Changers
  <2>3. part' = part BY <2>1 DEF guestVars
  <2> QED BY <2>1, <2>2, <2>3 DEF Awaited
<1>2. ASSUME NEW c \in Commands, Acts(c) PROVE Awaited'
  <2> DEFINE h == Head(plan[c])
  <2>1. /\ Running(c) /\ Others(c) /\ Effect(c) /\ job[c] \in Jobs
    BY <1>2, ActsGoOn, Effects DEF Base, JobsTyped
  <2>2. h \in ToSet(plan[c]) /\ ToSet(Tail(plan[c])) \subseteq ToSet(plan[c]) /\ Tame(job[c], h)
    BY <2>1, TameHead
  <2>3. SUFFICES ASSUME NEW d \in Commands, NEW s \in ToSet(plan'[d])
                 PROVE  /\ s.does = "place" /\ s.part \in Binaries => part'[s.part] = "absent"
                        /\ s.does = "write" => part'[s.part] \in {"absent", "good"}
    BY DEF Awaited
  <2>4. \/ d # c /\ s \in ToSet(plan[d])
        \/ d = c /\ s \in ToSet(Tail(plan[c]))
        \/ d = c /\ AddsTo(c, h) /\ Tame(job[c], s)
           /\ (s.does = "write" => part[s.part] = "absent")
           /\ (s.does = "place" /\ s.part \in Binaries => part[s.part] = "absent")
    BY <2>1, <2>3, LeftOf DEF Others
  <2>5. CASE AddsTo(c, h) /\ (s.does = "write" => part[s.part] = "absent")
             /\ (s.does = "place" /\ s.part \in Binaries => part[s.part] = "absent")
    <3>1. part' = part BY <2>5 DEF AddsTo, guestVars
    <3> QED BY <2>5, <3>1
  <2>6. CASE (d # c /\ s \in ToSet(plan[d])) \/ (d = c /\ s \in ToSet(Tail(plan[c])))
    <3>1. s \in ToSet(plan[d]) BY <2>2, <2>6
    <3>2. /\ s.does = "place" /\ s.part \in Binaries => part[s.part] = "absent"
          /\ s.does = "write" => part[s.part] \in {"absent", "good"}
      BY <3>1 DEF Awaited
    <3>3. SUFFICES ASSUME (s.does = "place" /\ s.part \in Binaries) \/ s.does = "write"
                   PROVE  /\ s.does = "place" /\ s.part \in Binaries => part'[s.part] = "absent"
                          /\ s.does = "write" => part'[s.part] \in {"absent", "good"}
      OBVIOUS
    <3>4. s.part \in Parts /\ s.part \notin Scratch \cup Private /\ s.does \in Changers
          /\ (s.does = "write" => s.part \in Made)
      BY <1>b, <3>1, <3>3
    <3>5. CASE SetsOne(job[c], h)
      <4>1. /\ h.part \in Made => part'[h.part] = "good"
            /\ h.part \in Binaries => h.does = "place"
            /\ \A p \in Parts : p # h.part => part'[p] = part[p]
        BY <2>1, <3>5, SetsOwn
      <4>2. h.does \in Changers BY <3>5 DEF SetsOne
      <4>3. d = c BY <2>2, <3>1, <3>4, <4>2, OneChanger
      <4>4. CASE s.part # h.part BY <3>2, <3>4, <4>1, <4>4
      <4>5. CASE s.part = h.part /\ s.does = "write" BY <3>4, <4>1, <4>5
      <4>6. CASE s.part = h.part /\ s.does = "place" /\ s.part \in Binaries
        <5>1. h.does = "place" /\ s \in ToSet(Tail(plan[c])) BY <2>6, <4>1, <4>3, <4>6
        <5> QED BY <2>1, <4>6, <5>1, PlacesOnce
      <4> QED BY <3>3, <4>4, <4>5, <4>6
    <3>6. CASE Powers \/ Quiet
      <4>1. part' = part BY <3>6 DEF Powers, Quiet
      <4> QED BY <3>2, <4>1
    <3>7. CASE Boots
      <4>1. \A p \in Parts : part'[p] # part[p] => part'[p] = "good" /\ p \in Supplies(built)
        BY <3>7, BootsMake
      <4>2. s.part \in Binaries => s.part \notin Supplies(built) BY Apart
      <4> QED BY <3>2, <3>4, <4>1, <4>2
    <3> QED BY <2>1, <3>5, <3>6, <3>7 DEF Effect, Happens, Quiet
  <2> QED BY <2>4, <2>5, <2>6
<1>3. CASE World
  <2>0. \A c \in Commands : plan'[c] = plan[c] BY <1>3, WorldStep
  <2>1. CASE Die \/ ForceStop
    <3>1. part' = part BY <2>1 DEF Die, ForceStop
    <3> QED BY <1>c, <2>0, <3>1
  <2>2. CASE BootByHand
    <3>1. \A p \in Parts : part'[p] # part[p] => part'[p] = "good" /\ p \in Supplies(built)
      BY <2>2, BootsMake DEF Boots, BootByHand
    <3>2. \A p \in Binaries : p \notin Supplies(built) BY Apart
    <3> QED BY <1>a, <1>b, <1>c, <2>0, <3>1, <3>2
  <2>3. CASE Tighten
    <3>1. PICK t \in Private : \A q \in Parts : q # t => part'[q] = part[q] BY <2>3, TightenMakes
    <3> QED BY <1>b, <1>c, <2>0, <3>1
  <2>4. CASE Meddle
    <3>1. PICK m \in Parts :
             /\ \A q \in Parts : q # m => part'[q] = part[q]
             /\ \A c \in Commands : \A s \in ToSet(plan[c]) : s.part = m => s.does \notin {"write", "link", "place"}
      BY <2>4, MeddleMakes
    <3> QED BY <1>b, <1>c, <2>0, <3>1
  <2> QED BY <1>3, <2>1, <2>2, <2>3, <2>4 DEF World
<1>4. CASE UNCHANGED vars BY <1>4, <1>c DEF vars, guestVars
<1> QED BY <1>1, <1>2, <1>3, <1>4, NextIs

-----------------------------------------------------------------------------
(* What is held stays held, but for a hand. *)

LEMMA HeldStays ==
  ASSUME Base, Tamed, Awaited, [Next]_vars, ~Meddle, NEW p \in Parts \cup {"session"}, p \notin Scratch, Held(p)
  PROVE  Held(p)'
<1>0. "operator in projects" \in Parts /\ "operator in projects" \notin Private BY InParts, Apart
<1>1. CASE Quiet BY <1>1 DEF Quiet, Held
<1>2. CASE Powers
  <2>1. part' = part /\ session' \in {session, "none", Reconnected} BY <1>2 DEF Powers
  <2> QED BY <2>1 DEF Held, Reconnected
<1>3. CASE Boots
  <2>1. /\ session' = "fresh" <=> part["operator in projects"] = "good"
        /\ \A q \in Parts : part'[q] # part[q] => part'[q] = "good"
    BY <1>3, BootsMake
  <2>2. CASE p = "session" BY <1>0, <2>1, <2>2 DEF Held
  <2>3. CASE p # "session" BY <2>1, <2>3 DEF Held
  <2> QED BY <2>2, <2>3
<1>4. CASE Tighten
  <2>1. PICK t \in Private :
           /\ part[t] = "good" /\ (t \in Parts => part'[t] = "stricter")
           /\ \A q \in Parts : q # t => part'[q] = part[q]
           /\ UNCHANGED <<built, vm, session, hands, weak, touched>>
    BY <1>4, TightenMakes
  <2>2. CASE p = "session" BY <1>0, <2>1, <2>2 DEF Held
  <2>3. CASE p # "session" BY <2>1, <2>3 DEF Held
  <2> QED BY <2>2, <2>3
<1>5. ASSUME NEW c \in Commands, Acts(c), SetsOne(job[c], Head(plan[c])) PROVE Held(p)'
  <2> DEFINE h == Head(plan[c])
  <2>0. job[c] \in Jobs /\ Running(c) BY <1>5, ActsGoOn DEF Base, JobsTyped
  <2>1. /\ h.part \in Scratch \cup Made \cup Binaries \cup LinkParts
        /\ h.part \in Made => part'[h.part] = "good"
        /\ h.part \in LinkParts => part'[h.part] = "good"
        /\ h.part \in Binaries => h.does = "place"
        /\ \A q \in Parts : q # h.part => part'[q] = part[q]
        /\ session' = session /\ h.part \in Parts
    BY <1>5, <2>0, SetsOwn
  <2>2. h \in ToSet(plan[c]) BY <2>0, TameHead
  <2>3. h.part \in Binaries => part[h.part] = "absent" BY <2>1, <2>2 DEF Awaited
  <2> HIDE DEF h
  <2>4. CASE p = "session"
    <3>1. h.part # "operator in projects" BY <2>1, Apart
    <3> QED BY <1>0, <2>1, <2>4, <3>1 DEF Held
  <2>5. CASE p # "session" /\ p # h.part BY <2>1, <2>5 DEF Held
  <2>6. CASE p # "session" /\ p = h.part
    <3>1. p \notin Binaries BY <2>3, <2>6, Apart DEF Held
    <3> QED BY <2>1, <2>6, <3>1 DEF Held
  <2> QED BY <2>4, <2>5, <2>6
<1> QED BY <1>1, <1>2, <1>3, <1>4, <1>5, Turns

-----------------------------------------------------------------------------
(* A bootstrap that reports success. *)

Ending == \A c \in Commands : Running(c) => result[c] = "none"

\* Until it ends, every part a bootstrap proves is held, or a step of what is
\* left of it still has to find or put it in place.
Owing == \A c \in Commands :
  job[c].op = "bootstrap" /\ touched[c] = FALSE /\ result[c] \in {"none", "ok"} =>
    \A p \in Proven(job[c].backend) \cup {"session"} : Held(p) \/ \E s \in ToSet(plan[c]) : Owes(s, p)

\* A step ends, advances or lengthens its own command.
LEMMA EndsOwn ==
  ASSUME Base, NEW c \in Commands, Acts(c), NEW d \in Commands, d # c
  PROVE  result'[d] = result[d] /\ plan'[d] = plan[d] /\ job'[d] = job[d] /\ touched'[d] = touched[d]
<1>1. \/ Advance(c) \/ \E how : End(c, how)
      \/ \E steps : Insert(c, steps)
  <2>1. CASE Declare(c) BY <2>1 DEF Declare
  <2>2. CASE Make(c) BY <2>2 DEF Make
  <2>3. CASE Boot(c) BY <2>3 DEF Boot, Refuse
  <2>4. CASE Reconnect(c) BY <2>4 DEF Reconnect, Refuse
  <2>5. CASE Halt(c) BY <2>5 DEF Halt, Refuse
  <2>6. CASE Fail(c) BY <2>6 DEF Fail
  <2>7. CASE Prove(c) BY <2>7 DEF Prove, Refuse
  <2>8. CASE Answer(c) BY <2>8 DEF Answer, Refuse
  <2>9. CASE MakeAbsent(c) BY <2>9 DEF MakeAbsent, Refuse
  <2>10. CASE Write(c) BY <2>10 DEF Write
  <2>11. CASE Repoint(c) BY <2>11 DEF Repoint, Refuse
  <2>12. CASE DownloadAbsent(c) BY <2>12 DEF DownloadAbsent, Refuse
  <2>13. CASE Fetch(c) BY <2>13 DEF Fetch
  <2>14. CASE Check(c) BY <2>14 DEF Check
  <2>15. CASE Place(c) BY <2>15 DEF Place
  <2>16. CASE Clear(c) BY <2>16 DEF Clear
  <2> QED
    BY <2>1, <2>2, <2>3, <2>4, <2>5, <2>6, <2>7, <2>8, <2>9, <2>10, <2>11, <2>12, <2>13, <2>14, <2>15, <2>16
    DEF Acts, GuestStep
<1> QED BY <1>1 DEF Advance, End, Insert, Base, JobsTyped

\* What the world does to commands: a hand marks them.
LEMMA WorldKeeps ==
  ASSUME World
  PROVE  UNCHANGED <<job, plan, result>> /\ (~Meddle => touched' = touched)
BY DEF World, Die, ForceStop, BootByHand, Tighten, Meddle

LEMMA EndingInit == Init => Ending
BY DEF Init, Ending, Running

LEMMA EndingStep ==
  ASSUME Base, Tamed, Ending, [Next]_vars
  PROVE  Ending'
<1>1. ASSUME NEW c \in Commands, Begins(c) PROVE Ending'
  <2>1. result'[c] = "none" /\ \A d \in Commands : d # c => plan'[d] = plan[d] /\ result'[d] = result[d]
    BY <1>1, BeginGives
  <2> QED BY <2>1 DEF Ending, Running
<1>2. ASSUME NEW c \in Commands, Acts(c) PROVE Ending'
  <2> DEFINE h == Head(plan[c])
  <2>1. Running(c) /\ (Ends(c, h) \/ GoesOn(c, h) \/ AddsTo(c, h)) BY <1>2, ActsGoOn, Effects DEF Effect
  <2>2. \A d \in Commands : d # c => plan'[d] = plan[d] /\ result'[d] = result[d] BY <1>2, EndsOwn
  <2> HIDE DEF h
  <2>3. plan'[c] # <<>> => result'[c] = "none"
    BY <2>1 DEF Ends, GoesOn, AddsTo, Ending
  <2> QED BY <2>2, <2>3 DEF Ending, Running
<1>3. CASE World BY <1>3, WorldKeeps DEF Ending, Running
<1>4. CASE UNCHANGED vars BY <1>4 DEF vars, Ending, Running
<1> QED BY <1>1, <1>2, <1>3, <1>4, NextIs

\* A step that succeeded holds what it owed.
LEMMA PassedHolds ==
  ASSUME Base, Base', Guest', Verified', NEW j \in Jobs, NEW h, Tame(j, h), Passed(h), NEW p, Owes(h, p)
  PROVE  Held(p)'
<1>0. j.backend \in Backends BY DEF Jobs
<1>1. h.part = p /\ h.does \in {"prove", "provePath", "proveOwner", "create", "write", "repoint", "link"}
  BY DEF Owes
<1>2. CASE h.does = "prove" /\ p = "session"
  <2>1. session' = "fresh" BY <1>1, <1>2 DEF Passed
  <2> QED BY <1>2, <2>1 DEF Held, Guest, SessionTold
<1>3. CASE h.does = "prove" /\ p # "session" BY <1>1, <1>3 DEF Passed, Held
<1>4. CASE h.does = "provePath"
  <2>1. p \in Private /\ part'[p] \in {"good", "stricter"} BY <1>1, <1>4 DEF Tame, About, Passed
  <2>2. p # "session" BY <2>1, Apart
  <2> QED BY <2>1, <2>2 DEF Held
<1>5. CASE h.does = "proveOwner"
  <2>1. p \in Binaries /\ part'[p] \in {"good", "foreign"} BY <1>1, <1>5, Apart DEF Tame, About, Passed
  <2>2. p # "session" /\ part'[p] # "foreign" BY <2>1, Apart DEF Verified, InstalledVerified
  <2> QED BY <2>1, <2>2 DEF Held
<1>6. CASE h.does \in {"create", "write", "repoint", "link"}
  <2>1. p \in Made \cup LinkParts /\ part'[p] = "good" BY <1>1, <1>6, Apart DEF Tame, About, Passed
  <2>2. p # "session" BY <2>1, Apart
  <2> QED BY <2>1, <2>2 DEF Held
<1> QED BY <1>1, <1>2, <1>3, <1>4, <1>5, <1>6

\* What makes a missing part is owed as the step was that found it missing.
LEMMA AddedOwes ==
  ASSUME Base, Tamed, NEW c \in Commands, Running(c), AddsTo(c, Head(plan[c])), NEW p,
         NEW s \in ToSet(plan[c]), Owes(s, p)
  PROVE  \E t \in ToSet(plan'[c]) : Owes(t, p)
<1> DEFINE h == Head(plan[c])
           T == TameSteps(job[c])
           r == Tail(plan[c])
<1>1. Tame(job[c], h) /\ r \in Seq(T) /\ job[c] \in Jobs /\ s \in {h} \cup ToSet(r)
  BY TameHead DEF Base, JobsTyped
<1> HIDE DEF h, T
<1>2. PICK steps : Adds(job[c], h, steps) /\ plan'[c] = steps \o r BY DEF AddsTo, h
<1>3. job[c].reconcile = TRUE BY DEF AddsTo
<1>4. /\ steps \in Seq(T) /\ h.does \in {"create", "repoint", "install"}
      /\ h.does = "create" => steps = <<Writes(h.part)>>
      /\ h.does = "repoint" => steps = <<Links(h.part)>>
  BY <1>1, <1>2, <1>3, Added DEF T
<1> HIDE DEF r
<1>5. ToSet(plan'[c]) = ToSet(steps) \cup ToSet(r) BY <1>1, <1>2, <1>4, Cat
<1>6. CASE s = h
  <2>1. h.does \in {"create", "repoint"} /\ h.part = p BY <1>4, <1>6 DEF Owes
  <2> DEFINE w == IF h.does = "create" THEN Writes(p) ELSE Links(p)
  <2>2. steps = <<w>> BY <1>4, <2>1
  <2>3. w.part = p /\ w.does \in {"write", "link"} BY Fields
  <2> HIDE DEF w
  <2>4. w \in ToSet(steps) /\ Owes(w, p) BY <2>2, <2>3, Only DEF Owes
  <2> QED BY <1>5, <2>4
<1> QED BY <1>1, <1>5, <1>6

LEMMA OwingInit == Init => Owing
<1> SUFFICES ASSUME Init, NEW c \in Commands PROVE job[c].op # "bootstrap" BY DEF Owing
<1> QED BY DEF Init, NoJob

LEMMA OwingStep ==
  ASSUME Base, Base', Tamed, Alone, Guest, Guest', Verified', Awaited, Ending, Owing, [Next]_vars
  PROVE  Owing'
<1> DEFINE Owe(c) == \A p \in Proven(job[c].backend) \cup {"session"} :
                       Held(p) \/ \E s \in ToSet(plan[c]) : Owes(s, p)
           Due(c) == job[c].op = "bootstrap" /\ touched[c] = FALSE /\ result[c] \in {"none", "ok"}
<1>0. Owing <=> \A c \in Commands : Due(c) => Owe(c) BY DEF Owing
<1>a. Owing' <=> \A c \in Commands : Due(c)' => Owe(c)' BY DEF Owing
<1>b. ASSUME ~Meddle, NEW d \in Commands, NEW p \in Proven(job[d].backend) \cup {"session"}, Held(p)
      PROVE  Held(p)'
  <2>1. p \in Parts \cup {"session"} /\ p \notin Scratch BY <1>b, AnyProven, Apart
  <2> QED BY <1>b, <2>1, HeldStays
\* A command that the step leaves alone.
<1>c. ASSUME ~Meddle, NEW d \in Commands, job'[d] = job[d], plan'[d] = plan[d], result'[d] = result[d],
             touched'[d] = touched[d], Due(d)'
      PROVE  Owe(d)'
  <2>1. Due(d) BY <1>c
  <2>2. Owe(d) BY <1>0, <2>1
  <2> QED BY <1>b, <1>c, <2>2
<1>1. ASSUME NEW c \in Commands, Begins(c), ~Meddle PROVE Owing'
  <2>1. PICK op \in {"init", "start", "stop", "bootstrap"}, b \in Backends :
            /\ job'[c].op = op /\ job'[c].backend = b /\ plan'[c] = Planned(op, b)
            /\ \A d \in Commands : d # c => /\ job'[d] = job[d] /\ plan'[d] = plan[d]
                                            /\ result'[d] = result[d] /\ touched'[d] = touched[d]
    BY <1>1, BeginGives
  <2>2. ASSUME Due(c)', NEW p \in Proven(b) \cup {"session"} PROVE \E s \in ToSet(plan'[c]) : Owes(s, p)
    <3> DEFINE u == <<Host("running")>>
               t == Bootstrap(b)
    <3>1. op = "bootstrap" BY <2>1, <2>2
    <3>2. Planned(op, b) = u \o t BY <3>1 DEF Planned
    <3>3. \E s \in ToSet(t) : Owes(s, p)
      <4>1. CASE p = "session"
        <5>1. Proves("session") \in ToSet(t) BY BootWhole
        <5>2. Owes(Proves("session"), p) BY <4>1, Fields DEF Owes
        <5> QED BY <5>1, <5>2
      <4>2. CASE p # "session" BY <2>2, <4>2, ProvenParts
      <4> QED BY <4>1, <4>2
    <3>4. t \in Seq(AllSteps) BY BootWhole DEF Whole
    <3>5. u \in Seq(AllSteps)
      <4>1. Host("running") \in AllSteps
        <5>1. Host("running") \in TameSteps([op |-> "bootstrap", backend |-> b, reconcile |-> TRUE]) BY HostTame
        <5> QED BY <5>1 DEF TameSteps
      <4> QED BY <4>1
    <3> HIDE DEF u, t
    <3>6. ToSet(t) \subseteq ToSet(u \o t) BY <3>4, <3>5, Joins
    <3> QED BY <2>1, <3>2, <3>3, <3>6
  <2>3. Due(c)' => Owe(c)' BY <2>1, <2>2
  <2> QED BY <1>1, <1>a, <1>c, <2>1, <2>3
<1>2. ASSUME NEW c \in Commands, Acts(c), ~Meddle PROVE Owing'
  <2> DEFINE h == Head(plan[c])
  <2>1. /\ Running(c) /\ (Ends(c, h) \/ GoesOn(c, h) \/ AddsTo(c, h)) /\ UNCHANGED <<job, touched>>
        /\ job[c] \in Jobs /\ Tame(job[c], h) /\ ToSet(plan[c]) = {h} \cup ToSet(Tail(plan[c]))
    BY <1>2, ActsGoOn, Effects, TameHead DEF Effect, Others, Base, JobsTyped
  <2>2. ASSUME NEW d \in Commands, d # c, Due(d)' PROVE Owe(d)' BY <1>2, <1>c, <2>2, EndsOwn
  <2>3. ASSUME Due(c)' PROVE Owe(c)'
    <3>1. job[c].op = "bootstrap" /\ touched[c] = FALSE /\ result'[c] \in {"none", "ok"} BY <2>1, <2>3
    <3>2. Due(c) BY <2>1, <3>1 DEF Ending
    <3>3. Owe(c) BY <1>0, <3>2
    <3>4. ~Ends(c, h)
      <4>1. h.does # "boot" BY <2>1, <3>1, ByHead
      <4> HIDE DEF h
      <4> QED BY <3>1, <4>1 DEF Ends
    <3>5. SUFFICES ASSUME NEW p \in Proven(job[c].backend) \cup {"session"}, ~Held(p)'
                   PROVE  \E t \in ToSet(plan'[c]) : Owes(t, p)
      BY <2>1
    <3>6. ~Held(p) BY <1>2, <1>b, <3>5
    <3>7. PICK s \in ToSet(plan[c]) : Owes(s, p) BY <3>3, <3>5, <3>6
    <3>8. CASE GoesOn(c, h)
      <4>1. s # h BY <2>1, <3>5, <3>7, <3>8, PassedHolds DEF GoesOn
      <4> QED BY <2>1, <3>7, <3>8, <4>1 DEF GoesOn
    <3>9. CASE AddsTo(c, h) BY <2>1, <3>7, <3>9, AddedOwes
    <3> QED BY <2>1, <3>4, <3>8, <3>9
  <2> QED BY <1>a, <2>2, <2>3
<1>3. CASE Meddle
  <2>1. \A c \in Commands : touched'[c] = TRUE BY <1>3, MeddleMakes
  <2> QED BY <1>a, <2>1
<1>4. CASE World /\ ~Meddle
  <2>1. \A d \in Commands : job'[d] = job[d] /\ plan'[d] = plan[d] /\ result'[d] = result[d] /\ touched'[d] = touched[d]
    BY <1>4, WorldKeeps
  <2> QED BY <1>4, <1>a, <1>c, <2>1
<1>5. CASE UNCHANGED vars /\ ~Meddle BY <1>5, <1>a, <1>c DEF vars
<1> QED BY <1>1, <1>2, <1>3, <1>4, <1>5, NextIs

BootInv == /\ Base /\ Alone /\ Verified /\ Tamed /\ Guest /\ Awaited /\ Ending /\ Owing

LEMMA BootInit == Init => BootInv
BY BaseInit, AloneInit, VerifiedInit, TamedInit, GuestInit, AwaitedInit, EndingInit, OwingInit DEF BootInv

LEMMA BootStep ==
  ASSUME Overlap = FALSE, BootInv, [Next]_vars
  PROVE  BootInv'
<1>1. Base' /\ Alone' /\ Verified' BY BaseStep, AloneStep, VerifiedStep DEF BootInv
<1>2. Tamed' /\ Guest' BY TamedStep, GuestKeeps DEF BootInv
<1>3. Awaited' /\ Ending' BY AwaitedStep, EndingStep DEF BootInv
<1>4. Owing' BY <1>1, <1>2, OwingStep DEF BootInv
<1> QED BY <1>1, <1>2, <1>3, <1>4 DEF BootInv

LEMMA OwingEnds ==
  ASSUME Base, Ending, Owing
  PROVE  BootstrapIsTrue
<1> SUFFICES ASSUME NEW c \in Commands, job[c].op = "bootstrap", result[c] = "ok", ~touched[c]
             PROVE  /\ \A p \in Proven(job[c].backend) :
                         part[p] = "good" \/ (p \in Private /\ part[p] = "stricter")
                    /\ session # "stale"
  BY DEF BootstrapIsTrue
<1>1. touched[c] = FALSE BY DEF Base, JobsTyped
<1>2. plan[c] = <<>> BY DEF Ending, Running
<1>3. ToSet(plan[c]) = {} BY <1>2 DEF ToSet
<1>4. \A p \in Proven(job[c].backend) \cup {"session"} : Held(p) BY <1>1, <1>3 DEF Owing
<1>5. \A p \in Proven(job[c].backend) : p # "session" BY DEF Proven
<1>6. Held("session") => session # "stale" BY DEF Held
<1>7. \A p \in Proven(job[c].backend) : Held(p) => (part[p] = "good" \/ (p \in Private /\ part[p] = "stricter"))
  BY <1>5 DEF Held
<1> QED BY <1>4, <1>6, <1>7

\* Where commands that write do not overlap, a bootstrap that reports success has
\* every part its backend declares in place and a session that carries the
\* shared group, unless a hand changed the guest meanwhile; stops, boots and
\* other commands may come between any two of its steps (backends.Bootstrap).
THEOREM BootstrapTellsTheTruth ==
  ASSUME Overlap = FALSE
  PROVE  Spec => []BootstrapIsTrue
<1>1. BootInv => BootstrapIsTrue BY OwingEnds DEF BootInv
<1>2. BootInv /\ [Next]_vars => BootInv' BY BootStep
<1> QED BY <1>1, <1>2, BootInit, PTL DEF Spec

-----------------------------------------------------------------------------
(* What a command leaves behind. *)

\* What a step takes for granted is in place, or an earlier step sees to it.
Sound(G, pl) == \A i \in DOMAIN pl : \A p \in Needs(pl[i]) : p \in G \/ \E k \in 1..(i - 1) : Provides(pl[k], p)

\* In a guest no hand has changed, that is true of every command that installs.
Goods == {p \in Parts : part[p] = "good"}
Ready == hands = 0 => \A c \in Commands : job[c].reconcile = TRUE => Sound(Goods, plan[c])

LEMMA SoundTail ==
  ASSUME NEW S, NEW pl \in Seq(S), pl # <<>>, NEW G, Sound(G, pl)
  PROVE  /\ \A p \in Needs(Head(pl)) : p \in G
         /\ \A i \in DOMAIN Tail(pl) : \A p \in Needs(Tail(pl)[i]) :
              p \in G \/ (\E k \in 1..(i - 1) : Provides(Tail(pl)[k], p)) \/ Provides(Head(pl), p)
<1> DEFINE t == Tail(pl)
           h == Head(pl)
<1>1. /\ Len(t) = Len(pl) - 1 /\ t \in Seq(S) /\ \A i \in 1..Len(t) : t[i] = pl[i + 1]
  BY HeadTailProperties
<1>2. /\ Len(pl) \in Nat /\ Len(t) \in Nat /\ DOMAIN pl = 1..Len(pl) /\ DOMAIN t = 1..Len(t) /\ Len(pl) # 0
  BY <1>1, LenProperties, EmptySeq
<1>3. h = pl[1] /\ 1 \in DOMAIN pl BY <1>2
<1>4. ASSUME NEW p \in Needs(h) PROVE p \in G
  <2>1. ~ \E k \in 1..(1 - 1) : Provides(pl[k], p) OBVIOUS
  <2> QED BY <1>3, <1>4, <2>1 DEF Sound
<1> HIDE DEF t, h
<1>5. ASSUME NEW i \in DOMAIN t, NEW p \in Needs(t[i]), p \notin G, ~Provides(h, p)
      PROVE  \E k \in 1..(i - 1) : Provides(t[k], p)
  <2>1. i + 1 \in DOMAIN pl /\ t[i] = pl[i + 1] /\ i \in 1..Len(t) BY <1>1, <1>2, <1>5
  <2>2. PICK k \in 1..((i + 1) - 1) : Provides(pl[k], p) BY <1>5, <2>1 DEF Sound
  <2>3. k # 1 BY <1>3, <1>5, <2>2
  <2>4. k - 1 \in 1..(i - 1) /\ k - 1 \in 1..Len(t) /\ (k - 1) + 1 = k BY <1>2, <2>1, <2>2, <2>3
  <2>5. t[k - 1] = pl[k] BY <1>1, <2>4
  <2> QED BY <2>2, <2>4, <2>5
<1> QED BY <1>4, <1>5 DEF t, h

\* Steps that need nothing themselves may come first.
LEMMA SoundJoins ==
  ASSUME NEW S, NEW s \in Seq(S), NEW t \in Seq(S), NEW G, \A x \in ToSet(s) : Needs(x) = {},
         \A i \in DOMAIN t : \A p \in Needs(t[i]) :
           p \in G \/ (\E k \in 1..(i - 1) : Provides(t[k], p)) \/ \E x \in ToSet(s) : Provides(x, p)
  PROVE  Sound(G, s \o t)
<1> DEFINE u == s \o t
<1>1. /\ u \in Seq(S) /\ Len(u) = Len(s) + Len(t)
      /\ \A i \in 1..Len(s) + Len(t) : u[i] = IF i <= Len(s) THEN s[i] ELSE t[i - Len(s)]
  BY ConcatProperties
<1>2. /\ Len(s) \in Nat /\ Len(t) \in Nat /\ DOMAIN s = 1..Len(s) /\ DOMAIN t = 1..Len(t)
      /\ DOMAIN u = 1..Len(s) + Len(t)
  BY <1>1, LenProperties
<1> HIDE DEF u
<1>3. SUFFICES ASSUME NEW i \in DOMAIN u, NEW p \in Needs(u[i]), p \notin G
               PROVE  \E k \in 1..(i - 1) : Provides(u[k], p)
  BY DEF Sound, u
<1>4. ~(i <= Len(s))
  <2>1. SUFFICES ASSUME i <= Len(s) PROVE FALSE OBVIOUS
  <2>2. i \in DOMAIN s /\ u[i] = s[i] BY <1>1, <1>2, <2>1
  <2> QED BY <1>3, <2>2 DEF ToSet
<1> DEFINE m == i - Len(s)
<1>5. m \in DOMAIN t /\ u[i] = t[m] BY <1>1, <1>2, <1>4
<1>6. CASE \E k \in 1..(m - 1) : Provides(t[k], p)
  <2>1. PICK k \in 1..(m - 1) : Provides(t[k], p) BY <1>6
  <2> DEFINE n == k + Len(s)
  <2>2. k \in Int /\ k >= 1 /\ k <= m - 1 /\ m <= Len(t) BY <1>2, <1>5, <2>1
  <2>3. n \in 1..(i - 1) /\ n \in 1..Len(s) + Len(t) /\ ~(n <= Len(s)) /\ n - Len(s) = k
    BY <1>2, <2>2
  <2>4. u[n] = t[k] BY <1>1, <2>3
  <2> QED BY <2>1, <2>3, <2>4
<1>7. CASE \E x \in ToSet(s) : Provides(x, p)
  <2>1. PICK k \in DOMAIN s : Provides(s[k], p) BY <1>7 DEF ToSet
  <2>2. k \in 1..(i - 1) /\ u[k] = s[k] BY <1>1, <1>2, <1>4, <2>1
  <2> QED BY <2>1, <2>2
<1> QED BY <1>3, <1>5, <1>6, <1>7

\* What a tame step needs is a binary or a command link.
LEMMA NeedsWhat ==
  ASSUME NEW j \in Jobs, NEW s, Tame(j, s), NEW p \in Needs(s)
  PROVE  p \in Binaries \cup LinkParts
<1>1. s.does \in {"proveOwner", "answer"} BY DEF Needs
<1>2. p \in {BinaryOf(j.backend), LinkOf(j.backend)} BY <1>1 DEF Needs, Tame, About
<1> QED BY <1>2, Apart

LEMMA ReadyBegins ==
  ASSUME NEW op \in {"init", "start", "stop", "bootstrap"}, NEW b \in Backends, NEW G
  PROVE  Sound(G, Planned(op, b))
<1>1. \A v : Needs(Host(v)) = {} \/ v \in {"proveOwner", "answer"} BY Does DEF Needs
<1>2. CASE op # "bootstrap"
  <2> DEFINE pl == Planned(op, b)
             T == {Host("declare"), Host("make"), Host("boot"), Host("reconnect"), Host("halt")}
  <2>1. pl \in {<<Host("declare"), Host("make")>>, <<Host("boot"), Host("reconnect")>>, <<Host("halt")>>}
    BY <1>2 DEF Planned
  <2>2. \A x \in T : Needs(x) = {} BY <1>1
  <2>3. pl \in Seq(T)
    <3>1. /\ Host("declare") \in T /\ Host("make") \in T /\ Host("boot") \in T /\ Host("reconnect") \in T
          /\ Host("halt") \in T
      OBVIOUS
    <3> HIDE DEF T
    <3> QED BY <2>1, <3>1, Listed
  <2> HIDE DEF pl, T
  <2>4. \A i \in DOMAIN pl : pl[i] \in T BY <2>3
  <2>5. \A i \in DOMAIN pl : Needs(pl[i]) = {} BY <2>2, <2>4
  <2> QED BY <2>5 DEF Sound, pl
<1>3. CASE op = "bootstrap"
  <2> DEFINE h == Host("running")
             u == <<h>>
             t == Bootstrap(b)
  <2>1. t \in Seq(AllSteps) /\ InOrder(t) BY BootWhole DEF Whole
  <2>2. h \in AllSteps
    <3>1. h \in TameSteps([op |-> "bootstrap", backend |-> b, reconcile |-> TRUE]) BY HostTame
    <3> QED BY <3>1 DEF TameSteps
  <2>3. Needs(h) = {} BY <1>1
  <2>4. Planned(op, b) = u \o t BY <1>3 DEF Planned
  <2> HIDE DEF h, t
  <2>5. u \in Seq(AllSteps) /\ \A x \in ToSet(u) : x = h
    <3>1. \A x : ToSet(<<x>>) = {x} BY Sets
    <3>2. \A x \in AllSteps : <<x>> \in Seq(AllSteps) OBVIOUS
    <3> QED BY <2>2, <3>1, <3>2
  <2> HIDE DEF u
  <2>6. \A i \in DOMAIN t : \A p \in Needs(t[i]) : \E k \in 1..(i - 1) : Provides(t[k], p) BY <2>1 DEF InOrder
  <2>7. \A x \in ToSet(u) : Needs(x) = {} BY <2>3, <2>5
  <2> QED BY <2>1, <2>4, <2>5, <2>6, <2>7, SoundJoins
<1> QED BY <1>2, <1>3

\* A step that passed has seen to what it provides.
LEMMA PassedProvides ==
  ASSUME Base', Guest', Verified', hands' = 0, NEW j \in Jobs, NEW h, Tame(j, h), Passed(h),
         NEW p \in Binaries \cup LinkParts, Provides(h, p)
  PROVE  p \in Goods'
<1>0. j.backend \in Backends BY DEF Jobs
<1>1. h.part = p /\ h.does \in {"install", "place", "repoint", "link"} BY DEF Provides
<1>2. p \in Parts
  <2>1. p \in Parts \cup {"session"} BY <1>1 DEF Tame, Idle
  <2> QED BY <2>1, Apart
<1>3. CASE h.does \in {"repoint", "link"} BY <1>1, <1>2, <1>3 DEF Passed, Goods
<1>4. CASE h.does \in {"install", "place"}
  <2>1. part'[p] # "absent" BY <1>1, <1>4 DEF Passed
  <2>2. p \in Binaries
    <3>1. p \in {"codex extract", BinaryOf(j.backend)} BY <1>1, <1>4 DEF Tame, About
    <3>2. "codex extract" \in Scratch BY DEF Scratch
    <3> QED BY <3>1, <3>2, Apart
  <2>3. part'[p] # "foreign" BY <2>2 DEF Verified, InstalledVerified
  <2>4. part'[p] # "drifted" /\ part'[p] # "stricter" BY <1>2, <2>2, Apart DEF Guest, HandsOff, OwnStates
  <2>5. part'[p] \in Conditions BY <1>2 DEF Base, GuestTyped
  <2> QED BY <1>2, <2>1, <2>3, <2>4, <2>5 DEF Conditions, Goods
<1> QED BY <1>1, <1>3, <1>4

LEMMA ReadyInit == Init => Ready
<1> SUFFICES ASSUME Init, NEW c \in Commands PROVE Sound(Goods, plan[c]) BY DEF Ready
<1>1. plan[c] = <<>> /\ DOMAIN plan[c] = {} BY DEF Init
<1> QED BY <1>1 DEF Sound

LEMMA ReadyStep ==
  ASSUME Base, Base', Tamed, Guest', Verified', Awaited, Ready, [Next]_vars
  PROVE  Ready'
<1>0. SUFFICES ASSUME hands' = 0 PROVE \A c \in Commands : job'[c].reconcile = TRUE => Sound(Goods', plan'[c])
  BY DEF Ready, Sound
<1>1. ~Meddle BY <1>0, MeddleMakes
<1>2. hands = 0
  <2>1. CASE Quiet BY <1>0, <2>1 DEF Quiet
  <2>2. CASE Powers BY <1>0, <2>2 DEF Powers
  <2>3. CASE Boots BY <1>0, <2>3, BootsMake
  <2>4. CASE Tighten BY <1>0, <2>4, TightenMakes
  <2>5. ASSUME NEW c \in Commands, SetsOne(job[c], Head(plan[c])) PROVE hands = 0 BY <1>0, <2>5 DEF SetsOne
  <2> QED BY <1>1, <2>1, <2>2, <2>3, <2>4, <2>5, Turns
<1>3. ASSUME NEW p \in Binaries \cup LinkParts, p \in Goods PROVE p \in Goods'
  <2>1. p \in Parts /\ p # "session" /\ p \notin Scratch /\ p \notin Private /\ part[p] = "good"
    BY <1>3, Apart DEF Goods
  <2>2. Held(p)' BY <1>1, <2>1, HeldStays DEF Held
  <2> QED BY <2>1, <2>2 DEF Held, Goods
<1>4. ASSUME NEW c \in Commands, job[c].reconcile = TRUE PROVE Sound(Goods, plan[c])
  BY <1>2, <1>4 DEF Ready
\* A plan that stays.
<1>5. ASSUME NEW c \in Commands, job'[c] = job[c], plan'[c] = plan[c], job'[c].reconcile = TRUE
      PROVE  Sound(Goods', plan'[c])
  <2>1. Sound(Goods, plan[c]) BY <1>4, <1>5
  <2>2. job[c] \in Jobs BY DEF Base, JobsTyped
  <2>3. ASSUME NEW i \in DOMAIN plan[c], NEW p \in Needs(plan[c][i]) PROVE p \in Binaries \cup LinkParts
    <3>1. plan[c][i] \in ToSet(plan[c]) BY DEF ToSet
    <3>2. Tame(job[c], plan[c][i]) BY <3>1, TameMembers
    <3> QED BY <2>2, <2>3, <3>2, NeedsWhat
  <2> QED BY <1>3, <1>5, <2>1, <2>3 DEF Sound
<1>6. ASSUME NEW c \in Commands, Begins(c) PROVE \A d \in Commands : job'[d].reconcile = TRUE => Sound(Goods', plan'[d])
  <2>1. PICK op \in {"init", "start", "stop", "bootstrap"}, b \in Backends :
            /\ plan'[c] = Planned(op, b)
            /\ \A d \in Commands : d # c => job'[d] = job[d] /\ plan'[d] = plan[d]
    BY <1>6, BeginGives
  <2> DEFINE G == Goods'
  <2>2. Sound(G, plan'[c])
    <3> HIDE DEF G
    <3> QED BY <2>1, ReadyBegins
  <2> QED BY <1>5, <2>1, <2>2
<1>7. ASSUME NEW c \in Commands, Acts(c), job'[c].reconcile = TRUE PROVE Sound(Goods', plan'[c])
  <2> DEFINE h == Head(plan[c])
             r == Tail(plan[c])
             T == TameSteps(job[c])
             G == Goods
             N == Goods'
  <2>1. /\ Running(c) /\ (Ends(c, h) \/ GoesOn(c, h) \/ AddsTo(c, h)) /\ job' = job
        /\ job[c] \in Jobs /\ Tame(job[c], h) /\ r \in Seq(T) /\ plan[c] \in Seq(T) /\ plan[c] # <<>>
    BY <1>7, ActsGoOn, Effects, TameHead DEF Effect, Others, Base, JobsTyped, Tamed, Running
  <2>2. Sound(G, plan[c]) BY <1>4, <1>7, <2>1
  <2>3. \A i \in DOMAIN r : \A p \in Needs(r[i]) :
          p \in G \/ (\E k \in 1..(i - 1) : Provides(r[k], p)) \/ Provides(h, p)
    <3> HIDE DEF G, T
    <3> QED BY <2>1, <2>2, SoundTail
  <2>4. ASSUME NEW i \in DOMAIN r, NEW p \in Needs(r[i]) PROVE p \in Binaries \cup LinkParts
    <3> HIDE DEF T
    <3>1. r[i] \in T BY <2>1, <2>4
    <3>2. Tame(job[c], r[i]) BY <3>1 DEF T, TameSteps
    <3> HIDE DEF r
    <3> QED BY <2>1, <2>4, <3>2, NeedsWhat
  <2>5. \A i \in DOMAIN r : \A p \in Needs(r[i]) :
          p \in N \/ (\E k \in 1..(i - 1) : Provides(r[k], p)) \/ Provides(h, p)
    <3> HIDE DEF r, h, N, G
    <3>1. \A p \in Binaries \cup LinkParts : p \in G => p \in N BY <1>3 DEF G, N
    <3> QED BY <2>3, <2>4, <3>1
  <2>6. CASE Ends(c, h)
    <3>1. plan'[c] = <<>> /\ DOMAIN plan'[c] = {} BY <2>6 DEF Ends
    <3> QED BY <3>1 DEF Sound
  <2>7. CASE GoesOn(c, h)
    <3>1. plan'[c] = r /\ Passed(h) BY <2>7 DEF GoesOn
    <3>2. ASSUME NEW p \in Binaries \cup LinkParts, Provides(h, p) PROVE p \in N
      <4> HIDE DEF h
      <4> QED BY <1>0, <2>1, <3>1, <3>2, PassedProvides
    <3> HIDE DEF r, h, N
    <3>3. Sound(N, r) BY <2>4, <2>5, <3>2 DEF Sound
    <3> QED BY <3>1, <3>3 DEF N
  <2>8. CASE AddsTo(c, h)
    <3> HIDE DEF h, r, T, N
    <3>1. PICK steps : Adds(job[c], h, steps) /\ plan'[c] = steps \o r BY <2>8 DEF AddsTo, r
    <3>2. job[c].reconcile = TRUE BY <2>8 DEF AddsTo
    <3>3. /\ steps \in Seq(T) /\ h.does \in {"create", "repoint", "install"}
          /\ h.does = "create" => steps = <<Writes(h.part)>>
          /\ h.does = "repoint" => steps = <<Links(h.part)>>
          /\ h.does = "install" => steps \in Seq(Hauls(job[c])) /\ \E s \in ToSet(steps) : Provides(s, h.part)
      BY <2>1, <3>1, <3>2, Added DEF T
    <3>4. \A x \in ToSet(steps) : Needs(x) = {}
      <4>1. CASE h.does = "create"
        <5>1. ToSet(steps) = {Writes(h.part)} BY <3>3, <4>1, Sets
        <5>2. Writes(h.part).does = "write" BY Fields
        <5> QED BY <5>1, <5>2 DEF Needs
      <4>2. CASE h.does = "repoint"
        <5>1. ToSet(steps) = {Links(h.part)} BY <3>3, <4>2, Sets
        <5>2. Links(h.part).does = "link" BY Fields
        <5> QED BY <5>1, <5>2 DEF Needs
      <4>3. CASE h.does = "install"
        <5> DEFINE H == Hauls(job[c])
        <5>1. steps \in Seq(H) BY <3>3, <4>3
        <5> HIDE DEF H
        <5>2. ToSet(steps) \subseteq H BY <5>1, Members
        <5>3. \A x \in H : x.does \in {"fetch", "check", "place", "clear"} BY DEF H, Hauls
        <5> QED BY <5>2, <5>3 DEF Needs
      <4> QED BY <3>3, <4>1, <4>2, <4>3
    <3>5. \A p : Provides(h, p) => \E x \in ToSet(steps) : Provides(x, p)
      <4>1. ASSUME NEW p, Provides(h, p) PROVE \E x \in ToSet(steps) : Provides(x, p)
        <5>1. h.part = p /\ h.does \in {"repoint", "install"} BY <3>3, <4>1 DEF Provides
        <5>2. CASE h.does = "repoint"
          <6>1. Links(p) \in ToSet(steps) BY <3>3, <5>1, <5>2, Only
          <6>2. Provides(Links(p), p) BY Fields DEF Provides
          <6> QED BY <6>1, <6>2
        <5> QED BY <3>3, <5>1, <5>2
      <4> QED BY <4>1
    <3>6. \A i \in DOMAIN r : \A p \in Needs(r[i]) :
            p \in N \/ (\E k \in 1..(i - 1) : Provides(r[k], p)) \/ \E x \in ToSet(steps) : Provides(x, p)
      BY <2>5, <3>5
    <3>7. Sound(N, steps \o r) BY <2>1, <3>3, <3>4, <3>6, SoundJoins
    <3> QED BY <3>1, <3>7 DEF N
  <2> QED BY <2>1, <2>6, <2>7, <2>8
<1>8. ASSUME NEW c \in Commands, Acts(c) PROVE \A d \in Commands : job'[d].reconcile = TRUE => Sound(Goods', plan'[d])
  <2>1. \A d \in Commands : d # c => job'[d] = job[d] /\ plan'[d] = plan[d] BY <1>8, EndsOwn
  <2> QED BY <1>5, <1>7, <1>8, <2>1
<1>9. CASE World BY <1>5, <1>9, WorldKeeps
<1>10. CASE UNCHANGED vars BY <1>5, <1>10 DEF vars
<1> QED BY <1>6, <1>8, <1>9, <1>10, NextIs

\* What a bootstrap asks of a part in a guest nobody touched, whose last boot
\* provisioned it, it finds.
LEMMA Found ==
  ASSUME Base, Tamed, Guest, Ready, hands = 0, weak = FALSE, session # "stale", vm = "running",
         NEW c \in Commands, Running(c), job[c].reconcile = TRUE, job[c].backend = built
  PROVE  LET h == Head(plan[c]) IN
         /\ h.does = "prove" => IF h.part = "session" THEN session = "fresh" ELSE part[h.part] = "good"
         /\ h.does = "provePath" => part[h.part] \in {"good", "stricter"}
         /\ h.does = "proveOwner" => part[h.part] = "good"
         /\ h.does = "answer" => part[h.part] = "good" /\ part[h.from] = "good"
         /\ h.does = "create" => part[h.part] \in {"good", "absent"}
<1> DEFINE h == Head(plan[c])
           T == TameSteps(job[c])
           G == Goods
<1>1. Tame(job[c], h) /\ plan[c] \in Seq(T) /\ plan[c] # <<>> BY TameHead DEF Tamed, Running
<1>2. Sound(G, plan[c]) BY DEF Ready
<1>3. \A p \in Needs(h) : p \in G
  <2> HIDE DEF T, G
  <2> QED BY <1>1, <1>2, SoundTail
<1>a. GuestTyped BY DEF Base
<1> HIDE DEF h, T
<1>4. ASSUME h.does = "prove", h.part = "session" PROVE session = "fresh"
  BY <1>a DEF GuestTyped, Guest, SessionTold
<1>5. ASSUME h.does = "prove", h.part # "session" PROVE part[h.part] = "good"
  <2>1. h.part \in Parts \cup {"session"} /\ h.part \in Shown(built) \cup {"session"}
    BY <1>1, <1>5 DEF Tame, About, Idle
  <2>2. h.part \in Supplies(built) \cap Parts /\ h.part \notin Private BY <1>5, <2>1, Apart
  <2>3. Held(h.part) BY <2>2 DEF Guest, ShownRunning
  <2> QED BY <1>5, <2>2, <2>3 DEF Held
<1>6. ASSUME h.does = "provePath" PROVE part[h.part] \in {"good", "stricter"}
  <2>1. h.part \in Parts \cup {"session"} /\ h.part \in Supplies(built)
    BY <1>1, <1>6 DEF Tame, About, Idle
  <2>2. h.part \in Supplies(built) \cap Parts /\ h.part # "session" BY <2>1, Apart
  <2>3. Held(h.part) BY <2>2 DEF Guest, ShownRunning
  <2> QED BY <2>2, <2>3 DEF Held
<1>7. ASSUME h.does = "proveOwner" PROVE part[h.part] = "good" BY <1>3, <1>7 DEF Needs, Goods
<1>8. ASSUME h.does = "answer" PROVE part[h.part] = "good" /\ part[h.from] = "good"
  BY <1>3, <1>8 DEF Needs, Goods
<1>9. ASSUME h.does = "create" PROVE part[h.part] \in {"good", "absent"}
  <2>1. h.part \in Made /\ h.part \in Parts \cup {"session"} BY <1>1, <1>9 DEF Tame, About, Idle
  <2>2. h.part \in Parts /\ h.part \notin Scratch \cup Binaries \cup Private BY <2>1, Apart
  <2>3. part[h.part] \in Conditions /\ part[h.part] \notin {"stricter", "foreign", "drifted"}
    BY <1>a, <2>2 DEF GuestTyped, Guest, OwnStates, HandsOff
  <2> QED BY <2>3 DEF Conditions
<1> QED BY <1>4, <1>5, <1>6, <1>7, <1>8, <1>9 DEF h

\* A refusal is one of a probe that did not find its part.
LEMMA Refusals ==
  ASSUME Base, Ending, NEW c \in Commands, Acts(c), result'[c] = "refused", job[c].reconcile = TRUE,
         In(c, {"prove", "provePath", "proveOwner", "answer", "create", "repoint"})
  PROVE  LET h == Head(plan[c]) IN
         /\ vm = "running"
         /\ \/ h.does = "prove" /\ ~(IF h.part = "session" THEN session = "fresh" ELSE part[h.part] = "good")
            \/ h.does = "provePath" /\ part[h.part] \notin {"good", "stricter"}
            \/ h.does = "proveOwner" /\ part[h.part] # "good"
            \/ h.does = "answer" /\ (part[h.part] # "good" \/ part[h.from] # "good")
            \/ h.does = "create" /\ part[h.part] \notin {"good", "absent"}
<1> DEFINE h == Head(plan[c])
<1>0. Next1(c) = h /\ h.does \in {"prove", "provePath", "proveOwner", "answer", "create", "repoint"}
  BY DEF In, Next1
<1>1. ASSUME Advance(c) PROVE FALSE BY <1>1 DEF Advance, Base, JobsTyped
<1>2. ASSUME End(c, "failed") PROVE FALSE BY <1>2 DEF End, Base, JobsTyped
<1>a. ASSUME NEW steps, Insert(c, steps) PROVE FALSE BY <1>a DEF Insert, Ending, In
<1> HIDE DEF h
<1>3. ~Declare(c) /\ ~Make(c) /\ ~Boot(c) /\ ~Reconnect(c) /\ ~Halt(c)
  BY <1>0 DEF Declare, Make, Boot, Reconnect, Halt
<1>4. ~Write(c) /\ ~DownloadAbsent(c) /\ ~Fetch(c) /\ ~Check(c) /\ ~Place(c) /\ ~Clear(c)
  BY <1>0 DEF Write, DownloadAbsent, Fetch, Check, Place, Clear, In
<1>5. ~Fail(c) BY <1>2 DEF Fail
<1>6. CASE Prove(c)
  <2>1. ~Holds(c) /\ vm = "running" BY <1>0, <1>1, <1>6 DEF Prove
  <2>2. h.does \in {"prove", "provePath", "proveOwner"} BY <1>0, <1>6 DEF Prove, In
  <2> QED BY <1>0, <2>1, <2>2 DEF Holds, Condition, SessionCarries, h
<1>7. CASE Answer(c)
  <2>1. vm = "running" /\ h.does = "answer" /\ (part[h.part] # "good" \/ part[h.from] # "good")
    BY <1>0, <1>1, <1>7 DEF Answer, In, Condition
  <2> QED BY <2>1 DEF h
<1>8. CASE MakeAbsent(c)
  <2>1. vm = "running" /\ h.does = "create" /\ part[h.part] \notin {"good", "absent"}
    BY <1>0, <1>1, <1>a, <1>8 DEF MakeAbsent, In, Condition
  <2> QED BY <2>1 DEF h
<1>9. ~Repoint(c) BY <1>1, <1>a DEF Repoint
<1> QED BY <1>3, <1>4, <1>5, <1>6, <1>7, <1>8, <1>9 DEF Acts, GuestStep

LEMMA LeftStep ==
  ASSUME BootInv, Ready, [Next]_vars
  PROVE  [\A c \in Commands :
            /\ In(c, {"prove", "provePath", "proveOwner", "answer", "create", "repoint"})
            /\ job[c].reconcile /\ job[c].backend = built /\ result'[c] = "refused"
            => hands > 0 \/ weak \/ session = "stale"]_vars
<1>0. Base /\ Tamed /\ Guest /\ Ending BY DEF BootInv
<1> SUFFICES ASSUME ~UNCHANGED vars, NEW c \in Commands,
                    In(c, {"prove", "provePath", "proveOwner", "answer", "create", "repoint"}),
                    job[c].reconcile, job[c].backend = built, result'[c] = "refused",
                    ~(hands > 0), ~weak, session # "stale"
             PROVE  FALSE
  OBVIOUS
<1>1. Running(c) /\ result[c] = "none" BY <1>0 DEF In, Ending
<1>2. hands = 0 /\ weak = FALSE /\ job[c].reconcile = TRUE
  <2>1. hands \in 0..MaxHands /\ weak \in BOOLEAN /\ job[c].reconcile \in BOOLEAN
    BY <1>0 DEF Base, GuestTyped, JobsTyped, Jobs
  <2> QED BY <2>1, HandsAssumption
<1>3. Acts(c)
  <2>1. ASSUME NEW d \in Commands, Begins(d) PROVE FALSE BY <1>0, <1>1, <2>1, BeginGives
  <2>2. ~World BY <1>1, WorldKeeps
  <2>3. PICK d \in Commands : Acts(d) BY <2>1, <2>2, NextIs
  <2>4. d = c BY <1>0, <1>1, <2>3, EndsOwn
  <2> QED BY <2>3, <2>4
<1> DEFINE h == Head(plan[c])
<1>4. /\ vm = "running"
      /\ \/ h.does = "prove" /\ ~(IF h.part = "session" THEN session = "fresh" ELSE part[h.part] = "good")
         \/ h.does = "provePath" /\ part[h.part] \notin {"good", "stricter"}
         \/ h.does = "proveOwner" /\ part[h.part] # "good"
         \/ h.does = "answer" /\ (part[h.part] # "good" \/ part[h.from] # "good")
         \/ h.does = "create" /\ part[h.part] \notin {"good", "absent"}
  BY <1>0, <1>2, <1>3, Refusals
<1>5. /\ h.does = "prove" => IF h.part = "session" THEN session = "fresh" ELSE part[h.part] = "good"
      /\ h.does = "provePath" => part[h.part] \in {"good", "stricter"}
      /\ h.does = "proveOwner" => part[h.part] = "good"
      /\ h.does = "answer" => part[h.part] = "good" /\ part[h.from] = "good"
      /\ h.does = "create" => part[h.part] \in {"good", "absent"}
  BY <1>0, <1>1, <1>2, <1>4, Found
<1> HIDE DEF h
<1> QED BY <1>4, <1>5

\* Where commands that write do not overlap, nothing a stopped, failed or killed
\* command leaves behind makes a later bootstrap of the guest's own backend
\* refuse: a hand did, or a boot that could not provision, or the session of a
\* first boot (backends.Bootstrap, ApplyStep).
THEOREM RerunsAreNotRefused ==
  ASSUME Overlap = FALSE
  PROVE  Spec => LeftoversHarmless
<1>1. BootInv /\ [Next]_vars => BootInv' BY BootStep
<1>2. BootInv /\ BootInv' /\ Ready /\ [Next]_vars => Ready' BY ReadyStep DEF BootInv
<1>3. BootInv /\ Ready /\ [Next]_vars =>
        [\A c \in Commands :
            /\ In(c, {"prove", "provePath", "proveOwner", "answer", "create", "repoint"})
            /\ job[c].reconcile /\ job[c].backend = built /\ result'[c] = "refused"
            => hands > 0 \/ weak \/ session = "stale"]_vars
  BY LeftStep
<1> QED BY <1>1, <1>2, <1>3, BootInit, ReadyInit, PTL DEF Spec, LeftoversHarmless

LEMMA KeptStep ==
  ASSUME BootInv, [Next]_vars
  PROVE  /\ \A p \in Parts : part[p] = "drifted" /\ part'[p] # "drifted" =>
               \/ hands' # hands \/ vm' # vm
               \/ p \in LinkParts /\ \E c \in Commands : In(c, {"link"})
         /\ \A c \in Commands : Running(c) /\ ~job[c].reconcile /\ plan'[c] # plan[c] => UNCHANGED part
<1>0. Base /\ Tamed /\ Guest /\ Ending /\ Awaited /\ Scratch \subseteq Parts BY InParts DEF BootInv
<1>1. ASSUME NEW p \in Parts, part[p] = "drifted", part'[p] # "drifted", hands' = hands, vm' = vm
      PROVE  p \in LinkParts /\ \E c \in Commands : In(c, {"link"})
  <2>1. ~Quiet /\ ~Powers BY <1>1 DEF Quiet, Powers
  <2>2. ~Boots BY <1>0, <1>1, BootsMake DEF Boots
  <2>3. ~Tighten BY <1>0, <1>1, TightenMakes
  <2>4. ~Meddle BY <1>0, <1>1, MeddleMakes
  <2>5. PICK c \in Commands : Acts(c) /\ SetsOne(job[c], Head(plan[c]))
    BY <1>0, <2>1, <2>2, <2>3, <2>4, Turns
  <2> DEFINE h == Head(plan[c])
  <2>6. job[c] \in Jobs /\ Running(c) /\ h \in ToSet(plan[c])
    BY <1>0, <2>5, ActsGoOn, TameHead DEF Base, JobsTyped
  <2>7. /\ h.part \in Scratch \cup Made \cup Binaries \cup LinkParts
        /\ h.part \in Made => h.does = "write"
        /\ h.part \in LinkParts => h.does = "link"
        /\ h.part \in Binaries => h.does = "place"
        /\ \A q \in Parts : q # h.part => part'[q] = part[q]
    BY <1>0, <2>5, <2>6, SetsOwn
  <2>8. p = h.part BY <1>1, <2>7
  <2>9. h.part \notin Scratch BY <1>0, <1>1, <2>8 DEF Guest, ScratchKept
  <2>10. h.part \notin Made BY <1>0, <1>1, <2>6, <2>7, <2>8 DEF Awaited
  <2>11. h.part \notin Binaries BY <1>0, <1>1, <2>6, <2>7, <2>8 DEF Awaited
  <2>12. h.part \in LinkParts /\ h.does = "link" BY <2>7, <2>9, <2>10, <2>11
  <2> QED BY <2>6, <2>8, <2>12 DEF In, Next1
<1>2. ASSUME NEW c \in Commands, Running(c), job[c].reconcile = FALSE, plan'[c] # plan[c]
      PROVE  UNCHANGED part
  <2>1. ASSUME NEW d \in Commands, Begins(d) PROVE part' = part
    BY <1>0, <2>1, BeginGives DEF guestVars
  <2>2. ~World BY <1>2, WorldKeeps
  <2>3. ASSUME NEW d \in Commands, Acts(d) PROVE part' = part
    <3> DEFINE h == Head(plan[c])
    <3>1. d = c BY <1>0, <1>2, <2>3, EndsOwn
    <3>2. Tame(job[c], h) BY <1>0, <1>2, TameHead
    <3>3. job[c].op = "bootstrap" /\ h.does \notin Changers BY <1>2, <3>2 DEF Tame
    <3>4. h.does # "boot" BY <1>0, <1>2, <3>3, ByHead
    <3>5. Happens(job[c], h) BY <1>0, <2>3, <3>1, Effects DEF Effect
    <3> HIDE DEF h
    <3> QED BY <3>3, <3>4, <3>5 DEF Happens, SetsOne, Powers
  <2> QED BY <1>2, <2>1, <2>2, <2>3, NextIs DEF vars
<1>3. \A c \in Commands : ~job[c].reconcile => job[c].reconcile = FALSE BY <1>0 DEF Base, JobsTyped, Jobs
<1> QED BY <1>1, <1>2, <1>3

\* Where commands that write do not overlap, what has drifted is reported and
\* never repaired in place but for the command link, and by a boot; a run that
\* only verifies changes nothing (backends.createFile, VerifyOnly).
THEOREM DriftIsKept ==
  ASSUME Overlap = FALSE
  PROVE  Spec => DriftKept
<1>1. BootInv /\ [Next]_vars => BootInv' BY BootStep
<1>2. BootInv /\ [Next]_vars =>
        [/\ \A p \in Parts : part[p] = "drifted" /\ part'[p] # "drifted" =>
               \/ hands' # hands \/ vm' # vm
               \/ p \in LinkParts /\ \E c \in Commands : In(c, {"link"})
         /\ \A c \in Commands : Running(c) /\ ~job[c].reconcile /\ plan'[c] # plan[c] => UNCHANGED part]_vars
  BY KeptStep
<1> QED BY <1>1, <1>2, BootInit, PTL DEF Spec, DriftKept
=============================================================================
