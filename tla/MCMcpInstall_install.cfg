\* Installs and logins of two services over one change of release and of
\* policy, with stops, crashes and boots anywhere.
SPECIFICATION Spec
CONSTANTS
  c1 = c1
  c2 = c2
  s1 = s1
  s2 = s2
  Commands <- TwoCommands
  Services <- TwoServices
  Backend = "codex"
  MaxReleases = 2
  MaxEdits = 2
  MaxHands = 1
  Overlap = FALSE
SYMMETRY Symmetric
INVARIANT TypeOK
INVARIANT InstallIsTrue
INVARIANT LastLoginActivates
INVARIANT CustodyFirst
PROPERTY LeftAlone
