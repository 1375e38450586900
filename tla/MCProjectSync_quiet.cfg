\* Two boxes meet in one project, main and a tag, agents still during a sync.
SPECIFICATION Spec
CONSTANTS
  b1 = b1
  b2 = b2
  p1 = p1
  p2 = p2
  s1 = s1
  s2 = s2
  Boxes <- TwoBoxes
  Projects <- OneProject
  Refs <- MainAndOther
  Tags <- JustOther
  Main = 1
  Syncs <- OneSync
  MaxCommits = 2
  Overlap <- Empty
  Quiet = TRUE
SYMMETRY Symmetric
VIEW Live
INVARIANT TypeOK
INVARIANT WorktreeFollowsBranch
INVARIANT ReportIsTrue
PROPERTY GuestMovesForward
PROPERTY HubMovesForward
