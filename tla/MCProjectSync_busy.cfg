\* Agents move, make and delete branches while a sync runs and, beside it, an
\* attachment that looks at the same HEAD.
SPECIFICATION Spec
CONSTANTS
  b1 = b1
  b2 = b2
  p1 = p1
  p2 = p2
  s1 = s1
  s2 = s2
  Boxes <- TwoBoxes
  Projects <- OneProject
  Refs <- MainAndOther
  Tags <- Empty
  Main = 1
  Syncs <- OneSync
  MaxCommits = 1
  Overlap <- Beside
  Quiet = FALSE
SYMMETRY Symmetric
VIEW Live
PROPERTY HubHeadResolves
