\* Two commands on one project of one box, and others before and after them.
SPECIFICATION Spec
CONSTANTS
  b1 = b1
  b2 = b2
  p1 = p1
  p2 = p2
  r1 = r1
  r2 = r2
  c1 = c1
  c2 = c2
  Local = Local
  NoEntry = NoEntry
  Bundle = Bundle
  MaxProjects = 2
  Boxes <- OneBox
  Projects <- OneProject
  Remotes <- TwoRemotes
  Commands <- TwoCommands
  Sources <- AllSources
  SameProject = TRUE
  Hands = "quiet"
SYMMETRY Symmetric
INVARIANT TypeOK
PROPERTY CheckoutsKept
