\* Two projects are added, corrected and removed at once: the registry.
SPECIFICATION Spec
CONSTANTS
  b1 = b1
  b2 = b2
  p1 = p1
  p2 = p2
  r1 = r1
  r2 = r2
  c1 = c1
  c2 = c2
  Local = Local
  NoEntry = NoEntry
  Bundle = Bundle
  MaxProjects = 2
  Boxes <- OneBox
  Projects <- TwoProjects
  Remotes <- TwoRemotes
  Commands <- TwoCommands
  Sources <- AllSources
  SameProject = FALSE
  Hands = "never"
SYMMETRY Symmetric
INVARIANT RemotesUnique
PROPERTY RegistryKept
PROPERTY RecordedLast
