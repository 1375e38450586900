\* One command at a time on one box, with stops, boots and one change by hand anywhere.
SPECIFICATION Spec
CONSTANTS
  c1 = c1
  Commands <- OneCommand
  Flags <- Named
  Touchable <- SomeParts
  MaxHands = 1
  Overlap = FALSE
INVARIANT TypeOK
INVARIANT DeclaredIsBuilt
INVARIANT BootstrapIsTrue
INVARIANT InstalledVerified
PROPERTY DriftKept
PROPERTY LeftoversHarmless
