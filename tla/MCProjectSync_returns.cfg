\* Two syncs of one checkout at once, agents at work: both return.
SPECIFICATION FairSpec
CONSTANTS
  b1 = b1
  b2 = b2
  p1 = p1
  p2 = p2
  s1 = s1
  s2 = s2
  Boxes <- OneBox
  Projects <- OneProject
  Refs <- JustMain
  Tags <- Empty
  Main = 1
  Syncs <- TwoSyncs
  MaxCommits = 1
  Overlap <- SameBoth
  Quiet = FALSE
PROPERTY SyncReturns
