\* Two projects, two boxes, two syncs at once that share neither.
SPECIFICATION Spec
CONSTANTS
  b1 = b1
  b2 = b2
  p1 = p1
  p2 = p2
  s1 = s1
  s2 = s2
  Boxes <- TwoBoxes
  Projects <- TwoProjects
  Refs <- JustMain
  Tags <- Empty
  Main = 1
  Syncs <- TwoSyncs
  MaxCommits = 1
  Overlap <- Empty
  Quiet = TRUE
SYMMETRY Symmetric
VIEW Live
INVARIANT EachProjectApart
