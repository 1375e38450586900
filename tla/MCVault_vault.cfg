\* Two commands, dead holders recovered, the agent still from the copy on.
SPECIFICATION Spec
CONSTANTS
  c1 = c1
  c2 = c2
  Commands <- TwoCommands
  Asks <- AllAsks
  Writes <- BothFiles
  Races <- None
  Quiet = TRUE
SYMMETRY Symmetric
VIEW Live
INVARIANT TypeOK
INVARIANT NeverHalf
INVARIANT NotesKept
PROPERTY ReportIsTrue
