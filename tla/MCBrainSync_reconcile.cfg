\* Two boxes, each synced at any time; nobody edits the files of a stopped merge.
SPECIFICATION Spec
CONSTANTS
  b1 = b1  b2 = b2
  n1 = n1
  s1 = s1  s2 = s2
  Boxes <- TwoBoxes
  Notes <- OneNote
  Markers = Markers
  Syncs <- TwoSyncs
  Meddle = FALSE
SYMMETRY Symmetric
INVARIANTS TypeOK ReportIsTrue
PROPERTIES MarkersNeedAStop NotesKept
