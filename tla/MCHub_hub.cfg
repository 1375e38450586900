\* Two boxes, the keys of one short sitting.
SPECIFICATION Spec
CONSTANTS
  b1 = b1
  b2 = b2
  Boxes <- TwoBoxes
  Starts <- SomeStarts
  MaxKeys = 4
  MaxJobs = 3
INVARIANT TypeOK
INVARIANT OneOperation
INVARIANT FactsAreTheBox
CHECK_DEADLOCK FALSE
