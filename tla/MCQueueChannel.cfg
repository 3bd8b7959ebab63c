CONSTANTS
  Cell = {c1, c2, c3}
  Null = Null
  Label = {"a", "b", "c"}
  Value = {v1, v2}
  MaxDepth = 2
SPECIFICATION Spec
INVARIANTS WellFormed SameAsDefault
PROPERTY QueueIsMedia
CHECK_DEADLOCK FALSE
SYMMETRY Cells
