CONSTANTS
  Label = {la, lb}
  Outer = {key}
  Value = {v1, v2}
  Nil = Nil
  MaxSends = 3
SPECIFICATION Spec
INVARIANTS Bound NotVanishBeforeOuter
PROPERTY MediaUntilOuter
CHECK_DEADLOCK FALSE
