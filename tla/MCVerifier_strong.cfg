CONSTANTS
  Nil = Nil
  Height = 7
  Bound = {"line"}
  BreakPoints = {"line"}
  Label = {"a", "b", "c"}
  Shadows = TRUE
  Procs <- MCProcs
  Forms <- StrongForms
  DEPTH_LIMIT = 6
  MAX_COUNTEREXAMPLES = 1000
  ACC_WEAKLY = FALSE
  MaxForms = 1
SPECIFICATION Spec
INVARIANTS Explored Verdict
CHECK_DEADLOCK FALSE
