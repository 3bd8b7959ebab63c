CONSTANTS
  Nil = Nil
  Height = 7
  Bound = {"line"}
  BreakPoints = {"line"}
  Label = {"a", "b", "c"}
  Shadows = TRUE
  Procs <- MCProcs
  Forms <- FiniteForms
  DEPTH_LIMIT = 6
  MAX_COUNTEREXAMPLES = 3
  ACC_WEAKLY = FALSE
  MaxForms = 1
SPECIFICATION Spec
INVARIANTS TrueMeansCycle
CHECK_DEADLOCK FALSE
