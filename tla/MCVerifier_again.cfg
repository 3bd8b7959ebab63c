CONSTANTS
  Nil = Nil
  Height = 7
  Bound = {"line"}
  BreakPoints = {"line"}
  Label = {"a", "b", "c"}
  Shadows = TRUE
  Procs <- MCProcs
  Forms <- AgainForms
  DEPTH_LIMIT = 4
  MAX_COUNTEREXAMPLES = 3
  ACC_WEAKLY = TRUE
  MaxForms = 2
SPECIFICATION FairSpec
INVARIANTS Verdict TruncatedOnlyWhenStuck
PROPERTY SearchEnds
CHECK_DEADLOCK FALSE
