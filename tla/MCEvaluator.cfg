CONSTANTS
  Nil = Nil
  Height = 7
  Bound = {"line"}
  BreakPoints = {"line"}
  Shadows = FALSE
  Procs <- MCProcs
  Label <- MCLabel
  Input <- MCInput
  Programs <- AllPrograms
  Typings <- MCTypings
SPECIFICATION FairSpec
INVARIANTS OneHole StuckWhenReturned NoError
PROPERTIES ProcessesSpec Progress
CHECK_DEADLOCK FALSE
