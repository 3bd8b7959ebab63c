SPECIFICATION Spec
CONSTANTS
  Scenes <- ScenesDef
  Labels = {"a", "b", "c"}
  NoVar = {"c"}
CHECK_DEADLOCK FALSE
INVARIANTS HistoryIsPath Restored InStep
PROPERTIES NoStaleValue OpEnds
