SPECIFICATION Spec
CONSTANTS
  OSENV_MAX_DEPTH = 3
  MaxFrames = 4
  FileSystem <- MCFileSystem
  Sessions <- MCSessions
  Primitive <- MCPrimitive
INVARIANTS TypeOK StdinAtBottom RelativeToFile ClosedAtExit
PROPERTIES InclusionSpec PromptAgain
CHECK_DEADLOCK FALSE
