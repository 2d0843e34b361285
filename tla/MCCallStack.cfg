SPECIFICATION Spec
CONSTANTS
  f = f
  g = g
  Functions <- MCFunctions
  Entry = f
  Length <- MCLength
  Handlers <- MCHandlers
  MaxFrames = 4
  MaxNativeDepth = 2
INVARIANTS
  BoundariesNested
  SuspendedAtCall
PROPERTIES
  InnermostHandler
  NoHandlerSkipped
  CallersUntouched
CHECK_DEADLOCK FALSE
