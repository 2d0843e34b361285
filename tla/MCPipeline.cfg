SPECIFICATION MCSpec
CONSTANTS
  Builtins <- MCBuiltins
  NativeFunctions <- MCNativeFunctions
  NativeMemberFunctions <- MCNativeMemberFunctions
  LiteralValues <- MCLiteralValues
INVARIANTS
  RoundTrip
  AcceptedIsRun
PROPERTIES
  Advances
CHECK_DEADLOCK FALSE
