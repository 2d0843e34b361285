\* Three statements around one exit, three decisions that may go either way.
CONSTANTS
  Programs <- StructuredBodies
  MaxDecisions = 3
  MaxTrace = 24
SPECIFICATION Spec
INVARIANTS
  Verified
  InnerRegionsFirst
  AgreesWithTreeWalk
PROPERTY Ends
CHECK_DEADLOCK FALSE
