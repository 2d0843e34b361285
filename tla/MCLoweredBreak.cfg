\* A loop inside try and finally: the documentation's claim that the tree
\* walker is the reference does not hold for the lowered program.
CONSTANTS
  Programs <- BreakingBodies
  MaxDecisions = 3
  MaxTrace = 24
SPECIFICATION Spec
INVARIANT AgreesWithTreeWalk
CHECK_DEADLOCK FALSE
