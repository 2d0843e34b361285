\* Diamonds, cycles, overlapping packages and every error of an import.
CONSTANTS
  main = main  a = a  b = b  c = c  locked = locked
  pb = pb  pl = pl  pe = pe  x = x  y = y
  Files = {main, a, b, c, locked}
  Packages = {pb, pl, pe}
  Missing = Missing
  Aliases = {x, y}
  Members <- MembersDef
  Unreadable = {locked}
  Allowed <- AllowedDef
  Tables <- TablesDef
  Entries = {main, pb}
SPECIFICATION Spec
INVARIANTS
  StackMatchesStates
  DependenciesFirst
  LoadsReachable
  CyclesReported
PROPERTIES
  Ends
  ApproachesEnd
CHECK_DEADLOCK FALSE
