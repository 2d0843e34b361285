\* A file imported on its own and as part of its package.
CONSTANTS
  main = main  a = a  b = b  c = c  locked = locked
  pb = pb  pl = pl  pe = pe  x = x  y = y
  Files = {main, a, b, c, locked}
  Packages = {pb, pl, pe}
  Missing = Missing
  Aliases = {x, y}
  Members <- MembersDef
  Unreadable = {locked}
  Allowed <- AllowedDef
  Tables <- OverlappingTables
  Entries = {main}
SPECIFICATION Spec
INVARIANT FilesLoadedOnce
CHECK_DEADLOCK FALSE
