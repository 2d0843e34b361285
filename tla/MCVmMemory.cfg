SPECIFICATION Spec
CONSTANTS
  Cells = {c1, c2, c3}
  Registers = {r1}
  FirstRegister = r1
  Null = Null
  MaxFrames = 3
  MaxNatives = 2
  MaxHeld = 1
SYMMETRY AddressSymmetry
INVARIANTS
  FramesIntact
  NativesIntact
  HeapIntact
PROPERTIES
  OneBoxForGood
CHECK_DEADLOCK FALSE
