CONSTANTS
  bufferSize = 3
  HeightBits = 3
  d1 = d1
  d2 = d2
  Data <- MCData
  Nil = Nil
SYMMETRY MCSymmetry
SPECIFICATION Spec
INVARIANTS
  TypeOK
  RingHoldsLastHeights
  ReadReturnsWindow
