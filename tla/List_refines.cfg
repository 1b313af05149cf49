SPECIFICATION Spec
CONSTANTS
  Node = {a1, a2, a3, a4}
  a1 = a1
  a2 = a2
  a3 = a3
  a4 = a4
  Data = {x, y, z}
  x = x
  y = y
  z = z
  NULL = NULL
INVARIANT TypeOK
INVARIANT WellLinked
PROPERTY ImplementsListSpec
SYMMETRY Addresses
CHECK_DEADLOCK FALSE
