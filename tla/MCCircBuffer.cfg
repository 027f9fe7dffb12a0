SPECIFICATION Spec
CONSTANTS
  x = x
  y = y
  Bytes <- MCBytes
  Size = 4
  MaxLen = 5
INVARIANTS
  TypeOK
PROPERTIES
  ImplementsFifo
