SPECIFICATION FairTelnetSpec
CONSTANTS
  Plain = {"x"}
  BufferSize = 1
  RxSize = 3
  MaxWire = 6
INVARIANTS
  TelnetIInv
  DataInOrder
  NothingHeldBack
PROPERTIES
  DataArrives
