SPECIFICATION FairPipeSpec
CONSTANTS
  p = p
  q = q
  Pipes = {p, q}
  Fed = {p}
  Watchers <- MCWatchers
  Events <- MCEvents
  Fds = {1, 2, 3, 4, 5, 6}
  FreshDriver = {"set"}
  MaxOut = 2
INVARIANTS
  PipeIInv
  WaitsForTheEnding
  PipesOwned
PROPERTIES
  EndIsTold
