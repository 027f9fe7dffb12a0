SPECIFICATION PipeSpec
CONSTANTS
  p = p
  q = q
  Pipes = {p}
  Fed = {p}
  Watchers <- MCWatchers
  Events <- MCEvents
  Fds = {1, 2, 3, 4}
  FreshDriver = {"null"}
  MaxOut = 1
CHECK_DEADLOCK FALSE
INVARIANT TxIsScheduled
