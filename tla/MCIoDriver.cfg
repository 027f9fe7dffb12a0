SPECIFICATION FairPointerSpec
CONSTANTS
  w1 = w1
  w2 = w2
  w3 = w3
  fd1 = fd1
  fd2 = fd2
  RX = RX
  TX = TX
  h1 = h1
  h2 = h2
  watchers_head = h1
  run_head = h2
  Watchers <- MCWatchers
  Fds <- MCFds
  Events <- MCEvents
INVARIANTS
  TypeOK
  Consistent
  PointersAgree
PROPERTIES
  ImplementsPromise
  RoundEnds
