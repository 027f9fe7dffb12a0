SPECIFICATION FairDnsSpec
CONSTANTS
  d1 = d1
  d2 = d2
  timer = timer
  none = none
  Nothing = none
  Lookups = {d1, d2}
  TimerWatcher = timer
  Watchers = {d1, d2, timer}
  Events <- MCEvents
  Fds = {0, 1, 2}
  TimerFd = 0
  NumBuckets = 2
  TickMod = 4
  TickRate = 10
  Timeout = 20
INVARIANTS
  DnsIInv
  ArmedWhilePending
  SocketsOwned
  ListsSurvive
PROPERTIES
  LookupEnds
