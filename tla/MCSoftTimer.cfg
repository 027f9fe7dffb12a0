SPECIFICATION FairPointerSpec
CONSTANTS
  t1 = t1
  t2 = t2
  t3 = t3
  head = head
  none = none
  timeout_head = head
  null = none
  Timers <- MCTimers
  NumBuckets = 2
  TickMod = 6
  TickRate = 10
  Expires = {5, 20, 31}
INVARIANTS
  TypeOK
  WheelConsistent
  NoneWaitsTooLong
  PointersAgree
PROPERTIES
  ImplementsPromise
  TimersFire
