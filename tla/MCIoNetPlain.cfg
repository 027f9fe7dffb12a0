SPECIFICATION FairNetSpec
CONSTANTS
  l = l
  a = a
  b = b
  none = none
  Nobody = none
  Watchers = {l, a, b}
  Events <- MCEvents
  Listeners = {l}
  Clients = {a}
  Accepted = {b}
  Datagrams = {}
  SslNets = {}
  Fds = {1, 2}
  FreshSsl = {"null"}
INVARIANTS
  NetTypeOK
  DescriptorsOwned
  NoUseAfterClose
  ClosedMeansGone
  TxScheduledIffTold
PROPERTIES
  ImplementsSocketPromise
  FailureReported
  TxEventComes
