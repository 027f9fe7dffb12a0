SPECIFICATION NetSpec
CONSTANTS
  l = l
  a = a
  b = b
  none = none
  Nobody = none
  Watchers = {l, a, b}
  Events <- MCEvents
  Listeners = {l}
  Clients = {a}
  Accepted = {b}
  Datagrams = {b}
  SslNets = {l, a}
  Fds = {1, 2}
  FreshSsl = {"null"}
INVARIANTS
  NetIInv
PROPERTIES
  ImplementsSocketPromise
