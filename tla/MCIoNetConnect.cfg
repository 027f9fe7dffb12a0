SPECIFICATION FairNetSpec
CONSTANTS
  l = l
  a = a
  b = b
  none = none
  Nobody = none
  Watchers = {a, b}
  Events <- MCEvents
  Listeners = {}
  Clients = {a, b}
  Accepted = {}
  Datagrams = {}
  SslNets = {}
  Fds = {1, 2}
  FreshSsl = {"null"}
PROPERTIES
  KeepsHeaderPromise
