SPECIFICATION NetSpec
CONSTANTS
  l = l
  a = a
  b = b
  none = none
  Nobody = none
  Watchers = {l, a}
  Events <- MCEvents
  Listeners = {l}
  Clients = {}
  Accepted = {a}
  Datagrams = {}
  SslNets = {}
  Fds = {1, 2}
  FreshSsl = {"null", "garbage"}
INVARIANTS
  FieldsSet
