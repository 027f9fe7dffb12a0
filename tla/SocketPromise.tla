--------------------------- MODULE SocketPromise ---------------------------
(***************************************************************************)
(* What io_net.h promises the program that hands it a callback: which of   *)
(* the events of io_net_event_enum_t a connection is told in which part of *)
(* its life, and that it is told none after the program has closed it,     *)
(* although the handlers hold the object while they call the program.      *)
(***************************************************************************)
CONSTANTS
  Nets,      \* the io_net_t objects
  Nobody,    \* no object
  Outcomes   \* the events that tell how a connect ended

VARIABLES
  life,    \* per object, the part of its life it is in
  told     \* the object whose callback runs and the event it is told

vars == << life, told >>

Lives == { "closed", "listening", "connecting", "handshaking", "open", "datagram" }

Idle == [ net |-> Nobody, ev |-> "none" ]

Init ==
  /\ life = [n \in Nets |-> "closed"]
  /\ told = Idle

\* io_net_bind, io_net_connect, io_net_udp
Open(n) ==
  /\ life[n] = "closed"
  /\ life' \in { [life EXCEPT ![n] = l] : l \in { "listening", "connecting", "datagram" } }
  /\ UNCHANGED told

\* io_net_close, by the program when it likes, in a callback too
Close(n) ==
  /\ life[n] # "closed"
  /\ life' = [life EXCEPT ![n] = "closed"]
  /\ UNCHANGED told

\* The events of a part of the life.  How a connect ended may be told once
\* for every time the kernel reports it.
ToldIn(l) ==
  CASE l = "listening"   -> { "alloc_connection" }
    [] l = "connecting"  -> Outcomes
    [] l = "handshaking" -> { "handshaken", "closed" }
    [] l = "open"        -> { "rx", "tx", "closed" }
    [] l = "datagram"    -> { "rx" }
    [] OTHER             -> {}

\* Where an event takes the object it is told
After(l, ev) ==
  CASE l = "connecting"    -> { "connecting", "handshaking", "open" }
    [] ev = "handshaken"   -> { "open" }
    [] OTHER               -> { l }

Tell(n) ==
  /\ told = Idle
  /\ \E ev \in ToldIn(life[n]), l \in Lives :
       /\ l \in After(life[n], ev)
       /\ told' = [ net |-> n, ev |-> ev ]
       /\ life' = [life EXCEPT ![n] = l]

\* A connection that was accepted: the listener was told alloc_connection,
\* whatever it did in there, and answers with an object.
Admit(n) ==
  /\ told.ev = "alloc_connection" /\ life[n] = "closed"
  /\ told' = [ net |-> n, ev |-> "connected" ]
  /\ life' \in { [life EXCEPT ![n] = l] : l \in { "handshaking", "open" } }

Return ==
  /\ told # Idle
  /\ told' = Idle
  /\ UNCHANGED life

\* Most steps of a handler change nothing of this, which is looked at first.
Next ==
  /\ vars' # vars
  /\ Return \/ \E n \in Nets : Open(n) \/ Close(n) \/ Tell(n) \/ Admit(n)

Spec == Init /\ [][Next]_vars
=============================================================================
