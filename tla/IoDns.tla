------------------------------- MODULE IoDns -------------------------------
(***************************************************************************)
(* io_dns.c: a lookup sends its query on a UDP socket of its own, starts a *)
(* timer, and ends with whichever comes first, a datagram or the timeout.  *)
(* Here it meets the two components it stands on: the select loop of       *)
(* IoDriver.tla, which runs io_timer.c's timerfd as one more watcher, and  *)
(* the timer wheel of SoftTimer.tla, which that watcher drives.            *)
(*                                                                         *)
(* A lookup d names the io_dns_t, the watcher of its socket and its timer. *)
(***************************************************************************)
EXTENDS IoDriver, Naturals

CONSTANTS
  Lookups,       \* the io_dns_t objects
  TimerWatcher,  \* the watcher of io_timer_t
  TimerFd,       \*   and its timerfd
  Nothing,       \* no lookup
  NumBuckets, TickMod, TickRate,
  Timeout        \* cfg->timeout * 1000

VARIABLES
  tick, buckets, elem_tick, timeout_list, scan, wheel, firing,
                 \* SoftTimer's variables, wheel being its phase
  inbox,         \* per descriptor: what recvfrom, or read on the timerfd, finds
  pending,       \* the lookups that were started and have not ended
  told           \* the lookup whose callback runs, or Nothing

Wheel == INSTANCE SoftTimer WITH Timers <- Lookups, Expires <- {Timeout}, phase <- wheel

driverVars == << drv, fd, sets, phase, call >>
wheelVars == << tick, buckets, elem_tick, timeout_list, scan, wheel, firing >>
dnsVars == << inbox, pending, told >>
allVars == << driverVars, wheelVars, dnsVars >>

\* A datagram, whoever sent it (the id is 0 in every query and not looked at
\* in an answer); recvfrom returns its bytes, or 0 or -1 when it is void.
Datagrams == { "datagram", "void" }

ASSUME IoDnsAssumption ==
  /\ "RX" \in Events
  /\ Watchers = Lookups \cup {TimerWatcher}
  /\ TimerWatcher \notin Lookups /\ Nothing \notin Lookups
  /\ Fds \subseteq Nat /\ TimerFd \in Fds
  /\ Wheel!SoftTimerAssumption

DnsTypeOK ==
  /\ TypeOK
  /\ Wheel!TypeOK
  /\ inbox \in [Fds -> Datagrams \cup { "expired", "empty", "closed" }]
  /\ pending \subseteq Lookups
  /\ told \in Lookups \cup {Nothing}

-----------------------------------------------------------------------------
\* io_driver_init, io_timer_init
DnsInit ==
  /\ drv = Watch(DriverInit, TimerWatcher, { "RX" })
  /\ fd = [w \in Watchers |-> TimerFd]
  /\ sets = NoSets
  /\ phase = "app"
  /\ call = NoCall
  /\ Wheel!Init
  /\ inbox = [f \in Fds |-> IF f = TimerFd THEN "empty" ELSE "closed"]
  /\ pending = {}
  /\ told = Nothing

\* The program's code: before the loop, and in the callbacks of lookups
Program == phase = "app" \/ told # Nothing

FreeFds == { f \in Fds : inbox[f] = "closed" }

NewFd == CHOOSE f \in FreeFds : \A g \in FreeFds : f <= g

\* io_dns_lookup_ipv4: io_net_udp, soft_timer_init_elem, io_net_udp_tx and
\* io_timer_start.  A call that fails closes what it opened.
Lookup(d) ==
  /\ Program
  /\ d \notin pending /\ FreeFds # {}
  /\ fd' = [fd EXCEPT ![d] = NewFd]
  /\ drv' = Watch(drv, d, { "RX" })
  /\ inbox' = [inbox EXCEPT ![NewFd] = "empty"]
  /\ Wheel!Add(d, Timeout)
  /\ pending' = pending \cup {d}
  /\ UNCHANGED << sets, phase, call, told >>

-----------------------------------------------------------------------------
DatagramArrives(f) ==
  /\ f # TimerFd /\ inbox[f] = "empty"
  /\ \E m \in Datagrams : inbox' = [inbox EXCEPT ![f] = m]
  /\ UNCHANGED << driverVars, wheelVars, pending, told >>

TimerfdExpires ==
  /\ inbox[TimerFd] = "empty"
  /\ inbox' = [inbox EXCEPT ![TimerFd] = "expired"]
  /\ UNCHANGED << driverVars, wheelVars, pending, told >>

Select ==
  /\ SelectReady
  /\ sets' = [NoSets EXCEPT !["RX"] = { f \in Asked("RX") : inbox[f] # "empty" }]
  /\ UNCHANGED << wheelVars, dnsVars >>

Dispatch == DispatchNext /\ UNCHANGED << wheelVars, dnsVars >>

RoundOver == DispatchDone /\ UNCHANGED << wheelVars, dnsVars >>

\* In the callback of the watcher w, before it has done anything
Called(w) == phase = "callback" /\ call[w] # {} /\ told = Nothing /\ wheel = "app"

-----------------------------------------------------------------------------
\* A faulty variant: the socket stays registered after the timeout.
CloseLater(d) == UNCHANGED << drv, inbox >>

\* io_net_close on the socket of d
Close(d) ==
  /\ drv' = NoWatch(drv, d, Events)
  /\ inbox' = [inbox EXCEPT ![fd[d]] = "closed"]

\* A faulty variant: the timer runs on after an answer.
TimerRunsOn(d) == UNCHANGED wheelVars

\* io_timer_stop
StopTimer(d) ==
  \/ Wheel!Del(d)
  \/ ~Wheel!IsRunning(d) /\ UNCHANGED wheelVars

Tell(d) == pending' = pending \ {d} /\ told' = d

\* io_net_udp_callback returns without an event when recvfrom fails.
NothingReceived(d) ==
  /\ Called(d)
  /\ inbox[fd[d]] # "datagram"
  /\ inbox' = [inbox EXCEPT ![fd[d]] = "empty"]
  /\ CallbackReturn
  /\ UNCHANGED << wheelVars, pending, told >>

\* io_net_udp_callback and io_dns_rx_callback: what the datagram holds
\* decides between got_result and error, and either ends the lookup.
Received(d) ==
  /\ Called(d)
  /\ inbox[fd[d]] = "datagram"
  /\ Close(d) /\ StopTimer(d) /\ Tell(d)
  /\ UNCHANGED << fd, sets, phase, call >>

\* io_timer_tick_callback
TimerTick ==
  /\ Called(TimerWatcher)
  /\ Wheel!Drive
  /\ inbox' = [inbox EXCEPT ![TimerFd] = "empty"]
  /\ UNCHANGED << driverVars, pending, told >>

Scan ==
  /\ Wheel!ScanNext \/ Wheel!ScanDone
  /\ UNCHANGED << driverVars, dnsVars >>

\* timer_tick calls io_dns_timeout_callback
TimedOut(d) ==
  /\ Wheel!Expire
  /\ firing' = {d}
  /\ Close(d) /\ Tell(d)
  /\ UNCHANGED << fd, sets, phase, call >>

\* The lookup's callback returns, in io_dns_rx_callback
ReceivedReturns ==
  /\ told # Nothing /\ wheel = "app"
  /\ told' = Nothing
  /\ CallbackReturn
  /\ UNCHANGED << wheelVars, inbox, pending >>

\*   or in io_dns_timeout_callback.
TimedOutReturns ==
  /\ told # Nothing
  /\ told' = Nothing
  /\ Wheel!CallbackReturn
  /\ UNCHANGED << driverVars, inbox, pending >>

TickReturns ==
  /\ Wheel!TickDone
  /\ CallbackReturn
  /\ UNCHANGED dnsVars

-----------------------------------------------------------------------------
Callbacks ==
  \/ \E d \in Lookups : Received(d) \/ NothingReceived(d) \/ TimedOut(d)
  \/ TimerTick \/ Scan
  \/ ReceivedReturns \/ TimedOutReturns \/ TickReturns

DnsNext ==
  \/ \E d \in Lookups : Lookup(d)
  \/ \E f \in Fds : DatagramArrives(f)
  \/ TimerfdExpires
  \/ Select \/ Dispatch \/ RoundOver
  \/ Callbacks

DnsSpec == DnsInit /\ [][DnsNext]_allVars

\* The timerfd expires again and again, the program calls io_driver_run for
\* ever, and the loop and the callbacks are straight-line code.
FairDnsSpec ==
  /\ DnsSpec
  /\ WF_allVars(TimerfdExpires) /\ WF_allVars(Select)
  /\ WF_allVars(Dispatch) /\ WF_allVars(RoundOver) /\ WF_allVars(Callbacks)

-----------------------------------------------------------------------------
\* A lookup that is pending has its socket open and registered and its timer
\* in the wheel; one that has ended has neither.  So neither a late datagram
\* nor a late timeout reaches it, even when both were ready in the same
\* round, and its object can be used for the next lookup.
ArmedWhilePending ==
  \A d \in Lookups :
    /\ d \in pending <=> Registered(drv, d)
    /\ d \in pending <=> Wheel!IsRunning(d)
    /\ d \in pending => inbox[fd[d]] # "closed"

\* No descriptor outlives its lookup.
SocketsOwned ==
  /\ { f \in Fds \ {TimerFd} : inbox[f] # "closed" } = { fd[d] : d \in pending }
  /\ \A c, d \in pending : c # d => fd[c] # fd[d]

\* The lists of the driver and of the wheel survive lookups that are started
\* in the callbacks of others, in the middle of a round and of a tick.
ListsSurvive == Consistent /\ Wheel!WheelConsistent

\* Every lookup ends, answered or not.
LookupEnds == \A d \in Lookups : (d \in pending) ~> (told = d)
-----------------------------------------------------------------------------
(* The inductive invariant *)

\* The timer's tick, and the callback of a lookup, are parts of a callback
\* of the loop; inside a tick a lookup is told exactly while its timeout runs.
CallbacksNest ==
  /\ phase # "callback" => call = NoCall /\ wheel = "app" /\ told = Nothing
  /\ wheel # "app" => (wheel = "callback" <=> told # Nothing)

\* Whoever the loop calls for a datagram is pending, until it has taken it.
CalledIsPending ==
  phase = "callback" /\ wheel = "app" /\ told = Nothing =>
    \A d \in Lookups : call[d] # {} => d \in pending

\* Beside the lists of the driver and the wheel: what a handler finds when
\* it is called, in whatever order answers, timeouts and lookups come.
DnsIInv ==
  /\ DnsTypeOK
  /\ Wheel!IInv
  /\ Consistent /\ (phase = "app" => drv.run_list = EmptyList)
  /\ inbox[TimerFd] # "closed"
  /\ ArmedWhilePending
  /\ SocketsOwned
  /\ CallbacksNest
  /\ CalledIsPending
=============================================================================
