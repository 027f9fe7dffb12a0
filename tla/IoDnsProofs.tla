----------------------------- MODULE IoDnsProofs -----------------------------
(***************************************************************************)
(* What io_dns.c keeps true of its lookups, their sockets and their        *)
(* timers, for any number of lookups, descriptors and timer buckets, any   *)
(* width of the tick counter and any timeout.  The timer wheel is          *)
(* soft_timer.c's, so what is proved of it in SoftTimerProofs holds here.  *)
(*                                                                         *)
(* Then what dns_util.c makes of the datagrams they receive, for every     *)
(* host, answer and datagram, cut anywhere, and every size of the buffer.  *)
(***************************************************************************)
EXTENDS IoDns, DnsUtil, Lemmas

WP == INSTANCE SoftTimerProofs
        WITH Timers <- Lookups, Expires <- {Timeout}, phase <- wheel

-----------------------------------------------------------------------------
(* The wheel of IoDns is the wheel of SoftTimerProofs.                     *)

\* The operators soft_timer.c is modelled with
LEMMA SameOperators ==
  /\ Wheel!EmptyList = WP!EmptyList
  /\ Wheel!Buckets = WP!Buckets /\ Wheel!Ticks = WP!Ticks /\ Wheel!current = WP!current
  /\ \A e : Wheel!Expiry(e) = WP!Expiry(e)
  /\ \A s : Wheel!Linked(s) = WP!Linked(s)
  /\ \A s : Wheel!NoDuplicates(s) <=> WP!NoDuplicates(s)
  /\ \A s, x : Wheel!ListDelInit(s, x) = WP!ListDelInit(s, x)
  /\ \A s, x : Wheel!ListAddTail(s, x) = WP!ListAddTail(s, x)
BY DEF Wheel!EmptyList, WP!EmptyList, Wheel!Buckets, WP!Buckets, Wheel!Ticks, WP!Ticks,
       Wheel!current, WP!current, Wheel!Expiry, WP!Expiry,
       Wheel!SoftTickFromMilsec, WP!SoftTickFromMilsec, Wheel!Linked, WP!Linked,
       Wheel!Range, WP!Range, Wheel!NoDuplicates, WP!NoDuplicates,
       Wheel!IsInjective, WP!IsInjective, Wheel!ListDelInit, WP!ListDelInit,
       Wheel!ListAddTail, WP!ListAddTail, Wheel!RemoveAt, WP!RemoveAt

\* soft_timer_is_running, before and after a step
LEMMA SameRunning ==
  ASSUME NEW d
  PROVE  /\ Wheel!IsRunning(d) <=> WP!IsRunning(d)
         /\ Wheel!IsRunning(d)' <=> WP!IsRunning(d)'
<1>1. Wheel!IsRunning(d) <=> WP!IsRunning(d)
  BY SameOperators DEF Wheel!IsRunning, WP!IsRunning, Wheel!InBuckets, WP!InBuckets
<1>2. Wheel!IsRunning(d)' <=> WP!IsRunning(d)'
  BY DEF Wheel!IsRunning, WP!IsRunning, Wheel!InBuckets, WP!InBuckets,
         Wheel!Buckets, WP!Buckets, Wheel!Linked, WP!Linked, Wheel!Range, WP!Range
<1> QED BY <1>1, <1>2

\* soft_timer_add and soft_timer_del
LEMMA SameUserSteps ==
  ASSUME NEW d
  PROVE  (Wheel!Del(d) <=> WP!Del(d)) /\ \A e : (Wheel!Add(d, e) <=> WP!Add(d, e))
<1>1. Wheel!Del(d) <=> WP!Del(d)
  BY SameOperators, SameRunning DEF Wheel!Del, WP!Del, Wheel!UserCode, WP!UserCode
<1>2. \A e : (Wheel!Add(d, e) <=> WP!Add(d, e))
  BY SameOperators, SameRunning DEF Wheel!Add, WP!Add, Wheel!UserCode, WP!UserCode
<1> QED BY <1>1, <1>2

\* The steps of timer_tick
LEMMA SameTick ==
  /\ Wheel!Drive <=> WP!Drive
  /\ Wheel!ScanNext <=> WP!ScanNext
  /\ Wheel!ScanDone <=> WP!ScanDone
  /\ Wheel!Expire <=> WP!Expire
  /\ Wheel!CallbackReturn <=> WP!CallbackReturn
  /\ Wheel!TickDone <=> WP!TickDone
<1>1. Wheel!Drive <=> WP!Drive
  BY DEF Wheel!Drive, WP!Drive
<1>2. Wheel!ScanNext <=> WP!ScanNext
  BY SameOperators DEF Wheel!ScanNext, WP!ScanNext, Wheel!MatchesNow, WP!MatchesNow
<1>3. Wheel!ScanDone <=> WP!ScanDone
  BY SameOperators DEF Wheel!ScanDone, WP!ScanDone
<1>4. Wheel!Expire <=> WP!Expire
  BY SameOperators DEF Wheel!Expire, WP!Expire
<1>5. Wheel!CallbackReturn <=> WP!CallbackReturn
  BY DEF Wheel!CallbackReturn, WP!CallbackReturn
<1>6. Wheel!TickDone <=> WP!TickDone
  BY SameOperators DEF Wheel!TickDone, WP!TickDone
<1> QED BY <1>1, <1>2, <1>3, <1>4, <1>5, <1>6

\* The next-state relation of soft_timer.c
LEMMA SameNext == [Wheel!Next]_wheelVars => [WP!Next]_WP!vars
<1>1. Wheel!TimerTick <=> WP!TimerTick
  BY SameTick DEF Wheel!TimerTick, WP!TimerTick
<1>2. Wheel!UserStep <=> WP!UserStep
  BY SameUserSteps DEF Wheel!UserStep, WP!UserStep
<1> QED BY <1>1, <1>2 DEF Wheel!Next, WP!Next, wheelVars, WP!vars

\* soft_timer_init
LEMMA SameInit == Wheel!Init => WP!Init
BY SameOperators DEF Wheel!Init, WP!Init

\* The invariant of the wheel
LEMMA SameInvariant == WP!IInv <=> Wheel!IInv
<1>1. WP!TypeOK <=> Wheel!TypeOK
  BY SameOperators DEF Wheel!TypeOK, WP!TypeOK
<1>2. WP!WheelConsistent <=> Wheel!WheelConsistent
  BY SameOperators DEF Wheel!WheelConsistent, WP!WheelConsistent, Wheel!MatchesNow, WP!MatchesNow
<1> QED
  BY <1>1, <1>2, SameOperators DEF Wheel!IInv, WP!IInv, Wheel!MatchesNow, WP!MatchesNow

\* The constants fit.
LEMMA WheelAssumption == WP!SoftTimerAssumption
BY IoDnsAssumption DEF Wheel!SoftTimerAssumption, WP!SoftTimerAssumption,
     Wheel!SoftTickFromMilsec, WP!SoftTickFromMilsec

-----------------------------------------------------------------------------
(* The use of the wheel.                                                   *)

\* Every step of a program with lookups starts or stops a timer, is one of
\* timer_tick, or leaves the wheel alone.
LEMMA StepOfWheel ==
  ASSUME [DnsNext]_allVars
  PROVE  [Wheel!Next]_wheelVars
<1>1. ASSUME NEW d \in Lookups, Lookup(d) PROVE Wheel!Next
  BY <1>1 DEF Lookup, Wheel!Next, Wheel!UserStep
<1>2. ASSUME NEW d \in Lookups, Received(d) PROVE [Wheel!Next]_wheelVars
  BY <1>2 DEF Received, StopTimer, Wheel!Next, Wheel!UserStep
<1>3. ASSUME NEW d \in Lookups, NothingReceived(d) \/ TimedOut(d) PROVE [Wheel!Next]_wheelVars
  BY <1>3 DEF NothingReceived, TimedOut, Wheel!Next, Wheel!TimerTick
<1>4. ASSUME TimerTick \/ Scan \/ ReceivedReturns \/ TimedOutReturns \/ TickReturns
      PROVE  [Wheel!Next]_wheelVars
  BY <1>4 DEF TimerTick, Scan, ReceivedReturns, TimedOutReturns, TickReturns,
              Wheel!Next, Wheel!TimerTick
<1>5. ASSUME NEW f \in Fds, DatagramArrives(f) PROVE UNCHANGED wheelVars
  BY <1>5 DEF DatagramArrives
<1>6. ASSUME TimerfdExpires \/ Select \/ Dispatch \/ RoundOver PROVE UNCHANGED wheelVars
  BY <1>6 DEF TimerfdExpires, Select, Dispatch, RoundOver
<1>7. ASSUME UNCHANGED allVars PROVE UNCHANGED wheelVars
  BY <1>7 DEF allVars
<1> QED BY <1>1, <1>2, <1>3, <1>4, <1>5, <1>6, <1>7 DEF DnsNext, Callbacks

\* io_dns.c and io_timer.c use the wheel as soft_timer.c means it to be
\* used: whatever the loop, the network and the program do, its variables
\* behave as those of soft_timer.c alone.
THEOREM WheelUsedAsMeant == DnsSpec => Wheel!Spec
<1>1. DnsInit => Wheel!Init
  BY DEF DnsInit
<1>2. [DnsNext]_allVars => [Wheel!Next]_Wheel!vars
  BY StepOfWheel DEF wheelVars, Wheel!vars
<1> QED BY <1>1, <1>2, PTL DEF DnsSpec, Wheel!Spec

\* The same, of the wheel the theorems speak of
LEMMA TheoremsApply == DnsSpec => WP!Spec
<1>1. DnsInit => WP!Init
  BY SameInit DEF DnsInit
<1>2. [DnsNext]_allVars => [WP!Next]_WP!vars
  BY StepOfWheel, SameNext
<1> QED BY <1>1, <1>2, PTL DEF DnsSpec, WP!Spec

\* So its invariant holds beside lookups.
LEMMA WheelInvariantHolds == DnsSpec => []Wheel!IInv
<1>1. WP!Spec => []WP!IInv
  BY WheelAssumption, WP!InvariantHolds
<1>2. WP!IInv => Wheel!IInv
  BY SameInvariant
<1> QED BY <1>1, <1>2, TheoremsApply, PTL

-----------------------------------------------------------------------------
(* Who runs after a step of the wheel.                                     *)

\* soft_timer_add
LEMMA Started ==
  ASSUME Wheel!IInv, NEW d \in Lookups, Wheel!Add(d, Timeout)
  PROVE  \A u \in Lookups : Wheel!IsRunning(u)' <=> Wheel!IsRunning(u) \/ u = d
<1>1. WP!IInv /\ WP!Add(d, Timeout) /\ Timeout \in {Timeout}
  BY SameInvariant, SameUserSteps
<1>2. \A u \in Lookups : WP!IsRunning(u)' <=> WP!IsRunning(u) \/ u = d
  BY <1>1, WheelAssumption, WP!RunningAfterAdd
<1> QED BY <1>2, SameRunning

\* io_timer_stop, on a timer that runs or does not
LEMMA Stopped ==
  ASSUME Wheel!IInv, NEW d \in Lookups, StopTimer(d)
  PROVE  \A u \in Lookups : Wheel!IsRunning(u)' <=> Wheel!IsRunning(u) /\ u # d
<1>1. CASE Wheel!Del(d)
  <2>1. WP!IInv /\ WP!Del(d)
    BY <1>1, SameInvariant, SameUserSteps
  <2>2. \A u \in Lookups : WP!IsRunning(u)' <=> WP!IsRunning(u) /\ u # d
    BY <2>1, WheelAssumption, WP!RunningAfterDel
  <2> QED BY <2>2, SameRunning
<1>2. CASE ~Wheel!IsRunning(d) /\ UNCHANGED wheelVars
  BY <1>2 DEF wheelVars, Wheel!IsRunning, Wheel!InBuckets
<1> QED BY <1>1, <1>2 DEF StopTimer

\* timer_tick, except where it calls
LEMMA Turned ==
  ASSUME Wheel!IInv,
         \/ Wheel!Drive \/ Wheel!ScanNext \/ Wheel!ScanDone
         \/ Wheel!CallbackReturn \/ Wheel!TickDone \/ UNCHANGED wheelVars
  PROVE  \A u \in Lookups : Wheel!IsRunning(u)' <=> Wheel!IsRunning(u)
<1>1. CASE Wheel!ScanNext
  <2>1. WP!IInv /\ WP!ScanNext
    BY <1>1, SameInvariant, SameTick
  <2>2. \A u \in Lookups : WP!IsRunning(u)' <=> WP!IsRunning(u)
    BY <2>1, WheelAssumption, WP!RunningAfterScan
  <2> QED BY <2>2, SameRunning
<1>2. CASE ~Wheel!ScanNext
  <2>1. UNCHANGED << buckets, timeout_list >>
    BY <1>2 DEF Wheel!Drive, Wheel!ScanDone, Wheel!CallbackReturn, Wheel!TickDone, wheelVars
  <2> QED BY <2>1 DEF Wheel!IsRunning, Wheel!InBuckets
<1> QED BY <1>1, <1>2

\* The lookup timer_tick calls had its timer running until then.
LEMMA Fired ==
  ASSUME Wheel!IInv, NEW d \in Lookups, Wheel!Expire, firing' = {d}
  PROVE  /\ Wheel!IsRunning(d)
         /\ \A u \in Lookups : Wheel!IsRunning(u)' <=> Wheel!IsRunning(u) /\ u # d
<1>1. WP!IInv /\ WP!Expire
  BY SameInvariant, SameTick
<1>2. \E t \in Lookups :
        /\ firing' = {t} /\ WP!IsRunning(t)
        /\ \A u \in Lookups : WP!IsRunning(u)' <=> WP!IsRunning(u) /\ u # t
  BY <1>1, WheelAssumption, WP!RunningAfterExpire
<1> QED BY <1>2, SameRunning

-----------------------------------------------------------------------------
(* The halves of the invariant: what a lookup owns, and who is being       *)
(* called.                                                                 *)

Owning ==
  /\ drv \in DriverType /\ ListsConsistent(drv)
  /\ fd \in [Watchers -> Fds]
  /\ inbox \in [Fds -> Datagrams \cup { "expired", "empty", "closed" }]
  /\ pending \subseteq Lookups
  /\ inbox[TimerFd] # "closed"
  /\ ArmedWhilePending /\ SocketsOwned

Calling ==
  /\ sets \in [Events -> SUBSET Fds]
  /\ phase \in { "app", "dispatch", "callback" }
  /\ call \in [Watchers -> SUBSET Events]
  /\ told \in Lookups \cup {Nothing}
  /\ phase = "app" => drv.run_list = EmptyList
  /\ CallbacksNest /\ CalledIsPending

\* With the wheel's, they are the invariant.
LEMMA Halves ==
  /\ DnsIInv <=> Wheel!IInv /\ Owning /\ Calling
  /\ DnsIInv' <=> Wheel!IInv' /\ Owning' /\ Calling'
<1>1. DnsIInv <=> Wheel!IInv /\ Owning /\ Calling
  BY DEF DnsIInv, DnsTypeOK, TypeOK, Consistent, Owning, Calling, Wheel!IInv
<1>2. DnsIInv' <=> Wheel!IInv' /\ Owning' /\ Calling'
  BY DEF DnsIInv, DnsTypeOK, TypeOK, Consistent, Owning, Calling, Wheel!IInv
<1> QED BY <1>1, <1>2

\* The objects have watchers.
LEMMA LookupsWatch == Lookups \subseteq Watchers /\ TimerWatcher \in Watchers /\ "RX" \in Events
BY IoDnsAssumption

\* socket() returns a descriptor that was free.
LEMMA NewIsFree ==
  ASSUME FreeFds # {}
  PROVE  NewFd \in Fds /\ inbox[NewFd] = "closed"
<1>1. FreeFds \in SUBSET Nat
  BY IoDnsAssumption DEF FreeFds
<1>2. \E f \in FreeFds : \A g \in FreeFds : f <= g
  BY <1>1, LeastExists
<1>3. NewFd \in FreeFds
  BY <1>2 DEF NewFd
<1> QED BY <1>3 DEF FreeFds

\* The socket of a pending lookup
LEMMA SocketOf ==
  ASSUME Owning, NEW d \in pending
  PROVE  /\ d \in Lookups /\ fd[d] \in Fds \ {TimerFd} /\ inbox[fd[d]] # "closed"
         /\ \A c \in pending : c # d => fd[c] # fd[d]
<1>1. d \in Lookups
  BY DEF Owning
<1>2. fd[d] \in { f \in Fds \ {TimerFd} : inbox[f] # "closed" }
  BY DEF Owning, SocketsOwned
<1> QED BY <1>1, <1>2 DEF Owning, SocketsOwned

\* Steps that start and end no lookup, nor open or close anything
LEMMA OwningKept ==
  ASSUME Owning, UNCHANGED << fd, pending >>,
         drv' \in DriverType, ListsConsistent(drv'),
         drv'.event_listening = drv.event_listening,
         inbox' \in [Fds -> Datagrams \cup { "expired", "empty", "closed" }],
         \A f \in Fds : inbox'[f] = "closed" <=> inbox[f] = "closed",
         \A u \in Lookups : Wheel!IsRunning(u)' <=> Wheel!IsRunning(u)
  PROVE  Owning'
<1>1. \A u \in Lookups : u \in pending => fd[u] \in Fds
  BY SocketOf
<1>2. ArmedWhilePending'
  BY <1>1 DEF Owning, ArmedWhilePending, Registered
<1>3. { f \in Fds \ {TimerFd} : inbox'[f] # "closed" } = { f \in Fds \ {TimerFd} : inbox[f] # "closed" }
  OBVIOUS
<1>4. SocketsOwned'
  BY <1>3 DEF Owning, SocketsOwned
<1>5. inbox'[TimerFd] # "closed"
  BY IoDnsAssumption DEF Owning
<1> QED BY <1>2, <1>4, <1>5 DEF Owning

\* The end of a lookup: its socket is closed and its timer does not run.
LEMMA OwningAfterEnd ==
  ASSUME Owning, NEW d \in pending, Close(d), fd' = fd, pending' = pending \ {d},
         \A u \in Lookups : Wheel!IsRunning(u)' <=> Wheel!IsRunning(u) /\ u # d
  PROVE  Owning' /\ (drv.run_list = EmptyList => drv'.run_list = EmptyList)
<1>1. /\ d \in Lookups /\ d \in Watchers /\ fd[d] \in Fds \ {TimerFd}
      /\ \A c \in pending : c # d => fd[c] # fd[d]
  BY SocketOf, LookupsWatch
<1>2. Rewatched(drv, drv', d, drv.event_listening[d] \ Events)
  BY <1>1, NoWatchRewatches DEF Owning, Close
<1>3. /\ drv' \in DriverType /\ ListsConsistent(drv')
      /\ drv.run_list = EmptyList => drv'.run_list = EmptyList
      /\ drv'.event_listening = [drv.event_listening EXCEPT ![d] = drv.event_listening[d] \ Events]
      /\ drv.event_listening \in [Watchers -> SUBSET Events]
  BY <1>2 DEF Rewatched, Owning, DriverType
<1>4. \A u \in Lookups : Registered(drv', u) <=> Registered(drv, u) /\ u # d
  BY <1>1, <1>3, LookupsWatch DEF Registered
<1>5. /\ inbox' \in [Fds -> Datagrams \cup { "expired", "empty", "closed" }]
      /\ \A f \in Fds : inbox'[f] = IF f = fd[d] THEN "closed" ELSE inbox[f]
  BY <1>1 DEF Owning, Close
<1>6. ArmedWhilePending'
  <2> SUFFICES ASSUME NEW u \in Lookups
               PROVE  /\ u \in pending' <=> Registered(drv', u)
                      /\ u \in pending' <=> Wheel!IsRunning(u)'
                      /\ u \in pending' => inbox'[fd[u]] # "closed"
    BY DEF ArmedWhilePending
  <2>1. /\ u \in pending <=> Registered(drv, u)
        /\ u \in pending <=> Wheel!IsRunning(u)
    BY DEF Owning, ArmedWhilePending
  <2>2. u \in pending' => inbox'[fd[u]] # "closed"
    BY <1>1, <1>5, SocketOf
  <2> QED BY <2>1, <2>2, <1>4
<1>7. SocketsOwned'
  <2>1. { f \in Fds \ {TimerFd} : inbox'[f] # "closed" } =
          { f \in Fds \ {TimerFd} : inbox[f] # "closed" } \ { fd[d] }
    BY <1>5
  <2>2. { fd[c] : c \in pending \ {d} } = { fd[c] : c \in pending } \ { fd[d] }
    BY <1>1
  <2>3. /\ { f \in Fds \ {TimerFd} : inbox[f] # "closed" } = { fd[c] : c \in pending }
        /\ \A b, c \in pending : b # c => fd[b] # fd[c]
    BY DEF Owning, SocketsOwned
  <2> QED BY <2>1, <2>2, <2>3 DEF SocketsOwned
<1>8. inbox'[TimerFd] # "closed"
  BY <1>1, <1>5, IoDnsAssumption DEF Owning
<1>9. pending' \subseteq Lookups
  BY DEF Owning
<1>10. Owning'
  BY <1>3, <1>5, <1>6, <1>7, <1>8, <1>9 DEF Owning
<1> QED BY <1>3, <1>10

-----------------------------------------------------------------------------
(* The steps.                                                              *)

\* io_dns_lookup_ipv4, from the program or from another lookup's callback
LEMMA LookupKeeps ==
  ASSUME DnsIInv, NEW d \in Lookups, Lookup(d)
  PROVE  Owning' /\ Calling'
<1>1. /\ Owning /\ Calling /\ Wheel!IInv
      /\ d \notin pending
      /\ fd' = [fd EXCEPT ![d] = NewFd]
      /\ drv' = Watch(drv, d, { "RX" })
      /\ inbox' = [inbox EXCEPT ![NewFd] = "empty"]
      /\ Wheel!Add(d, Timeout)
      /\ pending' = pending \cup {d}
      /\ UNCHANGED << sets, phase, call, told >>
      /\ NewFd \in Fds /\ inbox[NewFd] = "closed"
      /\ wheel' = wheel
      /\ d \in Watchers
  BY Halves, NewIsFree, LookupsWatch DEF Lookup, Wheel!Add
<1>2. Rewatched(drv, drv', d, drv.event_listening[d] \cup { "RX" })
  <2>1. { "RX" } \in SUBSET Events
    BY LookupsWatch
  <2> QED BY <1>1, <2>1, WatchRewatches DEF Owning
<1>3. /\ drv' \in DriverType /\ ListsConsistent(drv')
      /\ drv.run_list = EmptyList => drv'.run_list = EmptyList
      /\ drv'.event_listening = [drv.event_listening EXCEPT ![d] = drv.event_listening[d] \cup { "RX" }]
      /\ drv.event_listening \in [Watchers -> SUBSET Events]
  BY <1>1, <1>2 DEF Rewatched, Owning, DriverType
<1>4. \A u \in Lookups : Registered(drv', u) <=> Registered(drv, u) \/ u = d
  BY <1>1, <1>3, LookupsWatch DEF Registered
<1>5. \A u \in Lookups : Wheel!IsRunning(u)' <=> Wheel!IsRunning(u) \/ u = d
  BY <1>1, Started
<1>6. /\ fd' \in [Watchers -> Fds] /\ fd'[d] = NewFd
      /\ \A c \in pending : fd'[c] = fd[c] /\ fd[c] # NewFd
  <2>1. fd \in [Watchers -> Fds]
    BY <1>1 DEF Owning
  <2>2. \A c \in pending : c # d /\ c \in Watchers /\ fd[c] # NewFd
    BY <1>1, SocketOf, LookupsWatch
  <2> QED BY <2>1, <2>2, <1>1
<1>7. /\ inbox' \in [Fds -> Datagrams \cup { "expired", "empty", "closed" }]
      /\ \A f \in Fds : inbox'[f] = IF f = NewFd THEN "empty" ELSE inbox[f]
  BY <1>1 DEF Owning
<1>8. ArmedWhilePending'
  <2> SUFFICES ASSUME NEW u \in Lookups
               PROVE  /\ u \in pending' <=> Registered(drv', u)
                      /\ u \in pending' <=> Wheel!IsRunning(u)'
                      /\ u \in pending' => inbox'[fd'[u]] # "closed"
    BY DEF ArmedWhilePending
  <2>1. /\ u \in pending <=> Registered(drv, u)
        /\ u \in pending <=> Wheel!IsRunning(u)
    BY <1>1 DEF Owning, ArmedWhilePending
  <2>2. u \in pending' => inbox'[fd'[u]] # "closed"
    BY <1>1, <1>6, <1>7, SocketOf
  <2> QED BY <2>1, <2>2, <1>1, <1>4, <1>5
<1>9. NewFd # TimerFd
  BY <1>1 DEF Owning
<1>10. SocketsOwned'
  <2>1. { f \in Fds \ {TimerFd} : inbox'[f] # "closed" } =
          { f \in Fds \ {TimerFd} : inbox[f] # "closed" } \cup { NewFd }
    BY <1>1, <1>7, <1>9
  <2>2. { fd'[c] : c \in pending' } = { fd[c] : c \in pending } \cup { NewFd }
    BY <1>1, <1>6
  <2>3. /\ { f \in Fds \ {TimerFd} : inbox[f] # "closed" } = { fd[c] : c \in pending }
        /\ \A b, c \in pending : b # c => fd[b] # fd[c]
    BY <1>1 DEF Owning, SocketsOwned
  <2>4. \A b, c \in pending' : b # c => fd'[b] # fd'[c]
    BY <1>1, <1>6, <2>3
  <2> QED BY <2>1, <2>2, <2>3, <2>4 DEF SocketsOwned
<1>11. Owning'
  <2>1. inbox'[TimerFd] # "closed" /\ pending' \subseteq Lookups
    BY <1>1, <1>7, <1>9, IoDnsAssumption DEF Owning
  <2> QED BY <1>3, <1>6, <1>7, <1>8, <1>10, <2>1 DEF Owning
<1>12. CallbacksNest' /\ CalledIsPending'
  BY <1>1 DEF Calling, CallbacksNest, CalledIsPending, NoCall
<1> QED BY <1>1, <1>3, <1>11, <1>12 DEF Calling

\* A datagram arrives, or the timerfd expires, between any two steps.
LEMMA ArrivalKeeps ==
  ASSUME DnsIInv, (\E f \in Fds : DatagramArrives(f)) \/ TimerfdExpires
  PROVE  Owning' /\ Calling'
<1>1. Owning /\ Calling /\ UNCHANGED << driverVars, wheelVars, pending, told >> /\ Wheel!IInv
  BY Halves DEF DatagramArrives, TimerfdExpires
<1>2. \E f \in Fds, m \in Datagrams \cup { "expired" } :
        inbox[f] = "empty" /\ inbox' = [inbox EXCEPT ![f] = m]
  BY IoDnsAssumption DEF DatagramArrives, TimerfdExpires
<1>3. /\ inbox' \in [Fds -> Datagrams \cup { "expired", "empty", "closed" }]
      /\ \A f \in Fds : inbox'[f] = "closed" <=> inbox[f] = "closed"
  BY <1>1, <1>2 DEF Owning, Datagrams
<1>4. \A u \in Lookups : Wheel!IsRunning(u)' <=> Wheel!IsRunning(u)
  BY <1>1, Turned
<1>5. Owning'
  BY <1>1, <1>3, <1>4, OwningKept DEF driverVars, Owning
<1>6. Calling'
  BY <1>1 DEF driverVars, wheelVars, Calling, CallbacksNest, CalledIsPending, NoCall
<1> QED BY <1>5, <1>6

\* io_driver_run up to the dispatching, a turn of its loop, and its end
LEMMA LoopKeeps ==
  ASSUME DnsIInv, Select \/ Dispatch \/ RoundOver
  PROVE  Owning' /\ Calling'
<1>1. /\ Owning /\ Calling /\ Wheel!IInv
      /\ UNCHANGED << wheelVars, inbox, pending, told, fd >>
  BY Halves DEF Select, SelectReady, Dispatch, DispatchNext, RoundOver, DispatchDone, dnsVars
<1>2. \A u \in Lookups : Wheel!IsRunning(u)' <=> Wheel!IsRunning(u)
  BY <1>1, Turned
<1>3. ASSUME drv' \in DriverType, ListsConsistent(drv'), drv'.event_listening = drv.event_listening
      PROVE  Owning'
  BY <1>1, <1>2, <1>3, OwningKept DEF Owning
<1>4. CASE Select
  <2>1. /\ phase = "app" /\ phase' = "dispatch" /\ call' = call
        /\ sets' \in [Events -> SUBSET Fds] /\ drv' = Splice(drv)
    BY <1>4 DEF Select, SelectReady
  <2>2. /\ drv' \in DriverType /\ ListsConsistent(drv')
        /\ drv'.event_listening = drv.event_listening
    BY <1>1, <2>1, SpliceKeepsLists DEF Owning, Calling
  <2>3. Calling'
    BY <1>1, <2>1 DEF wheelVars, Calling, CallbacksNest, CalledIsPending, NoCall
  <2> QED BY <1>3, <2>2, <2>3
<1>5. CASE Dispatch
  <2> DEFINE w == Head(drv.run_list)
             e == Ready(w)
  <2>1. /\ phase = "dispatch" /\ drv.run_list # EmptyList /\ drv' = Requeue(drv)
        /\ phase' = IF e # {} THEN "callback" ELSE "dispatch"
        /\ call' = IF e # {} THEN [call EXCEPT ![w] = e] ELSE call
        /\ sets' = sets
    BY <1>5 DEF Dispatch, DispatchNext
  <2>2. /\ drv' \in DriverType /\ ListsConsistent(drv')
        /\ drv'.event_listening = drv.event_listening
        /\ w \in Watchers
    BY <1>1, <2>1, RequeueKeepsLists DEF Owning
  <2>3. e \subseteq drv.event_listening[w] /\ drv.event_listening[w] \in SUBSET Events
    BY <1>1, <2>2 DEF Ready, Owning, DriverType
  <2> HIDE DEF e, w
  <2>4. /\ wheel = "app" /\ told = Nothing /\ call = NoCall
        /\ call \in [Watchers -> SUBSET Events]
    BY <1>1, <2>1 DEF Calling, CallbacksNest
  <2>5. call' \in [Watchers -> SUBSET Events]
    BY <2>1, <2>2, <2>3, <2>4
  <2>6. CallbacksNest'
    BY <1>1, <2>1, <2>4 DEF wheelVars, CallbacksNest, NoCall
  <2>7. CalledIsPending'
    <3> SUFFICES ASSUME NEW d \in Lookups, call'[d] # {}
                 PROVE  d \in pending
      BY <1>1 DEF CalledIsPending
    <3>1. d \in Watchers /\ call[d] = {}
      BY <2>4, LookupsWatch DEF NoCall
    <3>2. d = w /\ e # {}
      BY <3>1, <2>1, <2>4
    <3>3. Registered(drv, d)
      BY <3>2, <2>3 DEF Registered
    <3> QED BY <3>3, <1>1 DEF Owning, ArmedWhilePending
  <2>8. Calling'
    BY <1>1, <2>1, <2>5, <2>6, <2>7 DEF Calling
  <2> QED BY <1>3, <2>2, <2>8
<1>6. CASE RoundOver
  <2>1. /\ phase = "dispatch" /\ phase' = "app" /\ drv.run_list = EmptyList
        /\ sets' = NoSets /\ UNCHANGED << drv, call >>
    BY <1>6 DEF RoundOver, DispatchDone
  <2>2. sets' \in [Events -> SUBSET Fds]
    BY <2>1 DEF NoSets
  <2>3. Calling'
    BY <1>1, <2>1, <2>2 DEF wheelVars, Calling, CallbacksNest, CalledIsPending, NoCall
  <2>4. Owning'
    BY <1>1, <1>3, <2>1 DEF Owning
  <2> QED BY <2>3, <2>4
<1> QED BY <1>4, <1>5, <1>6

\* io_net_udp_callback, with what the socket holds
LEMMA DatagramKeeps ==
  ASSUME DnsIInv, NEW d \in Lookups, Received(d) \/ NothingReceived(d)
  PROVE  Owning' /\ Calling'
<1>1. /\ Owning /\ Calling /\ Wheel!IInv /\ Called(d) /\ d \in pending
  BY Halves DEF Received, NothingReceived, Called, Calling, CalledIsPending
<1>2. fd[d] \in Fds \ {TimerFd} /\ inbox[fd[d]] # "closed"
  BY <1>1, SocketOf
<1>3. CASE Received(d)
  <2>1. \A u \in Lookups : Wheel!IsRunning(u)' <=> Wheel!IsRunning(u) /\ u # d
    BY <1>1, <1>3, Stopped DEF Received
  <2>2. Owning' /\ (drv.run_list = EmptyList => drv'.run_list = EmptyList)
    BY <1>1, <1>3, <2>1, OwningAfterEnd DEF Received, Tell
  <2>3. /\ told' = d /\ d # Nothing /\ wheel' = wheel /\ wheel = "app" /\ phase = "callback"
        /\ UNCHANGED << sets, phase, call >>
    BY <1>1, <1>3, IoDnsAssumption DEF Received, Tell, StopTimer, Wheel!Del, wheelVars, Called
  <2>4. Calling'
    BY <1>1, <2>2, <2>3 DEF Calling, CallbacksNest, CalledIsPending, NoCall
  <2> QED BY <2>2, <2>4
<1>4. CASE NothingReceived(d)
  <2>1. /\ inbox' = [inbox EXCEPT ![fd[d]] = "empty"]
        /\ UNCHANGED << drv, fd, sets, wheelVars, pending, told >>
        /\ phase' = "dispatch" /\ call' = NoCall
        /\ wheel = "app" /\ told = Nothing
    BY <1>4 DEF NothingReceived, CallbackReturn, Called
  <2>2. /\ inbox' \in [Fds -> Datagrams \cup { "expired", "empty", "closed" }]
        /\ \A f \in Fds : inbox'[f] = "closed" <=> inbox[f] = "closed"
    BY <1>1, <1>2, <2>1 DEF Owning
  <2>3. \A u \in Lookups : Wheel!IsRunning(u)' <=> Wheel!IsRunning(u)
    BY <1>1, <2>1, Turned
  <2>4. Owning'
    BY <1>1, <2>1, <2>2, <2>3, OwningKept DEF Owning
  <2>5. Calling'
    BY <1>1, <2>1 DEF wheelVars, Calling, CallbacksNest, CalledIsPending, NoCall
  <2> QED BY <2>4, <2>5
<1> QED BY <1>3, <1>4

\* timer_tick, run by the watcher of the timerfd, up to the call of a
\* timeout and after it
LEMMA TickKeeps ==
  ASSUME DnsIInv, TimerTick \/ Scan \/ TickReturns
  PROVE  Owning' /\ Calling'
<1>1. Owning /\ Calling /\ Wheel!IInv /\ TimerFd \in Fds
  BY Halves, IoDnsAssumption
<1>2. \A u \in Lookups : Wheel!IsRunning(u)' <=> Wheel!IsRunning(u)
  BY <1>1, Turned DEF TimerTick, Scan, TickReturns
<1>3. /\ UNCHANGED << drv, fd, pending >>
      /\ inbox' = inbox \/ inbox' = [inbox EXCEPT ![TimerFd] = "empty"]
  BY DEF TimerTick, Scan, TickReturns, CallbackReturn, driverVars, dnsVars
<1>4. /\ inbox' \in [Fds -> Datagrams \cup { "expired", "empty", "closed" }]
      /\ \A f \in Fds : inbox'[f] = "closed" <=> inbox[f] = "closed"
  BY <1>1, <1>3 DEF Owning
<1>5. Owning'
  BY <1>1, <1>2, <1>3, <1>4, OwningKept DEF Owning
<1>6. CASE TimerTick
  <2>1. /\ wheel' = "scan" /\ told = Nothing /\ phase = "callback"
        /\ UNCHANGED << sets, phase, call, told >>
    BY <1>6 DEF TimerTick, Called, Wheel!Drive, driverVars
  <2>2. Calling'
    BY <1>1, <1>3, <2>1 DEF Calling, CallbacksNest, CalledIsPending, NoCall
  <2> QED BY <1>5, <2>2
<1>7. CASE Scan
  <2>1. /\ wheel = "scan" /\ wheel' \in { "scan", "expire" }
        /\ UNCHANGED << sets, phase, call, told >>
    BY <1>7 DEF Scan, Wheel!ScanNext, Wheel!ScanDone, driverVars, dnsVars
  <2>2. Calling'
    BY <1>1, <1>3, <2>1 DEF Calling, CallbacksNest, CalledIsPending, NoCall
  <2> QED BY <1>5, <2>2
<1>8. CASE TickReturns
  <2>1. /\ wheel = "expire" /\ wheel' = "app" /\ phase' = "dispatch" /\ call' = NoCall
        /\ UNCHANGED << sets, told >>
    BY <1>8 DEF TickReturns, Wheel!TickDone, CallbackReturn, dnsVars
  <2>2. call' \in [Watchers -> SUBSET Events]
    BY <2>1 DEF NoCall
  <2>3. told = Nothing
    BY <1>1, <2>1 DEF Calling, CallbacksNest
  <2>4. CallbacksNest' /\ CalledIsPending'
    BY <2>1, <2>3 DEF CallbacksNest, CalledIsPending, NoCall
  <2>5. Calling'
    BY <1>1, <1>3, <2>1, <2>2, <2>4 DEF Calling
  <2> QED BY <1>5, <2>5
<1> QED BY <1>6, <1>7, <1>8

\* timer_tick calls io_dns_timeout_callback
LEMMA TimedOutKeeps ==
  ASSUME DnsIInv, NEW d \in Lookups, TimedOut(d)
  PROVE  Owning' /\ Calling'
<1>1. /\ Owning /\ Calling /\ Wheel!IInv
      /\ Wheel!Expire /\ firing' = {d} /\ Close(d) /\ Tell(d)
      /\ UNCHANGED << fd, sets, phase, call >>
      /\ wheel = "expire" /\ wheel' = "callback"
  BY Halves DEF TimedOut, Wheel!Expire
<1>2. /\ Wheel!IsRunning(d)
      /\ \A u \in Lookups : Wheel!IsRunning(u)' <=> Wheel!IsRunning(u) /\ u # d
  BY <1>1, Fired
<1>3. d \in pending
  BY <1>1, <1>2 DEF Owning, ArmedWhilePending
<1>4. Owning' /\ (drv.run_list = EmptyList => drv'.run_list = EmptyList)
  BY <1>1, <1>2, <1>3, OwningAfterEnd DEF Tell
<1>5. told' = d /\ d # Nothing /\ phase = "callback"
  BY <1>1, IoDnsAssumption DEF Tell, Calling, CallbacksNest
<1>6. Calling'
  BY <1>1, <1>4, <1>5 DEF Calling, CallbacksNest, CalledIsPending, NoCall
<1> QED BY <1>4, <1>6

\* The callback of a lookup returns, to the loop or into the tick.
LEMMA ReturnKeeps ==
  ASSUME DnsIInv, ReceivedReturns \/ TimedOutReturns
  PROVE  Owning' /\ Calling'
<1>1. /\ Owning /\ Calling /\ Wheel!IInv
      /\ UNCHANGED << drv, fd, sets, inbox, pending >> /\ told # Nothing /\ told' = Nothing
  BY Halves DEF ReceivedReturns, TimedOutReturns, CallbackReturn, driverVars
<1>2. \A u \in Lookups : Wheel!IsRunning(u)' <=> Wheel!IsRunning(u)
  BY <1>1, Turned DEF ReceivedReturns, TimedOutReturns
<1>3. Owning'
  BY <1>1, <1>2, OwningKept DEF Owning
<1>4. phase = "callback"
  BY <1>1 DEF Calling, CallbacksNest
<1>5. CASE ReceivedReturns
  <2>1. wheel = "app" /\ wheel' = wheel /\ phase' = "dispatch" /\ call' = NoCall
    BY <1>5 DEF ReceivedReturns, CallbackReturn, wheelVars
  <2>2. call' \in [Watchers -> SUBSET Events]
    BY <2>1 DEF NoCall
  <2>3. CallbacksNest' /\ CalledIsPending'
    BY <1>1, <2>1 DEF CallbacksNest, CalledIsPending, NoCall
  <2>4. Calling'
    BY <1>1, <2>1, <2>2, <2>3 DEF Calling
  <2> QED BY <1>3, <2>4
<1>6. CASE TimedOutReturns
  <2>1. wheel = "callback" /\ wheel' = "expire" /\ phase' = phase /\ call' = call
    BY <1>6 DEF TimedOutReturns, Wheel!CallbackReturn, driverVars
  <2>2. Calling'
    BY <1>1, <1>4, <2>1 DEF Calling, CallbacksNest, CalledIsPending, NoCall
  <2> QED BY <1>3, <2>2
<1> QED BY <1>5, <1>6

\* A step of nobody
LEMMA StutterKeeps ==
  ASSUME DnsIInv, UNCHANGED allVars
  PROVE  Owning' /\ Calling'
<1>1. Owning /\ Calling /\ Wheel!IInv /\ UNCHANGED wheelVars
      /\ UNCHANGED << drv, fd, sets, phase, call, inbox, pending, told, wheel >>
  BY Halves DEF allVars, driverVars, dnsVars, wheelVars
<1>2. \A u \in Lookups : Wheel!IsRunning(u)' <=> Wheel!IsRunning(u)
  BY <1>1, Turned
<1>3. Owning'
  BY <1>1, <1>2, OwningKept DEF Owning
<1>4. Calling'
  BY <1>1 DEF Calling, CallbacksNest, CalledIsPending, NoCall
<1> QED BY <1>3, <1>4

-----------------------------------------------------------------------------
(* The theorems.                                                           *)

\* The invariant holds when the program starts.
LEMMA InitHolds ==
  ASSUME DnsInit, Wheel!IInv
  PROVE  DnsIInv
<1>1. /\ drv = Watch(DriverInit, TimerWatcher, { "RX" })
      /\ fd = [w \in Watchers |-> TimerFd] /\ sets = NoSets /\ phase = "app" /\ call = NoCall
      /\ inbox = [f \in Fds |-> IF f = TimerFd THEN "empty" ELSE "closed"]
      /\ pending = {} /\ told = Nothing /\ Wheel!Init
  BY DEF DnsInit
<1>2. /\ DriverInit \in DriverType /\ ListsConsistent(DriverInit)
      /\ DriverInit.run_list = EmptyList
      /\ \A w \in Watchers : DriverInit.event_listening[w] = {}
  <2>1. EmptyList \in Seq(Watchers) /\ NoDuplicates(EmptyList) /\ Linked(EmptyList) = {}
    BY EmptyListProperties
  <2>2. DriverInit \in DriverType
    BY <2>1 DEF DriverInit, DriverType
  <2>3. ListsConsistent(DriverInit)
    BY <2>1 DEF DriverInit, ListsConsistent, Registered
  <2> QED BY <2>2, <2>3 DEF DriverInit
<1>3. /\ drv \in DriverType /\ ListsConsistent(drv) /\ drv.run_list = EmptyList
      /\ \A d \in Lookups : ~Registered(drv, d)
  <2>1. TimerWatcher \in Watchers /\ { "RX" } \in SUBSET Events /\ TimerWatcher \notin Lookups
    BY IoDnsAssumption
  <2>2. Rewatched(DriverInit, drv, TimerWatcher, DriverInit.event_listening[TimerWatcher] \cup { "RX" })
    BY <1>1, <1>2, <2>1, WatchRewatches
  <2>3. DriverInit.event_listening \in [Watchers -> SUBSET Events]
    BY <1>2 DEF DriverType
  <2> QED BY <1>2, <2>1, <2>2, <2>3, LookupsWatch DEF Rewatched, Registered
<1>4. \A d \in Lookups : ~Wheel!IsRunning(d)
  <2>1. WP!Init
    BY <1>1, SameInit
  <2>2. /\ \A b \in WP!Buckets : buckets[b] = WP!EmptyList
        /\ timeout_list = WP!EmptyList
    BY <2>1 DEF WP!Init
  <2> QED BY <2>2, SameRunning
       DEF WP!IsRunning, WP!InBuckets, WP!Linked, WP!Range, WP!EmptyList
<1>5. fd \in [Watchers -> Fds] /\ TimerFd \in Fds
  BY <1>1, IoDnsAssumption
<1>6. { f \in Fds \ {TimerFd} : inbox[f] # "closed" } = {}
  BY <1>1
<1>7. ArmedWhilePending /\ SocketsOwned
  BY <1>1, <1>3, <1>4, <1>6 DEF ArmedWhilePending, SocketsOwned
<1>8. Owning
  BY <1>1, <1>3, <1>5, <1>7 DEF Owning
<1>9. wheel = "app" /\ NoSets \in [Events -> SUBSET Fds] /\ NoCall \in [Watchers -> SUBSET Events]
  BY <1>1 DEF Wheel!Init, NoSets, NoCall
<1>10. Calling
  BY <1>1, <1>3, <1>9 DEF Calling, CallbacksNest, CalledIsPending
<1> QED BY <1>8, <1>10, Halves

\* The inductive invariant holds in every state: in whatever order the
\* answers, the timeouts and the program's lookups come.
THEOREM DnsInvariantHolds == DnsSpec => []DnsIInv
<1>1. DnsInit /\ Wheel!IInv => DnsIInv
  BY InitHolds
<1>2. DnsIInv /\ Wheel!IInv' /\ [DnsNext]_allVars => DnsIInv'
  <2> SUFFICES ASSUME DnsIInv, Wheel!IInv', [DnsNext]_allVars PROVE Owning' /\ Calling'
    BY Halves
  <2>1. CASE \E d \in Lookups : Lookup(d)
    BY <2>1, LookupKeeps
  <2>2. CASE (\E f \in Fds : DatagramArrives(f)) \/ TimerfdExpires
    BY <2>2, ArrivalKeeps
  <2>3. CASE Select \/ Dispatch \/ RoundOver
    BY <2>3, LoopKeeps
  <2>4. CASE \E d \in Lookups : Received(d) \/ NothingReceived(d)
    BY <2>4, DatagramKeeps
  <2>5. CASE \E d \in Lookups : TimedOut(d)
    BY <2>5, TimedOutKeeps
  <2>6. CASE TimerTick \/ Scan \/ TickReturns
    BY <2>6, TickKeeps
  <2>7. CASE ReceivedReturns \/ TimedOutReturns
    BY <2>7, ReturnKeeps
  <2>8. CASE UNCHANGED allVars
    BY <2>8, StutterKeeps
  <2> QED
    BY <2>1, <2>2, <2>3, <2>4, <2>5, <2>6, <2>7, <2>8 DEF DnsNext, Callbacks
<1> QED BY <1>1, <1>2, WheelInvariantHolds, PTL DEF DnsSpec

\* The variables of io_dns.c keep their types, with those of the loop and
\* of the wheel.
THEOREM DnsTypeCorrect == DnsSpec => []DnsTypeOK
<1>1. DnsIInv => DnsTypeOK
  BY DEF DnsIInv
<1> QED BY <1>1, DnsInvariantHolds, PTL

\* A lookup that is pending has its socket registered and its timer running,
\* one that has ended has neither: of an answer and a timeout that are ready
\* together, the first ends the lookup and the second never reaches it.
THEOREM ArmedStaysTrue == DnsSpec => []ArmedWhilePending
<1>1. DnsIInv => ArmedWhilePending
  BY DEF DnsIInv
<1> QED BY <1>1, DnsInvariantHolds, PTL

\* No descriptor outlives its lookup, and no two lookups share one.
THEOREM SocketsStayOwned == DnsSpec => []SocketsOwned
<1>1. DnsIInv => SocketsOwned
  BY DEF DnsIInv
<1> QED BY <1>1, DnsInvariantHolds, PTL

\* The lists of the loop and of the wheel survive lookups that are started
\* and ended in callbacks, in the middle of a round and of a tick.
THEOREM ListsSurviveLookups == DnsSpec => []ListsSurvive
<1>1. DnsIInv => ListsSurvive
  BY DEF DnsIInv, ListsSurvive, Wheel!IInv
<1> QED BY <1>1, DnsInvariantHolds, PTL

\* A timeout of some milliseconds is one of some ticks.
LEMMA TimeoutTakesTicks ==
  ASSUME Timeout > 0
  PROVE  WP!NoZeroTimeout
<1>1. Timeout \in Nat \ {0} /\ TickRate \in Nat \ {0}
  BY IoDnsAssumption DEF Wheel!SoftTimerAssumption
<1>2. Timeout \div TickRate \in Nat /\ (Timeout % TickRate = 0 => Timeout \div TickRate > 0)
  BY <1>1
<1> QED BY <1>2 DEF WP!NoZeroTimeout, WP!SoftTickFromMilsec

\* A pending lookup never has longer to wait than its timeout, up to the part
\* of a tick that is rounded up, whatever lookups are started and ended
\* meanwhile.
THEOREM TimeoutsAreBounded ==
  ASSUME Timeout > 0
  PROVE  DnsSpec => [](\A d \in pending : (Wheel!Left(d) - 1) * TickRate < Timeout)
<1>1. WP!Spec => []WP!NoneWaitsTooLong
  BY TimeoutTakesTicks, WheelAssumption, WP!WaitsAreBounded
<1>2. ASSUME DnsIInv, WP!NoneWaitsTooLong, NEW d \in pending
      PROVE  (Wheel!Left(d) - 1) * TickRate < Timeout
  <2>1. d \in Lookups
    BY <1>2 DEF DnsIInv, DnsTypeOK
  <2>2. (WP!Left(d) - 1) * TickRate < Timeout
    BY <1>2, <2>1 DEF WP!NoneWaitsTooLong
  <2>3. WP!Left(d) = Wheel!Left(d)
    BY SameOperators DEF WP!Left, Wheel!Left, WP!InBuckets, Wheel!InBuckets, WP!Due, Wheel!Due,
         WP!MatchesNow, Wheel!MatchesNow
  <2> QED BY <2>2, <2>3
<1>3. DnsIInv /\ WP!NoneWaitsTooLong =>
        \A d \in pending : (Wheel!Left(d) - 1) * TickRate < Timeout
  BY <1>2
<1> QED BY <1>1, <1>3, TheoremsApply, DnsInvariantHolds, PTL

\* The timers of lookups keep the promise of TimerPromise: each fires in the
\* tick it asked for, once, unless an answer stops it before.
THEOREM TimersKeepTheirPromise ==
  ASSUME Timeout > 0
  PROVE  DnsSpec => WP!ImplementsPromise
<1>1. WP!Spec => WP!ImplementsPromise
  BY TimeoutTakesTicks, WheelAssumption, WP!Refinement
<1> QED BY <1>1, TheoremsApply, PTL

-----------------------------------------------------------------------------
(* The messages.                                                           *)

\* A name that is being built: the byte that counts its last label is in it.
Building == { q \in [ bytes : Seq(Byte), len_at : Nat ] : q.len_at \in 1..Len(q.bytes) }

\* The number a field holds from the i-th byte of s on
FieldAt(s, i) == 256 * s[i] + s[i + 1]

\* What servers answer, as DnsUtilAssumption has it
Answerable(records) ==
  /\ records \in Seq(ResourceRecord) /\ Len(records) \in Short
  /\ \A i \in 1..Len(records) : IsName(records[i].name) /\ Len(records[i].data) \in Short

-----------------------------------------------------------------------------
(* The bytes of a message.                                                 *)

\* Numbers of 16 bits
LEMMA ShortIs ==
  /\ \A n \in Short : n \in Nat /\ n < 256 * 256
  /\ 1 \in Short /\ 2 \in Short
BY SMTT(60) DEF Short

\* The high byte of such a number is a byte.
LEMMA HighByte ==
  ASSUME NEW n \in Int, 0 <= n, n < 256 * 256, NEW b \in Int, 0 <= b, b <= 255,
         NEW a \in Int, 256 * a + b = n
  PROVE  0 <= a /\ a <= 255
OBVIOUS

\* What dividing by 256 gives
LEMMA HighAndLow ==
  ASSUME NEW n \in Nat
  PROVE  /\ n \div 256 \in Int /\ n % 256 \in Int
         /\ 0 <= n % 256 /\ n % 256 <= 255
         /\ 256 * (n \div 256) + (n % 256) = n
OBVIOUS

\* A field is two bytes, and holds its number.
LEMMA FieldHolds ==
  ASSUME NEW n \in Short
  PROVE  Field(n) \in Seq(Byte) /\ Len(Field(n)) = 2 /\ FieldAt(Field(n), 1) = n
<1> DEFINE a == n \div 256
           b == n % 256
<1>1. n \in Nat /\ n < 256 * 256
  BY ShortIs
<1>2. Field(n) = << a, b >>
  BY DEF Field
<1>3. a \in Int /\ b \in Int /\ 0 <= b /\ b <= 255 /\ 256 * a + b = n
  BY <1>1, HighAndLow
<1> HIDE DEF a, b
<1>4. 0 <= a /\ a <= 255
  <2>1. n \in Int /\ 0 <= n
    BY <1>1
  <2> QED BY <2>1, <1>1, <1>3, HighByte
<1>5. a \in Byte /\ b \in Byte
  BY <1>3, <1>4 DEF Byte
<1>6. << a, b >> \in Seq(Byte) /\ Len(<< a, b >>) = 2 /\ << a, b >>[1] = a /\ << a, b >>[2] = b
  BY <1>5
<1>7. FieldAt(<< a, b >>, 1) = 256 * a + b
  BY <1>6 DEF FieldAt
<1> QED BY <1>2, <1>3, <1>6, <1>7

\* A name stays one that is being built.
LEMMA GrownBuilding ==
  ASSUME NEW q \in Building, NEW c \in Byte
  PROVE  Grown(q, c) \in Building
<1>1. q.bytes \in Seq(Byte) /\ q.len_at \in 1..Len(q.bytes) /\ Len(q.bytes) \in Nat
  BY DEF Building
<1>2. CASE c = Dot
  <2>1. 0 \in Byte
    BY DEF Byte
  <2>2. Append(q.bytes, 0) \in Seq(Byte) /\ Len(Append(q.bytes, 0)) = Len(q.bytes) + 1
    BY <1>1, <2>1, AppendProperties
  <2> QED BY <1>1, <1>2, <2>2 DEF Grown, Building
<1>3. CASE c # Dot
  <2> DEFINE e == (q.bytes[q.len_at] + 1) % 256
             s == [q.bytes EXCEPT ![q.len_at] = e]
  <2>1. q.bytes[q.len_at] \in Byte
    BY <1>1, ElementOfSeq
  <2>2. e \in Byte
    BY <2>1 DEF Byte
  <2> HIDE DEF e
  <2>3. s \in Seq(Byte) /\ Len(s) = Len(q.bytes)
    BY <1>1, <2>2, ExceptSeq
  <2>4. Grown(q, c) = [ bytes |-> Append(s, c), len_at |-> q.len_at ]
    BY <1>3 DEF Grown, e
  <2> HIDE DEF s
  <2>5. Append(s, c) \in Seq(Byte) /\ Len(Append(s, c)) = Len(s) + 1
    BY <2>3, AppendProperties
  <2> QED BY <1>1, <2>3, <2>4, <2>5 DEF Building
<1> QED BY <1>2, <1>3

\* A name that is built is a sequence of bytes at every step.
LEMMA BuiltBuilding ==
  ASSUME NEW h \in Seq(Byte)
  PROVE  \A k \in 0..Len(h) : Built(h)[k] \in Building
<1> DEFINE x == [ bytes |-> << 0 >>, len_at |-> 1 ]
           Eq(f) == f = [k \in 0..Len(h) |-> IF k = 0 THEN x ELSE Grown(f[k - 1], h[k])]
           step == [k \in 1..Len(h) |-> [q \in Building |-> Grown(q, h[k])]]
<1>0. Len(h) \in Nat /\ \A k \in 1..Len(h) : h[k] \in Byte
  BY ElementOfSeq, LenProperties
<1>1. x \in Building
  <2>1. << 0 >> \in Seq(Byte) /\ Len(<< 0 >>) = 1
    BY DEF Byte
  <2>2. x.bytes = << 0 >> /\ x.len_at = 1 /\ x = [ bytes |-> x.bytes, len_at |-> x.len_at ]
    OBVIOUS
  <2> HIDE DEF x
  <2> DEFINE y == x.bytes
             i == x.len_at
  <2>3. y \in Seq(Byte) /\ i \in Nat /\ i \in 1..Len(y)
    BY <2>1, <2>2
  <2>4. x = [ bytes |-> y, len_at |-> i ]
    BY <2>2
  <2> HIDE DEF y, i
  <2>5. x \in [ bytes : Seq(Byte), len_at : Nat ] /\ x.bytes = y /\ x.len_at = i
    BY <2>3, <2>4
  <2> QED BY <2>3, <2>5 DEF Building
<1> HIDE DEF x
<1>2. step \in [1..Len(h) -> [Building -> Building]]
  BY <1>0, GrownBuilding
<1>3. PICK f : Follows(f, Building, Len(h), x, step)
  <2> HIDE DEF step
  <2>1. Len(h) \in Nat
    BY <1>0
  <2> QED BY <2>1, <1>1, <1>2, StepsExist
<1>4. Eq(f)
  <2>1. ASSUME NEW k \in 0..Len(h) PROVE f[k] = IF k = 0 THEN x ELSE Grown(f[k - 1], h[k])
    <3>1. CASE k = 0
      BY <3>1, <1>3 DEF Follows
    <3>2. CASE k # 0
      <4>1. k \in 1..Len(h) /\ k - 1 \in 0..Len(h)
        BY <3>2, <1>0
      <4>2. f[k] = step[k][f[k - 1]] /\ f[k - 1] \in Building
        BY <4>1, <1>3 DEF Follows
      <4> QED BY <4>1, <4>2, <3>2
    <3> QED BY <3>1, <3>2
  <2>2. f = [k \in 0..Len(h) |-> f[k]]
    BY <1>3 DEF Follows
  <2> QED BY <2>1, <2>2
<1>5. Built(h) = CHOOSE g : Eq(g)
  BY DEF Built, x
<1>6. Eq(Built(h))
  <2> HIDE DEF Eq
  <2> QED BY <1>4, <1>5
<1> DEFINE b == Built(h)
           S == { k \in 0..Len(h) : b[k] \in Building }
<1>7. \A k \in 0..Len(h) : b[k] = IF k = 0 THEN x ELSE Grown(b[k - 1], h[k])
  BY <1>6
<1> HIDE DEF b
<1>8. 0 \in S
  BY <1>0, <1>1, <1>7
<1>9. ASSUME NEW k \in 0..(Len(h) - 1), k \in S PROVE k + 1 \in S
  <2>1. k + 1 \in 0..Len(h) /\ k + 1 \in 1..Len(h) /\ k + 1 # 0 /\ (k + 1) - 1 = k
    BY <1>0
  <2>2. b[k + 1] = Grown(b[k], h[k + 1])
    BY <2>1, <1>7
  <2>3. Grown(b[k], h[k + 1]) \in Building
    BY <2>1, <1>0, <1>9, GrownBuilding
  <2> QED BY <2>1, <2>2, <2>3
<1>10. \A k \in 0..Len(h) : k \in S
  <2> HIDE DEF S
  <2> QED BY <1>0, <1>8, <1>9, UpTo
<1> QED BY <1>10 DEF b

\* A question is a sequence of bytes.
LEMMA QuestionBytesType ==
  ASSUME NEW h \in Seq(Byte)
  PROVE  Question(h) \in Seq(Byte) /\ Len(Question(h)) \in Nat
<1>1. Len(h) \in 0..Len(h)
  BY LenProperties
<1>2. Built(h)[Len(h)] \in Building
  BY <1>1, BuiltBuilding
<1>3. Built(h)[Len(h)].bytes \in Seq(Byte)
  BY <1>2 DEF Building
<1>4. 0 \in Byte /\ << 0, 1, 0, 1 >> \in Seq(Byte)
  BY DEF Byte
<1>5. Qname(h) \in Seq(Byte)
  BY <1>3, <1>4, AppendProperties DEF Qname
<1>6. Question(h) \in Seq(Byte)
  BY <1>4, <1>5, ConcatProperties DEF Question
<1> QED BY <1>6, LenProperties

\* What stands where in two sequences one behind the other
LEMMA Appended ==
  ASSUME NEW S, NEW s \in Seq(S), NEW t \in Seq(S)
  PROVE  /\ s \o t \in Seq(S) /\ Len(s \o t) = Len(s) + Len(t)
         /\ Len(s) \in Nat /\ Len(t) \in Nat
         /\ \A i \in 1..Len(s) : (s \o t)[i] = s[i]
         /\ \A i \in 1..Len(t) : (s \o t)[Len(s) + i] = t[i]
<1> DEFINE n == Len(s)
           m == Len(t)
           c == s \o t
<1>1. c \in Seq(S) /\ Len(c) = n + m /\ n \in Nat /\ m \in Nat
  BY ConcatProperties, LenProperties
<1>2. \A i \in 1..(n + m) : c[i] = IF i <= n THEN s[i] ELSE t[i - n]
  BY ConcatProperties
<1> HIDE DEF n, m, c
<1>3. ASSUME NEW i \in 1..n PROVE c[i] = s[i]
  <2>1. i \in 1..(n + m) /\ i <= n
    BY <1>1
  <2> QED BY <2>1, <1>2
<1>4. ASSUME NEW i \in 1..m PROVE c[n + i] = t[i]
  <2>1. n + i \in 1..(n + m) /\ ~(n + i <= n) /\ (n + i) - n = i
    BY <1>1
  <2>2. c[n + i] = t[(n + i) - n]
    BY <2>1, <1>2
  <2> QED BY <2>1, <2>2
<1> QED BY <1>1, <1>3, <1>4 DEF n, m, c

\* Appending a field
LEMMA FieldAppended ==
  ASSUME NEW s \in Seq(Byte), NEW n \in Short
  PROVE  /\ s \o Field(n) \in Seq(Byte) /\ Len(s \o Field(n)) = Len(s) + 2
         /\ \A i \in 1..Len(s) : (s \o Field(n))[i] = s[i]
         /\ FieldAt(s \o Field(n), Len(s) + 1) = n
<1> DEFINE f == Field(n)
<1>1. f \in Seq(Byte) /\ Len(f) = 2 /\ FieldAt(f, 1) = n
  BY FieldHolds
<1> HIDE DEF f
<1>2. /\ s \o f \in Seq(Byte) /\ Len(s \o f) = Len(s) + Len(f) /\ Len(s) \in Nat
      /\ \A i \in 1..Len(s) : (s \o f)[i] = s[i]
      /\ \A i \in 1..Len(f) : (s \o f)[Len(s) + i] = f[i]
  BY <1>1, Appended
<1>3. (s \o f)[Len(s) + 1] = f[1] /\ (s \o f)[Len(s) + 2] = f[2]
  BY <1>1, <1>2
<1>4. Len(s) + 1 + 1 = Len(s) + 2
  BY <1>2
<1> QED BY <1>1, <1>2, <1>3, <1>4 DEF f, FieldAt

\* A header is twelve bytes and tells how many answers there are.
LEMMA HeaderTells ==
  ASSUME NEW n \in Short
  PROVE  Header(n) \in Seq(Byte) /\ Len(Header(n)) = HeaderLen /\ FieldAt(Header(n), 7) = n
<1> DEFINE a == << 0, 0, 1, 0, 0, 1 >>
           g == a \o Field(n)
           z == << 0, 0, 0, 0 >>
<1>1. a \in Seq(Byte) /\ Len(a) = 6 /\ z \in Seq(Byte) /\ Len(z) = 4
  BY DEF Byte
<1>2. Header(n) = g \o z
  BY DEF Header
<1> HIDE DEF a, z
<1>3. g \in Seq(Byte) /\ Len(g) = Len(a) + 2 /\ FieldAt(g, Len(a) + 1) = n
  BY <1>1, FieldAppended
<1> HIDE DEF g
<1>4. Len(g) = 8 /\ FieldAt(g, 7) = n
  <2>1. Len(a) + 1 = 7 /\ Len(a) + 2 = 8
    BY <1>1
  <2> QED BY <1>3, <2>1
<1>5. /\ g \o z \in Seq(Byte) /\ Len(g \o z) = Len(g) + Len(z)
      /\ \A i \in 1..Len(g) : (g \o z)[i] = g[i]
  <2>1. g \in Seq(Byte) /\ z \in Seq(Byte)
    BY <1>1, <1>3
  <2> QED BY <2>1, Appended
<1>6. (g \o z)[7] = g[7] /\ (g \o z)[8] = g[8]
  BY <1>4, <1>5
<1> QED BY <1>1, <1>2, <1>5, <1>6, <1>4 DEF FieldAt, HeaderLen

\* A record is its name, the numbers of its type, its class and the length of
\* its data, and the data.
LEMMA RecordTells ==
  ASSUME NEW r \in ResourceRecord, Len(r.data) \in Short
  PROVE  /\ Record(r) \in Seq(Byte)
         /\ Len(r.name) \in Nat /\ Len(r.data) \in Nat
         /\ Len(Record(r)) = Len(r.name) + RDataLen + Len(r.data)
         /\ \A i \in 1..Len(r.name) : Record(r)[i] = r.name[i]
         /\ FieldAt(Record(r), Len(r.name) + 1) = r.type
         /\ FieldAt(Record(r), Len(r.name) + 3) = r.class
         /\ FieldAt(Record(r), Len(r.name) + 9) = Len(r.data)
         /\ \A i \in 1..Len(r.data) : Record(r)[Len(r.name) + RDataLen + i] = r.data[i]
<1> DEFINE n == Len(r.name)
           m == Len(r.data)
           z == << 0, 0, 0, 9 >>
           s1 == r.name \o Field(r.type)
           s2 == s1 \o Field(r.class)
           s3 == s2 \o z
           s4 == s3 \o Field(m)
           s5 == s4 \o r.data
<1>1. /\ r.name \in Seq(Byte) /\ r.data \in Seq(Byte) /\ r.type \in Short /\ r.class \in Short
      /\ m \in Short /\ n \in Nat /\ m \in Nat
  BY LenProperties DEF ResourceRecord
<1>2. z \in Seq(Byte) /\ Len(z) = 4
  BY DEF Byte
<1>3. Record(r) = s5
  BY DEF Record
<1> HIDE DEF z
<1>4. /\ s1 \in Seq(Byte) /\ Len(s1) = n + 2
      /\ \A i \in 1..n : s1[i] = r.name[i]
      /\ FieldAt(s1, n + 1) = r.type
  BY <1>1, FieldAppended
<1> HIDE DEF s1
<1>5. /\ s2 \in Seq(Byte) /\ Len(s2) = Len(s1) + 2
      /\ \A i \in 1..Len(s1) : s2[i] = s1[i]
      /\ FieldAt(s2, Len(s1) + 1) = r.class
  BY <1>1, <1>4, FieldAppended
<1> HIDE DEF s2
<1>6. /\ s3 \in Seq(Byte) /\ Len(s3) = Len(s2) + Len(z)
      /\ \A i \in 1..Len(s2) : s3[i] = s2[i]
  <2>1. s2 \in Seq(Byte) /\ z \in Seq(Byte)
    BY <1>2, <1>5
  <2> QED BY <2>1, Appended
<1> HIDE DEF s3
<1>7. /\ s4 \in Seq(Byte) /\ Len(s4) = Len(s3) + 2
      /\ \A i \in 1..Len(s3) : s4[i] = s3[i]
      /\ FieldAt(s4, Len(s3) + 1) = m
  BY <1>1, <1>6, FieldAppended
<1> HIDE DEF s4
<1>8. /\ s5 \in Seq(Byte) /\ Len(s5) = Len(s4) + m
      /\ \A i \in 1..Len(s4) : s5[i] = s4[i]
      /\ \A i \in 1..m : s5[Len(s4) + i] = r.data[i]
  <2>1. s4 \in Seq(Byte) /\ r.data \in Seq(Byte)
    BY <1>1, <1>7
  <2> QED BY <2>1, Appended
<1> HIDE DEF s5
<1>9. /\ Len(s1) = n + 2 /\ Len(s2) = n + 4 /\ Len(s3) = n + 8 /\ Len(s4) = n + 10
      /\ Len(s5) = n + 10 + m
  BY <1>1, <1>2, <1>4, <1>5, <1>6, <1>7, <1>8
<1>10. \A i \in 1..(n + 2) : s5[i] = s1[i]
  <2> SUFFICES ASSUME NEW i \in 1..(n + 2) PROVE s5[i] = s1[i]
    OBVIOUS
  <2>1. i \in 1..(n + 4) /\ i \in 1..(n + 8) /\ i \in 1..(n + 10)
    BY <1>1
  <2> QED BY <2>1, <1>5, <1>6, <1>7, <1>8, <1>9
<1>11. \A i \in 1..(n + 4) : s5[i] = s2[i]
  <2> SUFFICES ASSUME NEW i \in 1..(n + 4) PROVE s5[i] = s2[i]
    OBVIOUS
  <2>1. i \in 1..(n + 8) /\ i \in 1..(n + 10)
    BY <1>1
  <2> QED BY <2>1, <1>6, <1>7, <1>8, <1>9
<1>12. \A i \in 1..n : s5[i] = r.name[i]
  BY <1>1, <1>4, <1>10
<1>13. FieldAt(s5, n + 1) = r.type
  <2>1. n + 1 \in 1..(n + 2) /\ n + 1 + 1 \in 1..(n + 2)
    BY <1>1
  <2>2. s5[n + 1] = s1[n + 1] /\ s5[n + 1 + 1] = s1[n + 1 + 1]
    BY <2>1, <1>10
  <2> QED BY <2>2, <1>4 DEF FieldAt
<1>14. FieldAt(s5, n + 3) = r.class
  <2>1. n + 3 \in 1..(n + 4) /\ n + 3 + 1 \in 1..(n + 4) /\ Len(s1) + 1 = n + 3
    BY <1>1, <1>9
  <2>2. s5[n + 3] = s2[n + 3] /\ s5[n + 3 + 1] = s2[n + 3 + 1]
    BY <2>1, <1>11
  <2> QED BY <2>1, <2>2, <1>5 DEF FieldAt
<1>15. FieldAt(s5, n + 9) = m
  <2>1. n + 9 \in 1..Len(s4) /\ n + 9 + 1 \in 1..Len(s4) /\ Len(s3) + 1 = n + 9
    BY <1>1, <1>9
  <2>2. s5[n + 9] = s4[n + 9] /\ s5[n + 9 + 1] = s4[n + 9 + 1]
    BY <2>1, <1>8
  <2> QED BY <2>1, <2>2, <1>7 DEF FieldAt
<1>16. \A i \in 1..m : s5[n + 10 + i] = r.data[i]
  BY <1>8, <1>9
<1> QED BY <1>1, <1>3, <1>8, <1>9, <1>12, <1>13, <1>14, <1>15, <1>16 DEF RDataLen

\* The message grows by its records.
LEMMA WrittenByRecord ==
  ASSUME NEW a, Answerable(a), host \in Seq(Byte)
  PROVE  /\ Len(a) \in Nat
         /\ \A k \in 0..Len(a) : Written(a)[k] \in Seq(Byte)
         /\ Written(a)[0] = Header(Len(a)) \o Question(host)
         /\ \A k \in 1..Len(a) : Written(a)[k] = Written(a)[k - 1] \o Record(a[k])
<1> DEFINE x == Header(Len(a)) \o Question(host)
           Eq(f) == f = [k \in 0..Len(a) |-> IF k = 0 THEN x ELSE f[k - 1] \o Record(a[k])]
           step == [k \in 1..Len(a) |-> [s \in Seq(Byte) |-> s \o Record(a[k])]]
<1>0. Len(a) \in Nat /\ Len(a) \in Short
  <2>1. Len(a) \in Short
    BY DEF Answerable
  <2> QED BY <2>1, ShortIs
<1>1. x \in Seq(Byte)
  <2>1. Header(Len(a)) \in Seq(Byte) /\ Question(host) \in Seq(Byte)
    BY <1>0, HeaderTells, QuestionBytesType
  <2> QED BY <2>1, ConcatProperties
<1>2. \A k \in 1..Len(a) : Record(a[k]) \in Seq(Byte)
  <2> SUFFICES ASSUME NEW k \in 1..Len(a) PROVE Record(a[k]) \in Seq(Byte)
    OBVIOUS
  <2>1. a[k] \in ResourceRecord /\ Len(a[k].data) \in Short
    BY ElementOfSeq DEF Answerable
  <2> QED BY <2>1, RecordTells
<1>3. step \in [1..Len(a) -> [Seq(Byte) -> Seq(Byte)]]
  <2>1. ASSUME NEW k \in 1..Len(a), NEW s \in Seq(Byte) PROVE s \o Record(a[k]) \in Seq(Byte)
    BY <1>2, ConcatProperties
  <2> QED BY <2>1
<1> HIDE DEF x
<1>4. PICK f : Follows(f, Seq(Byte), Len(a), x, step)
  <2> HIDE DEF step
  <2>1. Len(a) \in Nat
    BY <1>0
  <2> QED BY <2>1, <1>1, <1>3, StepsExist
<1>5. Eq(f)
  <2>1. ASSUME NEW k \in 0..Len(a) PROVE f[k] = IF k = 0 THEN x ELSE f[k - 1] \o Record(a[k])
    <3>1. CASE k = 0
      BY <3>1, <1>4 DEF Follows
    <3>2. CASE k # 0
      <4>1. k \in 1..Len(a) /\ k - 1 \in 0..Len(a)
        BY <3>2, <1>0
      <4>2. f[k] = step[k][f[k - 1]] /\ f[k - 1] \in Seq(Byte)
        BY <4>1, <1>4 DEF Follows
      <4> QED BY <4>1, <4>2, <3>2
    <3> QED BY <3>1, <3>2
  <2>2. f = [k \in 0..Len(a) |-> f[k]]
    BY <1>4 DEF Follows
  <2> QED BY <2>1, <2>2
<1>6. Written(a) = CHOOSE g : Eq(g)
  BY DEF Written, x
<1>7. Eq(Written(a))
  <2> HIDE DEF Eq
  <2> QED BY <1>5, <1>6
<1> DEFINE w == Written(a)
           S == { k \in 0..Len(a) : w[k] \in Seq(Byte) }
<1>8. \A k \in 0..Len(a) : w[k] = IF k = 0 THEN x ELSE w[k - 1] \o Record(a[k])
  BY <1>7
<1> HIDE DEF w
<1>9. w[0] = x
  <2>1. 0 \in 0..Len(a)
    BY <1>0
  <2> QED BY <2>1, <1>8
<1>10. \A k \in 1..Len(a) : w[k] = w[k - 1] \o Record(a[k])
  <2> SUFFICES ASSUME NEW k \in 1..Len(a) PROVE w[k] = w[k - 1] \o Record(a[k])
    OBVIOUS
  <2>1. k \in 0..Len(a) /\ k # 0
    BY <1>0
  <2> QED BY <2>1, <1>8
<1>11. 0 \in S
  BY <1>0, <1>1, <1>9
<1>12. ASSUME NEW k \in 0..(Len(a) - 1), k \in S PROVE k + 1 \in S
  <2>1. k + 1 \in 0..Len(a) /\ k + 1 \in 1..Len(a) /\ (k + 1) - 1 = k
    BY <1>0
  <2>2. w[k + 1] = w[k] \o Record(a[k + 1])
    BY <2>1, <1>10
  <2>3. w[k] \in Seq(Byte) /\ Record(a[k + 1]) \in Seq(Byte)
    BY <2>1, <1>2, <1>12
  <2>4. w[k] \o Record(a[k + 1]) \in Seq(Byte)
    BY <2>3, ConcatProperties
  <2> QED BY <2>1, <2>2, <2>4
<1>13. \A k \in 0..Len(a) : k \in S
  <2> HIDE DEF S
  <2> QED BY <1>0, <1>11, <1>12, UpTo
<1> QED BY <1>0, <1>9, <1>10, <1>13 DEF w, x

\* What was written stays as it is.
LEMMA WrittenStays ==
  ASSUME NEW a, Answerable(a), host \in Seq(Byte), NEW j \in 0..Len(a)
  PROVE  \A k \in 0..Len(a) : j <= k =>
           /\ Len(Written(a)[j]) <= Len(Written(a)[k])
           /\ \A i \in 1..Len(Written(a)[j]) : Written(a)[k][i] = Written(a)[j][i]
<1> DEFINE w == Written(a)
           Good(k) == /\ Len(w[j]) <= Len(w[k])
                      /\ \A i \in 1..Len(w[j]) : w[k][i] = w[j][i]
           S == { k \in 0..Len(a) : j <= k => Good(k) }
<1>1. /\ Len(a) \in Nat
      /\ \A k \in 0..Len(a) : w[k] \in Seq(Byte)
      /\ \A k \in 1..Len(a) : w[k] = w[k - 1] \o Record(a[k])
  BY WrittenByRecord
<1> HIDE DEF w
<1>2. \A k \in 0..Len(a) : Len(w[k]) \in Nat
  BY <1>1, LenProperties
<1>3. Good(j)
  BY <1>2
<1>4. 0 \in S
  <2>1. j <= 0 => j = 0
    BY <1>1
  <2>2. 0 \in 0..Len(a)
    BY <1>1
  <2> HIDE DEF Good
  <2> QED BY <2>1, <2>2, <1>3
<1>5. ASSUME NEW k \in 0..(Len(a) - 1), k \in S PROVE k + 1 \in S
  <2>1. k + 1 \in 0..Len(a) /\ k + 1 \in 1..Len(a) /\ (k + 1) - 1 = k /\ k \in 0..Len(a)
    BY <1>1
  <2>2. CASE j <= k
    <3>1. Good(k)
      <4> HIDE DEF Good
      <4> QED BY <1>5, <2>2
    <3>2. w[k + 1] = w[k] \o Record(a[k + 1])
      BY <2>1, <1>1
    <3>3. a[k + 1] \in ResourceRecord /\ Len(a[k + 1].data) \in Short
      BY <2>1, ElementOfSeq DEF Answerable
    <3>4. Record(a[k + 1]) \in Seq(Byte)
      BY <3>3, RecordTells
    <3> DEFINE r == Record(a[k + 1])
               v == w[k]
    <3>5. v \in Seq(Byte) /\ r \in Seq(Byte)
      BY <2>1, <1>1, <3>4
    <3> HIDE DEF r, v
    <3>6. /\ Len(v \o r) = Len(v) + Len(r) /\ Len(v) \in Nat /\ Len(r) \in Nat
          /\ \A i \in 1..Len(v) : (v \o r)[i] = v[i]
      BY <3>5, Appended
    <3>7. w[k + 1] = v \o r
      BY <3>2 DEF v, r
    <3>8. Len(w[j]) \in Nat /\ Len(w[j]) <= Len(v) /\ \A i \in 1..Len(w[j]) : v[i] = w[j][i]
      BY <3>1, <1>2 DEF v
    <3>9. Good(k + 1)
      BY <3>6, <3>7, <3>8
    <3> HIDE DEF Good
    <3> QED BY <3>9, <2>1
  <2>3. CASE ~(j <= k)
    <3>1. j <= k + 1 => j = k + 1
      BY <2>3, <1>1
    <3> HIDE DEF Good
    <3> QED BY <3>1, <1>3, <2>1
  <2> QED BY <2>2, <2>3
<1>6. \A k \in 0..Len(a) : k \in S
  <2> HIDE DEF S
  <2> QED BY <1>1, <1>4, <1>5, UpTo
<1> QED BY <1>6 DEF w

\* Where a record is in the message
LEMMA RecordInMessage ==
  ASSUME NEW a, Answerable(a), host \in Seq(Byte), NEW j \in 1..Len(a)
  PROVE  /\ Len(Written(a)[j - 1]) \in Nat /\ Len(Message(a)) \in Nat
         /\ Len(Written(a)[j]) = Len(Written(a)[j - 1]) + Len(Record(a[j]))
         /\ Len(Written(a)[j]) <= Len(Message(a))
         /\ \A i \in 1..Len(Record(a[j])) :
              Message(a)[Len(Written(a)[j - 1]) + i] = Record(a[j])[i]
<1> DEFINE w == Written(a)
           m == Message(a)
           r == Record(a[j])
           v == w[j - 1]
<1>1. /\ Len(a) \in Nat /\ \A k \in 0..Len(a) : w[k] \in Seq(Byte)
      /\ \A k \in 1..Len(a) : w[k] = w[k - 1] \o Record(a[k])
  BY WrittenByRecord
<1>2. j \in 0..Len(a) /\ j - 1 \in 0..Len(a) /\ Len(a) \in 0..Len(a) /\ j <= Len(a)
  BY <1>1
<1>3. Len(w[j]) <= Len(m) /\ \A i \in 1..Len(w[j]) : m[i] = w[j][i]
  BY <1>2, WrittenStays DEF Message
<1>4. a[j] \in ResourceRecord /\ Len(a[j].data) \in Short
  BY ElementOfSeq DEF Answerable
<1>5. r \in Seq(Byte)
  BY <1>4, RecordTells
<1>6. m \in Seq(Byte) /\ v \in Seq(Byte) /\ w[j] = v \o r
  BY <1>1, <1>2 DEF Message
<1> HIDE DEF w, m, r, v
<1>7. /\ Len(v \o r) = Len(v) + Len(r) /\ Len(v) \in Nat /\ Len(r) \in Nat
      /\ \A i \in 1..Len(r) : (v \o r)[Len(v) + i] = r[i]
  BY <1>5, <1>6, Appended
<1>8. Len(m) \in Nat
  BY <1>6, LenProperties
<1>9. ASSUME NEW i \in 1..Len(r) PROVE m[Len(v) + i] = r[i]
  <2>1. Len(v) + i \in 1..(Len(v) + Len(r))
    BY <1>7
  <2>2. m[Len(v) + i] = w[j][Len(v) + i]
    BY <2>1, <1>3, <1>6, <1>7
  <2> QED BY <2>2, <1>6, <1>7
<1> QED BY <1>3, <1>6, <1>7, <1>8, <1>9 DEF w, m, r, v

\* The beginning of the message
LEMMA HeaderInMessage ==
  ASSUME NEW a, Answerable(a), host \in Seq(Byte)
  PROVE  /\ Len(a) \in Nat /\ Len(Message(a)) \in Nat /\ Len(Question(host)) \in Nat
         /\ Len(Written(a)[0]) = HeaderLen + Len(Question(host))
         /\ Len(Written(a)[0]) <= Len(Message(a))
         /\ FieldAt(Message(a), 7) = Len(a)
<1> DEFINE w == Written(a)
           m == Message(a)
           h == Header(Len(a))
           q == Question(host)
<1>1. Len(a) \in Nat /\ Len(a) \in Short /\ \A k \in 0..Len(a) : w[k] \in Seq(Byte)
  BY WrittenByRecord DEF Answerable
<1>2. w[0] = h \o q
  BY WrittenByRecord
<1>3. 0 \in 0..Len(a) /\ Len(a) \in 0..Len(a) /\ 0 <= Len(a)
  BY <1>1
<1>4. Len(w[0]) <= Len(m) /\ \A i \in 1..Len(w[0]) : m[i] = w[0][i]
  BY <1>3, WrittenStays DEF Message
<1>5. h \in Seq(Byte) /\ Len(h) = 12 /\ FieldAt(h, 7) = Len(a)
  BY <1>1, HeaderTells DEF HeaderLen
<1>6. q \in Seq(Byte) /\ m \in Seq(Byte)
  BY <1>1, <1>3, QuestionBytesType DEF Message
<1> HIDE DEF w, m, h, q
<1>7. /\ Len(h \o q) = Len(h) + Len(q) /\ Len(q) \in Nat
      /\ \A i \in 1..Len(h) : (h \o q)[i] = h[i]
  <2>1. h \in Seq(Byte) /\ q \in Seq(Byte)
    BY <1>5, <1>6
  <2> QED BY <2>1, Appended
<1>8. m[7] = h[7] /\ m[8] = h[8]
  <2>1. 7 \in 1..Len(h) /\ 8 \in 1..Len(h)
    BY <1>5
  <2>2. Len(w[0]) = 12 + Len(q)
    BY <1>2, <1>5, <1>7
  <2>3. 7 \in 1..Len(w[0]) /\ 8 \in 1..Len(w[0])
    BY <2>2, <1>7
  <2>4. m[7] = w[0][7] /\ m[8] = w[0][8]
    BY <2>3, <1>4
  <2>5. (h \o q)[7] = h[7] /\ (h \o q)[8] = h[8]
    BY <2>1, <1>7
  <2> QED BY <2>4, <2>5, <1>2
<1>9. Len(m) \in Nat
  BY <1>6, LenProperties
<1> QED BY <1>1, <1>2, <1>4, <1>5, <1>7, <1>8, <1>9 DEF w, m, h, q, FieldAt, HeaderLen

\* The addresses of an answer, record by record
LEMMA AddressesByRecord ==
  ASSUME NEW a \in Seq(ResourceRecord)
  PROVE  /\ \A k \in 0..Len(a) : AddressesOf(a)[k] \in Seq(Seq(Byte))
         /\ AddressesOf(a)[0] = << >>
         /\ \A k \in 1..Len(a) :
              AddressesOf(a)[k] = IF IsAddress(a[k]) THEN Append(AddressesOf(a)[k - 1], a[k].data)
                                  ELSE AddressesOf(a)[k - 1]
<1> DEFINE T == Seq(Seq(Byte))
           With(k, s) == IF IsAddress(a[k]) THEN Append(s, a[k].data) ELSE s
           Eq(f) == f = [k \in 0..Len(a) |-> IF k = 0 THEN << >> ELSE With(k, f[k - 1])]
           step == [k \in 1..Len(a) |-> [s \in T |-> With(k, s)]]
<1>0. Len(a) \in Nat
  BY LenProperties
<1>1. << >> \in T
  BY EmptySeq
<1>2. ASSUME NEW k \in 1..Len(a), NEW s \in T PROVE With(k, s) \in T
  <2>1. a[k] \in ResourceRecord
    BY ElementOfSeq
  <2>2. a[k].data \in Seq(Byte)
    BY <2>1 DEF ResourceRecord
  <2>3. Append(s, a[k].data) \in T
    BY <2>2, AppendProperties
  <2> QED BY <2>3
<1>4. AddressesOf(a) = CHOOSE g : Eq(g)
  BY DEF AddressesOf
<1> HIDE DEF With
<1>5. step \in [1..Len(a) -> [T -> T]]
  BY <1>2
<1> HIDE DEF T
<1>6. PICK f : Follows(f, T, Len(a), << >>, step)
  <2> HIDE DEF step
  <2> QED BY <1>0, <1>1, <1>5, StepsExist
<1>7. Eq(f)
  <2>1. ASSUME NEW k \in 0..Len(a) PROVE f[k] = IF k = 0 THEN << >> ELSE With(k, f[k - 1])
    <3>1. CASE k = 0
      BY <3>1, <1>6 DEF Follows
    <3>2. CASE k # 0
      <4>1. k \in 1..Len(a) /\ k - 1 \in 0..Len(a)
        BY <3>2, <1>0
      <4>2. f[k] = step[k][f[k - 1]] /\ f[k - 1] \in T
        BY <4>1, <1>6 DEF Follows
      <4> QED BY <4>1, <4>2, <3>2
    <3> QED BY <3>1, <3>2
  <2>2. f = [k \in 0..Len(a) |-> f[k]]
    BY <1>6 DEF Follows
  <2> QED BY <2>1, <2>2
<1>8. Eq(AddressesOf(a))
  <2> HIDE DEF Eq
  <2> QED BY <1>4, <1>7
<1> DEFINE w == AddressesOf(a)
           S == { k \in 0..Len(a) : w[k] \in T }
<1>9. \A k \in 0..Len(a) : w[k] = IF k = 0 THEN << >> ELSE With(k, w[k - 1])
  BY <1>8
<1> HIDE DEF w
<1>10. w[0] = << >>
  <2>1. 0 \in 0..Len(a)
    BY <1>0
  <2> QED BY <2>1, <1>9
<1>11. \A k \in 1..Len(a) : w[k] = With(k, w[k - 1])
  <2> SUFFICES ASSUME NEW k \in 1..Len(a) PROVE w[k] = With(k, w[k - 1])
    OBVIOUS
  <2>1. k \in 0..Len(a) /\ k # 0
    BY <1>0
  <2> QED BY <2>1, <1>9
<1>12. 0 \in S
  BY <1>0, <1>1, <1>10
<1>13. ASSUME NEW k \in 0..(Len(a) - 1), k \in S PROVE k + 1 \in S
  <2>1. k + 1 \in 0..Len(a) /\ k + 1 \in 1..Len(a) /\ (k + 1) - 1 = k
    BY <1>0
  <2>2. w[k + 1] = With(k + 1, w[k])
    BY <2>1, <1>11
  <2> QED BY <2>1, <2>2, <1>13, <1>2
<1>14. \A k \in 0..Len(a) : k \in S
  <2> HIDE DEF S
  <2> QED BY <1>0, <1>12, <1>13, UpTo
<1> QED BY <1>10, <1>11, <1>14 DEF w, With, T

\* What is kept of one address more
LEMMA KeptOneMore ==
  ASSUME NEW S, NEW s \in Seq(S), NEW x \in S, MaxAddrs \in Nat
  PROVE  /\ Kept(s) \in Seq(S) /\ Len(Kept(s)) <= MaxAddrs /\ Len(Kept(s)) \in Nat
         /\ Kept(Append(s, x)) = IF Len(Kept(s)) >= MaxAddrs THEN Kept(s) ELSE Append(Kept(s), x)
<1> DEFINE n == IF Len(s) <= MaxAddrs THEN Len(s) ELSE MaxAddrs
           t == Append(s, x)
           m == IF Len(t) <= MaxAddrs THEN Len(t) ELSE MaxAddrs
           k == SubSeq(s, 1, n)
           l == SubSeq(t, 1, m)
<1>0. Len(s) \in Nat
  BY LenProperties
<1>1. /\ t \in Seq(S) /\ Len(t) = Len(s) + 1
      /\ \A i \in 1..Len(s) : t[i] = s[i]
      /\ t[Len(s) + 1] = x
  BY AppendProperties
<1>2. Kept(s) = k /\ Kept(Append(s, x)) = l
  BY DEF Kept
<1> HIDE DEF t
<1>3. n \in Nat /\ n <= Len(s) /\ n <= MaxAddrs /\ m \in Nat /\ m <= Len(t) /\ m <= Len(s) + 1
  BY <1>0, <1>1
<1>4. Len(s) < MaxAddrs => n = Len(s) /\ m = Len(s) + 1
  BY <1>0, <1>1
<1>5. Len(s) >= MaxAddrs => n = MaxAddrs /\ m = MaxAddrs
  BY <1>0, <1>1
<1> HIDE DEF n, m
<1>6. k \in Seq(S) /\ Len(k) = n /\ \A i \in 1..n : k[i] = s[i]
  <2>1. \A i \in 1..n : s[i] \in S
    <3> SUFFICES ASSUME NEW i \in 1..n PROVE s[i] \in S
      OBVIOUS
    <3>1. i \in 1..Len(s)
      BY <1>0, <1>3
    <3> QED BY <3>1, ElementOfSeq
  <2>2. /\ k \in Seq(S) /\ Len(k) = IF 1 <= n THEN n - 1 + 1 ELSE 0
        /\ \A i \in 1..(n - 1 + 1) : k[i] = s[1 + i - 1]
    BY <2>1, <1>3, SubSeqProperties
  <2> QED BY <2>2, <1>3
<1>7. l \in Seq(S) /\ Len(l) = m /\ \A i \in 1..m : l[i] = t[i]
  <2>1. \A i \in 1..m : t[i] \in S
    <3> SUFFICES ASSUME NEW i \in 1..m PROVE t[i] \in S
      OBVIOUS
    <3>1. i \in 1..Len(t)
      BY <1>0, <1>1, <1>3
    <3> QED BY <3>1, <1>1, ElementOfSeq
  <2>2. /\ l \in Seq(S) /\ Len(l) = IF 1 <= m THEN m - 1 + 1 ELSE 0
        /\ \A i \in 1..(m - 1 + 1) : l[i] = t[1 + i - 1]
    BY <2>1, <1>3, SubSeqProperties
  <2> QED BY <2>2, <1>3
<1> HIDE DEF k, l
<1>8. CASE Len(s) >= MaxAddrs
  <2>1. n = MaxAddrs /\ m = MaxAddrs /\ \A i \in 1..n : i \in 1..Len(s)
    BY <1>0, <1>5, <1>8
  <2>2. \A i \in 1..Len(k) : l[i] = k[i]
    BY <2>1, <1>1, <1>6, <1>7
  <2>3. l = k
    BY <2>1, <2>2, <1>6, <1>7, SeqEqual
  <2> QED BY <2>1, <2>3, <1>2, <1>6
<1>9. CASE Len(s) < MaxAddrs
  <2>1. n = Len(s) /\ m = Len(s) + 1
    BY <1>4, <1>9
  <2>2. /\ Append(k, x) \in Seq(S) /\ Len(Append(k, x)) = Len(k) + 1
        /\ \A i \in 1..Len(k) : Append(k, x)[i] = k[i]
        /\ Append(k, x)[Len(k) + 1] = x
    BY <1>6, AppendProperties
  <2>3. ASSUME NEW i \in 1..(Len(s) + 1) PROVE l[i] = Append(k, x)[i]
    <3>1. CASE i = Len(s) + 1
      BY <3>1, <2>1, <2>2, <1>1, <1>6, <1>7
    <3>2. CASE i # Len(s) + 1
      <4>1. i \in 1..Len(s)
        BY <3>2, <1>0
      <4> QED BY <4>1, <2>1, <2>2, <1>1, <1>6, <1>7
    <3> QED BY <3>1, <3>2
  <2>4. l = Append(k, x)
    <3>1. Len(l) = Len(s) + 1 /\ Len(Append(k, x)) = Len(s) + 1
      BY <2>1, <2>2, <1>6, <1>7
    <3>2. \A i \in 1..Len(l) : l[i] = Append(k, x)[i]
      BY <3>1, <2>3
    <3>3. l \in Seq(S) /\ Append(k, x) \in Seq(S) /\ Len(l) = Len(Append(k, x))
      BY <3>1, <2>2, <1>7
    <3> QED BY <3>2, <3>3, SeqEqual
  <2> QED BY <2>1, <2>4, <1>0, <1>2, <1>6, <1>9
<1> QED BY <1>0, <1>8, <1>9

-----------------------------------------------------------------------------
(* The parser in a server's answer.                                        *)

\* The datagram is of a server, and the parser is in it.
InAnswer == sent.by = "server" /\ at \in { "header", "name", "rdata" }

\* The record that is next, and where it starts
NextRecord == Len(sent.records) - left + 1
NextStart == Len(Written(sent.records)[NextRecord - 1])

\* What servers answer is as assumed.
LEMMA AnswersAnswerable ==
  ASSUME NEW a \in Answers
  PROVE  Answerable(a)
BY DnsUtilAssumption DEF Answerable

\* The datagram is the beginning of the message the server sent.
LEMMA DatagramOfServer ==
  ASSUME ParserIInv, InAnswer
  PROVE  /\ Answerable(sent.records) /\ host \in Seq(Byte)
         /\ Len(buf) \in Nat /\ Len(buf) <= Len(Message(sent.records))
         /\ \A i \in 1..Len(buf) : buf[i] = Message(sent.records)[i]
         /\ sent.whole => Len(buf) = Len(Message(sent.records))
         /\ Len(buf) = Len(Message(sent.records)) => sent.whole
<1> DEFINE m == Message(sent.records)
           n == Len(buf)
<1>1. Arrived /\ host \in Hosts /\ buf \in Seq(Byte)
  BY DEF ParserIInv, ParserTypeOK, InAnswer
<1>2. Answerable(sent.records) /\ host \in Seq(Byte)
  BY <1>1, AnswersAnswerable, DnsUtilAssumption DEF Arrived
<1>3. n \in Nat
  BY <1>1, LenProperties
<1>4. n <= Len(m) /\ buf = SubSeq(m, 1, n) /\ (sent.whole <=> n = Len(m))
  BY <1>1 DEF Arrived
<1>5. m \in Seq(Byte)
  <2>1. Len(sent.records) \in 0..Len(sent.records)
    BY <1>2, WrittenByRecord
  <2> QED BY <2>1, <1>2, WrittenByRecord DEF Message
<1> HIDE DEF m
<1>6. ASSUME NEW i \in 1..n PROVE buf[i] = m[i]
  <2>1. Len(m) \in Nat /\ \A k \in 1..Len(m) : m[k] \in Byte
    BY <1>5, LenProperties, ElementOfSeq
  <2> DEFINE b == SubSeq(m, 1, n)
  <2>2. \A k \in 1..n : m[k] \in Byte
    BY <2>1, <1>3, <1>4
  <2> HIDE DEF n
  <2>3. \A k \in 1..(n - 1 + 1) : b[k] = m[1 + k - 1]
    BY <2>2, <1>3, SubSeqProperties
  <2>4. buf = b
    BY <1>4
  <2> HIDE DEF b
  <2>5. b[i] = m[i]
    BY <2>3, <1>3
  <2> QED BY <2>4, <2>5
<1> QED BY <1>2, <1>3, <1>4, <1>6 DEF m

\* The header of a server's answer tells how many records there are, and of
\* one that was not cut it can be read.
LEMMA HeaderOfServer ==
  ASSUME ParserIInv, InAnswer, at = "header"
  PROVE  /\ Reads(HeaderLen) => Word(6) = Len(sent.records)
         /\ sent.whole => Reads(HeaderLen) /\ Reads(HeaderLen + QuestionBytes)
         /\ read_ndx + HeaderLen + QuestionBytes = Len(Written(sent.records)[0])
         /\ Len(sent.records) \in Nat
<1> DEFINE m == Message(sent.records)
           l == Len(Question(host))
<1>1. Answerable(sent.records) /\ host \in Seq(Byte)
  BY DatagramOfServer
<1>2. /\ Len(buf) \in Nat /\ Len(buf) <= Len(m)
      /\ \A i \in 1..Len(buf) : buf[i] = m[i]
      /\ sent.whole => Len(buf) = Len(m)
  BY DatagramOfServer
<1>3. /\ Len(sent.records) \in Nat /\ Len(m) \in Nat /\ l \in Nat
      /\ Len(Written(sent.records)[0]) = HeaderLen + l
      /\ Len(Written(sent.records)[0]) <= Len(m)
      /\ FieldAt(m, 7) = Len(sent.records)
  BY <1>1, HeaderInMessage
<1>4. read_ndx = 0 /\ qlen = HeaderLen + l
  BY DEF ParserIInv
<1> HIDE DEF m, l
<1>5. HeaderLen = 12
  BY DEF HeaderLen
<1>6. QuestionBytes = l
  BY <1>3, <1>4, <1>5 DEF QuestionBytes
<1>7. ASSUME Reads(HeaderLen) PROVE Word(6) = Len(sent.records)
  <2>1. 12 <= Len(buf)
    BY <1>2, <1>4, <1>5, <1>7 DEF Reads, DataLeft
  <2>2. buf[7] = m[7] /\ buf[8] = m[8]
    BY <2>1, <1>2
  <2>3. Word(6) = 256 * buf[7] + buf[8]
    BY <1>4 DEF Word
  <2> QED BY <2>2, <2>3, <1>3 DEF FieldAt
<1>8. sent.whole => Reads(HeaderLen) /\ Reads(HeaderLen + QuestionBytes)
  BY <1>2, <1>3, <1>4, <1>5, <1>6 DEF Reads, DataLeft
<1> QED BY <1>3, <1>4, <1>5, <1>6, <1>7, <1>8

\* Where the parser is in the record that is next
LEMMA RecordOfServer ==
  ASSUME ParserIInv, InAnswer, at \in { "name", "rdata" }
  PROVE  LET r == sent.records[NextRecord] IN
         /\ Answerable(sent.records) /\ host \in Seq(Byte)
         /\ Len(sent.records) \in Nat /\ left \in 1..Len(sent.records)
         /\ NextRecord \in 1..Len(sent.records)
         /\ r \in ResourceRecord /\ IsName(r.name) /\ Len(r.data) \in Short
         /\ NextStart \in Nat /\ Len(buf) \in Nat
         /\ \A i \in 1..Len(Record(r)) : NextStart + i <= Len(buf) => buf[NextStart + i] = Record(r)[i]
         /\ sent.whole => NextStart + Len(Record(r)) <= Len(buf)
         /\ Len(Written(sent.records)[NextRecord]) = NextStart + Len(Record(r))
         /\ left = 1 /\ NextStart + Len(Record(r)) <= Len(buf) => sent.whole
<1> DEFINE m == Message(sent.records)
           n == Len(sent.records)
           r == sent.records[NextRecord]
           R == Record(r)
           w == Written(sent.records)
<1>1. Answerable(sent.records) /\ host \in Seq(Byte)
  BY DatagramOfServer
<1>2. /\ Len(buf) \in Nat /\ Len(buf) <= Len(m)
      /\ \A i \in 1..Len(buf) : buf[i] = m[i]
      /\ sent.whole => Len(buf) = Len(m)
      /\ Len(buf) = Len(m) => sent.whole
  BY DatagramOfServer
<1>3. n \in Nat /\ left \in 1..n
  BY <1>1, WrittenByRecord DEF ParserIInv, InAnswer, InRecord
<1>4. NextRecord \in 1..n
  BY <1>3 DEF NextRecord
<1>5. r \in ResourceRecord /\ IsName(r.name) /\ Len(r.data) \in Short
  BY <1>1, <1>4, ElementOfSeq DEF Answerable
<1>6. /\ NextStart \in Nat /\ Len(m) \in Nat
      /\ Len(w[NextRecord]) = NextStart + Len(R)
      /\ Len(w[NextRecord]) <= Len(m)
      /\ \A i \in 1..Len(R) : m[NextStart + i] = R[i]
  BY <1>1, <1>4, RecordInMessage DEF NextStart
<1>7. left = 1 => w[NextRecord] = m
  BY <1>3 DEF Message, NextRecord
<1>8. R \in Seq(Byte) /\ Len(R) \in Nat
  BY <1>5, RecordTells, LenProperties
<1> HIDE DEF m, n, r, R, w
<1>9. ASSUME NEW i \in 1..Len(R), NextStart + i <= Len(buf) PROVE buf[NextStart + i] = R[i]
  <2>1. NextStart + i \in 1..Len(buf)
    BY <1>2, <1>6, <1>8, <1>9
  <2> QED BY <2>1, <1>2, <1>6
<1>10. sent.whole => NextStart + Len(R) <= Len(buf)
  BY <1>2, <1>6, <1>8
<1>11. left = 1 /\ NextStart + Len(R) <= Len(buf) => sent.whole
  BY <1>2, <1>6, <1>7, <1>8
<1> QED BY <1>1, <1>2, <1>3, <1>4, <1>5, <1>6, <1>9, <1>10, <1>11 DEF m, n, r, R, w

\* Where labels of the name start
InName(p) ==
  LET name == sent.records[NextRecord].name IN
    \E starts \in SUBSET (1..Len(name)) : LabelsStart(name, starts) /\ p - NextStart + 1 \in starts

\* What the parser finds in the name of a record: the end, a pointer with
\* which the name ends, or a label with another one behind it.
LEMMA NameOfServer ==
  ASSUME ParserIInv, InAnswer, at = "name", Reads(1)
  PROVE  LET b == buf[read_ndx + 1]
             end == NextStart + Len(sent.records[NextRecord].name)
         IN  /\ \/ b = 0 /\ read_ndx + 1 = end
                \/ b >= 192 /\ read_ndx + 2 = end
                \/ b \in 1..191 /\ InName(read_ndx + 1 + b) /\ read_ndx + 1 + b < end
             /\ sent.whole => end <= Len(buf)
<1> DEFINE r == sent.records[NextRecord]
           R == Record(r)
           name == r.name
           n == Len(name)
           l == Len(r.data)
           lr == Len(R)
           p == read_ndx - NextStart + 1
           b == buf[read_ndx + 1]
<1>1. /\ r \in ResourceRecord /\ Len(r.data) \in Short
      /\ NextStart \in Nat /\ Len(buf) \in Nat
      /\ \A i \in 1..Len(R) : NextStart + i <= Len(buf) => buf[NextStart + i] = R[i]
      /\ sent.whole => NextStart + Len(R) <= Len(buf)
  BY RecordOfServer
<1>2. /\ n \in Nat /\ Len(r.data) \in Nat /\ Len(R) = n + 10 + Len(r.data)
      /\ \A i \in 1..n : R[i] = name[i]
      /\ name \in Seq(Byte)
  BY <1>1, RecordTells DEF RDataLen, ResourceRecord
<1>3. PICK starts \in SUBSET (1..n) : LabelsStart(name, starts) /\ p \in starts
  BY DEF ParserIInv, InAnswer, InRecord, NextRecord, NextStart
<1>4. read_ndx \in Nat
  BY DEF ParserIInv, ParserTypeOK
<1>5. l \in Nat /\ lr = n + 10 + l /\ n \in Nat /\ (sent.whole => NextStart + lr <= Len(buf))
  BY <1>1, <1>2
<1> HIDE DEF r, R, name, n, l, lr
<1>6. p \in 1..n /\ read_ndx + 1 = NextStart + p
  BY <1>1, <1>2, <1>3, <1>4
<1>7. b = name[p]
  <2>1. p \in 1..lr /\ NextStart + p <= Len(buf)
    BY <1>1, <1>4, <1>6, <1>5 DEF Reads, DataLeft
  <2> HIDE DEF p
  <2>2. buf[NextStart + p] = R[p]
    BY <2>1, <1>1 DEF lr
  <2> QED BY <2>2, <1>2, <1>6 DEF n
<1>8. \/ name[p] = 0 /\ p = n
      \/ name[p] >= 192 /\ p + 1 = n
      \/ name[p] \in 1..191 /\ p + name[p] + 1 \in starts
  BY <1>3 DEF LabelsStart, n
<1>9. sent.whole => NextStart + n <= Len(buf)
  BY <1>1, <1>5
<1> HIDE DEF b
<1>10. CASE b = 0 /\ p = n
  <2>1. read_ndx + 1 = NextStart + n
    BY <1>6, <1>10
  <2> QED BY <2>1, <1>9, <1>10 DEF b, r, name, n
<1>11. CASE b >= 192 /\ p + 1 = n
  <2>1. read_ndx + 2 = NextStart + n
    <3>1. read_ndx \in Int /\ NextStart \in Int /\ p \in Int
      BY <1>1, <1>4
    <3> QED BY <3>1, <1>6, <1>11
  <2> QED BY <2>1, <1>9, <1>11 DEF b, r, name, n
<1>12. CASE b \in 1..191 /\ p + b + 1 \in starts
  <2> DEFINE q == read_ndx + 1 + b
  <2>1. p + b + 1 \in 1..n /\ q - NextStart + 1 = p + b + 1 /\ q < NextStart + n
    <3>1. p + b + 1 \in 1..n
      BY <1>3, <1>12
    <3>2. read_ndx \in Int /\ NextStart \in Int /\ b \in Int /\ n \in Int
      BY <1>1, <1>4, <1>12, <1>5
    <3>3. q - NextStart + 1 = p + b + 1
      BY <3>2
    <3>4. q < NextStart + n
      <4>1. p + b + 1 <= n
        BY <3>1, <3>2
      <4> QED BY <3>2, <4>1
    <3> QED BY <3>1, <3>3, <3>4
  <2> HIDE DEF q
  <2>2. InName(q)
    BY <2>1, <1>3, <1>12 DEF InName, name, r, n
  <2> QED BY <2>1, <2>2, <1>9, <1>12 DEF q, b, r, name, n
<1> QED BY <1>7, <1>8, <1>10, <1>11, <1>12

\* What the parser finds behind the name of a record
LEMMA DataOfServer ==
  ASSUME ParserIInv, InAnswer, at = "rdata"
  PROVE  LET r == sent.records[NextRecord] IN
         /\ Reads(RDataLen) => Word(0) = r.type /\ Word(2) = r.class /\ Word(8) = Len(r.data)
         /\ Reads(RDataLen + Len(r.data)) /\ Len(r.data) = AddrLen => Taken = r.data
         /\ sent.whole => Reads(RDataLen) /\ Reads(RDataLen + Len(r.data))
         /\ read_ndx + RDataLen + Len(r.data) = Len(Written(sent.records)[NextRecord])
         /\ left = 1 /\ Reads(RDataLen + Len(r.data)) => sent.whole
<1> DEFINE r == sent.records[NextRecord]
           R == Record(r)
           n == Len(r.name)
           l == Len(r.data)
           lr == Len(R)
           lb == Len(buf)
           w == Len(Written(sent.records)[NextRecord])
<1>1. /\ r \in ResourceRecord /\ l \in Short
      /\ NextStart \in Nat /\ lb \in Nat
      /\ \A i \in 1..lr : NextStart + i <= lb => buf[NextStart + i] = R[i]
      /\ sent.whole => NextStart + lr <= lb
      /\ w = NextStart + lr
      /\ left = 1 /\ NextStart + lr <= lb => sent.whole
  BY RecordOfServer
<1>2. /\ n \in Nat /\ l \in Nat /\ lr = n + 10 + l
      /\ FieldAt(R, n + 1) = r.type
      /\ FieldAt(R, n + 3) = r.class
      /\ FieldAt(R, n + 9) = l
      /\ \A i \in 1..l : R[n + 10 + i] = r.data[i]
      /\ r.data \in Seq(Byte)
  BY <1>1, RecordTells DEF RDataLen, ResourceRecord
<1>3. read_ndx = NextStart + n
  BY DEF ParserIInv, InAnswer, InRecord, NextRecord, NextStart
<1>4. buf \in Seq(Byte)
  BY DEF ParserIInv, ParserTypeOK
<1> HIDE DEF r, R, n, l, lr, lb, w
<1>5. ASSUME NEW off \in 0..8, Reads(RDataLen) PROVE Word(off) = FieldAt(R, n + (off + 1))
  <2>1. n + (off + 1) \in 1..lr /\ n + (off + 1) + 1 \in 1..lr
    BY <1>2
  <2>2. NextStart + n + 10 <= lb
    BY <1>1, <1>2, <1>3, <1>5 DEF Reads, DataLeft, RDataLen, lb
  <2>3. NextStart + (n + (off + 1)) <= lb /\ NextStart + (n + (off + 1) + 1) <= lb
    BY <2>2, <1>1, <1>2
  <2>4. buf[NextStart + (n + (off + 1))] = R[n + (off + 1)]
    BY <2>1, <2>3, <1>1
  <2>5. buf[NextStart + (n + (off + 1) + 1)] = R[n + (off + 1) + 1]
    BY <2>1, <2>3, <1>1
  <2>6. /\ NextStart + (n + (off + 1)) = read_ndx + off + 1
        /\ NextStart + (n + (off + 1) + 1) = read_ndx + off + 2
    BY <1>1, <1>2, <1>3
  <2> QED BY <2>4, <2>5, <2>6 DEF Word, FieldAt
<1>6. ASSUME Reads(RDataLen) PROVE Word(0) = r.type /\ Word(2) = r.class /\ Word(8) = l
  <2>1. Word(0) = FieldAt(R, n + (0 + 1)) /\ Word(2) = FieldAt(R, n + (2 + 1)) /\ Word(8) = FieldAt(R, n + (8 + 1))
    BY <1>5, <1>6
  <2> QED BY <2>1, <1>2
<1>7. ASSUME Reads(RDataLen + l), l = AddrLen PROVE Taken = r.data
  <2> DEFINE f == read_ndx + RDataLen + 1
             t == read_ndx + RDataLen + AddrLen
  <2>1. f \in Int /\ t \in Int /\ f = NextStart + n + 11 /\ t = NextStart + n + 14 /\ t <= lb
    BY <1>1, <1>2, <1>3, <1>7 DEF Reads, DataLeft, RDataLen, AddrLen, lb
  <2>2. Taken = SubSeq(buf, f, t)
    BY DEF Taken
  <2> HIDE DEF f, t
  <2> DEFINE q == SubSeq(buf, f, t)
  <2>3. \A i \in f..t : buf[i] \in Byte
    <3> SUFFICES ASSUME NEW i \in f..t PROVE buf[i] \in Byte
      OBVIOUS
    <3>2. NextStart \in Nat /\ n \in Nat /\ lb \in Nat
      BY <1>1, <1>2
    <3>3. i \in Int /\ f <= i /\ i <= t
      BY <2>1
    <3>4. i \in 1..lb
      BY <3>2, <3>3, <2>1
    <3>1. i \in 1..Len(buf)
      BY <3>4 DEF lb
    <3> QED BY <3>1, <1>4, ElementOfSeq
  <2>4. /\ q \in Seq(Byte) /\ Len(q) = IF f <= t THEN t - f + 1 ELSE 0
        /\ \A i \in 1..(t - f + 1) : q[i] = buf[f + i - 1]
    BY <2>1, <2>3, SubSeqProperties
  <2> HIDE DEF q
  <2>5. Len(q) = 4 /\ \A i \in 1..4 : q[i] = buf[f + i - 1]
    BY <2>1, <2>4, <1>1, <1>2
  <2>6. ASSUME NEW i \in 1..4 PROVE q[i] = r.data[i]
    <3>1. n + 10 + i \in 1..lr /\ NextStart + (n + 10 + i) <= lb /\ i \in 1..l
      <4>1. NextStart \in Nat /\ n \in Nat /\ lb \in Nat /\ l = 4 /\ lr = n + 14
        BY <1>1, <1>2, <1>7 DEF AddrLen
      <4>2. NextStart + n + 14 <= lb
        BY <2>1
      <4> QED BY <4>1, <4>2
    <3>2. buf[NextStart + (n + 10 + i)] = R[n + 10 + i] /\ R[n + 10 + i] = r.data[i]
      BY <3>1, <1>1, <1>2
    <3>3. f + i - 1 = NextStart + (n + 10 + i)
      BY <2>1, <1>1, <1>2
    <3> QED BY <3>2, <3>3, <2>5
  <2>7. Len(r.data) = 4
    BY <1>7 DEF AddrLen, l
  <2>8. q = r.data
    <3>1. q \in Seq(Byte) /\ r.data \in Seq(Byte) /\ Len(q) = Len(r.data)
      BY <2>4, <2>5, <2>7, <1>2
    <3>2. \A i \in 1..Len(q) : q[i] = r.data[i]
      BY <2>5, <2>6
    <3> QED BY <3>1, <3>2, SeqEqual
  <2> QED BY <2>2, <2>8 DEF q
<1>8. sent.whole => Reads(RDataLen) /\ Reads(RDataLen + l)
  BY <1>1, <1>2, <1>3 DEF Reads, DataLeft, RDataLen, lb
<1>9. read_ndx + RDataLen + l = w
  BY <1>1, <1>2, <1>3 DEF RDataLen
<1>10. left = 1 /\ Reads(RDataLen + l) => sent.whole
  BY <1>1, <1>2, <1>3 DEF Reads, DataLeft, RDataLen, lb
<1> QED BY <1>6, <1>7, <1>8, <1>9, <1>10 DEF r, l, w

-----------------------------------------------------------------------------
(* The next state.                                                         *)

\* As long as the host is the same, so are the messages.
LEMMA SameWritten ==
  ASSUME UNCHANGED << host, sent >>
  PROVE  Written(sent.records)' = Written(sent.records) /\ Message(sent.records)' = Message(sent.records)
BY DEF Written, Message

\* What arrived stays what arrived.
LEMMA ArrivedStays ==
  ASSUME UNCHANGED << buf, host, sent >>, Arrived
  PROVE  Arrived'
BY SameWritten DEF Arrived

\* The parser comes to the next record.
LEMMA EntersRecord ==
  ASSUME Answerable(sent.records), host \in Seq(Byte), UNCHANGED << host, sent >>,
         NEW j \in 1..Len(sent.records), left' = Len(sent.records) - j + 1,
         WellFormed(sent.records, j - 1), addrs' = Kept(AddressesOf(sent.records)[j - 1]),
         read_ndx' = Len(Written(sent.records)[j - 1]), at' = "name"
  PROVE  InRecord' /\ left' > 0
<1> DEFINE a == sent.records
           w == Written(a)
           start == Len(w[j - 1])
           name == a[j].name
<1>1. Len(a) \in Nat
  BY WrittenByRecord
<1>2. sent' = sent /\ Written(sent.records)' = w
  BY SameWritten
<1>3. left' \in 1..Len(a) /\ Len(a) - left' + 1 = j
  BY <1>1
<1>4. IsName(name)
  BY DEF Answerable
<1>5. start \in Nat
  BY RecordInMessage
<1>6. PICK starts \in SUBSET (1..Len(name)) : LabelsStart(name, starts)
  BY <1>4 DEF IsName
<1>7. 1 \in starts /\ read_ndx' - start + 1 = 1
  BY <1>5, <1>6 DEF LabelsStart
<1> HIDE DEF start
<1>8. \E s \in SUBSET (1..Len(name)) : LabelsStart(name, s) /\ read_ndx' - start + 1 \in s
  BY <1>6, <1>7
<1> DEFINE k == Len(a) - left' + 1
<1>9. /\ left' \in 1..Len(a)
      /\ WellFormed(a, k - 1)
      /\ addrs' = Kept(AddressesOf(a)[k - 1])
      /\ \E s \in SUBSET (1..Len(a[k].name)) :
            LabelsStart(a[k].name, s) /\ read_ndx' - Len(w[k - 1]) + 1 \in s
  BY <1>3, <1>8 DEF start
<1> HIDE DEF w
<1>10. InRecord'
  BY <1>2, <1>9 DEF InRecord
<1>11. left' > 0
  BY <1>1, <1>3
<1> QED BY <1>10, <1>11

\* The parser goes on in the name.
LEMMA GoesOnInName ==
  ASSUME InRecord, UNCHANGED << host, sent, left, addrs >>, at' = "name", InName(read_ndx')
  PROVE  InRecord'
<1>1. sent' = sent /\ Written(sent.records)' = Written(sent.records)
  BY SameWritten
<1> QED BY <1>1 DEF InRecord, InName, NextRecord, NextStart

\* The parser comes to the end of the name.
LEMMA LeavesName ==
  ASSUME InRecord, UNCHANGED << host, sent, left, addrs >>, at' = "rdata",
         read_ndx' = NextStart + Len(sent.records[NextRecord].name)
  PROVE  InRecord'
<1>1. sent' = sent /\ Written(sent.records)' = Written(sent.records)
  BY SameWritten
<1> QED BY <1>1 DEF InRecord, NextRecord, NextStart

\* A parse may fail unless the answer was complete and well formed.
LEMMA FailsKeepsInv ==
  ASSUME ParserIInv, Fails, at \in { "header", "name", "rdata" },
         UNCHANGED << buf, qlen, host, sent >>,
         sent.by = "server" =>
           ~(sent.whole /\ Len(sent.records) > 0 /\ WellFormed(sent.records, Len(sent.records)))
  PROVE  ParserIInv'
<1>1. at' = "done" /\ ret' = -1 /\ UNCHANGED << read_ndx, left, addrs, buf, qlen, host, sent >>
  BY DEF Fails, Returns
<1>2. ParserTypeOK'
  BY <1>1 DEF ParserIInv, ParserTypeOK
<1>3. ReadsInside'
  BY <1>1 DEF ParserIInv, ReadsInside
<1>4. host' \in Hosts /\ qlen' = HeaderLen + Len(Question(host'))
  BY <1>1 DEF ParserIInv
<1>5. sent'.by = "server" => Arrived'
  BY <1>1, ArrivedStays DEF ParserIInv
<1>6. ResultIsTheAnswer'
  BY <1>1 DEF ResultIsTheAnswer, WellFormed
<1> QED BY <1>1, <1>2, <1>3, <1>4, <1>5, <1>6 DEF ParserIInv

\* The parser goes on to a place inside the datagram.
LEMMA GoesOnKeepsInv ==
  ASSUME ParserIInv, at \in { "header", "name", "rdata" }, UNCHANGED << buf, qlen, ret, host, sent >>,
         at' \in { "name", "rdata" }, left' \in Nat, left' > 0,
         addrs' \in Seq(Seq(Byte)), Len(addrs') <= MaxAddrs,
         read_ndx' \in Nat, read_ndx' <= Len(buf),
         sent.by = "server" => InRecord'
  PROVE  ParserIInv'
<1>1. ParserTypeOK'
  BY DEF ParserIInv, ParserTypeOK
<1>2. ReadsInside'
  BY DEF ReadsInside
<1>3. host' \in Hosts /\ qlen' = HeaderLen + Len(Question(host'))
  BY DEF ParserIInv
<1>4. sent'.by = "server" => Arrived'
  BY ArrivedStays DEF ParserIInv
<1>5. ResultIsTheAnswer'
  BY DEF ResultIsTheAnswer
<1> QED BY <1>1, <1>2, <1>3, <1>4, <1>5 DEF ParserIInv

\* The parser has read the last record.
LEMMA EndsKeepsInv ==
  ASSUME ParserIInv, at \in { "header", "name", "rdata" }, UNCHANGED << buf, qlen, host, sent >>,
         at' = "done", ret' = 0, left' \in Nat,
         addrs' \in Seq(Seq(Byte)), Len(addrs') <= MaxAddrs,
         read_ndx' \in Nat, read_ndx' <= Len(buf),
         sent.by = "server" =>
           /\ sent.whole /\ Len(sent.records) > 0 /\ WellFormed(sent.records, Len(sent.records))
           /\ addrs' = Kept(AddressesOf(sent.records)[Len(sent.records)])
  PROVE  ParserIInv'
<1>1. ParserTypeOK'
  BY DEF ParserIInv, ParserTypeOK
<1>2. ReadsInside'
  BY DEF ReadsInside
<1>3. host' \in Hosts /\ qlen' = HeaderLen + Len(Question(host'))
  BY DEF ParserIInv
<1>4. sent'.by = "server" => Arrived'
  BY ArrivedStays DEF ParserIInv
<1>5. ResultIsTheAnswer'
  BY DEF ResultIsTheAnswer
<1> QED BY <1>1, <1>2, <1>3, <1>4, <1>5 DEF ParserIInv

\* A field inside the datagram is a number.
LEMMA WordNat ==
  ASSUME ParserIInv, NEW off \in 0..8, NEW n \in Nat, Reads(n), off + 2 <= n
  PROVE  Word(off) \in Nat
<1>1. buf \in Seq(Byte) /\ Len(buf) \in Nat /\ read_ndx \in Nat
  BY LenProperties DEF ParserIInv, ParserTypeOK
<1>2. read_ndx + off + 1 \in 1..Len(buf) /\ read_ndx + off + 2 \in 1..Len(buf)
  BY <1>1 DEF Reads, DataLeft
<1>3. buf[read_ndx + off + 1] \in Byte /\ buf[read_ndx + off + 2] \in Byte
  BY <1>1, <1>2, ElementOfSeq
<1>4. \A b \in Byte : b \in Nat
  BY DEF Byte
<1> QED BY <1>3, <1>4 DEF Word

\* The parser reads the header.
LEMMA ParseHeaderKeepsInv ==
  ASSUME ParserIInv, ParseHeader
  PROVE  ParserIInv'
<1>0. /\ at = "header" /\ UNCHANGED << buf, qlen, host, sent >>
      /\ read_ndx \in Nat /\ qlen = HeaderLen + Len(Question(host)) /\ host \in Seq(Byte)
      /\ Len(Question(host)) \in Nat
  <2>1. at = "header" /\ UNCHANGED << buf, qlen, host, sent >>
    BY DEF ParseHeader
  <2>2. read_ndx \in Nat /\ qlen = HeaderLen + Len(Question(host)) /\ host \in Seq(Byte)
    BY <2>1, DnsUtilAssumption DEF ParserIInv, ParserTypeOK
  <2> QED BY <2>1, <2>2, QuestionBytesType
<1>1. sent.by = "server" => InAnswer
  BY <1>0 DEF InAnswer
<1>2. CASE Reads(HeaderLen) /\ Word(6) >= 1 /\ Reads(HeaderLen + QuestionBytes)
  <2>1. /\ left' = Word(6) /\ addrs' = << >> /\ at' = "name" /\ ret' = ret
        /\ read_ndx' = read_ndx + HeaderLen + QuestionBytes
    BY <1>2 DEF ParseHeader
  <2>2. left' \in Nat /\ left' > 0
    <3>1. 6 \in 0..8 /\ 6 + 2 <= 12 /\ 12 \in Nat /\ Reads(12)
      BY <1>2 DEF HeaderLen
    <3>2. Word(6) \in Nat
      BY <3>1, WordNat
    <3> QED BY <3>2, <1>2, <2>1
  <2>3. addrs' \in Seq(Seq(Byte)) /\ Len(addrs') <= MaxAddrs
    BY <2>1, EmptySeq, DnsUtilAssumption
  <2>4. read_ndx' \in Nat /\ read_ndx' <= Len(buf)
    <3>1. Len(buf) \in Nat
      BY LenProperties DEF ParserIInv, ParserTypeOK
    <3> QED BY <1>0, <1>2, <2>1, <3>1 DEF Reads, DataLeft, QuestionBytes, HeaderLen
  <2>5. ASSUME sent.by = "server" PROVE InRecord'
    <3> DEFINE a == sent.records
    <3>1. /\ Word(6) = Len(a) /\ Len(a) \in Nat
          /\ read_ndx + HeaderLen + QuestionBytes = Len(Written(a)[0])
      BY <1>0, <1>1, <1>2, <2>5, HeaderOfServer
    <3>2. Answerable(a)
      BY <1>1, <2>5, DatagramOfServer
    <3>3. 1 \in 1..Len(a) /\ left' = Len(a) - 1 + 1
      BY <1>2, <2>1, <3>1
    <3>4. WellFormed(a, 1 - 1)
      BY DEF WellFormed
    <3>5. addrs' = Kept(AddressesOf(a)[1 - 1])
      <4>1. AddressesOf(a)[0] = << >>
        BY <3>2, AddressesByRecord DEF Answerable
      <4>2. Kept(<< >>) = << >>
        BY SubSeqEmpty, EmptySeq, DnsUtilAssumption DEF Kept
      <4> QED BY <4>1, <4>2, <2>1
    <3>6. read_ndx' = Len(Written(a)[1 - 1])
      BY <2>1, <3>1
    <3> QED BY <1>0, <2>1, <3>2, <3>3, <3>4, <3>5, <3>6, EntersRecord
  <2> QED BY <1>0, <2>1, <2>2, <2>3, <2>4, <2>5, GoesOnKeepsInv
<1>3. CASE ~(Reads(HeaderLen) /\ Word(6) >= 1 /\ Reads(HeaderLen + QuestionBytes))
  <2>1. Fails
    BY <1>3 DEF ParseHeader
  <2>2. ASSUME sent.by = "server", sent.whole, Len(sent.records) > 0 PROVE FALSE
    <3>1. /\ Reads(HeaderLen) /\ Reads(HeaderLen + QuestionBytes)
          /\ Word(6) = Len(sent.records) /\ Len(sent.records) \in Nat
      BY <1>0, <1>1, <2>2, HeaderOfServer
    <3> QED BY <1>3, <2>2, <3>1
  <2> QED BY <1>0, <2>1, <2>2, FailsKeepsInv
<1> QED BY <1>2, <1>3

\* The parser reads a label.
LEMMA ParseQnameKeepsInv ==
  ASSUME ParserIInv, ParseQname
  PROVE  ParserIInv'
<1> DEFINE b == buf[read_ndx + 1]
           end == NextStart + Len(sent.records[NextRecord].name)
<1>0. at = "name" /\ UNCHANGED << buf, qlen, host, sent >>
  BY DEF ParseQname
<1>1. sent.by = "server" => InAnswer /\ InRecord
  BY <1>0 DEF InAnswer, ParserIInv
<1>2. /\ read_ndx \in Nat /\ Len(buf) \in Nat /\ left \in Nat /\ left > 0
      /\ addrs \in Seq(Seq(Byte)) /\ Len(addrs) <= MaxAddrs
  BY <1>0, LenProperties DEF ParserIInv, ParserTypeOK, ReadsInside
<1>3. ASSUME sent.by = "server", Reads(1)
      PROVE  /\ \/ b = 0 /\ read_ndx + 1 = end
                \/ b >= 192 /\ read_ndx + 2 = end
                \/ b \in 1..191 /\ InName(read_ndx + 1 + b) /\ read_ndx + 1 + b < end
             /\ sent.whole => end <= Len(buf)
             /\ end \in Nat
  <2>1. NextStart \in Nat /\ Len(sent.records[NextRecord].name) \in Nat
    BY <1>0, <1>1, <1>3, RecordOfServer, RecordTells
  <2> QED BY <2>1, <1>0, <1>1, <1>3, NameOfServer
<1>4. ASSUME sent.by = "server", sent.whole PROVE Reads(1)
  <2> DEFINE r == sent.records[NextRecord]
             l == Len(Record(r))
             n == Len(r.name)
             d == Len(r.data)
  <2>1. NextStart \in Nat /\ r \in ResourceRecord /\ Len(r.data) \in Short /\ NextStart + l <= Len(buf)
    BY <1>0, <1>1, <1>4, RecordOfServer
  <2>2. n \in Nat /\ d \in Nat /\ l = n + 10 + d
    BY <2>1, RecordTells DEF RDataLen
  <2>3. read_ndx - NextStart + 1 \in 1..n
    BY <1>0, <1>1, <1>4 DEF InRecord, NextRecord, NextStart
  <2> HIDE DEF r, l, n, d
  <2> QED BY <2>1, <2>2, <2>3, <1>2 DEF Reads, DataLeft
<1> HIDE DEF end
<1>5. CASE ~Reads(1)
  <2>1. Fails
    BY <1>5 DEF ParseQname
  <2> QED BY <1>0, <1>4, <1>5, <2>1, FailsKeepsInv
<1>6. CASE Reads(1)
  <2>1. buf \in Seq(Byte) /\ read_ndx + 1 \in 1..Len(buf)
    BY <1>2, <1>6 DEF Reads, DataLeft, ParserIInv, ParserTypeOK
  <2>2. b \in Byte
    BY <2>1, ElementOfSeq
  <2>3. b \in 0..255
    BY <2>2 DEF Byte
  <2> HIDE DEF b
  <2>4. CASE b >= 192
    <3>1. Pointer
      BY <1>6, <2>4 DEF ParseQname, b
    <3>2. sent.by = "server" => read_ndx + 2 = end /\ (sent.whole => end <= Len(buf))
      BY <1>3, <1>6, <2>3, <2>4
    <3>3. CASE Reads(2)
      <4>1. read_ndx' = read_ndx + 2 /\ at' = "rdata" /\ UNCHANGED << left, addrs, ret >>
        BY <3>1, <3>3 DEF Pointer
      <4>2. read_ndx' \in Nat /\ read_ndx' <= Len(buf)
        BY <1>2, <3>3, <4>1 DEF Reads, DataLeft
      <4>3. sent.by = "server" => InRecord'
        BY <1>0, <1>1, <3>2, <4>1, LeavesName DEF end
      <4> QED BY <1>0, <1>2, <4>1, <4>2, <4>3, GoesOnKeepsInv
    <3>4. CASE ~Reads(2)
      <4>1. Fails
        BY <3>1, <3>4 DEF Pointer
      <4>2. sent.by = "server" => ~sent.whole
        BY <3>2, <3>4, <1>2 DEF Reads, DataLeft
      <4> QED BY <1>0, <4>1, <4>2, FailsKeepsInv
    <3> QED BY <3>3, <3>4
  <2>5. CASE ~(b >= 192)
    <3>1. CASE Reads(1 + b)
      <4>1. /\ read_ndx' = read_ndx + 1 + b /\ at' = IF b = 0 THEN "rdata" ELSE "name"
            /\ UNCHANGED << left, addrs, ret >>
        BY <1>6, <2>5, <3>1 DEF ParseQname, b
      <4>2. read_ndx' \in Nat /\ read_ndx' <= Len(buf)
        BY <1>2, <2>3, <3>1, <4>1 DEF Reads, DataLeft
      <4>3. ASSUME sent.by = "server" PROVE InRecord'
        <5>1. CASE b = 0
          <6>1. read_ndx' = end /\ at' = "rdata"
            BY <5>1, <1>2, <1>3, <1>6, <4>1, <4>3
          <6> QED BY <6>1, <1>0, <1>1, <4>1, <4>3, LeavesName DEF end
        <5>2. CASE b # 0
          <6>1. InName(read_ndx') /\ at' = "name"
            BY <5>2, <1>3, <1>6, <2>5, <4>1, <4>3
          <6> QED BY <6>1, <1>0, <1>1, <4>1, <4>3, GoesOnInName
        <5> QED BY <5>1, <5>2
      <4> QED BY <1>0, <1>2, <4>1, <4>2, <4>3, GoesOnKeepsInv
    <3>2. CASE ~Reads(1 + b)
      <4>1. Fails
        BY <1>6, <2>5, <3>2 DEF ParseQname, b
      <4>2. sent.by = "server" => ~sent.whole
        BY <1>2, <1>3, <1>6, <2>3, <2>5, <3>2 DEF Reads, DataLeft
      <4> QED BY <1>0, <4>1, <4>2, FailsKeepsInv
    <3> QED BY <3>1, <3>2
  <2> QED BY <2>4, <2>5
<1> QED BY <1>5, <1>6

\* A record has been read, and what it said has been taken.
LEMMA RecordDoneKeepsInv ==
  ASSUME ParserIInv, at = "rdata", UNCHANGED << buf, qlen, host, sent >>,
         NEW len \in Nat, RecordDone(len), Reads(RDataLen + len),
         addrs' \in Seq(Seq(Byte)), Len(addrs') <= MaxAddrs,
         sent.by = "server" =>
           /\ len = Len(sent.records[NextRecord].data)
           /\ WellFormed(sent.records, NextRecord)
           /\ addrs' = Kept(AddressesOf(sent.records)[NextRecord])
  PROVE  ParserIInv'
<1> DEFINE a == sent.records
           n == Len(sent.records)
<1>1. read_ndx' = read_ndx + RDataLen + len /\ left' = left - 1
  BY DEF RecordDone
<1>2. read_ndx \in Nat /\ left \in Nat /\ left > 0 /\ Len(buf) \in Nat
  BY LenProperties DEF ParserIInv, ParserTypeOK
<1>3. read_ndx' \in Nat /\ read_ndx' <= Len(buf) /\ left' \in Nat
  BY <1>1, <1>2 DEF Reads, DataLeft, RDataLen
<1>4. ASSUME sent.by = "server"
      PROVE  /\ Answerable(a) /\ host \in Seq(Byte)
             /\ n \in Nat /\ left \in 1..n /\ NextRecord \in 1..n /\ NextRecord = n - left + 1
             /\ read_ndx' = Len(Written(a)[NextRecord])
             /\ left = 1 => sent.whole
  <2>1. InAnswer
    BY <1>4 DEF InAnswer
  <2>2. Answerable(a) /\ host \in Seq(Byte) /\ n \in Nat /\ left \in 1..n /\ NextRecord \in 1..n
    BY <2>1, RecordOfServer
  <2>3. /\ read_ndx + RDataLen + len = Len(Written(a)[NextRecord])
        /\ left = 1 => sent.whole
    BY <2>1, <1>4, DataOfServer
  <2> QED BY <2>2, <2>3, <1>1 DEF NextRecord
<1>5. CASE left = 1
  <2>1. at' = "done" /\ ret' = 0
    BY <1>5 DEF RecordDone, Returns
  <2>2. ASSUME sent.by = "server"
        PROVE  /\ sent.whole /\ Len(sent.records) > 0 /\ WellFormed(sent.records, Len(sent.records))
               /\ addrs' = Kept(AddressesOf(sent.records)[Len(sent.records)])
    <3>1. NextRecord = n /\ n > 0 /\ sent.whole
      BY <1>4, <1>5, <2>2
    <3> QED BY <3>1, <2>2
  <2> QED BY <1>3, <2>1, <2>2, EndsKeepsInv
<1>6. CASE left # 1
  <2>1. at' = "name" /\ ret' = ret
    BY <1>6 DEF RecordDone
  <2>2. left' > 0
    BY <1>1, <1>2, <1>6
  <2>3. ASSUME sent.by = "server" PROVE InRecord'
    <3> DEFINE j == NextRecord + 1
    <3>1. j \in 1..n /\ left' = n - j + 1 /\ j - 1 = NextRecord
      <4>1. n \in Int /\ left \in Int /\ left >= 1 /\ left <= n /\ left # 1 /\ NextRecord = n - left + 1
        BY <1>4, <1>6, <2>3
      <4>2. NextRecord \in Int /\ NextRecord >= 1 /\ NextRecord < n
        BY <4>1
      <4>3. left' = left - 1
        BY <1>1
      <4> QED BY <4>1, <4>2, <4>3
    <3>2. /\ WellFormed(a, j - 1) /\ addrs' = Kept(AddressesOf(a)[j - 1])
          /\ read_ndx' = Len(Written(a)[j - 1])
      BY <3>1, <1>4, <2>3
    <3> HIDE DEF j
    <3> QED BY <3>1, <3>2, <1>4, <2>1, <2>3, EntersRecord
  <2> QED BY <1>3, <2>1, <2>2, <2>3, GoesOnKeepsInv
<1> QED BY <1>5, <1>6

\* The parser reads the rest of a record.
LEMMA ParseRDataKeepsInv ==
  ASSUME ParserIInv, ParseRData
  PROVE  ParserIInv'
<1> DEFINE r == sent.records[NextRecord]
           a == sent.records
           n == Len(sent.records)
           l == Len(r.data)
           type == Word(0)
           class == Word(2)
           data_len == Word(8)
<1>0. at = "rdata" /\ UNCHANGED << buf, qlen, host, sent >>
  BY DEF ParseRData
<1>1. ASSUME sent.by = "server"
      PROVE  /\ Reads(RDataLen) => type = r.type /\ class = r.class /\ data_len = l
             /\ Reads(RDataLen + l) /\ l = AddrLen => Taken = r.data
             /\ sent.whole => Reads(RDataLen) /\ Reads(RDataLen + l)
             /\ Answerable(a) /\ n \in Nat /\ NextRecord \in 1..n
             /\ WellFormed(a, NextRecord - 1)
             /\ addrs = Kept(AddressesOf(a)[NextRecord - 1])
  <2>1. InAnswer
    BY <1>0, <1>1 DEF InAnswer
  <2>2. /\ Reads(RDataLen) => type = r.type /\ class = r.class /\ data_len = l
        /\ Reads(RDataLen + l) /\ l = AddrLen => Taken = r.data
        /\ sent.whole => Reads(RDataLen) /\ Reads(RDataLen + l)
    BY <1>0, <2>1, DataOfServer
  <2>3. Answerable(a) /\ n \in Nat /\ NextRecord \in 1..n
    BY <1>0, <2>1, RecordOfServer
  <2>4. InRecord
    BY <1>0, <1>1 DEF ParserIInv
  <2>5. WellFormed(a, NextRecord - 1) /\ addrs = Kept(AddressesOf(a)[NextRecord - 1])
    BY <2>4 DEF InRecord, NextRecord
  <2> QED BY <2>2, <2>3, <2>5
<1>2. /\ read_ndx \in Nat /\ Len(buf) \in Nat /\ buf \in Seq(Byte)
      /\ addrs \in Seq(Seq(Byte)) /\ Len(addrs) \in Nat /\ Len(addrs) <= MaxAddrs
  BY LenProperties DEF ParserIInv, ParserTypeOK, ReadsInside
<1>3. CASE ~Reads(RDataLen)
  <2>1. Fails
    BY <1>3 DEF ParseRData
  <2> QED BY <1>0, <1>1, <1>3, <2>1, FailsKeepsInv
<1>4. CASE Reads(RDataLen)
  <2>1. data_len \in Nat
    <3>1. 8 \in 0..8 /\ 8 + 2 <= 10 /\ 10 \in Nat /\ Reads(10)
      BY <1>4 DEF RDataLen
    <3> QED BY <3>1, WordNat
  <2>2. sent.by = "server" => type = r.type /\ class = r.class /\ data_len = l
    BY <1>1, <1>4
  <2>3. /\ ~Reads(RDataLen + data_len) => Fails
        /\ Reads(RDataLen + data_len) =>
             /\ type = 1 /\ class = 1 /\ data_len # AddrLen => Fails
             /\ type = 1 /\ class = 1 /\ data_len = AddrLen =>
                  /\ addrs' = IF Len(addrs) >= MaxAddrs THEN addrs ELSE Append(addrs, Taken)
                  /\ RecordDone(AddrLen)
             /\ ~(type = 1 /\ class = 1) => RecordDone(data_len) /\ UNCHANGED addrs
    BY <1>4 DEF ParseRData
  <2>4. IsAddress(r) <=> r.type = 1 /\ r.class = 1
    BY DEF IsAddress
  <2>5. ASSUME sent.by = "server"
         PROVE  AddressesOf(a)[NextRecord] =
                  IF IsAddress(r) THEN Append(AddressesOf(a)[NextRecord - 1], r.data)
                  ELSE AddressesOf(a)[NextRecord - 1]
    <3>1. a \in Seq(ResourceRecord) /\ NextRecord \in 1..Len(a)
      BY <1>1, <2>5 DEF Answerable
    <3> QED BY <3>1, AddressesByRecord
  <2>6. ASSUME sent.by = "server"
         PROVE  WellFormed(a, NextRecord) <=> (IsAddress(r) => l = AddrLen)
    <3>1. NextRecord \in 1..n /\ n \in Nat
      BY <1>1, <2>6
    <3>2. \A i \in 1..NextRecord : i = NextRecord \/ i \in 1..(NextRecord - 1)
      BY <3>1
    <3>3. NextRecord \in 1..NextRecord
      BY <3>1
    <3>4. \A i \in 1..(NextRecord - 1) : IsAddress(a[i]) => Len(a[i].data) = AddrLen
      BY <1>1, <2>6 DEF WellFormed
    <3> QED BY <3>2, <3>3, <3>4 DEF WellFormed
  <2> HIDE DEF type, class, data_len
  <2>7. CASE ~Reads(RDataLen + data_len)
    <3>1. Fails
      BY <2>3, <2>7
    <3>2. sent.by = "server" => ~sent.whole
      BY <1>1, <2>2, <2>7
    <3> QED BY <1>0, <3>1, <3>2, FailsKeepsInv
  <2>8. CASE Reads(RDataLen + data_len) /\ type = 1 /\ class = 1 /\ data_len # AddrLen
    <3>1. Fails
      BY <2>3, <2>8
    <3>2. ASSUME sent.by = "server" PROVE ~WellFormed(a, n)
      <4>1. IsAddress(r) /\ l # AddrLen
        BY <2>2, <2>8, <2>4, <3>2
      <4> QED BY <4>1, <1>1, <3>2 DEF WellFormed
    <3> QED BY <1>0, <3>1, <3>2, FailsKeepsInv
  <2>9. CASE Reads(RDataLen + data_len) /\ type = 1 /\ class = 1 /\ data_len = AddrLen
    <3>1. /\ addrs' = IF Len(addrs) >= MaxAddrs THEN addrs ELSE Append(addrs, Taken)
          /\ RecordDone(AddrLen)
      BY <2>3, <2>9
    <3>2. AddrLen \in Nat /\ Reads(RDataLen + AddrLen)
      BY <2>9 DEF AddrLen
    <3>3. Taken \in Seq(Byte)
      <4> DEFINE f == read_ndx + RDataLen + 1
                 t == read_ndx + RDataLen + AddrLen
      <4>1. f \in Int /\ t \in Int /\ f >= 1 /\ t <= Len(buf)
        BY <1>2, <3>2 DEF Reads, DataLeft, RDataLen, AddrLen
      <4>2. Taken = SubSeq(buf, f, t)
        BY DEF Taken
      <4> HIDE DEF f, t
      <4>3. \A i \in f..t : buf[i] \in Byte
        <5> SUFFICES ASSUME NEW i \in f..t PROVE buf[i] \in Byte
          OBVIOUS
        <5>1. i \in 1..Len(buf)
          BY <4>1, <1>2
        <5> QED BY <5>1, <1>2, ElementOfSeq
      <4> QED BY <4>1, <4>2, <4>3, SubSeqProperties
    <3>4. addrs' \in Seq(Seq(Byte)) /\ Len(addrs') <= MaxAddrs
      <4>1. Append(addrs, Taken) \in Seq(Seq(Byte)) /\ Len(Append(addrs, Taken)) = Len(addrs) + 1
        BY <1>2, <3>3, AppendProperties
      <4>2. MaxAddrs \in Nat
        BY DnsUtilAssumption
      <4>3. CASE Len(addrs) >= MaxAddrs
        BY <4>3, <3>1, <1>2
      <4>4. CASE ~(Len(addrs) >= MaxAddrs)
        <5>1. addrs' = Append(addrs, Taken)
          BY <4>4, <3>1
        <5> QED BY <5>1, <4>1, <4>2, <4>4, <1>2
      <4> QED BY <4>3, <4>4
    <3>5. ASSUME sent.by = "server"
          PROVE  /\ AddrLen = l /\ WellFormed(a, NextRecord)
                 /\ addrs' = Kept(AddressesOf(a)[NextRecord])
      <4>1. IsAddress(r) /\ l = AddrLen /\ Taken = r.data
        BY <1>1, <2>2, <2>9, <2>4, <3>5
      <4> DEFINE s == AddressesOf(a)[NextRecord - 1]
      <4>2. s \in Seq(Seq(Byte))
        <5>1. NextRecord - 1 \in 0..Len(a) /\ a \in Seq(ResourceRecord)
          BY <1>1, <3>5 DEF Answerable
        <5> QED BY <5>1, AddressesByRecord
      <4>3. addrs = Kept(s) /\ AddressesOf(a)[NextRecord] = Append(s, r.data)
        BY <1>1, <2>5, <3>5, <4>1
      <4> HIDE DEF s
      <4>4. Kept(Append(s, Taken)) = IF Len(Kept(s)) >= MaxAddrs THEN Kept(s) ELSE Append(Kept(s), Taken)
        BY <4>2, <3>3, KeptOneMore, DnsUtilAssumption
      <4>5. addrs' = Kept(AddressesOf(a)[NextRecord])
        BY <4>1, <4>3, <4>4, <3>1
      <4> QED BY <4>1, <4>5, <2>6, <3>5
    <3> QED BY <1>0, <3>1, <3>2, <3>4, <3>5, RecordDoneKeepsInv
  <2>10. CASE Reads(RDataLen + data_len) /\ ~(type = 1 /\ class = 1)
    <3>1. RecordDone(data_len) /\ addrs' = addrs
      BY <2>3, <2>10
    <3>2. addrs' \in Seq(Seq(Byte)) /\ Len(addrs') <= MaxAddrs
      BY <3>1, <1>2
    <3>3. ASSUME sent.by = "server"
          PROVE  /\ data_len = l /\ WellFormed(a, NextRecord)
                 /\ addrs' = Kept(AddressesOf(a)[NextRecord])
      <4>1. ~IsAddress(r) /\ data_len = l
        BY <2>2, <2>10, <2>4, <3>3
      <4> QED BY <4>1, <1>1, <2>5, <2>6, <3>1, <3>3
    <3> QED BY <1>0, <2>1, <2>10, <3>1, <3>2, <3>3, RecordDoneKeepsInv
  <2> QED BY <2>7, <2>8, <2>9, <2>10
<1> QED BY <1>3, <1>4

-----------------------------------------------------------------------------
(* The rest.                                                               *)

\* A query that was written leaves the parser where it was.
LEMMA QueryKeepsInv ==
  ASSUME ParserIInv, NEW h \in Hosts, dns_util_build_A_query(h)
  PROVE  ParserIInv'
<1>1. /\ at = "idle" /\ at' = "waiting" /\ host' = h /\ Fits(h)
      /\ buf' = RequestHeader \o Question(h) /\ qlen' = Len(buf')
      /\ UNCHANGED << read_ndx, left, addrs, ret, sent >>
  BY DEF dns_util_build_A_query
<1>2. h \in Seq(Byte)
  BY DnsUtilAssumption
<1>3. Question(h) \in Seq(Byte) /\ Len(Question(h)) \in Nat
  BY <1>2, QuestionBytesType
<1>4. RequestHeader \in Seq(Byte) /\ Len(RequestHeader) = HeaderLen
  BY DEF RequestHeader, Byte, HeaderLen
<1>5. buf' \in Seq(Byte) /\ Len(buf') = HeaderLen + Len(Question(h))
  BY <1>1, <1>3, <1>4, ConcatProperties
<1>6. qlen' = HeaderLen + Len(Question(h)) /\ qlen' <= BufLen /\ qlen' \in Nat /\ Len(buf') \in Nat
  BY <1>1, <1>3, <1>5 DEF Fits, HeaderLen
<1>7. read_ndx = 0 /\ read_ndx' = 0
  BY <1>1 DEF ParserIInv
<1>8. ParserTypeOK'
  BY <1>1, <1>5, <1>6, DnsUtilAssumption DEF ParserIInv, ParserTypeOK
<1>9. ReadsInside'
  BY <1>1, <1>6, <1>7 DEF ParserIInv, ReadsInside
<1>10. ResultIsTheAnswer'
  BY <1>1 DEF ResultIsTheAnswer
<1> QED BY <1>1, <1>6, <1>7, <1>8, <1>9, <1>10 DEF ParserIInv

\* Whatever arrives, it is parsed from its beginning.
LEMMA ArrivesKeepsInv ==
  ASSUME ParserIInv, NEW m \in Seq(Byte), NEW by \in { "server", "stranger" }, NEW records,
         Arrives(m, by, records),
         by = "server" => records \in Answers /\ m = Message(records)
  PROVE  ParserIInv'
<1>1. PICK n \in 1..Len(m) :
        /\ n <= BufLen
        /\ buf' = SubSeq(m, 1, n)
        /\ sent' = [ by |-> by, records |-> records, whole |-> n = Len(m) ]
  BY DEF Arrives
<1>2. at = "waiting" /\ read_ndx' = 0 /\ at' = "header" /\ UNCHANGED << qlen, left, addrs, ret, host >>
  BY DEF Arrives
<1>3. buf' \in Seq(Byte) /\ Len(buf') = n /\ n \in Nat
  <2>1. Len(m) \in Nat
    BY LenProperties
  <2>2. \A i \in 1..n : m[i] \in Byte
    <3> SUFFICES ASSUME NEW i \in 1..n PROVE m[i] \in Byte
      OBVIOUS
    <3>1. i \in 1..Len(m)
      BY <2>1
    <3> QED BY <3>1, ElementOfSeq
  <2> DEFINE q == SubSeq(m, 1, n)
  <2>3. q \in Seq(Byte) /\ Len(q) = IF 1 <= n THEN n - 1 + 1 ELSE 0
    BY <2>2, SubSeqProperties
  <2>4. buf' = q
    BY <1>1
  <2> HIDE DEF q
  <2>5. n \in Nat /\ 1 <= n /\ n - 1 + 1 = n
    BY <2>1
  <2> QED BY <2>3, <2>4, <2>5
<1>4. sent'.by = by /\ sent'.records = records /\ sent'.whole = (n = Len(m))
  BY <1>1
<1>5. ParserTypeOK'
  BY <1>1, <1>2, <1>3, <1>4 DEF ParserIInv, ParserTypeOK
<1>6. ReadsInside'
  BY <1>2, <1>3 DEF ParserIInv, ReadsInside
<1>7. host' \in Hosts /\ qlen' = HeaderLen + Len(Question(host'))
  BY <1>2 DEF ParserIInv
<1>8. ASSUME by = "server" PROVE Arrived'
  <2>1. records \in Answers /\ m = Message(records)
    BY <1>8
  <2>2. Message(sent.records)' = m
    BY <2>1, <1>2, <1>4 DEF Message, Written
  <2>3. Len(m) \in Nat
    BY LenProperties
  <2>4. Len(buf') = n /\ n <= Len(m) /\ buf' = SubSeq(m, 1, n)
    BY <2>3, <1>1, <1>3
  <2>5. sent'.whole <=> n = Len(m)
    BY <1>4
  <2>6. sent'.records \in Answers
    BY <2>1, <1>4
  <2> QED BY <2>2, <2>4, <2>5, <2>6 DEF Arrived
<1>9. ResultIsTheAnswer'
  BY <1>2 DEF ResultIsTheAnswer
<1> QED BY <1>2, <1>4, <1>5, <1>6, <1>7, <1>8, <1>9 DEF ParserIInv

\* What servers and strangers send are bytes.
LEMMA DatagramKeepsInv ==
  ASSUME ParserIInv, ServerAnswers \/ StrangerSends
  PROVE  ParserIInv'
<1>1. at = "waiting"
  BY DEF ServerAnswers, StrangerSends, Arrives
<1>2. host \in Seq(Byte)
  BY <1>1, DnsUtilAssumption DEF ParserIInv
<1>3. CASE ServerAnswers
  <2>1. PICK a \in Answers : Arrives(Message(a), "server", a)
    BY <1>3 DEF ServerAnswers
  <2>4. Answerable(a)
    BY AnswersAnswerable
  <2>5. Len(a) \in Nat /\ \A k \in 0..Len(a) : Written(a)[k] \in Seq(Byte)
    BY <1>2, <2>4, WrittenByRecord
  <2>2. Len(a) \in 0..Len(a) /\ \A k \in 0..Len(a) : Written(a)[k] \in Seq(Byte)
    BY <2>5
  <2>3. Message(a) \in Seq(Byte)
    BY <2>2 DEF Message
  <2> QED BY <2>1, <2>3, ArrivesKeepsInv
<1>4. CASE StrangerSends
  <2>1. PICK m \in Strays : Arrives(m, "stranger", << >>)
    BY <1>4 DEF StrangerSends
  <2>2. m \in Seq(Byte)
    BY DnsUtilAssumption
  <2>3. "stranger" \in { "server", "stranger" } /\ "stranger" # "server"
    OBVIOUS
  <2> QED BY <2>1, <2>2, <2>3, ArrivesKeepsInv
<1> QED BY <1>3, <1>4

\* Nothing is left of a lookup.
LEMMA LookupOverKeepsInv ==
  ASSUME ParserIInv, LookupOver
  PROVE  ParserIInv'
<1>1. /\ at' = "idle" /\ buf' = << >> /\ read_ndx' = 0 /\ qlen' = 0 /\ left' = 0
      /\ addrs' = << >> /\ ret' = 0 /\ host' = << >> /\ sent' = Nobody
  BY DEF LookupOver
<1>2. BufLen \in Nat /\ MaxAddrs \in Nat
  BY DnsUtilAssumption
<1>3. << >> \in Seq(Byte) /\ << >> \in Seq(Seq(Byte)) /\ Len(<< >>) = 0
  BY EmptySeq
<1>4. sent'.by = "stranger" /\ sent'.whole = FALSE
  BY <1>1 DEF Nobody
<1>5. ParserTypeOK'
  <2>1. buf' \in Seq(Byte) /\ Len(buf') <= BufLen /\ addrs' \in Seq(Seq(Byte))
    BY <1>1, <1>2, <1>3
  <2>2. /\ read_ndx' \in Nat /\ qlen' \in 0..BufLen /\ left' \in Nat
        /\ at' \in { "idle", "waiting", "header", "name", "rdata", "done" }
        /\ ret' \in { 0, -1 }
    BY <1>1, <1>2
  <2>3. host' \in Hosts \cup { << >> } /\ sent'.by \in { "server", "stranger" } /\ sent'.whole \in BOOLEAN
    BY <1>1, <1>4
  <2> QED BY <2>1, <2>2, <2>3 DEF ParserTypeOK
<1>6. ReadsInside'
  BY <1>1, <1>2, <1>3 DEF ReadsInside
<1>7. ResultIsTheAnswer'
  BY <1>1 DEF ResultIsTheAnswer
<1> QED BY <1>1, <1>5, <1>6, <1>7 DEF ParserIInv

\* At the start the invariant holds.
LEMMA ParserInitInv ==
  ASSUME ParserInit
  PROVE  ParserIInv
<1>1. /\ at = "idle" /\ buf = << >> /\ read_ndx = 0 /\ qlen = 0 /\ left = 0
      /\ addrs = << >> /\ ret = 0 /\ host = << >> /\ sent = Nobody
  BY DEF ParserInit
<1>2. BufLen \in Nat /\ MaxAddrs \in Nat
  BY DnsUtilAssumption
<1>3. << >> \in Seq(Byte) /\ << >> \in Seq(Seq(Byte)) /\ Len(<< >>) = 0
  BY EmptySeq
<1>4. sent.by = "stranger" /\ sent.whole = FALSE
  BY <1>1 DEF Nobody
<1>5. ParserTypeOK
  <2>1. buf \in Seq(Byte) /\ Len(buf) <= BufLen /\ addrs \in Seq(Seq(Byte))
    BY <1>1, <1>2, <1>3
  <2>2. /\ read_ndx \in Nat /\ qlen \in 0..BufLen /\ left \in Nat
        /\ at \in { "idle", "waiting", "header", "name", "rdata", "done" }
        /\ ret \in { 0, -1 }
    BY <1>1, <1>2
  <2>3. host \in Hosts \cup { << >> } /\ sent.by \in { "server", "stranger" } /\ sent.whole \in BOOLEAN
    BY <1>1, <1>4
  <2> QED BY <2>1, <2>2, <2>3 DEF ParserTypeOK
<1>6. ReadsInside
  BY <1>1, <1>2, <1>3 DEF ReadsInside
<1>7. ResultIsTheAnswer
  BY <1>1 DEF ResultIsTheAnswer
<1> QED BY <1>1, <1>5, <1>6, <1>7 DEF ParserIInv

\* Without a step everything is as it was.
LEMMA ParserStutterKeepsInv ==
  ASSUME ParserIInv, UNCHANGED parserVars
  PROVE  ParserIInv'
<1>1. UNCHANGED << buf, read_ndx, qlen, at, left, addrs, ret, host, sent >>
  BY DEF parserVars
<1>2. Written(sent.records)' = Written(sent.records)
  BY <1>1, SameWritten
<1>3. ParserTypeOK' /\ ReadsInside' /\ ResultIsTheAnswer'
  BY <1>1 DEF ParserIInv, ParserTypeOK, ReadsInside, ResultIsTheAnswer
<1>4. Arrived => Arrived'
  BY <1>1, ArrivedStays
<1>5. InRecord => InRecord'
  BY <1>1, <1>2 DEF InRecord
<1> QED BY <1>1, <1>3, <1>4, <1>5 DEF ParserIInv

-----------------------------------------------------------------------------
\* The parser is at every moment at the place of the datagram it takes itself
\* to be at, with what the records before it said: dns_util_parse_A_response
\* on answers of any servers and on datagrams of anybody, cut anywhere.
THEOREM ParserInvariantHolds == ParserSpec => []ParserIInv
<1>1. ParserInit => ParserIInv
  BY ParserInitInv
<1>2. ParserIInv /\ [ParserNext]_parserVars => ParserIInv'
  <2> SUFFICES ASSUME ParserIInv, [ParserNext]_parserVars PROVE ParserIInv'
    OBVIOUS
  <2>1. CASE \E h \in Hosts : dns_util_build_A_query(h)
    BY <2>1, QueryKeepsInv
  <2>2. CASE ServerAnswers \/ StrangerSends
    BY <2>2, DatagramKeepsInv
  <2>3. CASE ParseHeader
    BY <2>3, ParseHeaderKeepsInv
  <2>4. CASE ParseQname
    BY <2>4, ParseQnameKeepsInv
  <2>5. CASE ParseRData
    BY <2>5, ParseRDataKeepsInv
  <2>6. CASE LookupOver
    BY <2>6, LookupOverKeepsInv
  <2>7. CASE UNCHANGED parserVars
    BY <2>7, ParserStutterKeepsInv
  <2> QED BY <2>1, <2>2, <2>3, <2>4, <2>5, <2>6, <2>7 DEF ParserNext, Parse
<1> QED BY <1>1, <1>2, PTL DEF ParserSpec

\* The buffer, the indices and the addresses stay in their types.
THEOREM ParserTypeCorrect == ParserSpec => []ParserTypeOK
<1>1. ParserIInv => ParserTypeOK
  BY DEF ParserIInv
<1> QED BY <1>1, ParserInvariantHolds, PTL

\* Nothing that is received takes the parser past the end of the datagram or
\* more addresses than the caller has room for: dns_util_read and the checks
\* around it.
THEOREM ReadsStayInside == ParserSpec => []ReadsInside
<1>1. ParserIInv => ReadsInside
  BY DEF ParserIInv
<1> QED BY <1>1, ParserInvariantHolds, PTL

\* A server's answer gives exactly its addresses, and one that was cut, is
\* empty or malformed an error: dns_util_parse_A_response, for answers of any
\* number of records with names of any length.
THEOREM ResultStaysTheAnswer == ParserSpec => []ResultIsTheAnswer
<1>1. ParserIInv => ResultIsTheAnswer
  BY DEF ParserIInv
<1> QED BY <1>1, ParserInvariantHolds, PTL

=============================================================================
