---------------------------- MODULE IoNetProofs ----------------------------
(* What io_net.c keeps true of its objects, their sockets and the event     *)
(* loop, for any objects, descriptors and traffic.                          *)
EXTENDS IoNet, Lemmas

-----------------------------------------------------------------------------
(* Opening an object.                                                       *)

\* io_driver_watcher_init on an object that is watched for nothing
LEMMA RenewedIsSame ==
  ASSUME NEW d \in DriverType, NEW n \in Watchers, d.event_listening[n] = {}
  PROVE  Renewed(d, n) = d
<1>1. d = [ watchers |-> d.watchers, run_list |-> d.run_list,
            event_listening |-> d.event_listening ]
  BY DEF DriverType
<1>2. [d.event_listening EXCEPT ![n] = {}] = d.event_listening
  BY DEF DriverType
<1> QED BY <1>1, <1>2 DEF Renewed

\* socket() and accept() return a descriptor that was free.
LEMMA NewFdIsFree ==
  ASSUME Free # {}
  PROVE  NewFd \in Fds /\ sock[NewFd].st = "free"
<1>1. Free \subseteq Nat
  BY IoNetAssumption DEF Free
<1>2. \E f \in Free : \A g \in Free : f <= g
  BY <1>1, LeastExists
<1>3. NewFd \in Free
  BY <1>2 DEF NewFd
<1> QED BY <1>3 DEF Free

-----------------------------------------------------------------------------
(* Steps that change one object that is open, and steps that open one.      *)

\* n, an open object, now listens to evs, its socket is s and its fields o.
Changes(n, evs, s, o) ==
  /\ n \in Watchers /\ net[n].live
  /\ evs \in SUBSET Events
  /\ s \in SockType /\ o \in NetType
  /\ o.live /\ s.st \in SocketsOf(o.handler)
  /\ o.handshaking <=> o.handler = "ssl_handshake"
  /\ Rewatched(drv, drv', n, evs)
  /\ sock' = [sock EXCEPT ![fd[n]] = s]
  /\ net' = [net EXCEPT ![n] = o]
  /\ UNCHANGED << loopVars, fd >>

\* What Readable looks at, and whether a connect is over, is as before.
SameNews(s, t) == s.st = t.st /\ s.in = t.in /\ s.eof = t.eof

\* The parts of the invariant that are not about the frame
World ==
  /\ TypeOK /\ net \in [Watchers -> NetType] /\ sock \in [Fds -> SockType]
  /\ DriverSound /\ SocketsFit /\ SocketsHeld /\ ReadinessHolds

\* A socket some handler is given is one that is open.
LEMMA GivenIsOpen ==
  ASSUME NEW handler
  PROVE  "free" \notin SocketsOf(handler)
BY DEF SocketsOf

\* What such a step keeps true
LEMMA ChangesKeepWorld ==
  ASSUME World, frame.newsd \in Fds \cup {0}, NEW n, NEW evs, NEW s, NEW o,
         Changes(n, evs, s, o), frame'.newsd = frame.newsd,
         n \notin Linked(drv.run_list) \/ SameNews(sock[fd[n]], s)
  PROVE  World'
<1>1. /\ n \in Watchers /\ net[n].live /\ fd \in [Watchers -> Fds]
      /\ net \in [Watchers -> NetType] /\ sock \in [Fds -> SockType]
      /\ fd' = fd /\ sets' = sets /\ phase' = phase /\ call' = call
      /\ sock' = [sock EXCEPT ![fd[n]] = s] /\ net' = [net EXCEPT ![n] = o]
      /\ s \in SockType /\ o \in NetType /\ o.live
      /\ s.st \in SocketsOf(o.handler) /\ s.st # "free"
      /\ o.handshaking <=> o.handler = "ssl_handshake"
  BY GivenIsOpen DEF Changes, World, TypeOK, loopVars
<1>2. /\ drv \in DriverType /\ drv' \in DriverType /\ ListsConsistent(drv) /\ ListsConsistent(drv')
      /\ drv.run_list = EmptyList => drv'.run_list = EmptyList
      /\ Linked(drv'.run_list) \subseteq Linked(drv.run_list)
      /\ drv'.event_listening = [drv.event_listening EXCEPT ![n] = evs]
      /\ drv.event_listening \in [Watchers -> SUBSET Events]
  BY DEF World, TypeOK, DriverSound, Consistent, Changes, Rewatched, DriverType
<1>3. /\ \A m \in Watchers : net'[m].live <=> net[m].live
      /\ \A m \in Watchers \ {n} : net'[m] = net[m] /\ (net[m].live => sock'[fd[m]] = sock[fd[m]])
      /\ net'[n] = o /\ sock'[fd[n]] = s
  BY <1>1 DEF World, SocketsHeld
<1>4. TypeOK' /\ net' \in [Watchers -> NetType] /\ sock' \in [Fds -> SockType]
  BY <1>1, <1>2 DEF World, TypeOK
<1>5. DriverSound'
  BY <1>1, <1>2 DEF World, DriverSound, Consistent
<1>6. SocketsFit'
  <2>1. ASSUME NEW m \in Watchers
        PROVE  /\ IF net'[m].live THEN sock'[fd'[m]].st \in SocketsOf(net'[m].handler)
                  ELSE net'[m].handler = "none"
               /\ net'[m].handshaking <=> net'[m].handler = "ssl_handshake"
    BY <1>1, <1>3 DEF World, SocketsFit, S
  <2>2. ASSUME frame'.newsd # 0 PROVE sock'[frame'.newsd].st = "stream"
    BY <1>1, <2>2 DEF World, SocketsFit, SocketsHeld
  <2> QED BY <2>1, <2>2 DEF SocketsFit, S
<1>7. SocketsHeld'
  <2>1. \A m \in Watchers : Registered(drv', m) => net'[m].live
    BY <1>1, <1>2, <1>3 DEF World, SocketsHeld, Registered
  <2>2. \A f \in Fds : sock'[f].st # "free" =>
          f = frame'.newsd \/ \E m \in Watchers : net'[m].live /\ fd'[m] = f
    BY <1>1, <1>3 DEF World, SocketsHeld
  <2> QED BY <1>1, <1>3, <2>1, <2>2 DEF World, SocketsHeld
<1>8. ReadinessHolds'
  <2> SUFFICES ASSUME NEW m \in Linked(drv'.run_list)
               PROVE  NewsIsTrue(m, { ev \in Events : fd[m] \in sets[ev] })'
    BY <1>1 DEF ReadinessHolds
  <2>1. m \in Linked(drv.run_list) /\ m \in Watchers /\ net[m].live
    BY <1>2, LinkedSubset DEF World, SocketsHeld, ListsConsistent, DriverType
  <2>2. NewsIsTrue(m, { ev \in Events : fd[m] \in sets[ev] })
    BY <2>1 DEF World, ReadinessHolds
  <2>3. SameNews(sock[fd[m]], sock'[fd'[m]])
    BY <1>1, <1>3, <2>1 DEF SameNews
  <2> QED BY <1>1, <2>2, <2>3 DEF NewsIsTrue, Readable, SameNews, S
<1> QED BY <1>4, <1>5, <1>6, <1>7, <1>8 DEF World

\* n, which was closed, is opened on the descriptor f: one that was free, or
\* the one the accept callback held.
Opens(n, f, s, o, ev) ==
  /\ n \in Watchers /\ ~net[n].live
  /\ f \in Fds /\ ev \in SUBSET Events
  /\ s \in SockType /\ o \in NetType
  /\ o.live /\ s.st \in SocketsOf(o.handler)
  /\ o.handshaking <=> o.handler = "ssl_handshake"
  /\ fd' = [fd EXCEPT ![n] = f]
  /\ net' = [net EXCEPT ![n] = o]
  /\ drv' = Watch(Renewed(drv, n), n, ev)
  /\ sock' = [sock EXCEPT ![f] = s]
  /\ \/ sock[f].st = "free" /\ frame'.newsd = frame.newsd
     \/ f = frame.newsd /\ frame'.newsd = 0
  /\ UNCHANGED loopVars

\* n now listens to ev, and waits for the next round.
Joined(n, ev) ==
  /\ drv'.event_listening = [drv.event_listening EXCEPT ![n] = ev]
  /\ n \notin Linked(drv'.run_list)
  /\ Linked(drv'.run_list) \subseteq Linked(drv.run_list)

\* What such a step keeps true
LEMMA OpensKeepsWorld ==
  ASSUME World, frame.newsd \in Fds \cup {0}, NEW n, NEW f, NEW s, NEW o, NEW ev,
         Opens(n, f, s, o, ev)
  PROVE  World' /\ Joined(n, ev)
<1>1. /\ n \in Watchers /\ ~net[n].live /\ f \in Fds /\ ev \in SUBSET Events
      /\ fd \in [Watchers -> Fds]
      /\ net \in [Watchers -> NetType] /\ sock \in [Fds -> SockType]
      /\ fd' = [fd EXCEPT ![n] = f] /\ sets' = sets /\ phase' = phase /\ call' = call
      /\ sock' = [sock EXCEPT ![f] = s] /\ net' = [net EXCEPT ![n] = o]
      /\ s \in SockType /\ o \in NetType /\ o.live
      /\ s.st \in SocketsOf(o.handler) /\ s.st # "free"
      /\ o.handshaking <=> o.handler = "ssl_handshake"
      /\ \/ sock[f].st = "free" /\ frame'.newsd = frame.newsd
         \/ f = frame.newsd /\ frame'.newsd = 0
  BY GivenIsOpen DEF Opens, World, TypeOK, loopVars
<1>2. /\ drv \in DriverType /\ ListsConsistent(drv)
      /\ drv.event_listening \in [Watchers -> SUBSET Events]
      /\ drv.event_listening[n] = {} /\ n \notin Linked(drv.run_list)
  BY <1>1 DEF World, TypeOK, DriverSound, Consistent, DriverType, SocketsHeld, Registered,
              ListsConsistent
<1>3. Renewed(drv, n) = drv
  BY <1>1, <1>2, RenewedIsSame
<1>4. /\ drv' \in DriverType /\ ListsConsistent(drv')
      /\ drv.run_list = EmptyList => drv'.run_list = EmptyList
      /\ Linked(drv'.run_list) \subseteq Linked(drv.run_list)
      /\ drv'.event_listening = [drv.event_listening EXCEPT ![n] = ev]
  <2>1. Rewatched(drv, Watch(drv, n, ev), n, drv.event_listening[n] \cup ev)
    BY <1>1, <1>2, WatchRewatches
  <2>2. drv' = Watch(drv, n, ev) /\ drv.event_listening[n] \cup ev = ev
    BY <1>2, <1>3 DEF Opens
  <2> QED BY <2>1, <2>2 DEF Rewatched
<1>5. /\ \A m \in Watchers \ {n} : net'[m] = net[m] /\ fd'[m] = fd[m]
      /\ \A m \in Watchers : net[m].live => fd[m] # f /\ sock'[fd[m]] = sock[fd[m]]
      /\ net'[n] = o /\ fd'[n] = f /\ sock'[f] = s
  <2>1. \A m \in Watchers : net[m].live => sock[fd[m]].st # "free" /\ fd[m] # frame.newsd
    BY GivenIsOpen DEF World, SocketsFit, SocketsHeld, S
  <2> QED BY <1>1, <2>1
<1>6. TypeOK' /\ net' \in [Watchers -> NetType] /\ sock' \in [Fds -> SockType]
  BY <1>1, <1>4 DEF World, TypeOK
<1>7. DriverSound'
  BY <1>1, <1>4 DEF World, DriverSound, Consistent
<1>8. SocketsFit'
  <2>1. ASSUME NEW m \in Watchers
        PROVE  /\ IF net'[m].live THEN sock'[fd'[m]].st \in SocketsOf(net'[m].handler)
                  ELSE net'[m].handler = "none"
               /\ net'[m].handshaking <=> net'[m].handler = "ssl_handshake"
    BY <1>1, <1>5 DEF World, SocketsFit, S
  <2>2. ASSUME frame'.newsd # 0 PROVE sock'[frame'.newsd].st = "stream"
    BY <1>1, <2>2 DEF World, SocketsFit
  <2> QED BY <2>1, <2>2 DEF SocketsFit, S
<1>9. SocketsHeld'
  <2>1. \A m \in Watchers : Registered(drv', m) => net'[m].live
    BY <1>1, <1>2, <1>4, <1>5 DEF World, SocketsHeld, Registered
  <2>2. \A g \in Fds : sock'[g].st # "free" =>
          g = frame'.newsd \/ \E m \in Watchers : net'[m].live /\ fd'[m] = g
    <3> SUFFICES ASSUME NEW g \in Fds, sock'[g].st # "free", g # f
                 PROVE  g = frame'.newsd \/ \E m \in Watchers : net'[m].live /\ fd'[m] = g
      BY <1>1, <1>5
    <3>1. g = frame.newsd \/ \E m \in Watchers : net[m].live /\ fd[m] = g
      BY <1>1 DEF World, SocketsHeld
    <3>2. CASE g = frame.newsd
      BY <1>1, <3>2
    <3>3. ASSUME NEW m \in Watchers, net[m].live, fd[m] = g
          PROVE  net'[m].live /\ fd'[m] = g
      BY <1>1, <1>5, <3>3
    <3> QED BY <3>1, <3>2, <3>3
  <2>3. \A m \in Watchers : net'[m].live => fd'[m] # frame'.newsd
    <3>1. 0 \notin Fds
      BY IoNetAssumption
    <3>2. frame.newsd # 0 => sock[frame.newsd].st # "free"
      BY DEF World, SocketsFit
    <3>3. f # frame'.newsd
      BY <1>1, <3>1, <3>2
    <3> QED BY <1>1, <1>5, <3>1, <3>3 DEF World, SocketsHeld
  <2>4. \A k, m \in Watchers : net'[k].live /\ net'[m].live /\ k # m => fd'[k] # fd'[m]
    BY <1>1, <1>5 DEF World, SocketsHeld
  <2> QED BY <2>1, <2>2, <2>3, <2>4 DEF SocketsHeld
<1>10. ReadinessHolds'
  <2> SUFFICES ASSUME NEW m \in Linked(drv'.run_list)
               PROVE  NewsIsTrue(m, { ev_1 \in Events : fd[m] \in sets[ev_1] })'
    BY <1>1 DEF ReadinessHolds
  <2>1. m \in Linked(drv.run_list) /\ m \in Watchers /\ net[m].live /\ m # n
    BY <1>1, <1>2, <1>4, LinkedSubset DEF World, SocketsHeld, ListsConsistent, DriverType
  <2>2. NewsIsTrue(m, { ev_1 \in Events : fd[m] \in sets[ev_1] })
    BY <2>1 DEF World, ReadinessHolds
  <2>3. fd'[m] = fd[m] /\ sock'[fd'[m]] = sock[fd[m]]
    BY <1>1, <1>5, <2>1
  <2> QED BY <1>1, <2>2, <2>3 DEF NewsIsTrue, Readable, S
<1> QED BY <1>2, <1>4, <1>6, <1>7, <1>8, <1>9, <1>10 DEF World, Joined

\* io_net_close
LEMMA CloseKeepsWorld ==
  ASSUME World, frame \in FrameType, NEW n \in Watchers, net[n].live, io_net_close(n)
  PROVE  /\ World'
         /\ drv'.event_listening = [drv.event_listening EXCEPT ![n] = {}]
         /\ Linked(drv'.run_list) \subseteq Linked(drv.run_list)
<1> DEFINE o == [net[n] EXCEPT !.live = FALSE, !.handler = "none", !.handshaking = FALSE]
<1>1. /\ fd \in [Watchers -> Fds] /\ net \in [Watchers -> NetType] /\ sock \in [Fds -> SockType]
      /\ fd' = fd /\ sets' = sets /\ phase' = phase /\ call' = call
      /\ frame'.newsd = frame.newsd
      /\ sock' = [sock EXCEPT ![fd[n]] = Socket("free")]
      /\ net' = [net EXCEPT ![n] = o] /\ o \in NetType
  <2>1. frame'.newsd = frame.newsd
    BY DEF io_net_close, FrameType
  <2>2. net[n] \in NetType
    BY DEF World
  <2>3. o \in NetType
    BY <2>2 DEF NetType, Handlers
  <2>4. net' = [net EXCEPT ![n] = o]
    BY DEF World, io_net_close
  <2> QED BY <2>1, <2>3, <2>4 DEF World, TypeOK, io_net_close, loopVars
<1>2. /\ drv \in DriverType /\ ListsConsistent(drv)
      /\ drv.event_listening \in [Watchers -> SUBSET Events]
  BY DEF World, TypeOK, DriverSound, Consistent, DriverType
<1>3. /\ drv' \in DriverType /\ ListsConsistent(drv')
      /\ drv.run_list = EmptyList => drv'.run_list = EmptyList
      /\ Linked(drv'.run_list) \subseteq Linked(drv.run_list)
      /\ drv'.event_listening = [drv.event_listening EXCEPT ![n] = {}]
  <2>1. Rewatched(drv, NoWatch(drv, n, Events), n, drv.event_listening[n] \ Events)
    BY <1>2, NoWatchRewatches
  <2>2. drv' = NoWatch(drv, n, Events) /\ drv.event_listening[n] \ Events = {}
    BY <1>2 DEF io_net_close, Closed
  <2> QED BY <2>1, <2>2 DEF Rewatched
<1>4. /\ \A m \in Watchers \ {n} : net'[m] = net[m] /\ (net[m].live => sock'[fd[m]] = sock[fd[m]])
      /\ net'[n] = o /\ ~o.live /\ o.handler = "none" /\ ~o.handshaking
      /\ sock'[fd[n]].st = "free"
  BY <1>1 DEF World, SocketsHeld, NetType, Socket
<1> HIDE DEF o
<1>5. Socket("free") \in SockType
  BY DEF Socket, SockType
<1>6. TypeOK' /\ net' \in [Watchers -> NetType] /\ sock' \in [Fds -> SockType]
  BY <1>1, <1>3, <1>5 DEF World, TypeOK
<1>7. DriverSound'
  BY <1>1, <1>3 DEF World, DriverSound, Consistent
<1>8. SocketsFit'
  <2>1. ASSUME NEW m \in Watchers
        PROVE  /\ IF net'[m].live THEN sock'[fd'[m]].st \in SocketsOf(net'[m].handler)
                  ELSE net'[m].handler = "none"
               /\ net'[m].handshaking <=> net'[m].handler = "ssl_handshake"
    BY <1>1, <1>4 DEF World, SocketsFit, S
  <2>2. ASSUME frame'.newsd # 0 PROVE sock'[frame'.newsd].st = "stream"
    BY <1>1, <2>2 DEF World, SocketsFit, SocketsHeld
  <2> QED BY <2>1, <2>2 DEF SocketsFit, S
<1>9. SocketsHeld'
  <2>1. \A m \in Watchers : Registered(drv', m) => net'[m].live
    BY <1>1, <1>2, <1>3, <1>4 DEF World, SocketsHeld, Registered
  <2>2. \A f \in Fds : sock'[f].st # "free" =>
          f = frame'.newsd \/ \E m \in Watchers : net'[m].live /\ fd'[m] = f
    BY <1>1, <1>4 DEF World, SocketsHeld
  <2> QED BY <1>1, <1>4, <2>1, <2>2 DEF World, SocketsHeld
<1>10. ReadinessHolds'
  <2> SUFFICES ASSUME NEW m \in Linked(drv'.run_list)
               PROVE  NewsIsTrue(m, { ev \in Events : fd[m] \in sets[ev] })'
    BY <1>1 DEF ReadinessHolds
  <2>1. m \in Linked(drv.run_list) /\ m \in Watchers
    BY <1>2, <1>3, LinkedSubset DEF DriverType
  <2>2. m # n /\ net[m].live
    BY <1>2, <1>3, <2>1 DEF ListsConsistent, Registered, World, SocketsHeld
  <2>3. NewsIsTrue(m, { ev \in Events : fd[m] \in sets[ev] })
    BY <2>1 DEF World, ReadinessHolds
  <2>4. sock'[fd'[m]] = sock[fd[m]]
    BY <1>1, <1>4, <2>1, <2>2
  <2> QED BY <1>1, <2>3, <2>4 DEF NewsIsTrue, Readable, S
<1> QED BY <1>3, <1>6, <1>7, <1>8, <1>9, <1>10 DEF World

\* Steps that leave the objects and the driver alone and change sockets:
\* the kernel's, and those of an accept callback up to its answer.
LEMMA SocketStepKeepsWorld ==
  ASSUME World, UNCHANGED << vars, net >>, sock' \in [Fds -> SockType],
         frame.newsd \in Fds \cup {0},
         \A n \in Watchers : net[n].live =>
           /\ fd[n] # frame'.newsd
           /\ sock'[fd[n]].st \in SocketsOf(net[n].handler)
           /\ n \in Linked(drv.run_list) =>
                \A e \in SUBSET Events : NewsIsTrue(n, e) => NewsIsTrue(n, e)',
         frame'.newsd # 0 => sock'[frame'.newsd].st = "stream",
         \A f \in Fds : sock'[f].st # "free" => sock[f].st # "free" \/ f = frame'.newsd,
         frame.newsd # 0 /\ frame'.newsd # frame.newsd => sock'[frame.newsd].st = "free"
  PROVE  World'
<1>1. /\ drv' = drv /\ fd' = fd /\ sets' = sets /\ phase' = phase /\ call' = call /\ net' = net
      /\ drv \in DriverType /\ ListsConsistent(drv)
  BY DEF vars, World, TypeOK, DriverSound, Consistent
<1>2. TypeOK' /\ DriverSound'
  BY <1>1 DEF World, TypeOK, DriverSound, Consistent
<1>3. SocketsFit'
  BY <1>1 DEF World, SocketsFit, S
<1>4. SocketsHeld'
  <2>1. ASSUME NEW f \in Fds, sock'[f].st # "free"
        PROVE  f = frame'.newsd \/ \E n \in Watchers : net[n].live /\ fd[n] = f
    <3>1. CASE f = frame'.newsd
      BY <3>1
    <3>2. CASE sock[f].st # "free" /\ f # frame'.newsd
      <4>1. 0 \notin Fds
        BY IoNetAssumption
      <4>2. f = frame.newsd \/ \E n \in Watchers : net[n].live /\ fd[n] = f
        BY <3>2 DEF World, SocketsHeld
      <4>3. f # frame.newsd
        BY <2>1, <3>2, <4>1
      <4> QED BY <4>2, <4>3
    <3> QED BY <2>1, <3>1, <3>2
  <2> QED BY <1>1, <2>1 DEF World, SocketsHeld
<1>5. ReadinessHolds'
  <2> SUFFICES ASSUME NEW n \in Linked(drv.run_list)
               PROVE  NewsIsTrue(n, { ev \in Events : fd[n] \in sets[ev] })'
    BY <1>1 DEF ReadinessHolds
  <2>1. n \in Watchers /\ net[n].live
    BY <1>1, LinkedSubset DEF World, SocketsHeld, ListsConsistent, DriverType
  <2>2. NewsIsTrue(n, { ev \in Events : fd[n] \in sets[ev] })
    BY DEF World, ReadinessHolds
  <2>3. { ev \in Events : fd[n] \in sets[ev] } \in SUBSET Events
    OBVIOUS
  <2>4. ASSUME NEW e \in SUBSET Events, NewsIsTrue(n, e) PROVE NewsIsTrue(n, e)'
    BY <2>1, <2>4
  <2> QED BY <1>1, <2>2, <2>3, <2>4
<1> QED BY <1>1, <1>2, <1>3, <1>4, <1>5 DEF World

-----------------------------------------------------------------------------
(* The steps of the handlers.                                               *)

\* The parts of the invariant that are about the frame and the tx events
Control ==
  /\ frame \in FrameType
  /\ scheduled \in [Watchers -> { "no", "waiting", "overtaken" }]
  /\ frame.at = "none" <=> phase # "callback"
  /\ frame.newsd # 0 => frame.at = "user" /\ frame.ev = "alloc_connection"
  /\ FrameSound /\ CallIsTrue /\ TxDueIsWatched /\ ClosedMeansGone

Inv == World /\ Control

\* What a handler finds when it goes on: its object is open, off the round,
\* and on a socket of its kind, and no accepted descriptor is held.
LEMMA AtWork ==
  ASSUME Inv, frame.at \in { "enter", "tx", "handshake", "ssl_generic" }
  PROVE  /\ frame.net \in Watchers /\ net[frame.net].live
         /\ frame.net \notin Linked(drv.run_list)
         /\ net[frame.net] \in NetType /\ fd[frame.net] \in Fds
         /\ S(frame.net) \in SockType
         /\ S(frame.net).st \in SocketsOf(net[frame.net].handler)
         /\ net[frame.net].handshaking <=> net[frame.net].handler = "ssl_handshake"
         /\ frame.newsd = 0 /\ ~frame.closed /\ phase = "callback" /\ frame \in FrameType
         /\ drv \in DriverType /\ ListsConsistent(drv)
         /\ drv.event_listening \in [Watchers -> SUBSET Events]
<1>1. /\ frame.net \in Watchers /\ net[frame.net].live
      /\ frame.net \notin Linked(drv.run_list) /\ ~frame.closed
  BY DEF Inv, Control, FrameSound, Running
<1>2. /\ net \in [Watchers -> NetType] /\ fd \in [Watchers -> Fds] /\ sock \in [Fds -> SockType]
      /\ drv \in DriverType /\ ListsConsistent(drv)
  BY DEF Inv, World, TypeOK, DriverSound, Consistent
<1>3. frame.newsd = 0 /\ phase = "callback" /\ frame \in FrameType
  BY DEF Inv, Control
<1> QED BY <1>1, <1>2, <1>3 DEF Inv, World, SocketsFit, S, DriverType

\* A handler changes its object and goes on, tells the user something, or
\* is done.
LEMMA HandlerKeepsInv ==
  ASSUME Inv, frame.at \in { "enter", "tx", "handshake", "ssl_generic" },
         NEW n, n = frame.net, NEW evs, NEW s, NEW o, Changes(n, evs, s, o),
         frame' \in FrameType, frame'.newsd = 0, ~frame'.closed,
         frame'.at \in { "done", "user", "tx" },
         frame'.at \in { "user", "tx" } => frame'.net = n,
         frame'.at = "tx" => Fits("tx", o.handler),
         frame'.at = "user" =>
           /\ frame'.ev # "none" /\ frame'.then # "none"
           /\ frame'.then # "done" => Fits(frame'.then, o.handler)
           /\ frame'.ev = "closed" => o.handler # "generic" \/ s.st = "hungup" \/ s.eof,
         \/ /\ scheduled' = scheduled
            /\ scheduled[n] # "no" =>
                 "TX" \in evs /\ o.handler \in { "generic", "ssl_generic" }
         \/ scheduled' = [scheduled EXCEPT ![n] = "no"]
  PROVE  Inv'
<1>1. n \notin Linked(drv.run_list) /\ frame.newsd = 0 /\ phase = "callback"
  BY AtWork
<1>2. World'
  <2>1. World
    BY DEF Inv
  <2> QED BY <1>1, <2>1, ChangesKeepWorld
<1>3. /\ n \in Watchers /\ net[n].live /\ fd' = fd /\ phase' = phase
      /\ net \in [Watchers -> NetType] /\ sock \in [Fds -> SockType] /\ fd \in [Watchers -> Fds]
      /\ net' = [net EXCEPT ![n] = o] /\ sock' = [sock EXCEPT ![fd[n]] = s]
      /\ o.live
      /\ drv.event_listening \in [Watchers -> SUBSET Events]
      /\ drv'.event_listening = [drv.event_listening EXCEPT ![n] = evs]
      /\ Linked(drv'.run_list) \subseteq Linked(drv.run_list)
  BY DEF Changes, Inv, World, TypeOK, loopVars, Rewatched, DriverType
<1>4. net'[n] = o /\ sock'[fd'[n]] = s /\ drv'.event_listening[n] = evs
  BY <1>3
<1>5. FrameSound'
  BY <1>1, <1>3, <1>4 DEF FrameSound, Running
<1>6. CallIsTrue'
  BY DEF CallIsTrue
<1>7. TxDueIsWatched'
  <2> SUFFICES ASSUME NEW m \in Watchers, scheduled'[m] # "no"
               PROVE  /\ net'[m].live /\ net'[m].handler \in { "generic", "ssl_generic" }
                      /\ "TX" \in drv'.event_listening[m]
    BY DEF TxDueIsWatched
  <2>1. scheduled[m] # "no"
    BY DEF Inv, Control
  <2>2. CASE m = n
    BY <1>3, <1>4, <2>1, <2>2 DEF Inv, Control
  <2>3. CASE m # n
    BY <1>3, <2>1, <2>3 DEF Inv, Control, TxDueIsWatched
  <2> QED BY <2>2, <2>3
<1>8. ClosedMeansGone'
  BY <1>4 DEF ClosedMeansGone, S
<1>9. scheduled' \in [Watchers -> { "no", "waiting", "overtaken" }]
  BY DEF Inv, Control
<1> QED BY <1>1, <1>2, <1>3, <1>5, <1>6, <1>7, <1>8, <1>9 DEF Inv, Control

\* The frame of a handler that calls the user
LEMMA TellFrame ==
  ASSUME frame \in FrameType, NEW n \in Watchers, NEW ev \in NetEvents,
         NEW then \in { "none", "tx", "handshake", "ssl_generic", "done" }
  PROVE  /\ Tell(n, ev, then) \in FrameType
         /\ Tell(n, ev, then).at = "user" /\ Tell(n, ev, then).net = n
         /\ Tell(n, ev, then).ev = ev /\ Tell(n, ev, then).then = then
         /\ Tell(n, ev, then).newsd = frame.newsd /\ Tell(n, ev, then).closed = frame.closed
         /\ Tell(n, ev, then).e = frame.e /\ Tell(n, ev, then).by = frame.by
BY DEF Tell, FrameType

\* The frame of a handler that is done
LEMMA DoneFrame ==
  /\ Done \in FrameType /\ Done.at = "done" /\ Done.newsd = 0 /\ ~Done.closed
  /\ Done.by = "none" /\ Done.ev = "none"
BY DEF Done, NoFrame, FrameType, Handlers

\* How a handler leaves its object when it changes nothing of it
LEMMA NothingChanges ==
  ASSUME Inv, frame.at \in { "enter", "tx", "handshake", "ssl_generic" },
         drv' = drv, net' = net, UNCHANGED << loopVars, fd >>,
         NEW s \in SockType, sock' = [sock EXCEPT ![fd[frame.net]] = s],
         s.st = S(frame.net).st
  PROVE  Changes(frame.net, drv.event_listening[frame.net], s, net[frame.net])
<1>1. Rewatched(drv, drv, frame.net, drv.event_listening[frame.net])
  BY AtWork, SameRewatches
<1>2. net' = [net EXCEPT ![frame.net] = net[frame.net]]
  BY DEF Inv, World
<1> QED BY <1>1, <1>2, AtWork DEF Changes

\* io_net_generic_callback, a readable connection
LEMMA GenericRxKeepsInv ==
  ASSUME Inv, NEW n \in Watchers, GenericRx(n)
  PROVE  Inv'
<1> DEFINE s == [S(n) EXCEPT !.in = FALSE]
           then == Then(frame.e, "tx")
           ev == IF S(n).in THEN "rx" ELSE "closed"
<1>1. /\ frame.at = "enter" /\ frame.net = n /\ frame.by = "generic" /\ "RX" \in frame.e
      /\ frame' = Tell(n, ev, then) /\ sock' = DrainInput(n)
      /\ UNCHANGED << vars, net, scheduled >>
  BY DEF GenericRx, Entered
<1>2. net[n].handler = "generic" /\ NewsIsTrue(n, frame.e)
  BY <1>1 DEF Inv, Control, FrameSound, CallIsTrue
<1>3. /\ S(n) \in SockType /\ S(n).st \in { "stream", "hungup" } /\ frame \in FrameType
      /\ frame.newsd = 0 /\ ~frame.closed /\ fd[n] \in Fds /\ net[n].live
  BY <1>1, <1>2, AtWork DEF SocketsOf
<1>4. /\ s \in SockType /\ s.st = S(n).st /\ s.eof = S(n).eof
      /\ sock' = [sock EXCEPT ![fd[n]] = s]
  BY <1>1, <1>3 DEF SockType, DrainInput, S, Inv, World
<1>5. ~S(n).in => s.st = "hungup" \/ s.eof
  BY <1>1, <1>2, <1>3, <1>4 DEF NewsIsTrue, Readable
<1> HIDE DEF s
<1>6. Changes(n, drv.event_listening[n], s, net[n])
  BY <1>1, <1>4, NothingChanges DEF vars, loopVars
<1>7. /\ ev \in NetEvents /\ ev # "none" /\ (ev = "closed" => ~S(n).in)
      /\ then \in { "tx", "done" } /\ then # "none" /\ (then # "done" => Fits(then, "generic"))
  BY DEF NetEvents, Then, Fits
<1> HIDE DEF ev, then
<1>8. /\ frame' \in FrameType /\ frame'.at = "user" /\ frame'.net = n /\ frame'.newsd = 0
      /\ ~frame'.closed /\ frame'.ev = ev /\ frame'.then = then
  BY <1>1, <1>3, <1>7, TellFrame
<1>9. scheduled' = scheduled /\ (scheduled[n] # "no" => "TX" \in drv.event_listening[n])
  BY <1>1 DEF Inv, Control, TxDueIsWatched
<1> QED BY <1>1, <1>2, <1>5, <1>6, <1>7, <1>8, <1>9, HandlerKeepsInv

\* Setting the socket of an object to what it is
LEMMA SameSocket ==
  ASSUME Inv, NEW n \in Watchers
  PROVE  sock = [sock EXCEPT ![fd[n]] = S(n)] /\ net = [net EXCEPT ![n] = net[n]]
BY DEF Inv, World, TypeOK, S

\* io_net_generic_callback and io_ssl_generic_callback, room to write
LEMMA TxPartKeepsInv ==
  ASSUME Inv, NEW n \in Watchers, TxPart(n)
  PROVE  Inv'
<1> DEFINE evs == drv.event_listening[n] \ { "TX" }
<1>1. /\ frame.at \in { "enter", "tx" } /\ frame.net = n
      /\ drv' = NoWatch(drv, n, { "TX" }) /\ frame' = Tell(n, "tx", "done")
      /\ scheduled' = [scheduled EXCEPT ![n] = "no"]
      /\ UNCHANGED << loopVars, fd, net, sock >>
  BY DEF TxPart, Entered
<1>2. { "TX" } \in SUBSET Events /\ "tx" \in NetEvents
  BY IoNetAssumption DEF NetEvents
<1>3. Rewatched(drv, drv', n, evs) /\ evs \in SUBSET Events
  BY <1>1, <1>2, AtWork, NoWatchRewatches
<1> HIDE DEF evs
<1>4. Changes(n, evs, S(n), net[n])
  BY <1>1, <1>3, AtWork, SameSocket DEF Changes
<1>5. /\ frame' \in FrameType /\ frame'.at = "user" /\ frame'.net = n /\ frame'.newsd = 0
      /\ ~frame'.closed /\ frame'.ev = "tx" /\ frame'.then = "done"
  BY <1>1, <1>2, AtWork, TellFrame
<1> QED BY <1>1, <1>4, <1>5, HandlerKeepsInv

\* io_net_udp_callback
LEMMA UdpKeepsInv ==
  ASSUME Inv, NEW n \in Watchers, Udp(n)
  PROVE  Inv'
<1>1. /\ frame.at = "enter" /\ frame.net = n /\ UNCHANGED << vars, net, scheduled >>
      /\ sock' = DrainInput(n) \/ sock' = sock
      /\ frame' = Tell(n, "rx", "done") \/ frame' = Done
  BY DEF Udp, Entered
<1>2. PICK s \in SockType : s.st = S(n).st /\ sock' = [sock EXCEPT ![fd[n]] = s]
  <2>1. S(n) \in SockType /\ sock \in [Fds -> SockType] /\ fd[n] \in Fds
    BY <1>1, AtWork DEF Inv, World
  <2>2. CASE sock' = sock
    BY <2>1, <2>2, SameSocket
  <2>3. CASE sock' = DrainInput(n)
    <3> DEFINE t == [S(n) EXCEPT !.in = FALSE]
    <3>1. t \in SockType /\ t.st = S(n).st /\ sock' = [sock EXCEPT ![fd[n]] = t]
      BY <2>1, <2>3 DEF SockType, DrainInput, S
    <3> QED BY <3>1
  <2> QED BY <1>1, <2>2, <2>3
<1>3. Changes(n, drv.event_listening[n], s, net[n])
  BY <1>1, <1>2, NothingChanges DEF vars, loopVars
<1>4. /\ frame' \in FrameType /\ frame'.at \in { "user", "done" }
      /\ frame'.newsd = 0 /\ ~frame'.closed
      /\ frame'.at = "user" => frame'.net = n /\ frame'.ev = "rx" /\ frame'.then = "done"
  <2>1. "rx" \in NetEvents /\ frame \in FrameType /\ frame.newsd = 0 /\ ~frame.closed
    BY <1>1, AtWork DEF NetEvents
  <2> QED BY <1>1, <2>1, TellFrame, DoneFrame
<1>5. scheduled' = scheduled /\ (scheduled[n] # "no" =>
         "TX" \in drv.event_listening[n] /\ net[n].handler \in { "generic", "ssl_generic" })
  BY <1>1 DEF Inv, Control, TxDueIsWatched
<1> QED BY <1>1, <1>3, <1>4, <1>5, HandlerKeepsInv

\* What a connect leaves the driver with, when it worked and when it failed
LEMMA ConnectRewatches ==
  ASSUME Inv, frame.at \in { "enter", "tx", "handshake", "ssl_generic" },
         NEW n, n = frame.net
  PROVE  /\ Rewatched(drv, Established(drv, n), n,
                      (drv.event_listening[n] \ { "TX" }) \cup { "RX" })
         /\ Rewatched(drv, Failed(drv, n), n, drv.event_listening[n])
         /\ (drv.event_listening[n] \ { "TX" }) \cup { "RX" } \in SUBSET Events
         /\ drv.event_listening[n] \in SUBSET Events
<1>1. { "TX" } \in SUBSET Events /\ { "RX" } \in SUBSET Events
  BY IoNetAssumption
<1> QED BY <1>1, AtWork, SwitchRewatches, SameRewatches DEF Established, Failed

\* The socket of a connect that is over, after getsockopt
LEMMA ConnectIsOver ==
  ASSUME Inv, frame.at = "enter", frame.by \in { "connect", "ssl_connect" },
         NEW n, n = frame.net, "TX" \in frame.e,
         IF S(n).st = "refused" THEN sock' = [sock EXCEPT ![fd[n]] = Socket("hungup")]
                                ELSE sock' = sock
  PROVE  \E s \in SockType : /\ s.st \in { "stream", "hungup" }
                             /\ sock' = [sock EXCEPT ![fd[n]] = s]
<1>1. net[n].handler = frame.by /\ NewsIsTrue(n, frame.e)
  BY DEF Inv, Control, FrameSound, CallIsTrue
<1>2. /\ S(n) \in SockType /\ n \in Watchers
      /\ S(n).st \in { "stream", "refused", "hungup" }
  BY <1>1, AtWork DEF SocketsOf, NewsIsTrue
<1>3. Socket("hungup") \in SockType /\ Socket("hungup").st = "hungup"
  BY DEF Socket, SockType
<1> QED BY <1>2, <1>3, SameSocket

\* io_net_connect_callback
LEMMA ConnectKeepsInv ==
  ASSUME Inv, NEW n \in Watchers, Connect(n)
  PROVE  Inv'
<1>1. /\ frame.at = "enter" /\ frame.net = n /\ frame.by = "connect"
      /\ net[n].handler = "connect" /\ UNCHANGED << loopVars, fd, scheduled >>
  BY DEF Connect, Entered, Inv, Control, FrameSound
<1>2. scheduled' = scheduled /\ scheduled[n] = "no"
  BY <1>1 DEF Inv, Control, TxDueIsWatched
<1>3. CASE frame.e # { "TX" }
  <2>1. frame' = Done /\ drv' = drv /\ net' = net /\ sock' = sock
    BY <1>3 DEF Connect
  <2>2. Changes(n, drv.event_listening[n], S(n), net[n])
    BY <1>1, <2>1, AtWork, SameSocket, NothingChanges
  <2> QED BY <1>1, <1>2, <2>1, <2>2, DoneFrame, HandlerKeepsInv
<1>4. CASE frame.e = { "TX" }
  <2>1. /\ frame' = Tell(n, "alloc_connection", "done")
        /\ IF S(n).st = "refused" THEN sock' = [sock EXCEPT ![fd[n]] = Socket("hungup")]
                                  ELSE sock' = sock
        /\ \/ S(n).st = "refused" /\ drv' = Failed(drv, n) /\ net' = net
           \/ net' = [net EXCEPT ![n].handler = "generic"] /\ drv' = Established(drv, n)
    BY <1>4 DEF Connect, ConnectTold
  <2>2. PICK s \in SockType : /\ s.st \in { "stream", "hungup" }
                              /\ sock' = [sock EXCEPT ![fd[n]] = s]
    BY <1>1, <1>4, <2>1, ConnectIsOver
  <2>3. PICK o \in NetType : /\ net' = [net EXCEPT ![n] = o] /\ o.live
                             /\ s.st \in SocketsOf(o.handler)
                             /\ o.handshaking <=> o.handler = "ssl_handshake"
    <3>1. net[n] \in NetType /\ net[n].live /\ net \in [Watchers -> NetType]
          /\ (net[n].handshaking <=> net[n].handler = "ssl_handshake")
      BY <1>1, AtWork DEF Inv, World
    <3>2. CASE net' = net
      <4>1. net' = [net EXCEPT ![n] = net[n]] /\ s.st \in SocketsOf("connect")
        BY <2>2, <3>2, SameSocket DEF SocketsOf
      <4> QED BY <1>1, <3>1, <4>1
    <3>3. CASE net' = [net EXCEPT ![n].handler = "generic"]
      <4> DEFINE p == [net[n] EXCEPT !.handler = "generic"]
      <4>1. /\ p \in NetType /\ p.live /\ p.handler = "generic" /\ ~p.handshaking
            /\ net' = [net EXCEPT ![n] = p]
        BY <1>1, <3>1, <3>3 DEF NetType, Handlers
      <4>2. s.st \in SocketsOf("generic")
        BY <2>2 DEF SocketsOf
      <4> HIDE DEF p
      <4> QED BY <4>1, <4>2
    <3> QED BY <2>1, <3>2, <3>3
  <2>4. PICK evs \in SUBSET Events : Rewatched(drv, drv', n, evs)
    <3>1. /\ Rewatched(drv, Established(drv, n), n,
                       (drv.event_listening[n] \ { "TX" }) \cup { "RX" })
          /\ Rewatched(drv, Failed(drv, n), n, drv.event_listening[n])
          /\ (drv.event_listening[n] \ { "TX" }) \cup { "RX" } \in SUBSET Events
          /\ drv.event_listening[n] \in SUBSET Events
      BY <1>1, ConnectRewatches
    <3> QED BY <2>1, <3>1
  <2>5. Changes(n, evs, s, o)
    BY <1>1, <2>2, <2>3, <2>4, AtWork DEF Changes
  <2>6. /\ frame' \in FrameType /\ frame'.at = "user" /\ frame'.net = n /\ frame'.newsd = 0
        /\ ~frame'.closed /\ frame'.ev = "alloc_connection" /\ frame'.then = "done"
    <3>1. "alloc_connection" \in NetEvents
      BY DEF NetEvents
    <3> QED BY <1>1, <2>1, <3>1, AtWork, TellFrame
  <2> QED BY <1>1, <1>2, <2>5, <2>6, HandlerKeepsInv
<1> QED BY <1>3, <1>4

\* io_ssl_connect_callback
LEMMA SslConnectKeepsInv ==
  ASSUME Inv, NEW n \in Watchers, SslConnect(n)
  PROVE  Inv'
<1>1. /\ frame.at = "enter" /\ frame.net = n /\ frame.by = "ssl_connect"
      /\ net[n].handler = "ssl_connect" /\ UNCHANGED << loopVars, fd, scheduled >>
  BY DEF SslConnect, Entered, Inv, Control, FrameSound
<1>2. scheduled' = scheduled /\ scheduled[n] = "no"
  BY <1>1 DEF Inv, Control, TxDueIsWatched
<1>3. CASE frame.e # { "TX" }
  <2>1. frame' = Done /\ drv' = drv /\ net' = net /\ sock' = sock
    BY <1>3 DEF SslConnect
  <2>2. Changes(n, drv.event_listening[n], S(n), net[n])
    BY <1>1, <2>1, AtWork, SameSocket, NothingChanges
  <2> QED BY <1>1, <1>2, <2>1, <2>2, DoneFrame, HandlerKeepsInv
<1>4. CASE frame.e = { "TX" }
  <2>1. /\ frame' = Tell(n, "alloc_connection", "handshake")
        /\ net' = [net EXCEPT ![n].handler = "ssl_handshake", ![n].handshaking = TRUE]
        /\ IF S(n).st = "refused" THEN sock' = [sock EXCEPT ![fd[n]] = Socket("hungup")]
                                  ELSE sock' = sock
        /\ drv' = Failed(drv, n) \/ drv' = Established(drv, n)
    BY <1>4 DEF SslConnect, SslHandler, ConnectTold
  <2>2. PICK s \in SockType : /\ s.st \in { "stream", "hungup" }
                              /\ sock' = [sock EXCEPT ![fd[n]] = s]
    BY <1>1, <1>4, <2>1, ConnectIsOver
  <2> DEFINE o == [net[n] EXCEPT !.handler = "ssl_handshake", !.handshaking = TRUE]
  <2>3. /\ o \in NetType /\ net' = [net EXCEPT ![n] = o] /\ o.live
        /\ o.handler = "ssl_handshake" /\ o.handshaking
        /\ s.st \in SocketsOf("ssl_handshake")
    <3>1. net[n] \in NetType /\ net[n].live /\ net \in [Watchers -> NetType]
      BY <1>1, AtWork DEF Inv, World
    <3>2. o \in NetType /\ o.live /\ o.handler = "ssl_handshake" /\ o.handshaking
      BY <3>1 DEF NetType, Handlers
    <3>3. net' = [net EXCEPT ![n] = o]
      BY <2>1, <3>1
    <3>4. s.st \in SocketsOf("ssl_handshake")
      BY <2>2 DEF SocketsOf
    <3> QED BY <3>2, <3>3, <3>4
  <2> HIDE DEF o
  <2>4. PICK evs \in SUBSET Events : Rewatched(drv, drv', n, evs)
    <3>1. /\ Rewatched(drv, Established(drv, n), n,
                       (drv.event_listening[n] \ { "TX" }) \cup { "RX" })
          /\ Rewatched(drv, Failed(drv, n), n, drv.event_listening[n])
          /\ (drv.event_listening[n] \ { "TX" }) \cup { "RX" } \in SUBSET Events
          /\ drv.event_listening[n] \in SUBSET Events
      BY <1>1, ConnectRewatches
    <3> QED BY <2>1, <3>1
  <2>5. Changes(n, evs, s, o)
    BY <1>1, <2>2, <2>3, <2>4, AtWork DEF Changes
  <2>6. /\ frame' \in FrameType /\ frame'.at = "user" /\ frame'.net = n /\ frame'.newsd = 0
        /\ ~frame'.closed /\ frame'.ev = "alloc_connection" /\ frame'.then = "handshake"
    <3>1. "alloc_connection" \in NetEvents
      BY DEF NetEvents
    <3> QED BY <1>1, <2>1, <3>1, AtWork, TellFrame
  <2>7. Fits("handshake", o.handler)
    BY <2>3 DEF Fits
  <2> QED BY <1>1, <1>2, <2>5, <2>6, <2>7, HandlerKeepsInv
<1> QED BY <1>3, <1>4

\* Where a handshake goes on: the object is open and still in it.
LEMMA InHandshake ==
  ASSUME Inv, NEW n \in Watchers, AtHandshake(n)
  PROVE  /\ frame.at \in { "enter", "handshake" } /\ frame.net = n
         /\ net[n].handler = "ssl_handshake" /\ scheduled[n] = "no"
         /\ S(n).st \in { "stream", "hungup" }
<1>1. /\ frame.at \in { "enter", "handshake" } /\ frame.net = n
      /\ net[n].handler = "ssl_handshake"
  BY DEF AtHandshake, Entered, Inv, Control, FrameSound, Fits
<1>2. scheduled[n] = "no"
  BY <1>1 DEF Inv, Control, TxDueIsWatched
<1> QED BY <1>1, <1>2, AtWork DEF SocketsOf

\* A handler that read from its socket, and may have filled its send buffer
LEMMA SocketUsed ==
  ASSUME Inv, NEW n \in Watchers, frame.net = n,
         frame.at \in { "enter", "tx", "handshake", "ssl_generic" },
         \/ sock' = sock
         \/ sock' = DrainInput(n)
         \/ \E sin \in BOOLEAN : sock' = [sock EXCEPT ![fd[n]].in = sin, ![fd[n]].out = FALSE]
  PROVE  \E s \in SockType : /\ s.st = S(n).st /\ s.eof = S(n).eof
                             /\ sock' = [sock EXCEPT ![fd[n]] = s]
<1>1. S(n) \in SockType /\ sock \in [Fds -> SockType] /\ fd[n] \in Fds
  BY AtWork DEF Inv, World
<1>2. CASE sock' = sock
  BY <1>1, <1>2, SameSocket
<1>3. CASE sock' = DrainInput(n)
  <2> DEFINE t == [S(n) EXCEPT !.in = FALSE]
  <2>1. t \in SockType /\ t.st = S(n).st /\ t.eof = S(n).eof /\ sock' = [sock EXCEPT ![fd[n]] = t]
    BY <1>1, <1>3 DEF SockType, DrainInput, S
  <2> QED BY <2>1
<1>4. ASSUME NEW sin \in BOOLEAN,
             sock' = [sock EXCEPT ![fd[n]].in = sin, ![fd[n]].out = FALSE]
      PROVE  \E s \in SockType : /\ s.st = S(n).st /\ s.eof = S(n).eof
                                 /\ sock' = [sock EXCEPT ![fd[n]] = s]
  <2> DEFINE t == [S(n) EXCEPT !.in = sin, !.out = FALSE]
  <2>1. t \in SockType /\ t.st = S(n).st /\ t.eof = S(n).eof
    BY <1>1 DEF SockType
  <2>2. sock' = [sock EXCEPT ![fd[n]] = t]
    BY <1>1, <1>4 DEF S
  <2> HIDE DEF t
  <2> QED BY <2>1, <2>2
<1> QED BY <1>2, <1>3, <1>4

\* io_ssl_handshake_callback, the handshake is over
LEMMA HandshakeDoneKeepsInv ==
  ASSUME Inv, NEW n \in Watchers, HandshakeDone(n)
  PROVE  Inv'
<1> DEFINE o == [net[n] EXCEPT !.handshaking = FALSE, !.handler = "ssl_generic"]
           then == IF HandshakeEvents = {} THEN "done" ELSE "ssl_generic"
           evs == drv.event_listening[n] \ { "TX" }
           t == Tell(n, "handshaken", then)
<1>1. /\ frame.at \in { "enter", "handshake" } /\ frame.net = n
      /\ net[n].handler = "ssl_handshake" /\ scheduled[n] = "no"
      /\ S(n).st \in { "stream", "hungup" }
  BY InHandshake DEF HandshakeDone
<1>2. /\ drv' = NoWatch(drv, n, { "TX" }) /\ sock' \in { sock, DrainInput(n) }
      /\ net' = [net EXCEPT ![n].handshaking = FALSE, ![n].handler = "ssl_generic"]
      /\ frame' = [t EXCEPT !.e = HandshakeEvents]
      /\ UNCHANGED << loopVars, fd, scheduled >>
  BY DEF HandshakeDone
<1>3. PICK s \in SockType : s.st = S(n).st /\ sock' = [sock EXCEPT ![fd[n]] = s]
  BY <1>1, <1>2, SocketUsed
<1>4. { "TX" } \in SUBSET Events /\ "handshaken" \in NetEvents
  BY IoNetAssumption DEF NetEvents
<1>5. Rewatched(drv, drv', n, evs) /\ evs \in SUBSET Events
  BY <1>1, <1>2, <1>4, AtWork, NoWatchRewatches
<1>6. /\ o \in NetType /\ o.live /\ o.handler = "ssl_generic" /\ ~o.handshaking
      /\ net' = [net EXCEPT ![n] = o]
  <2>1. net[n] \in NetType /\ net[n].live /\ net \in [Watchers -> NetType]
    BY <1>1, AtWork DEF Inv, World
  <2>2. o \in NetType /\ o.live /\ o.handler = "ssl_generic" /\ ~o.handshaking
    BY <2>1 DEF NetType, Handlers
  <2> QED BY <1>2, <2>1, <2>2
<1>7. s.st \in SocketsOf("ssl_generic")
  BY <1>1, <1>3 DEF SocketsOf
<1>8. /\ t \in FrameType /\ t.at = "user" /\ t.net = n /\ t.newsd = 0
      /\ ~t.closed /\ t.ev = "handshaken" /\ t.then = then
      /\ HandshakeEvents \in SUBSET Events
  <2>1. then \in { "none", "tx", "handshake", "ssl_generic", "done" }
    OBVIOUS
  <2>2. /\ t \in FrameType /\ t.at = "user" /\ t.net = n /\ t.newsd = frame.newsd
        /\ t.closed = frame.closed /\ t.ev = "handshaken" /\ t.then = then
    BY <1>1, <1>4, <2>1, AtWork, TellFrame
  <2>3. HandshakeEvents \in SUBSET Events /\ frame.newsd = 0 /\ ~frame.closed
    BY <1>1, AtWork DEF HandshakeEvents, FrameType
  <2> QED BY <2>2, <2>3
<1>9. then \in { "done", "ssl_generic" } /\ (then # "done" => Fits(then, "ssl_generic"))
  BY DEF Fits
<1> HIDE DEF o, then, evs, t
<1>10. /\ frame' \in FrameType /\ frame'.at = "user" /\ frame'.net = n /\ frame'.newsd = 0
       /\ ~frame'.closed /\ frame'.ev = "handshaken" /\ frame'.then = then
  BY <1>2, <1>8 DEF FrameType
<1>11. Changes(n, evs, s, o)
  BY <1>1, <1>2, <1>3, <1>5, <1>6, <1>7, AtWork DEF Changes
<1> QED BY <1>1, <1>2, <1>6, <1>9, <1>10, <1>11, HandlerKeepsInv

\* io_ssl_handshake_callback, the handshake goes on at the next event
LEMMA HandshakeWantsKeepsInv ==
  ASSUME Inv, NEW n \in Watchers, HandshakeWants(n)
  PROVE  Inv'
<1>1. /\ frame.at \in { "enter", "handshake" } /\ frame.net = n
      /\ net[n].handler = "ssl_handshake" /\ scheduled[n] = "no"
  BY InHandshake DEF HandshakeWants
<1>2. /\ drv' = NoWatch(drv, n, { "TX" }) \/ drv' = Watch(NoWatch(drv, n, { "TX" }), n, { "TX" })
      /\ \/ sock' = DrainInput(n)
         \/ \E sin \in { S(n).in, FALSE } :
              sock' = [sock EXCEPT ![fd[n]].in = sin, ![fd[n]].out = FALSE]
      /\ frame' = Done
      /\ UNCHANGED << loopVars, fd, net, scheduled >>
  BY DEF HandshakeWants
<1>3. PICK s \in SockType : s.st = S(n).st /\ sock' = [sock EXCEPT ![fd[n]] = s]
  <2>1. S(n).in \in BOOLEAN
    BY <1>1, AtWork DEF SockType
  <2>2. \/ sock' = DrainInput(n)
        \/ \E sin \in BOOLEAN : sock' = [sock EXCEPT ![fd[n]].in = sin, ![fd[n]].out = FALSE]
    <3>1. ASSUME NEW sin \in { S(n).in, FALSE } PROVE sin \in BOOLEAN
      BY <2>1
    <3> QED BY <1>2, <3>1
  <2> QED BY <1>1, <2>2, SocketUsed
<1>4. PICK evs \in SUBSET Events : Rewatched(drv, drv', n, evs)
  <2> DEFINE old == drv.event_listening[n]
  <2>1. { "TX" } \in SUBSET Events /\ old \in SUBSET Events
    BY <1>1, IoNetAssumption, AtWork
  <2>2. /\ Rewatched(drv, NoWatch(drv, n, { "TX" }), n, old \ { "TX" })
        /\ Rewatched(drv, Watch(NoWatch(drv, n, { "TX" }), n, { "TX" }), n,
                     (old \ { "TX" }) \cup { "TX" })
    BY <1>1, <2>1, AtWork, NoWatchRewatches, SwitchRewatches
  <2>3. old \ { "TX" } \in SUBSET Events /\ (old \ { "TX" }) \cup { "TX" } \in SUBSET Events
    BY <2>1
  <2> HIDE DEF old
  <2> QED BY <1>2, <2>2, <2>3
<1>5. Changes(n, evs, s, net[n])
  BY <1>1, <1>2, <1>3, <1>4, AtWork, SameSocket DEF Changes
<1> QED BY <1>1, <1>2, <1>5, DoneFrame, HandlerKeepsInv

\* io_ssl_handshake_callback, the handshake failed
LEMMA HandshakeFailsKeepsInv ==
  ASSUME Inv, NEW n \in Watchers, HandshakeFails(n)
  PROVE  Inv'
<1> DEFINE evs == drv.event_listening[n] \ { "TX" }
<1>1. /\ frame.at \in { "enter", "handshake" } /\ frame.net = n
      /\ net[n].handler = "ssl_handshake" /\ scheduled[n] = "no"
  BY InHandshake DEF HandshakeFails
<1>2. /\ drv' = NoWatch(drv, n, { "TX" })
      /\ sock' = sock \/ sock' = DrainInput(n)
      /\ frame' = Tell(n, "closed", "done")
      /\ UNCHANGED << loopVars, fd, net, scheduled >>
  BY DEF HandshakeFails
<1>3. PICK s \in SockType : s.st = S(n).st /\ sock' = [sock EXCEPT ![fd[n]] = s]
  BY <1>1, <1>2, SocketUsed
<1>4. { "TX" } \in SUBSET Events /\ "closed" \in NetEvents
  BY IoNetAssumption DEF NetEvents
<1>5. Rewatched(drv, drv', n, evs) /\ evs \in SUBSET Events
  BY <1>1, <1>2, <1>4, AtWork, NoWatchRewatches
<1> HIDE DEF evs
<1>6. Changes(n, evs, s, net[n])
  BY <1>1, <1>2, <1>3, <1>5, AtWork, SameSocket DEF Changes
<1>7. /\ frame' \in FrameType /\ frame'.at = "user" /\ frame'.net = n /\ frame'.newsd = 0
      /\ ~frame'.closed /\ frame'.ev = "closed" /\ frame'.then = "done"
  BY <1>1, <1>2, <1>4, AtWork, TellFrame
<1> QED BY <1>1, <1>2, <1>6, <1>7, HandlerKeepsInv

\* Where an established TLS connection is read
LEMMA InSslGeneric ==
  ASSUME Inv, NEW n \in Watchers, AtSslGeneric(n)
  PROVE  /\ frame.at \in { "enter", "ssl_generic" } /\ frame.net = n
         /\ net[n].handler = "ssl_generic"
         /\ scheduled[n] # "no" => "TX" \in drv.event_listening[n]
BY DEF AtSslGeneric, Entered, Inv, Control, FrameSound, Fits, TxDueIsWatched

\* io_ssl_generic_callback, a readable connection
LEMMA SslRxKeepsInv ==
  ASSUME Inv, NEW n \in Watchers, SslRx(n)
  PROVE  Inv'
<1> DEFINE then == Then(frame.e, "tx")
           old == drv.event_listening[n]
<1>1. /\ frame.at \in { "enter", "ssl_generic" } /\ frame.net = n
      /\ net[n].handler = "ssl_generic"
      /\ scheduled[n] # "no" => "TX" \in old
  BY InSslGeneric DEF SslRx
<1>2. /\ \/ frame' = Tell(n, "rx", then)
         \/ frame' = Tell(n, "closed", "done")
         \/ frame' = [frame EXCEPT !.at = "tx"]
         \/ frame' = Done
      /\ \/ sock' = sock
         \/ sock' = DrainInput(n)
         \/ sock' = [sock EXCEPT ![fd[n]].in = FALSE, ![fd[n]].out = FALSE]
      /\ drv' = drv \/ drv' = Watch(drv, n, { "TX" })
      /\ UNCHANGED << loopVars, fd, net, scheduled >>
  BY DEF SslRx
<1>3. PICK s \in SockType : s.st = S(n).st /\ sock' = [sock EXCEPT ![fd[n]] = s]
  BY <1>1, <1>2, SocketUsed
<1>4. PICK evs \in SUBSET Events : Rewatched(drv, drv', n, evs) /\ old \subseteq evs
  <2>1. { "TX" } \in SUBSET Events /\ old \in SUBSET Events
    BY <1>1, IoNetAssumption, AtWork
  <2>2. /\ Rewatched(drv, drv, n, old)
        /\ Rewatched(drv, Watch(drv, n, { "TX" }), n, old \cup { "TX" })
    BY <1>1, <2>1, AtWork, SameRewatches, WatchRewatches
  <2> HIDE DEF old
  <2> QED BY <1>2, <2>1, <2>2
<1>5. Changes(n, evs, s, net[n])
  BY <1>1, <1>2, <1>3, <1>4, AtWork, SameSocket DEF Changes
<1>6. /\ then \in { "tx", "done" } /\ (then # "done" => Fits(then, "ssl_generic"))
      /\ Fits("tx", "ssl_generic")
      /\ "rx" \in NetEvents /\ "closed" \in NetEvents
  BY DEF Then, Fits, NetEvents
<1> HIDE DEF then
<1>7. /\ frame' \in FrameType /\ frame'.newsd = 0 /\ ~frame'.closed
      /\ frame'.at \in { "user", "tx", "done" }
      /\ frame'.at \in { "user", "tx" } => frame'.net = n
      /\ frame'.at = "user" => /\ frame'.ev \in { "rx", "closed" }
                               /\ frame'.then = then \/ frame'.then = "done"
  <2>1. frame \in FrameType /\ frame.newsd = 0 /\ ~frame.closed
    BY <1>1, AtWork
  <2>2. CASE frame' = Tell(n, "rx", then)
    BY <1>6, <2>1, <2>2, TellFrame
  <2>3. CASE frame' = Tell(n, "closed", "done")
    BY <1>6, <2>1, <2>3, TellFrame
  <2>4. CASE frame' = [frame EXCEPT !.at = "tx"]
    BY <1>1, <2>1, <2>4 DEF FrameType
  <2>5. CASE frame' = Done
    BY <2>5, DoneFrame
  <2> QED BY <1>2, <2>2, <2>3, <2>4, <2>5
<1>8. scheduled' = scheduled /\ (scheduled[n] # "no" => "TX" \in evs)
  BY <1>1, <1>2, <1>4
<1>9. frame'.at = "user" => frame'.ev # "none" /\ frame'.then # "none"
                            /\ (frame'.then # "done" => Fits(frame'.then, net[n].handler))
  BY <1>1, <1>6, <1>7
<1> QED BY <1>1, <1>5, <1>6, <1>7, <1>8, <1>9, HandlerKeepsInv

\* io_ssl_generic_callback at the end of a handshake that TX had resumed
LEMMA SslTxAfterHandshakeKeepsInv ==
  ASSUME Inv, NEW n \in Watchers, SslTxAfterHandshake(n)
  PROVE  Inv'
<1>1. /\ frame.at = "ssl_generic" /\ frame.net = n
      /\ frame' = [frame EXCEPT !.at = "tx"] /\ UNCHANGED << vars, net, sock, scheduled >>
  BY DEF SslTxAfterHandshake
<1>2. /\ net[n].handler = "ssl_generic" /\ Fits("tx", "ssl_generic")
      /\ scheduled[n] # "no" => "TX" \in drv.event_listening[n]
  BY <1>1 DEF Inv, Control, FrameSound, Fits, TxDueIsWatched
<1>3. Changes(n, drv.event_listening[n], S(n), net[n])
  BY <1>1, AtWork, SameSocket, NothingChanges DEF vars, loopVars
<1>4. /\ frame' \in FrameType /\ frame'.newsd = 0 /\ ~frame'.closed
      /\ frame'.at = "tx" /\ frame'.net = n
  BY <1>1, AtWork DEF FrameType
<1> QED BY <1>1, <1>2, <1>3, <1>4, HandlerKeepsInv

-----------------------------------------------------------------------------
(* The calls of the program.                                                *)

\* The program's code runs outside of the handlers' own.
LEMMA ProgramFrame ==
  ASSUME Inv, Program
  PROVE  /\ frame.at \in { "none", "user" } /\ frame \in FrameType
         /\ frame.newsd \in Fds \cup {0}
<1>1. phase = "app" => frame.at = "none"
  BY DEF Inv, Control
<1> QED BY <1>1 DEF Program, Inv, Control, FrameType

\* A call that opens an object on a descriptor that was free
LEMMA OpenCallKeepsInv ==
  ASSUME Inv, Program, NEW n, NEW f, NEW s, NEW o, NEW ev, Opens(n, f, s, o, ev),
         sock[f].st = "free", o.handler # "generic", frame' = frame, scheduled' = scheduled
  PROVE  Inv'
<1>1. /\ World' /\ Linked(drv'.run_list) \subseteq Linked(drv.run_list)
      /\ drv'.event_listening = [drv.event_listening EXCEPT ![n] = ev]
  <2>1. World /\ frame.newsd \in Fds \cup {0}
    BY ProgramFrame DEF Inv
  <2>2. World' /\ Joined(n, ev)
    BY <2>1, OpensKeepsWorld
  <2> QED BY <2>2 DEF Joined
<1>2. /\ n \in Watchers /\ ~net[n].live /\ fd \in [Watchers -> Fds] /\ phase' = phase
      /\ net \in [Watchers -> NetType] /\ sock \in [Fds -> SockType]
      /\ fd' = [fd EXCEPT ![n] = f] /\ f \in Fds
      /\ sock' = [sock EXCEPT ![f] = s] /\ net' = [net EXCEPT ![n] = o]
      /\ drv.event_listening \in [Watchers -> SUBSET Events]
  BY DEF Opens, Inv, World, TypeOK, loopVars, DriverType
<1>3. /\ \A m \in Watchers \ {n} : /\ net'[m] = net[m] /\ fd'[m] = fd[m]
                                   /\ drv'.event_listening[m] = drv.event_listening[m]
      /\ \A m \in Watchers : net[m].live => m # n /\ sock'[fd'[m]] = sock[fd[m]]
      /\ net'[n] = o
  <2>1. \A m \in Watchers : net[m].live => sock[fd[m]].st # "free"
    BY GivenIsOpen DEF Inv, World, SocketsFit, S
  <2> QED BY <1>1, <1>2, <2>1
<1>4. frame.at \in { "none", "user" }
  BY ProgramFrame
<1>5. FrameSound'
  BY <1>1, <1>2, <1>3, <1>4 DEF Inv, Control, FrameSound, Running
<1>6. CallIsTrue'
  BY <1>4 DEF CallIsTrue
<1>7. TxDueIsWatched'
  BY <1>3 DEF Inv, Control, TxDueIsWatched
<1>8. ClosedMeansGone'
  <2> SUFFICES ASSUME frame.at = "user", frame.ev = "closed", net'[frame.net].live,
                      net'[frame.net].handler = "generic"
               PROVE  sock'[fd'[frame.net]].st = "hungup" \/ sock'[fd'[frame.net]].eof
    BY DEF ClosedMeansGone, S
  <2>1. frame.net \in Watchers /\ frame.net # n
    BY <1>3 DEF Inv, Control, FrameSound, Running
  <2> QED BY <1>3, <2>1 DEF Inv, Control, ClosedMeansGone, S
<1> QED BY <1>1, <1>2, <1>5, <1>6, <1>7, <1>8 DEF Inv, Control

\* io_net_bind, io_net_connect and io_net_udp
LEMMA OpeningKeepsInv ==
  ASSUME Inv, NEW n \in Watchers, io_net_bind(n) \/ io_net_connect(n) \/ io_net_udp(n)
  PROVE  Inv'
<1>1. Program /\ ~net[n].live /\ NewFd \in Fds /\ sock[NewFd].st = "free"
  BY NewFdIsFree DEF io_net_bind, io_net_connect, io_net_udp, Opening
<1>2. frame' = frame /\ scheduled' = scheduled /\ UNCHANGED loopVars
  BY DEF io_net_bind, io_net_connect, io_net_udp
<1>3. /\ { "RX" } \in SUBSET Events /\ { "TX" } \in SUBSET Events
      /\ SslOf(n) \in SslValues /\ Unset(n) \subseteq SslValues
  BY IoNetAssumption DEF SslOf, SslValues, Unset, Inv, World, NetType
<1>4. PICK st, handler, ssl, ev :
        /\ Opened(n, NewFd, handler, ssl, FALSE, ev)
        /\ sock' = [sock EXCEPT ![NewFd] = Socket(st)]
        /\ \/ st = "listen" /\ handler \in { "accept", "ssl_accept" }
           \/ st = "connecting" /\ handler \in { "connect", "ssl_connect" }
           \/ st = "udp" /\ handler = "udp"
        /\ ssl \in SslValues /\ ev \in SUBSET Events
  <2>1. CASE io_net_bind(n)
    <3> DEFINE h == IF n \in SslNets THEN "ssl_accept" ELSE "accept"
    <3>1. /\ Opened(n, NewFd, h, SslOf(n), FALSE, { "RX" })
          /\ sock' = [sock EXCEPT ![NewFd] = Socket("listen")]
          /\ h \in { "accept", "ssl_accept" }
      BY <2>1 DEF io_net_bind
    <3> HIDE DEF h
    <3> QED BY <1>3, <3>1
  <2>2. CASE io_net_connect(n)
    <3> DEFINE h == IF n \in SslNets THEN "ssl_connect" ELSE "connect"
    <3>1. /\ Opened(n, NewFd, h, SslOf(n), FALSE, { "TX" })
          /\ sock' = [sock EXCEPT ![NewFd] = Socket("connecting")]
          /\ h \in { "connect", "ssl_connect" }
      BY <2>2 DEF io_net_connect
    <3> HIDE DEF h
    <3> QED BY <1>3, <3>1
  <2>3. CASE io_net_udp(n)
    BY <1>3, <2>3 DEF io_net_udp
  <2> QED BY <2>1, <2>2, <2>3
<1> DEFINE s == Socket(st)
           o == [ live |-> TRUE, handler |-> handler, ssl |-> ssl, handshaking |-> FALSE ]
<1>5. s \in SockType /\ s.st \in SocketsOf(handler)
  BY <1>4 DEF Socket, SockType, SocketsOf
<1>6. /\ o \in NetType /\ o.live /\ o.handler = handler /\ ~o.handshaking
      /\ handler # "ssl_handshake" /\ handler # "generic"
  BY <1>4 DEF NetType, Handlers
<1>7. /\ fd' = [fd EXCEPT ![n] = NewFd] /\ net' = [net EXCEPT ![n] = o]
      /\ drv' = Watch(Renewed(drv, n), n, ev) /\ sock' = [sock EXCEPT ![NewFd] = s]
  BY <1>4 DEF Opened
<1> HIDE DEF s, o
<1>8. Opens(n, NewFd, s, o, ev)
  BY <1>1, <1>2, <1>4, <1>5, <1>6, <1>7 DEF Opens
<1> QED BY <1>1, <1>2, <1>6, <1>8, OpenCallKeepsInv

\* io_net_close
LEMMA CloseKeepsInv ==
  ASSUME Inv, NEW n \in Watchers, io_net_close(n)
  PROVE  Inv'
<1>1. /\ Program /\ net[n].live
      /\ ~(frame.at = "user" /\ frame.net = n /\ frame.then = "handshake")
      /\ fd' = fd /\ phase' = phase
      /\ sock' = [sock EXCEPT ![fd[n]] = Socket("free")]
      /\ net' = [net EXCEPT ![n].live = FALSE, ![n].handler = "none", ![n].handshaking = FALSE]
      /\ frame' = IF frame.net = n /\ frame.at = "user"
                  THEN [frame EXCEPT !.closed = TRUE] ELSE frame
      /\ scheduled' = [scheduled EXCEPT ![n] = "no"]
  BY DEF io_net_close, MayClose, loopVars
<1>2. /\ World' /\ Linked(drv'.run_list) \subseteq Linked(drv.run_list)
      /\ drv'.event_listening = [drv.event_listening EXCEPT ![n] = {}]
  BY <1>1, CloseKeepsWorld, ProgramFrame DEF Inv
<1>3. /\ frame.at \in { "none", "user" } /\ frame \in FrameType
      /\ net \in [Watchers -> NetType] /\ sock \in [Fds -> SockType] /\ fd \in [Watchers -> Fds]
      /\ drv.event_listening \in [Watchers -> SUBSET Events]
  BY <1>1, ProgramFrame DEF Inv, World, TypeOK, DriverType
<1>4. /\ frame' \in FrameType /\ frame'.at = frame.at /\ frame'.net = frame.net
      /\ frame'.ev = frame.ev /\ frame'.then = frame.then /\ frame'.newsd = frame.newsd
      /\ IF frame.net = n /\ frame.at = "user" THEN frame'.closed ELSE frame'.closed = frame.closed
  BY <1>1, <1>3 DEF FrameType
<1>5. /\ ~net'[n].live
      /\ \A m \in Watchers \ {n} : /\ net'[m] = net[m]
                                   /\ net[m].live => sock'[fd'[m]] = sock[fd[m]]
                                   /\ drv'.event_listening[m] = drv.event_listening[m]
  <2>1. ~net'[n].live /\ \A m \in Watchers \ {n} : net'[m] = net[m]
    BY <1>1, <1>3 DEF NetType
  <2>2. \A m \in Watchers \ {n} : net[m].live => sock'[fd'[m]] = sock[fd[m]]
    BY <1>1, <1>3 DEF Inv, World, SocketsHeld
  <2> QED BY <1>2, <1>3, <2>1, <2>2
<1>6. FrameSound'
  <2>1. frame.at = "user" => frame.net \in Watchers /\ frame.net \notin Linked(drv.run_list)
    BY DEF Inv, Control, FrameSound, Running
  <2>2. frame'.closed => frame'.at = "user" /\ frame'.then # "handshake"
    BY <1>1, <1>3, <1>4 DEF Inv, Control, FrameSound
  <2>3. frame.at = "user" /\ frame.newsd = 0 /\ ~frame'.closed /\ frame.then # "done" =>
          net'[frame.net].live /\ Fits(frame.then, net'[frame.net].handler)
    <3> SUFFICES ASSUME frame.at = "user", frame.newsd = 0, ~frame'.closed, frame.then # "done"
                 PROVE  net'[frame.net].live /\ Fits(frame.then, net'[frame.net].handler)
      OBVIOUS
    <3>1. frame.net # n /\ ~frame.closed
      BY <1>4
    <3>2. net[frame.net].live /\ Fits(frame.then, net[frame.net].handler)
      BY <3>1 DEF Inv, Control, FrameSound
    <3>3. net'[frame.net] = net[frame.net]
      BY <1>5, <2>1, <3>1
    <3> QED BY <3>2, <3>3
  <2>4. frame.at = "user" => frame.ev # "none" /\ (frame.newsd = 0 => frame.then # "none")
    BY DEF Inv, Control, FrameSound
  <2> QED BY <1>2, <1>3, <1>4, <2>1, <2>2, <2>3, <2>4 DEF FrameSound, Running
<1>7. CallIsTrue'
  BY <1>3, <1>4 DEF CallIsTrue
<1>8. TxDueIsWatched'
  <2> SUFFICES ASSUME NEW m \in Watchers, scheduled'[m] # "no"
               PROVE  /\ net'[m].live /\ net'[m].handler \in { "generic", "ssl_generic" }
                      /\ "TX" \in drv'.event_listening[m]
    BY DEF TxDueIsWatched
  <2>1. m # n /\ scheduled[m] # "no"
    BY <1>1 DEF Inv, Control
  <2>2. /\ net[m].live /\ net[m].handler \in { "generic", "ssl_generic" }
        /\ "TX" \in drv.event_listening[m]
    BY <2>1 DEF Inv, Control, TxDueIsWatched
  <2>3. net'[m] = net[m] /\ drv'.event_listening[m] = drv.event_listening[m]
    BY <1>5, <2>1
  <2> QED BY <2>2, <2>3
<1>9. ClosedMeansGone'
  <2> SUFFICES ASSUME frame.at = "user", frame.ev = "closed", net'[frame.net].live,
                      net'[frame.net].handler = "generic"
               PROVE  sock'[fd'[frame.net]].st = "hungup" \/ sock'[fd'[frame.net]].eof
    BY <1>4 DEF ClosedMeansGone, S
  <2>1. frame.net \in Watchers /\ frame.net # n
    BY <1>5 DEF Inv, Control, FrameSound, Running
  <2>2. net'[frame.net] = net[frame.net]
    BY <1>5, <2>1
  <2>3. net[frame.net].live => sock'[fd'[frame.net]] = sock[fd[frame.net]]
    BY <1>5, <2>1
  <2>4. sock[fd[frame.net]].st = "hungup" \/ sock[fd[frame.net]].eof
    BY <2>2 DEF Inv, Control, ClosedMeansGone, S
  <2> QED BY <2>2, <2>3, <2>4
<1>10. /\ frame'.at = "none" <=> phase' # "callback"
       /\ frame'.newsd # 0 => frame'.at = "user" /\ frame'.ev = "alloc_connection"
       /\ scheduled' \in [Watchers -> { "no", "waiting", "overtaken" }]
  BY <1>1, <1>4 DEF Inv, Control
<1> QED BY <1>2, <1>4, <1>6, <1>7, <1>8, <1>9, <1>10 DEF Inv, Control

\* io_net_tx
LEMMA TxKeepsInv ==
  ASSUME Inv, NEW n \in Watchers, io_net_tx(n)
  PROVE  Inv'
<1>1. /\ Program /\ net[n].live /\ net[n].handler \in { "generic", "ssl_generic", "ssl_handshake" }
      /\ ~net[n].handshaking /\ frame' = frame /\ net' = net /\ UNCHANGED << loopVars, fd >>
      /\ \/ /\ \E room \in BOOLEAN : sock' = [sock EXCEPT ![fd[n]].out = room]
            /\ drv' = drv
            /\ scheduled' = [scheduled EXCEPT ![n] = IF @ = "no" THEN "no" ELSE "overtaken"]
         \/ /\ sock' = sock /\ drv' = Watch(drv, n, { "TX" })
            /\ scheduled' = [scheduled EXCEPT ![n] = IF net[n].ssl = "set" THEN @ ELSE "waiting"]
  BY DEF io_net_tx, TxWritten, TxScheduled, MayTransmit, ScheduleTx
<1>2. /\ frame.at \in { "none", "user" } /\ frame \in FrameType
      /\ frame.newsd \in Fds \cup {0}
  BY <1>1, ProgramFrame
<1>3. /\ net[n].handler \in { "generic", "ssl_generic" }
      /\ net[n].handshaking <=> net[n].handler = "ssl_handshake"
      /\ net \in [Watchers -> NetType] /\ sock \in [Fds -> SockType] /\ fd \in [Watchers -> Fds]
      /\ drv \in DriverType /\ ListsConsistent(drv)
      /\ drv.event_listening \in [Watchers -> SUBSET Events]
      /\ S(n).st \in SocketsOf(net[n].handler)
      /\ scheduled \in [Watchers -> { "no", "waiting", "overtaken" }]
  BY <1>1 DEF Inv, Control, World, SocketsFit, TypeOK, DriverSound, Consistent, DriverType
<1>4. PICK s \in SockType : SameNews(S(n), s) /\ sock' = [sock EXCEPT ![fd[n]] = s]
  <2>1. S(n) \in SockType
    BY <1>3 DEF S
  <2>2. CASE sock' = sock
    BY <2>1, <2>2, SameSocket DEF SameNews
  <2>3. ASSUME NEW room \in BOOLEAN, sock' = [sock EXCEPT ![fd[n]].out = room]
        PROVE  \E s \in SockType : SameNews(S(n), s) /\ sock' = [sock EXCEPT ![fd[n]] = s]
    <3> DEFINE t == [S(n) EXCEPT !.out = room]
    <3>1. t \in SockType /\ SameNews(S(n), t) /\ sock' = [sock EXCEPT ![fd[n]] = t]
      BY <1>3, <2>1, <2>3 DEF SockType, SameNews, S
    <3> QED BY <3>1
  <2> QED BY <1>1, <2>2, <2>3
<1>5. PICK evs \in SUBSET Events :
        /\ Rewatched(drv, drv', n, evs)
        /\ drv.event_listening[n] \subseteq evs
  <2> DEFINE old == drv.event_listening[n]
  <2>1. { "TX" } \in SUBSET Events /\ old \in SUBSET Events
    BY <1>3, IoNetAssumption
  <2>2. Rewatched(drv, drv, n, old)
    BY <1>3, SameRewatches
  <2>3. Rewatched(drv, Watch(drv, n, { "TX" }), n, old \cup { "TX" })
    BY <1>3, <2>1, WatchRewatches
  <2> HIDE DEF old
  <2>4. CASE drv' = drv
    BY <2>1, <2>2, <2>4 DEF old
  <2>5. CASE drv' = Watch(drv, n, { "TX" })
    <3>1. old \cup { "TX" } \in SUBSET Events
      BY <2>1
    <3> QED BY <2>3, <2>5, <3>1 DEF old
  <2> QED BY <1>1, <2>4, <2>5
<1>6. Changes(n, evs, s, net[n])
  <2>1. net[n] \in NetType /\ net' = [net EXCEPT ![n] = net[n]] /\ s.st = S(n).st
    BY <1>1, <1>3, <1>4, SameSocket DEF SameNews
  <2> QED BY <1>1, <1>3, <1>4, <1>5, <2>1 DEF Changes
<1>7. World'
  <2>1. World /\ frame'.newsd = frame.newsd /\ SameNews(sock[fd[n]], s)
    BY <1>1, <1>4 DEF Inv, S
  <2> QED BY <1>2, <1>6, <2>1, ChangesKeepWorld
<1>8. /\ Linked(drv'.run_list) \subseteq Linked(drv.run_list)
      /\ drv'.event_listening = [drv.event_listening EXCEPT ![n] = evs]
      /\ fd' = fd /\ phase' = phase
  BY <1>1, <1>5 DEF Rewatched, loopVars
<1>9. FrameSound'
  BY <1>1, <1>2, <1>8 DEF Inv, Control, FrameSound, Running
<1>10. CallIsTrue'
  BY <1>1, <1>2 DEF CallIsTrue
<1>11. TxDueIsWatched'
  <2> SUFFICES ASSUME NEW m \in Watchers, scheduled'[m] # "no"
               PROVE  /\ net[m].live /\ net[m].handler \in { "generic", "ssl_generic" }
                      /\ "TX" \in drv'.event_listening[m]
    BY <1>1 DEF TxDueIsWatched
  <2>1. \A k \in Watchers : scheduled[k] # "no" =>
          /\ net[k].live /\ net[k].handler \in { "generic", "ssl_generic" }
          /\ "TX" \in drv.event_listening[k]
    BY DEF Inv, Control, TxDueIsWatched
  <2>2. CASE m # n
    <3>1. scheduled[m] # "no" /\ drv'.event_listening[m] = drv.event_listening[m]
      BY <1>1, <1>3, <1>8, <2>2
    <3> QED BY <2>1, <3>1
  <2>3. CASE m = n
    <3>1. drv'.event_listening[n] = evs
      BY <1>3, <1>8
    <3>2. "TX" \in evs
      <4>1. CASE scheduled[n] # "no"
        BY <1>5, <2>1, <4>1
      <4>2. CASE scheduled[n] = "no"
        <5>1. drv' = Watch(drv, n, { "TX" })
          BY <1>1, <1>3, <2>3, <4>2
        <5>2. { "TX" } \in SUBSET Events
          BY IoNetAssumption
        <5>3. Rewatched(drv, drv', n, drv.event_listening[n] \cup { "TX" })
          BY <1>3, <5>1, <5>2, WatchRewatches
        <5>4. drv'.event_listening[n] = drv.event_listening[n] \cup { "TX" }
          BY <1>3, <5>3 DEF Rewatched
        <5> QED BY <3>1, <5>4
      <4> QED BY <4>1, <4>2
    <3> QED BY <1>1, <1>3, <2>3, <3>1, <3>2
  <2> QED BY <2>2, <2>3
<1>12. ClosedMeansGone'
  <2> SUFFICES ASSUME frame.at = "user", frame.ev = "closed", net[frame.net].live,
                      net[frame.net].handler = "generic"
               PROVE  sock'[fd[frame.net]].st = "hungup" \/ sock'[fd[frame.net]].eof
    BY <1>1, <1>8 DEF ClosedMeansGone, S
  <2>1. frame.net \in Watchers
    BY DEF Inv, Control, FrameSound, Running
  <2>2. sock[fd[frame.net]].st = "hungup" \/ sock[fd[frame.net]].eof
    BY DEF Inv, Control, ClosedMeansGone, S
  <2>3. SameNews(sock[fd[frame.net]], sock'[fd[frame.net]])
    BY <1>3, <1>4, <2>1 DEF SameNews, S
  <2> QED BY <2>2, <2>3 DEF SameNews
<1>13. scheduled' \in [Watchers -> { "no", "waiting", "overtaken" }]
  BY <1>1, <1>3
<1> QED BY <1>1, <1>7, <1>8, <1>9, <1>10, <1>11, <1>12, <1>13 DEF Inv, Control

-----------------------------------------------------------------------------
(* The kernel, the answers of the user, and the accept callbacks.           *)

\* What the kernel does to a socket keeps what a handler or select was told
\* of it.
LEMMA KernelKeepsNews ==
  ASSUME NEW f \in Fds, Kernel(f), sock \in [Fds -> SockType]
  PROVE  \E s \in SockType :
           /\ sock' = [sock EXCEPT ![f] = s]
           /\ s.st = "free" <=> sock[f].st = "free"
           /\ \A h : sock[f].st \in SocketsOf(h) => s.st \in SocketsOf(h)
           /\ sock[f].st # "connecting" => s.st = sock[f].st
           /\ s.st = "connecting" => sock[f].st = "connecting"
           /\ sock[f].in /\ s.st = sock[f].st => s.in
           /\ sock[f].eof /\ s.st = sock[f].st => s.eof
<1>1. sock[f] \in SockType
  OBVIOUS
<1>2. CASE ConnectionOrDataArrives(f)
  <2> DEFINE t == [sock[f] EXCEPT !.in = TRUE]
  <2>1. t \in SockType /\ t.st = sock[f].st /\ t.in /\ t.eof = sock[f].eof
    BY <1>1 DEF SockType
  <2>2. sock' = [sock EXCEPT ![f] = t]
    BY <1>2 DEF ConnectionOrDataArrives
  <2> HIDE DEF t
  <2> QED BY <2>1, <2>2
<1>3. CASE PeerCloses(f)
  <2> DEFINE t == [sock[f] EXCEPT !.eof = TRUE]
  <2>1. t \in SockType /\ t.st = sock[f].st /\ t.in = sock[f].in /\ t.eof
    BY <1>1 DEF SockType
  <2>2. sock' = [sock EXCEPT ![f] = t]
    BY <1>3 DEF PeerCloses
  <2> HIDE DEF t
  <2> QED BY <2>1, <2>2
<1>4. CASE SendBufferDrains(f)
  <2> DEFINE t == [sock[f] EXCEPT !.out = TRUE]
  <2>1. t \in SockType /\ t.st = sock[f].st /\ t.in = sock[f].in /\ t.eof = sock[f].eof
    BY <1>1 DEF SockType
  <2>2. sock' = [sock EXCEPT ![f] = t]
    BY <1>4 DEF SendBufferDrains
  <2> HIDE DEF t
  <2> QED BY <2>1, <2>2
<1>5. CASE ConnectResolves(f)
  <2>1. PICK st \in { "stream", "refused", "hungup" } : sock' = [sock EXCEPT ![f] = Socket(st)]
    BY <1>5 DEF ConnectResolves
  <2>2. sock[f].st = "connecting"
    BY <1>5 DEF ConnectResolves
  <2>3. Socket(st) \in SockType /\ Socket(st).st = st
    BY DEF Socket, SockType
  <2>4. \A h : "connecting" \in SocketsOf(h) => st \in SocketsOf(h)
    BY DEF SocketsOf
  <2> QED BY <2>1, <2>2, <2>3, <2>4
<1> QED BY <1>2, <1>3, <1>4, <1>5 DEF Kernel

\* The kernel and the peers take nothing back that select has said.
LEMMA KernelKeepsInv ==
  ASSUME Inv, NEW f \in Fds, Kernel(f)
  PROVE  Inv'
<1>1. UNCHANGED << vars, net, frame, scheduled >>
  BY DEF Kernel
<1>2. sock \in [Fds -> SockType] /\ fd \in [Watchers -> Fds]
  BY DEF Inv, World, TypeOK
<1>3. PICK s \in SockType :
        /\ sock' = [sock EXCEPT ![f] = s]
        /\ s.st = "free" <=> sock[f].st = "free"
        /\ \A h : sock[f].st \in SocketsOf(h) => s.st \in SocketsOf(h)
        /\ sock[f].st # "connecting" => s.st = sock[f].st
        /\ s.st = "connecting" => sock[f].st = "connecting"
        /\ sock[f].in /\ s.st = sock[f].st => s.in
        /\ sock[f].eof /\ s.st = sock[f].st => s.eof
  BY <1>2, KernelKeepsNews
<1>4. \A g \in Fds : sock'[g] = IF g = f THEN s ELSE sock[g]
  BY <1>2, <1>3
<1>5. ASSUME NEW n \in Watchers, NEW e \in SUBSET Events, NewsIsTrue(n, e)
      PROVE  NewsIsTrue(n, e)'
  BY <1>1, <1>2, <1>3, <1>4, <1>5 DEF NewsIsTrue, Readable, S, vars
<1>6. World'
  <2>1. World /\ UNCHANGED << vars, net >> /\ sock' \in [Fds -> SockType]
        /\ frame.newsd \in Fds \cup {0} /\ frame'.newsd = frame.newsd
    BY <1>1, <1>2, <1>3 DEF Inv, Control, FrameType
  <2>2. ASSUME NEW n \in Watchers, net[n].live
        PROVE  fd[n] # frame.newsd /\ sock'[fd[n]].st \in SocketsOf(net[n].handler)
    BY <1>2, <1>3, <1>4, <2>2 DEF Inv, World, SocketsFit, SocketsHeld, S
  <2>3. frame.newsd # 0 => sock'[frame.newsd].st = "stream"
    BY <1>3, <1>4, <2>1 DEF Inv, World, SocketsFit
  <2>4. \A g \in Fds : sock'[g].st # "free" => sock[g].st # "free"
    BY <1>3, <1>4
  <2> QED BY <1>5, <2>1, <2>2, <2>3, <2>4, SocketStepKeepsWorld
<1>7. FrameSound'
  BY <1>1 DEF Inv, Control, FrameSound, Running, vars
<1>8. CallIsTrue'
  <2> SUFFICES ASSUME frame.at = "enter" PROVE NewsIsTrue(frame.net, frame.e)'
    BY <1>1 DEF CallIsTrue
  <2>1. frame.net \in Watchers /\ frame.e \in SUBSET Events /\ NewsIsTrue(frame.net, frame.e)
    BY DEF Inv, Control, FrameSound, Running, CallIsTrue, FrameType
  <2> QED BY <1>1, <1>5, <2>1
<1>9. TxDueIsWatched'
  BY <1>1 DEF Inv, Control, TxDueIsWatched, vars
<1>10. ClosedMeansGone'
  <2> SUFFICES ASSUME frame.at = "user", frame.ev = "closed", net[frame.net].live,
                      net[frame.net].handler = "generic"
               PROVE  sock'[fd[frame.net]].st = "hungup" \/ sock'[fd[frame.net]].eof
    BY <1>1 DEF ClosedMeansGone, S, vars
  <2>1. frame.net \in Watchers
    BY DEF Inv, Control, FrameSound, Running
  <2>2. sock[fd[frame.net]].st = "hungup" \/ sock[fd[frame.net]].eof
    BY DEF Inv, Control, ClosedMeansGone, S
  <2>3. sock[fd[frame.net]].st # "connecting"
    BY <2>1 DEF Inv, World, SocketsFit, SocketsOf, S
  <2> QED BY <1>2, <1>3, <1>4, <2>1, <2>2, <2>3
<1> QED BY <1>1, <1>6, <1>7, <1>8, <1>9, <1>10 DEF Inv, Control, vars

\* The user's callback returns.
LEMMA UserReturnsKeepsInv ==
  ASSUME Inv, UserReturns
  PROVE  Inv'
<1>1. /\ frame.at = "user" /\ frame.newsd = 0 /\ phase = "callback" /\ frame \in FrameType
      /\ UNCHANGED << vars, net, sock, scheduled >>
  BY DEF UserReturns, AtUser, Inv, Control
<1>2. /\ frame.net \in Watchers /\ frame.net \notin Linked(drv.run_list)
      /\ frame.then # "none"
      /\ frame.closed => frame.then # "handshake"
      /\ ~frame.closed /\ frame.then # "done" =>
           net[frame.net].live /\ Fits(frame.then, net[frame.net].handler)
  BY <1>1 DEF Inv, Control, FrameSound, Running
<1>3. \/ frame' = Done
      \/ /\ frame' = [frame EXCEPT !.at = frame.then, !.ev = "none", !.closed = FALSE]
         /\ frame.then # "done" /\ ~frame.closed
  BY <1>2 DEF UserReturns, AfterUser
<1>4. /\ frame' \in FrameType /\ frame'.newsd = 0 /\ ~frame'.closed
      /\ \/ frame'.at = "done"
         \/ /\ frame'.at \in { "tx", "handshake", "ssl_generic" }
            /\ frame'.at = frame.then /\ frame'.net = frame.net
            /\ frame.then # "done" /\ ~frame.closed
  <2>1. CASE frame' = Done
    BY <2>1, DoneFrame
  <2>2. CASE /\ frame' = [frame EXCEPT !.at = frame.then, !.ev = "none", !.closed = FALSE]
             /\ frame.then # "done" /\ ~frame.closed
    <3>1. frame.then \in { "tx", "handshake", "ssl_generic" }
      BY <1>1, <1>2, <2>2 DEF FrameType
    <3> QED BY <1>1, <2>2, <3>1 DEF FrameType
  <2> QED BY <1>3, <2>1, <2>2
<1>5. FrameSound'
  BY <1>1, <1>2, <1>4 DEF FrameSound, Running, vars
<1>6. CallIsTrue' /\ ClosedMeansGone'
  BY <1>4 DEF CallIsTrue, ClosedMeansGone
<1>7. TxDueIsWatched'
  BY <1>1 DEF Inv, Control, TxDueIsWatched, vars
<1>8. World'
  BY <1>1, <1>4 DEF Inv, World, TypeOK, DriverSound, Consistent, SocketsFit, SocketsHeld,
                    ReadinessHolds, NewsIsTrue, Readable, S, vars
<1> QED BY <1>1, <1>4, <1>5, <1>6, <1>7, <1>8 DEF Inv, Control, vars

\* io_net_accept_callback and io_ssl_accept_callback, up to the user
LEMMA AcceptKeepsInv ==
  ASSUME Inv, NEW n \in Watchers, Accept(n) \/ SslAccept(n)
  PROVE  Inv'
<1>1. /\ frame.at = "enter" /\ frame.net = n /\ frame.by \in { "accept", "ssl_accept" }
      /\ UNCHANGED << vars, net, scheduled >>
  BY DEF Accept, SslAccept, AcceptOne, Entered
<1>2. /\ net[n].handler = frame.by /\ net[n].live /\ fd[n] \in Fds
      /\ frame.newsd = 0 /\ ~frame.closed /\ phase = "callback" /\ frame \in FrameType
      /\ n \notin Linked(drv.run_list) /\ S(n) \in SockType /\ S(n).st = "listen"
  BY <1>1, AtWork DEF Inv, Control, FrameSound, SocketsOf
<1>3. TxDueIsWatched' /\ scheduled' \in [Watchers -> { "no", "waiting", "overtaken" }]
  BY <1>1 DEF Inv, Control, TxDueIsWatched, vars
<1>4. CASE sock' = sock /\ frame' = Done
  <2>1. World'
    BY <1>1, <1>2, <1>4, DoneFrame DEF Inv, World, TypeOK, DriverSound, Consistent, SocketsFit,
       SocketsHeld, ReadinessHolds, NewsIsTrue, Readable, S, vars
  <2>2. FrameSound' /\ CallIsTrue' /\ ClosedMeansGone'
    BY <1>4, DoneFrame DEF FrameSound, CallIsTrue, ClosedMeansGone, Running
  <2> QED BY <1>1, <1>2, <1>3, <1>4, <2>1, <2>2, DoneFrame DEF Inv, Control, vars
<1>5. CASE /\ Free # {}
           /\ sock' = [sock EXCEPT ![NewFd] = Socket("stream"), ![fd[n]].in = FALSE]
           /\ frame' = [Tell(n, "alloc_connection", "none") EXCEPT !.newsd = NewFd]
  <2> DEFINE t == Tell(n, "alloc_connection", "none")
             f == NewFd
             l == [S(n) EXCEPT !.in = FALSE]
  <2>1. f \in Fds /\ sock[f].st = "free"
    BY <1>5, NewFdIsFree
  <2>2. f # fd[n] /\ f # 0
    BY <1>2, <2>1, IoNetAssumption DEF S
  <2>3. /\ t \in FrameType /\ t.at = "user" /\ t.net = n /\ t.ev = "alloc_connection"
        /\ t.then = "none" /\ ~t.closed
    BY <1>2, TellFrame DEF NetEvents
  <2> HIDE DEF t, f
  <2>4. /\ frame' \in FrameType /\ frame'.at = "user" /\ frame'.net = n
        /\ frame'.ev = "alloc_connection" /\ frame'.newsd = f /\ ~frame'.closed
    BY <1>5, <2>1, <2>3 DEF FrameType, t, f
  <2>5. /\ sock \in [Fds -> SockType] /\ fd \in [Watchers -> Fds]
        /\ Socket("stream") \in SockType /\ Socket("stream").st = "stream"
        /\ l \in SockType /\ l.st = "listen"
    BY <1>2 DEF Inv, World, TypeOK, Socket, SockType
  <2>6. /\ sock' \in [Fds -> SockType]
        /\ \A g \in Fds : sock'[g] = IF g = f THEN Socket("stream")
                                     ELSE IF g = fd[n] THEN l ELSE sock[g]
    <3>1. sock' = [[sock EXCEPT ![f] = Socket("stream")] EXCEPT ![fd[n]] = l]
      BY <1>2, <1>5, <2>1, <2>2, <2>5 DEF S, f
    <3> HIDE DEF l
    <3> QED BY <1>2, <2>1, <2>2, <2>5, <3>1
  <2> HIDE DEF l
  <2>7. ASSUME NEW m \in Watchers, net[m].live
        PROVE  /\ fd[m] # f /\ sock'[fd[m]].st \in SocketsOf(net[m].handler)
               /\ m # n => sock'[fd[m]] = sock[fd[m]]
    <3>1. sock[fd[m]].st # "free" /\ sock[fd[m]].st \in SocketsOf(net[m].handler)
      BY <2>7, GivenIsOpen DEF Inv, World, SocketsFit, S
    <3>2. m # n => fd[m] # fd[n]
      BY <1>2, <2>7 DEF Inv, World, SocketsHeld
    <3> QED BY <1>2, <2>1, <2>2, <2>5, <2>6, <3>1, <3>2 DEF S
  <2>8. World'
    <3>1. World /\ UNCHANGED << vars, net >> /\ frame.newsd \in Fds \cup {0}
      BY <1>1, <1>2 DEF Inv
    <3>2. ASSUME NEW m \in Watchers, net[m].live, m \in Linked(drv.run_list),
                 NEW e \in SUBSET Events, NewsIsTrue(m, e)
          PROVE  NewsIsTrue(m, e)'
      BY <1>1, <1>2, <2>7, <3>2 DEF NewsIsTrue, Readable, S, vars
    <3>3. frame'.newsd # 0 => sock'[frame'.newsd].st = "stream"
      BY <2>1, <2>4, <2>5, <2>6
    <3>4. \A g \in Fds : sock'[g].st # "free" => sock[g].st # "free" \/ g = frame'.newsd
      BY <1>2, <2>4, <2>6 DEF S
    <3> QED BY <1>2, <2>4, <2>6, <2>7, <3>1, <3>2, <3>3, <3>4, SocketStepKeepsWorld
  <2>9. FrameSound' /\ CallIsTrue' /\ ClosedMeansGone'
    BY <1>1, <1>2, <2>2, <2>4 DEF FrameSound, CallIsTrue, ClosedMeansGone, Running, vars
  <2> QED BY <1>1, <1>2, <1>3, <2>4, <2>8, <2>9 DEF Inv, Control, vars
<1> QED BY <1>4, <1>5 DEF Accept, SslAccept, AcceptOne

\* The user refused the connection.
LEMMA AllocCancelledKeepsInv ==
  ASSUME Inv, AllocCancelled
  PROVE  Inv'
<1>1. /\ frame.newsd # 0 /\ phase = "callback" /\ frame \in FrameType
      /\ frame' = Done /\ sock' = [sock EXCEPT ![frame.newsd] = Socket("free")]
      /\ UNCHANGED << vars, net, scheduled >>
  BY DEF AllocCancelled, AtUser, Shut, Inv, Control
<1>2. /\ frame.newsd \in Fds /\ sock \in [Fds -> SockType] /\ fd \in [Watchers -> Fds]
      /\ Socket("free") \in SockType /\ Socket("free").st = "free"
  BY <1>1 DEF FrameType, Inv, World, TypeOK, Socket, SockType
<1>3. ASSUME NEW m \in Watchers, net[m].live
      PROVE  /\ fd[m] # frame.newsd /\ sock'[fd[m]] = sock[fd[m]]
             /\ sock'[fd[m]].st \in SocketsOf(net[m].handler) /\ fd[m] # 0
  <2>1. fd[m] # frame.newsd /\ sock[fd[m]].st \in SocketsOf(net[m].handler)
    BY <1>3 DEF Inv, World, SocketsFit, SocketsHeld, S
  <2> QED BY <1>1, <1>2, <2>1, IoNetAssumption
<1>4. World'
  <2>1. World /\ UNCHANGED << vars, net >> /\ sock' \in [Fds -> SockType] /\ frame'.newsd = 0
    BY <1>1, <1>2, DoneFrame DEF Inv
  <2>2. ASSUME NEW m \in Watchers, net[m].live, NEW e \in SUBSET Events, NewsIsTrue(m, e)
        PROVE  NewsIsTrue(m, e)'
    BY <1>1, <1>3, <2>2 DEF NewsIsTrue, Readable, S, vars
  <2>3. /\ sock'[frame.newsd].st = "free"
        /\ \A g \in Fds : sock'[g].st # "free" => sock[g].st # "free"
    BY <1>1, <1>2
  <2> QED BY <1>2, <1>3, <2>1, <2>2, <2>3, SocketStepKeepsWorld
<1>5. FrameSound' /\ CallIsTrue' /\ ClosedMeansGone'
  BY <1>1, DoneFrame DEF FrameSound, CallIsTrue, ClosedMeansGone, Running
<1>6. TxDueIsWatched'
  BY <1>1 DEF Inv, Control, TxDueIsWatched, vars
<1> QED BY <1>1, <1>4, <1>5, <1>6, DoneFrame DEF Inv, Control, vars

\* The user answered with an object, which is told that it is connected.
LEMMA AllocatedKeepsInv ==
  ASSUME Inv, NEW n \in Watchers, Allocated(n) \/ SslAllocated(n)
  PROVE  Inv'
<1>1. /\ frame.newsd # 0 /\ frame.at = "user" /\ phase = "callback" /\ frame \in FrameType
      /\ ~net[n].live /\ UNCHANGED << loopVars, sock, scheduled >>
      /\ frame' = [Tell(n, "connected", "done") EXCEPT !.closed = FALSE, !.newsd = 0]
  BY DEF Allocated, SslAllocated, Allocate, AtUser, Answered, Inv, Control
<1>2. PICK handler, ssl, hs :
        /\ Opened(n, frame.newsd, handler, ssl, hs, { "RX" })
        /\ handler \in { "generic", "ssl_handshake" } /\ hs \in BOOLEAN
        /\ hs <=> handler = "ssl_handshake"
        /\ ssl \in SslValues
  <2>1. "set" \in SslValues /\ Unset(n) \subseteq SslValues
    BY IoNetAssumption DEF SslValues, Unset, Inv, World, NetType
  <2>2. \/ Opened(n, frame.newsd, "ssl_handshake", "set", TRUE, { "RX" })
        \/ \E ssl \in Unset(n) : Opened(n, frame.newsd, "generic", ssl, FALSE, { "RX" })
    BY DEF Allocated, SslAllocated, Allocate
  <2> QED BY <2>1, <2>2
<1> DEFINE o == [ live |-> TRUE, handler |-> handler, ssl |-> ssl, handshaking |-> hs ]
           f == frame.newsd
<1>3. /\ f \in Fds /\ sock \in [Fds -> SockType] /\ sock[f].st = "stream"
      /\ fd \in [Watchers -> Fds] /\ net \in [Watchers -> NetType]
      /\ scheduled \in [Watchers -> { "no", "waiting", "overtaken" }]
      /\ drv.event_listening \in [Watchers -> SUBSET Events]
  BY <1>1 DEF FrameType, Inv, Control, World, TypeOK, SocketsFit, DriverType
<1>4. /\ o \in NetType /\ o.live /\ (o.handshaking <=> o.handler = "ssl_handshake")
      /\ sock[f].st \in SocketsOf(o.handler)
  <2>1. "stream" \in SocketsOf(handler)
    BY <1>2 DEF SocketsOf
  <2> QED BY <1>2, <1>3, <2>1 DEF NetType, Handlers
<1>5. /\ fd' = [fd EXCEPT ![n] = f] /\ net' = [net EXCEPT ![n] = o]
      /\ drv' = Watch(Renewed(drv, n), n, { "RX" }) /\ sock' = [sock EXCEPT ![f] = sock[f]]
  BY <1>1, <1>2, <1>3 DEF Opened
<1> HIDE DEF o
<1>6. /\ frame' \in FrameType /\ frame'.at = "user" /\ frame'.net = n /\ frame'.newsd = 0
      /\ ~frame'.closed /\ frame'.ev = "connected" /\ frame'.then = "done"
  <2> DEFINE t == Tell(n, "connected", "done")
  <2>1. t \in FrameType /\ t.at = "user" /\ t.net = n /\ t.ev = "connected" /\ t.then = "done"
    BY <1>1, TellFrame DEF NetEvents
  <2>2. frame' = [t EXCEPT !.closed = FALSE, !.newsd = 0]
    BY <1>1
  <2> HIDE DEF t
  <2> QED BY <2>1, <2>2 DEF FrameType
<1>7. Opens(n, f, sock[f], o, { "RX" })
  <2>1. { "RX" } \in SUBSET Events
    BY IoNetAssumption
  <2> QED BY <1>1, <1>3, <1>4, <1>5, <1>6, <2>1 DEF Opens
<1>8. World' /\ Joined(n, { "RX" })
  <2>1. World
    BY DEF Inv
  <2> QED BY <1>3, <1>7, <2>1, OpensKeepsWorld
<1>9. FrameSound'
  BY <1>6, <1>8 DEF FrameSound, Running, Joined
<1>10. CallIsTrue' /\ ClosedMeansGone'
  BY <1>6 DEF CallIsTrue, ClosedMeansGone
<1>11. TxDueIsWatched'
  <2> SUFFICES ASSUME NEW m \in Watchers, scheduled[m] # "no"
               PROVE  /\ net'[m].live /\ net'[m].handler \in { "generic", "ssl_generic" }
                      /\ "TX" \in drv'.event_listening[m]
    BY <1>1 DEF TxDueIsWatched
  <2>1. /\ net[m].live /\ net[m].handler \in { "generic", "ssl_generic" }
        /\ "TX" \in drv.event_listening[m]
    BY DEF Inv, Control, TxDueIsWatched
  <2>2. m # n
    BY <1>1, <2>1
  <2>3. net'[m] = net[m] /\ drv'.event_listening[m] = drv.event_listening[m]
    BY <1>3, <1>5, <1>8, <2>2 DEF Joined
  <2> QED BY <2>1, <2>3
<1>12. phase' = phase
  BY <1>1 DEF loopVars
<1> QED BY <1>1, <1>3, <1>6, <1>8, <1>9, <1>10, <1>11, <1>12 DEF Inv, Control

-----------------------------------------------------------------------------
(* The steps of the loop.                                                   *)

\* A round begins: what select reports of the sockets is true of them.
LEMMA SelectKeepsInv ==
  ASSUME Inv, Select
  PROVE  Inv'
<1>1. /\ phase = "app" /\ phase' = "dispatch" /\ frame.at = "none"
      /\ drv' = Splice(drv) /\ fd' = fd /\ call' = call /\ sets' = KernelReady
      /\ sets' \in [Events -> SUBSET Fds]
      /\ net' = net /\ sock' = sock /\ frame' = frame /\ scheduled' = scheduled
  BY DEF Select, SelectReady, netVars, Inv, Control
<1>2. /\ drv \in DriverType /\ ListsConsistent(drv) /\ drv.run_list = EmptyList
  BY <1>1 DEF Inv, World, TypeOK, DriverSound, Consistent
<1>3. /\ drv' \in DriverType /\ ListsConsistent(drv')
      /\ drv'.run_list = drv.watchers /\ drv'.event_listening = drv.event_listening
  BY <1>1, <1>2, SpliceKeepsLists
<1>4. ReadinessHolds'
  <2> SUFFICES ASSUME NEW n \in Linked(drv.watchers)
               PROVE  /\ "RX" \in { ev \in Events : fd[n] \in sets'[ev] } => Readable(S(n))
                      /\ "TX" \in { ev \in Events : fd[n] \in sets'[ev] } => S(n).st # "connecting"
    BY <1>1, <1>3 DEF ReadinessHolds, NewsIsTrue, Readable, S
  <2>1. ASSUME NEW ev \in Events, fd[n] \in sets'[ev]
        PROVE  \/ ev = "RX" /\ Readable(sock[fd[n]])
               \/ ev = "TX" /\ Writable(sock[fd[n]])
    BY <1>1, <2>1 DEF KernelReady
  <2> QED BY <2>1 DEF Writable, S
<1>5. World'
  BY <1>1, <1>3, <1>4 DEF Inv, World, TypeOK, DriverSound, Consistent, SocketsFit, SocketsHeld,
     Registered, S
<1>6. FrameSound' /\ CallIsTrue' /\ TxDueIsWatched' /\ ClosedMeansGone'
  BY <1>1, <1>3 DEF Inv, Control, FrameSound, CallIsTrue, TxDueIsWatched, ClosedMeansGone, Running
<1> QED BY <1>1, <1>5, <1>6 DEF Inv, Control

\* One turn of the loop, up to the handler: it is called for an object that
\* is open, with events that are true of its socket.
LEMMA DispatchKeepsInv ==
  ASSUME Inv, Dispatch
  PROVE  Inv'
<1> DEFINE h == Head(drv.run_list)
           e == Ready(h)
<1>1. /\ phase = "dispatch" /\ drv.run_list # EmptyList
      /\ phase' = (IF e # {} THEN "callback" ELSE "dispatch")
      /\ call' = (IF e # {} THEN [call EXCEPT ![h] = e] ELSE call)
      /\ drv' = Requeue(drv) /\ fd' = fd /\ sets' = sets
      /\ net' = net /\ sock' = sock /\ scheduled' = scheduled
      /\ frame.at = "none"
  BY DEF Dispatch, DispatchNext, Inv, Control
<1>2. /\ drv \in DriverType /\ ListsConsistent(drv)
      /\ drv.event_listening \in [Watchers -> SUBSET Events]
      /\ call \in [Watchers -> SUBSET Events] /\ frame \in FrameType
      /\ net \in [Watchers -> NetType]
  BY DEF Inv, Control, World, TypeOK, DriverSound, Consistent, DriverType
<1>3. /\ drv' \in DriverType /\ ListsConsistent(drv')
      /\ h \in Watchers /\ h \in Linked(drv.run_list)
      /\ Linked(drv'.run_list) = Linked(drv.run_list) \ {h}
      /\ drv'.event_listening = drv.event_listening
  BY <1>1, <1>2, RequeueKeepsLists
<1>4. /\ frame' = IF e # {} THEN [NoFrame EXCEPT !.at = "enter", !.net = h, !.e = e,
                                              !.by = net[h].handler]
                  ELSE frame
  <2>1. frame' = IF phase' = "callback"
                 THEN [NoFrame EXCEPT !.at = "enter", !.net = h, !.e = call'[h],
                                      !.by = net[h].handler]
                 ELSE frame
    BY DEF Dispatch
  <2> HIDE DEF e, h
  <2>2. e # {} => phase' = "callback" /\ call'[h] = e
    BY <1>1, <1>2, <1>3
  <2> QED BY <1>1, <2>1, <2>2
<1>5. e \in SUBSET Events /\ \A ev \in e : fd[h] \in sets[ev] /\ ev \in Events
  BY <1>2, <1>3 DEF Ready
<1> HIDE DEF h, e
<1>6. net[h].live /\ NewsIsTrue(h, e)
  <2>1. Registered(drv, h)
    BY <1>2, <1>3 DEF ListsConsistent
  <2>2. NewsIsTrue(h, { ev \in Events : fd[h] \in sets[ev] })
    BY <1>3 DEF Inv, World, ReadinessHolds
  <2> QED BY <1>3, <1>5, <2>1, <2>2 DEF Inv, World, SocketsHeld, NewsIsTrue
<1>7. /\ frame' \in FrameType /\ frame'.newsd = frame.newsd /\ frame.newsd = 0
      /\ \/ frame' = frame /\ phase' = phase
         \/ /\ frame'.at = "enter" /\ frame'.net = h /\ frame'.e = e /\ e # {}
            /\ frame'.by = net[h].handler /\ ~frame'.closed /\ phase' = "callback"
  <2>1. frame.newsd = 0
    BY <1>1 DEF Inv, Control
  <2>2. CASE e = {}
    BY <1>1, <1>2, <1>4, <2>1, <2>2
  <2>3. CASE e # {}
    <3>1. net[h].handler \in Handlers
      BY <1>2, <1>3 DEF NetType
    <3> QED BY <1>1, <1>3, <1>4, <1>5, <2>1, <2>3, <3>1 DEF NoFrame, FrameType
  <2> QED BY <2>2, <2>3
<1>8. World'
  <2>1. TypeOK'
    <3>1. call' \in [Watchers -> SUBSET Events] /\ phase' \in { "dispatch", "callback" }
      BY <1>1, <1>2, <1>3, <1>5
    <3> QED BY <1>1, <1>3, <3>1 DEF Inv, World, TypeOK
  <2>2. DriverSound'
    BY <1>1, <1>3 DEF DriverSound, Consistent
  <2>3. SocketsFit' /\ SocketsHeld'
    BY <1>1, <1>3, <1>7 DEF Inv, World, SocketsFit, SocketsHeld, Registered, S
  <2>4. ReadinessHolds'
    BY <1>1, <1>3 DEF Inv, World, ReadinessHolds, NewsIsTrue, Readable, S
  <2> QED BY <1>1, <2>1, <2>2, <2>3, <2>4 DEF Inv, World
<1>9. FrameSound'
  BY <1>1, <1>3, <1>6, <1>7 DEF Inv, Control, FrameSound, Running
<1>10. CallIsTrue'
  BY <1>1, <1>6, <1>7 DEF CallIsTrue, NewsIsTrue, Readable, S
<1>11. TxDueIsWatched' /\ ClosedMeansGone'
  BY <1>1, <1>3, <1>7 DEF Inv, Control, TxDueIsWatched, ClosedMeansGone
<1> QED BY <1>1, <1>7, <1>8, <1>9, <1>10, <1>11 DEF Inv, Control

\* The handler returns to the loop.
LEMMA HandlerReturnsKeepsInv ==
  ASSUME Inv, HandlerReturns
  PROVE  Inv'
<1>1. /\ frame.at = "done" /\ phase = "callback" /\ phase' = "dispatch" /\ call' = NoCall
      /\ frame' = NoFrame
      /\ UNCHANGED << drv, fd, sets, net, sock, scheduled >>
  BY DEF HandlerReturns, CallbackReturn
<1>2. frame.newsd = 0
  BY <1>1 DEF Inv, Control
<1>3. /\ frame' \in FrameType /\ frame'.at = "none" /\ frame'.newsd = 0 /\ ~frame'.closed
  BY <1>1 DEF NoFrame, FrameType, Handlers
<1>4. World'
  BY <1>1, <1>2, <1>3 DEF Inv, World, TypeOK, NoCall, DriverSound, Consistent, SocketsFit,
     SocketsHeld, ReadinessHolds, NewsIsTrue, Readable, S
<1>5. FrameSound' /\ CallIsTrue' /\ ClosedMeansGone'
  BY <1>3 DEF FrameSound, CallIsTrue, ClosedMeansGone, Running
<1>6. TxDueIsWatched'
  BY <1>1 DEF Inv, Control, TxDueIsWatched
<1> QED BY <1>1, <1>3, <1>4, <1>5, <1>6 DEF Inv, Control

\* The round is over.
LEMMA RoundOverKeepsInv ==
  ASSUME Inv, RoundOver
  PROVE  Inv'
<1>1. /\ phase = "dispatch" /\ drv.run_list = EmptyList /\ phase' = "app" /\ sets' = NoSets
      /\ frame.at = "none"
      /\ UNCHANGED << drv, fd, call, net, sock, frame, scheduled >>
  BY DEF RoundOver, DispatchDone, netVars, Inv, Control
<1>2. Linked(drv.run_list) = {}
  BY <1>1, EmptyListProperties
<1>3. World'
  BY <1>1, <1>2 DEF Inv, World, TypeOK, NoSets, DriverSound, Consistent, SocketsFit,
     SocketsHeld, ReadinessHolds, S
<1>4. FrameSound' /\ CallIsTrue' /\ TxDueIsWatched' /\ ClosedMeansGone'
  BY <1>1 DEF Inv, Control, FrameSound, CallIsTrue, TxDueIsWatched, ClosedMeansGone, Running
<1> QED BY <1>1, <1>3, <1>4 DEF Inv, Control

-----------------------------------------------------------------------------
(* The invariant.                                                           *)

\* The state in which the program starts
LEMMA InvAtStart ==
  ASSUME NetInit
  PROVE  Inv
<1>1. /\ drv = DriverInit /\ sets = NoSets /\ phase = "app" /\ call = NoCall
      /\ fd \in [Watchers -> Fds]
      /\ net \in [Watchers -> [ live : {FALSE}, handler : {"none"}, ssl : FreshSsl,
                                handshaking : {FALSE} ]]
      /\ sock = [f \in Fds |-> Socket("free")] /\ frame = NoFrame
      /\ scheduled = [n \in Watchers |-> "no"]
  BY DEF NetInit, Init
<1>2. /\ EmptyList \in Seq(Watchers) /\ NoDuplicates(EmptyList) /\ Linked(EmptyList) = {}
      /\ DriverInit.watchers = EmptyList /\ DriverInit.run_list = EmptyList
      /\ DriverInit.event_listening = [w \in Watchers |-> {}]
      /\ DriverInit \in DriverType
  BY EmptyListProperties DEF DriverInit, DriverType
<1>3. net \in [Watchers -> NetType] /\ \A n \in Watchers : ~net[n].live /\ net[n].handler = "none"
                                                       /\ ~net[n].handshaking
  BY <1>1, IoNetAssumption DEF NetType, Handlers
<1>4. Socket("free") \in SockType /\ \A f \in Fds : sock[f].st = "free"
  BY <1>1 DEF Socket, SockType
<1>5. NoFrame \in FrameType /\ NoFrame.at = "none" /\ NoFrame.newsd = 0 /\ ~NoFrame.closed
  BY DEF NoFrame, FrameType, Handlers
<1>6. TypeOK
  BY <1>1, <1>2 DEF TypeOK, NoSets, NoCall
<1>7. DriverSound
  BY <1>1, <1>2 DEF DriverSound, Consistent, ListsConsistent, Registered
<1>8. SocketsFit /\ SocketsHeld
  BY <1>1, <1>2, <1>3, <1>4, <1>5 DEF SocketsFit, SocketsHeld, Registered
<1>9. ReadinessHolds
  BY <1>1, <1>2 DEF ReadinessHolds
<1>10. FrameSound /\ CallIsTrue /\ TxDueIsWatched /\ ClosedMeansGone
  BY <1>1, <1>5 DEF FrameSound, CallIsTrue, TxDueIsWatched, ClosedMeansGone, Running
<1> QED BY <1>1, <1>3, <1>4, <1>5, <1>6, <1>7, <1>8, <1>9, <1>10 DEF Inv, World, Control

\* No step of the program, of a handler, of the loop or of the kernel breaks
\* the invariant.
LEMMA StepKeepsInv ==
  ASSUME Inv, [NetNext]_allVars
  PROVE  Inv'
<1>1. CASE Select
  BY <1>1, SelectKeepsInv
<1>2. CASE Round
  BY <1>2, DispatchKeepsInv, HandlerReturnsKeepsInv, RoundOverKeepsInv DEF Round
<1>3. CASE Answer
  BY <1>3, UserReturnsKeepsInv, AllocCancelledKeepsInv, AllocatedKeepsInv DEF Answer
<1>4. ASSUME NEW n \in Watchers, Call(n) PROVE Inv'
  BY <1>4, OpeningKeepsInv, CloseKeepsInv, TxKeepsInv DEF Call
<1>5. ASSUME NEW n \in Watchers, Handler(n) PROVE Inv'
  <2>1. CASE Accept(n) \/ SslAccept(n) \/ Connect(n) \/ SslConnect(n)
    BY <2>1, AcceptKeepsInv, ConnectKeepsInv, SslConnectKeepsInv
  <2>2. CASE GenericRx(n) \/ TxPart(n) \/ Udp(n)
    BY <2>2, GenericRxKeepsInv, TxPartKeepsInv, UdpKeepsInv
  <2>3. CASE HandshakeDone(n) \/ HandshakeWants(n) \/ HandshakeFails(n)
    BY <2>3, HandshakeDoneKeepsInv, HandshakeWantsKeepsInv, HandshakeFailsKeepsInv
  <2>4. CASE SslRx(n) \/ SslTxAfterHandshake(n)
    BY <2>4, SslRxKeepsInv, SslTxAfterHandshakeKeepsInv
  <2> QED BY <1>5, <2>1, <2>2, <2>3, <2>4 DEF Handler
<1>6. ASSUME NEW f \in Fds, Kernel(f) PROVE Inv'
  BY <1>6, KernelKeepsInv
<1>7. CASE UNCHANGED allVars
  BY <1>7 DEF allVars, Inv, World, Control, TypeOK, DriverSound, Consistent, SocketsFit,
     SocketsHeld, ReadinessHolds, NewsIsTrue, Readable, FrameSound, CallIsTrue, TxDueIsWatched,
     ClosedMeansGone, S
<1> QED BY <1>1, <1>2, <1>3, <1>4, <1>5, <1>6, <1>7 DEF NetNext

\* Inv is the invariant NetIInv that a run checks.
LEMMA InvIsNetIInv == Inv <=> NetIInv
BY DEF Inv, World, Control, NetIInv, NetTypeOK

\* What the handlers and the program rely on when they take their turns
\* with the objects holds at all times.
THEOREM NetInvariantHolds == NetSpec => []NetIInv
<1>1. NetInit => Inv
  BY InvAtStart
<1>2. Inv /\ [NetNext]_allVars => Inv'
  BY StepKeepsInv
<1> QED BY <1>1, <1>2, InvIsNetIInv, PTL DEF NetSpec

\* Every definition keeps its type: io_net.c sets no field of an object, of
\* its frame or of a socket to a value that has no meaning.
THEOREM NetTypeCorrect == NetSpec => []NetTypeOK
<1>1. NetIInv => NetTypeOK
  BY DEF NetIInv
<1> QED BY <1>1, NetInvariantHolds, PTL

\* No descriptor is leaked, shared or watched after it was closed, whatever
\* connections are refused, fail, or are closed in whichever callback.
THEOREM DescriptorsStayOwned == NetSpec => []DescriptorsOwned
<1>1. NetIInv => DescriptorsOwned
  <2> SUFFICES ASSUME NetIInv PROVE DescriptorsOwned
    OBVIOUS
  <2> DEFINE live == { n \in Watchers : net[n].live }
             held == IF frame.newsd = 0 THEN {} ELSE { frame.newsd }
  <2>1. fd \in [Watchers -> Fds] /\ frame.newsd \in Fds \cup {0} /\ 0 \notin Fds
    BY IoNetAssumption DEF NetIInv, NetTypeOK, TypeOK, FrameType
  <2>2. \A n \in live : sock[fd[n]].st # "free"
    BY GivenIsOpen DEF NetIInv, SocketsFit, S
  <2>3. \A f \in held : f \in Fds /\ sock[f].st # "free"
    BY <2>1 DEF NetIInv, SocketsFit
  <2>4. Fds \ Free = { fd[n] : n \in live } \cup held
    <3>1. ASSUME NEW f \in Fds \ Free PROVE f \in { fd[n] : n \in live } \cup held
      BY <2>1 DEF Free, NetIInv, SocketsHeld
    <3>2. ASSUME NEW f \in { fd[n] : n \in live } \cup held PROVE f \in Fds \ Free
      BY <2>1, <2>2, <2>3 DEF Free
    <3> QED BY <3>1, <3>2
  <2>5. /\ \A m, n \in live : m # n => fd[m] # fd[n]
        /\ \A n \in live : fd[n] \notin held
        /\ \A n \in Watchers : Registered(drv, n) => n \in live
    BY DEF NetIInv, SocketsHeld
  <2> QED BY <2>4, <2>5 DEF DescriptorsOwned
<1> QED BY <1>1, NetInvariantHolds, PTL

\* No handler goes on with an object that was closed, in its own callback or
\* in another's.
THEOREM ClosedIsNotUsed == NetSpec => []NoUseAfterClose
<1>1. NetIInv => NoUseAfterClose
  BY DEF NetIInv, FrameSound, NoUseAfterClose
<1> QED BY <1>1, NetInvariantHolds, PTL

\* A plain connection that is reported closed is: what select said of a
\* descriptor never reaches the connection that has it since.
THEOREM ClosedIsTrue == NetSpec => []ClosedMeansGone
<1>1. NetIInv => ClosedMeansGone
  BY DEF NetIInv
<1> QED BY <1>1, NetInvariantHolds, PTL

-----------------------------------------------------------------------------
(* Connections without TLS.                                                 *)

TlsHandlers == { "ssl_accept", "ssl_connect", "ssl_handshake", "ssl_generic" }

\* NoTls and TxScheduledIffTold, of one object
PlainObject(n) ==
  /\ net[n].ssl # "set" /\ net[n].handler \notin TlsHandlers
  /\ net[n].handler = "generic" =>
       ("TX" \in drv.event_listening[n] <=> scheduled[n] # "no")

\* A step that disturbs one object, and leaves that one in order.
LEMMA PlainStep ==
  ASSUME PlainIInv, Inv, NEW n \in Watchers,
         NEW o, net' = [net EXCEPT ![n] = o],
         NEW evs, drv'.event_listening = [drv.event_listening EXCEPT ![n] = evs],
         NEW sch, scheduled' = [scheduled EXCEPT ![n] = sch],
         o.ssl # "set", o.handler \notin TlsHandlers,
         o.handler = "generic" => ("TX" \in evs <=> sch # "no"),
         frame'.by \notin TlsHandlers
  PROVE  PlainIInv'
<1>1. /\ net \in [Watchers -> NetType] /\ drv.event_listening \in [Watchers -> SUBSET Events]
      /\ scheduled \in [Watchers -> { "no", "waiting", "overtaken" }]
  BY DEF Inv, World, Control, TypeOK, DriverType
<1>2. \A m \in Watchers : PlainObject(m)
  BY DEF PlainIInv, NoTls, TxScheduledIffTold, PlainObject, TlsHandlers
<1>3. ASSUME NEW m \in Watchers PROVE PlainObject(m)'
  BY <1>1, <1>2 DEF PlainObject
<1> QED BY <1>3 DEF PlainIInv, NoTls, TxScheduledIffTold, PlainObject, TlsHandlers

\* A step that disturbs none
LEMMA PlainStutter ==
  ASSUME PlainIInv, net' = net, scheduled' = scheduled,
         drv'.event_listening = drv.event_listening, frame'.by \notin TlsHandlers
  PROVE  PlainIInv'
<1>1. \A m \in Watchers : PlainObject(m)
  BY DEF PlainIInv, NoTls, TxScheduledIffTold, PlainObject, TlsHandlers
<1>2. ASSUME NEW m \in Watchers PROVE PlainObject(m)'
  BY <1>1 DEF PlainObject
<1> QED BY <1>2 DEF PlainIInv, NoTls, TxScheduledIffTold, PlainObject, TlsHandlers

\* The handlers of plain connections are the only ones that ever run.
LEMMA PlainHandlersRun ==
  ASSUME Inv, PlainIInv, NEW n \in Watchers, Handler(n)
  PROVE  Accept(n) \/ Connect(n) \/ GenericRx(n) \/ TxPart(n) \/ Udp(n)
<1>1. frame.by \notin TlsHandlers /\ (n \in Watchers => net[n].handler \notin TlsHandlers)
  BY DEF PlainIInv, NoTls, TlsHandlers
<1>2. ~SslConnect(n) /\ ~SslAccept(n)
  BY <1>1 DEF SslConnect, SslAccept, Entered, TlsHandlers
<1>3. ~AtHandshake(n)
  BY <1>1 DEF AtHandshake, Entered, Inv, Control, FrameSound, Fits, TlsHandlers
<1>4. frame.net = n => frame.at # "ssl_generic"
  BY <1>1 DEF Inv, Control, FrameSound, Fits, TlsHandlers
<1>5. ~AtSslGeneric(n)
  BY <1>1, <1>4 DEF AtSslGeneric, Entered, TlsHandlers
<1> QED BY <1>2, <1>3, <1>4, <1>5
        DEF Handler, HandshakeDone, HandshakeWants, HandshakeFails, SslRx, SslTxAfterHandshake

\* The TLS handlers are not among those named here.
LEMMA PlainNames ==
  { "none", "accept", "connect", "generic", "udp" } \cap TlsHandlers = {}
BY DEF TlsHandlers

\* io_net_connect_callback, io_net_generic_callback and the handlers that
\* register nothing: TX is watched for exactly while it is due.
LEMMA HandlerKeepsPlain ==
  ASSUME Inv, PlainIInv, NEW n \in Watchers, Handler(n)
  PROVE  PlainIInv'
<1>0. /\ drv \in DriverType /\ ListsConsistent(drv)
      /\ drv.event_listening \in [Watchers -> SUBSET Events]
      /\ net \in [Watchers -> NetType]
      /\ scheduled \in [Watchers -> { "no", "waiting", "overtaken" }]
      /\ frame \in FrameType /\ { "RX" } \in SUBSET Events /\ { "TX" } \in SUBSET Events
  BY IoNetAssumption DEF Inv, Control, World, TypeOK, DriverSound, Consistent, DriverType
<1>1. frame.by \notin TlsHandlers /\ "none" \notin TlsHandlers /\ "generic" \notin TlsHandlers
      /\ "connect" \notin TlsHandlers /\ net[n].ssl # "set" /\ net[n].handler \notin TlsHandlers
  BY DEF PlainIInv, NoTls, TlsHandlers
<1>2. \A ev \in NetEvents, then \in { "none", "tx", "handshake", "ssl_generic", "done" } :
        Tell(n, ev, then).by = frame.by
  BY <1>0, TellFrame
<1>3. Done.by \notin TlsHandlers
  BY <1>1, DoneFrame
<1>4. CASE Accept(n)
  <2> DEFINE t == Tell(n, "alloc_connection", "none")
  <2>1. t \in FrameType /\ t.by = frame.by
    BY <1>0, TellFrame DEF NetEvents
  <2>2. frame' = [t EXCEPT !.newsd = NewFd] \/ frame' = Done
    BY <1>4 DEF Accept, AcceptOne
  <2> HIDE DEF t
  <2>3. frame'.by \notin TlsHandlers
    BY <1>1, <1>3, <2>1, <2>2 DEF FrameType
  <2> QED BY <1>4, <2>3, PlainStutter DEF Accept, AcceptOne, vars
<1>5. CASE GenericRx(n)
  <2> DEFINE ev == IF S(n).in THEN "rx" ELSE "closed"
             then == Then(frame.e, "tx")
  <2>1. /\ ev \in NetEvents /\ then \in { "none", "tx", "handshake", "ssl_generic", "done" }
        /\ frame' = Tell(n, ev, then)
    BY <1>5 DEF GenericRx, NetEvents, Then
  <2> HIDE DEF ev, then
  <2>2. frame'.by \notin TlsHandlers
    BY <1>1, <1>2, <2>1
  <2> QED BY <1>5, <2>2, PlainStutter DEF GenericRx, vars
<1>6. CASE Udp(n)
  <2>1. frame' = Tell(n, "rx", "done") \/ frame' = Done
    BY <1>6 DEF Udp
  <2>2. frame'.by \notin TlsHandlers
    BY <1>1, <1>2, <1>3, <2>1 DEF NetEvents
  <2> QED BY <1>6, <2>2, PlainStutter DEF Udp, vars
<1>7. CASE TxPart(n)
  <2>1. /\ drv' = NoWatch(drv, n, { "TX" }) /\ frame' = Tell(n, "tx", "done")
        /\ scheduled' = [scheduled EXCEPT ![n] = "no"] /\ net' = net
    BY <1>7 DEF TxPart
  <2>2. Rewatched(drv, drv', n, drv.event_listening[n] \ { "TX" })
    BY <1>0, <2>1, NoWatchRewatches
  <2>3. frame'.by \notin TlsHandlers
    BY <1>1, <1>2, <2>1 DEF NetEvents
  <2>4. net' = [net EXCEPT ![n] = net[n]]
    BY <1>0, <2>1
  <2> DEFINE evs == drv.event_listening[n] \ { "TX" }
  <2>5. "TX" \notin evs /\ drv'.event_listening = [drv.event_listening EXCEPT ![n] = evs]
    BY <2>2 DEF Rewatched
  <2> HIDE DEF evs
  <2> QED BY <1>1, <2>1, <2>3, <2>4, <2>5, PlainStep
<1>8. CASE Connect(n)
  <2>1. /\ frame.at = "enter" /\ frame.net = n /\ frame.by = "connect" /\ scheduled' = scheduled
        /\ frame' = Done \/ frame' = Tell(n, "alloc_connection", "done")
        /\ \/ drv' = drv /\ net' = net
           \/ /\ drv' = Established(drv, n)
              /\ net' = [net EXCEPT ![n].handler = "generic"]
    BY <1>8 DEF Connect, ConnectTold, Entered, Failed
  <2>2. net[n].handler = "connect"
    BY <2>1 DEF Inv, Control, FrameSound
  <2>3. scheduled[n] = "no"
    BY <2>2 DEF Inv, Control, TxDueIsWatched
  <2>4. frame'.by \notin TlsHandlers
    BY <1>1, <1>2, <1>3, <2>1 DEF NetEvents
  <2>5. CASE drv' = drv /\ net' = net
    BY <2>1, <2>4, <2>5, PlainStutter
  <2>6. CASE drv' = Established(drv, n) /\ net' = [net EXCEPT ![n].handler = "generic"]
    <3> DEFINE evs == (drv.event_listening[n] \ { "TX" }) \cup { "RX" }
               o == [net[n] EXCEPT !.handler = "generic"]
    <3>1. Rewatched(drv, drv', n, evs)
      BY <1>0, <2>6, SwitchRewatches DEF Established
    <3>2. drv'.event_listening = [drv.event_listening EXCEPT ![n] = evs] /\ "TX" \notin evs
      BY <3>1 DEF Rewatched
    <3>3. net' = [net EXCEPT ![n] = o] /\ o.handler = "generic" /\ o.ssl = net[n].ssl
      BY <1>0, <2>6 DEF NetType
    <3>4. scheduled' = [scheduled EXCEPT ![n] = "no"]
      BY <1>0, <2>1, <2>3
    <3> HIDE DEF evs, o
    <3> QED BY <1>1, <2>4, <3>2, <3>3, <3>4, PlainStep
  <2> QED BY <2>1, <2>5, <2>6
<1> QED BY <1>4, <1>5, <1>6, <1>7, <1>8, PlainHandlersRun

\* The calls of the program: io_net_tx says it has scheduled the tx event
\* when it has.
LEMMA CallKeepsPlain ==
  ASSUME Inv, PlainIInv, SslNets = {}, FreshSsl = { "null" }, NEW n \in Watchers, Call(n)
  PROVE  PlainIInv'
<1>0. /\ drv \in DriverType /\ ListsConsistent(drv)
      /\ drv.event_listening \in [Watchers -> SUBSET Events]
      /\ net \in [Watchers -> NetType]
      /\ scheduled \in [Watchers -> { "no", "waiting", "overtaken" }]
      /\ frame \in FrameType /\ { "RX" } \in SUBSET Events /\ { "TX" } \in SUBSET Events
  BY IoNetAssumption DEF Inv, Control, World, TypeOK, DriverSound, Consistent, DriverType
<1>1. /\ frame.by \notin TlsHandlers /\ net[n].ssl # "set" /\ net[n].handler \notin TlsHandlers
      /\ net[n].handler = "generic" => ("TX" \in drv.event_listening[n] <=> scheduled[n] # "no")
  BY DEF PlainIInv, NoTls, TxScheduledIffTold, TlsHandlers
<1>2. scheduled = [scheduled EXCEPT ![n] = scheduled[n]] /\ net = [net EXCEPT ![n] = net[n]]
  BY <1>0
<1>3. CASE io_net_bind(n) \/ io_net_connect(n) \/ io_net_udp(n)
  <2>1. PICK f, handler, ssl, ev :
          /\ Opened(n, f, handler, ssl, FALSE, ev)
          /\ handler \in { "accept", "connect", "udp" } /\ ssl # "set"
          /\ ev \in SUBSET Events
    <3>1. SslOf(n) = "null"
      BY DEF SslOf
    <3>2. CASE io_net_bind(n)
      BY <1>0, <3>1, <3>2 DEF io_net_bind
    <3>3. CASE io_net_connect(n)
      BY <1>0, <3>1, <3>3 DEF io_net_connect
    <3>4. CASE io_net_udp(n)
      BY <1>0, <1>1, <3>4 DEF io_net_udp, Unset
    <3> QED BY <1>3, <3>2, <3>3, <3>4
  <2>2. ~net[n].live /\ scheduled' = scheduled /\ frame' = frame
    BY <1>3 DEF io_net_bind, io_net_connect, io_net_udp, Opening
  <2>3. drv.event_listening[n] = {}
    BY <1>0, <2>2 DEF Inv, World, SocketsHeld, Registered
  <2>4. Renewed(drv, n) = drv
    BY <1>0, <2>3, RenewedIsSame
  <2> DEFINE evs == drv.event_listening[n] \cup ev
             o == [ live |-> TRUE, handler |-> handler, ssl |-> ssl, handshaking |-> FALSE ]
  <2>5. Rewatched(drv, drv', n, evs)
    BY <1>0, <2>1, <2>4, WatchRewatches DEF Opened
  <2>6. net' = [net EXCEPT ![n] = o] /\ o.handler = handler /\ o.ssl = ssl
    BY <2>1 DEF Opened
  <2> HIDE DEF evs, o
  <2>7. handler \notin TlsHandlers /\ handler # "generic"
    BY <2>1, PlainNames
  <2>8. drv'.event_listening = [drv.event_listening EXCEPT ![n] = evs]
    BY <2>5 DEF Rewatched
  <2>9. /\ o.ssl # "set" /\ o.handler \notin TlsHandlers
        /\ o.handler = "generic" => ("TX" \in evs <=> scheduled[n] # "no")
    BY <2>1, <2>6, <2>7
  <2>10. scheduled' = [scheduled EXCEPT ![n] = scheduled[n]] /\ frame'.by \notin TlsHandlers
    BY <1>1, <1>2, <2>2
  <2> QED BY <2>6, <2>8, <2>9, <2>10, PlainStep
<1>4. CASE io_net_close(n)
  <2> DEFINE o == [net[n] EXCEPT !.live = FALSE, !.handler = "none", !.handshaking = FALSE]
             evs == drv.event_listening[n] \ Events
  <2>1. /\ drv' = NoWatch(drv, n, Events)
        /\ net' = [net EXCEPT ![n].live = FALSE, ![n].handler = "none", ![n].handshaking = FALSE]
        /\ frame' = frame \/ frame' = [frame EXCEPT !.closed = TRUE]
        /\ scheduled' = [scheduled EXCEPT ![n] = "no"]
    BY <1>4 DEF io_net_close, Closed
  <2>2. Rewatched(drv, drv', n, evs)
    BY <1>0, <2>1, NoWatchRewatches
  <2>3. net' = [net EXCEPT ![n] = o] /\ o.handler = "none" /\ o.ssl = net[n].ssl
    <3>1. net[n] \in NetType
      BY <1>0
    <3> QED BY <1>0, <2>1, <3>1 DEF NetType
  <2>4. frame'.by = frame.by
    BY <1>0, <2>1 DEF FrameType
  <2> HIDE DEF evs, o
  <2>5. "none" \notin TlsHandlers /\ "none" # "generic"
    BY DEF TlsHandlers
  <2>6. drv'.event_listening = [drv.event_listening EXCEPT ![n] = evs]
    BY <2>2 DEF Rewatched
  <2>7. /\ o.ssl # "set" /\ o.handler \notin TlsHandlers
        /\ o.handler = "generic" => ("TX" \in evs <=> "no" # "no")
    BY <1>1, <2>3, <2>5
  <2> QED BY <1>1, <2>1, <2>3, <2>4, <2>6, <2>7, PlainStep
<1>5. CASE TxWritten(n)
  <2>1. /\ drv' = drv /\ net' = net /\ frame' = frame
        /\ scheduled' = [scheduled EXCEPT ![n] = IF scheduled[n] = "no" THEN "no" ELSE "overtaken"]
    BY <1>5 DEF TxWritten
  <2> DEFINE sch == IF scheduled[n] = "no" THEN "no" ELSE "overtaken"
  <2>2. sch # "no" <=> scheduled[n] # "no"
    OBVIOUS
  <2>3. scheduled' = [scheduled EXCEPT ![n] = sch]
    BY <2>1
  <2> HIDE DEF sch
  <2>4. drv'.event_listening = [drv.event_listening EXCEPT ![n] = drv.event_listening[n]]
    BY <1>0, <2>1
  <2>5. net' = [net EXCEPT ![n] = net[n]] /\ frame'.by \notin TlsHandlers
    BY <1>1, <1>2, <2>1
  <2> QED BY <1>1, <2>2, <2>3, <2>4, <2>5, PlainStep
<1>6. CASE TxScheduled(n)
  <2>1. /\ drv' = Watch(drv, n, { "TX" }) /\ net' = net /\ frame' = frame
        /\ scheduled' = [scheduled EXCEPT ![n] = "waiting"]
    BY <1>1, <1>6 DEF TxScheduled, ScheduleTx
  <2> DEFINE evs == drv.event_listening[n] \cup { "TX" }
  <2>2. Rewatched(drv, drv', n, evs)
    BY <1>0, <2>1, WatchRewatches
  <2>3. drv'.event_listening = [drv.event_listening EXCEPT ![n] = evs] /\ "TX" \in evs
    BY <2>2 DEF Rewatched
  <2> HIDE DEF evs
  <2>4. net' = [net EXCEPT ![n] = net[n]] /\ frame'.by \notin TlsHandlers
    BY <1>1, <1>2, <2>1
  <2>5. "waiting" # "no"
    OBVIOUS
  <2> QED BY <1>1, <2>1, <2>3, <2>4, <2>5, PlainStep
<1> QED BY <1>3, <1>4, <1>5, <1>6 DEF Call, io_net_tx

\* The answers of the user: an accepted connection waits for no tx event.
LEMMA AnswerKeepsPlain ==
  ASSUME Inv, PlainIInv, FreshSsl = { "null" }, Answer
  PROVE  PlainIInv'
<1>0. /\ drv \in DriverType /\ ListsConsistent(drv) /\ frame \in FrameType
      /\ drv.event_listening \in [Watchers -> SUBSET Events]
      /\ scheduled \in [Watchers -> { "no", "waiting", "overtaken" }]
      /\ { "RX" } \in SUBSET Events
  BY IoNetAssumption DEF Inv, Control, World, TypeOK, DriverSound, Consistent, DriverType
<1>1. frame.by \notin TlsHandlers /\ Done.by \notin TlsHandlers
  BY DoneFrame DEF PlainIInv, NoTls, TlsHandlers
<1>2. CASE UserReturns
  <2>1. frame' = Done \/ frame' = [frame EXCEPT !.at = frame.then, !.ev = "none", !.closed = FALSE]
    BY <1>2 DEF UserReturns, AfterUser
  <2>2. frame'.by \notin TlsHandlers
    BY <1>0, <1>1, <2>1 DEF FrameType
  <2> QED BY <1>2, <2>2, PlainStutter DEF UserReturns, vars
<1>3. CASE AllocCancelled
  BY <1>1, <1>3, PlainStutter DEF AllocCancelled, vars
<1>4. ASSUME NEW n \in Watchers, Allocated(n) \/ SslAllocated(n) PROVE PlainIInv'
  <2>0. Allocated(n)
    BY <1>1, <1>4 DEF SslAllocated, TlsHandlers
  <2>1. /\ ~net[n].live /\ scheduled' = scheduled
        /\ frame' = [Tell(n, "connected", "done") EXCEPT !.closed = FALSE, !.newsd = 0]
    BY <2>0 DEF Allocated, Allocate, Answered
  <2>2. PICK ssl \in Unset(n) : Opened(n, frame.newsd, "generic", ssl, FALSE, { "RX" })
    BY <2>0 DEF Allocated, Allocate
  <2>12. ssl # "set"
    BY <2>2 DEF Unset, PlainIInv, NoTls
  <2>3. drv.event_listening[n] = {} /\ scheduled[n] = "no"
    BY <1>0, <2>1 DEF Inv, Control, World, SocketsHeld, Registered, TxDueIsWatched
  <2>4. Renewed(drv, n) = drv
    BY <1>0, <2>3, RenewedIsSame
  <2> DEFINE evs == drv.event_listening[n] \cup { "RX" }
             o == [ live |-> TRUE, handler |-> "generic", ssl |-> ssl, handshaking |-> FALSE ]
             t == Tell(n, "connected", "done")
  <2>5. Rewatched(drv, drv', n, evs)
    BY <1>0, <2>2, <2>4, WatchRewatches DEF Opened
  <2>6. drv'.event_listening = [drv.event_listening EXCEPT ![n] = evs] /\ "TX" \notin evs
    BY <2>3, <2>5 DEF Rewatched
  <2>7. net' = [net EXCEPT ![n] = o] /\ o.handler = "generic" /\ o.ssl # "set"
    BY <2>2, <2>12 DEF Opened
  <2>8. t \in FrameType /\ t.by = frame.by
    BY <1>0, TellFrame DEF NetEvents
  <2>9. scheduled' = [scheduled EXCEPT ![n] = "no"]
    BY <1>0, <2>1, <2>3
  <2>10. frame' = [t EXCEPT !.closed = FALSE, !.newsd = 0]
    BY <2>1
  <2> HIDE DEF evs, o, t
  <2>11. frame'.by \notin TlsHandlers
    BY <1>1, <2>8, <2>10 DEF FrameType
  <2>13. "generic" \notin TlsHandlers
    BY DEF TlsHandlers
  <2> QED BY <2>6, <2>7, <2>9, <2>11, <2>13, PlainStep
<1> QED BY <1>2, <1>3, <1>4 DEF Answer

\* The loop and the kernel change nothing of it.
LEMMA RestKeepsPlain ==
  ASSUME Inv, PlainIInv,
         Select \/ Round \/ (\E f \in Fds : Kernel(f)) \/ UNCHANGED allVars
  PROVE  PlainIInv'
<1>0. drv \in DriverType /\ ListsConsistent(drv) /\ frame.by \notin TlsHandlers
  BY DEF Inv, World, TypeOK, DriverSound, Consistent, PlainIInv, NoTls, TlsHandlers
<1>1. CASE Select
  <2>1. drv'.event_listening = drv.event_listening /\ UNCHANGED netVars
    BY <1>1 DEF Select, SelectReady, Splice
  <2> QED BY <1>0, <2>1, PlainStutter DEF netVars
<1>2. CASE Dispatch
  <2>1. drv'.event_listening = drv.event_listening /\ Head(drv.run_list) \in Watchers
    BY <1>0, <1>2, RequeueKeepsLists DEF Dispatch, DispatchNext
  <2>2. frame' = frame \/ frame'.by = net[Head(drv.run_list)].handler
    BY <1>2 DEF Dispatch, NoFrame
  <2>3. frame'.by \notin TlsHandlers
    BY <1>0, <2>1, <2>2 DEF PlainIInv, NoTls, TlsHandlers
  <2> QED BY <1>2, <2>1, <2>3, PlainStutter DEF Dispatch
<1>3. CASE HandlerReturns
  <2>1. frame'.by \notin TlsHandlers
    BY <1>3 DEF HandlerReturns, NoFrame, TlsHandlers
  <2> QED BY <1>3, <2>1, PlainStutter DEF HandlerReturns, CallbackReturn
<1>4. CASE RoundOver
  BY <1>0, <1>4, PlainStutter DEF RoundOver, DispatchDone, netVars
<1>5. ASSUME NEW f \in Fds, Kernel(f) PROVE PlainIInv'
  BY <1>0, <1>5, PlainStutter DEF Kernel, vars
<1>6. CASE UNCHANGED allVars
  BY <1>0, <1>6, PlainStutter DEF allVars
<1> QED BY <1>1, <1>2, <1>3, <1>4, <1>5, <1>6 DEF Round

\* "0, if tx event is scheduled" (io_net_tx): where no object has TLS, and
\* the program clears the ssl field, an established connection is watched
\* for TX exactly while the caller of io_net_tx waits for the event.
THEOREM TxIsScheduledIffTold ==
  ASSUME SslNets = {}, FreshSsl = { "null" }
  PROVE  NetSpec => []TxScheduledIffTold
<1>1. NetInit => Inv /\ PlainIInv
  <2> SUFFICES ASSUME NetInit PROVE PlainIInv
    BY InvAtStart
  <2>1. \A n \in Watchers : net[n].handler = "none" /\ net[n].ssl = "null"
    BY DEF NetInit
  <2>2. frame.by = "none"
    BY DEF NetInit, NoFrame
  <2> QED BY <2>1, <2>2 DEF PlainIInv, NoTls, TxScheduledIffTold
<1>2. Inv /\ PlainIInv /\ [NetNext]_allVars => (Inv /\ PlainIInv)'
  <2> SUFFICES ASSUME Inv, PlainIInv, [NetNext]_allVars PROVE PlainIInv'
    BY StepKeepsInv
  <2>1. CASE Answer
    BY <2>1, AnswerKeepsPlain
  <2>2. CASE Select \/ Round \/ (\E f \in Fds : Kernel(f)) \/ UNCHANGED allVars
    BY <2>2, RestKeepsPlain
  <2>3. ASSUME NEW n \in Watchers, Call(n) PROVE PlainIInv'
    BY <2>3, CallKeepsPlain
  <2>4. ASSUME NEW n \in Watchers, Handler(n) PROVE PlainIInv'
    BY <2>4, HandlerKeepsPlain
  <2> QED BY <2>1, <2>2, <2>3, <2>4 DEF NetNext
<1>3. PlainIInv => TxScheduledIffTold
  BY DEF PlainIInv
<1> QED BY <1>1, <1>2, <1>3, PTL DEF NetSpec

-----------------------------------------------------------------------------
(* The refinement of SocketPromise.                                         *)

\* The part of its life an object is in, by its fields
LifeOf(o) ==
  IF ~o.live THEN "closed"
  ELSE IF o.handshaking THEN "handshaking"
  ELSE CASE o.handler \in { "accept", "ssl_accept" }   -> "listening"
         [] o.handler \in { "connect", "ssl_connect" } -> "connecting"
         [] o.handler = "udp"                          -> "datagram"
         [] OTHER                                      -> "open"

\* The actions of SocketPromise, under the mapping
LEMMA MappedActions ==
  ASSUME NEW n
  PROVE  /\ SocketLives!Open(n) <=>
              /\ MappedLife[n] = "closed"
              /\ MappedLife' \in { [MappedLife EXCEPT ![n] = l] :
                                     l \in { "listening", "connecting", "datagram" } }
              /\ MappedTold' = MappedTold
         /\ SocketLives!Close(n) <=>
              /\ MappedLife[n] # "closed"
              /\ MappedLife' = [MappedLife EXCEPT ![n] = "closed"]
              /\ MappedTold' = MappedTold
         /\ SocketLives!Tell(n) <=>
              /\ MappedTold = SocketLives!Idle
              /\ \E ev \in SocketLives!ToldIn(MappedLife[n]), l \in SocketLives!Lives :
                   /\ l \in SocketLives!After(MappedLife[n], ev)
                   /\ MappedTold' = [ net |-> n, ev |-> ev ]
                   /\ MappedLife' = [MappedLife EXCEPT ![n] = l]
         /\ SocketLives!Admit(n) <=>
              /\ MappedTold.ev = "alloc_connection" /\ MappedLife[n] = "closed"
              /\ MappedTold' = [ net |-> n, ev |-> "connected" ]
              /\ MappedLife' \in { [MappedLife EXCEPT ![n] = l] : l \in { "handshaking", "open" } }
<1>1. SocketLives!Open(n) <=>
        /\ MappedLife[n] = "closed"
        /\ MappedLife' \in { [MappedLife EXCEPT ![n] = l] :
                               l \in { "listening", "connecting", "datagram" } }
        /\ MappedTold' = MappedTold
  BY Zenon DEF SocketLives!Open, MappedLife, MappedTold
<1>2. SocketLives!Close(n) <=>
        /\ MappedLife[n] # "closed"
        /\ MappedLife' = [MappedLife EXCEPT ![n] = "closed"]
        /\ MappedTold' = MappedTold
  BY Zenon DEF SocketLives!Close, MappedLife, MappedTold
<1>3. SocketLives!Tell(n) <=>
        /\ MappedTold = SocketLives!Idle
        /\ \E ev \in SocketLives!ToldIn(MappedLife[n]), l \in SocketLives!Lives :
             /\ l \in SocketLives!After(MappedLife[n], ev)
             /\ MappedTold' = [ net |-> n, ev |-> ev ]
             /\ MappedLife' = [MappedLife EXCEPT ![n] = l]
  BY Zenon DEF SocketLives!Tell, MappedLife, MappedTold
<1>4. SocketLives!Admit(n) <=>
        /\ MappedTold.ev = "alloc_connection" /\ MappedLife[n] = "closed"
        /\ MappedTold' = [ net |-> n, ev |-> "connected" ]
        /\ MappedLife' \in { [MappedLife EXCEPT ![n] = l] : l \in { "handshaking", "open" } }
  BY Zenon DEF SocketLives!Admit, MappedLife, MappedTold
<1> QED BY <1>1, <1>2, <1>3, <1>4

\* A step of SocketPromise, under the mapping
LEMMA MappedNext ==
  /\ SocketLives!Return <=>
       /\ MappedTold # SocketLives!Idle
       /\ MappedTold' = SocketLives!Idle
       /\ MappedLife' = MappedLife
  /\ UNCHANGED SocketLives!vars <=> MappedLife' = MappedLife /\ MappedTold' = MappedTold
<1>1. SocketLives!Return <=>
       /\ MappedTold # SocketLives!Idle
       /\ MappedTold' = SocketLives!Idle
       /\ MappedLife' = MappedLife
  BY Zenon DEF SocketLives!Return, MappedLife, MappedTold
<1>2. UNCHANGED SocketLives!vars <=> MappedLife' = MappedLife /\ MappedTold' = MappedTold
  BY DEF SocketLives!vars, MappedLife, MappedTold
<1> QED BY <1>1, <1>2

\* The life of an open object, by the handler it has
LEMMA LifeByHandler ==
  ASSUME NEW o, o.live, o.handshaking <=> o.handler = "ssl_handshake"
  PROVE  /\ o.handler \in { "accept", "ssl_accept" } => LifeOf(o) = "listening"
         /\ o.handler \in { "connect", "ssl_connect" } => LifeOf(o) = "connecting"
         /\ o.handler = "ssl_handshake" => LifeOf(o) = "handshaking"
         /\ o.handler = "udp" => LifeOf(o) = "datagram"
         /\ o.handler \in { "generic", "ssl_generic" } => LifeOf(o) = "open"
BY DEF LifeOf

\* Every object is in one of them.
LEMMA LifeIsALife ==
  ASSUME NEW o
  PROVE  LifeOf(o) \in SocketLives!Lives /\ (LifeOf(o) = "closed" <=> ~o.live)
BY DEF LifeOf, SocketLives!Lives

\* A step that changes one object changes its life alone.
LEMMA LifeAfter ==
  ASSUME net \in [Watchers -> NetType], NEW n \in Watchers, NEW o,
         net' = [net EXCEPT ![n] = o]
  PROVE  /\ MappedLife' = [MappedLife EXCEPT ![n] = LifeOf(o)]
         /\ MappedLife[n] = LifeOf(net[n])
<1>1. \A m \in Watchers : net'[m] = IF m = n THEN o ELSE net[m]
  OBVIOUS
<1>2. MappedLife = [m \in Watchers |-> LifeOf(net[m])]
  BY DEF MappedLife, Life, LifeOf
<1>3. MappedLife' = [m \in Watchers |-> LifeOf(net'[m])]
  BY DEF MappedLife, Life, LifeOf
<1>4. \A m \in Watchers : LifeOf(net'[m]) = IF m = n THEN LifeOf(o) ELSE LifeOf(net[m])
  BY <1>1
<1> QED BY <1>2, <1>3, <1>4

\* A handler that calls the user tells an event of the object's life.
LEMMA TellMaps ==
  ASSUME net \in [Watchers -> NetType], NEW n \in Watchers, NEW ev, NEW o,
         frame.at # "user", frame'.at = "user", frame'.net = n, frame'.ev = ev,
         net' = [net EXCEPT ![n] = o],
         ev \in SocketLives!ToldIn(LifeOf(net[n])),
         LifeOf(o) \in SocketLives!After(LifeOf(net[n]), ev)
  PROVE  SocketLives!Next
<1>1. MappedTold = SocketLives!Idle /\ MappedTold' = [ net |-> n, ev |-> ev ]
  BY DEF MappedTold, SocketLives!Idle
<1>2. ev # "none"
  BY DEF SocketLives!ToldIn, ConnectTold
<1>3. ~(UNCHANGED SocketLives!vars)
  <2>1. SocketLives!Idle.ev = "none"
    BY DEF SocketLives!Idle
  <2>2. MappedTold' # MappedTold
    BY <1>1, <1>2, <2>1
  <2> QED BY <2>2, MappedNext
<1>4. MappedLife' = [MappedLife EXCEPT ![n] = LifeOf(o)] /\ MappedLife[n] = LifeOf(net[n])
  BY LifeAfter
<1>5. SocketLives!Tell(n)
  BY <1>1, <1>4, LifeIsALife, MappedActions
<1> QED BY <1>3, <1>5 DEF SocketLives!Next

\* The user returns, and is told nothing else yet.
LEMMA ReturnMaps ==
  ASSUME frame.at = "user", frame.ev # "none", frame'.at # "user", net' = net
  PROVE  SocketLives!Next
<1>1. MappedTold' = SocketLives!Idle /\ MappedTold.ev # "none" /\ SocketLives!Idle.ev = "none"
  BY DEF MappedTold, SocketLives!Idle
<1>2. MappedTold # SocketLives!Idle
  BY <1>1
<1>3. MappedLife' = MappedLife
  BY DEF MappedLife, Life
<1>4. SocketLives!Return /\ ~(UNCHANGED SocketLives!vars)
  BY <1>1, <1>2, <1>3, MappedNext
<1> QED BY <1>4 DEF SocketLives!Next

\* Steps SocketPromise knows nothing of
LEMMA StutterMaps ==
  ASSUME net' = net,
         \/ frame'.at # "user" /\ frame.at # "user"
         \/ frame'.at = frame.at /\ frame'.net = frame.net /\ frame'.ev = frame.ev
  PROVE  UNCHANGED SocketLives!vars
<1>1. MappedLife' = MappedLife
  BY DEF MappedLife, Life
<1>2. MappedTold' = MappedTold
  BY DEF MappedTold
<1> QED BY <1>1, <1>2, MappedNext

\* A call that opens an object
LEMMA OpenMaps ==
  ASSUME net \in [Watchers -> NetType], NEW n \in Watchers, ~net[n].live, NEW o,
         net' = [net EXCEPT ![n] = o], frame' = frame,
         LifeOf(o) \in { "listening", "connecting", "datagram" }
  PROVE  SocketLives!Next
<1>1. MappedLife' = [MappedLife EXCEPT ![n] = LifeOf(o)] /\ MappedLife[n] = "closed"
  BY LifeAfter, LifeIsALife
<1>2. MappedTold' = MappedTold
  BY DEF MappedTold
<1>3. SocketLives!Open(n)
  BY <1>1, <1>2, MappedActions
<1>4. MappedLife \in [Watchers -> SocketLives!Lives]
  BY LifeIsALife DEF MappedLife, Life, LifeOf, SocketLives!Lives
<1>5. MappedLife'[n] # MappedLife[n]
  BY <1>1, <1>4
<1>6. ~(UNCHANGED SocketLives!vars)
  BY <1>5, MappedNext
<1> QED BY <1>3, <1>6 DEF SocketLives!Next

\* io_net_close
LEMMA CloseMaps ==
  ASSUME Inv, NEW n \in Watchers, io_net_close(n)
  PROVE  SocketLives!Next
<1> DEFINE o == [net[n] EXCEPT !.live = FALSE, !.handler = "none", !.handshaking = FALSE]
<1>1. /\ net \in [Watchers -> NetType] /\ net[n].live /\ frame \in FrameType
      /\ net' = [net EXCEPT ![n].live = FALSE, ![n].handler = "none", ![n].handshaking = FALSE]
      /\ frame' = frame \/ frame' = [frame EXCEPT !.closed = TRUE]
  BY DEF io_net_close, MayClose, Inv, World, Control
<1>2. net' = [net EXCEPT ![n] = o] /\ ~o.live
  <2>1. net[n] \in NetType
    BY <1>1
  <2> QED BY <1>1, <2>1 DEF NetType
<1> HIDE DEF o
<1>3. /\ MappedLife' = [MappedLife EXCEPT ![n] = "closed"] /\ MappedLife[n] # "closed"
  <2>1. LifeOf(o) = "closed" /\ LifeOf(net[n]) # "closed"
    BY <1>1, <1>2, LifeIsALife
  <2>2. net \in [Watchers -> NetType]
    BY <1>1
  <2>3. /\ MappedLife' = [MappedLife EXCEPT ![n] = LifeOf(o)]
        /\ MappedLife[n] = LifeOf(net[n])
    BY <1>2, <2>2, LifeAfter
  <2> QED BY <2>1, <2>3
<1>4. MappedTold' = MappedTold
  BY <1>1 DEF MappedTold, FrameType
<1>5. SocketLives!Close(n)
  BY <1>3, <1>4, MappedActions
<1>6. MappedLife'[n] # MappedLife[n]
  BY <1>3 DEF MappedLife
<1>7. ~(UNCHANGED SocketLives!vars)
  BY <1>6, MappedNext
<1> QED BY <1>5, <1>7 DEF SocketLives!Next

\* The calls of the program
LEMMA CallMaps ==
  ASSUME Inv, NEW n \in Watchers, Call(n)
  PROVE  [SocketLives!Next]_(SocketLives!vars)
<1>1. net \in [Watchers -> NetType]
  BY DEF Inv, World
<1>2. CASE io_net_bind(n) \/ io_net_connect(n) \/ io_net_udp(n)
  <2>1. PICK f, handler, ssl, ev :
          /\ Opened(n, f, handler, ssl, FALSE, ev)
          /\ handler \in { "accept", "ssl_accept", "connect", "ssl_connect", "udp" }
    <3>1. CASE io_net_bind(n)
      BY <3>1 DEF io_net_bind
    <3>2. CASE io_net_connect(n)
      BY <3>2 DEF io_net_connect
    <3>3. CASE io_net_udp(n)
      BY <3>3 DEF io_net_udp
    <3> QED BY <1>2, <3>1, <3>2, <3>3
  <2> DEFINE o == [ live |-> TRUE, handler |-> handler, ssl |-> ssl, handshaking |-> FALSE ]
  <2>2. ~net[n].live /\ frame' = frame
    BY <1>2 DEF io_net_bind, io_net_connect, io_net_udp, Opening
  <2>3. net' = [net EXCEPT ![n] = o]
    BY <2>1 DEF Opened
  <2>4. o.live /\ o.handler = handler /\ ~o.handshaking
    OBVIOUS
  <2> HIDE DEF o
  <2>5. LifeOf(o) \in { "listening", "connecting", "datagram" }
    BY <2>1, <2>4 DEF LifeOf
  <2> QED BY <1>1, <2>2, <2>3, <2>5, OpenMaps
<1>3. CASE io_net_close(n)
  BY <1>3, CloseMaps
<1>4. CASE io_net_tx(n)
  <2>1. net' = net /\ frame' = frame
    BY <1>4 DEF io_net_tx, TxWritten, TxScheduled
  <2> QED BY <2>1, StutterMaps
<1> QED BY <1>2, <1>3, <1>4 DEF Call

\* The answers of the user
LEMMA AnswerMaps ==
  ASSUME Inv, Answer
  PROVE  [SocketLives!Next]_(SocketLives!vars)
<1>1. net \in [Watchers -> NetType] /\ frame \in FrameType
  BY DEF Inv, World, Control
<1>2. CASE UserReturns
  <2>1. /\ frame.at = "user" /\ frame.ev # "none" /\ net' = net
        /\ \/ frame' = Done
           \/ frame' = [frame EXCEPT !.at = frame.then, !.ev = "none", !.closed = FALSE]
    BY <1>2 DEF UserReturns, AtUser, AfterUser, Inv, Control, FrameSound
  <2>2. frame.then # "user"
    BY <1>1 DEF FrameType
  <2>3. frame'.at # "user"
    BY <1>1, <2>1, <2>2, DoneFrame DEF FrameType
  <2> QED BY <2>1, <2>3, ReturnMaps
<1>3. CASE AllocCancelled
  <2>1. frame.at = "user" /\ frame.ev # "none" /\ net' = net /\ frame'.at # "user"
    BY <1>3, DoneFrame DEF AllocCancelled, AtUser, Inv, Control, FrameSound
  <2> QED BY <2>1, ReturnMaps
<1>4. ASSUME NEW n \in Watchers, Allocated(n) \/ SslAllocated(n) PROVE SocketLives!Next
  <2>1. /\ frame.at = "user" /\ frame.ev = "alloc_connection" /\ ~net[n].live
        /\ frame' = [Tell(n, "connected", "done") EXCEPT !.closed = FALSE, !.newsd = 0]
    BY <1>4 DEF Allocated, SslAllocated, Allocate, AtUser, Answered, Inv, Control
  <2>2. PICK handler, ssl, hs :
          /\ Opened(n, frame.newsd, handler, ssl, hs, { "RX" })
          /\ \/ handler = "ssl_handshake" /\ hs = TRUE
             \/ handler = "generic" /\ hs = FALSE
    BY <1>4 DEF Allocated, SslAllocated, Allocate
  <2> DEFINE o == [ live |-> TRUE, handler |-> handler, ssl |-> ssl, handshaking |-> hs ]
             t == Tell(n, "connected", "done")
  <2>3. net' = [net EXCEPT ![n] = o] /\ o.live /\ o.handler = handler /\ o.handshaking = hs
    BY <2>2 DEF Opened
  <2>4. t \in FrameType /\ t.at = "user" /\ t.net = n /\ t.ev = "connected"
    BY <1>1, TellFrame DEF NetEvents
  <2>5. frame' = [t EXCEPT !.closed = FALSE, !.newsd = 0]
    BY <2>1
  <2> HIDE DEF o, t
  <2>6. frame'.at = "user" /\ frame'.net = n /\ frame'.ev = "connected"
    BY <2>4, <2>5 DEF FrameType
  <2>7. MappedTold.ev = "alloc_connection" /\ MappedTold' = [ net |-> n, ev |-> "connected" ]
    BY <2>1, <2>6 DEF MappedTold
  <2>8. LifeOf(o) \in { "handshaking", "open" }
    BY <2>2, <2>3 DEF LifeOf
  <2>9. MappedLife' = [MappedLife EXCEPT ![n] = LifeOf(o)] /\ MappedLife[n] = "closed"
    BY <1>1, <2>1, <2>3, LifeAfter, LifeIsALife
  <2>10. SocketLives!Admit(n)
    BY <2>7, <2>8, <2>9, MappedActions
  <2>11. MappedTold'.ev = "connected"
    BY <2>7
  <2>12. MappedTold' # MappedTold
    BY <2>7, <2>11
  <2>13. ~(UNCHANGED SocketLives!vars)
    BY <2>12, MappedNext
  <2> QED BY <2>10, <2>13 DEF SocketLives!Next
<1> QED BY <1>2, <1>3, <1>4 DEF Answer

\* The object of a handler, and its life
LEMMA HandlerLife ==
  ASSUME Inv, NEW n, frame.net = n, frame.at \in { "enter", "tx", "handshake", "ssl_generic" }
  PROVE  /\ n \in Watchers /\ net \in [Watchers -> NetType] /\ frame \in FrameType
         /\ net[n] \in NetType /\ net[n].live
         /\ net[n].handshaking <=> net[n].handler = "ssl_handshake"
         /\ frame.at = "enter" => net[n].handler = frame.by
         /\ frame.at = "tx" => net[n].handler \in { "generic", "ssl_generic" }
         /\ frame.at = "handshake" => net[n].handler = "ssl_handshake"
         /\ frame.at = "ssl_generic" => net[n].handler = "ssl_generic"
         /\ net = [net EXCEPT ![n] = net[n]]
<1>1. /\ n \in Watchers /\ net[n] \in NetType /\ net[n].live /\ frame \in FrameType
      /\ net[n].handshaking <=> net[n].handler = "ssl_handshake"
  BY AtWork
<1>2. net \in [Watchers -> NetType]
  BY DEF Inv, World
<1>3. /\ frame.at = "enter" => net[n].handler = frame.by
      /\ frame.at = "tx" => net[n].handler \in { "generic", "ssl_generic" }
      /\ frame.at = "handshake" => net[n].handler = "ssl_handshake"
      /\ frame.at = "ssl_generic" => net[n].handler = "ssl_generic"
  BY DEF Inv, Control, FrameSound, Fits
<1> QED BY <1>1, <1>2, <1>3

\* A handler that tells its user an event and leaves the object as it was
LEMMA TellSameMaps ==
  ASSUME Inv, NEW n, frame.net = n, frame.at \in { "enter", "tx", "handshake", "ssl_generic" },
         net' = net, NEW ev \in NetEvents,
         NEW then \in { "none", "tx", "handshake", "ssl_generic", "done" },
         \/ frame' = Tell(n, ev, then)
         \/ /\ ev = "alloc_connection"
            /\ \E f \in Fds : frame' = [Tell(n, ev, then) EXCEPT !.newsd = f],
         \/ ev = "alloc_connection" /\ net[n].handler \in { "accept", "ssl_accept", "connect" }
         \/ ev = "closed" /\ net[n].handler = "ssl_handshake"
         \/ ev \in { "rx", "tx", "closed" } /\ net[n].handler \in { "generic", "ssl_generic" }
         \/ ev = "rx" /\ net[n].handler = "udp"
  PROVE  SocketLives!Next
<1> DEFINE t == Tell(n, ev, then)
<1>1. t \in FrameType /\ t.at = "user" /\ t.net = n /\ t.ev = ev
  BY HandlerLife, TellFrame
<1>2. frame' = t \/ \E f \in Fds : frame' = [t EXCEPT !.newsd = f]
  OBVIOUS
<1> HIDE DEF t
<1>3. frame'.at = "user" /\ frame'.net = n /\ frame'.ev = ev
  BY <1>1, <1>2 DEF FrameType
<1>4. /\ ev \in SocketLives!ToldIn(LifeOf(net[n]))
      /\ LifeOf(net[n]) \in SocketLives!After(LifeOf(net[n]), ev)
  <2>1. net[n].live /\ (net[n].handshaking <=> net[n].handler = "ssl_handshake")
    BY HandlerLife
  <2> QED BY <2>1, LifeByHandler DEF SocketLives!ToldIn, SocketLives!After, ConnectTold
<1>5. n \in Watchers /\ net \in [Watchers -> NetType] /\ net' = [net EXCEPT ![n] = net[n]]
  BY HandlerLife
<1> QED BY <1>3, <1>4, <1>5, TellMaps

\* io_net_connect_callback and io_ssl_connect_callback: whichever way the
\* connect went, the user is told alloc_connection.
LEMMA ConnectMaps ==
  ASSUME Inv, NEW n \in Watchers, Connect(n) \/ SslConnect(n)
  PROVE  [SocketLives!Next]_(SocketLives!vars)
<1>1. /\ frame.at = "enter" /\ frame.net = n
      /\ frame.by \in { "connect", "ssl_connect" }
  BY DEF Connect, SslConnect, Entered
<1>2. /\ net \in [Watchers -> NetType] /\ frame \in FrameType /\ net[n] \in NetType /\ net[n].live
      /\ net[n].handler = frame.by /\ ~net[n].handshaking /\ net = [net EXCEPT ![n] = net[n]]
  <2>1. "ssl_handshake" \notin { "connect", "ssl_connect" }
    OBVIOUS
  <2> QED BY <1>1, <2>1, HandlerLife
<1>3. LifeOf(net[n]) = "connecting"
  BY <1>1, <1>2, LifeByHandler
<1>4. CASE frame' = Done /\ net' = net
  BY <1>1, <1>4, DoneFrame, StutterMaps
<1>5. ASSUME NEW then \in { "done", "handshake" }, frame' = Tell(n, "alloc_connection", then),
             NEW handler \in { "connect", "generic", "ssl_handshake" },
             NEW hs \in BOOLEAN, hs <=> handler = "ssl_handshake",
             net' = [net EXCEPT ![n].handler = handler, ![n].handshaking = hs]
      PROVE  SocketLives!Next
  <2> DEFINE o == [net[n] EXCEPT !.handler = handler, !.handshaking = hs]
  <2>1. net' = [net EXCEPT ![n] = o] /\ o.live /\ o.handler = handler /\ o.handshaking = hs
    BY <1>2, <1>5 DEF NetType
  <2> HIDE DEF o
  <2>2. frame'.at = "user" /\ frame'.net = n /\ frame'.ev = "alloc_connection"
    <3>1. "alloc_connection" \in NetEvents
      BY DEF NetEvents
    <3> QED BY <1>2, <1>5, <3>1, TellFrame
  <2>3. LifeOf(o) \in { "connecting", "handshaking", "open" }
    BY <1>5, <2>1 DEF LifeOf
  <2>4. /\ "alloc_connection" \in SocketLives!ToldIn(LifeOf(net[n]))
        /\ LifeOf(o) \in SocketLives!After(LifeOf(net[n]), "alloc_connection")
    BY <1>3, <2>3 DEF SocketLives!ToldIn, SocketLives!After, ConnectTold
  <2>5. net \in [Watchers -> NetType] /\ frame.at # "user"
    BY <1>1, <1>2
  <2> QED BY <2>1, <2>2, <2>4, <2>5, TellMaps
<1>6. CASE Connect(n)
  <2>1. net[n].handler = "connect"
    BY <1>2, <1>6 DEF Connect, Entered
  <2>2. CASE frame.e # { "TX" }
    BY <1>4, <1>6, <2>2 DEF Connect
  <2>3. CASE frame.e = { "TX" } /\ S(n).st = "refused"
    <3>1. frame' = Tell(n, "alloc_connection", "done") /\ net' = net
      BY <1>6, <2>3 DEF Connect, ConnectTold
    <3>2. net' = [net EXCEPT ![n].handler = "connect", ![n].handshaking = FALSE]
      BY <1>2, <2>1, <3>1 DEF NetType
    <3> QED BY <1>5, <3>1, <3>2
  <2>4. CASE frame.e = { "TX" } /\ S(n).st # "refused"
    <3>1. /\ frame' = Tell(n, "alloc_connection", "done")
          /\ net' = [net EXCEPT ![n].handler = "generic"]
      BY <1>6, <2>4 DEF Connect, ConnectTold
    <3>2. net' = [net EXCEPT ![n].handler = "generic", ![n].handshaking = FALSE]
      BY <1>2, <3>1 DEF NetType
    <3> QED BY <1>5, <3>1, <3>2
  <2> QED BY <2>2, <2>3, <2>4
<1>7. CASE SslConnect(n)
  <2>1. CASE frame.e # { "TX" }
    BY <1>4, <1>7, <2>1 DEF SslConnect
  <2>2. CASE frame.e = { "TX" }
    <3>1. /\ frame' = Tell(n, "alloc_connection", "handshake")
          /\ net' = [net EXCEPT ![n].handler = "ssl_handshake", ![n].handshaking = TRUE]
      BY <1>7, <2>2 DEF SslConnect, SslHandler, ConnectTold
    <3> QED BY <1>5, <3>1
  <2> QED BY <2>1, <2>2
<1> QED BY <1>6, <1>7

\* The handshake: handshaken or closed, or nothing yet
LEMMA HandshakeMaps ==
  ASSUME Inv, NEW n \in Watchers, HandshakeDone(n) \/ HandshakeWants(n) \/ HandshakeFails(n)
  PROVE  [SocketLives!Next]_(SocketLives!vars)
<1>1. AtHandshake(n)
  BY DEF HandshakeDone, HandshakeWants, HandshakeFails
<1>2. /\ frame.at \in { "enter", "handshake" } /\ frame.net = n
      /\ frame.at = "enter" => frame.by = "ssl_handshake"
  BY <1>1 DEF AtHandshake, Entered
<1>3. /\ net \in [Watchers -> NetType] /\ frame \in FrameType /\ net[n] \in NetType /\ net[n].live
      /\ net[n].handler = "ssl_handshake" /\ net[n].handshaking
  BY <1>2, HandlerLife
<1>4. CASE HandshakeDone(n)
  <2> DEFINE o == [net[n] EXCEPT !.handshaking = FALSE, !.handler = "ssl_generic"]
             then == IF HandshakeEvents = {} THEN "done" ELSE "ssl_generic"
             t == Tell(n, "handshaken", then)
  <2>1. /\ net' = [net EXCEPT ![n].handshaking = FALSE, ![n].handler = "ssl_generic"]
        /\ frame' = [t EXCEPT !.e = HandshakeEvents]
    BY <1>4 DEF HandshakeDone
  <2>2. net' = [net EXCEPT ![n] = o] /\ o.live /\ o.handler = "ssl_generic" /\ ~o.handshaking
    BY <1>3, <2>1 DEF NetType
  <2>3. t \in FrameType /\ t.at = "user" /\ t.net = n /\ t.ev = "handshaken"
    BY <1>3, TellFrame DEF NetEvents
  <2> HIDE DEF o, t
  <2>4. frame'.at = "user" /\ frame'.net = n /\ frame'.ev = "handshaken"
    BY <2>1, <2>3 DEF FrameType
  <2>5. LifeOf(net[n]) = "handshaking" /\ LifeOf(o) = "open"
    BY <1>3, <2>2 DEF LifeOf
  <2>6. /\ "handshaken" \in SocketLives!ToldIn(LifeOf(net[n]))
        /\ LifeOf(o) \in SocketLives!After(LifeOf(net[n]), "handshaken")
    BY <2>5 DEF SocketLives!ToldIn, SocketLives!After
  <2>7. net \in [Watchers -> NetType] /\ frame.at # "user" /\ net' = [net EXCEPT ![n] = o]
    BY <1>2, <1>3, <2>2
  <2> QED BY <2>4, <2>6, <2>7, TellMaps
<1>5. CASE HandshakeWants(n)
  <2>1. frame' = Done /\ net' = net
    BY <1>5 DEF HandshakeWants
  <2> QED BY <1>2, <2>1, DoneFrame, StutterMaps
<1>6. CASE HandshakeFails(n)
  <2>1. frame' = Tell(n, "closed", "done") /\ net' = net /\ "closed" \in NetEvents
    BY <1>6 DEF HandshakeFails, NetEvents
  <2> QED BY <1>2, <1>3, <2>1, TellSameMaps
<1> QED BY <1>4, <1>5, <1>6

\* The handlers
LEMMA HandlerMaps ==
  ASSUME Inv, NEW n \in Watchers, Handler(n)
  PROVE  [SocketLives!Next]_(SocketLives!vars)
<1>1. CASE Accept(n) \/ SslAccept(n)
  <2>1. /\ frame.at = "enter" /\ frame.net = n /\ net' = net
        /\ frame.by \in { "accept", "ssl_accept" }
        /\ \/ frame' = Done
           \/ Free # {} /\ frame' = [Tell(n, "alloc_connection", "none") EXCEPT !.newsd = NewFd]
    BY <1>1 DEF Accept, SslAccept, AcceptOne, Entered
  <2>2. net[n].handler = frame.by
    BY <2>1, HandlerLife
  <2>3. CASE frame' = Done
    BY <2>1, <2>3, DoneFrame, StutterMaps
  <2>4. CASE Free # {} /\ frame' = [Tell(n, "alloc_connection", "none") EXCEPT !.newsd = NewFd]
    <3>1. NewFd \in Fds /\ "alloc_connection" \in NetEvents
      BY <2>4, NewFdIsFree DEF NetEvents
    <3> QED BY <2>1, <2>2, <2>4, <3>1, TellSameMaps
  <2> QED BY <2>1, <2>3, <2>4
<1>2. CASE Connect(n) \/ SslConnect(n)
  BY <1>2, ConnectMaps
<1>3. CASE GenericRx(n)
  <2> DEFINE ev == IF S(n).in THEN "rx" ELSE "closed"
             then == Then(frame.e, "tx")
  <2>1. /\ frame.at = "enter" /\ frame.net = n /\ frame.by = "generic" /\ net' = net
        /\ frame' = Tell(n, ev, then)
        /\ ev \in { "rx", "closed" } /\ ev \in NetEvents
        /\ then \in { "none", "tx", "handshake", "ssl_generic", "done" }
    BY <1>3 DEF GenericRx, Entered, NetEvents, Then
  <2> HIDE DEF ev, then
  <2>2. net[n].handler = "generic"
    BY <2>1, HandlerLife
  <2> QED BY <2>1, <2>2, TellSameMaps
<1>4. CASE TxPart(n)
  <2>1. /\ frame.at \in { "enter", "tx" } /\ frame.net = n /\ net' = net
        /\ frame.at = "enter" => frame.by \in { "generic", "ssl_generic" }
        /\ frame' = Tell(n, "tx", "done") /\ "tx" \in NetEvents
    BY <1>4 DEF TxPart, Entered, NetEvents
  <2>2. net[n].handler \in { "generic", "ssl_generic" }
    BY <2>1, HandlerLife
  <2> QED BY <2>1, <2>2, TellSameMaps
<1>5. CASE Udp(n)
  <2>1. /\ frame.at = "enter" /\ frame.net = n /\ frame.by = "udp" /\ net' = net
        /\ "rx" \in NetEvents
        /\ \/ frame' = Done
           \/ frame' = Tell(n, "rx", "done")
    BY <1>5 DEF Udp, Entered, NetEvents
  <2>2. net[n].handler = "udp"
    BY <2>1, HandlerLife
  <2>3. CASE frame' = Done
    BY <2>1, <2>3, DoneFrame, StutterMaps
  <2>4. CASE frame' = Tell(n, "rx", "done")
    BY <2>1, <2>2, <2>4, TellSameMaps
  <2> QED BY <2>1, <2>3, <2>4
<1>6. CASE HandshakeDone(n) \/ HandshakeWants(n) \/ HandshakeFails(n)
  BY <1>6, HandshakeMaps
<1>7. CASE SslRx(n)
  <2>1. /\ frame.at \in { "enter", "ssl_generic" } /\ frame.net = n /\ net' = net
        /\ frame.at = "enter" => frame.by = "ssl_generic"
    BY <1>7 DEF SslRx, AtSslGeneric, Entered
  <2>2. net[n].handler = "ssl_generic" /\ frame \in FrameType
    BY <2>1, HandlerLife
  <2> DEFINE then == Then(frame.e, "tx")
  <2>3. \/ frame' = Tell(n, "rx", then)
        \/ frame' = Tell(n, "closed", "done")
        \/ frame' = Done
        \/ frame' = [frame EXCEPT !.at = "tx"]
    BY <1>7 DEF SslRx
  <2>4. /\ then \in { "none", "tx", "handshake", "ssl_generic", "done" }
        /\ "rx" \in NetEvents /\ "closed" \in NetEvents
    BY DEF Then, NetEvents
  <2> HIDE DEF then
  <2>5. CASE frame' = Tell(n, "rx", then)
    BY <2>1, <2>2, <2>4, <2>5, TellSameMaps
  <2>6. CASE frame' = Tell(n, "closed", "done")
    BY <2>1, <2>2, <2>4, <2>6, TellSameMaps
  <2>7. CASE frame' = Done
    BY <2>1, <2>7, DoneFrame, StutterMaps
  <2>8. CASE frame' = [frame EXCEPT !.at = "tx"]
    <3>1. frame'.at = "tx"
      BY <2>2, <2>8 DEF FrameType
    <3> QED BY <2>1, <3>1, StutterMaps
  <2> QED BY <2>3, <2>5, <2>6, <2>7, <2>8
<1>8. CASE SslTxAfterHandshake(n)
  <2>1. frame.at = "ssl_generic" /\ frame' = [frame EXCEPT !.at = "tx"] /\ net' = net
    BY <1>8 DEF SslTxAfterHandshake
  <2>2. frame'.at = "tx"
    BY <2>1 DEF Inv, Control, FrameType
  <2> QED BY <2>1, <2>2, StutterMaps
<1> QED BY <1>1, <1>2, <1>3, <1>4, <1>5, <1>6, <1>7, <1>8 DEF Handler

\* The loop and the kernel do nothing SocketPromise knows of.
LEMMA RestMaps ==
  ASSUME Inv, Select \/ Round \/ (\E f \in Fds : Kernel(f)) \/ UNCHANGED allVars
  PROVE  UNCHANGED SocketLives!vars
<1>1. CASE Select
  BY <1>1, StutterMaps DEF Select, netVars
<1>2. CASE Dispatch
  <2>1. frame.at = "none" /\ net' = net
    BY <1>2 DEF Dispatch, DispatchNext, Inv, Control
  <2>2. frame'.at # "user"
    BY <1>2, <2>1 DEF Dispatch, NoFrame
  <2> QED BY <2>1, <2>2, StutterMaps
<1>3. CASE HandlerReturns
  <2>1. frame.at = "done" /\ frame'.at = "none" /\ net' = net
    BY <1>3 DEF HandlerReturns, NoFrame
  <2> QED BY <2>1, StutterMaps
<1>4. CASE RoundOver
  BY <1>4, StutterMaps DEF RoundOver, netVars
<1>5. ASSUME NEW f \in Fds, Kernel(f) PROVE UNCHANGED SocketLives!vars
  BY <1>5, StutterMaps DEF Kernel
<1>6. CASE UNCHANGED allVars
  BY <1>6, StutterMaps DEF allVars
<1> QED BY <1>1, <1>2, <1>3, <1>4, <1>5, <1>6 DEF Round

\* io_net.c implements SocketPromise: a connection is told only events of
\* the part of its life it is in, and none once the program closed it.
THEOREM SocketRefinement == NetSpec => ImplementsSocketPromise
<1>1. NetInit => SocketLives!Init
  <2> SUFFICES ASSUME NetInit PROVE SocketLives!Init
    OBVIOUS
  <2>1. \A n \in Watchers : ~net[n].live
    BY DEF NetInit
  <2>2. frame.at = "none"
    BY DEF NetInit, NoFrame
  <2>3. MappedLife = [n \in Watchers |-> "closed"]
    BY <2>1 DEF MappedLife, Life
  <2> QED BY <2>2, <2>3 DEF MappedTold, SocketLives!Init, SocketLives!Idle
<1>2. Inv /\ [NetNext]_allVars => [SocketLives!Next]_(SocketLives!vars)
  <2> SUFFICES ASSUME Inv, [NetNext]_allVars PROVE [SocketLives!Next]_(SocketLives!vars)
    OBVIOUS
  <2>1. CASE Select \/ Round \/ (\E f \in Fds : Kernel(f)) \/ UNCHANGED allVars
    BY <2>1, RestMaps
  <2>2. CASE Answer
    BY <2>2, AnswerMaps
  <2>3. ASSUME NEW n \in Watchers, Call(n) PROVE [SocketLives!Next]_(SocketLives!vars)
    BY <2>3, CallMaps
  <2>4. ASSUME NEW n \in Watchers, Handler(n) PROVE [SocketLives!Next]_(SocketLives!vars)
    BY <2>4, HandlerMaps
  <2> QED BY <2>1, <2>2, <2>3, <2>4 DEF NetNext
<1>3. NetIInv => Inv
  BY InvIsNetIInv
<1> QED BY <1>1, <1>2, <1>3, NetInvariantHolds, PTL
        DEF NetSpec, ImplementsSocketPromise, SocketLives!Spec
=============================================================================
