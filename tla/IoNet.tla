------------------------------- MODULE IoNet -------------------------------
(***************************************************************************)
(* io_net.c on top of the select loop of IoDriver.tla: sockets that are    *)
(* bound, connected, accepted, read, written and closed, with or without   *)
(* mbedtls, and the one callback of the user that hears of it all.         *)
(*                                                                         *)
(* A watcher of IoDriver.tla is here the io_net_t it is a field of, and    *)
(* fd[n] is both n->sd and n->watcher.fd, which io_net.c sets together.    *)
(*                                                                         *)
(* A handler runs in steps: from the driver's call to the call of the      *)
(* user's callback, the user's own calls, and what the handler does after  *)
(* the user returned.  The kernel moves between any two of them.           *)
(***************************************************************************)
EXTENDS IoDriver, Naturals

CONSTANTS
  Listeners,  \* the io_net_t objects the program binds,
  Clients,    \*   those it connects,
  Accepted,   \*   those it hands to the accept callback,
  Datagrams,  \*   and those it uses for UDP
  SslNets,    \* those it gives an io_ssl_t
  FreshSsl,   \* what the ssl field of an io_net_t may hold before it is set
  Nobody      \* no io_net_t: the object of no handler

VARIABLES
  net,        \* the io_net_t objects
  sock,       \* the kernel's sockets, by descriptor
  frame,      \* the handler that is running
  scheduled   \* per object, whether io_net_tx returned 0 and the tx event is due
              \* ("waiting"), possibly with bytes written since ("overtaken")

netVars == << net, sock, frame, scheduled >>

allVars == << drv, fd, sets, phase, call, net, sock, frame, scheduled >>

Handlers == { "none", "accept", "connect", "generic", "udp",
              "ssl_accept", "ssl_connect", "ssl_handshake", "ssl_generic" }

NetEvents == { "alloc_connection", "connected", "handshaken", "rx", "tx", "closed" }

\* ssl is NULL, the address of an io_ssl_t, or memory nobody has written.
SslValues == { "null", "set", "garbage" }

NetType ==
  [ live : BOOLEAN, handler : Handlers, ssl : SslValues, handshaking : BOOLEAN ]

\* in: something to read (a connection to accept, for a listening socket);
\* eof: the peer is gone; out: room in the send buffer
SockType ==
  [ st : { "free", "listen", "connecting", "refused", "hungup", "stream", "udp" },
    in : BOOLEAN, eof : BOOLEAN, out : BOOLEAN ]

\* at: where the handler is; ev: what the user is told; then: where the
\* handler goes on; by: the handler; closed: the user closed the socket it
\* is being told about; newsd: the descriptor accept returned
FrameType ==
  [ at : { "none", "enter", "user", "tx", "handshake", "ssl_generic", "done" },
    net : Watchers \cup { Nobody }, e : SUBSET Events, ev : NetEvents \cup { "none" },
    then : { "none", "tx", "handshake", "ssl_generic", "done" },
    by : Handlers, closed : BOOLEAN, newsd : Fds \cup { 0 } ]

ASSUME IoNetAssumption ==
  /\ { "RX", "TX" } \subseteq Events
  /\ Fds # {} /\ Fds \subseteq Nat \ {0}
  /\ FreshSsl \subseteq SslValues
  /\ Listeners \cup Clients \cup Accepted \cup Datagrams \cup SslNets \subseteq Watchers

NetTypeOK ==
  /\ TypeOK
  /\ net \in [Watchers -> NetType]
  /\ sock \in [Fds -> SockType]
  /\ frame \in FrameType
  /\ scheduled \in [Watchers -> { "no", "waiting", "overtaken" }]
  /\ frame.at = "none" <=> phase # "callback"
  /\ frame.newsd # 0 => frame.at = "user" /\ frame.ev = "alloc_connection"

-----------------------------------------------------------------------------
Socket(st) == [ st |-> st, in |-> FALSE, eof |-> FALSE, out |-> st = "stream" ]

NoFrame ==
  [ at |-> "none", net |-> Nobody, e |-> {}, ev |-> "none",
    then |-> "none", by |-> "none", closed |-> FALSE, newsd |-> 0 ]

\* The descriptor of an object that was never opened is not looked at.
NetInit ==
  /\ Init
  /\ \E f \in Fds : (\A g \in Fds : f <= g) /\ fd = [n \in Watchers |-> f]
  /\ net \in [Watchers -> [ live : {FALSE}, handler : {"none"}, ssl : FreshSsl,
                            handshaking : {FALSE} ]]
  /\ sock = [f \in Fds |-> Socket("free")]
  /\ frame = NoFrame
  /\ scheduled = [n \in Watchers |-> "no"]

\* The program's own code runs between two rounds (its timers and its other
\* watchers among them) and in the callbacks io_net.c makes.
Program == phase = "app" \/ frame.at = "user"

Free == { f \in Fds : sock[f].st = "free" }

\* socket() and accept() return the lowest descriptor that is free.
NewFd == CHOOSE f \in Free : \A g \in Free : f <= g

S(n) == sock[fd[n]]

\* What was there is read; more may arrive at any time.
DrainInput(n) == [sock EXCEPT ![fd[n]].in = FALSE]

-----------------------------------------------------------------------------
\* What select says of a socket, by what the kernel knows of it.
Readable(s) ==
  \/ s.st \in { "listen", "udp" } /\ s.in
  \/ s.st = "stream" /\ (s.in \/ s.eof)
  \/ s.st \in { "refused", "hungup" }

Writable(s) ==
  \/ s.st = "stream" /\ s.out
  \/ s.st \in { "refused", "hungup", "udp" }

KernelReady ==
  [ ev \in Events |->
      { f \in Asked(ev) : \/ ev = "RX" /\ Readable(sock[f])
                          \/ ev = "TX" /\ Writable(sock[f]) } ]

\* The peers and the network.  A connect that fails later leaves its error to
\* getsockopt ("refused"), one that failed in connect() itself does not
\* ("hungup").
ConnectionOrDataArrives(f) ==
  /\ sock[f].st \in { "listen", "stream", "udp" }
  /\ ~sock[f].eof
  /\ sock' = [sock EXCEPT ![f].in = TRUE]

ConnectResolves(f) ==
  /\ sock[f].st = "connecting"
  /\ \E st \in { "stream", "refused", "hungup" } : sock' = [sock EXCEPT ![f] = Socket(st)]

PeerCloses(f) ==
  /\ sock[f].st = "stream"
  /\ sock' = [sock EXCEPT ![f].eof = TRUE]

SendBufferDrains(f) ==
  /\ sock[f].st = "stream"
  /\ sock' = [sock EXCEPT ![f].out = TRUE]

Kernel(f) ==
  /\ \/ ConnectionOrDataArrives(f)
     \/ ConnectResolves(f)
     \/ PeerCloses(f)
     \/ SendBufferDrains(f)
  /\ UNCHANGED << vars, net, frame, scheduled >>

-----------------------------------------------------------------------------
\* The loop.  The driver calls the handler of a watcher with call[n].
loopVars == << sets, phase, call >>

Select ==
  /\ SelectReady
  /\ sets' = KernelReady
  /\ UNCHANGED netVars

Dispatch ==
  /\ DispatchNext
  /\ frame' = IF phase' = "callback"
              THEN LET n == Head(drv.run_list)
                   IN [NoFrame EXCEPT !.at = "enter", !.net = n, !.e = call'[n],
                                      !.by = net[n].handler]
              ELSE frame
  /\ UNCHANGED << net, sock, scheduled >>

HandlerReturns ==
  /\ frame.at = "done"
  /\ CallbackReturn
  /\ frame' = NoFrame
  /\ UNCHANGED << net, sock, scheduled >>

RoundOver == DispatchDone /\ UNCHANGED netVars

Entered(n, handler) == frame.at = "enter" /\ frame.net = n /\ frame.by = handler

Done == [NoFrame EXCEPT !.at = "done"]

\* n->cb(n, &ev), after which the handler goes on at `then'
Tell(n, ev, then) == [frame EXCEPT !.at = "user", !.net = n, !.ev = ev, !.then = then]

\* io_driver_watcher_init
Renewed(d, n) ==
  [ watchers        |-> d.watchers,
    run_list        |-> d.run_list,
    event_listening |-> [d.event_listening EXCEPT ![n] = {}] ]

\* The end of io_net_bind, io_net_connect, io_net_udp and of the accept
\* callbacks: n has the descriptor f, a handler, and events it listens to.
Opened(n, f, handler, ssl, handshaking, ev) ==
  /\ fd' = [fd EXCEPT ![n] = f]
  /\ net' = [net EXCEPT ![n] = [ live |-> TRUE, handler |-> handler, ssl |-> ssl,
                                 handshaking |-> handshaking ]]
  /\ drv' = Watch(Renewed(drv, n), n, ev)

-----------------------------------------------------------------------------
(* The calls of the program.  Those that fail return -1 and leave no trace  *)
(* (bind closes its socket again), which is a stuttering step.              *)

Opening(n) == Program /\ ~net[n].live /\ Free # {}

SslOf(n) == IF n \in SslNets THEN "set" ELSE "null"

io_net_bind(n) ==
  /\ Opening(n)
  /\ n \in Listeners
  /\ Opened(n, NewFd, IF n \in SslNets THEN "ssl_accept" ELSE "accept",
            SslOf(n), FALSE, { "RX" })
  /\ sock' = [sock EXCEPT ![NewFd] = Socket("listen")]
  /\ UNCHANGED << loopVars, frame, scheduled >>

io_net_connect(n) ==
  /\ Opening(n)
  /\ n \in Clients
  /\ Opened(n, NewFd, IF n \in SslNets THEN "ssl_connect" ELSE "connect",
            SslOf(n), FALSE, { "TX" })
  /\ sock' = [sock EXCEPT ![NewFd] = Socket("connecting")]
  /\ UNCHANGED << loopVars, frame, scheduled >>

\* n->ssl is not set: it is what it was, or what the memory held that n was
\* allocated in since.
Unset(n) == FreshSsl \cup { net[n].ssl }

io_net_udp(n) ==
  /\ Opening(n)
  /\ n \in Datagrams
  /\ \E ssl \in Unset(n) : Opened(n, NewFd, "udp", ssl, FALSE, { "RX" })
  /\ sock' = [sock EXCEPT ![NewFd] = Socket("udp")]
  /\ UNCHANGED << loopVars, frame, scheduled >>

\* io_ssl_connect_callback goes on with the handshake whatever the callback
\* returns (its FIXME), so no program can close the connection in there.
MayClose(n) ==
  /\ Program /\ net[n].live
  /\ ~(frame.at = "user" /\ frame.net = n /\ frame.then = "handshake")

\* A faulty variant: the connection stays registered for RX.
ClosedUnwatched(d, n) == NoWatch(d, n, { "TX" })

Closed(d, n) == NoWatch(d, n, Events)

\* The object may be opened again afterwards, or freed and allocated again.
io_net_close(n) ==
  /\ MayClose(n)
  /\ drv' = Closed(drv, n)
  /\ net' = [net EXCEPT ![n].live = FALSE, ![n].handler = "none", ![n].handshaking = FALSE]
  /\ sock' = [sock EXCEPT ![fd[n]] = Socket("free")]
  /\ frame' = IF frame.net = n /\ frame.at = "user" THEN [frame EXCEPT !.closed = TRUE] ELSE frame
  /\ scheduled' = [scheduled EXCEPT ![n] = "no"]
  /\ UNCHANGED << loopVars, fd >>

\* The program transmits on connections that were established.
MayTransmit(n) ==
  /\ Program /\ net[n].live
  /\ net[n].handler \in { "generic", "ssl_generic", "ssl_handshake" }

\* write() or mbedtls_ssl_write() takes some of the bytes.
TxWritten(n) ==
  /\ MayTransmit(n)
  /\ ~net[n].handshaking
  /\ S(n).st = "stream" /\ S(n).out
  /\ \E room \in BOOLEAN : sock' = [sock EXCEPT ![fd[n]].out = room]
  /\ scheduled' = [scheduled EXCEPT ![n] = IF @ = "no" THEN "no" ELSE "overtaken"]
  /\ UNCHANGED << loopVars, drv, fd, net, frame >>

\* A faulty variant: 0 is returned and nothing is scheduled.
NothingScheduled(d, n) == d

ScheduleTx(d, n) == Watch(d, n, { "TX" })

\* The send buffer is full: the tx event is scheduled.  The caller knows
\* when it is returned 0, which the mbedtls branch does not do: it returns
\* the negative MBEDTLS_ERR_SSL_WANT_WRITE.
TxScheduled(n) ==
  /\ MayTransmit(n)
  /\ ~net[n].handshaking
  /\ S(n).st = "stream" /\ ~S(n).out
  /\ drv' = ScheduleTx(drv, n)
  /\ scheduled' = [scheduled EXCEPT ![n] = IF net[n].ssl = "set" THEN @ ELSE "waiting"]
  /\ UNCHANGED << loopVars, fd, net, sock, frame >>

\* The remaining returns of io_net_tx, -1 on an error or in a handshake,
\* change nothing.
io_net_tx(n) == TxWritten(n) \/ TxScheduled(n)

-----------------------------------------------------------------------------
(* What the user's callback returns.  A user that closed the connection it  *)
(* is told about returns io_net_return_stop, any other one                  *)
(* io_net_return_continue: so do the programs under test/.                  *)

AtUser == phase = "callback" /\ frame.at = "user"

\* A faulty variant: the handler does not look at what was returned.
StopIgnored ==
  [frame EXCEPT !.at = frame.then, !.ev = "none", !.closed = FALSE]

\* Where the handler goes on: nowhere after a stop, with the exception of
\* io_ssl_connect_callback, which ignores it.
AfterUser ==
  IF frame.then = "done" \/ (frame.closed /\ frame.then # "handshake")
  THEN Done
  ELSE [frame EXCEPT !.at = frame.then, !.ev = "none", !.closed = FALSE]

UserReturns ==
  /\ AtUser /\ frame.newsd = 0
  /\ frame' = AfterUser
  /\ UNCHANGED << vars, net, sock, scheduled >>

\* A faulty variant: the descriptor of a refused connection stays open.
Leaked(f) == sock

Shut(f) == [sock EXCEPT ![f] = Socket("free")]

\* The answer to alloc_connection in an accept callback is an object, or a
\* stop to refuse the connection.
AllocCancelled ==
  /\ AtUser /\ frame.newsd # 0
  /\ sock' = Shut(frame.newsd)
  /\ frame' = Done
  /\ UNCHANGED << vars, net, scheduled >>

\* A faulty variant: the descriptor is still the callback's to close.
AnsweredHoldsSd(n) == [Tell(n, "connected", "done") EXCEPT !.closed = FALSE]

\* The descriptor has become n's, and n's user is told so.
Answered(n) == [Tell(n, "connected", "done") EXCEPT !.closed = FALSE, !.newsd = 0]

\* The user's callback has given the accepted connection an object of its own.
Allocate(n, handler, ssl, handshaking) ==
  /\ AtUser /\ frame.newsd # 0
  /\ n \in Accepted /\ ~net[n].live
  /\ Opened(n, frame.newsd, handler, ssl, handshaking, { "RX" })
  /\ frame' = Answered(n)
  /\ UNCHANGED << loopVars, sock, scheduled >>

\* The rest of io_net_accept_callback, which leaves n->ssl alone
Allocated(n) ==
  frame.by # "ssl_accept" /\ \E ssl \in Unset(n) : Allocate(n, "generic", ssl, FALSE)

\* The rest of io_ssl_accept_callback
SslAllocated(n) ==
  frame.by = "ssl_accept" /\ Allocate(n, "ssl_handshake", "set", TRUE)

-----------------------------------------------------------------------------
(* The handlers *)

\* The two accept callbacks, as far as the user's
AcceptOne(l) ==
  /\ IF frame.e = { "RX" } /\ S(l).in /\ Free # {}
     THEN /\ sock' = [sock EXCEPT ![NewFd] = Socket("stream"), ![fd[l]].in = FALSE]
          /\ frame' = [Tell(l, "alloc_connection", "none") EXCEPT !.newsd = NewFd]
     ELSE sock' = sock /\ frame' = Done
  /\ UNCHANGED << vars, net, scheduled >>

\* io_net_accept_callback
Accept(l) == Entered(l, "accept") /\ AcceptOne(l)

\* io_ssl_accept_callback
SslAccept(l) == Entered(l, "ssl_accept") /\ AcceptOne(l)

\* A faulty variant: the connection goes on listening for TX.
EstablishedKeepsTx(d, n) == Watch(d, n, { "RX" })

\* A connection that is established: RX instead of TX
Established(d, n) == Watch(NoWatch(d, n, { "TX" }), n, { "RX" })

\* A faulty variant: a failed connect is told once and unregistered.
FailedUnwatched(d, n) == NoWatch(d, n, { "TX" })

\* A connect that failed: TX stays watched.
Failed(d, n) == d

\* The event is set to connected or closed and then zeroed by memset, which
\* makes it alloc_connection in both cases.
ConnectTold == "alloc_connection"

\* io_net_connect_callback: getsockopt fetches the error and clears it.
Connect(n) ==
  /\ Entered(n, "connect")
  /\ IF frame.e # { "TX" }
     THEN frame' = Done /\ UNCHANGED << drv, net, sock >>
     ELSE /\ frame' = Tell(n, ConnectTold, "done")
          /\ IF S(n).st = "refused"
             THEN /\ sock' = [sock EXCEPT ![fd[n]] = Socket("hungup")]
                  /\ drv' = Failed(drv, n)
                  /\ net' = net
             ELSE /\ net' = [net EXCEPT ![n].handler = "generic"]
                  /\ drv' = Established(drv, n)
                  /\ sock' = sock
  /\ UNCHANGED << loopVars, fd, scheduled >>

\* A faulty variant: the generic handler is left in place.
SslConnectedHandler == "ssl_generic"

\* io_ssl_connect_callback sets the generic handler and then this one.
SslHandler == "ssl_handshake"

\* io_ssl_connect_callback
SslConnect(n) ==
  /\ Entered(n, "ssl_connect")
  /\ IF frame.e # { "TX" }
     THEN frame' = Done /\ UNCHANGED << drv, net, sock >>
     ELSE /\ frame' = Tell(n, ConnectTold, "handshake")
          /\ net' = [net EXCEPT ![n].handler = SslHandler, ![n].handshaking = TRUE]
          /\ IF S(n).st = "refused"
             THEN drv' = Failed(drv, n) /\ sock' = [sock EXCEPT ![fd[n]] = Socket("hungup")]
             ELSE drv' = Established(drv, n) /\ sock' = sock
  /\ UNCHANGED << loopVars, fd, scheduled >>

Then(e, next) == IF "TX" \in e THEN next ELSE "done"

\* io_net_generic_callback, RX: read() returns 0 when the peer has gone and
\* -1 when there is nothing to read or the connection broke; the user is
\* told closed in each of these cases.
GenericRx(n) ==
  /\ Entered(n, "generic") /\ "RX" \in frame.e
  /\ frame' = Tell(n, IF S(n).in THEN "rx" ELSE "closed", Then(frame.e, "tx"))
  /\ sock' = DrainInput(n)
  /\ UNCHANGED << vars, net, scheduled >>

\* io_net_generic_callback and io_ssl_generic_callback, TX
TxPart(n) ==
  /\ \/ frame.at = "tx" /\ frame.net = n
     \/ Entered(n, "generic") /\ frame.e = { "TX" }
     \/ Entered(n, "ssl_generic") /\ frame.e = { "TX" }
  /\ drv' = NoWatch(drv, n, { "TX" })
  /\ frame' = Tell(n, "tx", "done")
  /\ scheduled' = [scheduled EXCEPT ![n] = "no"]
  /\ UNCHANGED << loopVars, fd, net, sock >>

\* io_net_udp_callback: one datagram, or a failed recvfrom; the switch
\* handles RX alone.
Udp(n) ==
  /\ Entered(n, "udp")
  /\ IF frame.e = { "RX" } /\ S(n).in
     THEN /\ frame' \in { Tell(n, "rx", "done"), Done }
          /\ sock' = DrainInput(n)
     ELSE frame' = Done /\ sock' = sock
  /\ UNCHANGED << vars, net, scheduled >>

-----------------------------------------------------------------------------
(* io_ssl_handshake_callback, which the driver calls or, with no events,    *)
(* io_ssl_connect_callback.  What mbedtls_ssl_handshake and                 *)
(* mbedtls_ssl_read return is up to mbedtls and the peer, within what the   *)
(* socket allows: mbedtls wants to read when it has read everything, and    *)
(* to write when it has filled the send buffer.                             *)

AtHandshake(n) ==
  \/ Entered(n, "ssl_handshake")
  \/ frame.at = "handshake" /\ frame.net = n

\* The events the handler was called with: 0 from io_ssl_connect_callback
HandshakeEvents == IF frame.at = "enter" THEN frame.e ELSE {}

\* The last flight is the peer's, or, in a handshake that is resumed, the
\* rest of one's own.
HandshakeDone(n) ==
  /\ AtHandshake(n)
  /\ S(n).st = "stream"
  /\ S(n).in \/ (frame.at = "enter" /\ S(n).out)
  /\ drv' = NoWatch(drv, n, { "TX" })
  /\ sock' \in { sock, DrainInput(n) }
  /\ net' = [net EXCEPT ![n].handshaking = FALSE, ![n].handler = "ssl_generic"]
  /\ frame' = [Tell(n, "handshaken", IF HandshakeEvents = {} THEN "done" ELSE "ssl_generic")
                 EXCEPT !.e = HandshakeEvents]
  /\ UNCHANGED << loopVars, fd, scheduled >>

HandshakeWants(n) ==
  /\ AtHandshake(n)
  /\ S(n).st = "stream"
  /\ \/ ~S(n).eof /\ sock' = DrainInput(n) /\ drv' = NoWatch(drv, n, { "TX" })
     \/ /\ \E sin \in { S(n).in, FALSE } :
             sock' = [sock EXCEPT ![fd[n]].in = sin, ![fd[n]].out = FALSE]
        /\ drv' = Watch(NoWatch(drv, n, { "TX" }), n, { "TX" })
  /\ frame' = Done
  /\ UNCHANGED << loopVars, fd, net, scheduled >>

HandshakeFails(n) ==
  /\ AtHandshake(n)
  /\ S(n).in \/ S(n).eof \/ S(n).st # "stream"
  /\ drv' = NoWatch(drv, n, { "TX" })
  /\ sock' \in { sock, DrainInput(n) }
  /\ frame' = Tell(n, "closed", "done")
  /\ UNCHANGED << loopVars, fd, net, scheduled >>

\* io_ssl_generic_callback, called by the driver or at the end of the
\* handshake
AtSslGeneric(n) ==
  /\ frame.net = n
  /\ Entered(n, "ssl_generic") \/ frame.at = "ssl_generic"

SslRx(n) ==
  /\ AtSslGeneric(n) /\ "RX" \in frame.e
  /\ \/ /\ S(n).in
        /\ frame' = Tell(n, "rx", Then(frame.e, "tx"))
        /\ sock' \in { sock, DrainInput(n) }
        /\ drv' = drv
     \/ /\ S(n).in \/ S(n).eof \/ S(n).st # "stream"
        /\ frame' = Tell(n, "closed", "done")
        /\ sock' = DrainInput(n)
        /\ drv' = drv
     \/ /\ S(n).st = "stream" /\ ~S(n).eof
        /\ frame' = IF "TX" \in frame.e THEN [frame EXCEPT !.at = "tx"] ELSE Done
        /\ sock' = DrainInput(n)
        /\ drv' = drv
     \/ /\ S(n).st = "stream"
        /\ frame' = Done
        /\ sock' = [sock EXCEPT ![fd[n]].in = FALSE, ![fd[n]].out = FALSE]
        /\ drv' = Watch(drv, n, { "TX" })
  /\ UNCHANGED << loopVars, fd, net, scheduled >>

\* Called at the end of a handshake that TX alone had resumed.
SslTxAfterHandshake(n) ==
  /\ frame.at = "ssl_generic" /\ frame.net = n /\ frame.e = { "TX" }
  /\ frame' = [frame EXCEPT !.at = "tx"]
  /\ UNCHANGED << vars, net, sock, scheduled >>

-----------------------------------------------------------------------------
Call(n) ==
  \/ io_net_bind(n) \/ io_net_connect(n) \/ io_net_udp(n)
  \/ io_net_close(n) \/ io_net_tx(n)

Answer ==
  \/ UserReturns \/ AllocCancelled
  \/ \E n \in Watchers : Allocated(n) \/ SslAllocated(n)

Handler(n) ==
  \/ Accept(n) \/ SslAccept(n) \/ Connect(n) \/ SslConnect(n)
  \/ GenericRx(n) \/ TxPart(n) \/ Udp(n)
  \/ HandshakeDone(n) \/ HandshakeWants(n) \/ HandshakeFails(n)
  \/ SslRx(n) \/ SslTxAfterHandshake(n)

Round == Dispatch \/ HandlerReturns \/ RoundOver

NetNext ==
  \/ Select \/ Round \/ Answer
  \/ \E n \in Watchers : Call(n) \/ Handler(n)
  \/ \E f \in Fds : Kernel(f)

NetSpec == NetInit /\ [][NetNext]_allVars

\* The program keeps calling io_driver_run, its callbacks return, and the
\* network resolves a connect and empties a send buffer at last.
FairNetSpec ==
  /\ NetSpec
  /\ WF_allVars(Select) /\ WF_allVars(Round) /\ WF_allVars(Answer)
  /\ WF_allVars(\E n \in Watchers : Handler(n))
  /\ \A f \in Fds :
       /\ WF_allVars(ConnectResolves(f) /\ UNCHANGED << vars, net, frame, scheduled >>)
       /\ WF_allVars(SendBufferDrains(f) /\ UNCHANGED << vars, net, frame, scheduled >>)

-----------------------------------------------------------------------------
\* The descriptors that are open are those of the live objects, one each,
\* and the one an accept callback holds: nothing is leaked by a refused or
\* a failed connection, and select is never handed a descriptor that was
\* closed, which would make every later select fail.
DescriptorsOwned ==
  LET live == { n \in Watchers : net[n].live }
      held == IF frame.newsd = 0 THEN {} ELSE { frame.newsd }
  IN /\ Fds \ Free = { fd[n] : n \in live } \cup held
     /\ \A m, n \in live : m # n => fd[m] # fd[n]
     /\ \A n \in live : fd[n] \notin held
     /\ \A n \in Watchers : Registered(drv, n) => n \in live

\* No handler goes on with an object the program has closed: not when it
\* closed it in another's callback of the same round, and not when it
\* closed it in the handler's own callback and returned stop.
NoUseAfterClose ==
  frame.at \in { "enter", "tx", "handshake", "ssl_generic" } => net[frame.net].live

\* A plain connection is reported closed only when the peer or the connect
\* failed it: readiness of a descriptor that the round has since seen closed
\* and opened again never reaches the new connection.
ClosedMeansGone ==
  frame.at = "user" /\ frame.ev = "closed" /\ net[frame.net].live
    => \/ net[frame.net].handler # "generic"
       \/ S(frame.net).st = "hungup"
       \/ S(frame.net).eof

\* "0, if tx event is scheduled" (io_net_tx): an established connection
\* listens to TX exactly while the caller of io_net_tx waits for the event.
TxScheduledIffTold ==
  \A n \in Watchers :
    net[n].handler \in { "generic", "ssl_generic" } =>
      ("TX" \in drv.event_listening[n] <=> scheduled[n] # "no")

\* A caller that was returned 0 and waits gets the tx event, or closes.
TxEventComes ==
  \A n \in Watchers : (scheduled[n] = "waiting") ~> (scheduled[n] # "waiting")

\* A connect that failed is reported closed, or the program closes it.
\* The memset of io_net_connect_callback hides the failure at first; it is
\* the TX watch it leaves that leads to a second, spurious success and from
\* there to a read that fails.
FailureReported ==
  \A n \in Clients :
    (net[n].live /\ S(n).st \in { "refused", "hungup" })
      ~> \/ ~net[n].live
         \/ frame.at = "user" /\ frame.net = n /\ frame.ev = "closed"

\* The part of its life an object is in
Life(n) ==
  IF ~net[n].live THEN "closed"
  ELSE IF net[n].handshaking THEN "handshaking"
  ELSE CASE net[n].handler \in { "accept", "ssl_accept" }   -> "listening"
         [] net[n].handler \in { "connect", "ssl_connect" } -> "connecting"
         [] net[n].handler = "udp"                          -> "datagram"
         [] OTHER                                           -> "open"

\* What ImplementsSocketPromise maps the variables of SocketPromise to
MappedLife == [n \in Watchers |-> Life(n)]

MappedTold ==
  IF frame.at = "user" THEN [ net |-> frame.net, ev |-> frame.ev ]
  ELSE [ net |-> Nobody, ev |-> "none" ]

\* io_net.c implements SocketPromise, but for the event by which it tells how
\* a connect ended.
SocketLives ==
  INSTANCE SocketPromise
    WITH Nets <- Watchers, Outcomes <- { ConnectTold }, life <- MappedLife, told <- MappedTold

ImplementsSocketPromise == SocketLives!Spec

\* "connect failed", "connect success" (io_net_connect_callback): with these
\* comments and io_net.h, that event is closed or connected.
HeaderLives ==
  INSTANCE SocketPromise
    WITH Nets <- Watchers, Outcomes <- { "connected", "closed" }, life <- MappedLife, told <- MappedTold

KeepsHeaderPromise == HeaderLives!Spec

\* "these should be set by user" (io_net.h) names rx_buf and rx_size alone:
\* the other fields of an open connection are set by io_net.c.
FieldsSet == \A n \in Watchers : net[n].live => net[n].ssl # "garbage"
-----------------------------------------------------------------------------
(* The inductive invariant: what the handlers and the program rely on when  *)
(* they take their turns with the objects.                                  *)

\* The points at which a handler has an object in its hands
Running == { "enter", "user", "tx", "handshake", "ssl_generic" }

\* The handler whose code goes on at `at'
Fits(at, handler) ==
  \/ at = "tx" /\ handler \in { "generic", "ssl_generic" }
  \/ at = "handshake" /\ handler = "ssl_handshake"
  \/ at = "ssl_generic" /\ handler = "ssl_generic"

\* The sockets a handler is given
SocketsOf(handler) ==
  CASE handler \in { "accept", "ssl_accept" }   -> { "listen" }
    [] handler \in { "connect", "ssl_connect" } -> { "connecting", "stream", "refused", "hungup" }
    [] handler = "udp"                          -> { "udp" }
    [] handler = "none"                         -> {}
    [] OTHER                                    -> { "stream", "hungup" }

\* The lists of the driver, as in IoDriver.tla
DriverSound == Consistent /\ (phase = "app" => drv.run_list = EmptyList)

\* An object has the handler of the socket it is on, and none once it is
\* closed; the socket an accept callback holds is a connection.
SocketsFit ==
  /\ \A n \in Watchers :
       /\ IF net[n].live THEN S(n).st \in SocketsOf(net[n].handler)
          ELSE net[n].handler = "none"
       /\ net[n].handshaking <=> net[n].handler = "ssl_handshake"
  /\ frame.newsd # 0 => sock[frame.newsd].st = "stream"

\* Every socket that is open is one object's or the accept callback's, and
\* the driver knows of no others.
SocketsHeld ==
  /\ \A n \in Watchers : net[n].live => fd[n] # frame.newsd
  /\ \A m, n \in Watchers : net[m].live /\ net[n].live /\ m # n => fd[m] # fd[n]
  /\ \A f \in Fds : sock[f].st # "free" =>
       f = frame.newsd \/ \E n \in Watchers : net[n].live /\ fd[n] = f
  /\ \A n \in Watchers : Registered(drv, n) => net[n].live

\* The handler that runs has taken its object off the round, and goes on
\* with it only if it is open and still its own.
FrameSound ==
  /\ frame.at \in Running => frame.net \in Watchers /\ frame.net \notin Linked(drv.run_list)
  /\ frame.closed => frame.at = "user" /\ frame.then # "handshake"
  /\ frame.at = "enter" => /\ net[frame.net].live /\ frame.by = net[frame.net].handler
                           /\ frame.e # {}
  /\ frame.at \in { "tx", "handshake", "ssl_generic" } =>
       net[frame.net].live /\ Fits(frame.at, net[frame.net].handler)
  /\ frame.at = "user" =>
       /\ frame.ev # "none"
       /\ frame.newsd = 0 => frame.then # "none"
       /\ frame.newsd = 0 /\ ~frame.closed /\ frame.then # "done" =>
            net[frame.net].live /\ Fits(frame.then, net[frame.net].handler)

\* What select said of the sockets whose turn is still to come is true of
\* them yet.
NewsIsTrue(n, e) ==
  /\ "RX" \in e => Readable(S(n))
  /\ "TX" \in e => S(n).st # "connecting"

ReadinessHolds ==
  \A n \in Linked(drv.run_list) : NewsIsTrue(n, { ev \in Events : fd[n] \in sets[ev] })

\* The events a handler is called with are true of its socket when it starts.
CallIsTrue == frame.at = "enter" => NewsIsTrue(frame.net, frame.e)

\* A tx event that is due is watched for, on an established connection.
TxDueIsWatched ==
  \A n \in Watchers :
    scheduled[n] # "no" =>
      /\ net[n].live /\ net[n].handler \in { "generic", "ssl_generic" }
      /\ "TX" \in drv.event_listening[n]

\* The inductive invariant of NetSpec: handlers, the program's calls, the
\* loop and the kernel leave each other what they need, in every order.
NetIInv ==
  /\ NetTypeOK
  /\ DriverSound
  /\ SocketsFit
  /\ SocketsHeld
  /\ FrameSound
  /\ ReadinessHolds
  /\ CallIsTrue
  /\ TxDueIsWatched
  /\ ClosedMeansGone

\* What is added to it where no connection has TLS
NoTls ==
  /\ \A n \in Watchers :
       net[n].ssl # "set"
         /\ net[n].handler \notin { "ssl_accept", "ssl_connect", "ssl_handshake", "ssl_generic" }
  /\ frame.by \notin { "ssl_accept", "ssl_connect", "ssl_handshake", "ssl_generic" }

\* The inductive invariant added to it there
PlainIInv == NoTls /\ TxScheduledIffTold
=============================================================================
