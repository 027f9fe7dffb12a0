# A verification development of io_driver

io_driver is a small C library for single-threaded network programs: a `select`
loop, a timer wheel, TCP/UDP/TLS sockets, DNS lookups, telnet connections, pipes
to child processes and a ring buffer. Everything runs in callbacks of one loop,
so there are no data races; what is hard is what callbacks may do to the
structures the loop is walking, what the kernel reports and when, and in which
order the program hears of it. This directory holds TLA+ models of that code,
the TLC runs that check them on small instances, and proofs checked by TLAPS that
remove the bounds of those instances: for the loop, the wheel, the ring, the lists
under them, the sockets, the pipes, the lookups and their messages, and the telnet reader.
Paths such as `io_net.c:271` are under `src/src/`.

## 1. Inventory

| Component | State | Operations | Uses / is called by |
|---|---|---|---|
| io_driver.c | `driver->watchers`, the local `run_list`, `event_listening` and `fd` of each watcher, the three fd_sets | `watcher_init`, `watch`, `no_watch`, `run` | calls every watcher's callback |
| generic_list.h | intrusive doubly linked lists | init, add_tail, del_init, splice_init, safe iteration | io_driver, soft_timer, test programs |
| soft_timer.c | tick counter, buckets, `tick` of each element, local `timeout_list` | add, del, drive | calls timeout callbacks; driven by io_timer |
| io_timer.c | a timerfd, a watcher, a SoftTimer | init, deinit, start, stop, restart | a watcher of io_driver |
| circ_buffer.c | memory, begin, end, data_size | init, put, get, peek, advance, reset | transmit queues of the test programs |
| io_net.c | `sd`, handler, TX/RX watch, `ssl`, `handshaking` of each `io_net_t` | bind, connect, udp, close, tx, udp_tx; nine driver callbacks | one user callback that is told of allocation, connection, handshake, data, room, end |
| io_dns.c | a UDP `io_net_t`, a timer, the query length | lookup | io_net, io_timer, dns_util; calls the lookup's callback |
| dns_util.c | a buffer, a read and a write index | build query, parse answer | io_dns |
| telnet_reader.c | state, subnegotiation buffer | init, feed | io_telnet; calls back for data and commands |
| io_telnet.c | an `io_net_t`, a reader | bind, connect, close, tx | io_net |
| io_pipe.c | two pipe ends with a watcher each, a child | init, close, tx | io_driver |
| io_ssl.c | superseded by the TLS part of io_net.c ("DO NOT USE THIS"), not built | | |
| test/ | manual programs (cli server and client, dns client, TLS client and server, pipe) | | show how the callbacks are meant to use the library |

What makes them correct, and hard to test:

* **io_driver** - a callback may register and unregister any watcher, itself
  included, while the loop takes `run_list` apart. A watcher has to be on exactly
  one list when it listens and on none otherwise; one unregistered in the round
  is not called in it; one registered in the round waits for the next; the round
  ends; and readiness that was reported for a descriptor is not delivered to a
  connection that was opened on the same number later in the round.
* **soft_timer** - callbacks stop and restart other timers, some of them already
  on `timeout_list`; the counter wraps; expiry is tested with `==`, so a timer
  that is missed once waits for a whole turn. Each timer fires exactly at its
  tick, once, unless it is stopped.
* **circ_buffer** - `begin = end` means empty or full; copies split at the end of
  the memory. The bytes come out as they went in; a call that fails changes nothing.
* **io_net** - a handler goes on after the user's callback unless the user said
  stop; the user may close there. Descriptors must be owned by exactly one
  object; the TX watch must be on exactly for those who were told to wait; the
  outcome of a connect must be told; data must come after the handshake.
* **io_dns** - answer and timeout race, possibly in one round, and the callback
  starts further lookups. Each lookup ends once, and leaves no socket or timer.
* **dns_util** - every length comes from the message. The parser must stay inside the
  datagram, end, and take exactly the addresses of a whole answer.
* **telnet** - chunks cut escapes and commands anywhere; the user may close in
  the middle of a chunk, and open the next connection on the same object there.
  The user of a connection gets that connection's data, in order, and no other.
* **io_pipe** - the loop blocks in `waitpid` when it takes a failed read for the
  end of the output; it may do so only for a child that has ended. No end of a
  pipe stays behind in the parent, and each end is told.
* **generic_list** - the callers' conditions (`event_listening`, `is_running`, a saved
  next element) have to be right for every list operation to find the rings as it
  expects them.

`PROJECT.json` lists the hazards one by one, each at its line, with the
properties aimed at it or the reason there is none.

## 2. Modules and how they correspond to the code

```
ListOps <- IoDriverOps <- IoDriver <- IoNet -- refines --> SocketPromise
   |                         |  |  <- IoPipe
   |                         |  |  <- IoDns -- INSTANCE --> SoftTimer
   |                         |  +-- refines --> EventLoop
   +- ListPointers <- IoDriverPointers
   |       +------ <- SoftTimerPointers
   |                         |
   +---------------- <- SoftTimer -- refines --> TimerPromise
CircBuffer -- refines --> BoundedFifo       DnsUtil      TelnetReader
```

| Module | Models | Notes |
|---|---|---|
| `ListOps` | the list operations of generic_list.h | a list is a sequence; that the operations on sequences are what the code does to its pointers is the subject of the next rows |
| `ListPointers` | generic_list.h | the same operations on a memory of `next` and `prev` fields, assignment by assignment |
| `IoDriverPointers`, `SoftTimerPointers` | io_driver.c and soft_timer.c with the memory of their lists | each action is an action of `IoDriver` or `SoftTimer` together with the calls of generic_list.h the code makes there. The calls read pointers only (which entry is next is `head->next`); `PointersAgree` compares them with the sequences. `walk` is `p` and `n` of `list_for_each_entry_safe` |
| `IoDriverOps` | the driver's data, `watch`, `no_watch`, the splice and the requeue | pure operators, so that they can be proved about one by one |
| `EventLoop` | what the comment of `io_driver_postselect` promises | abstract specification: no lists, descriptors or fd_sets |
| `IoDriver` | `io_driver_run` and the calls of programs | `phase` is the program counter: in the program, in postselect's loop, in a callback. Callbacks are any number of the driver's own calls |
| `TimerPromise` | what soft_timer promises | abstract: ticks to go per timer. `SoftTimer` instantiates it with the least numbers of ticks that last for the timeouts in milliseconds (`Covers`), which is what the rounding of `get_soft_tick_from_milsec` is held against |
| `SoftTimer` | soft_timer.c | `Drive`, one action per turn of the two loops of `timer_tick`, and callbacks that add and delete |
| `BoundedFifo` / `CircBuffer` | the queue promised / circ_buffer.c | `got` and `ret` are the results of the last call; `circ_buffer_deinit` frees the memory and leaves the indices as they are |
| `IoNet` | io_net.c on `IoDriver` | extends the driver: a watcher *is* an `io_net_t`. `frame` is the handler that runs and where it is; `sock` the kernel's sockets; `scheduled` records whom `io_net_tx` told, by returning 0, to wait for a tx event. Fields the code does not set keep what they were, or hold what the memory held that the object was allocated in since (`Unset`) |
| `SocketPromise` | what io_net.h promises | abstract: the part of its life each `io_net_t` is in, and who is told what; no descriptors, handlers or watchers. `Outcomes` are the events that tell how a connect ended. The header's are connected and closed (`KeepsHeaderPromise`, which the code does not keep: finding 1); the code's is `ConnectTold` (`ImplementsSocketPromise`, which holds and says that everything else is as promised) |
| `IoPipe` | io_pipe.c on `IoDriver` | an `io_pipe_t` is two watchers. `open` is the parent's descriptor table, `child` the processes, which run between any two steps; the frame `wait` is the loop blocked in `waitpid` |
| `IoDns` | io_dns.c and io_timer.c on `IoDriver` and an instance of `SoftTimer` | `phase` of the driver and `wheel` of the timer are two program counters; the timer's run is inside one driver callback |
| `DnsUtil` | dns_util.c | the query is built by operators on sequences of bytes; the parser is a read index that moves over the datagram, one action per header, part of a name and record. Records have any type, class and data; their names any of the forms of RFC 1035, with or without a pointer. The network cuts the message anywhere; strangers send any bytes there are (`Strays`, a constant: `MCDnsUtil` chooses some, the proofs take any) |
| `TelnetReader` | telnet_reader.c and the receiving loop of io_telnet.c | the peer, the chunking `read`, the reader's state machine, the user, who closes and opens connections on one object; `cb` is the callback the code would call and `conn` whose connection it is. Of the subnegotiation buffer, which nobody reads, there is how much is in use (`buf_ndx`). `Run` is what the machine will make of bytes that are still to come |
| `MC*` | instances for TLC | |
| `Lemmas`, `*Proofs` | see section 5 | |

A variant of a definition that is introduced by "A faulty variant" is never part
of a specification: it is a plausible mistake in that piece of code, kept next
to the definition it would replace, which shows that the property named for it
in `PROJECT.json` can fail.

Abstractions that run through all of them:

* A callback that runs user code is split into steps, with the calls it may make
  as actions between them. The kernel (packets, connects, send buffers) moves
  between any two steps; the program is one thread.
* Calls that fail without a trace (`socket`, `bind`, `pipe` or `fork` failing, `io_net_tx`
  and `io_pipe_tx` returning -1) are stuttering steps.
* `select` that times out or is interrupted changes nothing and is a stuttering step.
* The kernel hands out the lowest free descriptor, as POSIX requires, which makes
  the reuse of a number within a round the normal case (`IoNet`, `IoDns`, `IoPipe`); in
  `IoDriver` a watcher may take any descriptor no registered watcher has.
* mbedtls is a party that may, within what the socket allows, want to read, want
  to write, finish, deliver data or fail.
* A failed connect is either `refused` (the error waits for `getsockopt`, which
  clears it) or `hungup` (nothing to fetch, reads fail).

Assumptions about programs, from the ones under `test/`: an `io_net_t` or watcher
that is open is not opened again; a callback that closes the connection it is
called for returns `io_net_return_stop`; nobody closes a TLS client in the one
callback whose return value `io_ssl_connect_callback` ignores (its FIXME); data
is sent on connections that were established; the telnet peer sends
subnegotiations that fit the reader's buffer and hold no 255 ("could be buggy but
who cares"); an `io_pipe_t` that was closed is not written to, and SIGPIPE is ignored
(no program under `test/` does the latter); ring buffer calls move at least one byte.

## 3. Runs

| Run | Instance | What it shows |
|---|---|---|
| `MCIoDriver` | 3 watchers, 2 descriptors, RX and TX | `Consistent`, `PointersAgree`, `RoundEnds`, and `IoDriver` implements `EventLoop` |
| `MCSoftTimer` | 3 timers, 2 buckets, counter modulo 6, timeouts of 1, 2 and 4 ticks | `WheelConsistent`, `PointersAgree`, `NoneWaitsTooLong`, `TimersFire`, and `SoftTimer` implements `TimerPromise` |
| `MCCircBuffer` | a ring of 4, two byte values, calls of up to 5 bytes | `CircBuffer` implements `BoundedFifo` |
| `MCIoNetPlain` | listener, client, accepted connection, 2 descriptors, fair | `DescriptorsOwned`, `NoUseAfterClose`, `ClosedMeansGone`, `TxScheduledIffTold`, `FailureReported`, `TxEventComes`, and `IoNet` implements `SocketPromise` |
| `MCIoNetSsl` | TLS listener, TLS client, an object used for accepted and for UDP, 2 descriptors | `NetIInv`, and `IoNet` implements `SocketPromise` (data after the handshake, nothing after a close) |
| `MCIoNetConnect` | two plain clients | `KeepsHeaderPromise` is violated, finding 1 |
| `MCIoNetFields` | a listener and an accepted object in memory nobody cleared | `FieldsSet` is violated, finding 2 |
| `MCIoDns` | 2 lookups, 3 descriptors, 2 buckets, counter modulo 4, timeout of 2 ticks | `DnsIInv`, `ArmedWhilePending`, `SocketsOwned`, `ListsSurvive`, `LookupEnds` |
| `MCDnsUtil` | a buffer of 85, room for 2 addresses; names of 1, 4 and 68 characters (the last does not fit); answers of 0 to 2 records and one of 4, with a record of another class and a malformed one among them, cut at every length; from strangers, headers that announce 0, 1, 2 or 65535 records over either question, with up to 3 bytes behind it or a record of a true or false length, and short garbage | `ParserIInv`, `ReadsInside`, `ResultIsTheAnswer`, `ParseEnds` |
| `MCTelnetReader` | one plain byte, chunks of up to 3, at most 6 bytes under way, subnegotiation buffer of 1; one listener, one connection object | `TelnetIInv`, `DataInOrder`, `NothingHeldBack`, `DataArrives` |
| `MCIoPipe` | 2 `io_pipe_t`, 6 descriptors, up to 2 reads of output, one child that is written to | `PipeIInv`, `WaitsForTheEnding`, `PipesOwned`, `EndIsTold` |
| `MCIoPipeDriver` | one `io_pipe_t` in memory that was zero | violation, finding 3 |

Each module also has a type invariant, checked by one run, alone or as a conjunct of
the inductive invariant (`NetIInv`, `PipeIInv`, `DnsIInv`, `TelnetIInv`, `ParserIInv`).

**Why these bounds are enough.** Three watchers give one that is being called, one
still on `run_list` and one already back on `watchers`; two descriptors for three
watchers make reuse happen. Three timers give one that fires, one due in the same
tick and one of another tick in the same bucket; with two buckets and a counter
of 6 values a bucket holds timers of several turns and the counter wraps in every
long behaviour. A ring of 4 with calls of 5 bytes is filled exactly, overfilled,
and crossed at each position. Two descriptors for three sockets reach exhaustion,
refusal and reuse in the same round. A telnet wire of 6 bytes holds a whole
subnegotiation and data on either side of it; chunks of 1 to 3 cut it anywhere;
one object is enough for a connection to meet what the one before left in it. Two
pipes on six descriptors - four are needed at once, two kept - let one child's
descriptors be closed and reused by the next in the round that reported them ready.
Answers of two records have a
first one that leaves the index right or wrong for a second, the one of four
overflows two addresses, and cutting every message at every byte puts its end
inside each field once; the strangers' datagrams (`MCStrays`) hold pointers to the question and
to themselves, announce records that are not there and have lengths that go past the end, fall
short, or are right, so that the parser reaches each of its steps with bytes no server wrote.
`MaxWire` (bytes under way), `MaxLen` (bytes per call) and `MaxOut` (reads a child's
unread output can take) are the only bounds in guards; everything else is finite by its constants (`MCAnswers`, `MCStrays`,
`MCHosts` choose the messages). Where TLC's bound matters
most - number of watchers, timers, buckets, counter width, ring size - the proofs
of section 5 remove it.

Only `MCIoPipeDriver` switches deadlock checking off: the program stops at the fault.

## 4. Fairness

All fairness is weak.

* The loop and the handlers are straight-line code and callbacks return:
  `DispatchNext`, `CallbackReturn`, `DispatchDone` (`IoDriver`); `Round`, `Answer`,
  `Handler` (`IoNet`); `Dispatch`, `RoundOver`, `Callbacks` (`IoDns`); `Feed`,
  `UserContinues \/ UserStops` (`TelnetReader`); `Round` and each object's `Handler`
  (`IoPipe`); `Parse` (`DnsUtil`). User code can still make any
  number of calls before it returns; weak fairness does not order the two.
* `Select` (`IoNet`, `IoDns`, `IoPipe`) and `Read` (`TelnetReader`): every program calls
  `io_driver_run` in a `while(1)`.
* `TimerTick` (`SoftTimer`), `TimerfdExpires` (`IoDns`): the timerfd is periodic.
* `ConnectResolves`, `SendBufferDrains` (`IoNet`): TCP resolves a connect and
  drains or breaks a connection. These are assumptions on the network.
  `TxEventComes` rests on them: a peer that never reads
  would keep a sender waiting, which no code could help.
* A child that has closed its output exits (`IoPipe`): "a child program is supposed to
  exit immediately if it closes stdout" (`io_pipe.c:36`). Without it the loop stands in
  `waitpid` for good. Nothing is assumed of a child that has not closed it.
* No fairness on calls of the user, on data or on datagrams: `LookupEnds` holds
  although no answer ever need come.

## 5. What is proved

Eight modules hold proofs. `Lemmas` states what `ListAddTail`, `ListDelInit`,
`Tail` and concatenation do to the elements and to the absence of duplicates, what the
functions of generic_list.h do to a ring of pointers, what the calls of io_driver.c do
to the driver's lists (every component on the loop cites these), and that a set of numbers has a
lowest one, and above it the next (`LeastExists`, `NextLowest`): the kernel hands out
descriptors that way. From `LeastExists` it also gets induction over the members of a set of
numbers (`UpTo`), and with it that a function defined step by step exists (`StepsExist`): a
definition such as `f[k \in 0..n] == IF k = 0 THEN ... ELSE ... f[k - 1] ...` has the value
it describes.

| Theorem | Statement |
|---|---|
| `IoDriverProofs!TypeCorrect`, `ListsStayConsistent` | `Spec => []TypeOK`, `Spec => []Consistent` |
| `IoDriverProofs!Refinement` | `Spec => ImplementsPromise` |
| `SoftTimerProofs!TypeCorrect`, `WheelStaysConsistent` | `Spec => []TypeOK`, `Spec => []WheelConsistent` |
| `SoftTimerProofs!WaitsAreBounded` | `Spec => []NoneWaitsTooLong`, if no timeout is 0 and there is one |
| `SoftTimerProofs!Refinement` | `Spec => ImplementsPromise`, if no timeout is 0 |
| `IoDriverProofs!PointersStayInStep` | `PointerSpec => []PointersAgree` of the loop |
| `SoftTimerPointersProofs!PointersStayInStep` | `PointerSpec => []PointersAgree` of the wheel |
| `StreamProofs!TypeCorrect`, `IndicesStayInStep` | of the ring: `Spec => []TypeOK`, `Spec => []IndicesAgree` |
| `StreamProofs!Refinement` | of the ring: `Spec => ImplementsFifo` |
| `StreamProofs!TelnetInvariantHolds`, `TelnetTypeCorrect` | `TelnetSpec => []TelnetIInv`, `TelnetSpec => []TelnetTypeOK` |
| `StreamProofs!DataStaysInOrder`, `NothingIsHeldBack` | `TelnetSpec => []DataInOrder`, `TelnetSpec => []NothingHeldBack` |
| `IoNetProofs!NetInvariantHolds`, `NetTypeCorrect` | `NetSpec => []NetIInv`, `NetSpec => []NetTypeOK` |
| `IoNetProofs!DescriptorsStayOwned` | `NetSpec => []DescriptorsOwned` |
| `IoNetProofs!ClosedIsNotUsed`, `ClosedIsTrue` | `NetSpec => []NoUseAfterClose`, `NetSpec => []ClosedMeansGone` |
| `IoNetProofs!TxIsScheduledIffTold` | `NetSpec => []TxScheduledIffTold`, without TLS and with `ssl` fields cleared |
| `IoNetProofs!SocketRefinement` | `NetSpec => ImplementsSocketPromise`: with alloc_connection as the outcome of a connect |
| `IoPipeProofs!PipeInvariantHolds`, `PipeTypeCorrect` | `PipeSpec => []PipeIInv`, `PipeSpec => []PipeTypeOK` |
| `IoPipeProofs!PipesStayOwned` | `PipeSpec => []PipesOwned` |
| `IoPipeProofs!WaitsOnlyForTheEnding` | `PipeSpec => []WaitsForTheEnding` |
| `IoDnsProofs!WheelUsedAsMeant` | `DnsSpec => Wheel!Spec` |
| `IoDnsProofs!DnsInvariantHolds`, `DnsTypeCorrect` | `DnsSpec => []DnsIInv`, `DnsSpec => []DnsTypeOK` |
| `IoDnsProofs!ArmedStaysTrue`, `SocketsStayOwned`, `ListsSurviveLookups` | `DnsSpec => []ArmedWhilePending`, `[]SocketsOwned`, `[]ListsSurvive` |
| `IoDnsProofs!TimeoutsAreBounded` | a pending lookup's timer has at most its timeout left, in milliseconds and up to the part of a tick that is rounded up, if the timeout is not 0 |
| `IoDnsProofs!TimersKeepTheirPromise` | `DnsSpec` implements `TimerPromise` with the timers of lookups, if the timeout is not 0 |
| `IoDnsProofs!ParserInvariantHolds`, `ParserTypeCorrect` | `ParserSpec => []ParserIInv`, `ParserSpec => []ParserTypeOK` |
| `IoDnsProofs!ReadsStayInside`, `ResultStaysTheAnswer` | `ParserSpec => []ReadsInside`, `ParserSpec => []ResultIsTheAnswer` |

They hold for every set of watchers, events and descriptors, of sockets and their roles,
of pipes and children, of lookups; every number of timers and buckets, width of the counter and tick rate; every ring size, byte
type and call length; every stream a telnet peer sends, cut into chunks in any way; every
host, answer and stray datagram, every cut of it and every size of the buffer and of the
caller's room. The assumptions are those of the modules
(`SoftTimerAssumption`: positive parameters and timeouts shorter than the counter;
`CircBufferAssumption`: a positive size; `HeadsAssumption`, `AddressesAssumption`: list
heads and entries have different addresses) and, where named, `NoZeroTimeout`: a timer
added with a timeout of 0 is due at a tick that was already taken, so it waits for a
whole turn of the counter. `IoNetAssumption` and `IoPipeAssumption` say what the roles of
the objects are and that descriptors are numbers, of which a process has finitely many
where io_pipe.c needs four at once; `IoDnsAssumption` that the watchers are those of the
lookups and the timerfd's, and what the wheel assumes. `TelnetAssumption` says that the names
of the codes are not plain bytes too and that something can be read at a time;
`DnsUtilAssumption` that hosts and datagrams are bytes, that servers write names as labels that end
with an empty one or a pointer, and that the number of their records and the lengths of
their data fit 16 bits. A stranger's datagram need not be anything of the kind: it is any sequence of bytes. `TxIsScheduledIffTold` has the hypotheses
`SslNets = {}` and `FreshSsl = {"null"}`: with TLS the code tells nobody to wait (section
6), and with an `ssl` field of garbage it takes a plain connection for a TLS one
(finding 2).

The arguments:

* **IoDriver.** `Consistent` alone is not inductive: splicing `watchers` onto
  `run_list` would duplicate elements if `run_list` were not empty. `IInv` adds that
  it is empty outside a round, and that registered watchers have different
  descriptors. One lemma per list operation (`WatchKeepsLists`, `NoWatchKeepsLists`,
  `SpliceKeepsLists`, `RequeueKeepsLists`) carries `ListsConsistent`; the actions
  follow from them. For the refinement, the round still has for a watcher what
  the fd_sets hold for its descriptor as long as it is on `run_list` (`Offer`); that
  no other watcher's call disturbs it is where consistency and the distinct
  descriptors are needed.
* **SoftTimer.** `IInv` adds to `WheelConsistent` that `timeout_list` is in use during
  a tick only and that what the scan has passed does not expire now - the latter
  is what makes "moved all that are due" true when the scan ends. `Left` maps the
  counter to ticks to go; the main lemmas are arithmetic modulo the counter's
  width. `RoundedUp` says that the rounding to ticks covers the timeout in
  milliseconds and no tick more; with it the bound on `Left` in ticks (`TicksBounded`)
  becomes `NoneWaitsTooLong`.
* **Pointers.** The invariant is `PInv` (types and `PointersAgree`) beside the `IInv` of
  the component, which holds because every step of `PointerSpec` is one of `Spec`.
  `IInv` supplies what the list functions rely on: the rings have no entry in common
  and no entry twice. `AddTailAppends`, `DelInitRemoves`, `UnlinkRemoves` and
  `SpliceMoves` say what one call does to the ring it is meant for, `RingUntouched`
  that every other ring stays. `list_del_init` on the first entry of `run_list` needs
  that the entry `head->next` names is the head of the sequence, which is `RingIs`.
  For the wheel the rings of all heads are taken together (`RingsAre`, `Apart`), and
  the walk over a bucket keeps standing on the entry it will look at next although
  `list_del` has set the fields of the one before to NULL.
* **CircBuffer.** `IndicesAgree` is added to the types. The lemmas `StoredValue` and
  `CopiedValue` say what the one or two `memcpy` calls do to the memory seen as a
  ring; from them `PutAppends` and `DropTakes` say what they do to the contents.

* **IoNet.** What goes wrong here goes wrong between two handlers, so the invariant says
  what is still true when the next one starts. `SocketsFit`: the socket of an object is
  one its handler can be given (`SocketsOf`), and an object has a handler exactly while
  it is live. `SocketsHeld`: no two live objects have one descriptor, and one that is
  open is a live object's or the accept callback's. `ReadinessHolds`: what select said of the watchers
  whose turn is still to come is true of their sockets yet; a descriptor closed and
  opened again in an earlier callback belongs to an object that is not on `run_list`, which is
  where the lists of the driver come in. The frame's part says of the handler that runs
  that its object is live and its watcher has had its turn. With it come two kinds of steps: those
  that change one open object (`Changes`) and those that open one (`Opens`); a lemma for each
  says what the invariant gains, and every handler is one of the two or the return of the user's
  callback. `NoUseAfterClose`, `ClosedMeansGone` and `DescriptorsOwned` are read off the
  invariant; `TxScheduledIffTold` has an invariant of its own on top, `PlainIInv`; the refinement
  maps each step to one of `SocketPromise` or a stutter, and uses the invariant for
  what an object's handler says of the part of its life it is in.
* **IoPipe.** `PipeIInv` is of the same kind: the ends that are open are those of live
  objects and all different (`PipesOwned`, `EndsApart`), a live object is watched for output and
  nobody else is (`WatchedWhileLive`), and what select said of a child whose turn is still
  to come holds: it has written, or never will again (`NewsHolds`). That is why a read that
  fails means the end, which is `WaitsForTheEnding`.
* **IoDns.** The wheel is an instance of `SoftTimer`, and every step of `DnsNext` is a step
  of it or leaves it alone; so its theorems hold here (`TheoremsApply`), its invariant,
  the bound on a wait and `TimerPromise` with it. `IoDnsProofs` has them as
  `INSTANCE SoftTimerProofs`; the lemmas `Same...` say that the two instances define the
  same. Beside the wheel's, `DnsIInv` says what a lookup owns (`ArmedWhilePending`,
  `SocketsOwned`) and who may be called: `CalledIsPending`, a watcher called for a datagram is
  a pending lookup's, since it was registered when it was called and nothing runs in between;
  `CallbacksNest`, the tick and the lookup's callback are inside a callback of the loop, so that
  what they start or end finds neither loop between two assignments. A timeout ends a
  lookup that is pending since the timer it fires was running (`RunningAfterExpire`).
* **TelnetReader.** `DataInOrder` alone says nothing of the bytes that have not been fed, so
  a step that feeds one cannot be seen to keep it. `TelnetIInv` says what the machine will
  make of them: run from the state it is in over the rest of the chunk and the wire behind
  it, it tells the user exactly the data still owed and stands at its start in the end (`Run`,
  `Delivers`). How the bytes are cut into chunks does not show in that, which is why it
  holds for every cut. Bytes sent lengthen the run by one that goes from start to start
  (`SubnegotiationDelivers` and its like), a byte fed takes off its first step, and a new
  connection begins with an empty run. The run of a closed connection's rest of a chunk is
  not spoken of: `LoopStops` throws that rest away, and `conn` tells the two apart.
* **DnsUtil.** `ReadsInside` needs only the lengths the code checks. For `ResultIsTheAnswer`,
  `ParserIInv` says where the parser stands in a server's answer (`InRecord`): where a label of the
  next record's name starts, or right behind the name, with the addresses of the records
  before. What arrived is a prefix of what was written (`Arrived`, `Written`), so that a
  field the parser finds whole is the field that was meant (`RecordTells`); a name the
  parser goes through ends where the name in the record ends, whichever form it has; and a
  cut answer runs out before the last record does, since that one reaches to the end of
  the message.

**Only model-checked:** every
liveness property (`RoundEnds`, `TimersFire`, `FailureReported`, `TxEventComes`,
`LookupEnds`, `ParseEnds`, `DataArrives`, `EndIsTold`), since liveness under fairness is out of the prover's
reach. `IInv` of each proved module was checked by TLC before it was proved.

## 6. What the checks found

1. `io_net_connect_callback` sets the event to connected or closed and then zeroes
   it (`io_net.c:356`): clients are told `alloc_connection`, and `SocketPromise` with the header's
   outcomes (`KeepsHeaderPromise`) is not kept. The same happens in
   `io_ssl_connect_callback` (`io_net.c:600`). `FailureReported` shows the other side:
   a failed connect is reported at last, through the TX watch that is left on, a
   second call whose `getsockopt` finds no error, and a read that fails.
2. Accepted plain connections and UDP sockets keep whatever their `ssl` field held
   (`io_net.c:311-313`, `io_net.c:832-834`), which `io_net_tx` and `io_net_close` test.
3. `io_pipe_init` never sets `p->driver` (`io_pipe.c:151`), with which `io_pipe_tx`
   registers for TX when the pipe to the child is full. `test/pipe_test.c` does not set
   it either, so that its first full pipe links the watcher to a list at address 0.

The other runs assume what avoids these: `ssl` fields cleared (`FreshSsl`), a driver the
program sets itself (`FreshDriver`).

Two more places where code and comment differ are not worth a run of their own. On TLS
connections `io_net_tx` schedules the tx event and returns the negative
`MBEDTLS_ERR_SSL_WANT_WRITE`, not the 0 the comment at `io_net.c:759` names; the model
registers for TX there and counts nobody as told, so that `TxScheduledIffTold` and
`TxEventComes` are about plain connections. A timer added with a timeout of 0 fires when the 32-bit counter
comes round (`soft_timer.c:74`); the inputs of `MCSoftTimer` are positive.

## 7. Not modelled

* Who sent a datagram: neither the code nor the models look at it, nor at the id of
  an answer. `IoDns` treats each datagram as one that ends the lookup, whatever it
  holds, as the code does; `DnsUtil` says what the lookup is told.
* `io_pipe.c`: SIGPIPE, which the code neither blocks nor ignores; what becomes of a child
  whose pipe was closed before it ended (nobody waits for it, so it stays a zombie).
* `io_ssl.c`, `io_ssl.h`: not built. `common_def.h`: macros.
* The setup of TLS contexts (`io_net.c:34-213`), the inside of mbedtls: bytes that
  mbedtls has decrypted and holds back are not visible to the model.
* Time: the models count ticks; how late a tick is, and ticks lost because
  `io_timer_tick_callback` ignores how often the timerfd expired, are outside.
* generic_list.h: replace, move, cut, rotate, hash lists, the other splices and walks,
  which no compiled source calls. `io_timer_deinit`, likewise. `io_net_udp_tx` and
  `io_telnet_tx`: a call of `sendto`, a call of `io_net_tx`.
* `telnet.h`: names of options; the reader tells apart the classes of bytes of `Codes`.
* The programs under `test/`.

## 8. Plan

Done, in this order: the loop and its promise, with proofs; the timer wheel, with
proofs; the ring, with proofs; sockets on the loop; lookups on loop and wheel; the
telnet reader; the messages of lookups; child processes on the loop; the pointers under
the loop and the wheel, with proofs; what the sockets promise, as a refinement; the
telnet connection with its objects used again; the sockets, with proofs; the pipes, with
proofs; the lookups, with proofs; the proofs about the telnet reader and the messages
of lookups.

Next: the transmit path of `test/cli_server.c`, `CircBuffer` and `io_net_tx` together.

The runs are kept few: where a new module needs one, runs that differ in constants
only are merged first, as the safety and liveness runs of plain sockets were.
