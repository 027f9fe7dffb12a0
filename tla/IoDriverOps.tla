---------------------------- MODULE IoDriverOps ----------------------------
(***************************************************************************)
(* The calls of io_driver.c that change the driver's lists, as operators   *)
(* on the driver's state, a record of                                      *)
(*                                                                         *)
(*   watchers        - the list driver->watchers                           *)
(*   run_list        - the local list of io_driver_postselect              *)
(*   event_listening - per watcher, the events it listens to               *)
(*                                                                         *)
(* They are operators and not actions because callbacks chain several of   *)
(* them: io_net_connect_callback, for one, calls io_driver_no_watch and    *)
(* io_driver_watch in a row.                                               *)
(***************************************************************************)
EXTENDS ListOps

CONSTANTS
  Watchers,  \* the io_driver_watcher_t objects of the program
  Events     \* the events a watcher may listen to: RX, TX, EX

DriverType ==
  [ watchers : Seq(Watchers), run_list : Seq(Watchers),
    event_listening : [Watchers -> SUBSET Events] ]

\* A faulty variant: io_driver_watcher_init is not called.
DriverUninitialised ==
  [ watchers        |-> EmptyList,
    run_list        |-> EmptyList,
    event_listening |-> [w \in Watchers |-> {"garbage"}] ]

\* io_driver_init, and io_driver_watcher_init on every watcher
DriverInit ==
  [ watchers        |-> EmptyList,
    run_list        |-> EmptyList,
    event_listening |-> [w \in Watchers |-> {}] ]

Registered(d, w) == d.event_listening[w] # {}

-----------------------------------------------------------------------------
Listen(d, w, ev) == [d.event_listening EXCEPT ![w] = @ \cup ev]
Ignore(d, w, ev) == [d.event_listening EXCEPT ![w] = @ \ ev]

\* A faulty variant: a new watcher joins the list that is being dispatched.
WatchJoinsRunList(d, w, ev) ==
  LET is_new == d.event_listening[w] = {} /\ ev # {}
      joins  == is_new /\ d.run_list # EmptyList
  IN [ watchers        |-> IF is_new /\ ~joins THEN ListAddTail(d.watchers, w) ELSE d.watchers,
       run_list        |-> IF joins THEN ListAddTail(d.run_list, w) ELSE d.run_list,
       event_listening |-> Listen(d, w, ev) ]

\* io_driver_watch: the events are added; the watcher is linked when it
\* listened to nothing before.
Watch(d, w, ev) ==
  LET is_new == d.event_listening[w] = {} /\ ev # {} IN
  [ watchers        |-> IF is_new THEN ListAddTail(d.watchers, w) ELSE d.watchers,
    run_list        |-> d.run_list,
    event_listening |-> Listen(d, w, ev) ]

-----------------------------------------------------------------------------
\* A faulty variant: the watcher is only taken off driver->watchers, as if
\* postselect had no list of its own.
NoWatchKeepsRunList(d, w, ev) ==
  LET unlink == d.event_listening[w] # {} /\ d.event_listening[w] \subseteq ev IN
  [ watchers        |-> IF unlink THEN ListDelInit(d.watchers, w) ELSE d.watchers,
    run_list        |-> d.run_list,
    event_listening |-> Ignore(d, w, ev) ]

\* io_driver_no_watch: the events are removed; when none is left the
\* watcher is unlinked from whichever of the two lists it is on.
NoWatch(d, w, ev) ==
  LET unlink == d.event_listening[w] # {} /\ d.event_listening[w] \subseteq ev IN
  [ watchers        |-> IF unlink THEN ListDelInit(d.watchers, w) ELSE d.watchers,
    run_list        |-> IF unlink THEN ListDelInit(d.run_list, w) ELSE d.run_list,
    event_listening |-> Ignore(d, w, ev) ]

-----------------------------------------------------------------------------
\* list_splice_init(&driver->watchers, &run_list), run_list being empty
Splice(d) ==
  [ watchers        |-> EmptyList,
    run_list        |-> d.watchers,
    event_listening |-> d.event_listening ]

\* One turn of postselect's loop takes the first watcher of run_list back
\* to the tail of driver->watchers before it calls it.
Requeue(d) ==
  [ watchers        |-> ListAddTail(d.watchers, Head(d.run_list)),
    run_list        |-> Tail(d.run_list),
    event_listening |-> d.event_listening ]

-----------------------------------------------------------------------------
\* What the list manipulation has to preserve: a watcher is linked exactly
\* when it listens to something, on one of the two lists and only once.
ListsConsistent(d) ==
  /\ NoDuplicates(d.watchers)
  /\ NoDuplicates(d.run_list)
  /\ Linked(d.watchers) \cap Linked(d.run_list) = {}
  /\ \A w \in Watchers :
       Registered(d, w) <=> w \in Linked(d.watchers) \cup Linked(d.run_list)
=============================================================================
