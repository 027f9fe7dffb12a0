-------------------------- MODULE IoDriverPointers --------------------------
(***************************************************************************)
(* The select loop of IoDriver.tla with the pointers its lists are made    *)
(* of.  Each action is the action of IoDriver.tla together with the calls  *)
(* of generic_list.h the code makes in it; the calls see the pointers      *)
(* alone, and PointersAgree says that what they leave in memory is the     *)
(* lists IoDriver.tla speaks of.                                           *)
(***************************************************************************)
EXTENDS IoDriver, ListPointers

CONSTANTS
  watchers_head,  \* the address of driver->watchers
  run_head        \* the address of the local run_list of postselect

ASSUME HeadsAssumption ==
  /\ watchers_head \notin Watchers
  /\ run_head \notin Watchers
  /\ watchers_head # run_head

VARIABLE mem  \* the struct list_heads

pointerVars == << drv, fd, sets, phase, call, mem >>

Nodes == Watchers \cup { watchers_head, run_head }

\* io_driver_init, and io_driver_watcher_init on every watcher; run_list
\* has an address of its own only during a round.
PointerInit ==
  /\ Init
  /\ mem = [ next |-> [x \in Nodes |-> x], prev |-> [x \in Nodes |-> x] ]

WatcherInitPointers(w, f) == WatcherInit(w, f) /\ mem' = INIT_LIST_HEAD(mem, w)

\* io_driver_watch links the watcher if it listened to nothing before.
WatchPointers(w, ev) ==
  /\ DoWatch(w, ev)
  /\ mem' = IF ~Registered(drv, w) /\ ev # {} THEN list_add_tail(mem, w, watchers_head)
            ELSE mem

\* io_driver_no_watch unlinks it if it listens to nothing afterwards.
NoWatchPointers(w, ev) ==
  /\ DoNoWatch(w, ev)
  /\ mem' = IF Registered(drv, w) /\ drv.event_listening[w] \subseteq ev
            THEN list_del_init(mem, w) ELSE mem

\* io_driver_postselect up to its loop
SelectReadyPointers ==
  /\ SelectReady
  /\ mem' = list_splice_init(INIT_LIST_HEAD(mem, run_head), watchers_head, run_head)

\* One turn of its loop: the watcher is the one run_list's head points to.
DispatchNextPointers ==
  /\ DispatchNext
  /\ LET w == list_first_entry(mem, run_head)
     IN mem' = list_add_tail(list_del_init(mem, w), w, watchers_head)

CallbackReturnPointers == CallbackReturn /\ UNCHANGED mem

DispatchDonePointers == DispatchDone /\ UNCHANGED mem

PointerNext ==
  \/ \E w \in Watchers, f \in Fds : WatcherInitPointers(w, f)
  \/ \E w \in Watchers, ev \in SUBSET Events : WatchPointers(w, ev) \/ NoWatchPointers(w, ev)
  \/ SelectReadyPointers
  \/ DispatchNextPointers \/ CallbackReturnPointers \/ DispatchDonePointers

PointerSpec == PointerInit /\ [][PointerNext]_pointerVars

FairPointerSpec ==
  /\ PointerSpec
  /\ WF_pointerVars(DispatchNextPointers)
  /\ WF_pointerVars(CallbackReturnPointers)
  /\ WF_pointerVars(DispatchDonePointers)

-----------------------------------------------------------------------------
\* The rings in memory are the driver's lists, and a watcher that listens to
\* nothing points at itself: every list_add_tail of the code finds an entry
\* that is alone, and every list_del_init one that is linked where the code
\* means it, whatever the callbacks register and unregister while run_list,
\* a head on postselect's stack, is taken apart.
PointersAgree ==
  /\ RingIs(mem, watchers_head, drv.watchers)
  /\ RingIs(mem, run_head, drv.run_list)
  /\ \A w \in Watchers : ~Registered(drv, w) => Alone(mem, w)
=============================================================================
