------------------------------ MODULE IoDriver ------------------------------
(***************************************************************************)
(* io_driver.c: the select loop every other component runs on.  The        *)
(* program calls io_driver_run for ever; each call asks the kernel which   *)
(* descriptors are ready and calls the callbacks of their watchers.  The   *)
(* callbacks, and the program before it enters the loop, register and      *)
(* unregister watchers and bind them to descriptors as they please: here   *)
(* they do so one call at a time, in any order and number.                 *)
(*                                                                         *)
(* The kernel hands out the lowest free descriptor, so a descriptor that   *)
(* was closed is soon another connection's: WatcherInit may give a watcher *)
(* any descriptor no registered watcher has.                               *)
(***************************************************************************)
EXTENDS IoDriverOps

CONSTANTS
  Fds        \* the descriptors

VARIABLES
  drv,       \* the driver's lists and the watchers' event_listening
  fd,        \* [Watchers -> Fds]: watcher->fd
  sets,      \* [Events -> SUBSET Fds]: rset, wset and eset after select
  phase,     \* "app": outside postselect; "dispatch": in its loop;
             \* "callback": in a callback it called
  call       \* the events passed to the callback that is running, per watcher

vars == << drv, fd, sets, phase, call >>

NoSets == [ev \in Events |-> {}]
NoCall == [w \in Watchers |-> {}]

TypeOK ==
  /\ drv \in DriverType
  /\ fd \in [Watchers -> Fds]
  /\ sets \in [Events -> SUBSET Fds]
  /\ phase \in {"app", "dispatch", "callback"}
  /\ call \in [Watchers -> SUBSET Events]

-----------------------------------------------------------------------------
Init ==
  /\ drv = DriverInit
  /\ fd \in [Watchers -> Fds]
  /\ sets = NoSets
  /\ phase = "app"
  /\ call = NoCall

\* User code runs between two rounds and inside the callbacks.
UserCode == phase \in {"app", "callback"}

\* f is not the descriptor of a registered watcher other than w.
FreeFor(w, f) == \A v \in Watchers \ {w} : Registered(drv, v) => fd[v] # f

\* io_driver_watcher_init on a watcher that listens to nothing: a new
\* descriptor for it, open or reopened
WatcherInit(w, f) ==
  /\ UserCode
  /\ ~Registered(drv, w)
  /\ FreeFor(w, f)
  /\ fd' = [fd EXCEPT ![w] = f]
  /\ UNCHANGED << drv, sets, phase, call >>

DoWatch(w, ev) ==
  /\ UserCode
  /\ FreeFor(w, fd[w])
  /\ drv' = Watch(drv, w, ev)
  /\ UNCHANGED << fd, sets, phase, call >>

DoNoWatch(w, ev) ==
  /\ UserCode
  /\ drv' = NoWatch(drv, w, ev)
  /\ UNCHANGED << fd, sets, phase, call >>

-----------------------------------------------------------------------------
\* io_driver_preselect: the descriptors put into the set of each event
Asked(ev) ==
  { fd[w] : w \in { v \in Linked(drv.watchers) : ev \in drv.event_listening[v] } }

\* io_driver_run as far as the call of postselect.  When select times out
\* or fails nothing changes, so those returns are stuttering steps.
SelectReady ==
  /\ phase = "app"
  /\ sets' \in [Events -> SUBSET Fds]
  /\ sets' # NoSets
  /\ \A ev \in Events : sets'[ev] \subseteq Asked(ev)
  /\ drv' = Splice(drv)
  /\ phase' = "dispatch"
  /\ UNCHANGED << fd, call >>

\* A faulty variant: what the watcher listens to by now is not looked at.
ReadyIgnoringListening(w) == { ev \in Events : fd[w] \in sets[ev] }

\* The events e computed for a watcher, from what it listens to now and
\* from what select reported for the descriptor it has now.
Ready(w) == { ev \in drv.event_listening[w] : fd[w] \in sets[ev] }

\* One turn of the loop of io_driver_postselect, up to the callback.
DispatchNext ==
  /\ phase = "dispatch"
  /\ drv.run_list # EmptyList
  /\ LET w == Head(drv.run_list)
         e == Ready(w)
     IN /\ phase' = IF e # {} THEN "callback" ELSE "dispatch"
        /\ call' = IF e # {} THEN [call EXCEPT ![w] = e] ELSE call
  /\ drv' = Requeue(drv)
  /\ UNCHANGED << fd, sets >>

CallbackReturn ==
  /\ phase = "callback"
  /\ phase' = "dispatch"
  /\ call' = NoCall
  /\ UNCHANGED << drv, fd, sets >>

\* run_list is empty: postselect and io_driver_run return.
DispatchDone ==
  /\ phase = "dispatch"
  /\ drv.run_list = EmptyList
  /\ phase' = "app"
  /\ sets' = NoSets
  /\ UNCHANGED << drv, fd, call >>

-----------------------------------------------------------------------------
UserStep ==
  \/ \E w \in Watchers, f \in Fds : WatcherInit(w, f)
  \/ \E w \in Watchers, ev \in SUBSET Events : DoWatch(w, ev)
  \/ \E w \in Watchers, ev \in SUBSET Events : DoNoWatch(w, ev)

Loop == DispatchNext \/ CallbackReturn \/ DispatchDone

Next == UserStep \/ SelectReady \/ Loop

Spec == Init /\ [][Next]_vars

\* The loop is straight-line code and a callback returns; nothing makes the
\* kernel report a descriptor.
FairSpec == Spec /\ WF_vars(DispatchNext) /\ WF_vars(CallbackReturn) /\ WF_vars(DispatchDone)

-----------------------------------------------------------------------------
\* A watcher is linked on exactly one of the two lists when it listens to
\* something and on none otherwise, whatever the callbacks register and
\* unregister while io_driver_postselect takes run_list apart: the "list
\* structure consistency" of its comment.
Consistent == ListsConsistent(drv)

\* Registered watchers have different descriptors, so that what select
\* reports for a descriptor is one watcher's.
DistinctFds ==
  \A v, w \in Watchers :
    Registered(drv, v) /\ Registered(drv, w) /\ v # w => fd[v] # fd[w]

\* The inductive invariant: outside a round, run_list is empty.
IInv ==
  /\ TypeOK
  /\ Consistent
  /\ DistinctFds
  /\ phase = "app" => drv.run_list = EmptyList

\* The round comes to an end whatever the callbacks register: a watcher
\* that registers again and again in its own callback cannot keep
\* postselect in its loop, since nothing is ever added to run_list.
RoundEnds == (phase = "dispatch") ~> (phase = "app")

-----------------------------------------------------------------------------
\* What the round still has for a watcher: what select reported for it, as
\* long as it waits on run_list.
Offer ==
  [ w \in Watchers |->
      IF w \in Linked(drv.run_list) THEN { ev \in Events : fd[w] \in sets[ev] } ELSE {} ]

Promise == INSTANCE EventLoop
             WITH listening <- drv.event_listening, offer <- Offer

\* io_driver.c implements EventLoop: lists, descriptors and fd_sets give
\* exactly the calls the comment of io_driver_postselect asks for.
ImplementsPromise == Promise!Spec
=============================================================================
