---------------------------- MODULE IoDriverProofs ----------------------------
(***************************************************************************)
(* The event loop for every set of watchers, descriptors and events:       *)
(* callbacks cannot break its lists, neither the sequences nor the rings   *)
(* of pointers they stand for, and io_driver.c implements EventLoop.       *)
(***************************************************************************)
EXTENDS IoDriverPointers, Lemmas

-----------------------------------------------------------------------------
(* The invariant.                                                          *)

\* Every state the program can be in satisfies the inductive invariant.
THEOREM InvariantHolds == Spec => []IInv
<1>1. Init => IInv
  <2> SUFFICES ASSUME Init PROVE IInv
    OBVIOUS
  <2>1. EmptyList \in Seq(Watchers) /\ NoDuplicates(EmptyList) /\ Linked(EmptyList) = {}
    BY EmptyListProperties
  <2>2. TypeOK
    BY <2>1 DEF Init, TypeOK, DriverInit, DriverType, NoSets, NoCall
  <2>3. Consistent
    BY <2>1 DEF Init, DriverInit, Consistent, ListsConsistent, Registered
  <2>4. DistinctFds
    BY DEF Init, DriverInit, DistinctFds, Registered
  <2> QED BY <2>2, <2>3, <2>4 DEF Init, DriverInit, IInv
<1>2. IInv /\ [Next]_vars => IInv'
  <2> SUFFICES ASSUME IInv, [Next]_vars PROVE IInv'
    OBVIOUS
  <2> USE DEF IInv
  <2>0. drv \in DriverType /\ ListsConsistent(drv)
    BY DEF TypeOK, Consistent
  <2>1. ASSUME NEW w \in Watchers, NEW f \in Fds, WatcherInit(w, f) PROVE IInv'
    <3>1. TypeOK' /\ Consistent' /\ (phase' = "app" => drv'.run_list = EmptyList)
      BY <2>1 DEF WatcherInit, TypeOK, Consistent
    <3>2. DistinctFds'
      BY <2>1 DEF WatcherInit, FreeFor, DistinctFds, TypeOK
    <3> QED BY <3>1, <3>2
  <2>2. ASSUME NEW w \in Watchers, NEW ev \in SUBSET Events, DoWatch(w, ev) PROVE IInv'
    <3>1. /\ drv' \in DriverType /\ ListsConsistent(drv')
          /\ drv'.run_list = drv.run_list
          /\ drv'.event_listening = [drv.event_listening EXCEPT ![w] = @ \cup ev]
      BY <2>0, <2>2, WatchKeepsLists DEF DoWatch
    <3>2. DistinctFds'
      BY <3>1, <2>0, <2>2 DEF DoWatch, FreeFor, DistinctFds, Registered, DriverType
    <3> QED BY <3>1, <3>2, <2>2 DEF DoWatch, TypeOK, Consistent
  <2>3. ASSUME NEW w \in Watchers, NEW ev \in SUBSET Events, DoNoWatch(w, ev) PROVE IInv'
    <3>1. /\ drv' \in DriverType /\ ListsConsistent(drv')
          /\ drv.run_list = EmptyList => drv'.run_list = EmptyList
          /\ drv'.event_listening = [drv.event_listening EXCEPT ![w] = @ \ ev]
      <4>1. drv' = NoWatch(drv, w, ev)
        BY <2>3 DEF DoNoWatch
      <4> QED BY <4>1, <2>0, NoWatchKeepsLists
    <3>2. DistinctFds'
      BY <3>1, <2>0, <2>3 DEF DoNoWatch, DistinctFds, Registered, DriverType
    <3> QED BY <3>1, <3>2, <2>3 DEF DoNoWatch, TypeOK, Consistent
  <2>4. CASE SelectReady
    <3>1. /\ drv' \in DriverType /\ ListsConsistent(drv')
          /\ drv'.event_listening = drv.event_listening
      BY <2>0, <2>4, SpliceKeepsLists DEF SelectReady
    <3> QED BY <3>1, <2>4 DEF SelectReady, TypeOK, Consistent, DistinctFds, Registered
  <2>5. CASE DispatchNext
    <3>1. /\ drv' \in DriverType /\ ListsConsistent(drv')
          /\ drv'.event_listening = drv.event_listening
          /\ Head(drv.run_list) \in Watchers
      BY <2>0, <2>5, RequeueKeepsLists DEF DispatchNext
    <3>2. Ready(Head(drv.run_list)) \in SUBSET Events
      BY <3>1, <2>0 DEF Ready, DriverType
    <3>3. phase' \in {"callback", "dispatch"} /\ call' \in [Watchers -> SUBSET Events]
      BY <3>1, <3>2, <2>5 DEF DispatchNext, TypeOK
    <3>4. TypeOK'
      BY <3>1, <3>3, <2>5 DEF DispatchNext, TypeOK
    <3>5. Consistent' /\ DistinctFds'
      BY <3>1, <2>5 DEF DispatchNext, Consistent, DistinctFds, Registered
    <3> QED BY <3>3, <3>4, <3>5
  <2>6. CASE CallbackReturn
    BY <2>6 DEF CallbackReturn, TypeOK, Consistent, DistinctFds, NoCall
  <2>7. CASE DispatchDone
    BY <2>7 DEF DispatchDone, TypeOK, Consistent, DistinctFds, NoSets
  <2>8. CASE UNCHANGED vars
    BY <2>8 DEF vars, TypeOK, Consistent, DistinctFds
  <2> QED BY <2>1, <2>2, <2>3, <2>4, <2>5, <2>6, <2>7, <2>8 DEF Next, UserStep, Loop
<1> QED BY <1>1, <1>2, PTL DEF Spec

\* The variables of io_driver.c keep their types.
THEOREM TypeCorrect == Spec => []TypeOK
<1>1. IInv => TypeOK
  BY DEF IInv
<1> QED BY <1>1, InvariantHolds, PTL

\* The lists of the driver stay consistent whatever the callbacks of a round
\* register, unregister and bind anew (the comment of
\* io_driver_postselect, "list structure consistency").
THEOREM ListsStayConsistent == Spec => []Consistent
<1>1. IInv => Consistent
  BY DEF IInv
<1> QED BY <1>1, InvariantHolds, PTL

-----------------------------------------------------------------------------
(* The refinement.                                                         *)

\* What a round has for a watcher, in a state of the invariant.
LEMMA OfferOf ==
  ASSUME NEW w \in Watchers
  PROVE  Offer[w] = IF w \in Linked(drv.run_list)
                      THEN { ev \in Events : fd[w] \in sets[ev] } ELSE {}
BY DEF Offer

\* io_driver.c implements EventLoop: the calls callbacks see are those the
\* comment of io_driver_postselect asks for.
THEOREM Refinement == Spec => ImplementsPromise
<1>1. Init => Promise!Init
  BY EmptyListProperties DEF Init, Promise!Init, DriverInit, Offer, NoCall, Promise!NoCall
<1>2. IInv /\ IInv' /\ [Next]_vars => [Promise!Next]_(Promise!vars)
  <2> SUFFICES ASSUME IInv, IInv', [Next]_vars PROVE [Promise!Next]_(Promise!vars)
    OBVIOUS
  <2>0. /\ drv \in DriverType /\ ListsConsistent(drv)
        /\ fd \in [Watchers -> Fds] /\ call \in [Watchers -> SUBSET Events]
    BY DEF IInv, TypeOK, Consistent
  <2>a. \A w \in Watchers : ~Registered(drv, w) => w \notin Linked(drv.run_list)
    BY <2>0 DEF ListsConsistent
  <2>1. ASSUME NEW w \in Watchers, NEW f \in Fds, WatcherInit(w, f)
        PROVE  UNCHANGED Promise!vars
    <3>1. Offer' = Offer
      BY <2>0, <2>1, <2>a DEF WatcherInit, Offer
    <3> QED BY <3>1, <2>1 DEF WatcherInit, Promise!vars
  <2>2. ASSUME NEW w \in Watchers, NEW ev \in SUBSET Events, DoWatch(w, ev)
        PROVE  Promise!Register(w, ev)
    <3>1. /\ drv'.run_list = drv.run_list
          /\ drv'.event_listening = [drv.event_listening EXCEPT ![w] = @ \cup ev]
      BY <2>0, <2>2, WatchKeepsLists DEF DoWatch
    <3>2. Offer' = Offer
      BY <3>1, <2>2 DEF DoWatch, Offer
    <3> QED BY <3>1, <3>2, <2>2 DEF DoWatch, UserCode, Promise!Register
  <2>3. ASSUME NEW w \in Watchers, NEW ev \in SUBSET Events, DoNoWatch(w, ev)
        PROVE  Promise!Unregister(w, ev)
    <3>1. /\ Linked(drv'.run_list) =
               Linked(drv.run_list) \ (IF drv.event_listening[w] \subseteq ev THEN {w} ELSE {})
          /\ drv'.event_listening = [drv.event_listening EXCEPT ![w] = @ \ ev]
      <4>1. drv' = NoWatch(drv, w, ev)
        BY <2>3 DEF DoNoWatch
      <4> QED BY <4>1, <2>0, NoWatchKeepsLists
    <3>2. Offer' = [Offer EXCEPT ![w] = IF drv.event_listening[w] \subseteq ev THEN {} ELSE @]
      BY <3>1, <2>3 DEF DoNoWatch, Offer
    <3> QED BY <3>1, <3>2, <2>3 DEF DoNoWatch, UserCode, Promise!Unregister
  <2>4. CASE SelectReady
    <3>1. drv'.event_listening = drv.event_listening /\ drv'.run_list = drv.watchers
      BY <2>0, <2>4, SpliceKeepsLists DEF SelectReady, IInv
    <3>2. ASSUME NEW w \in Watchers
          PROVE  Offer'[w] \subseteq drv.event_listening[w]
      <4>1. SUFFICES ASSUME NEW ev \in Offer'[w] PROVE ev \in drv.event_listening[w]
        OBVIOUS
      <4>2. w \in Linked(drv.watchers) /\ ev \in Events /\ fd'[w] \in sets'[ev]
        BY <4>1, <3>1 DEF Offer
      <4>3. fd[w] \in Asked(ev)
        BY <4>2, <2>4 DEF SelectReady
      <4>4. PICK v \in Linked(drv.watchers) : ev \in drv.event_listening[v] /\ fd[v] = fd[w]
        BY <4>3 DEF Asked
      <4>5. v \in Watchers
        BY <4>4, <2>0, LinkedSubset DEF DriverType
      <4>6. Registered(drv, v) /\ Registered(drv, w)
        BY <4>2, <4>4, <4>5, <2>0 DEF ListsConsistent
      <4>7. v = w
        BY <4>4, <4>5, <4>6 DEF IInv, DistinctFds
      <4> QED BY <4>4, <4>7
    <3>3. Offer' \in [Watchers -> SUBSET Events]
      BY DEF Offer
    <3>4. Promise!Round
      BY <3>1, <3>2, <3>3, <2>4 DEF SelectReady, Promise!Round
    <3> QED BY <3>4 DEF Promise!Next
  <2>5. CASE DispatchNext
    <3> DEFINE h == Head(drv.run_list)
    <3>1. /\ h \in Watchers /\ h \in Linked(drv.run_list)
          /\ Linked(drv'.run_list) = Linked(drv.run_list) \ {h}
          /\ drv'.event_listening = drv.event_listening
      BY <2>0, <2>5, RequeueKeepsLists DEF DispatchNext
    <3>2. phase = "dispatch" /\ fd' = fd /\ sets' = sets
          /\ phase' = (IF Ready(h) # {} THEN "callback" ELSE "dispatch")
          /\ call' = (IF Ready(h) # {} THEN [call EXCEPT ![h] = Ready(h)] ELSE call)
      BY <2>5 DEF DispatchNext
    <3> HIDE DEF h
    <3>3. Offer' = [Offer EXCEPT ![h] = {}]
      BY <3>1, <3>2 DEF Offer
    <3>4. drv.event_listening[h] \subseteq Events
      BY <3>1, <2>0 DEF DriverType
    <3>5. Ready(h) = Offer[h] \cap drv.event_listening[h]
      BY <3>1, <3>4 DEF Ready, Offer
    <3>6. CASE Ready(h) # {}
      <4>1. Promise!Call(h)
        BY <3>1, <3>2, <3>3, <3>5, <3>6 DEF Promise!Call
      <4> QED BY <4>1, <3>1 DEF Promise!Next
    <3>7. CASE Ready(h) = {}
      <4>1. Promise!Skip(h)
        BY <3>1, <3>2, <3>3, <3>5, <3>7 DEF Promise!Skip
      <4> QED BY <4>1, <3>1 DEF Promise!Next
    <3> QED BY <3>6, <3>7
  <2>6. CASE CallbackReturn
    <3>1. Offer' = Offer
      BY <2>6 DEF CallbackReturn, Offer
    <3>2. Promise!Return
      BY <3>1, <2>6 DEF CallbackReturn, Promise!Return, NoCall, Promise!NoCall
    <3> QED BY <3>2 DEF Promise!Next
  <2>7. CASE DispatchDone
    <3>1. Linked(drv.run_list) = {} /\ drv' = drv
      BY <2>7, EmptyListProperties DEF DispatchDone
    <3>2. Offer = [w \in Watchers |-> {}] /\ Offer' = Offer
      BY <3>1 DEF Offer
    <3>3. Promise!RoundOver
      BY <3>1, <3>2, <2>7 DEF DispatchDone, Promise!RoundOver
    <3> QED BY <3>3 DEF Promise!Next
  <2>8. CASE UNCHANGED vars
    BY <2>8 DEF vars, Promise!vars, Offer
  <2> QED
    BY <2>1, <2>2, <2>3, <2>4, <2>5, <2>6, <2>7, <2>8 DEF Next, UserStep, Loop, Promise!Next
<1> QED BY <1>1, <1>2, InvariantHolds, PTL DEF Spec, ImplementsPromise, Promise!Spec

-----------------------------------------------------------------------------
(* The pointers: io_driver.c uses generic_list.h as it has to be used, so  *)
(* that the lists IoDriver.tla speaks of are what is in memory.            *)

\* The inductive invariant: IInv of IoDriver.tla holds beside it.
PInv == mem \in Memory(Nodes, Nodes) /\ PointersAgree

\* What the invariants say of the two rings, as the lemmas about rings ask.
LEMMA RingsApart ==
  ASSUME IInv
  PROVE  /\ drv.watchers \in Seq(Watchers) /\ NoDuplicates(drv.watchers)
         /\ drv.run_list \in Seq(Watchers) /\ NoDuplicates(drv.run_list)
         /\ Linked(drv.watchers) \subseteq Watchers
         /\ Linked(drv.run_list) \subseteq Watchers
         /\ Linked(drv.watchers) \cap Linked(drv.run_list) = {}
         /\ \A w \in Watchers :
              Registered(drv, w) <=> w \in Linked(drv.watchers) \cup Linked(drv.run_list)
         /\ Watchers \subseteq Nodes /\ watchers_head \in Nodes /\ run_head \in Nodes
<1>1. /\ drv.watchers \in Seq(Watchers) /\ drv.run_list \in Seq(Watchers)
      /\ ListsConsistent(drv)
  BY DEF IInv, TypeOK, Consistent, DriverType
<1> QED BY <1>1, LinkedSubset DEF ListsConsistent, Nodes

\* io_driver_watcher_init on a watcher that points at itself already.
LEMMA WatcherInitAgrees ==
  ASSUME IInv, PInv, NEW w \in Watchers, NEW f \in Fds, WatcherInitPointers(w, f)
  PROVE  PInv'
<1>1. drv' = drv /\ Alone(mem, w) /\ w \in Nodes
  BY RingsApart DEF WatcherInitPointers, WatcherInit, PInv, PointersAgree
<1>2. mem' = mem
  <2>1. /\ mem.next \in [Nodes -> Nodes] /\ mem.prev \in [Nodes -> Nodes]
        /\ mem = [next |-> mem.next, prev |-> mem.prev]
    BY DEF PInv, Memory
  <2>2. [mem.next EXCEPT ![w] = w] = mem.next /\ [mem.prev EXCEPT ![w] = w] = mem.prev
    BY <1>1, <2>1 DEF Alone
  <2> QED BY <2>1, <2>2 DEF WatcherInitPointers, INIT_LIST_HEAD
<1> QED BY <1>1, <1>2 DEF PInv, PointersAgree

\* io_driver_watch: a watcher that listened to nothing joins driver->watchers.
LEMMA WatchAgrees ==
  ASSUME IInv, PInv, NEW w \in Watchers, NEW ev \in SUBSET Events, WatchPointers(w, ev)
  PROVE  PInv'
<1>1. drv' = Watch(drv, w, ev) /\ drv \in DriverType
  BY DEF WatchPointers, DoWatch, IInv, TypeOK
<1>2. \A v \in Watchers : drv'.event_listening[v] =
        IF v = w THEN drv.event_listening[v] \cup ev ELSE drv.event_listening[v]
  BY <1>1 DEF Watch, Listen, DriverType
<1>3. CASE ~Registered(drv, w) /\ ev # {}
  <2>1. /\ drv'.watchers = ListAddTail(drv.watchers, w) /\ drv'.run_list = drv.run_list
        /\ mem' = list_add_tail(mem, w, watchers_head)
    BY <1>1, <1>3 DEF Watch, Registered, WatchPointers
  <2>2. /\ w \notin Linked(drv.watchers) /\ w \notin Linked(drv.run_list)
        /\ w # watchers_head /\ w # run_head
    BY <1>3, RingsApart, HeadsAssumption
  <2>3. watchers_head \notin Linked(drv.watchers)
    BY RingsApart, HeadsAssumption
  <2>4. /\ mem' \in Memory(Nodes, Nodes)
        /\ RingIs(mem', watchers_head, drv'.watchers)
        /\ \A y \in Nodes \ ({w, watchers_head} \cup Linked(drv.watchers)) :
             mem'.next[y] = mem.next[y] /\ mem'.prev[y] = mem.prev[y]
    <3>1. /\ drv.watchers \in Seq(Watchers) /\ NoDuplicates(drv.watchers)
          /\ Linked(drv.watchers) \subseteq Nodes
          /\ mem \in Memory(Nodes, Nodes) /\ watchers_head \in Nodes /\ w \in Nodes
          /\ RingIs(mem, watchers_head, drv.watchers)
      BY RingsApart DEF PInv, PointersAgree
    <3> QED BY <2>1, <2>2, <2>3, <3>1, AddTailAppends
  <2>5. RingIs(mem', run_head, drv'.run_list)
    <3>1. \A y \in {run_head} \cup Linked(drv.run_list) :
            mem'.next[y] = mem.next[y] /\ mem'.prev[y] = mem.prev[y]
      BY <2>2, <2>4, RingsApart, HeadsAssumption
    <3>2. drv.run_list \in Seq(Watchers) /\ RingIs(mem, run_head, drv.run_list)
      BY RingsApart DEF PInv, PointersAgree
    <3> QED BY <2>1, <3>1, <3>2, RingUntouched
  <2>6. ASSUME NEW v \in Watchers, ~Registered(drv', v) PROVE Alone(mem', v)
    <3>1. v # w /\ ~Registered(drv, v)
      BY <1>2, <1>3, <2>6 DEF Registered
    <3>2. v \in Nodes \ ({w, watchers_head} \cup Linked(drv.watchers))
      BY <3>1, RingsApart, HeadsAssumption
    <3> QED BY <2>4, <3>1, <3>2 DEF PInv, PointersAgree, Alone
  <2> QED BY <2>4, <2>5, <2>6 DEF PInv, PointersAgree
<1>4. CASE ~(~Registered(drv, w) /\ ev # {})
  <2>1. drv'.watchers = drv.watchers /\ drv'.run_list = drv.run_list /\ mem' = mem
    BY <1>1, <1>4 DEF Watch, Registered, WatchPointers
  <2>2. \A v \in Watchers : ~Registered(drv', v) => ~Registered(drv, v)
    BY <1>2 DEF Registered
  <2> QED BY <2>1, <2>2 DEF PInv, PointersAgree
<1> QED BY <1>3, <1>4

\* io_driver_no_watch: a watcher that lost its last event leaves the one of
\* the two rings it is on, whichever that is.
LEMMA NoWatchAgrees ==
  ASSUME IInv, PInv, NEW w \in Watchers, NEW ev \in SUBSET Events, NoWatchPointers(w, ev)
  PROVE  PInv'
<1>1. drv' = NoWatch(drv, w, ev) /\ drv \in DriverType
  BY DEF NoWatchPointers, DoNoWatch, IInv, TypeOK
<1>2. \A v \in Watchers : drv'.event_listening[v] =
        IF v = w THEN drv.event_listening[v] \ ev ELSE drv.event_listening[v]
  BY <1>1 DEF NoWatch, Ignore, DriverType
<1> DEFINE unlink == Registered(drv, w) /\ drv.event_listening[w] \subseteq ev
<1>3. CASE unlink
  <2>1. /\ drv'.watchers = ListDelInit(drv.watchers, w)
        /\ drv'.run_list = ListDelInit(drv.run_list, w)
        /\ mem' = list_del_init(mem, w)
    BY <1>1, <1>3 DEF NoWatch, Registered, NoWatchPointers
  <2>2. \A v \in Watchers \ {w} : Registered(drv', v) <=> Registered(drv, v)
    BY <1>2 DEF Registered
  <2>3. ASSUME NEW here, NEW h, NEW there, NEW g,
               here \in Seq(Watchers), NoDuplicates(here), there \in Seq(Watchers),
               Linked(here) \subseteq Watchers, Linked(there) \subseteq Watchers,
               Linked(here) \cap Linked(there) = {},
               h \in Nodes \ Watchers, g \in Nodes \ Watchers, h # g,
               RingIs(mem, h, here), RingIs(mem, g, there), w \in Linked(here)
        PROVE  /\ mem' \in Memory(Nodes, Nodes)
               /\ RingIs(mem', h, ListDelInit(here, w))
               /\ RingIs(mem', g, ListDelInit(there, w))
               /\ Alone(mem', w)
               /\ \A v \in Watchers \ Linked(here) : Alone(mem, v) => Alone(mem', v)
    <3>1. /\ mem \in Memory(Nodes, Nodes) /\ h \notin Linked(here)
          /\ Linked(here) \subseteq Nodes /\ h \in Nodes
      BY <2>3, RingsApart DEF PInv
    <3>2. /\ mem' \in Memory(Nodes, Nodes)
          /\ RingIs(mem', h, ListDelInit(here, w))
          /\ Alone(mem', w)
          /\ \A y \in Nodes \ ({h} \cup Linked(here)) :
               mem'.next[y] = mem.next[y] /\ mem'.prev[y] = mem.prev[y]
      BY <2>1, <2>3, <3>1, DelInitRemoves
    <3>3. \A y \in {g} \cup Linked(there) : y \in Nodes \ ({h} \cup Linked(here))
      BY <2>3, RingsApart
    <3>4. RingIs(mem', g, there) /\ ListDelInit(there, w) = there
      BY <2>3, <3>2, <3>3, RingUntouched, DelInitAbsent
    <3>5. \A v \in Watchers \ Linked(here) : v \in Nodes \ ({h} \cup Linked(here))
      BY <2>3, RingsApart
    <3> QED BY <3>2, <3>4, <3>5 DEF Alone
  <2>4. /\ watchers_head \in Nodes \ Watchers /\ run_head \in Nodes \ Watchers
        /\ RingIs(mem, watchers_head, drv.watchers) /\ RingIs(mem, run_head, drv.run_list)
    BY RingsApart, HeadsAssumption DEF PInv, PointersAgree
  <2>5. CASE w \in Linked(drv.watchers)
    <3>1. /\ mem' \in Memory(Nodes, Nodes)
          /\ RingIs(mem', watchers_head, drv'.watchers)
          /\ RingIs(mem', run_head, drv'.run_list)
          /\ Alone(mem', w)
          /\ \A v \in Watchers \ Linked(drv.watchers) : Alone(mem, v) => Alone(mem', v)
      BY <2>1, <2>3, <2>4, <2>5, RingsApart, HeadsAssumption
    <3> QED BY <2>2, <3>1, RingsApart DEF PInv, PointersAgree
  <2>6. CASE w \in Linked(drv.run_list)
    <3>1. /\ mem' \in Memory(Nodes, Nodes)
          /\ RingIs(mem', watchers_head, drv'.watchers)
          /\ RingIs(mem', run_head, drv'.run_list)
          /\ Alone(mem', w)
          /\ \A v \in Watchers \ Linked(drv.run_list) : Alone(mem, v) => Alone(mem', v)
      BY <2>1, <2>3, <2>4, <2>6, RingsApart, HeadsAssumption
    <3> QED BY <2>2, <3>1, RingsApart DEF PInv, PointersAgree
  <2> QED BY <1>3, <2>5, <2>6, RingsApart
<1>4. CASE ~unlink
  <2>1. drv'.watchers = drv.watchers /\ drv'.run_list = drv.run_list /\ mem' = mem
    BY <1>1, <1>4 DEF NoWatch, Registered, NoWatchPointers
  <2>2. \A v \in Watchers : ~Registered(drv', v) => ~Registered(drv, v)
    BY <1>2, <1>4 DEF Registered
  <2> QED BY <2>1, <2>2 DEF PInv, PointersAgree
<1> QED BY <1>3, <1>4

\* io_driver_postselect up to its loop: all watchers move behind run_list.
LEMMA SelectReadyAgrees ==
  ASSUME IInv, PInv, SelectReadyPointers
  PROVE  PInv'
<1> DEFINE m == INIT_LIST_HEAD(mem, run_head)
<1>1. /\ drv'.watchers = EmptyList /\ drv'.run_list = drv.watchers
      /\ drv'.event_listening = drv.event_listening
      /\ mem' = list_splice_init(m, watchers_head, run_head)
      /\ drv.run_list = EmptyList
  BY DEF SelectReadyPointers, SelectReady, Splice, IInv
<1>2. /\ mem \in Memory(Nodes, Nodes) /\ run_head \in Nodes /\ watchers_head \in Nodes
      /\ drv.watchers \in Seq(Watchers) /\ NoDuplicates(drv.watchers)
      /\ Linked(drv.watchers) \subseteq Nodes
      /\ run_head \notin Linked(drv.watchers) /\ watchers_head \notin Linked(drv.watchers)
      /\ RingIs(mem, watchers_head, drv.watchers)
  BY RingsApart, HeadsAssumption DEF PInv, PointersAgree
<1>3. /\ m \in Memory(Nodes, Nodes) /\ RingIs(m, run_head, EmptyList)
      /\ \A y \in Nodes \ {run_head} : m.next[y] = mem.next[y] /\ m.prev[y] = mem.prev[y]
  BY <1>2, InitListHead
<1> HIDE DEF m
<1>4. RingIs(m, watchers_head, drv.watchers)
  <2>1. \A y \in {watchers_head} \cup Linked(drv.watchers) :
          m.next[y] = mem.next[y] /\ m.prev[y] = mem.prev[y]
    BY <1>2, <1>3, HeadsAssumption
  <2> QED BY <1>2, <2>1, RingUntouched
<1>5. /\ mem' \in Memory(Nodes, Nodes)
      /\ RingIs(mem', run_head, drv'.run_list)
      /\ RingIs(mem', watchers_head, drv'.watchers)
      /\ \A y \in Nodes \ ({watchers_head, run_head} \cup Linked(drv.watchers)) :
           mem'.next[y] = m.next[y] /\ mem'.prev[y] = m.prev[y]
  BY <1>1, <1>2, <1>3, <1>4, HeadsAssumption, SpliceMoves
<1>6. ASSUME NEW v \in Watchers, ~Registered(drv', v) PROVE Alone(mem', v)
  <2>1. ~Registered(drv, v)
    BY <1>1, <1>6 DEF Registered
  <2>2. v \in Nodes \ ({watchers_head, run_head} \cup Linked(drv.watchers))
    BY <2>1, RingsApart, HeadsAssumption
  <2> QED BY <1>3, <1>5, <2>1, <2>2 DEF PInv, PointersAgree, Alone
<1> QED BY <1>5, <1>6 DEF PInv, PointersAgree

\* One turn of its loop: the first of run_list goes to the end of
\* driver->watchers.
LEMMA DispatchNextAgrees ==
  ASSUME IInv, PInv, DispatchNextPointers
  PROVE  PInv'
<1> DEFINE w == Head(drv.run_list)
           m == list_del_init(mem, w)
<1>1. /\ drv'.watchers = ListAddTail(drv.watchers, w) /\ drv'.run_list = Tail(drv.run_list)
      /\ drv'.event_listening = drv.event_listening
      /\ drv.run_list # EmptyList
      /\ mem' = LET first == list_first_entry(mem, run_head)
                IN  list_add_tail(list_del_init(mem, first), first, watchers_head)
  BY DEF DispatchNextPointers, DispatchNext, Requeue
<1>2. /\ w \in Watchers /\ w \in Linked(drv.run_list)
      /\ Linked(Tail(drv.run_list)) = Linked(drv.run_list) \ {w}
      /\ Tail(drv.run_list) \in Seq(Watchers)
      /\ w \notin Linked(drv.watchers)
  BY <1>1, RingsApart, HeadTailOfList
<1>3. list_first_entry(mem, run_head) = w
  <2>1. RingIs(mem, run_head, drv.run_list) /\ Len(drv.run_list) \in Nat \ {0}
    BY <1>1, RingsApart, LenProperties, EmptySeq DEF PInv, PointersAgree, EmptyList
  <2>2. Around(run_head, drv.run_list, 0) = run_head
        /\ Around(run_head, drv.run_list, 1) = drv.run_list[1]
    BY <2>1 DEF Around
  <2>3. w = drv.run_list[1]
    BY <1>1, RingsApart
  <2> QED BY <2>1, <2>2, <2>3 DEF RingIs, list_first_entry
<1>4. mem' = list_add_tail(m, w, watchers_head)
  BY <1>1, <1>3
<1>5. /\ mem \in Memory(Nodes, Nodes) /\ run_head \in Nodes /\ watchers_head \in Nodes
      /\ w \in Nodes /\ w # watchers_head /\ w # run_head
      /\ drv.run_list \in Seq(Watchers) /\ NoDuplicates(drv.run_list)
      /\ drv.watchers \in Seq(Watchers) /\ NoDuplicates(drv.watchers)
      /\ Linked(drv.run_list) \subseteq Nodes /\ run_head \notin Linked(drv.run_list)
      /\ Linked(drv.watchers) \subseteq Nodes /\ watchers_head \notin Linked(drv.watchers)
      /\ RingIs(mem, run_head, drv.run_list) /\ RingIs(mem, watchers_head, drv.watchers)
  BY <1>2, RingsApart, HeadsAssumption DEF PInv, PointersAgree
<1> HIDE DEF w
<1>6. /\ m \in Memory(Nodes, Nodes)
      /\ RingIs(m, run_head, ListDelInit(drv.run_list, w))
      /\ \A y \in Nodes \ ({run_head} \cup Linked(drv.run_list)) :
           m.next[y] = mem.next[y] /\ m.prev[y] = mem.prev[y]
  BY <1>2, <1>5, DelInitRemoves
<1>7. ListDelInit(drv.run_list, w) = Tail(drv.run_list)
  BY <1>1, <1>5, DelInitFirst DEF w
<1> HIDE DEF m
<1>8. RingIs(m, watchers_head, drv.watchers)
  <2>1. \A y \in {watchers_head} \cup Linked(drv.watchers) :
          m.next[y] = mem.next[y] /\ m.prev[y] = mem.prev[y]
    BY <1>5, <1>6, RingsApart, HeadsAssumption
  <2> QED BY <1>5, <2>1, RingUntouched
<1>9. /\ mem' \in Memory(Nodes, Nodes)
      /\ RingIs(mem', watchers_head, drv'.watchers)
      /\ \A y \in Nodes \ ({w, watchers_head} \cup Linked(drv.watchers)) :
           mem'.next[y] = m.next[y] /\ mem'.prev[y] = m.prev[y]
  BY <1>1, <1>2, <1>4, <1>5, <1>6, <1>8, AddTailAppends DEF w
<1>10. RingIs(mem', run_head, drv'.run_list)
  <2>1. \A y \in {run_head} \cup Linked(Tail(drv.run_list)) :
          mem'.next[y] = m.next[y] /\ mem'.prev[y] = m.prev[y]
    BY <1>2, <1>5, <1>9, RingsApart, HeadsAssumption DEF w
  <2>2. RingIs(m, run_head, Tail(drv.run_list)) /\ Tail(drv.run_list) \in Seq(Watchers)
    BY <1>2, <1>6, <1>7
  <2>3. RingIs(mem', run_head, Tail(drv.run_list))
    BY <2>1, <2>2, RingUntouched
  <2> QED BY <1>1, <2>3
<1>11. ASSUME NEW v \in Watchers, ~Registered(drv', v) PROVE Alone(mem', v)
  <2>1. ~Registered(drv, v)
    BY <1>1, <1>11 DEF Registered
  <2>2. /\ v \in Nodes \ ({run_head} \cup Linked(drv.run_list))
        /\ v \in Nodes \ ({w, watchers_head} \cup Linked(drv.watchers))
    BY <1>2, <2>1, RingsApart, HeadsAssumption DEF w
  <2> QED BY <1>6, <1>9, <2>1, <2>2 DEF PInv, PointersAgree, Alone
<1> QED BY <1>9, <1>10, <1>11 DEF PInv, PointersAgree

\* In every state of the loop the rings in memory are its lists, and what
\* listens to nothing points at itself.
THEOREM PointersStayInStep == PointerSpec => []PointersAgree
<1>1. PointerInit => PInv
  <2> SUFFICES ASSUME PointerInit PROVE PInv
    OBVIOUS
  <2>1. mem \in Memory(Nodes, Nodes)
    BY DEF PointerInit, Memory
  <2>2. drv.watchers = EmptyList /\ drv.run_list = EmptyList /\ Len(EmptyList) = 0
    BY DEF PointerInit, Init, DriverInit, EmptyList
  <2>3. \A x \in Nodes : Alone(mem, x)
    BY DEF PointerInit, Alone
  <2>4. RingIs(mem, watchers_head, EmptyList) /\ RingIs(mem, run_head, EmptyList)
    BY <2>2, <2>3 DEF RingIs, Around, Alone, Nodes
  <2> QED BY <2>1, <2>2, <2>3, <2>4 DEF PInv, PointersAgree, Nodes
<1>2. IInv /\ PInv /\ [PointerNext]_pointerVars => PInv'
  <2> SUFFICES ASSUME IInv, PInv, [PointerNext]_pointerVars PROVE PInv'
    OBVIOUS
  <2>1. CASE CallbackReturnPointers \/ DispatchDonePointers \/ UNCHANGED pointerVars
    <3>1. drv' = drv /\ mem' = mem
      BY <2>1 DEF CallbackReturnPointers, CallbackReturn, DispatchDonePointers, DispatchDone,
                  pointerVars
    <3> QED BY <3>1 DEF PInv, PointersAgree
  <2> QED
    BY <2>1, WatcherInitAgrees, WatchAgrees, NoWatchAgrees, SelectReadyAgrees, DispatchNextAgrees
       DEF PointerNext
<1>3. PointerSpec => Spec
  <2>1. PointerInit => Init
    BY DEF PointerInit
  <2>2. [PointerNext]_pointerVars => [Next]_vars
    BY DEF PointerNext, WatcherInitPointers, WatchPointers, NoWatchPointers,
           SelectReadyPointers, DispatchNextPointers, CallbackReturnPointers,
           DispatchDonePointers, pointerVars, vars, Next, UserStep, Loop
  <2> QED BY <2>1, <2>2, PTL DEF PointerSpec, Spec
<1>4. PInv => PointersAgree
  BY DEF PInv
<1> QED BY <1>1, <1>2, <1>3, <1>4, InvariantHolds, PTL DEF PointerSpec
=============================================================================
