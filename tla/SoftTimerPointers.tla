-------------------------- MODULE SoftTimerPointers --------------------------
(***************************************************************************)
(* The timer wheel of SoftTimer.tla with the pointers its lists are made   *)
(* of, and with the two local variables of list_for_each_entry_safe that   *)
(* point into a list while timer_tick moves its entries to another one.    *)
(* Each action is the action of SoftTimer.tla together with the calls of   *)
(* generic_list.h the code makes in it.                                    *)
(*                                                                         *)
(* The head of bucket b is at address b; a timer's struct list_head, the   *)
(* field elem->next, is at the timer.                                      *)
(***************************************************************************)
EXTENDS SoftTimer, ListPointers

CONSTANTS
  timeout_head,  \* the address of the local timeout_list of timer_tick
  null           \* NULL

ASSUME AddressesAssumption ==
  /\ Timers \cap Buckets = {}
  /\ timeout_head \notin Timers \cup Buckets
  /\ null \notin Timers \cup Buckets \cup {timeout_head}

VARIABLES
  mem,  \* the struct list_heads
  walk  \* p and n of list_for_each_entry_safe

pointerVars == << tick, buckets, elem_tick, timeout_list, scan, phase, firing, mem, walk >>

Nodes == Timers \cup Buckets \cup {timeout_head}

NoWalk == [ p |-> null, n |-> null ]

\* soft_timer_init, and soft_timer_init_elem on every element; timeout_list
\* has an address of its own only during a tick.
PointerInit ==
  /\ Init
  /\ mem = [ next |-> [x \in Nodes |-> x], prev |-> [x \in Nodes |-> x] ]
  /\ walk = NoWalk

AddPointers(t, expires) ==
  /\ Add(t, expires)
  /\ mem' = list_add_tail(INIT_LIST_HEAD(mem, t), t, Expiry(expires) % NumBuckets)
  /\ UNCHANGED walk

DelPointers(t) ==
  /\ Del(t)
  /\ mem' = list_del_init(mem, t)
  /\ UNCHANGED walk

-----------------------------------------------------------------------------
\* The head of list_for_each_entry_safe, on the bucket of the new tick
DrivePointers ==
  /\ Drive
  /\ mem' = INIT_LIST_HEAD(mem, timeout_head)
  /\ LET first == list_first_entry(mem', current')
     IN walk' = [ p |-> first, n |-> mem'.next[first] ]

\* A faulty variant: list_for_each_entry, which reads where to go on from
\* the entry the body of the loop has moved.
StepUnsafe(m, w) == [ p |-> m.next[w.p], n |-> m.next[m.next[w.p]] ]

\* p = n, n = n->next
Step(m, w) == [ p |-> w.n, n |-> m.next[w.n] ]

ScanNextPointers ==
  /\ ScanNext
  /\ mem' = IF MatchesNow(walk.p)
            THEN list_add_tail(list_del(mem, walk.p, null), walk.p, timeout_head)
            ELSE mem
  /\ walk' = Step(mem', walk)

ScanDonePointers == ScanDone /\ walk' = NoWalk /\ UNCHANGED mem

ExpirePointers ==
  /\ Expire
  /\ mem' = list_del_init(mem, list_first_entry(mem, timeout_head))
  /\ UNCHANGED walk

CallbackReturnPointers == CallbackReturn /\ UNCHANGED << mem, walk >>

TickDonePointers == TickDone /\ UNCHANGED << mem, walk >>

-----------------------------------------------------------------------------
TimerTickPointers ==
  \/ DrivePointers \/ ScanNextPointers \/ ScanDonePointers
  \/ ExpirePointers \/ CallbackReturnPointers \/ TickDonePointers

PointerNext ==
  \/ \E t \in Timers : DelPointers(t) \/ \E e \in Expires : AddPointers(t, e)
  \/ TimerTickPointers

PointerSpec == PointerInit /\ [][PointerNext]_pointerVars

FairPointerSpec == PointerSpec /\ WF_pointerVars(TimerTickPointers)

-----------------------------------------------------------------------------
\* The rings in memory are the wheel's lists, whatever the callbacks start
\* and stop, a timer that is not running points at itself, which is what
\* soft_timer_is_running tests, and the loop over a bucket stands on the
\* entry it means to look at although it moves entries to timeout_list as it
\* goes ("be careful with this code", timer_tick).
PointersAgree ==
  /\ \A b \in Buckets : RingIs(mem, b, buckets[b])
  /\ RingIs(mem, timeout_head, timeout_list)
  /\ \A t \in Timers : ~IsRunning(t) => Alone(mem, t)
  /\ phase = "scan" => /\ walk.p = Around(current, buckets[current], scan)
                       /\ walk.n = mem.next[walk.p]
=============================================================================
