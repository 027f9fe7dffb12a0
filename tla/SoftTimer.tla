------------------------------ MODULE SoftTimer ------------------------------
(***************************************************************************)
(* soft_timer.c: a timer wheel.  A running timer is linked in the bucket   *)
(* of the tick it expires at; a tick looks at one bucket only, moves the   *)
(* timers that expire now to timeout_list and calls them from there.  The  *)
(* tick counter is an unsigned int and wraps; a bucket also holds timers   *)
(* of later turns of the wheel.                                            *)
(***************************************************************************)
EXTENDS ListOps

CONSTANTS
  Timers,      \* the SoftTimerElem objects
  NumBuckets,  \* SOFT_TIMER_NUM_BUCKETS
  TickMod,     \* the values an unsigned int has: 2^32
  TickRate,    \* milliseconds per tick
  Expires      \* the timeouts in milliseconds the program asks for

\* A faulty variant: a timeout of whole ticks waits for one more.
OneTickMore(milsec) == milsec \div TickRate + 1

\* get_soft_tick_from_milsec: rounded up to whole ticks
SoftTickFromMilsec(milsec) ==
  milsec \div TickRate + (IF milsec % TickRate # 0 THEN 1 ELSE 0)

\* A timeout is an int of milliseconds, so that its ticks are fewer than the
\* counter has values.
ASSUME SoftTimerAssumption ==
  /\ NumBuckets \in Nat \ {0}
  /\ TickMod \in Nat \ {0}
  /\ TickRate \in Nat \ {0}
  /\ Expires \subseteq Nat
  /\ \A e \in Expires : SoftTickFromMilsec(e) < TickMod

VARIABLES
  tick,          \* timer->tick
  buckets,       \* timer->buckets
  elem_tick,     \* [Timers -> 0..TickMod-1]: elem->tick
  timeout_list,  \* the local list of timer_tick
  scan,          \* the position of list_for_each_entry_safe in its bucket
  phase,         \* "app": outside timer_tick; "scan": in its first loop;
                 \* "expire": in its second; "callback": in a timeout callback
  firing         \* the timer whose callback runs, as a set of at most one

vars == << tick, buckets, elem_tick, timeout_list, scan, phase, firing >>

Buckets == 0..(NumBuckets - 1)
Ticks == 0..(TickMod - 1)

TypeOK ==
  /\ tick \in Ticks
  /\ buckets \in [Buckets -> Seq(Timers)]
  /\ elem_tick \in [Timers -> Ticks]
  /\ timeout_list \in Seq(Timers)
  /\ scan \in Nat
  /\ phase \in {"app", "scan", "expire", "callback"}
  /\ firing \in SUBSET Timers

-----------------------------------------------------------------------------
InBuckets(t) == \E b \in Buckets : t \in Linked(buckets[b])

\* soft_timer_is_running: the element is linked somewhere
IsRunning(t) == InBuckets(t) \/ t \in Linked(timeout_list)

\* soft_timer_init, and soft_timer_init_elem on every element
Init ==
  /\ tick = 0
  /\ buckets = [b \in Buckets |-> EmptyList]
  /\ elem_tick = [t \in Timers |-> 0]
  /\ timeout_list = EmptyList
  /\ scan = 0
  /\ phase = "app"
  /\ firing = {}

\* Timers are started and stopped between two ticks and in the callbacks.
UserCode == phase \in {"app", "callback"}

\* A faulty variant: the sum is not reduced to the counter's width.
ExpiryUnwrapped(expires) == tick + SoftTickFromMilsec(expires)

\* A faulty variant: a timeout is rounded down to whole ticks.
ExpiryRoundedDown(expires) == (tick + expires \div TickRate) % TickMod

Expiry(expires) == (tick + SoftTickFromMilsec(expires)) % TickMod

\* A faulty variant: a running timer is linked again.
AddTwice(t, expires) ==
  /\ UserCode
  /\ elem_tick' = [elem_tick EXCEPT ![t] = Expiry(expires)]
  /\ buckets' = [buckets EXCEPT ![Expiry(expires) % NumBuckets] = ListAddTail(@, t)]
  /\ UNCHANGED << tick, timeout_list, scan, phase, firing >>

\* soft_timer_add; it returns at once on a running timer
Add(t, expires) ==
  /\ UserCode
  /\ ~IsRunning(t)
  /\ elem_tick' = [elem_tick EXCEPT ![t] = Expiry(expires)]
  /\ buckets' = [buckets EXCEPT ![Expiry(expires) % NumBuckets] = ListAddTail(@, t)]
  /\ UNCHANGED << tick, timeout_list, scan, phase, firing >>

\* soft_timer_del; it returns at once on a stopped timer
Del(t) ==
  /\ UserCode
  /\ IsRunning(t)
  /\ buckets' = [b \in Buckets |-> ListDelInit(buckets[b], t)]
  /\ timeout_list' = ListDelInit(timeout_list, t)
  /\ UNCHANGED << tick, elem_tick, scan, phase, firing >>

-----------------------------------------------------------------------------
\* A faulty variant: the bucket of the next tick is scanned.
NextBucket == (tick + 1) % NumBuckets

\* The bucket of this tick
current == tick % NumBuckets

\* timer_tick, called by soft_timer_drive, up to its first loop
Drive ==
  /\ phase = "app"
  /\ tick' = (tick + 1) % TickMod
  /\ scan' = 1
  /\ phase' = "scan"
  /\ UNCHANGED << buckets, elem_tick, timeout_list, firing >>

\* A faulty variant: everything in the bucket is taken to expire now.
MatchesBucket(t) == elem_tick[t] % NumBuckets = current

\* p->tick == timer->tick
MatchesNow(t) == elem_tick[t] = tick

\* One turn of list_for_each_entry_safe: the element at position scan moves
\* to timeout_list, or the loop goes on to the next one.
ScanNext ==
  /\ phase = "scan"
  /\ scan <= Len(buckets[current])
  /\ LET p == buckets[current][scan] IN
       IF MatchesNow(p)
         THEN /\ buckets' = [buckets EXCEPT ![current] = ListDelInit(@, p)]
              /\ timeout_list' = ListAddTail(timeout_list, p)
              /\ scan' = scan
         ELSE /\ scan' = scan + 1
              /\ UNCHANGED << buckets, timeout_list >>
  /\ UNCHANGED << tick, elem_tick, phase, firing >>

ScanDone ==
  /\ phase = "scan"
  /\ scan > Len(buckets[current])
  /\ phase' = "expire"
  /\ scan' = 0
  /\ UNCHANGED << tick, buckets, elem_tick, timeout_list, firing >>

\* One turn of the second loop: the timer is stopped before it is called.
Expire ==
  /\ phase = "expire"
  /\ timeout_list # EmptyList
  /\ timeout_list' = Tail(timeout_list)
  /\ firing' = {Head(timeout_list)}
  /\ phase' = "callback"
  /\ UNCHANGED << tick, buckets, elem_tick, scan >>

CallbackReturn ==
  /\ phase = "callback"
  /\ firing' = {}
  /\ phase' = "expire"
  /\ UNCHANGED << tick, buckets, elem_tick, timeout_list, scan >>

TickDone ==
  /\ phase = "expire"
  /\ timeout_list = EmptyList
  /\ phase' = "app"
  /\ UNCHANGED << tick, buckets, elem_tick, timeout_list, scan, firing >>

-----------------------------------------------------------------------------
UserStep == \E t \in Timers : Del(t) \/ \E e \in Expires : Add(t, e)

TimerTick == Drive \/ ScanNext \/ ScanDone \/ Expire \/ CallbackReturn \/ TickDone

Next == UserStep \/ TimerTick

Spec == Init /\ [][Next]_vars

\* The timerfd expires again and again, the driver calls its watcher, and
\* timer_tick and the callbacks are straight-line code.
FairSpec == Spec /\ WF_vars(TimerTick)

-----------------------------------------------------------------------------
\* The timers whose time is up and whose callback is still to run.
Due ==
  { t \in Timers :
      \/ t \in Linked(timeout_list)
      \/ phase = "scan" /\ InBuckets(t) /\ MatchesNow(t) }

\* The ticks a running timer still waits; a full turn of the counter when it
\* was started for the tick that has just been dealt with.
Left(t) ==
  IF ~InBuckets(t) \/ t \in Due THEN 0
  ELSE IF elem_tick[t] > tick THEN elem_tick[t] - tick
  ELSE elem_tick[t] - tick + TickMod

\* Callbacks that start and stop timers, those of the same tick included,
\* never corrupt the wheel: every running timer is linked once, in the bucket
\* its expiry belongs to or, if that is now, in timeout_list.
WheelConsistent ==
  /\ \A b \in Buckets : NoDuplicates(buckets[b])
  /\ NoDuplicates(timeout_list)
  /\ \A t \in Timers, b \in Buckets :
       t \in Linked(buckets[b]) => /\ elem_tick[t] % NumBuckets = b
                                   /\ t \notin Linked(timeout_list)
  /\ \A t \in Linked(timeout_list) : MatchesNow(t)

\* The inductive invariant: timeout_list is in use during a tick only, and
\* what the scan of the bucket has passed does not expire now.
IInv ==
  /\ TypeOK
  /\ WheelConsistent
  /\ phase = "app" => timeout_list = EmptyList
  /\ phase = "scan" =>
       /\ scan >= 1
       /\ \A i \in 1..Len(buckets[current]) :
            i < scan => ~MatchesNow(buckets[current][i])

\* The least number n of ticks that lasts for milsec milliseconds: what a
\* timeout means, whatever soft_timer.h computes.
Covers(n, milsec) == (n - 1) * TickRate < milsec /\ milsec <= n * TickRate

\* A running timer never has longer to wait than the longest timeout the
\* program asks for ("expires desired timeout value in milliseconds"), give
\* or take the part of a tick that is rounded up.
NoneWaitsTooLong ==
  \A t \in Timers : \E e \in Expires : (Left(t) - 1) * TickRate < e

\* A timer that runs fires or is stopped, however the others are started and
\* stopped meanwhile.
TimersFire == \A t \in Timers : IsRunning(t) ~> ~IsRunning(t)

\* soft_timer.c implements TimerPromise, started for the ticks that cover the
\* timeouts.
Promise == INSTANCE TimerPromise
             WITH Waits  <- { n \in Ticks : \E e \in Expires : Covers(n, e) },
                  left   <- [t \in Timers |-> Left(t)],
                  due    <- Due,
                  phase  <- IF phase \in {"scan", "expire"} THEN "tick" ELSE phase

ImplementsPromise == Promise!Spec
=============================================================================
