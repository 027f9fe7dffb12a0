---------------------------- MODULE TimerPromise ----------------------------
(***************************************************************************)
(* What soft_timer.c promises: a timer that is started for n ticks fires   *)
(* during the n-th tick from then, once, unless it is stopped before its   *)
(* callback runs.  Starting a running timer, or stopping a stopped one, is *)
(* without effect.  Inside a callback every timer can be started and       *)
(* stopped: the one that fired, one whose time is up in the same tick, or  *)
(* any other.                                                              *)
(***************************************************************************)
EXTENDS Integers

CONSTANTS
  Timers,
  Waits      \* the numbers of ticks timers are started for

VARIABLES
  left,      \* [Timers -> Nat]: ticks to go, 0 for a timer that does not wait
  due,       \* the timers whose time is up and whose callback is still to run
  phase,     \* "app", "tick" or "callback"
  firing     \* the timer whose callback runs, as a set of at most one

vars == << left, due, phase, firing >>

Running(t) == left[t] > 0 \/ t \in due

Init ==
  /\ left = [t \in Timers |-> 0]
  /\ due = {}
  /\ phase = "app"
  /\ firing = {}

\* A timer that has nothing to wait for fires in the next tick.
Start(t, n) ==
  /\ phase \in {"app", "callback"}
  /\ ~Running(t)
  /\ left' = [left EXCEPT ![t] = IF n = 0 THEN 1 ELSE n]
  /\ UNCHANGED << due, phase, firing >>

Stop(t) ==
  /\ phase \in {"app", "callback"}
  /\ Running(t)
  /\ left' = [left EXCEPT ![t] = 0]
  /\ due' = due \ {t}
  /\ UNCHANGED << phase, firing >>

Tick ==
  /\ phase = "app"
  /\ due' = { t \in Timers : left[t] = 1 }
  /\ left' = [t \in Timers |-> IF left[t] = 0 THEN 0 ELSE left[t] - 1]
  /\ phase' = "tick"
  /\ UNCHANGED firing

Fire(t) ==
  /\ phase = "tick"
  /\ t \in due
  /\ due' = due \ {t}
  /\ phase' = "callback"
  /\ firing' = {t}
  /\ UNCHANGED left

Return ==
  /\ phase = "callback"
  /\ phase' = "tick"
  /\ firing' = {}
  /\ UNCHANGED << left, due >>

TickOver ==
  /\ phase = "tick"
  /\ due = {}
  /\ phase' = "app"
  /\ UNCHANGED << left, due, firing >>

Next ==
  \/ \E t \in Timers, n \in Waits : Start(t, n)
  \/ \E t \in Timers : Stop(t) \/ Fire(t)
  \/ Tick
  \/ Return
  \/ TickOver

Spec == Init /\ [][Next]_vars
=============================================================================
