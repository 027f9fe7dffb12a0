----------------------------- MODULE MCSoftTimer -----------------------------
(* The timer wheel with a counter that wraps after a few ticks. *)
EXTENDS SoftTimerPointers

CONSTANTS t1, t2, t3, head, none

MCTimers == {t1, t2, t3}
=============================================================================
