----------------------------- MODULE BoundedFifo -----------------------------
(***************************************************************************)
(* What circ_buffer.c promises: a byte queue of limited capacity whose     *)
(* operations are done completely or not at all.                           *)
(***************************************************************************)
EXTENDS Integers, Sequences

CONSTANTS
  Bytes,     \* what is stored
  Size,      \* the size asked for at creation
  MaxLen     \* the largest number of bytes of one call

VARIABLES
  live,      \* the queue exists
  capacity,  \* bytes it can hold: Size, or 0 if memory could not be had
  queue,     \* its contents
  got,       \* the bytes the last call handed out
  ret        \* the result of the last call, 0 or -1

vars == << live, capacity, queue, got, ret >>

Init ==
  /\ live = FALSE
  /\ capacity = 0
  /\ queue = << >>
  /\ got = << >>
  /\ ret = 0

Create(cap) ==
  /\ ~live
  /\ live' = TRUE
  /\ capacity' = cap
  /\ queue' = << >>
  /\ got' = << >>
  /\ ret' = IF cap = 0 THEN -1 ELSE 0

Destroy ==
  /\ live
  /\ live' = FALSE
  /\ queue' = << >>
  /\ capacity' = 0
  /\ got' = << >>
  /\ ret' = 0

Fail ==
  /\ ret' = -1
  /\ got' = << >>
  /\ UNCHANGED << live, capacity, queue >>

Put(data) ==
  /\ live
  /\ IF Len(queue) + Len(data) > capacity
       THEN Fail
       ELSE /\ queue' = queue \o data
            /\ ret' = 0
            /\ got' = << >>
            /\ UNCHANGED << live, capacity >>

\* Take n bytes off the queue; those that show are handed out.
Take(n, shown) ==
  /\ live
  /\ IF n > Len(queue)
       THEN Fail
       ELSE /\ queue' = SubSeq(queue, n + 1, Len(queue))
            /\ got' = shown
            /\ ret' = 0
            /\ UNCHANGED << live, capacity >>

Get(n) == Take(n, SubSeq(queue, 1, n))

Advance(n) == Take(n, << >>)

Peek(n) ==
  /\ live
  /\ IF n > Len(queue)
       THEN Fail
       ELSE /\ got' = SubSeq(queue, 1, n)
            /\ ret' = 0
            /\ UNCHANGED << live, capacity, queue >>

Reset ==
  /\ live
  /\ queue' = << >>
  /\ got' = << >>
  /\ ret' = 0
  /\ UNCHANGED << live, capacity >>

Next ==
  \/ Create(0) \/ Create(Size) \/ Destroy \/ Reset
  \/ \E n \in 1..MaxLen :
       \/ \E data \in [1..n -> Bytes] : Put(data)
       \/ Get(n) \/ Advance(n) \/ Peek(n)

Spec == Init /\ [][Next]_vars
=============================================================================
