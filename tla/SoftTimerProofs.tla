---------------------------- MODULE SoftTimerProofs ----------------------------
(***************************************************************************)
(* The timer wheel for every number of timers and buckets and every width  *)
(* of the tick counter.                                                    *)
(***************************************************************************)
EXTENDS SoftTimer, Lemmas

-----------------------------------------------------------------------------
(* Arithmetic of the tick counter.                                         *)

\* A bucket index.
LEMMA BucketIndex ==
  ASSUME NEW x \in Nat
  PROVE  x % NumBuckets \in Buckets
BY SoftTimerAssumption DEF Buckets

\* A number of ticks.
LEMMA TicksOfTimeout ==
  ASSUME NEW e \in Expires
  PROVE  SoftTickFromMilsec(e) \in Nat /\ SoftTickFromMilsec(e) < TickMod
<1>1. e \in Nat /\ TickRate \in Nat \ {0}
  BY SoftTimerAssumption
<1>2. e \div TickRate \in Nat
  BY <1>1
<1> QED BY <1>2, SoftTimerAssumption DEF SoftTickFromMilsec

\* What dividing leaves.
LEMMA QuotientAndRest ==
  ASSUME NEW e \in Nat, NEW r \in Nat \ {0}
  PROVE  /\ e \div r \in Nat /\ e % r \in 0..(r - 1)
         /\ e = (e \div r) * r + (e % r)
OBVIOUS

\* One tick less is a tick's worth of milliseconds less.
LEMMA TicksInMilsec ==
  ASSUME NEW q \in Nat, NEW r \in Nat
  PROVE  /\ (q - 1) * r = q * r - r
         /\ (q + 1) * r = q * r + r
         /\ (q + 1 - 1) * r = q * r
         /\ q * r \in Nat
OBVIOUS

\* get_soft_tick_from_milsec rounds up, and by less than a tick.
LEMMA RoundedUp ==
  ASSUME NEW e \in Expires
  PROVE  Covers(SoftTickFromMilsec(e), e)
<1> DEFINE q == e \div TickRate
           r == e % TickRate
           whole == q * TickRate
<1>1. e \in Nat /\ TickRate \in Nat \ {0}
  BY SoftTimerAssumption
<1>2. q \in Nat /\ r \in 0..(TickRate - 1) /\ e = whole + r
  BY <1>1, QuotientAndRest
<1>3. SoftTickFromMilsec(e) = IF r # 0 THEN q + 1 ELSE q
  BY <1>1, <1>2 DEF SoftTickFromMilsec
<1> HIDE DEF q, r
<1>4. /\ whole \in Nat /\ (q - 1) * TickRate = whole - TickRate
      /\ (q + 1) * TickRate = whole + TickRate /\ (q + 1 - 1) * TickRate = whole
  BY <1>1, <1>2, TicksInMilsec
<1> HIDE DEF whole
<1>5. CASE r = 0
  <2>1. SoftTickFromMilsec(e) = q
    BY <1>3, <1>5
  <2>2. whole - TickRate < e /\ e <= whole
    BY <1>1, <1>2, <1>4, <1>5
  <2>3. q * TickRate = whole
    BY DEF whole
  <2> QED BY <2>1, <2>2, <2>3, <1>4 DEF Covers
<1>6. CASE r # 0
  <2>1. SoftTickFromMilsec(e) = q + 1
    BY <1>3, <1>6
  <2>2. whole < e /\ e <= whole + TickRate
    BY <1>1, <1>2, <1>4, <1>6
  <2>3. (q + 1 - 1) * TickRate < e /\ e <= (q + 1) * TickRate
    BY <2>2, <1>4, Zenon
  <2>4. Covers(q + 1, e)
    BY <1>1, <1>2, <2>3 DEF Covers
  <2> QED BY <2>1, <2>4
<1> QED BY <1>5, <1>6

\* Fewer ticks are no more milliseconds.
LEMMA FewerTicks ==
  ASSUME NEW e \in Expires, NEW n \in Nat, n <= SoftTickFromMilsec(e)
  PROVE  (n - 1) * TickRate < e
<1> DEFINE k == SoftTickFromMilsec(e)
<1>1. e \in Nat /\ TickRate \in Nat /\ k \in Nat /\ (k - 1) * TickRate < e
  BY RoundedUp, TicksOfTimeout, SoftTimerAssumption DEF Covers
<1>2. n <= k
  OBVIOUS
<1> HIDE DEF k
<1>3. (n - 1) * TickRate <= (k - 1) * TickRate
  BY <1>1, <1>2, SMTT(30)
<1>4. (n - 1) * TickRate \in Int /\ (k - 1) * TickRate \in Int
  BY <1>1
<1> QED BY <1>1, <1>3, <1>4

\* Where soft_timer_add puts the expiry of a timer.
LEMMA ExpiryValue ==
  ASSUME NEW e \in Expires, tick \in Ticks
  PROVE  /\ Expiry(e) \in Ticks
         /\ Expiry(e) = IF tick + SoftTickFromMilsec(e) < TickMod
                          THEN tick + SoftTickFromMilsec(e)
                          ELSE tick + SoftTickFromMilsec(e) - TickMod
<1> DEFINE n == SoftTickFromMilsec(e)
<1>1. n \in Nat /\ n < TickMod /\ TickMod \in Nat \ {0} /\ tick \in 0..(TickMod - 1)
  BY TicksOfTimeout, SoftTimerAssumption DEF Ticks
<1> HIDE DEF n
<1>3. (tick + n) % TickMod = IF tick + n < TickMod THEN tick + n ELSE tick + n - TickMod
  <2>1. n \in 0..TickMod
    BY <1>1
  <2> QED BY <1>1, <2>1, SumWrap
<1>4. (tick + n) % TickMod \in 0..(TickMod - 1)
  BY <1>1, <1>3
<1> QED BY <1>3, <1>4 DEF Expiry, Ticks, n

\* The next tick.
LEMMA NextTick ==
  ASSUME tick \in Ticks
  PROVE  /\ (tick + 1) % TickMod \in Ticks
         /\ (tick + 1) % TickMod = IF tick + 1 = TickMod THEN 0 ELSE tick + 1
<1>1. TickMod \in Nat \ {0} /\ tick \in 0..(TickMod - 1)
  BY SoftTimerAssumption DEF Ticks
<1>2. (tick + 1) % TickMod = IF tick + 1 < TickMod THEN tick + 1 ELSE tick + 1 - TickMod
  <2>1. 1 \in 0..TickMod
    BY <1>1
  <2> QED BY <1>1, <2>1, SumWrap
<1> QED BY <1>1, <1>2 DEF Ticks

-----------------------------------------------------------------------------
(* The invariant.                                                          *)

\* What soft_timer_del leaves of the lists.
LEMMA DelFromLists ==
  ASSUME TypeOK, WheelConsistent, NEW t \in Timers, Del(t)
  PROVE  /\ buckets' \in [Buckets -> Seq(Timers)]
         /\ timeout_list' \in Seq(Timers)
         /\ NoDuplicates(timeout_list')
         /\ Linked(timeout_list') = Linked(timeout_list) \ {t}
         /\ \A b \in Buckets : /\ NoDuplicates(buckets'[b])
                              /\ Linked(buckets'[b]) = Linked(buckets[b]) \ {t}
<1>1. /\ buckets' = [b \in Buckets |-> ListDelInit(buckets[b], t)]
      /\ timeout_list' = ListDelInit(timeout_list, t)
  BY DEF Del
<1>2. ASSUME NEW b \in Buckets
      PROVE  /\ ListDelInit(buckets[b], t) \in Seq(Timers)
             /\ NoDuplicates(ListDelInit(buckets[b], t))
             /\ Linked(ListDelInit(buckets[b], t)) = Linked(buckets[b]) \ {t}
  BY ListDelInitProperties DEF TypeOK, WheelConsistent
<1>3. /\ timeout_list' \in Seq(Timers)
      /\ NoDuplicates(timeout_list')
      /\ Linked(timeout_list') = Linked(timeout_list) \ {t}
  BY <1>1, ListDelInitProperties DEF TypeOK, WheelConsistent
<1> QED BY <1>1, <1>2, <1>3

\* What soft_timer_add leaves of the buckets.
LEMMA AddToLists ==
  ASSUME TypeOK, WheelConsistent, NEW t \in Timers, NEW e \in Expires, Add(t, e)
  PROVE  /\ Expiry(e) \in Ticks
         /\ Expiry(e) % NumBuckets \in Buckets
         /\ buckets' \in [Buckets -> Seq(Timers)]
         /\ \A b \in Buckets :
              /\ NoDuplicates(buckets'[b])
              /\ Linked(buckets'[b]) =
                   Linked(buckets[b]) \cup (IF b = Expiry(e) % NumBuckets THEN {t} ELSE {})
<1> DEFINE k == Expiry(e) % NumBuckets
<1>1. Expiry(e) \in Ticks
  BY ExpiryValue DEF TypeOK
<1>2. k \in Buckets
  BY <1>1, BucketIndex, SoftTimerAssumption DEF Ticks
<1>3. /\ buckets' = [buckets EXCEPT ![k] = ListAddTail(@, t)]
      /\ t \notin Linked(buckets[k])
  BY <1>2 DEF Add, IsRunning, InBuckets
<1> HIDE DEF k
<1>4. /\ ListAddTail(buckets[k], t) \in Seq(Timers)
      /\ NoDuplicates(ListAddTail(buckets[k], t))
      /\ Linked(ListAddTail(buckets[k], t)) = Linked(buckets[k]) \cup {t}
  BY <1>2, <1>3, ListAddTailProperties DEF TypeOK, WheelConsistent
<1>5. /\ buckets' \in [Buckets -> Seq(Timers)]
      /\ \A b \in Buckets :
           /\ NoDuplicates(buckets'[b])
           /\ Linked(buckets'[b]) = Linked(buckets[b]) \cup (IF b = k THEN {t} ELSE {})
  BY <1>2, <1>3, <1>4 DEF TypeOK, WheelConsistent
<1> QED BY <1>1, <1>2, <1>5 DEF k

\* The element a turn of the scan looks at.
LEMMA ScannedElement ==
  ASSUME IInv, phase = "scan", scan <= Len(buckets[current])
  PROVE  /\ current \in Buckets
         /\ scan \in 1..Len(buckets[current])
         /\ buckets[current][scan] \in Timers
         /\ buckets[current][scan] \in Linked(buckets[current])
<1>1. current \in Buckets
  <2>1. tick \in Nat
    BY SoftTimerAssumption DEF IInv, TypeOK, Ticks
  <2> QED BY <2>1, BucketIndex DEF current
<1>2. buckets[current] \in Seq(Timers) /\ scan \in Nat /\ scan >= 1
  BY <1>1 DEF IInv, TypeOK
<1>3. Len(buckets[current]) \in Nat /\ DOMAIN buckets[current] = 1..Len(buckets[current])
  BY <1>2, LenProperties
<1>4. scan \in 1..Len(buckets[current])
  BY <1>2, <1>3
<1>5. buckets[current][scan] \in Timers
  BY <1>2, <1>4, ElementOfSeq
<1> QED BY <1>1, <1>3, <1>4, <1>5 DEF Linked, Range

\* A turn of the scan that moves the element to timeout_list.
LEMMA ScanMoves ==
  ASSUME IInv, ScanNext, MatchesNow(buckets[current][scan])
  PROVE  LET p == buckets[current][scan] IN
         /\ p \in Timers /\ p \in Linked(buckets[current]) /\ p \notin Linked(timeout_list)
         /\ buckets' \in [Buckets -> Seq(Timers)]
         /\ timeout_list' \in Seq(Timers)
         /\ NoDuplicates(timeout_list')
         /\ Linked(timeout_list') = Linked(timeout_list) \cup {p}
         /\ \A b \in Buckets :
              /\ NoDuplicates(buckets'[b])
              /\ Linked(buckets'[b]) = Linked(buckets[b]) \ (IF b = current THEN {p} ELSE {})
         /\ \A i \in 1..Len(buckets'[current]) :
              i < scan => i \in 1..Len(buckets[current]) /\ buckets'[current][i] = buckets[current][i]
<1> DEFINE p == buckets[current][scan]
           s == buckets[current]
<1>1. /\ phase = "scan" /\ scan <= Len(s)
      /\ buckets' = [buckets EXCEPT ![current] = ListDelInit(@, p)]
      /\ timeout_list' = ListAddTail(timeout_list, p)
  BY DEF ScanNext
<1>2. current \in Buckets /\ scan \in 1..Len(s) /\ p \in Timers /\ p \in Linked(s)
  BY <1>1, ScannedElement
<1>3. s \in Seq(Timers) /\ NoDuplicates(s)
  BY <1>2 DEF IInv, TypeOK, WheelConsistent
<1>4. p \notin Linked(timeout_list)
  BY <1>2 DEF IInv, WheelConsistent
<1>5. /\ timeout_list' \in Seq(Timers) /\ NoDuplicates(timeout_list')
      /\ Linked(timeout_list') = Linked(timeout_list) \cup {p}
  BY <1>1, <1>2, <1>4, ListAddTailProperties DEF IInv, TypeOK, WheelConsistent
<1>6. /\ ListDelInit(s, p) \in Seq(Timers) /\ NoDuplicates(ListDelInit(s, p))
      /\ Linked(ListDelInit(s, p)) = Linked(s) \ {p}
  BY <1>3, ListDelInitProperties
<1>7. /\ Len(ListDelInit(s, p)) = Len(s) - 1
      /\ \A j \in 1..(scan - 1) : ListDelInit(s, p)[j] = s[j]
  BY <1>2, <1>3, ListDelInitPrefix
<1>8. buckets'[current] = ListDelInit(s, p)
  BY <1>1, <1>2 DEF IInv, TypeOK
<1>9. ASSUME NEW i \in 1..Len(buckets'[current]), i < scan
      PROVE  i \in 1..Len(s) /\ buckets'[current][i] = s[i]
  <2>1. Len(s) \in Nat /\ scan \in Nat
    BY <1>2, <1>3, LenProperties
  <2>2. i \in 1..(scan - 1) /\ i \in 1..Len(s)
    BY <2>1, <1>7, <1>8, <1>9
  <2> QED BY <2>2, <1>7, <1>8
<1>10. buckets' \in [Buckets -> Seq(Timers)]
  BY <1>1, <1>2, <1>6 DEF IInv, TypeOK
<1>11. ASSUME NEW b \in Buckets
       PROVE  /\ NoDuplicates(buckets'[b])
              /\ Linked(buckets'[b]) = Linked(buckets[b]) \ (IF b = current THEN {p} ELSE {})
  <2>1. CASE b = current
    BY <2>1, <1>6, <1>8
  <2>2. CASE b # current
    BY <2>2, <1>1 DEF IInv, TypeOK, WheelConsistent
  <2> QED BY <2>1, <2>2
<1> QED BY <1>2, <1>4, <1>5, <1>9, <1>10, <1>11

\* The inductive invariant holds in every state.
THEOREM InvariantHolds == Spec => []IInv
<1>1. Init => IInv
  <2> SUFFICES ASSUME Init PROVE IInv
    OBVIOUS
  <2>1. EmptyList \in Seq(Timers) /\ NoDuplicates(EmptyList) /\ Linked(EmptyList) = {}
    BY EmptyListProperties
  <2>2. 0 \in Ticks
    BY SoftTimerAssumption DEF Ticks
  <2>3. TypeOK
    BY <2>1, <2>2 DEF Init, TypeOK
  <2>4. WheelConsistent
    BY <2>1 DEF Init, WheelConsistent
  <2> QED BY <2>3, <2>4 DEF Init, IInv
<1>2. IInv /\ [Next]_vars => IInv'
  <2> SUFFICES ASSUME IInv, [Next]_vars PROVE IInv'
    OBVIOUS
  <2>0. TypeOK /\ WheelConsistent
    BY DEF IInv
  <2>1. ASSUME NEW t \in Timers, Del(t) PROVE IInv'
    <3>1. /\ buckets' \in [Buckets -> Seq(Timers)]
          /\ timeout_list' \in Seq(Timers)
          /\ NoDuplicates(timeout_list')
          /\ Linked(timeout_list') = Linked(timeout_list) \ {t}
          /\ \A b \in Buckets : /\ NoDuplicates(buckets'[b])
                               /\ Linked(buckets'[b]) = Linked(buckets[b]) \ {t}
      BY <2>0, <2>1, DelFromLists
    <3>2. TypeOK'
      BY <3>1, <2>0, <2>1 DEF Del, TypeOK
    <3>3. WheelConsistent'
      BY <3>1, <2>0, <2>1 DEF Del, WheelConsistent, MatchesNow
    <3>4. phase' = "app" => timeout_list' = EmptyList
      <4>1. timeout_list = EmptyList => Linked(timeout_list') = {}
        BY <3>1, EmptyListProperties
      <4> QED BY <4>1, <3>1, <2>1, LinkedSubset DEF Del, IInv
    <3> QED BY <3>2, <3>3, <3>4, <2>1 DEF Del, UserCode, IInv
  <2>2. ASSUME NEW t \in Timers, NEW e \in Expires, Add(t, e) PROVE IInv'
    <3>1. /\ Expiry(e) \in Ticks
          /\ Expiry(e) % NumBuckets \in Buckets
          /\ buckets' \in [Buckets -> Seq(Timers)]
          /\ \A b \in Buckets :
               /\ NoDuplicates(buckets'[b])
               /\ Linked(buckets'[b]) =
                    Linked(buckets[b]) \cup (IF b = Expiry(e) % NumBuckets THEN {t} ELSE {})
      BY <2>0, <2>2, AddToLists
    <3>2. TypeOK'
      BY <3>1, <2>0, <2>2 DEF Add, TypeOK
    <3>3. /\ elem_tick' = [elem_tick EXCEPT ![t] = Expiry(e)]
          /\ tick' = tick /\ timeout_list' = timeout_list
          /\ t \notin Linked(timeout_list)
          /\ \A b \in Buckets : t \notin Linked(buckets[b])
      BY <2>2 DEF Add, IsRunning, InBuckets
    <3>4. \A u \in Timers : elem_tick'[u] = IF u = t THEN Expiry(e) ELSE elem_tick[u]
      BY <3>3, <2>0 DEF TypeOK
    <3>5. ASSUME NEW u \in Timers, NEW b \in Buckets, u \in Linked(buckets'[b])
          PROVE  elem_tick'[u] % NumBuckets = b /\ u \notin Linked(timeout_list')
      BY <3>1, <3>3, <3>4, <3>5, <2>0 DEF WheelConsistent
    <3>6. \A u \in Linked(timeout_list') : elem_tick'[u] = tick'
      <4>1. Linked(timeout_list) \subseteq Timers
        BY <2>0, LinkedSubset DEF TypeOK
      <4> QED BY <4>1, <3>3, <3>4, <2>0 DEF WheelConsistent, MatchesNow
    <3>7. WheelConsistent'
      BY <3>1, <3>3, <3>5, <3>6, <2>0 DEF WheelConsistent, MatchesNow
    <3> QED BY <3>2, <3>7, <2>2 DEF Add, UserCode, IInv
  <2>3. CASE Drive
    <3>1. /\ phase = "app" /\ timeout_list = EmptyList
          /\ tick' = (tick + 1) % TickMod
          /\ scan' = 1 /\ phase' = "scan"
          /\ UNCHANGED << buckets, elem_tick, timeout_list, firing >>
      BY <2>3 DEF Drive, IInv
    <3>2. TypeOK'
      BY <3>1, <2>0, NextTick DEF TypeOK
    <3>3. Linked(timeout_list') = {}
      BY <3>1, EmptyListProperties
    <3>4. WheelConsistent'
      BY <3>1, <3>3, <2>0 DEF WheelConsistent
    <3>5. \A i \in 1..Len(buckets'[current']) : ~(i < scan')
      BY <3>1
    <3> QED BY <3>1, <3>2, <3>4, <3>5 DEF IInv
  <2>4. CASE ScanNext
    <3> DEFINE p == buckets[current][scan]
    <3>0. /\ phase = "scan" /\ scan <= Len(buckets[current])
          /\ UNCHANGED << tick, elem_tick, phase, firing >>
      BY <2>4 DEF ScanNext
    <3>1. /\ current \in Buckets /\ scan \in 1..Len(buckets[current])
          /\ p \in Timers /\ p \in Linked(buckets[current])
      BY <3>0, ScannedElement
    <3>a. current' = current
      BY <3>0 DEF current
    <3>2. CASE MatchesNow(p)
      <4>1. /\ p \in Timers /\ p \in Linked(buckets[current]) /\ p \notin Linked(timeout_list)
            /\ buckets' \in [Buckets -> Seq(Timers)]
            /\ timeout_list' \in Seq(Timers)
            /\ NoDuplicates(timeout_list')
            /\ Linked(timeout_list') = Linked(timeout_list) \cup {p}
            /\ \A b \in Buckets :
                 /\ NoDuplicates(buckets'[b])
                 /\ Linked(buckets'[b]) = Linked(buckets[b]) \ (IF b = current THEN {p} ELSE {})
            /\ \A i \in 1..Len(buckets'[current]) :
                 i < scan => i \in 1..Len(buckets[current]) /\ buckets'[current][i] = buckets[current][i]
        BY <2>4, <3>2, ScanMoves
      <4>2. scan' = scan
        BY <2>4, <3>2 DEF ScanNext
      <4> HIDE DEF p
      <4>3. TypeOK'
        BY <4>1, <4>2, <3>0, <2>0 DEF TypeOK
      <4>4. ASSUME NEW u \in Timers, NEW b \in Buckets, u \in Linked(buckets'[b])
            PROVE  elem_tick[u] % NumBuckets = b /\ u \notin Linked(timeout_list')
        <5>1. u \in Linked(buckets[b]) /\ (b = current => u # p)
          BY <4>1, <4>4
        <5>2. elem_tick[u] % NumBuckets = b /\ u \notin Linked(timeout_list)
          BY <5>1, <2>0 DEF WheelConsistent
        <5>3. elem_tick[p] % NumBuckets = current
          BY <4>1, <3>1, <2>0 DEF WheelConsistent
        <5> QED BY <5>1, <5>2, <5>3, <4>1
      <4>5. WheelConsistent'
        BY <4>1, <4>4, <3>0, <3>2, <2>0 DEF WheelConsistent, MatchesNow
      <4>6. \A i \in 1..Len(buckets'[current']) :
              i < scan' => ~(elem_tick'[buckets'[current'][i]] = tick')
        BY <4>1, <4>2, <3>0, <3>a DEF IInv, MatchesNow
      <4>7. phase' = "scan" /\ scan' >= 1
        BY <4>2, <3>0 DEF IInv
      <4> QED BY <4>3, <4>5, <4>6, <4>7 DEF IInv, MatchesNow
    <3>3. CASE ~MatchesNow(p)
      <4>1. scan' = scan + 1 /\ UNCHANGED << buckets, timeout_list >>
        BY <2>4, <3>3 DEF ScanNext
      <4>2. scan \in Nat /\ scan >= 1
        BY <3>0 DEF IInv, TypeOK
      <4>3. TypeOK'
        BY <4>1, <4>2, <3>0, <2>0 DEF TypeOK
      <4>4. WheelConsistent'
        BY <4>1, <3>0, <2>0 DEF WheelConsistent, MatchesNow
      <4>5. ASSUME NEW i \in 1..Len(buckets[current]), i < scan + 1
            PROVE  ~MatchesNow(buckets[current][i])
        <5>1. i < scan \/ i = scan
          BY <4>2, <4>5
        <5> QED BY <5>1, <3>0, <3>3 DEF IInv
      <4>6. \A i \in 1..Len(buckets'[current']) :
              i < scan' => ~(elem_tick'[buckets'[current'][i]] = tick')
        BY <4>1, <4>5, <3>0, <3>a DEF MatchesNow
      <4>7. phase' = "scan" /\ scan' >= 1
        BY <4>1, <4>2, <3>0
      <4> QED BY <4>3, <4>4, <4>6, <4>7 DEF IInv, MatchesNow
    <3> QED BY <3>2, <3>3
  <2>5. CASE ScanDone
    BY <2>5 DEF ScanDone, IInv, TypeOK, WheelConsistent, MatchesNow
  <2>6. CASE Expire
    <3>1. /\ Head(timeout_list) \in Timers
          /\ timeout_list' \in Seq(Timers) /\ NoDuplicates(timeout_list')
          /\ Linked(timeout_list') = Linked(timeout_list) \ {Head(timeout_list)}
      BY <2>0, <2>6, HeadTailOfList DEF Expire, TypeOK, WheelConsistent
    <3>2. TypeOK'
      BY <3>1, <2>0, <2>6 DEF Expire, TypeOK
    <3>3. WheelConsistent'
      BY <3>1, <2>0, <2>6 DEF Expire, WheelConsistent, MatchesNow
    <3> QED BY <3>2, <3>3, <2>6 DEF Expire, IInv
  <2>7. CASE CallbackReturn
    BY <2>7 DEF CallbackReturn, IInv, TypeOK, WheelConsistent, MatchesNow
  <2>8. CASE TickDone
    BY <2>8 DEF TickDone, IInv, TypeOK, WheelConsistent, MatchesNow
  <2>9. CASE UNCHANGED vars
    BY <2>9 DEF vars, IInv, TypeOK, WheelConsistent, MatchesNow, current
  <2> QED
    BY <2>1, <2>2, <2>3, <2>4, <2>5, <2>6, <2>7, <2>8, <2>9 DEF Next, UserStep, TimerTick
<1> QED BY <1>1, <1>2, PTL DEF Spec

\* The variables of soft_timer.c keep their types.
THEOREM TypeCorrect == Spec => []TypeOK
<1>1. IInv => TypeOK
  BY DEF IInv
<1> QED BY <1>1, InvariantHolds, PTL

\* Callbacks that start and stop timers never corrupt the wheel.
THEOREM WheelStaysConsistent == Spec => []WheelConsistent
<1>1. IInv => WheelConsistent
  BY DEF IInv
<1> QED BY <1>1, InvariantHolds, PTL

-----------------------------------------------------------------------------
(* Who runs after a step: what the components that own the timers rely on. *)

\* soft_timer_add starts one timer.
LEMMA RunningAfterAdd ==
  ASSUME IInv, NEW t \in Timers, NEW e \in Expires, Add(t, e)
  PROVE  \A u \in Timers : IsRunning(u)' <=> IsRunning(u) \/ u = t
<1>1. /\ Expiry(e) % NumBuckets \in Buckets
      /\ \A b \in Buckets :
           Linked(buckets'[b]) =
             Linked(buckets[b]) \cup (IF b = Expiry(e) % NumBuckets THEN {t} ELSE {})
  BY AddToLists DEF IInv
<1>2. timeout_list' = timeout_list
  BY DEF Add
<1> QED BY <1>1, <1>2 DEF IsRunning, InBuckets

\* soft_timer_del stops one timer.
LEMMA RunningAfterDel ==
  ASSUME IInv, NEW t \in Timers, Del(t)
  PROVE  \A u \in Timers : IsRunning(u)' <=> IsRunning(u) /\ u # t
<1>1. /\ Linked(timeout_list') = Linked(timeout_list) \ {t}
      /\ \A b \in Buckets : Linked(buckets'[b]) = Linked(buckets[b]) \ {t}
  BY DelFromLists DEF IInv
<1> QED BY <1>1 DEF IsRunning, InBuckets

\* A turn of the scan moves a timer from one list to the other, or none.
LEMMA RunningAfterScan ==
  ASSUME IInv, ScanNext
  PROVE  \A u \in Timers : IsRunning(u)' <=> IsRunning(u)
<1> DEFINE p == buckets[current][scan]
<1>1. CASE MatchesNow(p)
  <2>1. /\ p \in Linked(buckets[current])
        /\ Linked(timeout_list') = Linked(timeout_list) \cup {p}
        /\ \A b \in Buckets :
             Linked(buckets'[b]) = Linked(buckets[b]) \ (IF b = current THEN {p} ELSE {})
    BY <1>1, ScanMoves
  <2>2. current \in Buckets
    BY ScannedElement DEF ScanNext
  <2> QED BY <2>1, <2>2 DEF IsRunning, InBuckets
<1>2. CASE ~MatchesNow(p)
  BY <1>2 DEF ScanNext, IsRunning, InBuckets
<1> QED BY <1>1, <1>2

\* The timer whose callback timer_tick calls was running, and is stopped.
LEMMA RunningAfterExpire ==
  ASSUME IInv, Expire
  PROVE  \E t \in Timers :
           /\ firing' = {t} /\ IsRunning(t)
           /\ \A u \in Timers : IsRunning(u)' <=> IsRunning(u) /\ u # t
<1> DEFINE t == Head(timeout_list)
<1>1. /\ timeout_list \in Seq(Timers) /\ NoDuplicates(timeout_list) /\ timeout_list # EmptyList
      /\ timeout_list' = Tail(timeout_list) /\ firing' = {t} /\ buckets' = buckets
  BY DEF Expire, IInv, TypeOK, WheelConsistent
<1>2. /\ t \in Timers /\ t \in Linked(timeout_list)
      /\ Linked(timeout_list') = Linked(timeout_list) \ {t}
  BY <1>1, HeadTailOfList
<1> HIDE DEF t
<1>3. ~InBuckets(t)
  BY <1>2 DEF IInv, WheelConsistent, InBuckets
<1> QED BY <1>1, <1>2, <1>3 DEF IsRunning, InBuckets

-----------------------------------------------------------------------------
(* What each step does to the waiting times: the refinement mapping.       *)

\* Outside the scan, the timers whose time is up are those in timeout_list.
LEMMA DueOf ==
  ASSUME timeout_list \in Seq(Timers), phase # "scan"
  PROVE  Due = Linked(timeout_list)
<1>1. Linked(timeout_list) \subseteq Timers
  BY LinkedSubset
<1> QED BY <1>1 DEF Due

\* The same after a step.
LEMMA DueAfter ==
  ASSUME timeout_list' \in Seq(Timers), phase' # "scan"
  PROVE  Due' = Linked(timeout_list')
<1>1. Linked(timeout_list') \subseteq Timers
  BY LinkedSubset
<1> QED BY <1>1 DEF Due

\* A running timer that is not due has some ticks to go.
LEMMA LeftPositive ==
  ASSUME TypeOK, NEW t \in Timers
  PROVE  /\ Left(t) \in Nat
         /\ Left(t) > 0 <=> InBuckets(t) /\ t \notin Due
<1>1. /\ elem_tick[t] \in 0..(TickMod - 1) /\ tick \in 0..(TickMod - 1)
      /\ TickMod \in Nat \ {0}
  BY SoftTimerAssumption DEF TypeOK, Ticks
<1> QED BY <1>1 DEF Left

\* soft_timer_del
LEMMA DelLeft ==
  ASSUME IInv, IInv', NEW t \in Timers, Del(t)
  PROVE  /\ Due' = Due \ {t}
         /\ \A u \in Timers : Left(u)' = IF u = t THEN 0 ELSE Left(u)
<1>1. /\ Linked(timeout_list') = Linked(timeout_list) \ {t}
      /\ \A b \in Buckets : Linked(buckets'[b]) = Linked(buckets[b]) \ {t}
  BY DelFromLists DEF IInv
<1>2. Due = Linked(timeout_list) /\ Due' = Linked(timeout_list')
  BY DueOf, DueAfter DEF IInv, TypeOK, Del, UserCode
<1>3. \A u \in Timers : InBuckets(u)' <=> InBuckets(u) /\ u # t
  BY <1>1 DEF InBuckets
<1>4. tick' = tick /\ elem_tick' = elem_tick
  BY DEF Del
<1> QED BY <1>1, <1>2, <1>3, <1>4 DEF Left

\* soft_timer_add, for a timeout of at least one tick
LEMMA AddLeft ==
  ASSUME IInv, IInv', NEW t \in Timers, NEW e \in Expires, Add(t, e),
         SoftTickFromMilsec(e) > 0
  PROVE  /\ Due' = Due
         /\ t \notin Due /\ ~InBuckets(t)
         /\ \A u \in Timers : Left(u)' = IF u = t THEN SoftTickFromMilsec(e) ELSE Left(u)
<1> DEFINE n == SoftTickFromMilsec(e)
<1>1. /\ Expiry(e) % NumBuckets \in Buckets
      /\ \A b \in Buckets :
           Linked(buckets'[b]) =
             Linked(buckets[b]) \cup (IF b = Expiry(e) % NumBuckets THEN {t} ELSE {})
  BY AddToLists DEF IInv
<1>2. Due = Linked(timeout_list) /\ Due' = Linked(timeout_list')
  BY DueOf, DueAfter DEF IInv, TypeOK, Add, UserCode
<1>3. /\ elem_tick' = [elem_tick EXCEPT ![t] = Expiry(e)]
      /\ tick' = tick /\ timeout_list' = timeout_list
      /\ t \notin Linked(timeout_list) /\ ~InBuckets(t)
  BY DEF Add, IsRunning
<1>4. \A u \in Timers : InBuckets(u)' <=> InBuckets(u) \/ u = t
  BY <1>1 DEF InBuckets
<1>5. \A u \in Timers : elem_tick'[u] = IF u = t THEN Expiry(e) ELSE elem_tick[u]
  BY <1>3 DEF IInv, TypeOK
<1>6. /\ n \in Nat /\ n > 0 /\ n < TickMod /\ TickMod \in Nat /\ tick \in 0..(TickMod - 1)
      /\ Expiry(e) = IF tick + n < TickMod THEN tick + n ELSE tick + n - TickMod
  BY ExpiryValue, TicksOfTimeout, SoftTimerAssumption DEF IInv, TypeOK, Ticks
<1> HIDE DEF n
<1>7. Left(t)' = n
  BY <1>2, <1>3, <1>4, <1>5, <1>6 DEF Left
<1>8. ASSUME NEW u \in Timers, u # t PROVE Left(u)' = Left(u)
  BY <1>2, <1>3, <1>4, <1>5, <1>8 DEF Left
<1> QED BY <1>2, <1>3, <1>7, <1>8 DEF n

\* The head of timer_tick: one tick less for everybody.
LEMMA DriveLeft ==
  ASSUME IInv, IInv', Drive
  PROVE  /\ Due = {}
         /\ Due' = { t \in Timers : Left(t) = 1 }
         /\ \A t \in Timers : Left(t)' = IF Left(t) = 0 THEN 0 ELSE Left(t) - 1
<1>1. /\ phase = "app" /\ phase' = "scan" /\ timeout_list = EmptyList
      /\ tick' = (tick + 1) % TickMod
      /\ UNCHANGED << buckets, elem_tick, timeout_list >>
  BY DEF Drive, IInv
<1>2. Linked(timeout_list) = {}
  BY <1>1, EmptyListProperties
<1>3. Due = {}
  BY <1>1, <1>2, DueOf DEF IInv, TypeOK
<1>4. \A t \in Timers : InBuckets(t)' <=> InBuckets(t)
  BY <1>1 DEF InBuckets
<1>5. Due' = { t \in Timers : InBuckets(t) /\ elem_tick[t] = tick' }
  BY <1>1, <1>2, <1>4 DEF Due, MatchesNow
<1>6. tick' = IF tick + 1 = TickMod THEN 0 ELSE tick + 1
  BY <1>1, NextTick DEF IInv, TypeOK
<1>7. TickMod \in Nat \ {0} /\ tick \in 0..(TickMod - 1)
  BY SoftTimerAssumption DEF IInv, TypeOK, Ticks
<1>8. ASSUME NEW t \in Timers
      PROVE  /\ Left(t) = 1 <=> InBuckets(t) /\ elem_tick[t] = tick'
             /\ Left(t)' = IF Left(t) = 0 THEN 0 ELSE Left(t) - 1
  <2>1. elem_tick[t] \in 0..(TickMod - 1) /\ elem_tick'[t] = elem_tick[t]
    BY <1>1 DEF IInv, TypeOK, Ticks
  <2>2. Left(t) = IF ~InBuckets(t) THEN 0
                  ELSE IF elem_tick[t] > tick THEN elem_tick[t] - tick
                  ELSE elem_tick[t] - tick + TickMod
    BY <1>3 DEF Left
  <2>3. Left(t)' = IF ~InBuckets(t) \/ elem_tick[t] = tick' THEN 0
                   ELSE IF elem_tick[t] > tick' THEN elem_tick[t] - tick'
                   ELSE elem_tick[t] - tick' + TickMod
    BY <1>4, <1>5, <2>1 DEF Left
  <2>4. Left(t) = 1 <=> InBuckets(t) /\ elem_tick[t] = tick'
    BY <1>6, <1>7, <2>1, <2>2
  <2>5. Left(t)' = IF Left(t) = 0 THEN 0 ELSE Left(t) - 1
    <3>1. CASE ~InBuckets(t)
      BY <3>1, <2>2, <2>3
    <3>2. CASE InBuckets(t) /\ tick + 1 = TickMod
      BY <3>2, <1>6, <1>7, <2>1, <2>2, <2>3
    <3>3. CASE InBuckets(t) /\ tick + 1 # TickMod
      BY <3>3, <1>6, <1>7, <2>1, <2>2, <2>3
    <3> QED BY <3>1, <3>2, <3>3
  <2> QED BY <2>4, <2>5
<1> QED BY <1>3, <1>5, <1>8

\* The scan moves timers that are due, and finds them all.
LEMMA ScanLeft ==
  ASSUME IInv, IInv', ScanNext \/ ScanDone
  PROVE  /\ Due' = Due
         /\ \A t \in Timers : Left(t)' = Left(t)
<1>1. Linked(timeout_list) \subseteq Timers /\ phase = "scan" /\ UNCHANGED << tick, elem_tick >>
  BY LinkedSubset DEF IInv, TypeOK, ScanNext, ScanDone
<1>2. CASE ScanNext /\ MatchesNow(buckets[current][scan])
  <2> DEFINE p == buckets[current][scan]
  <2>1. /\ p \in Timers /\ p \in Linked(buckets[current])
        /\ Linked(timeout_list') = Linked(timeout_list) \cup {p}
        /\ \A b \in Buckets :
             Linked(buckets'[b]) = Linked(buckets[b]) \ (IF b = current THEN {p} ELSE {})
    BY <1>2, ScanMoves
  <2>2. current \in Buckets /\ phase' = "scan"
    BY <1>1, <1>2, ScannedElement DEF ScanNext
  <2>3. MatchesNow(p)
    BY <1>2
  <2> HIDE DEF p
  <2>4. \A b \in Buckets : p \in Linked(buckets[b]) => b = current
    BY <2>1, <2>2, <2>3 DEF IInv, WheelConsistent, MatchesNow, current
  <2>5. \A t \in Timers : InBuckets(t)' <=> InBuckets(t) /\ t # p
    BY <2>1, <2>2, <2>4 DEF InBuckets
  <2>6. InBuckets(p)
    BY <2>1, <2>2 DEF InBuckets
  <2>7. Due' = Due
    BY <1>1, <2>1, <2>2, <2>3, <2>5, <2>6 DEF Due, MatchesNow
  <2>8. p \in Due
    BY <2>1, <2>3, <2>6, <1>1 DEF Due
  <2> QED BY <1>1, <2>5, <2>7, <2>8 DEF Left
<1>3. CASE ScanNext /\ ~MatchesNow(buckets[current][scan])
  <2>1. UNCHANGED << buckets, timeout_list, phase >>
    BY <1>3 DEF ScanNext
  <2> QED BY <1>1, <2>1 DEF Due, Left, InBuckets, MatchesNow
<1>4. CASE ScanDone
  <2>1. /\ UNCHANGED << buckets, timeout_list >>
        /\ phase' = "expire" /\ scan > Len(buckets[current])
    BY <1>4 DEF ScanDone
  <2>2. ASSUME NEW t \in Timers, InBuckets(t), MatchesNow(t)
        PROVE  FALSE
    <3>1. PICK b \in Buckets : t \in Linked(buckets[b])
      BY <2>2 DEF InBuckets
    <3>2. b = current
      BY <3>1, <2>2 DEF IInv, WheelConsistent, MatchesNow, current
    <3>3. buckets[current] \in Seq(Timers)
      BY <3>2 DEF IInv, TypeOK
    <3>4. DOMAIN buckets[current] = 1..Len(buckets[current]) /\ Len(buckets[current]) \in Nat
      BY <3>3, LenProperties
    <3>5. PICK i \in 1..Len(buckets[current]) : buckets[current][i] = t
      BY <3>1, <3>2, <3>4 DEF Linked, Range
    <3>6. i < scan
      BY <3>4, <3>5, <2>1 DEF IInv, TypeOK
    <3> QED BY <3>5, <3>6, <1>1, <2>2 DEF IInv
  <2>3. Due' = Due
    BY <1>1, <2>1, <2>2 DEF Due
  <2> QED BY <1>1, <2>1, <2>3 DEF Left, InBuckets
<1> QED BY <1>2, <1>3, <1>4

\* The timer at the head of timeout_list is called.
LEMMA ExpireLeft ==
  ASSUME IInv, IInv', Expire
  PROVE  /\ Head(timeout_list) \in Timers
         /\ Head(timeout_list) \in Due
         /\ Due' = Due \ {Head(timeout_list)}
         /\ \A t \in Timers : Left(t)' = Left(t)
<1> DEFINE h == Head(timeout_list)
<1>1. /\ h \in Timers /\ h \in Linked(timeout_list)
      /\ Linked(timeout_list') = Linked(timeout_list) \ {h}
  BY HeadTailOfList DEF Expire, IInv, TypeOK, WheelConsistent
<1>2. UNCHANGED << tick, buckets, elem_tick >>
  BY DEF Expire
<1>3. Due = Linked(timeout_list) /\ Due' = Linked(timeout_list')
  BY DueOf, DueAfter DEF IInv, TypeOK, Expire
<1> HIDE DEF h
<1>4. ~InBuckets(h)
  BY <1>1 DEF InBuckets, IInv, WheelConsistent
<1>5. \A t \in Timers : InBuckets(t)' <=> InBuckets(t)
  BY <1>2 DEF InBuckets
<1>6. \A t \in Timers : Left(t)' = Left(t)
  BY <1>1, <1>2, <1>3, <1>4, <1>5 DEF Left
<1> QED BY <1>1, <1>3, <1>6 DEF h

\* Returning from a callback, and from timer_tick.
LEMMA ReturnLeft ==
  ASSUME IInv, IInv', CallbackReturn \/ TickDone \/ UNCHANGED vars
  PROVE  /\ Due' = Due
         /\ \A t \in Timers : Left(t)' = Left(t)
<1>1. UNCHANGED << tick, buckets, elem_tick, timeout_list >> /\ (phase' = "scan" <=> phase = "scan")
  BY DEF CallbackReturn, TickDone, vars
<1>2. Due' = Due
  BY <1>1 DEF Due, InBuckets, MatchesNow
<1> QED BY <1>1, <1>2 DEF Left, InBuckets

-----------------------------------------------------------------------------
(* Timers fire when they should.                                           *)

\* No timer asks for nothing.
NoZeroTimeout == \A e \in Expires : SoftTickFromMilsec(e) > 0

\* The same bound in ticks, as soft_timer_add rounds them.
TicksBounded ==
  \A t \in Timers : \E e \in Expires : Left(t) <= SoftTickFromMilsec(e)

\* When every timeout is at least a tick long, a running timer never has
\* longer to wait than the longest timeout the program asks for, in
\* milliseconds and up to the part of a tick that is rounded up.
THEOREM WaitsAreBounded ==
  ASSUME NoZeroTimeout, Expires # {}
  PROVE  Spec => []NoneWaitsTooLong
<1>1. Init => TicksBounded
  <2> SUFFICES ASSUME Init, NEW t \in Timers
               PROVE  \E e \in Expires : Left(t) <= SoftTickFromMilsec(e)
    BY DEF TicksBounded
  <2>1. ~InBuckets(t)
    BY EmptyListProperties DEF Init, InBuckets
  <2>2. Left(t) = 0
    BY <2>1 DEF Left
  <2> QED BY <2>2, TicksOfTimeout
<1>2. IInv /\ IInv' /\ TicksBounded /\ [Next]_vars => TicksBounded'
  <2> SUFFICES ASSUME IInv, IInv', TicksBounded, [Next]_vars, NEW t \in Timers
               PROVE  \E e \in Expires : Left(t)' <= SoftTickFromMilsec(e)
    BY DEF TicksBounded
  <2>1. PICK e \in Expires : Left(t) <= SoftTickFromMilsec(e)
    BY DEF TicksBounded
  <2>2. Left(t) \in Nat /\ SoftTickFromMilsec(e) \in Nat
    BY <2>1, LeftPositive, TicksOfTimeout DEF IInv
  <2>3. ASSUME NEW u \in Timers, Del(u) PROVE Left(t)' <= SoftTickFromMilsec(e)
    BY <2>1, <2>2, <2>3, DelLeft
  <2>4. ASSUME NEW u \in Timers, NEW f \in Expires, Add(u, f)
        PROVE  Left(t)' <= SoftTickFromMilsec(e) \/ Left(t)' <= SoftTickFromMilsec(f)
    <3>1. SoftTickFromMilsec(f) \in Nat
      BY TicksOfTimeout
    <3> QED BY <3>1, <2>1, <2>2, <2>4, AddLeft DEF NoZeroTimeout
  <2>5. CASE Drive
    BY <2>1, <2>2, <2>5, DriveLeft
  <2>6. CASE ScanNext \/ ScanDone
    BY <2>1, <2>6, ScanLeft
  <2>7. CASE Expire
    BY <2>1, <2>7, ExpireLeft
  <2>8. CASE CallbackReturn \/ TickDone \/ UNCHANGED vars
    BY <2>1, <2>8, ReturnLeft
  <2> QED
    BY <2>1, <2>3, <2>4, <2>5, <2>6, <2>7, <2>8 DEF Next, UserStep, TimerTick
<1>3. IInv /\ TicksBounded => NoneWaitsTooLong
  <2> SUFFICES ASSUME IInv, TicksBounded, NEW t \in Timers
               PROVE  \E e \in Expires : (Left(t) - 1) * TickRate < e
    BY DEF NoneWaitsTooLong
  <2>1. PICK e \in Expires : Left(t) <= SoftTickFromMilsec(e)
    BY DEF TicksBounded
  <2>2. Left(t) \in Nat
    BY LeftPositive DEF IInv
  <2> QED BY <2>1, <2>2, FewerTicks
<1> QED BY <1>1, <1>2, <1>3, InvariantHolds, PTL DEF Spec

\* soft_timer.c implements TimerPromise: a timer fires in the tick it asked
\* for, once, unless it is stopped before its callback runs, whatever the
\* callbacks start and stop and however often the counter wraps.
THEOREM Refinement ==
  ASSUME NoZeroTimeout
  PROVE  Spec => ImplementsPromise
<1> DEFINE left == [t \in Timers |-> Left(t)]
           PromisedWaits == { n \in Ticks : \E e \in Expires : Covers(n, e) }
<1>1. Init => Promise!Init
  <2> SUFFICES ASSUME Init PROVE Promise!Init
    OBVIOUS
  <2>1. Due = {}
    BY EmptyListProperties DEF Init, Due
  <2>2. \A t \in Timers : ~InBuckets(t)
    BY EmptyListProperties DEF Init, InBuckets
  <2>3. \A t \in Timers : Left(t) = 0
    BY <2>2 DEF Left
  <2> QED BY <2>1, <2>3 DEF Init, Promise!Init
<1>2. IInv /\ IInv' /\ [Next]_vars => [Promise!Next]_(Promise!vars)
  <2> SUFFICES ASSUME IInv, IInv', [Next]_vars PROVE [Promise!Next]_(Promise!vars)
    OBVIOUS
  <2>0. TypeOK
    BY DEF IInv
  <2>1. ASSUME NEW t \in Timers, Del(t) PROVE Promise!Stop(t)
    <3>1. Due' = Due \ {t} /\ \A u \in Timers : Left(u)' = IF u = t THEN 0 ELSE Left(u)
      BY <2>1, DelLeft
    <3>2. left' = [left EXCEPT ![t] = 0]
      BY <3>1
    <3>3. left[t] > 0 \/ t \in Due
      <4>1. InBuckets(t) \/ t \in Due
        BY <2>1 DEF Del, IsRunning, Due
      <4> QED BY <4>1, <2>0, LeftPositive
    <3> QED BY <3>1, <3>2, <3>3, <2>1 DEF Del, UserCode, Promise!Stop, Promise!Running
  <2>2. ASSUME NEW t \in Timers, NEW e \in Expires, Add(t, e)
        PROVE  \E n \in PromisedWaits : Promise!Start(t, n)
    <3>1. /\ Due' = Due /\ t \notin Due /\ ~InBuckets(t)
          /\ \A u \in Timers : Left(u)' = IF u = t THEN SoftTickFromMilsec(e) ELSE Left(u)
      BY <2>2, AddLeft DEF NoZeroTimeout
    <3>2. left' = [left EXCEPT ![t] = SoftTickFromMilsec(e)]
      BY <3>1
    <3>3. ~(left[t] > 0 \/ t \in Due)
      BY <3>1, <2>0, LeftPositive
    <3>4. SoftTickFromMilsec(e) # 0
      BY TicksOfTimeout DEF NoZeroTimeout
    <3>5. Promise!Start(t, SoftTickFromMilsec(e))
      BY <3>1, <3>2, <3>3, <3>4, <2>2 DEF Add, UserCode, Promise!Start, Promise!Running
    <3>6. SoftTickFromMilsec(e) \in PromisedWaits
      BY RoundedUp, TicksOfTimeout, SoftTimerAssumption DEF Ticks
    <3> QED BY <3>5, <3>6
  <2>3. CASE Drive
    <3>1. /\ Due' = { t \in Timers : Left(t) = 1 }
          /\ \A t \in Timers : Left(t)' = IF Left(t) = 0 THEN 0 ELSE Left(t) - 1
      BY <2>3, DriveLeft
    <3>2. /\ Due' = { t \in Timers : left[t] = 1 }
          /\ left' = [t \in Timers |-> IF left[t] = 0 THEN 0 ELSE left[t] - 1]
      BY <3>1
    <3>3. Promise!Tick
      BY <3>2, <2>3 DEF Drive, Promise!Tick
    <3> QED BY <3>3 DEF Promise!Next
  <2>4. CASE ScanNext \/ ScanDone
    <3>1. Due' = Due /\ left' = left
      BY <2>4, ScanLeft
    <3> QED BY <3>1, <2>4 DEF ScanNext, ScanDone, Promise!vars
  <2>5. CASE Expire
    <3> DEFINE h == Head(timeout_list)
    <3>1. /\ h \in Timers /\ h \in Due /\ Due' = Due \ {h}
          /\ \A t \in Timers : Left(t)' = Left(t)
      BY <2>5, ExpireLeft
    <3>2. left' = left
      BY <3>1
    <3>3. Promise!Fire(h)
      BY <3>1, <3>2, <2>5 DEF Expire, Promise!Fire
    <3> QED BY <3>1, <3>3 DEF Promise!Next
  <2>6. CASE CallbackReturn
    <3>1. Due' = Due /\ left' = left
      BY <2>6, ReturnLeft
    <3>2. Promise!Return
      BY <3>1, <2>6 DEF CallbackReturn, Promise!Return
    <3> QED BY <3>2 DEF Promise!Next
  <2>7. CASE TickDone
    <3>1. Due' = Due /\ left' = left
      BY <2>7, ReturnLeft
    <3>2. Due = {}
      BY <2>7, <2>0, DueOf, EmptyListProperties DEF TickDone, TypeOK
    <3>3. Promise!TickOver
      BY <3>1, <3>2, <2>7 DEF TickDone, Promise!TickOver
    <3> QED BY <3>3 DEF Promise!Next
  <2>8. CASE UNCHANGED vars
    <3>1. Due' = Due /\ left' = left
      BY <2>8, ReturnLeft
    <3> QED BY <3>1, <2>8 DEF vars, Promise!vars
  <2> QED
    BY <2>1, <2>2, <2>3, <2>4, <2>5, <2>6, <2>7, <2>8 DEF Next, UserStep, TimerTick, Promise!Next
<1> QED BY <1>1, <1>2, InvariantHolds, PTL DEF Spec, ImplementsPromise, Promise!Spec
=============================================================================
