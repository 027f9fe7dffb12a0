----------------------- MODULE SoftTimerPointersProofs -----------------------
(***************************************************************************)
(* The pointers of the timer wheel, for every set of timers, number of     *)
(* buckets and width of the tick: soft_timer.c uses generic_list.h as it   *)
(* has to be used, its walk over a bucket that it is taking apart          *)
(* included.                                                               *)
(***************************************************************************)
EXTENDS SoftTimerPointers, SoftTimerProofs

\* The list heads, and the lists behind them.
Heads == Buckets \cup {timeout_head}

Lists == [h \in Heads |-> IF h = timeout_head THEN timeout_list ELSE buckets[h]]

\* Lists that no entry is on twice.
Apart(L) ==
  /\ L \in [Heads -> Seq(Timers)]
  /\ \A h \in Heads : NoDuplicates(L[h])
  /\ \A g, h \in Heads : g # h => Linked(L[g]) \cap Linked(L[h]) = {}

RingsAre(m, L) == \A h \in Heads : RingIs(m, h, L[h])

\* What a field may hold.
Values == Nodes \cup {null}

\* The inductive invariant: IInv of SoftTimer.tla holds beside it.
PInv == mem \in Memory(Nodes, Values) /\ PointersAgree

-----------------------------------------------------------------------------
(* Rings that lie apart                                                    *)

LEMMA NodesApart ==
  /\ Timers \subseteq Nodes /\ Heads \subseteq Nodes /\ Nodes \subseteq Values
  /\ Timers \cap Heads = {} /\ timeout_head \in Heads /\ timeout_head \notin Buckets
  /\ Buckets \subseteq Heads
BY AddressesAssumption DEF Nodes, Heads, Values

\* A timer on no list joins one: the other rings, and what is on none, stay.
LEMMA AddToRings ==
  ASSUME NEW m \in Memory(Nodes, Values), NEW L, Apart(L), RingsAre(m, L),
         NEW h \in Heads, NEW t \in Timers, \A g \in Heads : t \notin Linked(L[g])
  PROVE  /\ list_add_tail(m, t, h) \in Memory(Nodes, Values)
         /\ RingsAre(list_add_tail(m, t, h), [L EXCEPT ![h] = ListAddTail(@, t)])
         /\ \A u \in Timers \ {t} :
              u \notin Linked(L[h]) /\ Alone(m, u) => Alone(list_add_tail(m, t, h), u)
<1> DEFINE n == list_add_tail(m, t, h)
<1>1. /\ L[h] \in Seq(Timers) /\ NoDuplicates(L[h]) /\ Linked(L[h]) \subseteq Timers
      /\ h \in Nodes /\ t \in Nodes /\ h \notin Linked(L[h]) /\ t # h
      /\ Linked(L[h]) \subseteq Nodes /\ RingIs(m, h, L[h]) /\ t \notin Linked(L[h])
  BY NodesApart, LinkedSubset DEF Apart, RingsAre
<1>2. /\ n \in Memory(Nodes, Values)
      /\ RingIs(n, h, ListAddTail(L[h], t))
      /\ \A y \in Nodes \ ({t, h} \cup Linked(L[h])) :
           n.next[y] = m.next[y] /\ n.prev[y] = m.prev[y]
  BY <1>1, NodesApart, AddTailAppends
<1> HIDE DEF n
<1>3. ASSUME NEW g \in Heads, g # h
      PROVE  RingIs(n, g, L[g])
  <2>1. /\ L[g] \in Seq(Timers) /\ Linked(L[g]) \subseteq Timers
        /\ Linked(L[g]) \cap Linked(L[h]) = {} /\ RingIs(m, g, L[g])
        /\ t \notin Linked(L[g])
    BY <1>3, LinkedSubset DEF Apart, RingsAre
  <2>2. \A y \in {g} \cup Linked(L[g]) : n.next[y] = m.next[y] /\ n.prev[y] = m.prev[y]
    BY <1>1, <1>2, <1>3, <2>1, NodesApart
  <2> QED BY <2>1, <2>2, RingUntouched
<1>4. RingsAre(n, [L EXCEPT ![h] = ListAddTail(@, t)])
  BY <1>2, <1>3 DEF RingsAre, Apart
<1>5. \A u \in Timers \ {t} : u \notin Linked(L[h]) => u \in Nodes \ ({t, h} \cup Linked(L[h]))
  BY NodesApart
<1> QED BY <1>2, <1>4, <1>5 DEF n, Alone

\* A timer leaves the ring it is on, whatever its own fields hold afterwards.
LEMMA RemoveFromRings ==
  ASSUME NEW m \in Memory(Nodes, Values), NEW L, Apart(L), RingsAre(m, L),
         NEW h \in Heads, NEW t \in Linked(L[h]),
         NEW n \in Memory(Nodes, Values),
         \A y \in Nodes \ {t} : /\ n.next[y] = Unlink(m, t).next[y]
                                /\ n.prev[y] = Unlink(m, t).prev[y]
  PROVE  /\ RingsAre(n, [g \in Heads |-> ListDelInit(L[g], t)])
         /\ \A u \in Timers \ Linked(L[h]) : Alone(m, u) => Alone(n, u)
<1>1. /\ L[h] \in Seq(Timers) /\ NoDuplicates(L[h]) /\ Linked(L[h]) \subseteq Timers
      /\ h \in Nodes /\ h \notin Linked(L[h])
      /\ Linked(L[h]) \subseteq Nodes /\ RingIs(m, h, L[h])
  BY NodesApart, LinkedSubset DEF Apart, RingsAre
<1>2. n.next \in [Nodes -> Values] /\ n.prev \in [Nodes -> Values]
  BY DEF Memory
<1>3. /\ RingIs(n, h, ListDelInit(L[h], t))
      /\ \A y \in Nodes \ ({h} \cup Linked(L[h])) :
           n.next[y] = m.next[y] /\ n.prev[y] = m.prev[y]
  BY <1>1, <1>2, NodesApart, UnlinkRemoves
<1>4. ASSUME NEW g \in Heads, g # h
      PROVE  RingIs(n, g, ListDelInit(L[g], t))
  <2>1. /\ L[g] \in Seq(Timers) /\ Linked(L[g]) \subseteq Timers
        /\ Linked(L[g]) \cap Linked(L[h]) = {} /\ RingIs(m, g, L[g])
    BY <1>4, LinkedSubset DEF Apart, RingsAre
  <2>2. \A y \in {g} \cup Linked(L[g]) : n.next[y] = m.next[y] /\ n.prev[y] = m.prev[y]
    BY <1>1, <1>3, <1>4, <2>1, NodesApart
  <2>3. t \notin Linked(L[g])
    BY <2>1
  <2> QED BY <2>1, <2>2, <2>3, RingUntouched, DelInitAbsent
<1>5. \A u \in Timers \ Linked(L[h]) : u \in Nodes \ ({h} \cup Linked(L[h]))
  BY NodesApart
<1> QED BY <1>3, <1>4, <1>5 DEF RingsAre, Alone

\* list_del_init on the entry of a ring
LEMMA DelInitFromRings ==
  ASSUME NEW m \in Memory(Nodes, Values), NEW L, Apart(L), RingsAre(m, L),
         NEW h \in Heads, NEW t \in Linked(L[h])
  PROVE  /\ list_del_init(m, t) \in Memory(Nodes, Values)
         /\ RingsAre(list_del_init(m, t), [g \in Heads |-> ListDelInit(L[g], t)])
         /\ Alone(list_del_init(m, t), t)
         /\ \A u \in Timers \ Linked(L[h]) : Alone(m, u) => Alone(list_del_init(m, t), u)
<1> DEFINE u == Unlink(m, t)
           n == list_del_init(m, t)
<1>1. t \in Nodes
  BY NodesApart, LinkedSubset DEF Apart
<1>2. u \in Memory(Nodes, Values)
  <2>1. m.next \in [Nodes -> Values] /\ m.prev \in [Nodes -> Values]
    BY DEF Memory
  <2>2. m.prev[t] \in Values /\ m.next[t] \in Values
    BY <1>1, <2>1
  <2> QED BY <2>1, <2>2 DEF Unlink, JoinNeighbours, Memory
<1>3. n = INIT_LIST_HEAD(u, t)
  BY DEF list_del_init
<1> HIDE DEF u, n
<1>4. /\ n \in Memory(Nodes, Values) /\ Alone(n, t)
      /\ \A y \in Nodes \ {t} : n.next[y] = u.next[y] /\ n.prev[y] = u.prev[y]
  BY <1>1, <1>2, <1>3, NodesApart, InitListHead
<1>5. /\ RingsAre(n, [g \in Heads |-> ListDelInit(L[g], t)])
      /\ \A v \in Timers \ Linked(L[h]) : Alone(m, v) => Alone(n, v)
  BY <1>4, RemoveFromRings DEF u
<1> QED BY <1>4, <1>5 DEF n

\* The lists an entry has left still lie apart.
LEMMA RemovedApart ==
  ASSUME NEW L, Apart(L), NEW t
  PROVE  /\ Apart([g \in Heads |-> ListDelInit(L[g], t)])
         /\ \A g \in Heads : Linked(ListDelInit(L[g], t)) = Linked(L[g]) \ {t}
<1>1. \A g \in Heads : /\ ListDelInit(L[g], t) \in Seq(Timers)
                       /\ NoDuplicates(ListDelInit(L[g], t))
                       /\ Linked(ListDelInit(L[g], t)) = Linked(L[g]) \ {t}
  BY ListDelInitProperties DEF Apart
<1> QED BY <1>1 DEF Apart

-----------------------------------------------------------------------------
(* The wheel                                                               *)

\* What the invariants say of the lists, as the lemmas about rings ask.
LEMMA WheelApart ==
  ASSUME IInv
  PROVE  /\ Apart(Lists)
         /\ Lists[timeout_head] = timeout_list
         /\ \A b \in Buckets : Lists[b] = buckets[b]
         /\ \A t \in Timers : IsRunning(t) <=> \E h \in Heads : t \in Linked(Lists[h])
<1>1. /\ buckets \in [Buckets -> Seq(Timers)] /\ timeout_list \in Seq(Timers)
      /\ WheelConsistent
  BY DEF IInv, TypeOK
<1>2. Lists[timeout_head] = timeout_list /\ \A b \in Buckets : Lists[b] = buckets[b]
  BY NodesApart DEF Lists
<1>3. Lists \in [Heads -> Seq(Timers)]
  BY <1>1 DEF Lists, Heads
<1>4. \A h \in Heads : NoDuplicates(Lists[h])
  BY <1>1, <1>2 DEF Heads, WheelConsistent
<1>5. ASSUME NEW g \in Heads, NEW h \in Heads, g # h, NEW t \in Linked(Lists[g]),
             t \in Linked(Lists[h])
      PROVE  FALSE
  <2>1. t \in Timers
    BY <1>3, LinkedSubset
  <2> QED BY <1>1, <1>2, <1>5, <2>1 DEF Heads, WheelConsistent
<1>6. \A t \in Timers : IsRunning(t) <=> \E h \in Heads : t \in Linked(Lists[h])
  BY <1>2 DEF IsRunning, InBuckets, Heads
<1> QED BY <1>2, <1>3, <1>4, <1>5, <1>6 DEF Apart

\* The rings of the wheel and the timers that run, in terms of Lists.
LEMMA AgreeByLists ==
  ASSUME IInv
  PROVE  PointersAgree <=>
           /\ RingsAre(mem, Lists)
           /\ \A t \in Timers : (\A h \in Heads : t \notin Linked(Lists[h])) => Alone(mem, t)
           /\ phase = "scan" => /\ walk.p = Around(current, buckets[current], scan)
                                /\ walk.n = mem.next[walk.p]
BY WheelApart DEF PointersAgree, RingsAre, Heads

\* The same of the state after a step.
LEMMA AgreeAfter ==
  ASSUME mem' \in Memory(Nodes, Values), RingsAre(mem', Lists'),
         \A t \in Timers : (\A h \in Heads : t \notin Linked(Lists'[h])) => Alone(mem', t),
         phase' = "scan" => /\ walk'.p = Around(current', buckets'[current'], scan')
                            /\ walk'.n = mem'.next[walk'.p]
  PROVE  PInv'
<1>1. Lists'[timeout_head] = timeout_list' /\ \A b \in Buckets : Lists'[b] = buckets'[b]
  BY NodesApart DEF Lists
<1>2. \A b \in Buckets : RingIs(mem', b, buckets'[b])
  BY <1>1 DEF RingsAre, Heads
<1>3. RingIs(mem', timeout_head, timeout_list')
  BY <1>1 DEF RingsAre, Heads
<1>4. ASSUME NEW t \in Timers, ~IsRunning(t)' PROVE Alone(mem', t)
  BY <1>1, <1>4 DEF IsRunning, InBuckets, Heads
<1> QED BY <1>2, <1>3, <1>4 DEF PInv, PointersAgree

\* soft_timer_add
LEMMA AddAgrees ==
  ASSUME IInv, IInv', PInv, NEW t \in Timers, NEW e \in Expires, AddPointers(t, e)
  PROVE  PInv'
<1> DEFINE b == Expiry(e) % NumBuckets
<1>1. /\ Add(t, e) /\ ~IsRunning(t) /\ phase' # "scan"
      /\ buckets' = [buckets EXCEPT ![b] = ListAddTail(@, t)] /\ timeout_list' = timeout_list
      /\ mem' = list_add_tail(INIT_LIST_HEAD(mem, t), t, b)
  BY DEF AddPointers, Add, UserCode
<1>2. b \in Buckets /\ b \in Heads /\ buckets \in [Buckets -> Seq(Timers)]
  BY <1>1, AddToLists, NodesApart DEF IInv, TypeOK
<1>3. Lists' = [Lists EXCEPT ![b] = ListAddTail(@, t)]
  <2> HIDE DEF b
  <2>1. \A h \in Heads : Lists'[h] = IF h = b THEN ListAddTail(Lists[h], t) ELSE Lists[h]
    BY <1>1, <1>2, NodesApart DEF Lists, Heads
  <2>2. Lists' = [h \in Heads |-> Lists'[h]] /\ Lists = [h \in Heads |-> Lists[h]]
    BY DEF Lists
  <2> QED BY <1>2, <2>1, <2>2
<1>4. /\ Apart(Lists) /\ RingsAre(mem, Lists) /\ mem \in Memory(Nodes, Values)
      /\ \A h \in Heads : t \notin Linked(Lists[h])
      /\ \A u \in Timers : (\A h \in Heads : u \notin Linked(Lists[h])) => Alone(mem, u)
  BY <1>1, WheelApart, AgreeByLists DEF PInv
<1>5. INIT_LIST_HEAD(mem, t) = mem
  <2>1. /\ mem.next \in [Nodes -> Values] /\ mem.prev \in [Nodes -> Values]
        /\ mem = [next |-> mem.next, prev |-> mem.prev] /\ t \in Nodes /\ Alone(mem, t)
    BY <1>4, NodesApart DEF Memory
  <2>2. [mem.next EXCEPT ![t] = t] = mem.next /\ [mem.prev EXCEPT ![t] = t] = mem.prev
    BY <2>1 DEF Alone
  <2> QED BY <2>1, <2>2 DEF INIT_LIST_HEAD
<1> HIDE DEF b
<1>6. /\ mem' \in Memory(Nodes, Values) /\ RingsAre(mem', Lists')
      /\ \A u \in Timers \ {t} : u \notin Linked(Lists[b]) /\ Alone(mem, u) => Alone(mem', u)
  BY <1>1, <1>2, <1>3, <1>4, <1>5, AddToRings
<1>7. ASSUME NEW u \in Timers, \A h \in Heads : u \notin Linked(Lists'[h]) PROVE Alone(mem', u)
  <2>1. \A h \in Heads : Lists[h] \in Seq(Timers) /\ NoDuplicates(Lists[h])
    BY <1>4 DEF Apart
  <2>2. Linked(Lists'[b]) = Linked(Lists[b]) \cup {t}
    BY <1>2, <1>3, <1>4, <2>1, ListAddTailProperties DEF Apart
  <2>3. u # t /\ \A h \in Heads : u \notin Linked(Lists[h])
    <3>1. \A h \in Heads \ {b} : Lists'[h] = Lists[h]
      BY <1>3, <1>4 DEF Apart
    <3> QED BY <1>2, <1>7, <2>2, <3>1
  <2> QED BY <1>2, <1>4, <1>6, <2>3
<1> QED BY <1>1, <1>6, <1>7, AgreeAfter

\* soft_timer_del
LEMMA DelAgrees ==
  ASSUME IInv, IInv', PInv, NEW t \in Timers, DelPointers(t)
  PROVE  PInv'
<1>1. /\ IsRunning(t) /\ phase' = phase /\ phase # "scan"
      /\ buckets' = [b \in Buckets |-> ListDelInit(buckets[b], t)]
      /\ timeout_list' = ListDelInit(timeout_list, t)
      /\ mem' = list_del_init(mem, t)
  BY DEF DelPointers, Del, UserCode
<1>2. Lists' = [h \in Heads |-> ListDelInit(Lists[h], t)]
  <2>1. \A h \in Heads : Lists'[h] = ListDelInit(Lists[h], t)
    BY <1>1, NodesApart DEF Lists, Heads
  <2>2. Lists' = [h \in Heads |-> Lists'[h]]
    BY DEF Lists
  <2> QED BY <2>1, <2>2
<1>3. /\ Apart(Lists) /\ RingsAre(mem, Lists) /\ mem \in Memory(Nodes, Values)
      /\ \A u \in Timers : (\A h \in Heads : u \notin Linked(Lists[h])) => Alone(mem, u)
      /\ \E h \in Heads : t \in Linked(Lists[h])
  BY <1>1, WheelApart, AgreeByLists DEF PInv
<1>4. PICK h \in Heads : t \in Linked(Lists[h])
  BY <1>3
<1>5. /\ mem' \in Memory(Nodes, Values) /\ RingsAre(mem', Lists') /\ Alone(mem', t)
      /\ \A u \in Timers \ Linked(Lists[h]) : Alone(mem, u) => Alone(mem', u)
  BY <1>1, <1>2, <1>3, <1>4, DelInitFromRings
<1>6. ASSUME NEW u \in Timers, u # t, \A g \in Heads : u \notin Linked(Lists'[g])
      PROVE  \A g \in Heads : u \notin Linked(Lists[g])
  <2>1. \A g \in Heads : Lists[g] \in Seq(Timers) /\ NoDuplicates(Lists[g])
    BY <1>3 DEF Apart
  <2> QED BY <1>2, <1>6, <2>1, ListDelInitProperties
<1>7. \A u \in Timers : (\A g \in Heads : u \notin Linked(Lists'[g])) => Alone(mem', u)
  BY <1>3, <1>4, <1>5, <1>6
<1> QED BY <1>1, <1>5, <1>7, AgreeAfter

\* timer_tick up to its first loop
LEMMA DriveAgrees ==
  ASSUME IInv, IInv', PInv, DrivePointers
  PROVE  PInv'
<1> DEFINE c == current'
<1>0. c \in Buckets
  <2>1. tick' \in Nat
    BY DEF IInv, TypeOK, Ticks
  <2> QED BY <2>1, BucketIndex DEF current
<1>1. /\ phase = "app" /\ buckets' = buckets /\ timeout_list' = timeout_list /\ scan' = 1
      /\ timeout_list = EmptyList /\ c \in Buckets
      /\ mem' = INIT_LIST_HEAD(mem, timeout_head)
      /\ walk' = [p |-> mem'.next[c], n |-> mem'.next[mem'.next[c]]]
  BY <1>0 DEF DrivePointers, Drive, list_first_entry, IInv
<1> HIDE DEF c
<1>2. /\ Apart(Lists) /\ RingsAre(mem, Lists) /\ mem \in Memory(Nodes, Values)
      /\ \A u \in Timers : (\A h \in Heads : u \notin Linked(Lists[h])) => Alone(mem, u)
      /\ Lists[timeout_head] = EmptyList /\ Lists' = Lists
  <2>1. Lists' = Lists
    BY <1>1 DEF Lists
  <2> QED BY <1>1, <2>1, WheelApart, AgreeByLists DEF PInv
<1>3. /\ mem' \in Memory(Nodes, Values) /\ RingIs(mem', timeout_head, EmptyList)
      /\ \A y \in Nodes \ {timeout_head} : mem'.next[y] = mem.next[y] /\ mem'.prev[y] = mem.prev[y]
  BY <1>1, <1>2, NodesApart, InitListHead
<1>4. RingsAre(mem', Lists')
  <2>1. ASSUME NEW h \in Heads, h # timeout_head PROVE RingIs(mem', h, Lists[h])
    <3>1. Lists[h] \in Seq(Timers) /\ Linked(Lists[h]) \subseteq Timers /\ RingIs(mem, h, Lists[h])
      BY <1>2, LinkedSubset DEF Apart, RingsAre
    <3>2. \A y \in {h} \cup Linked(Lists[h]) : mem'.next[y] = mem.next[y] /\ mem'.prev[y] = mem.prev[y]
      BY <1>3, <2>1, <3>1, NodesApart
    <3> QED BY <3>1, <3>2, RingUntouched
  <2> QED BY <1>2, <1>3, <2>1 DEF RingsAre
<1>5. \A u \in Timers : (\A h \in Heads : u \notin Linked(Lists'[h])) => Alone(mem', u)
  BY <1>2, <1>3, NodesApart DEF Alone
<1>6. walk'.p = Around(c, buckets'[c], scan') /\ walk'.n = mem'.next[walk'.p]
  <2>1. RingIs(mem', c, buckets[c]) /\ buckets[c] \in Seq(Timers)
    BY <1>1, <1>2, <1>4, NodesApart, WheelApart DEF RingsAre, Apart
  <2>2. 0 \in 0..Len(buckets[c])
    BY <2>1, LenProperties
  <2>3. mem'.next[Around(c, buckets[c], 0)] = Around(c, buckets[c], 0 + 1)
    BY <2>1, <2>2 DEF RingIs
  <2>4. Around(c, buckets[c], 0) = c
    BY DEF Around
  <2> QED BY <1>1, <2>3, <2>4
<1> QED BY <1>3, <1>4, <1>5, <1>6, AgreeAfter DEF c

\* Where the loop over a bucket stands, and what it goes on with.
LEMMA ScanStands ==
  ASSUME IInv, PInv, ScanNextPointers
  PROVE  /\ current \in Buckets /\ scan \in 1..Len(buckets[current])
         /\ walk.p = buckets[current][scan]
         /\ walk.p \in Timers /\ walk.p \in Linked(buckets[current])
         /\ walk.n = Around(current, buckets[current], scan + 1)
<1>1. phase = "scan" /\ scan <= Len(buckets[current])
  BY DEF ScanNextPointers, ScanNext
<1>2. /\ current \in Buckets /\ scan \in 1..Len(buckets[current])
      /\ buckets[current][scan] \in Timers
      /\ buckets[current][scan] \in Linked(buckets[current])
      /\ Len(buckets[current]) \in Nat
  BY <1>1, ScannedElement, LenProperties DEF IInv, TypeOK
<1>3. walk.p = Around(current, buckets[current], scan) /\ walk.n = mem.next[walk.p]
  BY <1>1 DEF PInv, PointersAgree
<1>4. walk.p = buckets[current][scan]
  BY <1>2, <1>3 DEF Around
<1>5. scan \in 0..Len(buckets[current])
  BY <1>2
<1>6. mem.next[walk.p] = Around(current, buckets[current], scan + 1)
  BY <1>2, <1>3, <1>5 DEF PInv, PointersAgree, RingIs
<1> QED BY <1>2, <1>3, <1>4, <1>6

\* One turn of the loop over a bucket that leaves the entry where it is
LEMMA ScanPassesAgrees ==
  ASSUME IInv, IInv', PInv, ScanNextPointers, ~MatchesNow(walk.p)
  PROVE  PInv'
<1>1. /\ mem' = mem /\ walk' = [p |-> walk.n, n |-> mem.next[walk.n]]
      /\ buckets' = buckets /\ timeout_list' = timeout_list /\ tick' = tick
      /\ scan' = scan + 1
  BY ScanStands DEF ScanNextPointers, ScanNext, Step
<1>2. Lists' = Lists /\ current' = current
  BY <1>1 DEF Lists, current
<1>3. /\ RingsAre(mem, Lists) /\ mem \in Memory(Nodes, Values)
      /\ \A u \in Timers : (\A h \in Heads : u \notin Linked(Lists[h])) => Alone(mem, u)
  BY AgreeByLists DEF PInv
<1>4. walk'.p = Around(current', buckets'[current'], scan') /\ walk'.n = mem'.next[walk'.p]
  BY <1>1, <1>2, ScanStands
<1> QED BY <1>1, <1>2, <1>3, <1>4, AgreeAfter

\* One turn of the loop that moves the entry to timeout_list
LEMMA ScanMovesAgrees ==
  ASSUME IInv, IInv', PInv, ScanNextPointers, MatchesNow(walk.p)
  PROVE  PInv'
<1> DEFINE p == walk.p
           c == current
           n == list_del(mem, p, null)
           L == [g \in Heads |-> ListDelInit(Lists[g], p)]
<1>1. /\ c \in Buckets /\ c \in Heads /\ scan \in 1..Len(buckets[c])
      /\ p = buckets[c][scan] /\ p \in Timers /\ p \in Linked(buckets[c])
      /\ walk.n = Around(c, buckets[c], scan + 1)
  BY ScanStands, NodesApart
<1>2. /\ mem' = list_add_tail(n, p, timeout_head)
      /\ walk' = [p |-> walk.n, n |-> mem'.next[walk.n]]
      /\ buckets' = [buckets EXCEPT ![c] = ListDelInit(@, p)]
      /\ timeout_list' = ListAddTail(timeout_list, p)
      /\ scan' = scan /\ current' = c
  BY <1>1 DEF ScanNextPointers, ScanNext, Step, current
<1>3. /\ Apart(Lists) /\ RingsAre(mem, Lists) /\ mem \in Memory(Nodes, Values)
      /\ \A u \in Timers : (\A h \in Heads : u \notin Linked(Lists[h])) => Alone(mem, u)
      /\ Lists[timeout_head] = timeout_list /\ \A b \in Buckets : Lists[b] = buckets[b]
      /\ buckets \in [Buckets -> Seq(Timers)]
  BY WheelApart, AgreeByLists DEF PInv, IInv, TypeOK
<1>4. /\ n \in Memory(Nodes, Values)
      /\ \A y \in Nodes \ {p} : /\ n.next[y] = Unlink(mem, p).next[y]
                               /\ n.prev[y] = Unlink(mem, p).prev[y]
  <2>1. mem.next \in [Nodes -> Values] /\ mem.prev \in [Nodes -> Values] /\ null \in Values
    BY <1>3 DEF Memory, Values
  <2>2. p \in Nodes /\ mem.prev[p] \in Values /\ mem.next[p] \in Values
    BY <1>1, <2>1, NodesApart
  <2> DEFINE j == Unlink(mem, p)
  <2>3. j.next \in [Nodes -> Values] /\ j.prev \in [Nodes -> Values]
    BY <2>1, <2>2 DEF Unlink, JoinNeighbours
  <2>4. n = [next |-> [j.next EXCEPT ![p] = null], prev |-> [j.prev EXCEPT ![p] = null]]
    BY DEF list_del
  <2> HIDE DEF j, n, p
  <2> QED BY <2>1, <2>2, <2>3, <2>4 DEF Memory, j
<1>5. /\ RingsAre(n, L)
      /\ \A u \in Timers \ Linked(Lists[c]) : Alone(mem, u) => Alone(n, u)
  <2>1. p \in Linked(Lists[c])
    BY <1>1, <1>3
  <2>2. /\ c \in Heads /\ Apart(Lists) /\ RingsAre(mem, Lists)
        /\ mem \in Memory(Nodes, Values)
    BY <1>1, <1>3
  <2>3. n.next \in [Nodes -> Values] /\ n.prev \in [Nodes -> Values]
    BY <1>4 DEF Memory
  <2>4. n \in Memory(Nodes, Values)
    BY <1>4
  <2>5. \A y \in Nodes \ {p} : /\ n.next[y] = Unlink(mem, p).next[y]
                                /\ n.prev[y] = Unlink(mem, p).prev[y]
    BY <1>4
  <2> HIDE DEF n, p, c
  <2>6. /\ RingsAre(n, [g \in Heads |-> ListDelInit(Lists[g], p)])
        /\ \A u \in Timers \ Linked(Lists[c]) : Alone(mem, u) => Alone(n, u)
    BY <2>1, <2>2, <2>4, <2>5, RemoveFromRings
  <2> QED BY <2>6
<1>6. /\ Apart(L)
      /\ \A g \in Heads : Linked(L[g]) = Linked(Lists[g]) \ {p}
  <2>1. Apart(Lists)
    BY <1>3
  <2>2. \A g \in Heads : L[g] = ListDelInit(Lists[g], p)
    OBVIOUS
  <2> HIDE DEF p
  <2>3. Apart(L)
    BY <2>1, RemovedApart
  <2>4. \A g \in Heads : Linked(ListDelInit(Lists[g], p)) = Linked(Lists[g]) \ {p}
    BY <2>1, RemovedApart
  <2> QED BY <2>2, <2>3, <2>4
<1>7. \A g \in Heads \ {c} : L[g] = Lists[g] /\ p \notin Linked(Lists[g])
  <2>1. \A g \in Heads \ {c} : p \notin Linked(Lists[g])
    BY <1>1, <1>3 DEF Apart
  <2> QED BY <2>1, DelInitAbsent
<1>8. Lists' = [L EXCEPT ![timeout_head] = ListAddTail(@, p)]
  <2> DEFINE M == [L EXCEPT ![timeout_head] = ListAddTail(@, p)]
  <2>1. \A g \in Heads : M[g] = IF g = timeout_head THEN ListAddTail(L[g], p) ELSE L[g]
    BY NodesApart
  <2>2. L[timeout_head] = timeout_list /\ L[c] = ListDelInit(buckets[c], p)
    BY <1>1, <1>3, <1>7, NodesApart
  <2>3. \A b \in Buckets : L[b] = buckets'[b]
    BY <1>1, <1>2, <1>3, <1>7, <2>2, NodesApart
  <2>4. Lists' = [g \in Heads |-> IF g = timeout_head THEN timeout_list' ELSE buckets'[g]]
    BY DEF Lists
  <2>5. M = [g \in Heads |-> M[g]]
    OBVIOUS
  <2>6. \A g \in Heads : M[g] = IF g = timeout_head THEN timeout_list' ELSE buckets'[g]
    <3>1. timeout_list' = ListAddTail(timeout_list, p)
      BY <1>2
    <3>2. \A g \in Heads : g # timeout_head => g \in Buckets
      BY DEF Heads
    <3> HIDE DEF M, L, p
    <3> QED BY <2>1, <2>2, <2>3, <3>1, <3>2
  <2> HIDE DEF M, L
  <2>7. Lists' = M
    BY <2>4, <2>5, <2>6
  <2> QED BY <2>7 DEF M
<1> HIDE DEF p, c, n, L
<1>9. /\ mem' \in Memory(Nodes, Values) /\ RingsAre(mem', Lists')
      /\ \A u \in Timers \ {p} :
           u \notin Linked(L[timeout_head]) /\ Alone(n, u) => Alone(mem', u)
  <2>1. /\ n \in Memory(Nodes, Values) /\ Apart(L) /\ RingsAre(n, L)
        /\ timeout_head \in Heads /\ p \in Timers
    BY <1>1, <1>4, <1>5, <1>6, NodesApart
  <2>2. \A g \in Heads : p \notin Linked(L[g])
    BY <1>6
  <2>3. /\ list_add_tail(n, p, timeout_head) \in Memory(Nodes, Values)
        /\ RingsAre(list_add_tail(n, p, timeout_head),
                    [L EXCEPT ![timeout_head] = ListAddTail(@, p)])
        /\ \A u \in Timers \ {p} :
             u \notin Linked(L[timeout_head]) /\ Alone(n, u)
               => Alone(list_add_tail(n, p, timeout_head), u)
    BY <2>1, <2>2, AddToRings
  <2>4. mem' = list_add_tail(n, p, timeout_head)
    BY <1>2
  <2> QED BY <1>8, <2>3, <2>4
<1>10. ASSUME NEW u \in Timers, \A g \in Heads : u \notin Linked(Lists'[g])
       PROVE  Alone(mem', u)
  <2>1. /\ L[timeout_head] \in Seq(Timers) /\ NoDuplicates(L[timeout_head])
        /\ p \notin Linked(L[timeout_head])
    BY <1>6, NodesApart DEF Apart
  <2>2. Linked(Lists'[timeout_head]) = Linked(L[timeout_head]) \cup {p}
    BY <1>1, <1>6, <1>8, <2>1, NodesApart, ListAddTailProperties DEF Apart
  <2>3. u # p /\ u \notin Linked(L[timeout_head])
    BY <1>10, <2>2, NodesApart
  <2>4. \A g \in Heads \ {timeout_head} : Lists'[g] = L[g]
    BY <1>6, <1>8 DEF Apart
  <2>5. \A g \in Heads : u \notin Linked(Lists[g])
    BY <1>6, <1>10, <2>3, <2>4, NodesApart
  <2> QED BY <1>1, <1>3, <1>5, <1>9, <2>3, <2>5
<1>11. walk'.p = Around(current', buckets'[current'], scan') /\ walk'.n = mem'.next[walk'.p]
  <2>1. /\ buckets[c] \in Seq(Timers) /\ NoDuplicates(buckets[c]) /\ c \notin Linked(buckets[c])
        /\ buckets'[c] = ListDelInit(buckets[c], p) /\ Len(buckets[c]) \in Nat
    BY <1>1, <1>2, <1>3, NodesApart, LinkedSubset, LenProperties DEF Apart
  <2>2. scan \in 0..Len(buckets[c])
    BY <1>1, <2>1
  <2>3. Around(c, ListDelInit(buckets[c], p), scan) = Around(c, buckets[c], scan + 1)
    BY <1>1, <2>1, <2>2, AroundRemoved
  <2> QED BY <1>1, <1>2, <2>1, <2>3
<1> QED BY <1>9, <1>10, <1>11, AgreeAfter

\* One turn of the second loop up to the callback
LEMMA ExpireAgrees ==
  ASSUME IInv, IInv', PInv, ExpirePointers
  PROVE  PInv'
<1> DEFINE t == Head(timeout_list)
<1>1. /\ timeout_list # EmptyList /\ timeout_list' = Tail(timeout_list)
      /\ buckets' = buckets /\ phase' = "callback"
      /\ mem' = list_del_init(mem, list_first_entry(mem, timeout_head))
  BY DEF ExpirePointers, Expire
<1>2. /\ Apart(Lists) /\ RingsAre(mem, Lists) /\ mem \in Memory(Nodes, Values)
      /\ \A u \in Timers : (\A h \in Heads : u \notin Linked(Lists[h])) => Alone(mem, u)
      /\ Lists[timeout_head] = timeout_list /\ \A b \in Buckets : Lists[b] = buckets[b]
      /\ timeout_list \in Seq(Timers) /\ NoDuplicates(timeout_list)
  BY WheelApart, AgreeByLists DEF PInv, IInv, TypeOK, WheelConsistent
<1>3. /\ 0 \in 0..Len(timeout_list) /\ 1 \in 1..Len(timeout_list) /\ t = timeout_list[1]
      /\ DOMAIN timeout_list = 1..Len(timeout_list)
  BY <1>1, <1>2, LenProperties, EmptySeq DEF EmptyList
<1>4. t \in Linked(Lists[timeout_head])
  BY <1>2, <1>3 DEF Linked, Range
<1>5. list_first_entry(mem, timeout_head) = t
  <2>1. mem.next[Around(timeout_head, timeout_list, 0)] = Around(timeout_head, timeout_list, 0 + 1)
    BY <1>2, <1>3, NodesApart DEF RingsAre, RingIs
  <2>2. /\ Around(timeout_head, timeout_list, 0) = timeout_head
        /\ Around(timeout_head, timeout_list, 0 + 1) = timeout_list[1]
    BY <1>3 DEF Around
  <2> QED BY <1>3, <2>1, <2>2 DEF list_first_entry
<1>6. Lists' = [h \in Heads |-> ListDelInit(Lists[h], t)]
  <2>1. ListDelInit(timeout_list, t) = timeout_list'
    BY <1>1, <1>2, DelInitFirst
  <2>2. \A b \in Buckets : b # timeout_head /\ ListDelInit(buckets[b], t) = buckets'[b]
    <3>1. \A b \in Buckets : b # timeout_head /\ t \notin Linked(buckets[b])
      BY <1>2, <1>4, NodesApart DEF Apart
    <3> QED BY <1>1, <3>1, DelInitAbsent
  <2>3. \A h \in Heads : Lists'[h] = ListDelInit(Lists[h], t)
    BY <1>2, <2>1, <2>2 DEF Lists, Heads
  <2>4. Lists' = [h \in Heads |-> Lists'[h]]
    BY DEF Lists
  <2> HIDE DEF t
  <2> QED BY <2>3, <2>4
<1> HIDE DEF t
<1>7. /\ mem' \in Memory(Nodes, Values) /\ RingsAre(mem', Lists') /\ Alone(mem', t)
      /\ \A u \in Timers \ Linked(Lists[timeout_head]) : Alone(mem, u) => Alone(mem', u)
  BY <1>1, <1>2, <1>4, <1>5, <1>6, NodesApart, DelInitFromRings
<1>8. ASSUME NEW u \in Timers, u # t, \A g \in Heads : u \notin Linked(Lists'[g])
      PROVE  \A g \in Heads : u \notin Linked(Lists[g])
  <2>1. \A g \in Heads : Lists'[g] = ListDelInit(Lists[g], t)
    BY <1>6
  <2>2. Apart(Lists)
    BY <1>2
  <2>3. \A g \in Heads : Linked(ListDelInit(Lists[g], t)) = Linked(Lists[g]) \ {t}
    BY <2>2, RemovedApart
  <2>4. \A g \in Heads : Linked(Lists'[g]) = Linked(Lists[g]) \ {t}
    BY <2>1, <2>3
  <2> QED BY <1>8, <2>4
<1>9. \A u \in Timers : (\A g \in Heads : u \notin Linked(Lists'[g])) => Alone(mem', u)
  BY <1>2, <1>7, <1>8, NodesApart
<1> QED BY <1>1, <1>7, <1>9, AgreeAfter

\* In every state of the wheel, in the middle of a tick too, the rings in
\* memory are its lists, a timer that does not run points at itself, and the
\* loop that takes a bucket apart stands where it means to.
THEOREM PointersStayInStep == PointerSpec => []PointersAgree
<1>1. PointerInit => PInv
  <2> SUFFICES ASSUME PointerInit PROVE PInv
    OBVIOUS
  <2>1. mem \in Memory(Nodes, Values)
    BY NodesApart DEF PointerInit, Memory
  <2>2. \A x \in Nodes : Alone(mem, x)
    BY DEF PointerInit, Alone
  <2>3. \A x \in Nodes : RingIs(mem, x, EmptyList)
    BY <2>2 DEF RingIs, Around, Alone, EmptyList
  <2>4. phase = "app" /\ timeout_list = EmptyList /\ \A b \in Buckets : buckets[b] = EmptyList
    BY DEF PointerInit, Init
  <2> QED BY <2>1, <2>2, <2>3, <2>4, NodesApart DEF PInv, PointersAgree, Heads
<1>2. IInv /\ IInv' /\ PInv /\ [PointerNext]_pointerVars => PInv'
  <2> SUFFICES ASSUME IInv, IInv', PInv, [PointerNext]_pointerVars PROVE PInv'
    OBVIOUS
  <2>1. CASE ScanDonePointers \/ CallbackReturnPointers \/ TickDonePointers
    <3>1. /\ buckets' = buckets /\ timeout_list' = timeout_list /\ mem' = mem
          /\ phase' # "scan"
      BY <2>1 DEF ScanDonePointers, ScanDone, CallbackReturnPointers, CallbackReturn,
                  TickDonePointers, TickDone
    <3> QED BY <3>1 DEF PInv, PointersAgree, IsRunning, InBuckets
  <2>2. CASE UNCHANGED pointerVars
    BY <2>2 DEF pointerVars, PInv, PointersAgree, IsRunning, InBuckets, current
  <2>3. CASE ScanNextPointers
    BY <2>3, ScanPassesAgrees, ScanMovesAgrees
  <2> QED
    BY <2>1, <2>2, <2>3, AddAgrees, DelAgrees, DriveAgrees, ExpireAgrees
       DEF PointerNext, TimerTickPointers
<1>3. PointerSpec => Spec
  <2>1. PointerInit => Init
    BY DEF PointerInit
  <2>2. [PointerNext]_pointerVars => [Next]_vars
    BY DEF PointerNext, TimerTickPointers, AddPointers, DelPointers, DrivePointers,
           ScanNextPointers, ScanDonePointers, ExpirePointers, CallbackReturnPointers,
           TickDonePointers, pointerVars, vars, Next, UserStep, TimerTick
  <2> QED BY <2>1, <2>2, PTL DEF PointerSpec, Spec
<1>4. PInv => PointersAgree
  BY DEF PInv
<1> QED BY <1>1, <1>2, <1>3, <1>4, InvariantHolds, PTL DEF PointerSpec
=============================================================================
