---------------------------- MODULE ListPointers ----------------------------
(***************************************************************************)
(* The doubly linked rings of generic_list.h, pointer by pointer.  A       *)
(* memory is a record of the two fields of every struct list_head, those   *)
(* embedded in the entries and the heads alike:                            *)
(*                                                                         *)
(*   next, prev - per struct list_head, the address the field holds        *)
(*                                                                         *)
(* An operator takes the memory before the call of the function it is      *)
(* named for and returns the memory after it.  The assignments of one      *)
(* call are made in the order of the code, so that entries which are each  *)
(* other's neighbours come out as they do there.                           *)
(***************************************************************************)
EXTENDS ListOps

\* struct list_head, for the addresses in nodes; a field may hold a value
\* that is none of them, NULL
Memory(nodes, values) == [ next : [nodes -> values], prev : [nodes -> values] ]

INIT_LIST_HEAD(m, list) ==
  [ next |-> [m.next EXCEPT ![list] = list], prev |-> [m.prev EXCEPT ![list] = list] ]

\* __list_add
AddBetween(m, new, prev, next) ==
  [ next |-> [m.next EXCEPT ![new] = next, ![prev] = new],
    prev |-> [m.prev EXCEPT ![next] = new, ![new] = prev] ]

list_add_tail(m, new, head) == AddBetween(m, new, m.prev[head], head)

\* __list_del
JoinNeighbours(m, prev, next) ==
  [ next |-> [m.next EXCEPT ![prev] = next], prev |-> [m.prev EXCEPT ![next] = prev] ]

\* __list_del_entry
Unlink(m, entry) == JoinNeighbours(m, m.prev[entry], m.next[entry])

\* list_del: the fields of the entry become null.
list_del(m, entry, null) ==
  LET joined == Unlink(m, entry) IN
  [ next |-> [joined.next EXCEPT ![entry] = null],
    prev |-> [joined.prev EXCEPT ![entry] = null] ]

list_del_init(m, entry) == INIT_LIST_HEAD(Unlink(m, entry), entry)

list_empty(m, head) == m.next[head] = head

list_first_entry(m, head) == m.next[head]

\* A faulty variant of __list_splice: the last entry still points at its
\* old head.
SpliceFirstOnly(m, list, prev, next) ==
  [ next |-> [m.next EXCEPT ![prev] = m.next[list]],
    prev |-> [m.prev EXCEPT ![m.next[list]] = prev, ![next] = m.prev[list]] ]

\* __list_splice
SpliceBetween(m, list, prev, next) ==
  [ next |-> [m.next EXCEPT ![prev] = m.next[list], ![m.prev[list]] = next],
    prev |-> [m.prev EXCEPT ![m.next[list]] = prev, ![next] = m.prev[list]] ]

list_splice_init(m, list, head) ==
  IF list_empty(m, list) THEN m
  ELSE INIT_LIST_HEAD(SpliceBetween(m, list, head, m.next[head]), list)

-----------------------------------------------------------------------------
\* The i-th struct list_head of a ring, from its head and around to it.
Around(head, list, i) == IF i \in 1..Len(list) THEN list[i] ELSE head

\* The ring behind head is the list, forwards and backwards.
RingIs(m, head, list) ==
  \A i \in 0..Len(list) :
    /\ m.next[Around(head, list, i)] = Around(head, list, i + 1)
    /\ m.prev[Around(head, list, i + 1)] = Around(head, list, i)

\* An entry that is on no list points at itself.
Alone(m, entry) == m.next[entry] = entry /\ m.prev[entry] = entry
=============================================================================
