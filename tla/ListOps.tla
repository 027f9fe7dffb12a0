------------------------------ MODULE ListOps ------------------------------
(***************************************************************************)
(* The intrusive lists of generic_list.h, as their users see them: a list  *)
(* is the sequence of the entries linked behind a head.  An entry that is  *)
(* on no list points to itself (INIT_LIST_HEAD), so deleting it again with *)
(* list_del_init changes nothing.                                          *)
(*                                                                         *)
(* The sequences are duplicate-free as long as nobody adds an entry that   *)
(* is already linked; that obligation is the callers', and the modules     *)
(* that use these operators show that the callers meet it.                 *)
(***************************************************************************)
EXTENDS Integers, SequencesExt

\* INIT_LIST_HEAD on a list head: the list is empty.
EmptyList == << >>

\* list_add_tail(entry, head)
ListAddTail(list, entry) == Append(list, entry)

\* list_del_init(entry), seen from one list: the entry leaves that list if
\* it is linked there.
ListDelInit(list, entry) ==
  IF entry \in Range(list)
    THEN RemoveAt(list, CHOOSE i \in DOMAIN list : list[i] = entry)
    ELSE list

\* The entries of a list, and the lists no entry occurs on twice.
Linked(list) == Range(list)
NoDuplicates(list) == IsInjective(list)
=============================================================================
