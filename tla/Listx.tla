------------------------------- MODULE Listx --------------------------------
(***************************************************************************)
(* The circular doubly linked lists of src/lib/listx.h.  The memory is a   *)
(* record of two functions from nodes to nodes, next and prev; a list is   *)
(* reached from its head, a node that carries no element.  One node is in  *)
(* several memories: p_list, p_sib and pid_list are different fields.      *)
(*                                                                         *)
(* Everywhere else a list is the sequence of its elements; Holds says what *)
(* this means, and QueueProofs that the operations keep it.                *)
(***************************************************************************)
EXTENDS ProcQueues

Links(Node) == [next : [Node -> Node], prev : [Node -> Node]]

\* INIT_LIST_HEAD
InitListHead(mem, list) ==
  [next |-> [mem.next EXCEPT ![list] = list],
   prev |-> [mem.prev EXCEPT ![list] = list]]

\* __list_add: the four stores in their order.
ListInsert(mem, new, prev, next) ==
  [prev |-> [mem.prev EXCEPT ![next] = new, ![new] = prev],
   next |-> [mem.next EXCEPT ![new] = next, ![prev] = new]]

ListAdd(mem, new, head) == ListInsert(mem, new, head, mem.next[head])

ListAddTail(mem, new, head) == ListInsert(mem, new, mem.prev[head], head)

\* list_del.  The links of entry itself stay as they are.
ListDel(mem, entry) ==
  [prev |-> [mem.prev EXCEPT ![mem.next[entry]] = mem.prev[entry]],
   next |-> [mem.next EXCEPT ![mem.prev[entry]] = mem.next[entry]]]

ListEmpty(mem, head) == mem.next[head] = head

-----------------------------------------------------------------------------
(* The meaning of a list.  list_for_each meets the elements of q one after  *)
(* the other and ends at the head, and list_for_each_prev the other way.    *)

\* The n-th node of the ring: the head, the elements, and the head again.
RingNode(head, q, n) == IF n \in DOMAIN q THEN q[n] ELSE head

Holds(mem, head, q) ==
  /\ IsInjective(q)
  /\ head \notin Range(q)
  /\ \A n \in 0 .. Len(q) :
       /\ mem.next[RingNode(head, q, n)] = RingNode(head, q, n + 1)
       /\ mem.prev[RingNode(head, q, n + 1)] = RingNode(head, q, n)

\* The nodes of a list.
Nodes(head, q) == {head} \cup Range(q)

=============================================================================
