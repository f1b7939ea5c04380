----------------------------- MODULE ProcQueues -----------------------------
(***************************************************************************)
(* Process queues (src/phase1/pcb.c, the p_list queues).  The circular     *)
(* doubly linked list with a sentinel is abstracted to the sequence of the *)
(* PCBs met when it is walked from head->next.                             *)
(*                                                                         *)
(* The removal operator is defined by counting and not by recursion, so    *)
(* that what it returns can be proved for queues of any length.            *)
(***************************************************************************)
EXTENDS Integers, Sequences, FiniteSets, Functions

\* Mutant: list_add, the process goes to the front.
InsertProcQAtFront(q, p) == <<p>> \o q

\* insertProcQ, list_add_tail: the process goes to the end of the queue.
InsertProcQ(q, p) == Append(q, p)

\* The positions of q that hold no member of D, and the rank of one of them.
Kept(q, D) == {i \in DOMAIN q : q[i] \notin D}
Rank(q, D, i) == Cardinality({j \in Kept(q, D) : j <= i})

\* outProcQ for every member of D: the others keep their order.
Without(q, D) ==
  [n \in 1 .. Cardinality(Kept(q, D)) |->
     q[CHOOSE i \in Kept(q, D) : Rank(q, D, i) = n]]

=============================================================================
