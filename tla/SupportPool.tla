---------------------------- MODULE SupportPool -----------------------------
(***************************************************************************)
(* The free list of support structures (src/phase3/initProc.c), from which *)
(* test() takes one for every process it starts, and to which a process    *)
(* that ends gives its own back: the list is on the pointers of Listx,     *)
(* since nothing protects it.  test() has interrupts enabled and the same  *)
(* priority as the processes, and waits for the flash in the middle of     *)
(* every start, so that a process may end while others are not started.    *)
(*                                                                         *)
(* An operation on the list is two steps: what it reads before its stores, *)
(* and its stores, all at once.  The machine interleaves them more finely. *)
(***************************************************************************)
EXTENDS Listx

CONSTANT UPROCMAX

free_support == 0
Structure == 1 .. UPROCMAX \* support_arr
Asid == 1 .. UPROCMAX

VARIABLES
  p_list,  \* the links of free_support and of the structures
  test,    \* where test() is in _startProcess: "allocate", "delete" or "create"
  pc,      \* of each process: "new", "runs", "deallocate" or "freed"
  sup,     \* its support structure, free_support before it has one
  first    \* list_add in _deallocate: the head->next it has read

vars == <<p_list, test, pc, sup, first>>

\* The process that test() starts: the first that is new.
Started(a) == pc[a] = "new" /\ \A b \in Asid : pc[b] = "new" => a <= b

\* _initFreeSupportStack: the first n structures are in the list.
FreeSupportStack[n \in 0 .. UPROCMAX] ==
  IF n = 0
  THEN InitListHead([next |-> [s \in Structure \cup {free_support} |-> s],
                     prev |-> [s \in Structure \cup {free_support} |-> s]], free_support)
  ELSE ListAdd(FreeSupportStack[n - 1], n, free_support)

Init ==
  /\ p_list = FreeSupportStack[UPROCMAX]
  /\ test = "allocate"
  /\ pc = [a \in Asid |-> "new"]
  /\ sup = [a \in Asid |-> free_support]
  /\ first = [a \in Asid |-> free_support]

\* _allocate reads free_support.next for the caller, and once more for
\* list_del.  A free_support that is reached here is taken for a structure.
Allocate(a) ==
  /\ Started(a)
  /\ test = "allocate"
  /\ test' = "delete"
  /\ sup' = [sup EXCEPT ![a] = p_list.next[free_support]]
  /\ UNCHANGED <<p_list, pc, first>>

Delete(a) ==
  /\ Started(a)
  /\ test = "delete"
  /\ test' = "create"
  /\ p_list' = ListDel(p_list, p_list.next[free_support])
  /\ UNCHANGED <<pc, sup, first>>

\* The rest of _startProcess, with its DOIO.
CreateProcess(a) ==
  /\ Started(a)
  /\ test = "create"
  /\ test' = "allocate"
  /\ pc' = [pc EXCEPT ![a] = "runs"]
  /\ UNCHANGED <<p_list, sup, first>>

\* A process ends: signalProcessTermination, _deallocate, list_add.
Deallocate(a) ==
  /\ pc[a] = "runs"
  /\ pc' = [pc EXCEPT ![a] = "deallocate"]
  /\ first' = [first EXCEPT ![a] = p_list.next[free_support]]
  /\ UNCHANGED <<p_list, test, sup>>

Store(a) ==
  /\ pc[a] = "deallocate"
  /\ pc' = [pc EXCEPT ![a] = "freed"]
  /\ p_list' = ListInsert(p_list, sup[a], free_support, first[a])
  /\ UNCHANGED <<test, sup, first>>

Next == \E a \in Asid : Allocate(a) \/ Delete(a) \/ CreateProcess(a) \/ Deallocate(a) \/ Store(a)

Spec == Init /\ [][Next]_vars

\* The same with the list protected, by a mutex or by disabled interrupts: no
\* operation on it begins while another is between its steps.
Protected == test # "delete" /\ \A a \in Asid : pc[a] # "deallocate"

NextProtected ==
  \E a \in Asid :
    \/ Protected /\ (Allocate(a) \/ Deallocate(a))
    \/ Delete(a) \/ CreateProcess(a) \/ Store(a)

SpecProtected == Init /\ [][NextProtected]_vars

-----------------------------------------------------------------------------
(* Properties *)

\* The comment of _allocate (initProc.c:13-14): it allocates a structure, "pronta
\* all'uso", ready for use.  Two processes that run never have the same one,
\* with its page table and the contexts of its exceptions.
SupportsDistinct ==
  \A a, b \in Asid : a # b /\ pc[a] = "runs" /\ pc[b] = "runs" => sup[a] # sup[b]

=============================================================================
