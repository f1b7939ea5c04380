----------------------------- MODULE SemQueues ------------------------------
(***************************************************************************)
(* What src/phase1/asl.c promises to the nucleus, and what Nucleus assumes *)
(* of it: for every key (the address of a semaphore) a FIFO queue of the   *)
(* processes blocked on it, empty until somebody blocks, and no limit but  *)
(* the number of processes.                                                *)
(***************************************************************************)
EXTENDS ProcQueues

CONSTANTS
  Pcb,  \* processes
  Key   \* addresses of semaphores

VARIABLE asl  \* the queue of every key

Init == asl = [key \in Key |-> <<>>]

Blocked == UNION {Range(asl[key]) : key \in Key}

InsertBlocked(key, p) ==
  /\ p \notin Blocked
  /\ asl' = [asl EXCEPT ![key] = InsertProcQ(@, p)]

RemoveBlocked(key) ==
  /\ asl[key] # <<>>
  /\ asl' = [asl EXCEPT ![key] = Tail(@)]

OutBlocked(p) ==
  /\ p \in Blocked
  /\ asl' = [key \in Key |-> Without(asl[key], {p})]

Next ==
  \/ \E key \in Key, p \in Pcb : InsertBlocked(key, p)
  \/ \E key \in Key : RemoveBlocked(key)
  \/ \E p \in Pcb : OutBlocked(p)

Spec == Init /\ [][Next]_asl

=============================================================================
