----------------------------- MODULE VmSupport ------------------------------
(***************************************************************************)
(* Vm and Support model the same processes, and each leaves out what the   *)
(* other one has: Support keeps of a page fault (src/phase3/vmSupport.c)   *)
(* and of freeFrames only what touches the mutex of the swap pool, Vm has  *)
(* no system call, no mutex of a device and no master_sem.  Here the two   *)
(* meet: what Vm does, seen from the system calls, is what Support says.   *)
(***************************************************************************)
EXTENDS Vm

\* Where a process is for Support: all that happens between the two stores to
\* user_asid is one place there, and Vm does not follow a process beyond
\* freeFrames.
point ==
  [a \in Asid |->
     CASE pc[a] = "header" -> "new"
       [] pc[a] = "lock"   -> "faultlock"
       [] pc[a] = "choose" -> "faultown"
       [] pc[a] \in InFault \ {"lock", "choose", "disown", "unlock"} -> "fault"
       [] pc[a] = "disown" -> "faultdisown"
       [] pc[a] = "unlock" -> "faultunlock"
       [] pc[a] = "dead"   -> "signal"
       [] OTHER -> pc[a]]

\* Where test() is: reading a header, before the next one, or past the last.
testPoint ==
  IF \E a \in Asid : pc[a] = "header" THEN "header"
  ELSE IF Asid = {} \/ \E a \in Asid : pc[a] = "new" THEN "starting"
  ELSE "waiting"

\* The process between its P and its V.  The trap handler learns it from
\* user_asid.
Holder(a) ==
  \/ pc[a] \in {"choose", "free"} /\ ~BlockedOn(swap_pool_sem, a)
  \/ pc[a] \in (InFault \ {"lock", "choose"}) \cup {"release", "freedisown", "freeunlock"}
  \/ pc[a] = "trap" /\ swap_pool_sem.user_asid = a

\* The mutexes: those of the devices are free for ever.
PoolMutex == <<"swap pool", 0>>
Mutex == {PoolMutex} \cup ({"printer", "terminal"} \X Asid)
mutexes == [m \in Mutex |-> IF m = PoolMutex THEN swap_pool_sem ELSE Semaphore(1)]
holding == [m \in Mutex |-> IF m = PoolMutex THEN {a \in Asid : Holder(a)} ELSE {}]

Level ==
  INSTANCE Support WITH
    MaxLength  <- 0,
    test       <- testPoint,
    taken      <- 0,
    pc         <- point,
    call       <- [a \in Asid |-> "none"],
    left       <- [a \in Asid |-> 0],
    back       <- [a \in Asid |-> "user"],
    releasing  <- [a \in Asid |-> PoolMutex],
    sem        <- mutexes,
    master_sem <- Semaphore(0),
    holders    <- holding

\* Page faults, with all their steps, and the ends of processes behave as
\* Support assumes: what is shown there of the mutex of the swap pool, of the
\* traps and of the end of a process holds with the page fault handler of Vm in
\* the place of its summary.
ImplementsSupport == Level!Spec

=============================================================================
