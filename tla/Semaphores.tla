----------------------------- MODULE Semaphores -----------------------------
(***************************************************************************)
(* The binary semaphores of the nucleus as the processes of phase 3 use    *)
(* them: a record with the value, the queue of the blocked processes, and  *)
(* user_asid, the owner that the wrappers P and V of src/lib/utilities.c   *)
(* keep beside the value.  Both P and V may block, on the same queue, and  *)
(* a process that is in a queue takes no step.                             *)
(*                                                                         *)
(* The wrappers are two steps each, with interrupts enabled: P stores the  *)
(* owner after PASSEREN has returned, V clears it before VERHOGEN.         *)
(***************************************************************************)
EXTENDS ProcQueues

NOPROC == -1

\* semaphore_t, of processes S, with the queue that the ASL has for it.
SemaphoreType(S) == [val : {0, 1}, user_asid : S \cup {NOPROC}, queue : Seq(S)]

Semaphore(value) == [val |-> value, user_asid |-> NOPROC, queue |-> <<>>]

\* PASSEREN and VERHOGEN (semP, semV): block, wake the first, or change the
\* value.
SemP(s, p) ==
  IF s.val = 0 THEN [s EXCEPT !.queue = InsertProcQ(@, p)]
  ELSE IF s.queue # <<>> THEN [s EXCEPT !.queue = Tail(@)]
  ELSE [s EXCEPT !.val = 0]

\* Mutants: the process that is woken has to compete for the semaphore, a
\* process that waits is not woken.
SemVCompeting(s, p) ==
  IF s.val = 1 THEN [s EXCEPT !.queue = InsertProcQ(@, p)]
  ELSE IF s.queue # <<>> THEN [s EXCEPT !.val = 1, !.queue = Tail(@)]
  ELSE [s EXCEPT !.val = 1]

SemVNoWakeUp(s, p) ==
  IF s.val = 1 THEN [s EXCEPT !.queue = InsertProcQ(@, p)]
  ELSE [s EXCEPT !.val = 1]

SemV(s, p) ==
  IF s.val = 1 THEN [s EXCEPT !.queue = InsertProcQ(@, p)]
  ELSE IF s.queue # <<>> THEN [s EXCEPT !.queue = Tail(@)]
  ELSE [s EXCEPT !.val = 1]

\* The assignments to user_asid in the wrappers P and V.
Owned(s, asid) == [s EXCEPT !.user_asid = asid]
Disowned(s) == [s EXCEPT !.user_asid = NOPROC]

BlockedOn(s, p) == p \in Range(s.queue)

=============================================================================
