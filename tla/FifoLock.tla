------------------------------ MODULE FifoLock ------------------------------
(***************************************************************************)
(* What a binary semaphore used as a mutex promises (semP and semV of      *)
(* src/phase1/asl.c under P and V of src/lib/utilities.c): one process has *)
(* it, who comes meanwhile stands in a line, and the mutex is handed over  *)
(* to the first in the line.  It is never free while somebody waits, so    *)
(* that nobody gets past the line, not even the process that releases it   *)
(* and comes back at once.                                                 *)
(***************************************************************************)
EXTENDS Sequences, Functions

CONSTANTS
  Process,
  Nobody    \* not a process

VARIABLES
  holder,  \* who has the mutex, or Nobody
  line     \* who waits for it, the first to come first

vars == <<holder, line>>

Init ==
  /\ holder = Nobody
  /\ line = <<>>

Take(p) ==
  /\ holder = Nobody
  /\ holder' = p
  /\ UNCHANGED line

Wait(p) ==
  /\ holder \notin {Nobody, p}
  /\ p \notin Range(line)
  /\ line' = Append(line, p)
  /\ UNCHANGED holder

HandOver ==
  /\ line # <<>>
  /\ holder' = Head(line)
  /\ line' = Tail(line)

Free ==
  /\ line = <<>>
  /\ holder' = Nobody
  /\ UNCHANGED line

Next == (\E p \in Process : Take(p) \/ Wait(p)) \/ HandOver \/ Free

Spec == Init /\ [][Next]_vars

=============================================================================
