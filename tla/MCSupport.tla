----------------------------- MODULE MCSupport ------------------------------
(***************************************************************************)
(* Small instances of Support for TLC.                                     *)
(***************************************************************************)
EXTENDS Support

CONSTANT Caller  \* the processes that make system calls

\* A bound on the programs: the others compute, fault, trap and end.  It cuts
\* off only the start of a system call, which no fairness condition asks for.
OnlyCallersCall == \A a \in Asid \ Caller : call'[a] = "none"

=============================================================================
