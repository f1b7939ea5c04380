----------------------------- MODULE UserMemory -----------------------------
(***************************************************************************)
(* What src/phase3/vmSupport.c promises to the user processes: each has a  *)
(* memory of its own, which holds what the process last stored in every    *)
(* page, text pages are never changed, and nothing of this depends on how  *)
(* few frames there are or on what the other processes do.                 *)
(*                                                                         *)
(* The backing store may fail.  The failure ends the process that took the *)
(* page fault, and the others may lose at most the one page that was in    *)
(* the frame to be reused: nothing is promised of a lost page.             *)
(***************************************************************************)
CONSTANTS
  Asid,      \* user processes
  Page,      \* pages of each
  TextPage,  \* pages marked read-only
  Value,     \* contents of a page
  Image,     \* the content of every page in the executable file
  Lost       \* the content of a page that nothing is promised of

VARIABLES
  memory,  \* content of every page
  life     \* "new", "running" or "ended"

Key == Asid \X Page

Init ==
  /\ memory = [k \in Key |-> Image]
  /\ life = [a \in Asid |-> "new"]

Start(a) ==
  /\ life[a] = "new"
  /\ life' = [life EXCEPT ![a] = "running"]
  /\ UNCHANGED memory

Write(a, g, v) ==
  /\ life[a] = "running"
  /\ g \notin TextPage
  /\ memory[<<a, g>>] # Lost
  /\ memory' = [memory EXCEPT ![<<a, g>>] = v]
  /\ UNCHANGED life

\* The processes of E end, and the pages of L are lost.
End(E, L) ==
  /\ life' = [a \in Asid |-> IF a \in E THEN "ended" ELSE life[a]]
  /\ memory' = [k \in Key |-> IF k[1] \in E \/ k \in L THEN Lost ELSE memory[k]]

\* A process terminates, or is terminated by an error of the backing store.
Terminate(a) == life[a] = "running" /\ End({a}, {})
StoreError(a, k) == life[a] = "running" /\ End({a}, {k})

\* An error while test() starts a process: it ends with all its children.
StartError == End(Asid, {})

Next ==
  \/ \E a \in Asid : Start(a) \/ Terminate(a)
  \/ \E a \in Asid, g \in Page, v \in Value : Write(a, g, v)
  \/ \E a \in Asid, k \in Key : StoreError(a, k)
  \/ StartError

Spec == Init /\ [][Next]_<<memory, life>>

=============================================================================
