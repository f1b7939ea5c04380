-------------------------------- MODULE Pids --------------------------------
(***************************************************************************)
(* Process identifiers (src/phase1/pcb.c): how allocPcb chooses one, the   *)
(* list of the live processes sorted by pid, the search in it, and what    *)
(* freePcb takes back.                                                     *)
(*                                                                         *)
(* pid_t is an unsigned integer of the machine: pids are counted modulo    *)
(* PidBound, 2^32 in the code and a few units in the instances of TLC, and *)
(* FREE_PCB_PID, -1, is the largest of them.                               *)
(***************************************************************************)
EXTENDS ProcQueues

CONSTANTS
  Pcb,       \* pcbFree_table
  PidBound   \* number of values of pid_t

ASSUME PidsAssumption ==
  /\ IsFiniteSet(Pcb)
  /\ PidBound \in Nat
  /\ Cardinality(Pcb) < PidBound - 1

Pid == 0 .. PidBound - 1
FREE_PCB_PID == PidBound - 1

VARIABLES
  p_pid,     \* p_pid of every PCB
  pid_list,  \* the PCBs of pid_list_h, from its head
  curr_pid,  \* the next pid to try
  free       \* the PCBs of pcbFree_h, in any order

vars == <<p_pid, pid_list, curr_pid, free>>

TypeOK ==
  /\ p_pid \in [Pcb -> Pid]
  /\ pid_list \in Seq(Pcb)
  /\ curr_pid \in Pid
  /\ free \subseteq Pcb

\* Where the walk of getProcessByPid finds pid: it gives up at the first
\* greater one.
Positions(pid) ==
  {i \in DOMAIN pid_list :
     /\ p_pid[pid_list[i]] = pid
     /\ \A j \in 1 .. i - 1 : p_pid[pid_list[j]] <= pid /\ p_pid[pid_list[j]] # pid}

\* getProcessByPid, as the set of the processes it may return: one or none.
ProcessByPid(pid) == {pid_list[i] : i \in Positions(pid)}

Successor(pid) == (pid + 1) % PidBound

\* The pid that the collision loop stops at, from start on.
FirstUnused(start) ==
  LET distance == CHOOSE k \in 0 .. PidBound - 1 :
        /\ ProcessByPid((start + k) % PidBound) = {}
        /\ \A j \in 0 .. k - 1 : ProcessByPid((start + j) % PidBound) # {}
  IN (start + distance) % PidBound

\* Mutants: every search starts from 1; there is none.
GeneratedPidFromOne == FirstUnused(1)
GeneratedPidUnchecked == IF curr_pid = 0 THEN 1 ELSE curr_pid

\* _generatePid.  The pid is unsigned, so that curr_pid <= 0 only means 0.
GeneratedPid ==
  LET start == IF curr_pid = 0 THEN 1 ELSE curr_pid IN
  IF pid_list # <<>> /\ p_pid[pid_list[Len(pid_list)]] >= start
  THEN FirstUnused(start)
  ELSE start

\* _addPid walks backwards to the first process of a smaller or equal pid.
WithPid(p, pid) ==
  LET smaller == {i \in DOMAIN pid_list : p_pid[pid_list[i]] <= pid}
      last == IF smaller = {} THEN 0
              ELSE CHOOSE i \in smaller : \A j \in smaller : j <= i
  IN SubSeq(pid_list, 1, last) \o <<p>> \o SubSeq(pid_list, last + 1, Len(pid_list))

\* allocPcb, with a PCB left.
AllocPcb(p) ==
  /\ p \in free
  /\ free' = free \ {p}
  /\ p_pid' = [p_pid EXCEPT ![p] = GeneratedPid]
  /\ curr_pid' = Successor(GeneratedPid)
  /\ pid_list' = WithPid(p, GeneratedPid)

\* freePcb, at the end of _killProcess.
FreePcb(p) ==
  /\ p \in Pcb \ free
  /\ free' = free \cup {p}
  /\ p_pid' = [p_pid EXCEPT ![p] = FREE_PCB_PID]
  /\ pid_list' = Without(pid_list, {p})
  /\ UNCHANGED curr_pid

\* initPcbs
Init ==
  /\ free = Pcb
  /\ p_pid = [p \in Pcb |-> FREE_PCB_PID]
  /\ pid_list = <<>>
  /\ curr_pid = 1

Next == \E p \in Pcb : AllocPcb(p) \/ FreePcb(p)

Spec == Init /\ [][Next]_vars

-----------------------------------------------------------------------------
(* Properties *)

\* Every live process is found under its pid, also after pids have wrapped
\* around: no two of them share a pid and the list stays sorted, or the search
\* would stop early and TERMPROCESS kill nobody or somebody else.
LookupExact ==
  /\ \A p \in Pcb \ free : ProcessByPid(p_pid[p]) = {p}
  /\ Range(pid_list) = Pcb \ free

\* pids are given in cyclic order: one that was freed comes back only after
\* all the others have been tried.  (A stale pid kept by a process, such as the
\* one of a child that has died, then names nobody for as long as possible.)
CyclicStep ==
  \A p \in free \ free' :
    LET given == p_pid'[p]
        between == {pid \in Pid \ {0} :
                      \E k \in 0 .. PidBound - 1 :
                        /\ pid = (curr_pid + k) % PidBound
                        /\ k < (given - curr_pid) % PidBound}
    IN \A pid \in between : \E q \in Pcb \ free : p_pid[q] = pid

CyclicOrder == [][CyclicStep]_vars

=============================================================================
