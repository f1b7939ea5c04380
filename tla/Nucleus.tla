------------------------------ MODULE Nucleus ------------------------------
(***************************************************************************)
(* The PandOS+ nucleus (src/phase1, src/phase2): process creation and      *)
(* termination, the two ready queues and the scheduler, the binary         *)
(* semaphores, the pseudo-clock, device I/O, the time slice and the        *)
(* interrupt handlers.                                                     *)
(*                                                                         *)
(* The kernel runs on one CPU with interrupts disabled, so every exception *)
(* handler, from its entry to the LDST, LDCXT, WAIT, HALT or PANIC that    *)
(* ends it, is one action.  Between two handlers the CPU belongs to        *)
(* curr_process (mode "run") or waits (mode "wait"): the processes, the    *)
(* timers and the devices are the environment that chooses the next one.   *)
(*                                                                         *)
(* System calls that change none of the state below (GETTIME,              *)
(* GETSUPPORTPTR, GETPROCESSID, CREATEPROCESS without a free PCB,          *)
(* TERMPROCESS of an unknown pid, a trap passed up to a support structure) *)
(* are stuttering steps.                                                   *)
(***************************************************************************)
EXTENDS ProcQueues

CONSTANTS
  Pcb,             \* pcbFree_table, MAXPROC process control blocks
  UserSem,         \* integers of the processes used as semaphores
  ITSem,           \* semaphore_it, the semaphore of the pseudo-clock
  Device,          \* device (sub-)registers, in increasing interrupt priority
  Terminal,        \* the ones that belong to a terminal
  Prios,           \* priorities that CREATEPROCESS is called with
  Supports,        \* whether it is called with a support structure
  MaxSoftBlocked,  \* bound on softblocked_count, for model checking only
  Null             \* the NULL pointer

LOW  == "low"
HIGH == "high"
Prio == {LOW, HIGH}

\* Even numbers are whole devices and the receivers of terminals, the odd
\* number that follows a receiver is the transmitter of the same terminal.
Unit(d) == d \div 2

Sem == UserSem \cup {ITSem} \cup Device

ASSUME PcbAssumption ==
  /\ IsFiniteSet(Pcb)
  /\ Pcb # {}
  /\ Null \notin Pcb

ASSUME SemAssumption ==
  /\ Device \subseteq Nat
  /\ Terminal \subseteq Device
  /\ \A d \in Device \ Terminal : d % 2 = 0
  /\ ITSem \notin Device
  /\ UserSem \cap (Device \cup {ITSem}) = {}
  /\ Null \notin Sem

ASSUME InputAssumption ==
  /\ Prios \subseteq Prio
  /\ Supports \subseteq BOOLEAN
  /\ MaxSoftBlocked \in Nat

VARIABLES
  alive,              \* PCBs in use: p_pid # FREE_PCB_PID (IS_ALIVE)
  parent,             \* p_parent
  prio,               \* p_prio
  supp,               \* p_supportStruct # NULL
  semAdd,             \* p_semAdd: the semaphore the process is blocked on
  curr_process,       \* curr_process
  readyqueue,         \* low_readyqueue and high_readyqueue
  asl,                \* queue of every semaphore; it is active when non-empty
  semVal,             \* value of every semaphore
  process_count,      \* process_count
  softblocked_count,  \* softblocked_count
  mode,               \* what the CPU does between two handlers
  plt,                \* the Processor Local Timer has an interrupt pending
  dev,                \* state of every device (sub-)register
  blockedBy,          \* history: "P" or "V", the operation that blocked
  leaked              \* history: DOIO calls counted but not blocked

treeVars == <<alive, parent, prio, supp>>
semVars  == <<semAdd, asl, semVal, blockedBy>>
cpuVars  == <<curr_process, readyqueue, mode, plt>>
vars == <<treeVars, semVars, cpuVars, process_count, softblocked_count, dev, leaked>>

\* "halt", "deadlock", "nosemd" and "ioerror" are HALT() and the PANIC()s of
\* scheduler.c:51, asl.c:205/231 and interrupts.c:103.  "fault" is the endless
\* nesting of exceptions when the kernel dereferences NULL while curr_process
\* is NULL: _passUpOrDieHandler dereferences it again.
Stopped  == {"halt", "deadlock", "nosemd", "ioerror", "fault"}
Mode     == {"run", "wait"} \cup Stopped
DevState == {"ready", "busy", "done", "error"}

TypeOK ==
  /\ alive \subseteq Pcb
  /\ parent \in [Pcb -> Pcb \cup {Null}]
  /\ prio \in [Pcb -> Prio]
  /\ supp \in [Pcb -> BOOLEAN]
  /\ semAdd \in [Pcb -> Sem \cup {Null}]
  /\ curr_process \in Pcb \cup {Null}
  /\ readyqueue \in [Prio -> Seq(Pcb)]
  /\ asl \in [Sem -> Seq(Pcb)]
  /\ semVal \in [Sem -> {0, 1}]
  /\ process_count \in Nat
  /\ softblocked_count \in Nat
  /\ mode \in Mode
  /\ plt \in BOOLEAN
  /\ dev \in [Device -> DevState]
  /\ blockedBy \in [Pcb -> {"P", "V", "none"}]
  /\ leaked \in Nat

-----------------------------------------------------------------------------
(* The process tree, and the processes blocked on a device or the clock *)

Children(S) == {q \in alive : parent[q] \in S}

\* Mutant: _killProcess without the loop on removeChild.
SubtreeRootOnly(p) == {p}

\* What the recursion of _killProcess visits: p and all its descendants.
Subtree(p) ==
  {q \in Pcb : \A S \in SUBSET Pcb : (p \in S /\ Children(S) \subseteq S) => q \in S}

\* Mutants: the comparison with &semaphore_it is dropped; the two comparisons
\* are dropped.
IsSoftBlockedOnDevice(p) == semAdd[p] \in Device
IsBlocked(p) == semAdd[p] # Null

\* isSoftBlocked
IsSoftBlocked(p) == semAdd[p] \in {ITSem} \cup Device

\* semd_table has MAXPROC semaphore descriptors.
MaxSemd == Cardinality(Pcb)

ActiveSem == {s \in Sem : asl[s] # <<>>}

-----------------------------------------------------------------------------
(* scheduler(): rq is the pair of ready queues and pending the timer the   *)
(* handler leaves, skip is process_to_skip.  The two counters are read     *)
(* after the handler's update of them.                                     *)

\* Mutants: low_readyqueue is looked at first; process_to_skip is not.
NextQueueLowFirst(rq, skip) == IF rq[LOW] # <<>> THEN LOW ELSE HIGH
NextQueueNoSkip(rq, skip) == IF rq[HIGH] # <<>> THEN HIGH ELSE LOW

\* _getNextProcess: the queue that the next process is removed from, if any.
NextQueue(rq, skip) ==
  IF rq[HIGH] # <<>> /\ (Head(rq[HIGH]) # skip \/ rq[LOW] = <<>>) THEN HIGH ELSE LOW

Halt(rq, pending) ==
  /\ process_count' = 0
  /\ mode' = "halt"
  /\ curr_process' = Null
  /\ readyqueue' = rq
  /\ plt' = pending

\* A low-priority process starts with a fresh time slice: startPLT loads the
\* timer, which also acknowledges an expired one.  For a high-priority one
\* TEBIT is cleared, which stops the timer but acknowledges nothing.
Dispatch(rq, level, pending) ==
  /\ mode' = "run"
  /\ curr_process' = Head(rq[level])
  /\ readyqueue' = [rq EXCEPT ![level] = Tail(rq[level])]
  /\ plt' = (level = HIGH /\ pending)

\* Nobody is ready: WAIT with the timer stopped, or PANIC.
Idle(rq, pending) ==
  /\ mode' = IF softblocked_count' > 0 THEN "wait" ELSE "deadlock"
  /\ curr_process' = Null
  /\ readyqueue' = rq
  /\ plt' = pending

Schedule(rq, skip, pending) ==
  \/ Halt(rq, pending)
  \/ \E level \in Prio :
       /\ process_count' # 0
       /\ level = NextQueue(rq, skip)
       /\ rq[level] # <<>>
       /\ Dispatch(rq, level, pending)
  \/ /\ process_count' # 0
     /\ rq[NextQueue(rq, skip)] = <<>>
     /\ Idle(rq, pending)

\* The handler returns to curr_process with LDST.
Resume(rq) ==
  /\ readyqueue' = rq
  /\ UNCHANGED <<curr_process, mode, plt>>

\* setProcessReady
MakeReady(p) == [readyqueue EXCEPT ![prio[p]] = InsertProcQ(@, p)]

-----------------------------------------------------------------------------
(* semP and semV, on a semaphore that is 0 or 1: P blocks on 0 and V       *)
(* blocks on 1.  (Mutant: the two tests are swapped.)                      *)

BlockedAtSwapped(op) == IF op = "P" THEN 1 ELSE 0
BlockedAt(op) == IF op = "P" THEN 0 ELSE 1

\* insertBlocked, setProcessBlocked and scheduler().  A queue that becomes
\* active takes a semaphore descriptor; without one the nucleus panics.
Block(s, op) ==
  IF s \notin ActiveSem /\ Cardinality(ActiveSem) >= MaxSemd
  THEN /\ mode' = "nosemd"
       /\ UNCHANGED <<curr_process, readyqueue, plt, semVars>>
  ELSE /\ asl' = [asl EXCEPT ![s] = InsertProcQ(@, curr_process)]
       /\ semAdd' = [semAdd EXCEPT ![curr_process] = s]
       /\ blockedBy' = [blockedBy EXCEPT ![curr_process] = op]
       /\ UNCHANGED semVal
       /\ Schedule(readyqueue, Null, plt)

\* Mutant: the semaphore also takes the value the operation gives it when
\* nobody is waiting.
UnblockAndToggle(s) ==
  /\ asl' = [asl EXCEPT ![s] = Tail(@)]
  /\ semAdd' = [semAdd EXCEPT ![Head(asl[s])] = Null]
  /\ blockedBy' = [blockedBy EXCEPT ![Head(asl[s])] = "none"]
  /\ semVal' = [semVal EXCEPT ![s] = 1 - @]

\* removeBlocked: the head of the queue of s is no longer blocked.
Unblock(s) ==
  /\ asl' = [asl EXCEPT ![s] = Tail(@)]
  /\ semAdd' = [semAdd EXCEPT ![Head(asl[s])] = Null]
  /\ blockedBy' = [blockedBy EXCEPT ![Head(asl[s])] = "none"]
  /\ UNCHANGED semVal

SemOp(s, op) ==
  \/ /\ semVal[s] = BlockedAt(op)
     /\ Block(s, op)
  \/ /\ semVal[s] # BlockedAt(op)
     /\ asl[s] # <<>>
     /\ Unblock(s)
     /\ Resume(MakeReady(Head(asl[s])))
  \/ /\ semVal[s] # BlockedAt(op)
     /\ asl[s] = <<>>
     /\ semVal' = [semVal EXCEPT ![s] = BlockedAt(op)]
     /\ Resume(readyqueue)
     /\ UNCHANGED <<semAdd, asl, blockedBy>>

-----------------------------------------------------------------------------
(* System calls of curr_process *)

\* An interrupt that is pending when a process is dispatched is taken before
\* its first instruction.  For a low-priority process plt also stands for a
\* time slice that ends while the handler of its system call is running.
Running == mode = "run" /\ (plt => prio[curr_process] = LOW)

\* Mutant: process_count is not incremented.
CreateProcessUncounted(new, level, support) ==
  /\ Running
  /\ new \notin alive
  /\ alive' = alive \cup {new}
  /\ parent' = [parent EXCEPT ![new] = curr_process]
  /\ prio' = [prio EXCEPT ![new] = level]
  /\ supp' = [supp EXCEPT ![new] = support]
  /\ Resume([readyqueue EXCEPT ![level] = InsertProcQ(@, new)])
  /\ UNCHANGED <<semVars, process_count, softblocked_count, dev, leaked>>

\* CREATEPROCESS with a free PCB.  The order of pcbFree_h is abstracted.
CreateProcess(new, level, support) ==
  /\ Running
  /\ new \notin alive
  /\ alive' = alive \cup {new}
  /\ parent' = [parent EXCEPT ![new] = curr_process]
  /\ prio' = [prio EXCEPT ![new] = level]
  /\ supp' = [supp EXCEPT ![new] = support]
  /\ process_count' = process_count + 1
  /\ Resume([readyqueue EXCEPT ![level] = InsertProcQ(@, new)])
  /\ UNCHANGED <<semVars, softblocked_count, dev, leaked>>

\* Mutant: _killProcess without outBlocked, so that the semaphore stays active.
KillProcessLeftBlocked(target) ==
  LET victims == Subtree(target) IN
  /\ alive' = alive \ victims
  /\ parent' = [p \in Pcb |-> IF p \in victims THEN Null ELSE parent[p]]
  /\ prio' = [p \in Pcb |-> IF p \in victims THEN LOW ELSE prio[p]]
  /\ supp' = [p \in Pcb |-> IF p \in victims THEN FALSE ELSE supp[p]]
  /\ semAdd' = [p \in Pcb |-> IF p \in victims THEN Null ELSE semAdd[p]]
  /\ blockedBy' = [p \in Pcb |-> IF p \in victims THEN "none" ELSE blockedBy[p]]
  /\ asl' = asl
  /\ process_count' = process_count - Cardinality(victims)
  /\ softblocked_count' =
       softblocked_count - Cardinality({p \in victims : IsSoftBlocked(p)})

\* _killProcess(target).  The ready queue a victim is taken out of is the one
\* of its priority.  p_prio and p_supportStruct of a free PCB are not read
\* before they are set again and are given a fixed value.
KillProcess(target) ==
  LET victims == Subtree(target) IN
  /\ alive' = alive \ victims
  /\ parent' = [p \in Pcb |-> IF p \in victims THEN Null ELSE parent[p]]
  /\ prio' = [p \in Pcb |-> IF p \in victims THEN LOW ELSE prio[p]]
  /\ supp' = [p \in Pcb |-> IF p \in victims THEN FALSE ELSE supp[p]]
  /\ semAdd' = [p \in Pcb |-> IF p \in victims THEN Null ELSE semAdd[p]]
  /\ blockedBy' = [p \in Pcb |-> IF p \in victims THEN "none" ELSE blockedBy[p]]
  /\ asl' = [s \in Sem |-> Without(asl[s], {p \in victims : semAdd[p] = s})]
  /\ process_count' = process_count - Cardinality(victims)
  /\ softblocked_count' =
       softblocked_count - Cardinality({p \in victims : IsSoftBlocked(p)})

ReadyAfterKillLeft(target) == readyqueue  \* Mutant: outProcQ is dropped.
ReadyAfterKill(target) ==
  [level \in Prio |->
     Without(readyqueue[level], {p \in Subtree(target) : prio[p] = level})]

\* TERMPROCESS of the process itself (pid 0 or its own), of a descendant, of
\* an ancestor or of a stranger.
TermProcess(target) ==
  /\ Running
  /\ target \in alive
  /\ KillProcess(target)
  /\ IF curr_process \in Subtree(target)
     THEN Schedule(ReadyAfterKill(target), Null, plt)
     ELSE Resume(ReadyAfterKill(target))
  /\ UNCHANGED <<semVal, dev, leaked>>

\* A TLB exception, a program trap, a system call in user mode or an unknown
\* one, when there is no support structure to pass it up to.
Die ==
  /\ Running
  /\ ~supp[curr_process]
  /\ KillProcess(curr_process)
  /\ Schedule(ReadyAfterKill(curr_process), Null, plt)
  /\ UNCHANGED <<semVal, dev, leaked>>

Passeren(s) ==
  /\ Running
  /\ UNCHANGED <<treeVars, process_count, softblocked_count, dev, leaked>>
  /\ SemOp(s, "P")

Verhogen(s) ==
  /\ Running
  /\ UNCHANGED <<treeVars, process_count, softblocked_count, dev, leaked>>
  /\ SemOp(s, "V")

\* Mutant: the command is written after P, which does not return if it blocks.
DoIOCommandLast(d) ==
  /\ Running
  /\ dev[d] = "ready"
  /\ softblocked_count < MaxSoftBlocked
  /\ softblocked_count' = softblocked_count + 1
  /\ UNCHANGED <<treeVars, process_count>>
  /\ SemOp(d, "P")
  /\ dev' = IF semVal[d] = 0 THEN dev ELSE [dev EXCEPT ![d] = "busy"]
  /\ leaked' = IF semVal[d] = 0 THEN leaked ELSE leaked + 1

\* DOIO.  A process issues a command to a device that is ready, the way the
\* device drivers of phase 3 use their mutexes.
DoIO(d) ==
  /\ Running
  /\ dev[d] = "ready"
  /\ softblocked_count < MaxSoftBlocked
  /\ dev' = [dev EXCEPT ![d] = "busy"]
  /\ softblocked_count' = softblocked_count + 1
  /\ UNCHANGED <<treeVars, process_count>>
  /\ SemOp(d, "P")
  /\ leaked' = IF semVal[d] = 0 THEN leaked ELSE leaked + 1

ClockWait ==
  /\ Running
  /\ softblocked_count < MaxSoftBlocked
  /\ softblocked_count' = softblocked_count + 1
  /\ UNCHANGED <<treeVars, process_count, dev, leaked>>
  /\ SemOp(ITSem, "P")

Yield ==
  /\ Running
  /\ UNCHANGED <<treeVars, semVars, process_count, softblocked_count, dev, leaked>>
  /\ Schedule(MakeReady(curr_process), curr_process, plt)

-----------------------------------------------------------------------------
(* Timers, devices and interrupts *)

Interruptible == mode \in {"run", "wait"}

\* The time slice of a low-priority process ends: the interrupt is pending
\* until the timer is loaded again, whatever the TE bit is set to meanwhile.
PLTExpire ==
  /\ mode = "run"
  /\ prio[curr_process] = LOW
  /\ ~plt
  /\ plt' = TRUE
  /\ UNCHANGED <<treeVars, semVars, curr_process, readyqueue, mode,
                 process_count, softblocked_count, dev, leaked>>

\* _PLTHandler dereferences curr_process.
PLTInterrupt ==
  /\ Interruptible
  /\ plt
  /\ UNCHANGED <<treeVars, semVars, process_count, softblocked_count, dev, leaked>>
  /\ IF curr_process = Null
     THEN /\ mode' = "fault"
          /\ plt' = FALSE
          /\ UNCHANGED <<curr_process, readyqueue>>
     ELSE Schedule(MakeReady(curr_process), Null, FALSE)

\* _interruptHandlerExit.  It restarts the timer before it leaves, so that
\* the timer may expire (late) before the process or the scheduler stops it.
InterruptExit(rq) ==
  \E late \in BOOLEAN :
    IF curr_process = Null
    THEN Schedule(rq, Null, late)
    ELSE /\ readyqueue' = rq
         /\ plt' = late
         /\ UNCHANGED <<curr_process, mode>>

\* _ITHandler wakes every process that waits for the clock, in order.
ReadyAfterTick ==
  [level \in Prio |->
     readyqueue[level] \o Without(asl[ITSem], {p \in Pcb : prio[p] # level})]

\* Mutant: the clock ticks and wakes nobody.
ITInterruptWakesNobody ==
  /\ Interruptible
  /\ ~plt
  /\ UNCHANGED <<treeVars, semVars, process_count, softblocked_count, dev, leaked>>
  /\ InterruptExit(readyqueue)

ITInterrupt ==
  /\ Interruptible
  /\ ~plt
  /\ asl' = [asl EXCEPT ![ITSem] = <<>>]
  /\ semAdd' = [p \in Pcb |-> IF semAdd[p] = ITSem THEN Null ELSE semAdd[p]]
  /\ blockedBy' = [p \in Pcb |-> IF semAdd[p] = ITSem THEN "none" ELSE blockedBy[p]]
  /\ semVal' = [semVal EXCEPT ![ITSem] = 0]
  /\ softblocked_count' = softblocked_count - Len(asl[ITSem])
  /\ UNCHANGED <<treeVars, process_count, dev, leaked>>
  /\ InterruptExit(ReadyAfterTick)

\* A device ends its operation; a terminal may end it with an error status.
DevComplete(d) ==
  /\ Interruptible
  /\ dev[d] = "busy"
  /\ \E result \in {"done"} \cup (IF d \in Terminal THEN {"error"} ELSE {}) :
       dev' = [dev EXCEPT ![d] = result]
  /\ UNCHANGED <<treeVars, semVars, cpuVars, process_count, softblocked_count, leaked>>

Raised(d) == dev[d] \in {"done", "error"}

\* The lines and the bitmap of a line are scanned upwards.
FirstUnit(u) == \A d \in Device : Raised(d) => Unit(d) >= u

\* Within a terminal the receiver goes first, if it ended without an error.
Selected(d) ==
  /\ dev[d] = "done"
  /\ FirstUnit(Unit(d))
  /\ \A e \in Device : (Unit(e) = Unit(d) /\ dev[e] = "done") => d <= e

\* _deviceInterruptReturn with a process waiting for the device.
DeviceInterrupt(d) ==
  /\ Interruptible
  /\ ~plt
  /\ Selected(d)
  /\ semVal[d] = 0
  /\ asl[d] # <<>>
  /\ dev' = [dev EXCEPT ![d] = "ready"]
  /\ Unblock(d)
  /\ softblocked_count' = softblocked_count - 1
  /\ UNCHANGED <<treeVars, process_count, leaked>>
  /\ InterruptExit(MakeReady(Head(asl[d])))

\* The same with no process waiting: semV stores 1 and returns NULL, which
\* IS_ALIVE dereferences.  The exception raised within the handler is passed
\* up or kills whoever curr_process is; if it is NULL the exceptions nest.
\* The semaphore of a raised device is 0 (DevSemOK), so that semV never
\* blocks here.
OrphanInterrupt(d) ==
  /\ Interruptible
  /\ ~plt
  /\ Selected(d)
  /\ semVal[d] = 0
  /\ asl[d] = <<>>
  /\ dev' = [dev EXCEPT ![d] = "ready"]
  /\ semVal' = [semVal EXCEPT ![d] = 1]
  /\ \/ /\ curr_process = Null
        /\ mode' = "fault"
        /\ UNCHANGED <<treeVars, semAdd, asl, blockedBy, curr_process, readyqueue,
                       plt, process_count, softblocked_count>>
     \/ /\ curr_process # Null
        /\ supp[curr_process]
        /\ UNCHANGED <<treeVars, semAdd, asl, blockedBy, cpuVars,
                       process_count, softblocked_count>>
     \/ /\ curr_process # Null
        /\ ~supp[curr_process]
        /\ KillProcess(curr_process)
        /\ Schedule(ReadyAfterKill(curr_process), Null, plt)
  /\ UNCHANGED leaked

\* _terminalHandler: neither sub-device of the terminal ended well.
TerminalError(d) ==
  /\ Interruptible
  /\ ~plt
  /\ dev[d] = "error"
  /\ FirstUnit(Unit(d))
  /\ \A e \in Device : Unit(e) = Unit(d) => dev[e] # "done"
  /\ mode' = "ioerror"
  /\ UNCHANGED <<treeVars, semVars, curr_process, readyqueue, plt,
                 process_count, softblocked_count, dev, leaked>>

-----------------------------------------------------------------------------
(* The specification *)

\* The state in which main() starts the first process, with scheduler().  A
\* user semaphore starts as a mutex (1) or as a rendezvous (0).
Init ==
  \E root \in Pcb :
    /\ alive = {root}
    /\ parent = [p \in Pcb |-> Null]
    /\ prio = [p \in Pcb |-> LOW]
    /\ supp = [p \in Pcb |-> FALSE]
    /\ semAdd = [p \in Pcb |-> Null]
    /\ curr_process = root
    /\ readyqueue = [level \in Prio |-> <<>>]
    /\ asl = [s \in Sem |-> <<>>]
    /\ \E value \in [UserSem -> {0, 1}] :
         semVal = [s \in Sem |-> IF s \in UserSem THEN value[s] ELSE 0]
    /\ process_count = 1
    /\ softblocked_count = 0
    /\ mode = "run"
    /\ plt = FALSE
    /\ dev = [d \in Device |-> "ready"]
    /\ blockedBy = [p \in Pcb |-> "none"]
    /\ leaked = 0

SystemCall ==
  \/ \E new \in Pcb, level \in Prios, support \in Supports :
       CreateProcess(new, level, support)
  \/ \E target \in Pcb : TermProcess(target)
  \/ Die
  \/ \E s \in UserSem : Passeren(s)
  \/ \E s \in UserSem : Verhogen(s)
  \/ \E d \in Device : DoIO(d)
  \/ ClockWait
  \/ Yield

Interrupt ==
  \/ PLTInterrupt
  \/ ITInterrupt
  \/ \E d \in Device : DeviceInterrupt(d)
  \/ \E d \in Device : OrphanInterrupt(d)
  \/ \E d \in Device : TerminalError(d)

\* HALT and PANIC loop for ever.
Stutter ==
  /\ mode \in Stopped
  /\ UNCHANGED vars

Next ==
  \/ SystemCall
  \/ Interrupt
  \/ PLTExpire
  \/ \E d \in Device : DevComplete(d)
  \/ Stutter

Spec == Init /\ [][Next]_vars

-----------------------------------------------------------------------------
(* Safety *)

\* Every live process is in exactly one place: it is curr_process, or it is
\* once in the ready queue of its priority, or it is once in the queue of the
\* semaphore p_semAdd names; a free PCB is in none.  (insertProcQ and outProcQ
\* thread all these queues through the same p_list field: a process linked
\* twice corrupts both queues, one that is not linked never runs again.)
OnePlace ==
  /\ curr_process # Null => curr_process \in alive /\ semAdd[curr_process] = Null
  /\ mode = "run" => curr_process # Null
  /\ \A p \in Pcb \ alive : semAdd[p] = Null
  /\ \A level \in Prio :
       /\ IsInjective(readyqueue[level])
       /\ Range(readyqueue[level]) =
            {p \in alive : p # curr_process /\ semAdd[p] = Null /\ prio[p] = level}
  /\ \A s \in Sem :
       /\ IsInjective(asl[s])
       /\ Range(asl[s]) = {p \in alive : semAdd[p] = s}

\* process_count, on which scheduler() decides to HALT, is the number of live
\* processes, whatever mix of creations and kills of subtrees led here.
ProcessCountExact == process_count = Cardinality(alive)

\* The live processes form one tree: a kill leaves no child behind whose
\* parent is a free PCB, and no process that its root does not reach.
TreeOK ==
  /\ \A p \in Pcb \ alive : parent[p] = Null
  /\ \A p \in alive : parent[p] \in alive \cup {Null}
  /\ alive # {} => \E root \in alive :
       /\ parent[root] = Null
       /\ \A S \in SUBSET alive : (root \in S /\ Children(S) \subseteq S) => S = alive

\* softblocked_count is the number of processes blocked on a device or the
\* clock, plus the DOIO calls that did not block because an earlier interrupt
\* found nobody waiting.  (_doIO counts before it knows whether P blocks.)
SoftBlockedExact ==
  softblocked_count = Cardinality({p \in Pcb : semAdd[p] \in Device \cup {ITSem}}) + leaked

\* Processes blocked in P wait for a semaphore that is 0, those blocked in V
\* for one that is 1: no wake-up is lost, and no queue mixes the two, so that
\* a V never wakes a process that is blocked in V.
BlockedMatchesValue ==
  \A p \in Pcb :
    semAdd[p] # Null => semVal[semAdd[p]] = IF blockedBy[p] = "P" THEN 0 ELSE 1

\* A process in DOIO waits, alone, for a device that is working or has raised
\* its interrupt; such a device has semaphore 0, so that the V of its
\* interrupt never blocks the interrupt handler, which has no process to
\* block; and the semaphore of the clock is always 0, so CLOCKWAIT blocks.
DevSemOK ==
  /\ semVal[ITSem] = 0
  /\ \A d \in Device : dev[d] # "ready" => semVal[d] = 0
  /\ \A d \in Device : asl[d] # <<>> => dev[d] # "ready" /\ Len(asl[d]) = 1

\* The nucleus panics for deadlock only when no event can unblock anybody,
\* halts only when nobody is left, and waits only with nobody ready.
IdleSound ==
  /\ mode = "deadlock" => alive # {} /\ \A p \in alive : semAdd[p] \in UserSem
  /\ mode = "halt" => alive = {}
  /\ mode = "wait" => alive # {} /\ \A p \in alive : semAdd[p] # Null

\* MAXPROC semaphore descriptors are enough (PANIC of asl.c:205 and 231):
\* the running process is blocked on none of them, and a semaphore that its
\* last process leaves gives its descriptor back, also in a kill.
NoSemdExhaustion == mode # "nosemd"

\* What a step may never do: a process that leaves a queue alive leaves behind
\* nobody who was before it, those who stay keep their order, and those who
\* come go behind them.  (list_add for list_add_tail, or the removal of the
\* wrong end, breaks it.)
KeepsOrder(q, r) ==
  /\ \A i, j \in DOMAIN q :
       (i < j /\ q[i] \in Range(r) /\ q[j] \in alive') => q[j] \in Range(r)
  /\ \A k, l \in DOMAIN r :
       (k < l /\ r[l] \in Range(q)) =>
         \E i, j \in DOMAIN q : i < j /\ q[i] = r[k] /\ q[j] = r[l]

FifoStep ==
  /\ \A s \in Sem : KeepsOrder(asl[s], asl'[s])
  /\ \A level \in Prio : KeepsOrder(readyqueue[level], readyqueue'[level])

Fifo == [][FifoStep]_vars

\* A low-priority process is dispatched only when no high-priority one is
\* ready, except for the one that has just yielded and heads its queue.
DispatchStep ==
  LET next == curr_process' IN
  (next # Null /\ next # curr_process /\ prio[next] = LOW) =>
     \/ readyqueue'[HIGH] = <<>>
     \/ curr_process # Null /\ Head(readyqueue'[HIGH]) = curr_process

HighPriorityFirst == [][DispatchStep]_vars

\* A process that yields does not go on running while somebody else is ready,
\* even if it is the only one of high priority, which is what process_to_skip
\* is for.  (Stated with ENABLED: a yield that gives the CPU back to a
\* high-priority process would change no variable.)
YieldsToItself ==
  /\ \E level \in Prio : readyqueue[level] # <<>>
  /\ Yield
  /\ curr_process' = curr_process

YieldGivesWay == ~ENABLED YieldsToItself

-----------------------------------------------------------------------------
(* Liveness.  The timers and the devices are hardware: a time slice ends    *)
(* and a command completes.  An interrupt of a lower priority is served     *)
(* infinitely often if it is pending infinitely often (strong fairness):    *)
(* the timers have just been loaded and the other devices acknowledged, so  *)
(* when the handler returns it is the one that is taken.  Nothing is        *)
(* assumed of the processes.                                                *)

ClockTick == ITInterrupt /\ asl[ITSem] # <<>>

DeviceServed(d) == DeviceInterrupt(d) \/ OrphanInterrupt(d) \/ TerminalError(d)

Fairness ==
  /\ WF_vars(PLTExpire)
  /\ WF_vars(PLTInterrupt)
  /\ SF_vars(ClockTick)
  /\ \A d \in Device : WF_vars(DevComplete(d)) /\ SF_vars(DeviceServed(d))

FairSpec == Spec /\ Fairness

\* Every process in CLOCKWAIT is woken (or killed, or the nucleus stops).
ClockWaitersWake ==
  \A p \in Pcb : semAdd[p] = ITSem ~> semAdd[p] # ITSem \/ mode \in Stopped

\* Every process in DOIO is woken.
DoIOReturns ==
  \A p \in Pcb : semAdd[p] \in Device ~> semAdd[p] \notin Device \/ mode \in Stopped

\* Round robin: every ready process runs, unless there are high-priority ones.
ReadyRuns ==
  \A p \in Pcb : p \in Range(readyqueue[LOW]) ~>
     \/ curr_process = p
     \/ p \notin alive
     \/ \E q \in alive : prio[q] = HIGH
     \/ mode \in Stopped

\* A ready high-priority process is not kept off the CPU by low-priority ones.
HighRuns ==
  readyqueue[HIGH] # <<>> ~>
    \/ curr_process # Null /\ prio[curr_process] = HIGH
    \/ readyqueue[HIGH] = <<>>
    \/ mode \in Stopped

-----------------------------------------------------------------------------
(* What comments of the source say and the code does not keep *)

\* scheduler.c:46 "Processi in attesa di I/O": the nucleus waits only when
\* some process is blocked on a device or the clock.
WaitHasWaiter ==
  mode = "wait" => \E p \in alive : semAdd[p] \in Device \cup {ITSem}

\* scheduler.c:47 "Abilita interrupt + disabilita PLT": no interrupt of the
\* PLT while the nucleus waits.
NoPLTWhileWaiting == mode = "wait" => ~plt

=============================================================================
