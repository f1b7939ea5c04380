------------------------------- MODULE Timers -------------------------------
(***************************************************************************)
(* Time: the CPU time charged to every process (timerFlush and             *)
(* updateProcessCPUTime of src/phase2/initial.c, and all their calls) and  *)
(* the reload of the interval timer.                                       *)
(*                                                                         *)
(* The TOD is read as a signed word.  Time passes in every mode, inside    *)
(* the handlers too; which process is chosen, and which system call or     *)
(* device is served, is left open here: module Nucleus says it.            *)
(***************************************************************************)
EXTENDS Integers

CONSTANTS
  Process,
  Null,      \* no current process
  WordSize,  \* number of values of cpu_t, 2^32 in the code
  PSECOND,   \* length of a pseudo-second
  MaxTime    \* bound: how long the system is observed

Half == WordSize \div 2

ASSUME TimersAssumption ==
  /\ Null \notin Process
  /\ WordSize \in Nat /\ WordSize = 2 * Half /\ Half > 0
  /\ PSECOND \in 1 .. Half - 1
  /\ MaxTime \in Nat

Word == -Half .. Half - 1

Signed(x) == ((x + Half) % WordSize) - Half

\* The remainder of C, which has the sign of the dividend.
CRem(a, b) == IF a >= 0 THEN a % b ELSE -((-a) % b)

VARIABLES
  mode,         \* what the CPU does
  curr_process,
  timer_start,  \* the static variable of timerFlush
  p_time,       \* p_time of every process
  it,           \* what is left of the interval timer; 0: its interrupt is pending
  clock,        \* time since the boot
  ran, held     \* of every process, the time it has executed, and the same with
                \* its system calls and the interrupts taken meanwhile: what
                \* p_time is compared with

times == <<it, clock, ran, held>>
vars == <<mode, curr_process, timer_start, p_time, times>>

Modes == {"process", "syscall", "interrupt", "nucleus", "wait"}

TypeOK ==
  /\ mode \in Modes
  /\ curr_process \in Process \cup {Null}
  /\ timer_start \in Word
  /\ p_time \in [Process -> Word]
  /\ it \in 0 .. 2 * PSECOND
  /\ clock \in 0 .. MaxTime
  /\ {ran, held} \subseteq [Process -> 0 .. MaxTime]

\* STCK
TOD == Signed(clock)

AddedTo(time, n) ==
  [p \in Process |-> IF p = curr_process THEN time[p] + n ELSE time[p]]

\* n units of time pass in mode m, with the interval timer set to timer.  Bounds: the
\* observation ends at MaxTime, and no process gets as much time as p_time can
\* count (2^31 microseconds).
Elapse(n, m, timer) ==
  /\ clock' = clock + n
  /\ clock' <= MaxTime
  /\ it' = IF timer > n THEN timer - n ELSE 0
  /\ ran' = IF m = "process" THEN AddedTo(ran, n) ELSE ran
  /\ held' = AddedTo(held, n)
  /\ \A p \in Process : held'[p] < Half

\* Mutant: the stopwatch is not restarted.
TimerFlushOnce(m, timer) == Elapse(0, m, timer) /\ UNCHANGED timer_start

\* timerFlush reads the TOD twice, and time may pass between the two.
TimerFlush(m, timer) ==
  \E lag \in {0, 1} :
    /\ Elapse(lag, m, timer)
    /\ timer_start' = Signed(clock + lag)

\* updateProcessCPUTime: what is added was read before the lag.
UpdateProcessCPUTime(m) ==
  /\ TimerFlush(m, it)
  /\ p_time' = [p_time EXCEPT ![curr_process] = Signed(@ + TOD - timer_start)]

\* Mutant: LDIT(PSECOND).
IntervalPlain == PSECOND

\* resetIntervalTimer
Interval == PSECOND - CRem(TOD, PSECOND)

-----------------------------------------------------------------------------
(* Processes and their system calls *)

Tick == Elapse(1, mode, it) /\ UNCHANGED <<mode, curr_process, timer_start, p_time>>

\* A system call, or a trap.
SystemCall ==
  /\ mode = "process"
  /\ mode' = "syscall"
  /\ UNCHANGED <<curr_process, timer_start, p_time, times>>

\* A handler that goes back to the process without looking at the time.
Return ==
  /\ mode = "syscall"
  /\ mode' = "process"
  /\ UNCHANGED <<curr_process, timer_start, p_time, times>>

GetCPUTime ==
  /\ mode = "syscall"
  /\ UpdateProcessCPUTime(mode)
  /\ mode' = "process"
  /\ UNCHANGED curr_process

\* setProcessBlocked and _yield
GiveUpCPU ==
  /\ mode = "syscall"
  /\ UpdateProcessCPUTime(mode)
  /\ curr_process' = Null
  /\ mode' = "nucleus"

\* _termProcess; the PCB is given to a new process, whose time starts from 0.
TermProcess ==
  /\ mode = "syscall"
  /\ p_time' = [p_time EXCEPT ![curr_process] = 0]
  /\ ran' = [ran EXCEPT ![curr_process] = 0]
  /\ held' = [held EXCEPT ![curr_process] = 0]
  /\ curr_process' = Null
  /\ mode' = "nucleus"
  /\ UNCHANGED <<timer_start, it, clock>>

-----------------------------------------------------------------------------
(* Scheduler *)

\* Mutant: the stopwatch is not started for the process that is dispatched.
DispatchUnflushed(p) ==
  /\ mode = "nucleus"
  /\ curr_process' = p
  /\ mode' = "process"
  /\ UNCHANGED <<timer_start, p_time, times>>

Dispatch(p) ==
  /\ mode = "nucleus"
  /\ TimerFlush(mode, it)
  /\ curr_process' = p
  /\ mode' = "process"
  /\ UNCHANGED p_time

Wait ==
  /\ mode = "nucleus"
  /\ mode' = "wait"
  /\ UNCHANGED <<curr_process, timer_start, p_time, times>>

-----------------------------------------------------------------------------
(* Interrupts *)

\* Mutant: interruptHandler does not charge the running process.
InterruptUncharged ==
  /\ mode \in {"process", "wait"}
  /\ mode' = "interrupt"
  /\ UNCHANGED <<curr_process, timer_start, p_time, times>>

\* The first line of interruptHandler; time passes before the rest of it.
InterruptEntry ==
  /\ mode \in {"process", "wait"}
  /\ mode' = "interrupt"
  /\ UNCHANGED curr_process
  /\ IF curr_process # Null
     THEN UpdateProcessCPUTime("interrupt")
     ELSE UNCHANGED <<timer_start, p_time, times>>

\* _interruptHandlerExit, with the interval timer set to timer.
InterruptHandlerExit(timer) ==
  /\ TimerFlush(mode, timer)
  /\ mode' = IF curr_process # Null THEN "process" ELSE "nucleus"
  /\ UNCHANGED <<curr_process, p_time>>

\* _PLTHandler; an expired PLT while the nucleus waits is left to module
\* Nucleus (NoPLTWhileWaiting).
PLTInterrupt ==
  /\ mode = "interrupt"
  /\ curr_process # Null
  /\ UpdateProcessCPUTime(mode)
  /\ curr_process' = Null
  /\ mode' = "nucleus"

\* _ITHandler
ITInterrupt ==
  /\ mode = "interrupt"
  /\ it = 0
  /\ InterruptHandlerExit(Interval)

\* _deviceHandler
DeviceInterrupt ==
  /\ mode = "interrupt"
  /\ InterruptHandlerExit(it)

-----------------------------------------------------------------------------
\* main calls resetIntervalTimer and then the scheduler.
Init ==
  /\ mode = "nucleus"
  /\ curr_process = Null
  /\ timer_start = 0
  /\ p_time = [p \in Process |-> 0]
  /\ clock = 0
  /\ it = Interval
  /\ ran = [p \in Process |-> 0]
  /\ held = ran

Next ==
  \/ Tick
  \/ SystemCall \/ Return \/ GetCPUTime \/ GiveUpCPU \/ TermProcess
  \/ \E p \in Process : Dispatch(p)
  \/ Wait
  \/ InterruptEntry \/ PLTInterrupt \/ ITInterrupt \/ DeviceInterrupt

Spec == Init /\ [][Next]_vars

-----------------------------------------------------------------------------
(* Properties *)

\* A process pays at most for the time in which it held the CPU: never for
\* idle time, for the scheduler or for another process, also across the point
\* where the TOD becomes negative.  (p2test.c:349, "more cpu time than real
\* time".)
OwnTimeOnly == \A p \in Process : p_time[p] <= held[p]

\* All the time that a process executes is charged to it, however many
\* interrupts and system calls cut it into pieces; what the stopwatch has not
\* delivered yet is counted for the running one.  (p2test.c:352, "not enough
\* cpu time went by".)
RunTimeCharged ==
  \A p \in Process :
    ran[p] <= p_time[p] + (IF curr_process = p /\ mode \in {"process", "syscall"}
                           THEN Signed(TOD - timer_start) ELSE 0)

\* Relazione.tex:131: the interval timer expires at multiples of PSECOND of the
\* TOD, so that the delays of its handler do not add up.  (The load that
\* crosses the point where the TOD becomes negative counts from before it.)
DelaysDoNotAddUp ==
  it > 0 => \E turn \in {0, WordSize} : (TOD + turn + it) % PSECOND = 0

=============================================================================
