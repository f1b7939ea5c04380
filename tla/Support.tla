------------------------------ MODULE Support -------------------------------
(***************************************************************************)
(* The support level: the system calls of the user processes, their traps  *)
(* and their end (src/phase3/sysSupport.c), and test(), which starts them  *)
(* and waits for them (src/phase3/initProc.c), with the mutexes of the     *)
(* printers, of the terminals and of the swap pool.                        *)
(*                                                                         *)
(* All of it runs with interrupts enabled.  Every system call to the       *)
(* nucleus is a step, and so is every store to user_asid, which the trap   *)
(* handler reads.  A page fault may come from the program and from the     *)
(* system calls that read or write its buffer, in the middle of their      *)
(* work; of its handler, Vm has the details, only what touches the mutex   *)
(* of the swap pool is kept.                                               *)
(*                                                                         *)
(* Every process has a support structure of its own here.  SupportPool is  *)
(* about when that is so.                                                  *)
(***************************************************************************)
EXTENDS Semaphores

CONSTANTS
  Asid,      \* user processes; they are started in this order
  MaxLength  \* longest string that is written, for model checking only

ASSUME SupportAssumption ==
  /\ Asid \subseteq Nat \ {0}
  /\ IsFiniteSet(Asid)
  /\ MaxLength \in Nat

Test == 0  \* the process of test()

\* printer_sem[i], terminal_sem[i] and swap_pool_sem.  DEVICE_OF gives every
\* process a printer and a terminal of its own.
SwapPool == <<"swap pool", 0>>
Printer(a) == <<"printer", a>>
Terminal(a) == <<"terminal", a>>
Mutex == {SwapPool} \cup {Printer(a) : a \in Asid} \cup {Terminal(a) : a \in Asid}

VARIABLES
  nucleus,     \* "runs", or how the nucleus has stopped
  test,        \* where test() is
  taken,       \* how many times test() has taken master_sem
  pc,          \* where each process is
  call,        \* its WRITEPRINTER, WRITETERMINAL or READTERMINAL
  left,        \* characters that it still has to write
  back,        \* where it goes on after a page fault
  releasing,   \* the mutex that its trap handler releases
  sem,         \* the mutexes
  master_sem,
  holders      \* history: the processes between their P and their V

callVars == <<call, left, back, releasing>>
vars == <<nucleus, test, taken, pc, callVars, sem, master_sem, holders>>

Call == {"none", "printer", "transmitter", "receiver"}

\* In a system call, in a page fault, and from the trap handler or TERMINATE
\* to the end.
InCall  == {"lock", "own", "loop", "io", "buffer", "disown", "unlock"}
InFault == {"faultlock", "faultown", "fault", "faultdisown", "faultunlock"}
Ending  == {"trap", "release", "freelock", "free", "freedisown", "freeunlock",
            "signal", "terminate", "dead"}

TypeOK ==
  /\ nucleus \in {"runs", "halt", "panic"}
  /\ test \in {"starting", "header", "waiting", "taking", "terminate"}
  /\ taken \in 0 .. Cardinality(Asid)
  /\ pc \in [Asid -> {"new", "user"} \cup InCall \cup InFault \cup Ending]
  /\ call \in [Asid -> Call]
  /\ left \in [Asid -> 0 .. MaxLength]
  /\ back \in [Asid -> {"user", "loop", "buffer"}]
  /\ releasing \in [Asid -> Mutex]
  /\ sem \in [Mutex -> SemaphoreType(Asid)]
  /\ master_sem \in SemaphoreType(Asid \cup {Test})
  /\ holders \in [Mutex -> SUBSET Asid]

-----------------------------------------------------------------------------
(* Steps on the semaphores *)

Runs(p) ==
  /\ nucleus = "runs"
  /\ ~BlockedOn(master_sem, p)
  /\ \A m \in Mutex : ~BlockedOn(sem[m], p)

Goto(a, from, to) ==
  /\ pc[a] = from
  /\ Runs(a)
  /\ pc' = [pc EXCEPT ![a] = to]

\* Who gets the mutex with a P of a, or with a V.
Lock(a, m) ==
  /\ sem' = [sem EXCEPT ![m] = SemP(@, a)]
  /\ holders' = [holders EXCEPT ![m] = IF sem[m].val = 1 THEN @ \cup {a} ELSE @]
  /\ UNCHANGED master_sem

Own(a, m) ==
  /\ sem' = [sem EXCEPT ![m] = Owned(@, a)]
  /\ UNCHANGED <<master_sem, holders>>

DisownLate(m) == UNCHANGED <<sem, master_sem, holders>>  \* Mutant: not cleared.
Disown(m) ==
  /\ sem' = [sem EXCEPT ![m] = Disowned(@)]
  /\ UNCHANGED <<master_sem, holders>>

Unlock(a, m) ==
  /\ sem' = [sem EXCEPT ![m] = SemV(@, a)]
  /\ holders' =
       [holders EXCEPT ![m] =
          IF sem[m].val = 1 THEN @
          ELSE (@ \ {a}) \cup IF sem[m].queue = <<>> THEN {} ELSE {Head(sem[m].queue)}]
  /\ UNCHANGED master_sem

KeepSems == UNCHANGED <<sem, master_sem, holders>>

\* The mutex of the system call.
CallMutex(a) == IF call[a] = "printer" THEN Printer(a) ELSE Terminal(a)

-----------------------------------------------------------------------------
(* test() *)

\* _startProcess up to DOIO for the header of the executable.
StartProcess ==
  /\ Runs(Test)
  /\ test = "starting"
  /\ test' = "header"
  /\ UNCHANGED <<nucleus, taken, pc, callVars>> /\ KeepSems

\* CREATEPROCESS of the next process.
CreateProcess(a) ==
  /\ Runs(Test)
  /\ test = "header"
  /\ pc[a] = "new"
  /\ \A b \in Asid : b < a => pc[b] # "new"
  /\ pc' = [pc EXCEPT ![a] = "user"]
  /\ test' = IF \A b \in Asid \ {a} : pc[b] # "new" THEN "waiting" ELSE "starting"
  /\ UNCHANGED <<nucleus, taken, callVars>> /\ KeepSems

\* An error of the flash: the trap handler dereferences the support structure
\* that test() has not, and the nucleus kills it with all its children.
HeaderError ==
  /\ Runs(Test)
  /\ test = "header"
  /\ nucleus' = "halt"
  /\ UNCHANGED <<test, taken, pc, callVars>> /\ KeepSems

\* PASSEREN on master_sem, and its return.
TakeMaster ==
  /\ Runs(Test)
  /\ test = "waiting"
  /\ master_sem' = SemP(master_sem, Test)
  /\ test' = "taking"
  /\ UNCHANGED <<nucleus, taken, pc, callVars, sem, holders>>

\* Mutant: one process too few is waited for.
TakenAllButOne(n) == n = Cardinality(Asid) - 1
TakenAll(n) == n = Cardinality(Asid)

MasterTaken ==
  /\ Runs(Test)
  /\ test = "taking"
  /\ taken' = taken + 1
  /\ test' = IF TakenAll(taken + 1) THEN "terminate" ELSE "waiting"
  /\ UNCHANGED <<nucleus, pc, callVars>> /\ KeepSems

\* TERMPROCESS kills what is left of the children, and nobody remains.
TestTerminates ==
  /\ Runs(Test)
  /\ test = "terminate"
  /\ nucleus' = "halt"
  /\ UNCHANGED <<test, taken, pc, callVars>> /\ KeepSems

-----------------------------------------------------------------------------
(* The program, and its system calls *)

\* WRITEPRINTER and WRITETERMINAL.  A bad length or address is TERMINATE.
WriteCall(a, device, length) ==
  /\ Goto(a, "user", "lock")
  /\ call' = [call EXCEPT ![a] = device]
  /\ left' = [left EXCEPT ![a] = length]
  /\ UNCHANGED <<nucleus, test, taken, back, releasing>> /\ KeepSems

ReadCall(a) ==
  /\ Goto(a, "user", "lock")
  /\ call' = [call EXCEPT ![a] = "receiver"]
  /\ UNCHANGED <<nucleus, test, taken, left, back, releasing>> /\ KeepSems

Terminate(a) ==
  /\ Goto(a, "user", "freelock")
  /\ UNCHANGED <<nucleus, test, taken, callVars>> /\ KeepSems

\* An exception of the program, an unknown system call, TLBMOD; in READTERMINAL
\* also TLBMOD when the buffer is in a text page.
Trap(a) ==
  /\ \/ Goto(a, "user", "trap")
     \/ Goto(a, "buffer", "trap")
  /\ UNCHANGED <<nucleus, test, taken, callVars>> /\ KeepSems

LockCall(a) ==
  /\ Goto(a, "lock", "own")
  /\ Lock(a, CallMutex(a))
  /\ UNCHANGED <<nucleus, test, taken, callVars>>

OwnCall(a) ==
  /\ Goto(a, "own", "loop")
  /\ Own(a, CallMutex(a))
  /\ UNCHANGED <<nucleus, test, taken, callVars>>

\* A turn of the loop: the next character is read (it is in memory) and given
\* to the device, or the string is at its end.  (Mutant: i <= length.)
NextCharacterOneMore(a) ==
  /\ Goto(a, "loop", "io")
  /\ UNCHANGED <<nucleus, test, taken, callVars>> /\ KeepSems

NextCharacter(a) ==
  /\ call[a] = "receiver" \/ left[a] > 0
  /\ Goto(a, "loop", "io")
  /\ UNCHANGED <<nucleus, test, taken, callVars>> /\ KeepSems

LastCharacter(a) ==
  /\ call[a] # "receiver" /\ left[a] = 0
  /\ Goto(a, "loop", "disown")
  /\ UNCHANGED <<nucleus, test, taken, callVars>> /\ KeepSems

\* DOIO returns: a character written or received; an error of the printer,
\* which ends the loop; one of a terminal, on which the nucleus panics.
Written(a) ==
  /\ call[a] # "receiver"
  /\ Goto(a, "io", "loop")
  /\ left' = [left EXCEPT ![a] = @ - 1]
  /\ UNCHANGED <<nucleus, test, taken, call, back, releasing>> /\ KeepSems

Received(a) ==
  /\ call[a] = "receiver"
  /\ Goto(a, "io", "buffer")
  /\ UNCHANGED <<nucleus, test, taken, callVars>> /\ KeepSems

PrinterError(a) ==
  /\ call[a] = "printer"
  /\ Goto(a, "io", "disown")
  /\ left' = [left EXCEPT ![a] = 0]
  /\ UNCHANGED <<nucleus, test, taken, call, back, releasing>> /\ KeepSems

TerminalError(a) ==
  /\ nucleus = "runs"
  /\ pc[a] = "io"
  /\ call[a] # "printer"
  /\ nucleus' = "panic"
  /\ UNCHANGED <<test, taken, pc, callVars>> /\ KeepSems

\* The character goes to the buffer, which is in memory; a new line ends the
\* loop.
Buffered(a) ==
  /\ \/ Goto(a, "buffer", "loop")
     \/ Goto(a, "buffer", "disown")
  /\ UNCHANGED <<nucleus, test, taken, callVars>> /\ KeepSems

DisownCall(a) ==
  /\ Goto(a, "disown", "unlock")
  /\ Disown(CallMutex(a))
  /\ UNCHANGED <<nucleus, test, taken, callVars>>

UnlockCall(a) ==
  /\ Goto(a, "unlock", "user")
  /\ Unlock(a, CallMutex(a))
  /\ call' = [call EXCEPT ![a] = "none"]
  /\ UNCHANGED <<nucleus, test, taken, left, back, releasing>>

-----------------------------------------------------------------------------
(* Page faults: of the program, when *string is read, when buffer[received]  *)
(* is written                                                                *)

PageFault(a) ==
  /\ pc[a] \in {"user", "buffer"} \/ (pc[a] = "loop" /\ left[a] > 0)
  /\ Goto(a, pc[a], "faultlock")
  /\ back' = [back EXCEPT ![a] = pc[a]]
  /\ UNCHANGED <<nucleus, test, taken, call, left, releasing>> /\ KeepSems

LockFault(a) ==
  /\ Goto(a, "faultlock", "faultown")
  /\ Lock(a, SwapPool)
  /\ UNCHANGED <<nucleus, test, taken, callVars>>

OwnFault(a) ==
  /\ Goto(a, "faultown", "fault")
  /\ Own(a, SwapPool)
  /\ UNCHANGED <<nucleus, test, taken, callVars>>

\* The page is loaded, or the flash ends a command with an error.
PageLoaded(a) ==
  /\ Goto(a, "fault", "faultdisown")
  /\ UNCHANGED <<nucleus, test, taken, callVars>> /\ KeepSems

FlashError(a) ==
  /\ Goto(a, "fault", "trap")
  /\ UNCHANGED <<nucleus, test, taken, callVars>> /\ KeepSems

DisownFault(a) ==
  /\ Goto(a, "faultdisown", "faultunlock")
  /\ Disown(SwapPool)
  /\ UNCHANGED <<nucleus, test, taken, callVars>>

UnlockFault(a) ==
  /\ Goto(a, "faultunlock", back[a])
  /\ Unlock(a, SwapPool)
  /\ back' = [back EXCEPT ![a] = "user"]
  /\ UNCHANGED <<nucleus, test, taken, call, left, releasing>>

-----------------------------------------------------------------------------
(* trapExceptionHandler, _terminate and signalProcessTermination *)

\* What the trap handler releases: the mutexes whose user_asid is that of the
\* process, devices first.  (Mutants: it does not release those of devices, or
\* that of the swap pool.)
NamesSwapPoolOnly(a) == {m \in {SwapPool} : sem[m].user_asid = a}
NamesDevicesOnly(a) == {m \in Mutex \ {SwapPool} : sem[m].user_asid = a}
Names(a) == {m \in Mutex : sem[m].user_asid = a}

Release(a, m) ==
  /\ m \in Names(a)
  /\ m = SwapPool => Names(a) = {SwapPool}
  /\ Goto(a, "trap", "release")
  /\ releasing' = [releasing EXCEPT ![a] = m]
  /\ Disown(m)
  /\ UNCHANGED <<nucleus, test, taken, call, left, back>>

Released(a) ==
  /\ Goto(a, "release", "trap")
  /\ Unlock(a, releasing[a])
  /\ releasing' = [releasing EXCEPT ![a] = SwapPool]
  /\ UNCHANGED <<nucleus, test, taken, call, left, back>>

\* Nothing is left to release, and what it was doing is forgotten.
NothingToRelease(a) ==
  /\ Names(a) = {}
  /\ Goto(a, "trap", "freelock")
  /\ call' = [call EXCEPT ![a] = "none"]
  /\ left' = [left EXCEPT ![a] = 0]
  /\ back' = [back EXCEPT ![a] = "user"]
  /\ UNCHANGED <<nucleus, test, taken, releasing>> /\ KeepSems

\* freeFrames
LockFree(a) ==
  /\ Goto(a, "freelock", "free")
  /\ Lock(a, SwapPool)
  /\ UNCHANGED <<nucleus, test, taken, callVars>>

OwnFree(a) ==
  /\ Goto(a, "free", "freedisown")
  /\ Own(a, SwapPool)
  /\ UNCHANGED <<nucleus, test, taken, callVars>>

DisownFree(a) ==
  /\ Goto(a, "freedisown", "freeunlock")
  /\ Disown(SwapPool)
  /\ UNCHANGED <<nucleus, test, taken, callVars>>

UnlockFree(a) ==
  /\ Goto(a, "freeunlock", "signal")
  /\ Unlock(a, SwapPool)
  /\ UNCHANGED <<nucleus, test, taken, callVars>>

\* VERHOGEN on master_sem, which blocks while another process's signal has not
\* been taken.
Signalled(s, a) == [s EXCEPT !.val = 1]  \* Mutant: as if master_sem counted.
MasterV(s, a) == SemV(s, a)

Signal(a) ==
  /\ Goto(a, "signal", "terminate")
  /\ master_sem' = MasterV(master_sem, a)
  /\ UNCHANGED <<nucleus, test, taken, callVars, sem, holders>>

TermProcess(a) ==
  /\ Goto(a, "terminate", "dead")
  /\ UNCHANGED <<nucleus, test, taken, callVars>> /\ KeepSems

-----------------------------------------------------------------------------
(* The specification *)

\* initSwapStructs, initSysStructs and the beginning of test().
Init ==
  /\ nucleus = "runs"
  /\ test = "starting"
  /\ taken = 0
  /\ pc = [a \in Asid |-> "new"]
  /\ call = [a \in Asid |-> "none"]
  /\ left = [a \in Asid |-> 0]
  /\ back = [a \in Asid |-> "user"]
  /\ releasing = [a \in Asid |-> SwapPool]
  /\ sem = [m \in Mutex |-> Semaphore(1)]
  /\ master_sem = Semaphore(0)
  /\ holders = [m \in Mutex |-> {}]

TestStep ==
  \/ StartProcess
  \/ \E a \in Asid : CreateProcess(a)
  \/ HeaderError
  \/ TakeMaster
  \/ MasterTaken
  \/ TestTerminates

ProgramStep(a) ==
  \/ \E device \in {"printer", "transmitter"}, length \in 0 .. MaxLength :
       WriteCall(a, device, length)
  \/ ReadCall(a)
  \/ Terminate(a)
  \/ Trap(a)
  \/ PageFault(a)

\* Steps that depend on nothing but the process, or on a device that always
\* answers.
CallStep(a) ==
  \/ LockCall(a) \/ OwnCall(a) \/ NextCharacter(a) \/ LastCharacter(a)
  \/ Written(a) \/ PrinterError(a) \/ Buffered(a)
  \/ DisownCall(a) \/ UnlockCall(a)

FaultStep(a) ==
  \/ LockFault(a) \/ OwnFault(a) \/ PageLoaded(a) \/ FlashError(a)
  \/ DisownFault(a) \/ UnlockFault(a)

EndStep(a) ==
  \/ \E m \in Mutex : Release(a, m)
  \/ Released(a) \/ NothingToRelease(a)
  \/ LockFree(a) \/ OwnFree(a) \/ DisownFree(a) \/ UnlockFree(a)
  \/ Signal(a) \/ TermProcess(a)

\* The keyboard, and the errors of a terminal.
TerminalStep(a) == Received(a) \/ TerminalError(a)

\* HALT and PANIC.
Stutter == nucleus # "runs" /\ UNCHANGED vars

Next ==
  \/ TestStep
  \/ \E a \in Asid : ProgramStep(a) \/ CallStep(a) \/ FaultStep(a) \/ EndStep(a) \/ TerminalStep(a)
  \/ Stutter

Spec == Init /\ [][Next]_vars

\* A process that can go on gets the CPU (ReadyRuns of Nucleus), the flash and
\* the printer answer (DoIOReturns of Nucleus).  Nobody has to type.
Fairness ==
  /\ WF_vars(TestStep)
  /\ \A a \in Asid : WF_vars(FaultStep(a)) /\ WF_vars(EndStep(a))

FairSpec == Spec /\ Fairness

-----------------------------------------------------------------------------
(* Properties *)

\* A mutex has one holder when its value is 0 and none when it is 1, with
\* nobody in its queue, so that no V ever blocks; and user_asid never names
\* a process that does not hold it, although it is stored after the P and
\* cleared before the V while others run.
OneHolder ==
  \A m \in Mutex :
    /\ Cardinality(holders[m]) = 1 - sem[m].val
    /\ sem[m].val = 1 => sem[m].queue = <<>>
    /\ sem[m].user_asid \in holders[m] \cup {NOPROC}

\* A process leaves the support level with no mutex, back to its program or
\* for its end: system calls, page faults in the middle of them, errors and
\* traps at any of these points release what they have taken.
NothingHeld ==
  \A a \in Asid, m \in Mutex :
    pc[a] \in {"new", "user", "freelock", "signal", "terminate", "dead"} => a \notin holders[m]

\* When test() kills its children, they have freed their frames, released
\* their mutexes and signalled: all that is left of each is its TERMPROCESS.
\* In particular nobody is killed in DOIO, which the nucleus does not survive
\* (OrphanInterrupt of Nucleus).
TestKillsOnlyFinished ==
  test = "terminate" =>
    \A a \in Asid : pc[a] \in {"terminate", "dead"} /\ ~BlockedOn(master_sem, a)

\* Nobody waits in a circle.  Who waits for a mutex, while it holds the mutex of
\* its device or not, waits for a process that can go on and has not ended; who
\* waits to signal its end waits for test() alone, which can go on; and while
\* test() waits for a signal, some process that has not signalled can go on.
NoCircularWait ==
  nucleus = "runs" =>
    /\ \A m \in Mutex, a \in Asid :
         BlockedOn(sem[m], a) => \E h \in holders[m] : Runs(h) /\ pc[h] # "dead"
    /\ \A a \in Asid : BlockedOn(master_sem, a) => Runs(Test)
    /\ BlockedOn(master_sem, Test) =>
         \E a \in Asid : Runs(a) /\ pc[a] \notin {"terminate", "dead"}

\* Every mutex is a FifoLock: a V hands it over to the first process that waits,
\* and a P never gets past one that waits, whatever the processes do between.
HolderOf(m) == IF holders[m] = {} THEN NOPROC ELSE CHOOSE a \in holders[m] : TRUE

FifoLockOf(m) ==
  INSTANCE FifoLock WITH
    Process <- Asid, Nobody <- NOPROC, holder <- HolderOf(m), line <- sem[m].queue

ImplementsFifoLocks ==
  /\ \A m \in Mutex : FifoLockOf(m)!Init
  /\ [][\A m \in Mutex : [FifoLockOf(m)!Next]_<<HolderOf(m), sem[m].queue>>]_vars

\* Every process that begins to end does end, whoever holds the mutex of the
\* swap pool and however many signals are pending on master_sem.
EndingEnds ==
  \A a \in Asid : pc[a] \in Ending ~> pc[a] = "dead" \/ nucleus # "runs"

\* When all the processes have begun to end, test() gets all their signals and
\* the system halts.
SystemHalts == (\A a \in Asid : pc[a] \in Ending) ~> nucleus # "runs"

=============================================================================
