# TLA+ verification of PandOS+

PandOS+ is a small operating system for the µMPS3 machine (a MIPS with one
CPU), written in C in three layers: data structures (`src/phase1`), the nucleus
(`src/phase2`) and the support level with virtual memory (`src/phase3`).  This
directory holds TLA+ models of it, the TLC configurations that check them and
the TLAPS proofs about them.  `PROJECT.json` lists the runs, the mutants that
every property is tested with, the source lines behind every definition, the
hazards and the theorems.

## 1. Inventory

| Component | Source | State it keeps | Operations |
|---|---|---|---|
| Process queues | `phase1/pcb.c` | circular lists threaded through `p_list` | `insertProcQ`, `removeProcQ`, `outProcQ`, `headProcQ` |
| PCB pool, process tree, pids | `phase1/pcb.c` | `pcbFree_h`, `p_parent`/`p_child`/`p_sib`, `pid_list_h`, `curr_pid` | `allocPcb`, `freePcb`, `insertChild`, `removeChild`, `outChild`, `getProcessByPid` |
| Active semaphore list | `phase1/asl.c` | `semd_h` sorted by key, `semdFree_h`, queue per key | `insertBlocked`, `removeBlocked`, `outBlocked`, `headBlocked`, `semP`, `semV` |
| Scheduler | `phase2/scheduler.c` | `process_to_skip`, the two ready queues | `scheduler`, `setProcessReady`, `setProcessBlocked` |
| System calls and exceptions | `phase2/exceptions.c` | `curr_process`, `process_count`, `softblocked_count` | ten system calls, pass up or die |
| Interrupts | `phase2/interrupts.c` | device registers, device semaphores | PLT, interval timer, device and terminal handlers |
| Initialisation and timers | `phase2/initial.c` | device semaphores, `timer_start`, `p_time` | `main`, `isSoftBlocked`, `getIODeviceSemaphore`, `resetIntervalTimer`, `timerFlush` |
| Virtual memory | `phase3/vmSupport.c` | `swap_pool_table`, `swap_pool_sem`, `to_swap_frame_index`, page tables, TLB, flash | `_TLBInvalidHandler`, `TLBRefillHandler`, `releaseSwapPoolSem`, `freeFrames` |
| Support system calls | `phase3/sysSupport.c` | `printer_sem`, `terminal_sem` | print, read, terminate, `trapExceptionHandler` |
| Start and end of processes | `phase3/initProc.c` | `free_support`, `master_sem` | `test`, `_startProcess`, `_allocate`, `_deallocate`, `signalProcessTermination` |
| Mutexes with an owner | `lib/utilities.c` | `user_asid` beside the value | `P`, `V` |
| Lists, memcpy, log | `lib` | links of lists | `listx.h` functions |

**Interactions.**  The nucleus runs on one CPU with interrupts disabled: a
handler is entered by an exception and ends in LDST, LDCXT, WAIT, HALT or PANIC,
so two handlers never interleave.  Concurrency is between processes (any of
them may run next), timers and devices (their interrupts become pending at any
time, and are taken between two handlers).  `pcb.c` and `asl.c` are called by
the handlers; `semP` and `semV` call back into `scheduler()`, which does not
return.  The processes of phase 3 run with interrupts enabled and meet in
the mutexes (`swap_pool_sem`, one per printer and per terminal), in the swap
pool and in `master_sem`, all through PASSEREN, VERHOGEN and DOIO.

**Hard behaviours and the properties that answer them**

| Where | What is hard | What makes it correct |
|---|---|---|
| queues, tree | one `p_list` field for all the queues; kills of whole subtrees, blocked, ready or running | a process is in one place (`OnePlace`), the tree stays a tree (`TreeOK`), queues are FIFO (`Fifo`) |
| counters | two counters kept by hand decide HALT, WAIT and PANIC | `ProcessCountExact`, `SoftBlockedExact`, `IdleSound` |
| binary semaphores | P and V both block, on one queue | `BlockedMatchesValue`, `NoSemdExhaustion` |
| devices | an interrupt may find nobody waiting; a V in an interrupt must not block | `DevSemOK`, `DoIOReturns`, `SemaphoresByPriority` |
| scheduler | two priorities, a process to skip, a timer that may expire inside a handler | `HighPriorityFirst`, `YieldGivesWay`, `HighRuns`, `ReadyRuns`, `NoPLTWhileWaiting` |
| clock | ticks against joins and kills | `ClockWaitersWake` |
| semaphore list | a search that stops at the first greater key; descriptors recycled at every wake-up | `ListOK`, `DescriptorsSuffice`, `SemAddExact`, `ImplementsSemQueues` |
| pids | wrap-around of an unsigned counter, a sorted list searched from both ends | `LookupExact`, `CyclicOrder` |
| time | one stopwatch for all processes, restarted in seven places; a signed TOD | `OwnTimeOnly`, `RunTimeCharged`, `DelaysDoNotAddUp` |
| mutexes of phase 3 | the owner is stored after P and cleared before V, while others run; traps in the middle of a system call, page faults in the middle of it too; two kinds of mutex are held at once | `OneHolder`, `NothingHeld`, `ImplementsFifoLocks`, `NoCircularWait` |
| page faults | page table, TLB, swap pool table and flash change in separate steps, the owner of the victim runs between them, refills copy entries at any time, the flash fails | `TLBCoherent`, `ValidPageOwnsFrame`, `ImplementsUserMemory`, `ImplementsSupport`, `FaultServed` |
| flash devices | DOIO does not look whether the device is ready | `FlashReadyForCommand` |
| end of phase 3 | `test` counts eight V on a binary semaphore and then kills its children | `TestKillsOnlyFinished`, `NoCircularWait`, `EndingEnds`, `SystemHalts` |
| support structures | a free list that nothing protects | `SupportsDistinct` (violated; `ProtectedPoolIsSound`) |

## 2. Modules

| Module | Models |
|---|---|
| `ProcQueues` | the process queues of `pcb.c`, as operators on sequences |
| `Nucleus` | the nucleus: processes, ready queues, scheduler, semaphores, clock, devices, interrupts |
| `MCNucleus` | its instances for TLC |
| `SemQueues` | what `asl.c` promises: a FIFO queue for every key |
| `Asl`, `MCAsl` | the sorted list of descriptors of `asl.c`, which implements `SemQueues` |
| `Pids`, `MCPids` | the generation of pids and their sorted list (`pcb.c`) |
| `Timers`, `MCTimers` | CPU time and the reload of the interval timer (`initial.c` and all its callers) |
| `DevSem` | the semaphore of a device from the address of its command register |
| `Semaphores` | the semaphores of the nucleus as phase 3 sees them, and the halves of its `P` and `V` |
| `FifoLock` | what a semaphore used as a mutex promises: one holder, and a line |
| `UserMemory` | what virtual memory promises: a private memory for every process |
| `Vm`, `MCVm` | page faults, TLB, swap pool and flash (`vmSupport.c`), which implement `UserMemory` |
| `VmSupport` | what `Vm` is for `Support`: the refinement mapping between the two |
| `Support`, `MCSupport` | the system calls and the end of user processes (`sysSupport.c`), and `test` (`initProc.c`) |
| `SupportPool` | the free list of support structures (`initProc.c`) |
| `PageIndex` | page numbers, EntryHi and indices of page tables |
| `Listx` | the circular lists of `listx.h`, on their pointers |
| `QueueProofs` | lemmas on the operators on queues (`ProcQueues`), on P and V (`Semaphores`) and on sorted lists and remainders; theorems about `Listx` |
| `NucleusProofs`, `AslProofs`, `PidsProofs`, `TimersProofs`, `VmProofs`, `SupportProofs` | the theorems about the module of the same name |
| `TableProofs` | the theorems about `DevSem`, `PageIndex` and `SupportPool` |

### 2.1 Nucleus

State: `alive` is the set of PCBs with `IS_ALIVE`; `parent`, `prio`, `supp`,
`semAdd` are the fields of the PCBs; `readyqueue[LOW]` and `readyqueue[HIGH]`,
`curr_process`, `process_count`, `softblocked_count` have the names of the code;
`asl[s]` and `semVal[s]` are the queue and the value of semaphore `s`, which is
a user's, the clock's (`ITSem`) or a device's.  `mode` is what the CPU does
between two handlers (`run`, `wait`) or how it has stopped; `plt` says that the
Processor Local Timer has an interrupt pending; `dev[d]` is the state of a
device.  Two history variables serve the properties only: `blockedBy` (P or V)
and `leaked` (DOIO calls that were counted as blocked and were not).

One action per handler, from its entry to its LDST or to the end of
`scheduler()`: `CreateProcess`, `TermProcess`, `Die` (pass up or die without a
support structure), `Passeren`, `Verhogen`, `DoIO`, `ClockWait`, `Yield`,
`PLTInterrupt`, `ITInterrupt`, `DeviceInterrupt`, `OrphanInterrupt` (the same
with nobody waiting), `TerminalError`.  `PLTExpire` and `DevComplete` are the
hardware.  `Schedule(rq, skip, pending)` is `scheduler()` and ends most of them.
GETTIME, GETSUPPORTPTR, GETPROCESSID, a trap passed up, CREATEPROCESS without a
PCB and TERMPROCESS of an unknown pid change none of this state.

What is abstracted, and why it is sound to do so:

* *Addresses, registers, saved states*: no property looks at them.
* *The order of free PCBs and of the children of a process*: a PCB is chosen
  from the free ones with `\E`, and a kill takes a set.  The recursion of
  `_killProcess` is the least set closed under "child of".
* *The fields of a free PCB* (`p_prio`, `p_supportStruct`) get a fixed value,
  which makes states equal that the code cannot tell apart.
* *The list of semaphores*: `asl` is `SemQueues`, with the number of active
  queues bounded by the number of descriptors.  Module `Asl` is proved to
  implement `SemQueues` (`AslImplementsSemQueues`).
* *A DOIO finds its device ready.*  The nucleus does not check it; it is a
  precondition of `DoIO`.  The drivers of phase 3 keep to it: a printer and a
  terminal are used under their mutex (`OneHolder` of `Support`), and for the
  flash devices it is the property `FlashReadyForCommand` of `Vm`.
* *The PLT.*  Once expired it stays pending until the timer is loaded
  (`startPLT`); TEBIT stops the counting and acknowledges nothing.
* *A NULL dereference in the kernel* raises an exception inside the handler:
  it is passed up or kills whoever is `curr_process`, and when that is NULL the
  exceptions nest for ever, which is mode `fault`.

### 2.2 Asl and SemQueues

`semd_h` and `semdFree_h` are sequences of descriptors, with `s_key` and
`s_procq`.  `Peek` is the walk of `_peekActiveSemaphore`, which finds nothing
behind a greater key, so that an unsorted list would hide a semaphore.  The
operations are called the way the nucleus calls them: who blocks is running and
in no queue; `outBlocked` is called with `p_semAdd` set.  `ImplementsSemQueues`
is `SemQueues!Spec` with `asl[key]` the queue of the descriptor that has the key.

### 2.3 Pids

`curr_pid`, `pid_list` and `p_pid` are those of `pcb.c`; pids are counted modulo
`PidBound`.  `GeneratedPid` is `_generatePid` with its test for a collision
against the last of the list, `WithPid` the insertion from the end of
`_addPid`, `ProcessByPid` the search from the head.  Both walks rely on the
order of the list.

Two corners that the model shows and that take 2^32 - 2 creations of
processes: `pid_t` is unsigned, so that the test `curr_pid <= 0` (`pcb.c:40`)
only catches 0.  The pid `0xFFFFFFFF` is given out although it is
`FREE_PCB_PID`, and `IS_ALIVE` is false of its process, which
`setProcessReady` then drops; and a search for a free pid that goes past the
largest one gives 0, which TERMPROCESS takes for its caller.

### 2.4 Timers

The CPU is in one of five modes (a process, its system call, an interrupt
handler, the scheduler, WAIT), time passes in all of them (`Tick`) and between
the two readings of the TOD in `timerFlush`.  `ran` and `held` are history
variables: what a process executed, and the same with its system calls and the
interrupts taken meanwhile.  STCK and LDIT, of the machine's library, scale the
TOD and the interval timer to microseconds, which are the unit of time here.  Which process is dispatched, and which interrupt
comes, is left open.

### 2.5 DevSem and PageIndex

Constants and operators only.  `DevSem`: `CommandAddress` is the layout of the
device registers (of the machine), `SemIndex` is `getIODeviceSemaphore`.
`PageIndex`: `PageOfEntry` and `EntryHi` are what `initPageTable` writes,
`GetVpn` and `GetPageIndex` what the handlers read back.  The macro
`ENTRYHI_GET_VPN` is the machine's; `vmSupport.c:24` says which bit it leaves
out.  Their theorems are in `TableProofs`.

### 2.6 Semaphores

In the nucleus a handler is one step.  For phase 3 a semaphore is its value, the
queue of the blocked processes and `user_asid`.  The wrappers `P` and `V` of
`utilities.c` are two steps each, because interrupts are enabled: PASSEREN and
then the store of the owner; the owner cleared and then VERHOGEN.  A process in a
queue takes no step, and a step that wakes it lets it go on behind the system
call.  `SemP` and `SemV` follow `semP` and `semV`, also where V blocks;
`SemaphoresAsSeen` proves that they are what `Passeren` and `Verhogen` of `Nucleus`
do to one semaphore.

### 2.7 Vm, UserMemory and VmSupport

`pc[a]` is the place of process `a` in `_TLBInvalidHandler`, in its end, or
`user` (its program, or a system call that touches its memory).  `pte` is the
frame of every page or `Invalid`; `tlb` the same as far as the TLB has the page;
`ram` and `flash` are the contents of frames and blocks; `dev` is the command
that a flash device executes, with the process in DOIO.  `swap_pool_table` keeps
`sw_asid` and `sw_pageNo`; `sw_pte` is the entry of that page, since every process
has a support structure of its own here.

Every step between two points where another process may run is an action: the
two halves of P and V, `ChooseFrame` (`_getFrame` under the mutex), `Evict`
(page table and TLB with interrupts disabled), `Store` and `Load` (a DOIO is
given), `StoreDone`, `LoadDone`, `StoreError`, `LoadError` (it returns), `Enter`
(the swap pool entry), `Map` (page table and TLB).  `Refill` is
`TLBRefillHandler`, with any victim in the TLB.  A frame is read and written by
DMA while the device works, so that its content counts at the end of the
operation.  `StartProcess` and `HeaderRead` are the read of the first block that
`test` does for every process while those before it run.  After an error of the
flash, the block or the frame may hold anything.  A process that takes one goes
through `releaseSwapPoolSem` (`release`, and then `trap`, where it no longer has the
mutex) to `freeFrames`; an error in `test` itself stops everything (`nucleus`).

`UserMemory` has a memory for every process, which only it changes.  The
refinement finds a page in the frame that its page table names, in the frame it
is being saved from, or on the flash (`memory` in `Vm`).  So `ImplementsUserMemory`
says that no eviction, refill or end of somebody else is visible to a process.
The history variable `lost` has the page that was in the frame when a command
failed: of that page nothing is promised, and of all the others everything.
This is the finding `SavedFrameContainsPage`, turned around: what is lost is one
page, and never the page of the process that ends, nor a third one.

`VmSupport` maps a state of `Vm` to one of `Support` in which no process makes a
system call: the places between the two stores to `user_asid` are one place there,
the mutex of the swap pool is `swap_pool_sem`, those of the devices are free and
`test` is at the process that it starts.  `ImplementsSupport` says that every
step of `Vm` is then a step of `Support` or none, down to the moments at which the
mutex changes hands, and so that the page fault which `Support` has in one step
(`fault`) is what the handler does.

`Store` is one step: `_backingStoreOperation` writes `data0` of the device before
the DOIO that writes its command, with interrupts enabled, but nobody else uses
that device meanwhile: whoever does has the mutex of the swap pool, or is `test`
reading for a process that has no page in a frame yet (`FlashReadyForCommand` is
the same for the command).  `Load` likewise.

Left out: addresses outside the 32 pages (the index of such an address is
that of another page, or beyond the table), the statuses of a flash device other
than ready and the two errors, which `_backingStoreOperation` does not look at,
and the contents of the header.

### 2.8 Support and FifoLock

`test` and `taken` are where `test()` is; `pc[a]` is the place of a process in
its program, a system call (`call[a]`, with `left[a]` characters to write), a
page fault (with the place where it goes `back`), its trap handler (which
releases mutex `releasing[a]`) or its end.  `sem` has the mutexes of the swap
pool, printers and terminals, `master_sem` is the semaphore of `test`.  The
history variable `holders` has who is between P and V.  A page fault may come in
the program, when the next character is read and when a received one is
stored; its details are those of `Vm`.  An error of a terminal is the PANIC of
the nucleus, an error of a printer ends the loop.  A parameter out of range is
`TERMINATE`.  `test` starts the processes one after the other while they run, and
an error of the flash then ends everything: `test` has no support structure, the
trap handler dereferences NULL, and the nucleus kills it with its children.

`FifoLock` is the promise of a mutex: a holder and a line of those who wait, the
first of whom gets it.  `ImplementsFifoLocks` instantiates it for every mutex, with
`holders` and the queue of the semaphore: the V of a process and its next P are
separate calls, and the process must not get past the line between them.
`NoCircularWait` is the absence of deadlock as a property of states: who waits for
a mutex waits for somebody who can go on, who waits to signal its end waits for
`test`, and `test` waits for somebody who can go on.

### 2.9 SupportPool

The list of free support structures on the pointers of `Listx`.  `_allocate` and
`_deallocate` are two steps each: what is read before the stores, and the stores.
The machine interleaves them more finely, so that what goes wrong here goes
wrong there.  `Support` and `Vm` assume what `SupportsDistinct` says.  `SpecProtected`
is the same list with its operations protected from each other, for a theorem only
(section 4.9).

### 2.10 Listx

The memory is the record of the functions `next` and `prev` on nodes, and every
operation of `listx.h` that is used makes a new one.  `Holds(mem, head, q)` says
that the list at `head` holds the elements of the sequence `q`: both walks meet
them.  All other modules use the sequences, and `QueueProofs` says why they may.

## 3. Runs

| Run | Instance | Shows |
|---|---|---|
| `NucleusProcesses` | 4 PCBs, both priorities, 2 semaphores, the clock | `TypeOK`, `OnePlace`, `ProcessCountExact`, `TreeOK`, `YieldGivesWay`, `BlockedMatchesValue`, `IdleSound`, `HighPriorityFirst`, `Fifo` |
| `NucleusIO` | 3 PCBs with and without support structure, a disk, both halves of a terminal, the clock | `DevSemOK`, `SoftBlockedExact`, `NoSemdExhaustion` |
| `NucleusProgress` | 3 PCBs, both priorities, a disk, the clock, fairness | `ClockWaitersWake`, `ReadyRuns`, `HighRuns`, `DoIOReturns` |
| `Asl` | 4 processes, 4 descriptors, 5 keys | `ListOK`, `DescriptorsSuffice`, `SemAddExact`, `ImplementsSemQueues` |
| `Pids` | 4 PCBs, 8 pids | `LookupExact`, `CyclicOrder` |
| `Timers` | 2 processes, a word of 14 values, pseudo-seconds of 4 units, 11 units of time | `OwnTimeOnly`, `RunTimeCharged`, `DelaysDoNotAddUp` |
| `Vm` | 2 processes of 2 pages (one read-only), 2 frames, a TLB of 1 entry, 2 contents, fairness | `TypeOK`, `TLBCoherent`, `ValidPageOwnsFrame`, `FlashReadyForCommand`, `FaultServed`, `ImplementsUserMemory`, `ImplementsSupport` |
| `Support` | 3 processes, 2 of which make system calls, strings of at most 1 character, fairness | `TypeOK`, `OneHolder`, `NothingHeld`, `TestKillsOnlyFinished`, `NoCircularWait`, `ImplementsFifoLocks`, `EndingEnds`, `SystemHalts`, no deadlock |
| `WaitHasWaiter` | 3 PCBs with and without support structure, a semaphore, a disk, the clock | section 6 |
| `NoPLTWhileWaiting` | 2 PCBs, the clock | section 6 |
| `SavedFrameContainsPage` | as `Vm`, without fairness | section 6 |
| `SupportsDistinct` | 4 processes and structures | section 6 |

**Bounds.**  Three PCBs give a queue with a head, a middle to be killed and a
tail; four give a subtree with an inner node, its sibling and its child.  Two
semaphores let a process wait on one while another is passed on.  A disk and
the two halves of a terminal are two lines of different priority and the choice
within a terminal; with the clock they are four semaphores for the three
descriptors of three PCBs, so that `NoSemdExhaustion` can fail there.  `MaxSoftBlocked` bounds `softblocked_count`, which the
DOIO calls that do not block would increase without end; it is the number of
PCBs, so it cuts off only states in which the counter is already too high.  In
`Pids` nothing bounds the number of creations: eight pids and four processes
make pids wrap around and collide at both ends of the list.  In `Asl` nothing
is bounded, and there is a key more than descriptors.  In `Timers` the TOD
becomes negative after 7 units, inside the 11 that are observed, and in the middle
of a pseudo-second, since the word is not a multiple of it; no process gets more time than `p_time` can count.
PCBs, processes and descriptors are symmetric, except in the liveness runs.

In `Vm` four pages compete for two frames: a process evicts its own pages and the
other's, finds free frames after an end, and keeps one while the other's flash
fails.  The TLB of one entry makes every access of another page a refill; with
two entries the run passes as well, and takes too long to be kept (this one has
463,670 states).  Two contents tell a page from what it was before, and from another one.  In `Support`
two of the three processes can stand in line for the swap pool behind the third,
or on `master_sem`, and the order in which they get it is what
`ImplementsFifoLocks` is about.  `Caller` names the two that make system calls;
the third one computes, faults, traps and ends (action constraint
`OnlyCallersCall`, 169,148 states).  With three callers the liveness properties take
too long.  The constraint cuts off the start of a system call only, which
`Fairness` does not ask for: no behaviour is made to stop where it should go on.
One character is
enough for a loop that goes on after a page fault, ends, or fails at the first
or in the middle.

**Fairness.**  In `NucleusProgress`:  Weak fairness of `PLTExpire` (the timer
of a running process runs out), of `PLTInterrupt` (it has the highest priority)
and of `DevComplete` (a command ends); strong fairness of a clock tick with
somebody waiting and of the interrupt of a device: when the handler of a more
important interrupt returns, its timer has just been loaded or its device
acknowledged, so the next one is taken.  Nothing is assumed of the processes,
which may compute for ever, and nothing of their priorities: a ready
low-priority process is only promised the CPU when there are no high-priority
ones, which may keep it (`ReadyRuns`).  The run has one device: with three that
are always in use, strong fairness alone does not keep the two more important
ones from being raised whenever the third could be served.

In `Vm` and `Support`: weak fairness of the handlers of every process and of
`test`, since all have low priority and a ready process runs (`ReadyRuns`), and of
the flash and the printer, since a DOIO returns (`DoIOReturns`).  A process that
is blocked is not enabled, and that it is woken must be shown.  Nothing is assumed
of the programs, which may compute for ever, nor, in `Support`, of what is typed
at a terminal; so `SystemHalts` begins when all the processes have begun to end.

## 4. What is proved

Every safety invariant and every action property that a run checks is a theorem
for all values of the constants, but `YieldGivesWay` (section 5), and so are all
the refinements: `Asl` implements `SemQueues`, `Vm` implements `UserMemory` and
`Support`, and the mutexes of `Support` implement `FifoLock`.
Each module has one inductive invariant `IInv`, and TLC has checked it on the
instance of the run before it was proved.  The type invariants of `Asl`, `Pids` and
`Timers` are proved and no longer part of a run.  The proof that a step preserves it has
a lemma per action, or per kind of step where several actions do the same.

| Module | Theorem | States |
|---|---|---|
| `NucleusProofs` | `TypeCorrect` | `TypeOK`; the unsigned counters never go below 0 |
| | `EveryProcessInOnePlace` | `OnePlace` |
| | `CountersExact`, `SoftBlockedCounted` | `ProcessCountExact`, `SoftBlockedExact` |
| | `NoLostWakeup` | `BlockedMatchesValue` |
| | `DeviceSemaphores` | `DevSemOK` |
| | `SchedulerStopsForCause` | `IdleSound` |
| | `SemaphoreDescriptorsSuffice` | `NoSemdExhaustion` |
| | `ProcessesFormTree` | `TreeOK` |
| | `QueuesAreFifo` | `Fifo` |
| | `HighPriorityGoesFirst` | `HighPriorityFirst` |
| | `YieldPassesTheCpu` | the step that `YieldGivesWay` forbids is impossible |
| | `SemaphoresAsSeen` | `Passeren` and `Verhogen` are `SemP` and `SemV` of `Semaphores` |
| `AslProofs` | `TypeCorrect`, `ListStaysSorted` | `TypeOK`, `ListOK` |
| | `SemAddNamesQueue` | `SemAddExact` |
| | `DescriptorsAlwaysSuffice` | `DescriptorsSuffice` |
| | `AslImplementsSemQueues` | `ImplementsSemQueues` |
| `PidsProofs` | `TypeCorrect`, `SearchFindsProcess` | `TypeOK`, `LookupExact` |
| | `PidsGivenInOrder` | `CyclicOrder` |
| `TimersProofs` | `TypeCorrect`, `ChargedForOwnTimeOnly` | `TypeOK`, `OwnTimeOnly` |
| | `AllRunTimeCharged` | `RunTimeCharged` |
| | `TicksStayAligned` | `DelaysDoNotAddUp` |
| `VmProofs` | `TypeCorrect`, `TLBIsCoherent` | `TypeOK`, `TLBCoherent` |
| | `PagesOwnTheirFrames` | `ValidPageOwnsFrame` |
| | `CommandsMeetReadyFlash` | `FlashReadyForCommand` |
| | `MemoryIsTheirs` | `ImplementsUserMemory` |
| | `PagingIsTheLevels` | `ImplementsSupport` |
| `SupportProofs` | `TypeCorrect`, `MutexesHaveOneHolder` | `TypeOK`, `OneHolder` |
| | `NothingIsKept` | `NothingHeld` |
| | `OnlyFinishedAreKilled` | `TestKillsOnlyFinished` |
| | `WaitsAreNotCircular` | `NoCircularWait` |
| | `MutexesAreFifoLocks` | `ImplementsFifoLocks` |
| `TableProofs` | `SemaphoresByPriority`, `SemaphoresDistinct`, `PageIndexExact`, `EntryHiDistinct` | section 4.7 |
| | `ProtectedPoolIsSound` | `SupportsDistinct` of `SpecProtected` (section 4.9) |
| `QueueProofs` | `ListAddHolds`, `ListAddTailHolds`, `ListDelHolds`, ... | section 4.8 |

The inductive invariants are theorems too: `Invariance` in `NucleusProofs`,
`IInvHolds` in the others.

### 4.1 Nucleus

The safety invariants but `TreeOK` follow from `IInv == SemInv /\ CpuInv`.
`SemInv` speaks of the processes and the semaphores: types,
every queue holds exactly the processes whose `p_semAdd` names it, once
(`Queued`), the counters are cardinalities (`Counted`), devices and values
(`Devices`, `BlockedMatchesValue`).  `CpuInv` speaks of the ready queues,
`curr_process` and `mode`.  None of the properties is inductive alone:
`SoftBlockedExact` needs to know that a process leaves its queue exactly when
`p_semAdd` is cleared; `NoSemdExhaustion` needs that the running process is in no
queue, so that the others fill fewer queues than there are descriptors;
`IdleSound` needs the exact counters.

The cut between the two parts follows the code.  A handler first changes the
processes and the semaphores, and ends in `scheduler()`, in a return to
`curr_process` or in `_interruptHandlerExit`.  So for every action one lemma
shows `SemInv'` and that the ready queues passed on are right (`BlockSemInv`,
`UnblockSemInv`, `KillSemInv`, `TickSemInv`, `StaySemInv`), and three lemmas,
`ScheduleCpuInv`, `ResumeCpuInv` and `ExitCpuInv`, show `CpuInv'` for the three
ways to end.

`TreeOK` is inductive beside the types.  A creation adds a leaf (`CreateTree`).
A kill takes away a set `V` that is closed under "child of"; a set of the remaining
processes that is closed and has the root becomes, with `V`, such a set of
the old tree, and so everything (`KillTree`).  The root itself is in `V` only if
`V` is all.

The order of the queues is a property of steps.  `LeavesWith(rq)` is the form of
all of them: the handler makes ready queues `rq` that keep the order of those it
found, and leaves them so or gives them to `scheduler()`.  `LeavesInOrder` proves
`Fifo` and `HighPriorityFirst` from it; the rest is what appending, killing and
taking the head do to the order (`AppendedOrder`, `KilledOrder`, `TailOrder`).
`TailOrder` is where linking a process twice would break it.

Assumptions: the PCBs are finitely many and at least one; the semaphores of
users, clock and devices are distinct (`PcbAssumption`, `SemAssumption`,
`InputAssumption`).  No proof depends on `MaxSoftBlocked`.

### 4.2 Asl

`IInv` adds to `TypeOK` and `ListOK` that the keys of active descriptors are keys
(`KeysOK`), and that `p_semAdd` and the queues of the active descriptors say the
same (`QueuesOK`).  Sorting makes the walk of `_peekActiveSemaphore` exact
(`PeekExact`): what it does not look at has a greater key.  The place that
`_addActiveSemaphore` finds keeps the list sorted and its keys distinct
(`ActivatedFacts`; `SortedInsertion` of `QueueProofs`).  `DescriptorsSuffice` is an
injection from the active descriptors to the processes in their queues, which the
calling process is not one of.

For the refinement every operation maps to one of `SemQueues`: the queue of its
key changes as there, and that of every other key, which is looked up in a list
that has gained or lost a descriptor, is the same (`QueueOfNext`,
`InsertActiveStep`, `InsertInitialisedStep`, `RemoveBlockedStep`,
`OutBlockedStep`).  Assumptions: as many descriptors as PCBs, finitely many,
and keys that are integers (`AslAssumption`).

### 4.3 Pids

`IInv`: the list holds the live processes, sorted by pids that differ.  There
are fewer processes than pids, so that the loop of `_generatePid` ends: if every
pid from `curr_pid` on were in use the processes would not suffice
(`SomePidUnused`), and the first unused one exists (`FirstUnusedFacts`).
`_addPid` keeps the list sorted (`WithPidFacts`), and a sorted list is searched
to the point (`SearchExact`).  `PidsAssumption` asks for two pids more than
processes, 0 and `FREE_PCB_PID` being special; the source has 20 PCBs and 2^32
pids.

### 4.4 Timers

The TOD is a word, and `IInv` says what it stands for.  `StopwatchOK`: there is an
instant that the word `timer_start` shows, modulo the word, such that what
`p_time` has and what has passed since that instant lie between the time that
the process executed and the time in which it held the CPU.  A difference of two
readings is then exact, also across the change of sign, since no process holds
the CPU for half the range of the word (`SignedDifference`): the model stops
time before.  `ExpiresOK` says that the interval timer, on a TOD that counts on
instead of becoming negative, expires at a multiple of `PSECOND`; it is shown
once for the reload, in the four cases of the signs (`IntervalFacts`), and kept
by every tick (`ExpiresLater`).  `TimersAssumption`: the word has an even number
of values and a pseudo-second less than half of them.

### 4.5 Vm

`MutexInv`: one process at most is between its P and its V (`Holder`).  Therefore
what the holder has found out about its frame stays true from one step to the next
although others run between them (`FrameInv`): the page it saves is invalid,
nobody who runs has a valid page in the frame that it fills, and the entry it
has written is still there when it maps its page.  `DeviceInv`: a busy flash
device works for the holder, or for `test` that starts its process.  `PageInv`: a
page that is not lost is where its owner finds it.  `OwnerInv`: whoever may take
an error of the flash has its ASID in `user_asid`, so that the trap handler
releases the mutex; without it the mutex could be lost with its holder.
`StartInv`: `test` starts the processes in order.  `TLBCoherent` is inductive
with the types alone (`ShapeStep`).

For `MemoryIsTheirs` the state function `memory` is compared before and after
every step (`StepMaps`): a store to a page is `UserMemory`'s store, an end or an
error is its end, and every other step, evictions and refills among them,
leaves all promised pages as they were (`SameMemory`, `ContentKept`).

For `PagingIsTheLevels` every step of `Vm` falls into one of six kinds: it stays at
the same place of `Support` (`QuietStep`), goes to another one (`LevelGoto`), is a P,
the store of the owner, its removal or a V (`LevelLock`, `LevelOwn`, `LevelDisown`,
`LevelUnlock`), or it is a step of `test` (`LevelStart`, `HeaderFacts`).  The lemmas
need `MutexInv`, to know that a process that `SemV` wakes is the one that
`Support` takes for the new holder, and `OwnerInv`, for the trap handler, where
`Support` goes by `user_asid` and `Vm` by where the process was.

`VmAssumption`: ASIDs are not 0, there is at least one frame and one entry of the
TLB, and page 0 is a page.  The numbers of processes, pages, frames, entries and
contents are any.

### 4.6 Support

Where a process is in its call, page fault or end tells which mutexes it has
(`Has`), and of which `user_asid` is its own (`Owns`): this is `ProcessOK`, and
`MutexOK` says the same from the side of the mutex.  Three places are not that
simple, and they are why neither is `OneHolder` restated: between PASSEREN and
the store of the owner, where the process may still be in the queue (`Waiting`);
between the clearing of the owner and VERHOGEN; and in the trap handler, which
knows only what `user_asid` says.

`MasterInv` counts the signals of the processes that end: one for every process
at its end is in the value of `master_sem`, in its queue, in the hands of `test` or
counted by it.  `TestInv` is the loop counter of `test`.  From them, when `test` has
taken as many as there are processes, nobody is in the queue and all have
signalled.

`WaitsAreNotCircular`: the mutex of a device has no holder but the process whose
device it is (`HeldInv`), so that nobody ever waits for one, and the only mutex
that is waited for is that of the swap pool (`OnlyThePoolIsAwaited`).  Its holder
is in a page fault or in `freeFrames`, where it takes no other mutex, and so it can go
on (`PoolHolderRuns`).  When `test` waits, the queue of `master_sem` has nobody
else and, by `MasterInv`, fewer processes have signalled than there are: take one
that has not.  It can go on, or it waits for the swap pool, and then its holder
can; `test` waits only when it has created them all (`CreatedInv`).

`MutexesAreFifoLocks`: `MutexOK` says that the value is 0 exactly when there is a
holder, so that P is `Take` or `Wait`, and V is `HandOver` or `Free`, by whether the
queue is empty; the semaphore is not touched by any other step (`LinesChange`,
`FifoLockStep`).  `SupportAssumption`: finitely many ASIDs, none of them 0.

### 4.7 DevSem and PageIndex

`TableProofs` proves for all 48 devices that their semaphores are distinct, inside
the array and in the order of the interrupt priorities.  It proves for all the
pages and ASIDs that the handlers find the entry that `initPageTable` made for a
page (`PageIndexExact`), and that no two entries have the same EntryHi
(`EntryHiDistinct`), so that TLBP finds the right one.

### 4.8 Listx

`QueueProofs` proves that the pointer operations of `listx.h` do what the
sequences of all the other modules say, for lists of any length: if
`Holds(mem, head, q)`, then after `list_add` the list holds `<<new>> \o q`
(`ListAddHolds`), after `list_add_tail` `InsertProcQ(q, new)` (`ListAddTailHolds`),
after `list_del` of any element `Without(q, {p})` (`ListDelHolds`), of the first
`Tail(q)` (`ListDelFirstHolds`), and every other list in the same memory holds
what it held (`OtherListsKept`): the queues of the nucleus share the field
`p_list`.  The precondition is that a new element is in no list, which is
`OnePlace` of the nucleus.  The argument numbers the nodes of the ring from the
head and back to it; an insertion behind its k-th node, and the removal of it,
shift the numbers above k, and every node but two keeps its neighbours because
the numbers of a ring are distinct (`RingProperties`, `ListInsertHolds`,
`ListDelAt`).  The theorems say nothing of operations that interleave:
`SupportPool` does.

### 4.9 SupportPool

`ProtectedPoolIsSound` is the other half of the finding `SupportsDistinct`: when
an operation on the free list begins only when no other one is between its two
steps, no two processes ever get one structure, for any number of processes.  The
fault is therefore the missing protection, and neither the order in which `test`
allocates and the processes free, nor a list that runs out.  The invariant
(`PoolInv`): the links hold a sequence of exactly those structures that nobody
has (`FreeAre`), and what `_deallocate` has read is still so (`ReadIsCurrent`),
which is what the interleaving breaks.  There is always a structure for the next
process because the one that starts has none, and there are as many structures as
processes (`FreeForTheNext`).  The steps are the theorems of section 4.8.  The
initial list is built by a recursive function; its equation holds because the
links after n insertions, in closed form, satisfy it (`StackEquation`), and
what it builds is shown for the least n that would be wrong (`StackBuilt`).

## 5. What is only model-checked

* Liveness (`ClockWaitersWake`, `ReadyRuns`, `HighRuns`, `DoIOReturns`,
  `FaultServed`, `EndingEnds`, `SystemHalts`): the prover has no rules for
  fairness.
* `YieldGivesWay`, which is stated with ENABLED, for the same reason.  It forbids
  a step that may change no variable, which no action property can speak of;
  that there is no such step is `YieldPassesTheCpu`.
* The absence of deadlock in the sense of TLC, that some action is enabled.  What
  it says of the waiting processes is `NoCircularWait`, which is proved.
* The four properties of section 6, which are violated.

Between the modules the proofs do not compose by themselves.  What one
module assumes of another is stated there as a theorem: the FIFO queues of
`Nucleus` are those of `SemQueues`; the mutex of `Vm` and the mutexes of `Support`
are the same `Semaphores`, whose `SemP` and `SemV` are what the nucleus does
(`SemaphoresAsSeen`); the page fault of `Support` is what `Vm` does
(`PagingIsTheLevels`), for processes that make no system call; the lists are those
of `Listx`.  One assumption the code does not keep: that two processes do not share
a support structure.  It would with a protected free list (`ProtectedPoolIsSound`).

## 6. Where the code and its comments disagree

* **`WaitHasWaiter`** (`exceptions.c:118`).  `_doIO` counts its caller as
  soft-blocked before P decides.  If a process was killed during its DOIO, the
  interrupt of the command finds nobody and leaves 1 in the semaphore; the next
  DOIO on that device returns at once and the count stays one too high for
  ever.  The nucleus can then WAIT with every process blocked on semaphores,
  where it should detect the deadlock.  `SoftBlockedExact` says exactly how far
  the count is off.  (The same interrupt dereferences the NULL that `semV`
  returns, `interrupts.c:74`: action `OrphanInterrupt`.)
* **`NoPLTWhileWaiting`** (`scheduler.c:48`).  Clearing TEBIT before WAIT
  stops the PLT and does not acknowledge one that has already expired, while the
  last system call of its process was served.  Its handler then dereferences a
  NULL `curr_process`.  For the same reason a high-priority process that is
  dispatched with "PLT disattivato" (`scheduler.c:61`) can be preempted at its
  first instruction.
* **`SavedFrameContainsPage`** (`vmSupport.c:98`, `175`).  An error of the flash
  in the middle of a page fault ends the process and leaves the swap pool entry
  of its frame naming the old page, which `_storePage` has already invalidated
  and maybe saved.  The owner of that page loads it into another frame and goes
  on: the trace of the run ends where the first frame is chosen again and the page
  is valid in the other one.  Then `_storePage` invalidates the page
  where it is in use and writes the content of the wrong frame over its block,
  although its parameter is described as the frame that contains the page.
  `ImplementsUserMemory` shows that the damage is confined to that page.
* **`SupportsDistinct`** (`initProc.c:18`, `29`).  Nothing protects
  `free_support`.  If a process ends while `test` starts the others, its
  `list_add` may have read a `head->next` that `test` then allocates, or change
  `free_support.next` between the two times that `_allocate` reads it.  Two
  running processes then share a page table and exception contexts.

Three more, which no run shows:

* `interruptHandler` has charged the process and restarted the stopwatch when
  `_PLTHandler` (`interrupts.c:30`) charges it once more, with the time of the
  handler, against the comment at `interrupts.c:137`.  (`PLTInterrupt` of `Timers`
  does so; `OwnTimeOnly` bounds the charge.)
* The TOD is a signed word (`initial.c:74`).  After 2^31 microseconds it is
  negative, `%` gives a negative remainder and the interval timer gets up to two
  pseudo-seconds (`Interval` of `Timers`, whose type in `TypeOK` is `0 .. 2 *
  PSECOND`), so that every second tick is missed until the TOD is positive again.
  The ticks that come are aligned (`DelaysDoNotAddUp`).
* `_writePrinter` puts the negative status of a failed character in the return
  value and then overwrites it with the number of characters sent
  (`sysSupport.c:57` and `63`; `82` and `88`, `107` and `117` likewise), so that
  the test `status < 0` of `phase3/test/testers/print.c:17` never holds.

## 7. Plan

1. The three hazards without a property: the statuses of the printer and of the
   terminals, if the model gets return values.
2. `Vm` with system calls, so that `PagingIsTheLevels` also covers the page fault
   of a process that holds the mutex of its device; `Support` has that case now.

## 8. Not modelled

`memcpy` and the kernel log (no protocol state), the pass-up vector and processor
registers, the stack frames of the handlers, the data of the devices, accesses
outside the pages of a process, and GETTOD, which changes nothing.  `list_next`,
`list_prev` and `list_is_last` are called by nobody.
