--------------------------------- MODULE Vm ---------------------------------
(***************************************************************************)
(* The virtual memory of src/phase3/vmSupport.c: page tables, the TLB, the *)
(* swap pool with its round robin of frames, the flash devices that back   *)
(* the pages, and the way user processes start and end as far as it        *)
(* concerns them.                                                          *)
(*                                                                         *)
(* The handlers of phase 3 run with interrupts enabled: a process may be   *)
(* preempted, or block in a semaphore or in DOIO, between any two of the   *)
(* steps below, and meanwhile the others run, the owner of the page that   *)
(* is being replaced too.  The TLB refill handler belongs to the nucleus,  *)
(* and the page table and the TLB are changed with interrupts disabled:    *)
(* these are single steps.                                                 *)
(*                                                                         *)
(* What becomes of the other mutexes in a trap, and of a process after it  *)
(* has freed its frames, is modelled in Support.                           *)
(***************************************************************************)
EXTENDS Semaphores

CONSTANTS
  Asid,      \* user processes; they are started in this order
  Page,      \* indices of their page tables
  TextPage,  \* pages without ENTRYLO_DIRTY
  PoolSize,  \* POOLSIZE
  TLBSize,   \* entries of the TLB
  Value,     \* contents of a page
  Image,     \* content of the pages in the executable files
  Lost       \* content of a page that nothing is promised of (UserMemory)

ASSUME VmAssumption ==
  /\ Asid \subseteq Nat \ {0}
  /\ Page \subseteq Nat /\ 0 \in Page
  /\ TextPage \subseteq Page
  /\ PoolSize \in Nat \ {0}
  /\ TLBSize \in Nat \ {0}
  /\ Image \in Value
  /\ Lost \notin Value

\* A page is named by the process and the index: the address of its entry.
Key   == Asid \X Page
Frame == 0 .. PoolSize - 1

Invalid == -1  \* VALIDON is off
Absent  == -2  \* the TLB has no entry for the page

VARIABLES
  nucleus,              \* "runs", or "halt" after an error while test() starts a process
  pc,                   \* where each process is
  missing,              \* missing_page_index of its page fault
  new_frame,            \* the frame it has got from _getFrame
  swap_pool_sem,
  swap_pool_table,      \* sw_asid and sw_pageNo of every frame
  to_swap_frame_index,
  pte,                  \* page tables: the frame of every page, or Invalid
  tlb,                  \* the same, as far as the TLB has it
  ram,                  \* contents of the frames
  flash,                \* contents of the flash devices
  dev,                  \* the operation of every flash device
  lost                  \* history: pages in a frame when the flash failed

handlerVars == <<missing, new_frame, to_swap_frame_index, swap_pool_table>>
pagingVars  == <<pte, tlb>>
storeVars   == <<ram, flash, dev>>
vars == <<nucleus, pc, handlerVars, swap_pool_sem, pagingVars, storeVars, lost>>

\* Before CREATEPROCESS, and in user mode or in a system call of sysSupport.c
\* that reads and writes the memory of its process.
Starting == {"new", "header"}

\* _TLBInvalidHandler, named after what comes next.
InFault == {"lock", "choose", "evict", "store", "storing", "load", "loading",
            "enter", "map", "disown", "unlock"}

\* From the trap handler or TERMINATE to the end.
Ending == {"trap", "release", "freelock", "free", "freedisown", "freeunlock", "dead"}

Operation == [op : {"idle", "read", "write"}, page : Page, frame : Frame, by : Asid \cup {NOPROC}]
IdleDevice == [op |-> "idle", page |-> 0, frame |-> 0, by |-> NOPROC]
FreeFrame == [asid |-> NOPROC, page |-> 0]

TypeOK ==
  /\ nucleus \in {"runs", "halt"}
  /\ pc \in [Asid -> Starting \cup {"user"} \cup InFault \cup Ending]
  /\ missing \in [Asid -> Page]
  /\ new_frame \in [Asid -> Frame]
  /\ swap_pool_sem \in SemaphoreType(Asid)
  /\ swap_pool_table \in [Frame -> [asid : Asid \cup {NOPROC}, page : Page]]
  /\ to_swap_frame_index \in Frame
  /\ pte \in [Key -> Frame \cup {Invalid}]
  /\ tlb \in [Key -> Frame \cup {Invalid, Absent}]
  /\ Cardinality({k \in Key : tlb[k] # Absent}) <= TLBSize
  /\ ram \in [Frame -> Value]
  /\ flash \in [Key -> Value]
  /\ dev \in [Asid -> Operation]
  /\ lost \subseteq Key

Goto(a, from, to) ==
  /\ nucleus = "runs"
  /\ pc[a] = from
  /\ ~BlockedOn(swap_pool_sem, a)
  /\ pc' = [pc EXCEPT ![a] = to]
  /\ UNCHANGED nucleus

IsFree(f) == swap_pool_table[f].asid = NOPROC
KeyOf(f) == <<swap_pool_table[f].asid, swap_pool_table[f].page>>

-----------------------------------------------------------------------------
(* test() starts the processes one after the other, while those it has     *)
(* started run.  To set up the page table (all of it invalid) it reads the *)
(* first page of the executable into a frame outside the pool.             *)

StartProcess(a) ==
  /\ Goto(a, "new", "header")
  /\ \A b \in Asid : b < a => pc[b] \notin Starting
  /\ dev' = [dev EXCEPT ![a] = [IdleDevice EXCEPT !.op = "read"]]
  /\ UNCHANGED <<handlerVars, swap_pool_sem, pagingVars, ram, flash, lost>>

HeaderRead(a) ==
  /\ Goto(a, "header", "user")
  /\ dev' = [dev EXCEPT ![a] = IdleDevice]
  /\ UNCHANGED <<handlerVars, swap_pool_sem, pagingVars, ram, flash, lost>>

\* The trap handler of phase 3 dereferences the support structure, which the
\* process of test() has not: the nucleus kills it and all its children, and
\* halts.
HeaderError(a) ==
  /\ nucleus = "runs"
  /\ pc[a] = "header"
  /\ nucleus' = "halt"
  /\ dev' = [dev EXCEPT ![a] = IdleDevice]
  /\ UNCHANGED <<pc, handlerVars, swap_pool_sem, pagingVars, ram, flash, lost>>

-----------------------------------------------------------------------------
(* Accesses to memory: they go through the TLB.                            *)

\* TLBWR writes a random entry: an unused one, or one of another page.
Refilled(k) ==
  LET cached == {x \in Key : tlb[x] # Absent}
      unused == IF Cardinality(cached) < TLBSize THEN {k} ELSE {}
  IN {[x \in Key |-> IF x = k THEN pte[k] ELSE IF x = victim THEN Absent ELSE tlb[x]] :
        victim \in cached \cup unused}

\* TLBRefillHandler
Refill(a, g) ==
  /\ nucleus = "runs"
  /\ pc[a] = "user"
  /\ tlb[<<a, g>>] = Absent
  /\ tlb' \in Refilled(<<a, g>>)
  /\ UNCHANGED <<nucleus, pc, handlerVars, swap_pool_sem, pte, storeVars, lost>>

Write(a, g, v) ==
  /\ nucleus = "runs"
  /\ pc[a] = "user"
  /\ g \notin TextPage
  /\ tlb[<<a, g>>] \in Frame
  /\ ram' = [ram EXCEPT ![tlb[<<a, g>>]] = v]
  /\ UNCHANGED <<nucleus, pc, handlerVars, swap_pool_sem, pagingVars, flash, dev, lost>>

\* TLBExceptionHandler: TLBINVLDL or TLBINVLDS, and TLBMOD.
PageFault(a, g) ==
  /\ tlb[<<a, g>>] = Invalid
  /\ Goto(a, "user", "lock")
  /\ missing' = [missing EXCEPT ![a] = g]
  /\ UNCHANGED <<new_frame, to_swap_frame_index, swap_pool_table, swap_pool_sem,
                 pagingVars, storeVars, lost>>

WriteToText(a, g) ==
  /\ g \in TextPage
  /\ tlb[<<a, g>>] \in Frame
  /\ Goto(a, "user", "trap")
  /\ UNCHANGED <<handlerVars, swap_pool_sem, pagingVars, storeVars, lost>>

\* Any other trap, and the system call TERMINATE.
Trap(a) ==
  /\ Goto(a, "user", "trap")
  /\ UNCHANGED <<handlerVars, swap_pool_sem, pagingVars, storeVars, lost>>

Terminate(a) ==
  /\ Goto(a, "user", "freelock")
  /\ UNCHANGED <<handlerVars, swap_pool_sem, pagingVars, storeVars, lost>>

-----------------------------------------------------------------------------
(* _TLBInvalidHandler *)

\* The first half of P: PASSEREN.
Lock(a, from, to) ==
  /\ Goto(a, from, to)
  /\ swap_pool_sem' = SemP(swap_pool_sem, a)
  /\ UNCHANGED <<handlerVars, pagingVars, storeVars, lost>>

\* The two halves of V.
Disown(a, from, to) ==
  /\ Goto(a, from, to)
  /\ swap_pool_sem' = Disowned(swap_pool_sem)
  /\ UNCHANGED <<handlerVars, pagingVars, storeVars, lost>>

\* The handler forgets its variables.
Unlock(a, from, to) ==
  /\ Goto(a, from, to)
  /\ swap_pool_sem' = SemV(swap_pool_sem, a)
  /\ missing' = [missing EXCEPT ![a] = 0]
  /\ new_frame' = [new_frame EXCEPT ![a] = 0]
  /\ UNCHANGED <<to_swap_frame_index, swap_pool_table, pagingVars, storeVars, lost>>

\* The loop of _getFrame: the first free frame from to_swap_frame_index on,
\* or after a whole turn that frame itself.
GetFrame ==
  LET at(n) == (to_swap_frame_index + n) % PoolSize
      free == {n \in Frame : IsFree(at(n))}
  IN IF free = {} THEN to_swap_frame_index
     ELSE at(CHOOSE n \in free : \A m \in free : n <= m)

\* Where the next search begins.  (Mutant: without going around.)
FrameAfterUnbounded(f) == f + 1
FrameAfter(f) == (f + 1) % PoolSize

\* Mutant: the page in the frame is not saved.
ChooseFrameAsFree(a) ==
  /\ Goto(a, "choose", "load")
  /\ swap_pool_sem' = Owned(swap_pool_sem, a)
  /\ new_frame' = [new_frame EXCEPT ![a] = GetFrame]
  /\ to_swap_frame_index' = FrameAfter(GetFrame)
  /\ UNCHANGED <<missing, swap_pool_table, pagingVars, storeVars, lost>>

\* The second half of P, _getFrame and the test on the frame.
ChooseFrame(a) ==
  /\ Goto(a, "choose", IF IsFree(GetFrame) THEN "load" ELSE "evict")
  /\ swap_pool_sem' = Owned(swap_pool_sem, a)
  /\ new_frame' = [new_frame EXCEPT ![a] = GetFrame]
  /\ to_swap_frame_index' = FrameAfter(GetFrame)
  /\ UNCHANGED <<missing, swap_pool_table, pagingVars, storeVars, lost>>

\* _updateTLB: rewrite the entry if TLBP finds it.  (Mutant: it does not.)
UpdatedTLBNever(k, value) == tlb
UpdatedTLB(k, value) == IF tlb[k] = Absent THEN tlb ELSE [tlb EXCEPT ![k] = value]

\* _storePage with interrupts disabled.
Evict(a) ==
  LET k == KeyOf(new_frame[a]) IN
  /\ Goto(a, "evict", "store")
  /\ pte' = [pte EXCEPT ![k] = Invalid]
  /\ tlb' = UpdatedTLB(k, Invalid)
  /\ UNCHANGED <<handlerVars, swap_pool_sem, storeVars, lost>>

\* _backingStoreOperation: the command.  DOIO does not look whether the device
\* is ready.
Command(a, d, op, g) ==
  dev' = [dev EXCEPT ![d] = [op |-> op, page |-> g, frame |-> new_frame[a], by |-> a]]

StoreNotAwaited(a) ==  \* Mutant: the handler goes on while the page is written.
  LET entry == swap_pool_table[new_frame[a]] IN
  /\ Goto(a, "store", "load")
  /\ Command(a, entry.asid, "write", entry.page)
  /\ UNCHANGED <<handlerVars, swap_pool_sem, pagingVars, ram, flash, lost>>

Store(a) ==
  LET entry == swap_pool_table[new_frame[a]] IN
  /\ Goto(a, "store", "storing")
  /\ Command(a, entry.asid, "write", entry.page)
  /\ UNCHANGED <<handlerVars, swap_pool_sem, pagingVars, ram, flash, lost>>

Load(a) ==
  /\ Goto(a, "load", "loading")
  /\ Command(a, a, "read", missing[a])
  /\ UNCHANGED <<handlerVars, swap_pool_sem, pagingVars, ram, flash, lost>>

\* _loadPage: the entry of the frame, then the page table and the TLB.
EnterLost(a) ==  \* Mutant: the entry of the frame is not updated.
  /\ Goto(a, "enter", "map")
  /\ UNCHANGED <<handlerVars, swap_pool_sem, pagingVars, storeVars, lost>>

Enter(a) ==
  /\ Goto(a, "enter", "map")
  /\ swap_pool_table' =
       [swap_pool_table EXCEPT ![new_frame[a]] = [asid |-> a, page |-> missing[a]]]
  /\ UNCHANGED <<missing, new_frame, to_swap_frame_index, swap_pool_sem,
                 pagingVars, storeVars, lost>>

Map(a) ==
  LET k == <<a, missing[a]>> IN
  /\ Goto(a, "map", "disown")
  /\ pte' = [pte EXCEPT ![k] = new_frame[a]]
  /\ tlb' = UpdatedTLB(k, new_frame[a])
  /\ UNCHANGED <<handlerVars, swap_pool_sem, storeVars, lost>>

-----------------------------------------------------------------------------
(* The flash devices.  Frames are read and written by DMA until the        *)
(* operation ends; after an error the destination may hold anything.       *)

\* The process that waits for device d and the operation it waits for.
Served(d, step, op) ==
  /\ nucleus = "runs"
  /\ dev[d].op = op
  /\ dev[d].by # NOPROC
  /\ pc[dev[d].by] = step
  /\ dev' = [dev EXCEPT ![d] = IdleDevice]
  /\ UNCHANGED nucleus

StoreDone(d) ==
  /\ Served(d, "storing", "write")
  /\ flash' = [flash EXCEPT ![<<d, dev[d].page>>] = ram[dev[d].frame]]
  /\ pc' = [pc EXCEPT ![dev[d].by] = "load"]
  /\ UNCHANGED <<handlerVars, swap_pool_sem, pagingVars, ram, lost>>

LoadDone(d) ==
  /\ Served(d, "loading", "read")
  /\ ram' = [ram EXCEPT ![dev[d].frame] = flash[<<d, dev[d].page>>]]
  /\ pc' = [pc EXCEPT ![dev[d].by] = "enter"]
  /\ UNCHANGED <<handlerVars, swap_pool_sem, pagingVars, flash, lost>>

\* FLASH_WRITE_ERROR and FLASH_READ_ERROR: trapExceptionHandler, with the entry
\* of the frame as it was.
StoreError(d) ==
  /\ Served(d, "storing", "write")
  /\ \E v \in Value : flash' = [flash EXCEPT ![<<d, dev[d].page>>] = v]
  /\ pc' = [pc EXCEPT ![dev[d].by] = "trap"]
  /\ lost' = lost \cup {<<d, dev[d].page>>}
  /\ UNCHANGED <<handlerVars, swap_pool_sem, pagingVars, ram>>

LoadError(d) ==
  /\ Served(d, "loading", "read")
  /\ \E v \in Value : ram' = [ram EXCEPT ![dev[d].frame] = v]
  /\ pc' = [pc EXCEPT ![dev[d].by] = "trap"]
  /\ lost' = IF IsFree(dev[d].frame) THEN lost ELSE lost \cup {KeyOf(dev[d].frame)}
  /\ UNCHANGED <<handlerVars, swap_pool_sem, pagingVars, flash>>

-----------------------------------------------------------------------------
(* The end of a process *)

\* releaseSwapPoolSem, when the process does not have the semaphore.  (When it
\* does, it is Disown and Unlock.  Mutant: it does not look.)
NothingToReleaseUnchecked(a) ==
  /\ Goto(a, "trap", "freelock")
  /\ UNCHANGED <<handlerVars, swap_pool_sem, pagingVars, storeVars, lost>>

NothingToRelease(a) ==
  /\ swap_pool_sem.user_asid # a
  /\ Goto(a, "trap", "freelock")
  /\ UNCHANGED <<handlerVars, swap_pool_sem, pagingVars, storeVars, lost>>

Release(a) ==
  /\ swap_pool_sem.user_asid = a
  /\ Disown(a, "trap", "release")

\* freeFrames: the second half of P and the loop.
FreeFrames(a) ==
  /\ Goto(a, "free", "freedisown")
  /\ swap_pool_sem' = Owned(swap_pool_sem, a)
  /\ swap_pool_table' =
       [f \in Frame |-> IF swap_pool_table[f].asid = a THEN FreeFrame ELSE swap_pool_table[f]]
  /\ UNCHANGED <<missing, new_frame, to_swap_frame_index, pagingVars, storeVars, lost>>

-----------------------------------------------------------------------------
(* The specification *)

\* initSwapStructs, and the machine when test() begins.
Init ==
  /\ nucleus = "runs"
  /\ pc = [a \in Asid |-> "new"]
  /\ missing = [a \in Asid |-> 0]
  /\ new_frame = [a \in Asid |-> 0]
  /\ swap_pool_sem = Semaphore(1)
  /\ swap_pool_table = [f \in Frame |-> FreeFrame]
  /\ to_swap_frame_index = 0
  /\ pte = [k \in Key |-> Invalid]
  /\ tlb = [k \in Key |-> Absent]
  /\ ram = [f \in Frame |-> Image]
  /\ flash = [k \in Key |-> Image]
  /\ dev = [a \in Asid |-> IdleDevice]
  /\ lost = {}

\* What a process does of its own accord, and what its handlers do.
UserStep(a) ==
  \/ \E g \in Page : Refill(a, g) \/ PageFault(a, g) \/ WriteToText(a, g)
  \/ \E g \in Page, v \in Value : Write(a, g, v)
  \/ Trap(a)
  \/ Terminate(a)

FaultStep(a) ==
  \/ Lock(a, "lock", "choose")
  \/ ChooseFrame(a)
  \/ Evict(a)
  \/ Store(a)
  \/ Load(a)
  \/ Enter(a)
  \/ Map(a)
  \/ Disown(a, "disown", "unlock")
  \/ Unlock(a, "unlock", "user")

EndStep(a) ==
  \/ NothingToRelease(a)
  \/ Release(a)
  \/ Unlock(a, "release", "trap")
  \/ Lock(a, "freelock", "free")
  \/ FreeFrames(a)
  \/ Disown(a, "freedisown", "freeunlock")
  \/ Unlock(a, "freeunlock", "dead")

FlashStep(d) ==
  \/ StoreDone(d)
  \/ LoadDone(d)
  \/ StoreError(d)
  \/ LoadError(d)

StartStep(a) == StartProcess(a) \/ HeaderRead(a) \/ HeaderError(a)

Next == \E a \in Asid : StartStep(a) \/ UserStep(a) \/ FaultStep(a) \/ EndStep(a) \/ FlashStep(a)

Spec == Init /\ [][Next]_vars

\* A process that can go on gets the CPU (all have low priority: ReadyRuns of
\* Nucleus), a flash device ends its operation.
Fairness == \A a \in Asid : WF_vars(FaultStep(a)) /\ WF_vars(EndStep(a)) /\ WF_vars(FlashStep(a))

FairSpec == Spec /\ Fairness

-----------------------------------------------------------------------------
(* Properties *)

\* The TLB never disagrees with the page table: a refill races with evictions
\* of the same page by other processes, and _updateTLB must reach every entry
\* that a refill has copied.
TLBCoherent == \A k \in Key : tlb[k] \in {Absent, pte[k]}

\* A process that runs on a page runs on its own: the entry of the frame names
\* the page back, so that no two pages are valid in one frame and a frame is
\* never free, or given to another page, while it is in use.  This holds also
\* after errors of the flash.
ValidPageOwnsFrame ==
  \A k \in Key :
    (pc[k[1]] \in {"user"} \cup InFault /\ pte[k] # Invalid)
       => swap_pool_table[pte[k]] = [asid |-> k[1], page |-> k[2]]

\* A command is given only to a flash device that is ready, although nobody
\* looks: page faults on the same device exclude each other, and test() reads
\* the device of a process only before that process, or anybody with one of
\* its pages in a frame, can use it.
FlashReadyForCommand ==
  \A a \in Asid :
    /\ pc[a] = "store" => dev[swap_pool_table[new_frame[a]].asid] = IdleDevice
    /\ pc[a] \in {"new", "load"} => dev[a] = IdleDevice

\* Every page fault is served, or its process ends: nobody waits for ever for
\* the mutex of the swap pool, whatever errors, traps and terminations occur.
FaultServed ==
  \A a \in Asid : pc[a] \in InFault ~> pc[a] \in {"user", "dead"} \/ nucleus # "runs"

-----------------------------------------------------------------------------
(* Vm implements UserMemory.  A page is where its process would find it: in *)
(* the frame its page table names, in the frame it is being saved from, or  *)
(* on the flash.                                                            *)

life ==
  [a \in Asid |-> IF nucleus = "halt" \/ pc[a] \in Ending THEN "ended"
                  ELSE IF pc[a] \in Starting THEN "new" ELSE "running"]

BeingSaved(k) ==
  {f \in Frame : KeyOf(f) = k /\ \E a \in Asid : new_frame[a] = f /\ pc[a] \in {"store", "storing"}}

memory ==
  [k \in Key |->
     IF life[k[1]] = "ended" \/ k \in lost THEN Lost
     ELSE IF pte[k] # Invalid THEN ram[pte[k]]
     ELSE IF BeingSaved(k) # {} THEN ram[CHOOSE f \in BeingSaved(k) : TRUE]
     ELSE flash[k]]

UserMem == INSTANCE UserMemory

\* What a process finds in its memory is what it stored there: no page fault,
\* eviction, refill, end of another process or error of its flash changes it,
\* except for the one page that an error may lose.
ImplementsUserMemory == UserMem!Spec

\* The comment of _storePage (vmSupport.c:124): the frame that it gets is "il
\* frame che contiene la pagina", the one that contains the page of the entry.
SavedFrameContainsPage ==
  \A a \in Asid : pc[a] = "evict" => pte[KeyOf(new_frame[a])] = new_frame[a]

=============================================================================
