------------------------------ MODULE VmProofs ------------------------------
(***************************************************************************)
(* Proofs that the safety invariants of Vm hold for every number of        *)
(* processes, pages and frames and every size of the TLB, and that every   *)
(* step of Vm is a step of UserMemory, and one of Support, or changes      *)
(* nothing there.                                                          *)
(*                                                                         *)
(* The argument: the mutex of the swap pool admits one process at a time   *)
(* (MutexInv), so that what the holder has found out about the frame that  *)
(* it is working on stays true from one step of its handler to the next,   *)
(* although the others run in between (FrameInv), and that user_asid tells *)
(* the trap handler what to release (OwnerInv); a flash device works for   *)
(* the holder or is ready (DeviceInv); a page that is not lost is where    *)
(* its process would find it (PageInv); test() starts the processes in     *)
(* order, one at a time (StartInv).                                        *)
(***************************************************************************)
EXTENDS VmSupport, QueueProofs

Running(a) == pc[a] \in {"user"} \cup InFault

\* The holder takes a frame from its owner, and gives it a page.
Taking == {"store", "storing", "load", "loading", "enter"}

MutexInv ==
  /\ \A a, b \in Asid : Holder(a) /\ Holder(b) => a = b
  /\ swap_pool_sem.val = 1 => swap_pool_sem.queue = <<>> /\ \A a \in Asid : ~Holder(a)
  /\ IsInjective(swap_pool_sem.queue)
  /\ \A a \in Range(swap_pool_sem.queue) : pc[a] \in {"choose", "free"}
  /\ \A a \in Asid : swap_pool_sem.user_asid = a =>
       pc[a] \in (InFault \ {"lock", "choose", "unlock"}) \cup {"trap", "freedisown"}

FrameInv ==
  /\ \A a \in Asid : pc[a] \in Starting =>
       /\ \A g \in Page : pte[<<a, g>>] = Invalid
       /\ \A f \in Frame : swap_pool_table[f].asid # a
  /\ \A a \in Asid : pc[a] \in {"evict", "store", "storing"} => ~IsFree(new_frame[a])
  /\ \A a \in Asid : pc[a] \in {"store", "storing"} => pte[KeyOf(new_frame[a])] = Invalid
  /\ \A a \in Asid : pc[a] \in Taking =>
       \A k \in Key : Running(k[1]) => pte[k] # new_frame[a]
  /\ \A a \in Asid : pc[a] = "map" =>
       swap_pool_table[new_frame[a]] = [asid |-> a, page |-> missing[a]]
  /\ \A a \in Asid : pc[a] \in InFault \ {"disown", "unlock"} =>
       pte[<<a, missing[a]>>] = Invalid

\* The operation of device d is the one that its process waits for.
Serves(d) ==
  \/ dev[d].by = NOPROC /\ pc[d] = "header"
  \/ \E a \in Asid :
       /\ dev[d].by = a
       /\ dev[d].frame = new_frame[a]
       /\ \/ /\ pc[a] = "storing" /\ dev[d].op = "write"
             /\ <<d, dev[d].page>> = KeyOf(new_frame[a])
          \/ /\ pc[a] = "loading" /\ dev[d].op = "read"
             /\ d = a /\ dev[d].page = missing[a]

DeviceInv == \A d \in Asid : dev[d] # IdleDevice => Serves(d)

\* What the swap pool table says of a page that is not lost is true, but for
\* the frame that the holder works on; the page it has loaded is in the frame.
PageInv ==
  /\ \A f \in Frame :
       ~IsFree(f) /\ Running(KeyOf(f)[1]) /\ KeyOf(f) \notin lost =>
         \/ pte[KeyOf(f)] = f
         \/ \E a \in Asid : new_frame[a] = f /\ pc[a] \in Taking \cup {"map"}
  /\ \A a \in Asid : pc[a] \in {"enter", "map"} =>
       ram[new_frame[a]] = flash[<<a, missing[a]>>]

\* Whoever may take an error of the flash is known to the trap handler.
OwnerInv ==
  \A a \in Asid :
    pc[a] \in (InFault \ {"lock", "choose", "unlock"}) \cup {"freedisown"}
      => swap_pool_sem.user_asid = a

StartInv ==
  \A a, b \in Asid : pc[a] = "header" /\ b < a => pc[b] \notin Starting

Cached == {k \in Key : tlb[k] # Absent}

Inv ==
  MutexInv /\ OwnerInv /\ FrameInv /\ ValidPageOwnsFrame /\ DeviceInv /\ PageInv /\ StartInv

IInv ==
  /\ TypeOK /\ IsFiniteSet(Cached)
  /\ TLBCoherent
  /\ Inv

-----------------------------------------------------------------------------
(* The operators                                                           *)

LEMMA FrameFacts ==
  /\ Frame \subseteq Nat
  /\ 0 \in Frame
  /\ Invalid \notin Frame /\ Absent \notin Frame /\ Invalid # Absent
  /\ NOPROC \notin Asid
BY VmAssumption DEF Frame, Invalid, Absent, NOPROC

\* The search goes around the pool.
LEMMA GetFrameType ==
  ASSUME TypeOK
  PROVE  GetFrame \in Frame /\ FrameAfter(GetFrame) \in Frame
<1> DEFINE at(n) == (to_swap_frame_index + n) % PoolSize
           free == {n \in Frame : IsFree(at(n))}
<1>1. PoolSize \in Nat \ {0} /\ Frame = 0 .. PoolSize - 1 /\ to_swap_frame_index \in Frame
  BY VmAssumption DEF Frame, TypeOK
<1>2. \A n \in Nat : n % PoolSize \in Frame
  BY <1>1
<1>3. GetFrame \in Frame
  <2>1. CASE free = {}
    <3>1. GetFrame = to_swap_frame_index
      BY <2>1 DEF GetFrame
    <3> QED BY <1>1, <3>1
  <2>2. CASE free # {}
    <3> DEFINE first == CHOOSE n \in free : \A m \in free : n <= m
    <3>1. free \in SUBSET (0 .. PoolSize - 1) /\ PoolSize - 1 \in Nat
      BY <1>1
    <3>2. \E n \in free : \A m \in free : n <= m
      <4> HIDE DEF free
      <4> QED BY <2>2, <3>1, LeastElement
    <3>3. first \in free
      BY <3>2
    <3>4. first \in Nat
      BY <1>1, <3>3
    <3>5. GetFrame = at(first)
      BY <2>2 DEF GetFrame
    <3>6. to_swap_frame_index + first \in Nat
      <4> HIDE DEF first
      <4> QED BY <1>1, <3>4
    <3> QED BY <1>2, <3>5, <3>6
  <2> QED BY <2>1, <2>2
<1>4. FrameAfter(GetFrame) \in Frame
  <2>1. GetFrame + 1 \in Nat
    BY <1>1, <1>3
  <2> QED BY <1>2, <2>1 DEF FrameAfter
<1> QED BY <1>3, <1>4

\* A refill copies the entry of k and forgets one entry if it has to.
LEMMA RefilledProperties ==
  ASSUME TypeOK, IsFiniteSet(Cached), NEW k \in Key, tlb[k] = Absent, NEW t \in Refilled(k)
  PROVE  /\ t \in [Key -> Frame \cup {Invalid, Absent}]
         /\ t[k] = pte[k]
         /\ \A x \in Key \ {k} : t[x] \in {tlb[x], Absent}
         /\ IsFiniteSet({x \in Key : t[x] # Absent})
         /\ Cardinality({x \in Key : t[x] # Absent}) <= TLBSize
<1> DEFINE unused == IF Cardinality(Cached) < TLBSize THEN {k} ELSE {}
           now == {x \in Key : t[x] # Absent}
<1>1. PICK victim \in Cached \cup unused :
        t = [x \in Key |-> IF x = k THEN pte[k] ELSE IF x = victim THEN Absent ELSE tlb[x]]
  BY DEF Refilled, Cached
<1>2. /\ pte[k] \in Frame \cup {Invalid}
      /\ tlb \in [Key -> Frame \cup {Invalid, Absent}]
      /\ Cardinality(Cached) <= TLBSize
      /\ TLBSize \in Nat
  BY VmAssumption DEF TypeOK, Cached
<1>3. t[k] = pte[k] /\ \A x \in Key \ {k} : t[x] = IF x = victim THEN Absent ELSE tlb[x]
  BY <1>1
<1>4. now = (Cached \ {victim}) \cup {k}
  BY <1>2, <1>3, FrameFacts DEF Cached
<1>5. k \notin Cached /\ Cardinality(Cached) \in Nat
  BY FS_CardinalityType DEF Cached
<1>6. IsFiniteSet(now) /\ Cardinality(now) <= TLBSize
  <2> HIDE DEF now
  <2>1. CASE victim \in Cached
    <3>1. /\ IsFiniteSet(Cached \ {victim})
          /\ Cardinality(Cached \ {victim}) = Cardinality(Cached) - 1
      BY <2>1, FS_RemoveElement
    <3>2. /\ IsFiniteSet((Cached \ {victim}) \cup {k})
          /\ Cardinality((Cached \ {victim}) \cup {k}) = Cardinality(Cached)
      BY <1>5, <3>1, FS_AddElement
    <3> QED BY <1>2, <1>4, <3>2
  <2>2. CASE victim \notin Cached
    <3>1. victim = k /\ Cardinality(Cached) < TLBSize
      BY <2>2
    <3>2. now = Cached \cup {k}
      BY <1>4, <2>2
    <3>3. IsFiniteSet(now) /\ Cardinality(now) = Cardinality(Cached) + 1
      BY <1>5, <3>2, FS_AddElement
    <3> QED BY <1>2, <1>5, <3>1, <3>3
  <2> QED BY <2>1, <2>2
<1>7. t \in [Key -> Frame \cup {Invalid, Absent}]
  BY <1>1, <1>2
<1> QED BY <1>3, <1>6, <1>7

\* _updateTLB makes no entry.
LEMMA UpdatedTLBProperties ==
  ASSUME TypeOK, NEW k \in Key, NEW value \in Frame \cup {Invalid}
  PROVE  /\ UpdatedTLB(k, value) \in [Key -> Frame \cup {Invalid, Absent}]
         /\ UpdatedTLB(k, value)[k] \in {Absent, value}
         /\ \A x \in Key \ {k} : UpdatedTLB(k, value)[x] = tlb[x]
         /\ {x \in Key : UpdatedTLB(k, value)[x] # Absent} = Cached
BY FrameFacts DEF UpdatedTLB, TypeOK, Cached

-----------------------------------------------------------------------------
(* Types, and the coherence of the TLB, one group of variables at a time   *)

ControlType ==
  /\ nucleus \in {"runs", "halt"}
  /\ pc \in [Asid -> Starting \cup {"user"} \cup InFault \cup Ending]
  /\ missing \in [Asid -> Page]
  /\ new_frame \in [Asid -> Frame]

TableType ==
  /\ swap_pool_table \in [Frame -> [asid : Asid \cup {NOPROC}, page : Page]]
  /\ to_swap_frame_index \in Frame

PagingOK ==
  /\ pte \in [Key -> Frame \cup {Invalid}]
  /\ tlb \in [Key -> Frame \cup {Invalid, Absent}]
  /\ IsFiniteSet(Cached) /\ Cardinality(Cached) <= TLBSize
  /\ TLBCoherent

StoreType ==
  /\ ram \in [Frame -> Value]
  /\ flash \in [Key -> Value]
  /\ dev \in [Asid -> Operation]
  /\ lost \subseteq Key

Shape ==
  ControlType /\ TableType /\ PagingOK /\ StoreType /\ swap_pool_sem \in SemaphoreType(Asid)

LEMMA ShapeIsTypeOK == Shape <=> TypeOK /\ IsFiniteSet(Cached) /\ TLBCoherent
BY DEF Shape, TypeOK, ControlType, TableType, PagingOK, StoreType, Cached


LEMMA InitShape == Init => Shape
<1> SUFFICES ASSUME Init PROVE Shape
  OBVIOUS
<1>1. Cached = {}
  BY DEF Init, Cached
<1>2. IsFiniteSet(Cached) /\ Cardinality(Cached) = 0
  BY <1>1, FS_EmptySet
<1>3. swap_pool_sem \in SemaphoreType(Asid)
  BY DEF Init, Semaphore, SemaphoreType
<1>4. StoreType
  BY VmAssumption, FrameFacts DEF Init, IdleDevice, Operation, StoreType
<1>5. TableType
  BY VmAssumption, FrameFacts DEF Init, FreeFrame, TableType
<1>6. ControlType
  BY VmAssumption, FrameFacts DEF Init, Starting, ControlType
<1>7. PagingOK
  BY <1>2, VmAssumption DEF Init, PagingOK, TLBCoherent
<1> QED BY <1>3, <1>4, <1>5, <1>6, <1>7 DEF Shape

Step(a) == StartStep(a) \/ UserStep(a) \/ FaultStep(a) \/ EndStep(a) \/ FlashStep(a)

LockStep(a) == Lock(a, "lock", "choose") \/ Lock(a, "freelock", "free")

DisownStep(a) ==
  Disown(a, "disown", "unlock") \/ Release(a) \/ Disown(a, "freedisown", "freeunlock")

UnlockStep(a) ==
  \/ Unlock(a, "unlock", "user")
  \/ Unlock(a, "release", "trap")
  \/ Unlock(a, "freeunlock", "dead")

\* Which actions change a variable.
LEMMA WhoChanges ==
  ASSUME NEW a \in Asid, Step(a)
  PROVE  /\ nucleus = "runs"
         /\ (HeaderError(a) /\ UNCHANGED pc) \/ UNCHANGED nucleus
         /\ \/ \E g \in Page : PageFault(a, g)
            \/ UnlockStep(a)
            \/ UNCHANGED missing
         /\ \/ ChooseFrame(a) \/ UnlockStep(a)
            \/ UNCHANGED new_frame
         /\ \/ LockStep(a) \/ DisownStep(a) \/ UnlockStep(a) \/ ChooseFrame(a) \/ FreeFrames(a)
            \/ UNCHANGED swap_pool_sem
         /\ \/ Enter(a) \/ FreeFrames(a)
            \/ UNCHANGED swap_pool_table
         /\ \/ ChooseFrame(a)
            \/ UNCHANGED to_swap_frame_index
         /\ \/ \E g \in Page : Refill(a, g)
            \/ Evict(a) \/ Map(a)
            \/ UNCHANGED pagingVars
         /\ \/ \E g \in Page, v \in Value : Write(a, g, v)
            \/ LoadDone(a) \/ LoadError(a)
            \/ UNCHANGED ram
         /\ \/ StoreDone(a) \/ StoreError(a)
            \/ UNCHANGED flash
         /\ \/ StartProcess(a) \/ HeaderRead(a) \/ HeaderError(a) \/ Store(a) \/ Load(a)
            \/ StoreDone(a) \/ LoadDone(a) \/ StoreError(a) \/ LoadError(a)
            \/ UNCHANGED dev
         /\ \/ StoreError(a) \/ LoadError(a)
            \/ UNCHANGED lost
BY DEF Step, StartStep, UserStep, FaultStep, EndStep, FlashStep, StartProcess,
       HeaderRead, HeaderError, Refill, PageFault, WriteToText, Write, Trap, Terminate,
       Lock, ChooseFrame, Evict, Store, Load, Enter, Map, Disown, Unlock, Release,
       NothingToRelease, FreeFrames, StoreDone, LoadDone, StoreError, LoadError,
       handlerVars, pagingVars, storeVars, LockStep, DisownStep, UnlockStep, Goto, Served

LEMMA NextIsStep == Next <=> \E a \in Asid : Step(a)
BY DEF Next, Step

LEMMA ControlTypeStep ==
  ASSUME Shape, NEW a \in Asid, Step(a)
  PROVE  ControlType'
<1>1. pc' \in [Asid -> Starting \cup {"user"} \cup InFault \cup Ending]
  BY DEF Shape, ControlType, Step, StartStep, UserStep, FaultStep, EndStep, FlashStep,
         StartProcess, HeaderRead, HeaderError, Refill, PageFault, WriteToText, Write,
         Trap, Terminate, Lock, ChooseFrame, Evict, Store, Load, Enter, Map, Disown,
         Unlock, Release, NothingToRelease, FreeFrames, StoreDone, LoadDone, StoreError,
         LoadError, Goto, Served, Starting, InFault, Ending
<1>2. missing' \in [Asid -> Page]
  BY WhoChanges, VmAssumption DEF Shape, ControlType, PageFault, UnlockStep, Unlock
<1>3. new_frame' \in [Asid -> Frame]
  BY WhoChanges, GetFrameType, ShapeIsTypeOK, FrameFacts
  DEF Shape, ControlType, ChooseFrame, UnlockStep, Unlock
<1>4. nucleus' \in {"runs", "halt"}
  BY WhoChanges DEF HeaderError
<1> QED BY <1>1, <1>2, <1>3, <1>4 DEF ControlType

LEMMA TableTypeStep ==
  ASSUME Shape, NEW a \in Asid, Step(a)
  PROVE  TableType'
<1>1. CASE Enter(a)
  BY <1>1, WhoChanges DEF Shape, ControlType, TableType, Enter
<1>2. CASE FreeFrames(a)
  BY <1>2, WhoChanges, VmAssumption DEF Shape, TableType, FreeFrames, FreeFrame
<1>3. CASE ChooseFrame(a)
  BY <1>3, WhoChanges, GetFrameType, ShapeIsTypeOK DEF Shape, TableType, ChooseFrame
<1>4. CASE UNCHANGED <<swap_pool_table, to_swap_frame_index>>
  BY <1>4 DEF Shape, TableType
<1> QED BY <1>1, <1>2, <1>3, <1>4, WhoChanges DEF Enter, FreeFrames, ChooseFrame

LEMMA PagingOKStep ==
  ASSUME Shape, Inv, NEW a \in Asid, Step(a)
  PROVE  PagingOK'
<1> USE DEF Shape, PagingOK
<1>1. ASSUME NEW g \in Page, Refill(a, g)
      PROVE  PagingOK'
  <2> DEFINE k == <<a, g>>
  <2>1. k \in Key /\ tlb[k] = Absent /\ tlb' \in Refilled(k) /\ pte' = pte
    BY <1>1 DEF Refill, Key
  <2> HIDE DEF k
  <2>2. /\ tlb' \in [Key -> Frame \cup {Invalid, Absent}]
        /\ tlb'[k] = pte[k]
        /\ \A x \in Key \ {k} : tlb'[x] \in {tlb[x], Absent}
        /\ IsFiniteSet({x \in Key : tlb'[x] # Absent})
        /\ Cardinality({x \in Key : tlb'[x] # Absent}) <= TLBSize
    BY <2>1, RefilledProperties, ShapeIsTypeOK
  <2> QED BY <2>1, <2>2 DEF TLBCoherent, Cached
<1>2. ASSUME NEW k \in Key, NEW value \in Frame \cup {Invalid},
             pte' = [pte EXCEPT ![k] = value], tlb' = UpdatedTLB(k, value)
      PROVE  PagingOK'
  <2>1. /\ tlb' \in [Key -> Frame \cup {Invalid, Absent}]
        /\ tlb'[k] \in {Absent, value}
        /\ \A x \in Key \ {k} : tlb'[x] = tlb[x]
        /\ {x \in Key : tlb'[x] # Absent} = Cached
    BY <1>2, UpdatedTLBProperties, ShapeIsTypeOK
  <2> QED BY <1>2, <2>1 DEF TLBCoherent, Cached
<1>3. CASE Evict(a)
  <2>1. KeyOf(new_frame[a]) \in Key
    <3>1. pc[a] = "evict" /\ new_frame[a] \in Frame
      BY <1>3 DEF Evict, Goto, ControlType
    <3>2. ~IsFree(new_frame[a])
      BY <3>1 DEF Inv, FrameInv
    <3> QED BY <3>1, <3>2 DEF IsFree, KeyOf, Key, TableType
  <2> QED BY <1>2, <1>3, <2>1 DEF Evict
<1>4. CASE Map(a)
  <2>1. <<a, missing[a]>> \in Key /\ new_frame[a] \in Frame
    BY DEF ControlType, Key
  <2> QED BY <1>2, <1>4, <2>1 DEF Map
<1>5. CASE UNCHANGED pagingVars
  BY <1>5 DEF pagingVars, TLBCoherent, Cached
<1> QED BY <1>1, <1>3, <1>4, <1>5, WhoChanges

LEMMA StoreTypeStep ==
  ASSUME Shape, NEW a \in Asid, Step(a)
  PROVE  StoreType'
<1> USE DEF Shape, StoreType
<1>1. dev[a].frame \in Frame /\ dev[a].page \in Page
  BY DEF Operation
<1>2. ram' \in [Frame -> Value]
  <2>1. flash[<<a, dev[a].page>>] \in Value
    BY <1>1 DEF Key
  <2> QED BY <1>1, <2>1, WhoChanges DEF Write, LoadDone, LoadError
<1>3. flash' \in [Key -> Value]
  BY <1>1, WhoChanges, ZenonT(40) DEF StoreDone, StoreError
<1>4. dev' \in [Asid -> Operation]
  <2>1. IdleDevice \in Operation /\ [IdleDevice EXCEPT !.op = "read"] \in Operation
    BY VmAssumption, FrameFacts DEF IdleDevice, Operation
  <2>2. CASE Store(a)
    <3>1. swap_pool_table[new_frame[a]].page \in Page /\ new_frame[a] \in Frame
      BY DEF ControlType, TableType
    <3> QED BY <2>2, <3>1 DEF Store, Command, Operation
  <2>3. CASE Load(a)
    <3>1. missing[a] \in Page /\ new_frame[a] \in Frame
      BY DEF ControlType
    <3> QED BY <2>3, <3>1 DEF Load, Command, Operation
  <2> QED
    BY <2>1, <2>2, <2>3, WhoChanges
    DEF StartProcess, HeaderRead, HeaderError, StoreDone, LoadDone, StoreError, LoadError,
        Served
<1>5. lost' \subseteq Key
  <2>1. CASE StoreError(a)
    BY <1>1, <2>1 DEF StoreError, Key
  <2>2. CASE LoadError(a)
    BY <1>1, <2>2 DEF LoadError, Key, KeyOf, IsFree, TableType
  <2> QED BY <2>1, <2>2, WhoChanges
<1> QED BY <1>2, <1>3, <1>4, <1>5

LEMMA SemaphoreTypeStep ==
  ASSUME Shape, Inv, NEW a \in Asid, Step(a)
  PROVE  swap_pool_sem' \in SemaphoreType(Asid)
<1> DEFINE s == swap_pool_sem
<1>1. s \in SemaphoreType(Asid)
  BY DEF Shape
<1>2. CASE LockStep(a)
  <2>1. s' = SemP(s, a) /\ (s.val = 1 => s.queue = <<>>)
    BY <1>2 DEF LockStep, Lock, Inv, MutexInv
  <2> QED BY <1>1, <2>1, SemPProperties
<1>3. CASE UnlockStep(a)
  <2>1. s' = SemV(s, a) /\ Holder(a)
    BY <1>3 DEF UnlockStep, Unlock, Goto, Holder, InFault
  <2>2. s.val = 0
    BY <1>1, <2>1 DEF Inv, MutexInv, SemaphoreType
  <2> QED BY <1>1, <2>1, <2>2, SemVProperties
<1>4. CASE DisownStep(a) \/ ChooseFrame(a) \/ FreeFrames(a)
  <2>1. s' = Owned(s, a) \/ s' = Disowned(s)
    BY <1>4 DEF DisownStep, Disown, Release, ChooseFrame, FreeFrames
  <2> QED BY <1>1, <2>1 DEF Owned, Disowned, SemaphoreType
<1> QED BY <1>1, <1>2, <1>3, <1>4, WhoChanges

LEMMA ShapeStep ==
  ASSUME Shape, Inv, NEW a \in Asid, Step(a)
  PROVE  Shape'
BY ControlTypeStep, TableTypeStep, PagingOKStep, StoreTypeStep, SemaphoreTypeStep DEF Shape

-----------------------------------------------------------------------------
(* The mutex                                                               *)

\* What a process does while the value and the queue of the semaphore stay as
\* they are: it does not become a holder, and user_asid names nobody else.
LEMMA MutexKept ==
  ASSUME Shape, MutexInv, NEW b \in Asid,
         NEW to \in Starting \cup {"user"} \cup InFault \cup Ending,
         pc' = [pc EXCEPT ![b] = to],
         ~BlockedOn(swap_pool_sem, b),
         swap_pool_sem'.val = swap_pool_sem.val,
         swap_pool_sem'.queue = swap_pool_sem.queue,
         swap_pool_sem'.user_asid \in {swap_pool_sem.user_asid, b, NOPROC},
         Holder(b)' => Holder(b),
         swap_pool_sem'.user_asid = b =>
           to \in (InFault \ {"lock", "choose", "unlock"}) \cup {"trap", "freedisown"}
  PROVE  MutexInv'
<1>1. pc'[b] = to /\ \A c \in Asid \ {b} : pc'[c] = pc[c]
  BY DEF Shape, ControlType
<1>2. \A c \in Asid \ {b} : swap_pool_sem'.user_asid = c => swap_pool_sem.user_asid = c
  BY FrameFacts
<1>3. \A c \in Asid : Holder(c)' => Holder(c)
  BY <1>1, <1>2 DEF Holder, BlockedOn
<1>4. /\ \A c, d \in Asid : Holder(c)' /\ Holder(d)' => c = d
      /\ swap_pool_sem'.val = 1 => swap_pool_sem'.queue = <<>> /\ \A c \in Asid : ~Holder(c)'
      /\ IsInjective(swap_pool_sem'.queue)
  BY <1>3 DEF MutexInv
<1>5. \A c \in Range(swap_pool_sem'.queue) : pc'[c] \in {"choose", "free"}
  <2> SUFFICES ASSUME NEW c \in Range(swap_pool_sem.queue)
               PROVE  pc'[c] \in {"choose", "free"}
    OBVIOUS
  <2>1. c \in Asid
    BY DEF Shape, SemaphoreType, Range
  <2>2. c # b
    BY DEF BlockedOn
  <2> QED BY <1>1, <2>1, <2>2 DEF MutexInv
<1>6. \A c \in Asid : swap_pool_sem'.user_asid = c =>
        pc'[c] \in (InFault \ {"lock", "choose", "unlock"}) \cup {"trap", "freedisown"}
  BY <1>1, <1>2 DEF MutexInv
<1> QED BY <1>4, <1>5, <1>6 DEF MutexInv

LEMMA LockKeepsMutex ==
  ASSUME Shape, MutexInv, NEW a \in Asid, LockStep(a)
  PROVE  MutexInv'
<1> DEFINE s == swap_pool_sem
<1>1. /\ s \in SemaphoreType(Asid) /\ s' = SemP(s, a)
      /\ ~BlockedOn(s, a)
      /\ pc[a] \in {"lock", "freelock"} /\ pc'[a] \in {"choose", "free"}
      /\ \A c \in Asid \ {a} : pc'[c] = pc[c]
  BY DEF LockStep, Lock, Goto, Shape, ControlType
<1>2. /\ s'.user_asid = s.user_asid
      /\ s'.val = 0
      /\ s.val = 1 => s'.queue = <<>>
      /\ Range(s'.queue) = Range(s.queue) \cup (IF s.val = 0 THEN {a} ELSE {})
      /\ IsInjective(s'.queue)
  BY <1>1, SemPProperties DEF MutexInv, BlockedOn
<1>3. s.user_asid # a
  BY <1>1 DEF MutexInv, InFault
<1>4. \A c \in Asid \ {a} : Holder(c)' = Holder(c)
  BY <1>1, <1>2 DEF Holder, BlockedOn
<1>5. Holder(a)' => s.val = 1
  BY <1>1, <1>2 DEF Holder, BlockedOn, SemaphoreType, InFault
<1>6. \A c, d \in Asid : Holder(c)' /\ Holder(d)' => c = d
  BY <1>4, <1>5 DEF MutexInv
<1>7. \A c \in Range(s'.queue) : pc'[c] \in {"choose", "free"}
  <2>1. \A c \in Range(s.queue) : c \in Asid
    BY <1>1 DEF SemaphoreType, Range
  <2> QED BY <1>1, <1>2, <2>1 DEF MutexInv
<1>8. \A c \in Asid : s'.user_asid = c =>
        pc'[c] \in (InFault \ {"lock", "choose", "unlock"}) \cup {"trap", "freedisown"}
  BY <1>1, <1>2, <1>3 DEF MutexInv
<1> QED BY <1>2, <1>6, <1>7, <1>8 DEF MutexInv

\* The first process that waits is the holder from now on.
LEMMA UnlockKeepsMutex ==
  ASSUME Shape, MutexInv, NEW a \in Asid, UnlockStep(a)
  PROVE  MutexInv'
<1> DEFINE s == swap_pool_sem
<1>1. /\ s \in SemaphoreType(Asid) /\ s' = SemV(s, a)
      /\ ~BlockedOn(s, a)
      /\ pc[a] \in {"unlock", "release", "freeunlock"}
      /\ pc'[a] \in {"user", "trap", "dead"} /\ (pc'[a] = "trap" => pc[a] = "release")
      /\ \A c \in Asid \ {a} : pc'[c] = pc[c]
  BY DEF UnlockStep, Unlock, Goto, Shape, ControlType
<1>2. Holder(a) /\ s.user_asid # a
  BY <1>1 DEF Holder, MutexInv, InFault
<1>3. s.val = 0 /\ ~Holder(a)'
  <2>1. s.val = 0
    BY <1>1, <1>2 DEF MutexInv, SemaphoreType
  <2>2. s'.user_asid = s.user_asid
    BY <1>1, <2>1, SemVProperties
  <2> QED BY <1>1, <1>2, <2>1, <2>2 DEF Holder, InFault
<1>4. \A c \in Asid : ~(c = a) => ~Holder(c)
  BY <1>2 DEF MutexInv
<1>5. \A c \in Asid \ {a} : Holder(c)' =>
        c \in Range(s.queue) /\ c \notin Range(s'.queue)
  <2>1. s'.user_asid = s.user_asid
    BY <1>1, <1>3, SemVProperties
  <2> QED BY <1>1, <1>4, <2>1 DEF Holder, BlockedOn
<1>6. \A c \in Range(s.queue) : c \in Asid /\ c # a /\ pc'[c] = pc[c]
  BY <1>1 DEF SemaphoreType, Range, BlockedOn
<1>7. \A c \in Asid : s'.user_asid = c =>
        pc'[c] \in (InFault \ {"lock", "choose", "unlock"}) \cup {"trap", "freedisown"}
  <2>1. s'.user_asid = s.user_asid
    BY <1>1, <1>3, SemVProperties
  <2> QED BY <1>1, <1>2, <2>1 DEF MutexInv
<1>8. CASE s.queue = <<>>
  <2>1. s'.queue = <<>> /\ s'.val = 1 /\ Range(s.queue) = {}
    BY <1>1, <1>3, <1>8, SemVProperties DEF Range
  <2>2. \A c \in Asid : ~Holder(c)'
    BY <1>3, <1>5, <2>1
  <2>3. IsInjective(s'.queue)
    BY <1>8, <2>1 DEF MutexInv
  <2>4. Range(s'.queue) = {}
    BY <1>8, <2>1
  <2> QED BY <1>7, <2>1, <2>2, <2>3, <2>4 DEF MutexInv
<1>9. CASE s.queue # <<>>
  <2> DEFINE head == Head(s.queue)
  <2>1. /\ s'.val = 0
        /\ Range(s.queue) = Range(s'.queue) \cup {head}
        /\ IsInjective(s'.queue) /\ head \notin Range(s'.queue)
    BY <1>1, <1>3, <1>9, SemVProperties DEF MutexInv
  <2> HIDE DEF head
  <2>2. \A c, d \in Asid : Holder(c)' /\ Holder(d)' => c = d
    BY <1>3, <1>5, <2>1
  <2>3. \A c \in Range(s'.queue) : pc'[c] \in {"choose", "free"}
    BY <1>6, <2>1 DEF MutexInv
  <2> QED BY <1>7, <2>1, <2>2, <2>3 DEF MutexInv
<1> QED BY <1>8, <1>9

\* A process that the flash serves is the holder.
LEMMA ServedIsHolder ==
  ASSUME Shape, MutexInv, NEW b \in Asid, pc[b] \in {"storing", "loading"}
  PROVE  Holder(b) /\ ~BlockedOn(swap_pool_sem, b)
BY DEF Holder, MutexInv, BlockedOn, InFault

LEMMA MutexStep ==
  ASSUME Shape, MutexInv, NEW a \in Asid, Step(a)
  PROVE  MutexInv'
<1> USE DEF Starting, InFault, Ending
<1>1. CASE LockStep(a) \/ UnlockStep(a)
  BY <1>1, LockKeepsMutex, UnlockKeepsMutex
<1>2. CASE DisownStep(a)
  <2>1. PICK to \in {"unlock", "release", "freeunlock"} :
          /\ pc' = [pc EXCEPT ![a] = to] /\ ~BlockedOn(swap_pool_sem, a)
          /\ swap_pool_sem' = Disowned(swap_pool_sem)
          /\ \/ pc[a] \in {"disown", "freedisown"}
             \/ swap_pool_sem.user_asid = a /\ pc[a] = "trap"
    BY <1>2 DEF DisownStep, Disown, Release, Goto
  <2>2. /\ swap_pool_sem'.val = swap_pool_sem.val
        /\ swap_pool_sem'.queue = swap_pool_sem.queue
        /\ swap_pool_sem'.user_asid = NOPROC
    BY <2>1 DEF Disowned, Shape, SemaphoreType
  <2>3. Holder(a)
    BY <2>1 DEF Holder
  <2> QED BY <2>1, <2>2, <2>3, MutexKept, FrameFacts
<1>3. CASE ChooseFrame(a) \/ FreeFrames(a)
  <2>1. PICK to \in {"load", "evict", "freedisown"} :
          /\ pc' = [pc EXCEPT ![a] = to] /\ ~BlockedOn(swap_pool_sem, a)
          /\ swap_pool_sem' = Owned(swap_pool_sem, a)
          /\ pc[a] \in {"choose", "free"}
    BY <1>3 DEF ChooseFrame, FreeFrames, Goto
  <2>2. /\ swap_pool_sem'.val = swap_pool_sem.val
        /\ swap_pool_sem'.queue = swap_pool_sem.queue
        /\ swap_pool_sem'.user_asid = a
    BY <2>1 DEF Owned, Shape, SemaphoreType
  <2>3. Holder(a)
    BY <2>1 DEF Holder
  <2> QED BY <2>1, <2>2, <2>3, MutexKept
<1>4. CASE UNCHANGED <<pc, swap_pool_sem>>
  BY <1>4 DEF MutexInv, Holder
<1>5. CASE \/ StartProcess(a) \/ HeaderRead(a) \/ Evict(a) \/ Store(a) \/ Load(a) \/ Enter(a)
           \/ Map(a) \/ NothingToRelease(a) \/ Trap(a) \/ Terminate(a)
           \/ \E g \in Page : PageFault(a, g) \/ WriteToText(a, g)
  <2>1. PICK to \in Starting \cup {"user"} \cup InFault \cup Ending :
          /\ pc' = [pc EXCEPT ![a] = to] /\ ~BlockedOn(swap_pool_sem, a)
          /\ swap_pool_sem' = swap_pool_sem
          /\ \/ /\ pc[a] \in {"evict", "store", "load", "enter", "map"}
                /\ to \in {"store", "storing", "loading", "map", "disown"}
             \/ pc[a] \in {"new", "header", "user"} /\ to \in {"header", "user", "lock", "trap", "freelock"}
             \/ pc[a] = "trap" /\ to = "freelock" /\ swap_pool_sem.user_asid # a
    BY <1>5 DEF StartProcess, HeaderRead, Evict, Store, Load, Enter, Map, NothingToRelease,
       Trap, Terminate, PageFault, WriteToText, Goto
  <2>2. pc'[a] = to
    BY <2>1 DEF Shape, ControlType
  <2>3. pc[a] \in {"new", "header", "user"} => swap_pool_sem.user_asid # a
    BY DEF MutexInv
  <2>4. Holder(a)' => Holder(a)
    BY <2>1, <2>2, <2>3 DEF Holder
  <2>5. swap_pool_sem'.user_asid = a =>
            to \in (InFault \ {"lock", "choose", "unlock"}) \cup {"trap", "freedisown"}
    BY <2>1, <2>3
  <2> QED BY <2>1, <2>4, <2>5, MutexKept
<1>6. CASE FlashStep(a)
  <2>1. PICK b \in Asid, to \in {"load", "enter", "trap"} :
          /\ pc[b] \in {"storing", "loading"}
          /\ pc' = [pc EXCEPT ![b] = to]
          /\ swap_pool_sem' = swap_pool_sem
    BY <1>6 DEF FlashStep, StoreDone, LoadDone, StoreError, LoadError, Served, Shape, StoreType,
                 Operation
  <2>2. Holder(b) /\ ~BlockedOn(swap_pool_sem, b)
    BY <2>1, ServedIsHolder
  <2> QED BY <2>1, <2>2, MutexKept
<1> QED
  BY <1>1, <1>2, <1>3, <1>4, <1>5, <1>6
  DEF Step, StartStep, UserStep, FaultStep, EndStep, Refill, Write, HeaderError, LockStep,
      UnlockStep, DisownStep

\* While a process is the holder no other one is.
LEMMA OthersWait ==
  ASSUME MutexInv, NEW a \in Asid, Holder(a), NEW b \in Asid, b # a
  PROVE  /\ pc[b] \notin (InFault \ {"lock", "choose"}) \cup {"release", "freedisown", "freeunlock"}
         /\ pc[b] \in {"choose", "free"} => BlockedOn(swap_pool_sem, b)
BY DEF MutexInv, Holder

LEMMA OwnerStep ==
  ASSUME Shape, MutexInv, OwnerInv, NEW a \in Asid, Step(a)
  PROVE  OwnerInv'
<1> DEFINE Known == (InFault \ {"lock", "choose", "unlock"}) \cup {"freedisown"}
<1>0. pc \in [Asid -> Starting \cup {"user"} \cup InFault \cup Ending]
  BY DEF Shape, ControlType
<1>1. ASSUME NEW b \in Asid, \A c \in Asid \ {b} : pc'[c] = pc[c],
             pc'[b] \in Known => pc[b] \in Known,
             swap_pool_sem'.user_asid = swap_pool_sem.user_asid
      PROVE  OwnerInv'
  BY <1>1 DEF OwnerInv
<1>2. ASSUME Holder(a), \A c \in Asid \ {a} : pc'[c] = pc[c],
             pc'[a] \in Known => swap_pool_sem'.user_asid = a
      PROVE  OwnerInv'
  <2>1. \A c \in Asid \ {a} : pc[c] \notin Known
    BY <1>2, OthersWait DEF InFault
  <2> QED BY <1>2, <2>1 DEF OwnerInv
<1>3. CASE ChooseFrame(a) \/ FreeFrames(a)
  <2>1. /\ Holder(a) /\ \A c \in Asid \ {a} : pc'[c] = pc[c]
        /\ swap_pool_sem' = Owned(swap_pool_sem, a)
    BY <1>0, <1>3 DEF ChooseFrame, FreeFrames, Goto, Holder
  <2>2. swap_pool_sem'.user_asid = a
    BY <2>1 DEF Owned, Shape, SemaphoreType
  <2> QED BY <1>2, <2>1, <2>2
<1>4. CASE DisownStep(a)
  <2>1. Holder(a) /\ pc'[a] \notin Known /\ \A c \in Asid \ {a} : pc'[c] = pc[c]
    BY <1>0, <1>4 DEF DisownStep, Disown, Release, Goto, Holder, InFault
  <2> QED BY <1>2, <2>1
<1>5. CASE LockStep(a) \/ UnlockStep(a)
  <2>1. \A c \in Asid \ {a} : pc'[c] = pc[c]
    BY <1>0, <1>5 DEF LockStep, Lock, UnlockStep, Unlock, Goto
  <2>2. pc'[a] \notin Known
    BY <1>0, <1>5 DEF LockStep, Lock, UnlockStep, Unlock, Goto, InFault
  <2>3. CASE LockStep(a)
    <3>1. swap_pool_sem' = SemP(swap_pool_sem, a)
      BY <2>3 DEF LockStep, Lock
    <3>2. swap_pool_sem'.user_asid = swap_pool_sem.user_asid
      BY <3>1 DEF SemP, Shape, SemaphoreType
    <3> QED BY <1>1, <2>1, <2>2, <3>2
  <2>4. CASE UnlockStep(a)
    <3>1. swap_pool_sem' = SemV(swap_pool_sem, a)
      BY <2>4 DEF UnlockStep, Unlock
    <3>2. swap_pool_sem'.user_asid = swap_pool_sem.user_asid
      BY <3>1 DEF SemV, Shape, SemaphoreType
    <3> QED BY <1>1, <2>1, <2>2, <3>2
  <2> QED BY <1>5, <2>3, <2>4
<1>6. CASE UNCHANGED <<pc, swap_pool_sem>>
  BY <1>6 DEF OwnerInv
<1>7. CASE \/ StartProcess(a) \/ HeaderRead(a) \/ Evict(a) \/ Store(a) \/ Load(a) \/ Enter(a)
           \/ Map(a) \/ NothingToRelease(a) \/ Trap(a) \/ Terminate(a)
           \/ \E g \in Page : PageFault(a, g) \/ WriteToText(a, g)
  <2>1. /\ \A c \in Asid \ {a} : pc'[c] = pc[c]
        /\ swap_pool_sem' = swap_pool_sem
        /\ pc'[a] \in Known => pc[a] \in Known
    BY <1>0, <1>7 DEF StartProcess, HeaderRead, Evict, Store, Load, Enter, Map,
       NothingToRelease, Trap, Terminate, PageFault, WriteToText, Goto, InFault
  <2> QED BY <1>1, <2>1
<1>8. CASE FlashStep(a)
  <2>1. PICK b \in Asid :
          /\ pc[b] \in {"storing", "loading"}
          /\ \A c \in Asid \ {b} : pc'[c] = pc[c]
          /\ swap_pool_sem' = swap_pool_sem
    BY <1>0, <1>8 DEF FlashStep, StoreDone, LoadDone, StoreError, LoadError, Served, Shape,
       StoreType, Operation
  <2> QED BY <1>1, <2>1 DEF InFault
<1> QED
  BY <1>3, <1>4, <1>5, <1>6, <1>7, <1>8
  DEF Step, StartStep, UserStep, FaultStep, EndStep, Refill, Write, HeaderError, LockStep,
      UnlockStep, DisownStep

-----------------------------------------------------------------------------
(* The frames                                                              *)

\* Process b goes on and changes nothing that these invariants speak of.
LEMMA FrameKept ==
  ASSUME Shape, FrameInv, ValidPageOwnsFrame, NEW b \in Asid,
         NEW to \in Starting \cup {"user"} \cup InFault \cup Ending,
         pc' = [pc EXCEPT ![b] = to],
         UNCHANGED <<pte, swap_pool_table, new_frame, missing>>,
         to \in Starting => pc[b] \in Starting,
         to \in {"evict", "store"} => FALSE,
         to = "storing" => pc[b] = "store",
         to \in Taking => pc[b] \in Taking,
         to = "map" => FALSE,
         to \in InFault \ {"disown", "unlock"} => pc[b] \in InFault \ {"disown", "unlock"},
         to \in {"user"} \cup InFault => Running(b) \/ pc[b] \in Starting
  PROVE  FrameInv' /\ ValidPageOwnsFrame'
<1>1. pc'[b] = to /\ \A c \in Asid \ {b} : pc'[c] = pc[c]
  BY DEF Shape, ControlType
<1>2. \A k \in Key : k[1] \in Asid /\ k[2] \in Page /\ k = <<k[1], k[2]>>
  BY DEF Key
<1>3. \A k \in Key : Running(k[1])' => Running(k[1]) \/ pte[k] = Invalid
  BY <1>1, <1>2 DEF Running, FrameInv
<1>4. \A c \in Asid : new_frame[c] \in Frame
  BY DEF Shape, ControlType
<1>5. ValidPageOwnsFrame'
  BY <1>2, <1>3 DEF ValidPageOwnsFrame, Running
<1>6. \A c \in Asid : pc'[c] \in Taking => \A k \in Key : Running(k[1])' => pte[k] # new_frame[c]
  BY <1>1, <1>3, <1>4, FrameFacts DEF FrameInv
<1>7. FrameInv'
  BY <1>1, <1>6 DEF FrameInv, IsFree, KeyOf
<1> QED BY <1>5, <1>7

LEMMA FrameStep ==
  ASSUME Shape, Inv, NEW a \in Asid, Step(a)
  PROVE  FrameInv' /\ ValidPageOwnsFrame'
<1> USE DEF Shape, ControlType, Inv
<1> DEFINE Critical == (InFault \ {"lock", "choose"}) \cup {"release", "freedisown", "freeunlock"}
<1>0. /\ \A k \in Key : k[1] \in Asid /\ k[2] \in Page /\ k = <<k[1], k[2]>>
      /\ \A c \in Asid, g \in Page : <<c, g>> \in Key
      /\ {"evict", "store", "storing", "load", "loading", "enter", "map"} \subseteq Critical
      /\ Taking \subseteq Critical
      /\ pte \in [Key -> Frame \cup {Invalid}]
      /\ swap_pool_table \in [Frame -> [asid : Asid \cup {NOPROC}, page : Page]]
  BY DEF Key, InFault, Taking, PagingOK, TableType
<1> HIDE DEF Critical
<1>1. ASSUME NEW g \in Page, PageFault(a, g)
      PROVE  FrameInv' /\ ValidPageOwnsFrame'
  <2>1. /\ pc[a] = "user" /\ pc' = [pc EXCEPT ![a] = "lock"]
        /\ missing' = [missing EXCEPT ![a] = g]
        /\ UNCHANGED <<pte, swap_pool_table, new_frame>>
        /\ pte[<<a, g>>] = Invalid
    BY <1>0, <1>1, FrameFacts DEF PageFault, Goto, pagingVars, PagingOK, TLBCoherent
  <2>2. ValidPageOwnsFrame'
    BY <1>0, <2>1 DEF ValidPageOwnsFrame
  <2>3. FrameInv'
    <3>1. \A c \in Asid \ {a} : pc'[c] = pc[c] /\ missing'[c] = missing[c]
      BY <2>1
    <3>2. pc'[a] = "lock" /\ missing'[a] = g
      BY <2>1
    <3>3. \A k \in Key : Running(k[1])' => Running(k[1])
      BY <1>0, <2>1 DEF Running
    <3>4. FrameInv
      OBVIOUS
    <3> HIDE DEF Shape, ControlType, Inv
    <3> QED
      BY <1>0, <2>1, <3>1, <3>2, <3>3, <3>4
      DEF FrameInv, Starting, InFault, Taking, IsFree, KeyOf
  <2> QED BY <2>2, <2>3
<1>2. ASSUME Holder(a)
      PROVE  \A c \in Asid \ {a} : pc[c] \notin Critical
  BY <1>2, OthersWait DEF Critical
<1>3. CASE ChooseFrame(a)
  <2>1. /\ pc[a] = "choose" /\ Holder(a)
        /\ pc' = [pc EXCEPT ![a] = IF IsFree(GetFrame) THEN "load" ELSE "evict"]
        /\ new_frame' = [new_frame EXCEPT ![a] = GetFrame]
        /\ UNCHANGED <<pte, swap_pool_table, missing>>
        /\ GetFrame \in Frame
    BY <1>3, GetFrameType, ShapeIsTypeOK DEF ChooseFrame, Goto, Holder, pagingVars
  <2> HIDE DEF Inv
  <2>2. ValidPageOwnsFrame'
    BY <1>0, <2>1 DEF ValidPageOwnsFrame, InFault, Inv
  <2>3. IsFree(GetFrame) => \A k \in Key : Running(k[1]) => pte[k] # GetFrame
    <3> SUFFICES ASSUME IsFree(GetFrame), NEW k \in Key, Running(k[1]), pte[k] = GetFrame
                 PROVE  FALSE
      OBVIOUS
    <3>1. GetFrame # Invalid
      BY <2>1, FrameFacts
    <3>2. swap_pool_table[GetFrame] = [asid |-> k[1], page |-> k[2]]
      BY <3>1 DEF ValidPageOwnsFrame, Running, Inv
    <3> QED BY <1>0, <3>2, FrameFacts DEF IsFree
  <2>4. \A k \in Key : Running(k[1])' => Running(k[1])
    BY <1>0, <2>1 DEF Running, InFault
  <2>5. \A c \in Asid \ {a} : pc'[c] = pc[c] /\ new_frame'[c] = new_frame[c]
    BY <2>1
  <2>6. pc'[a] = (IF IsFree(GetFrame) THEN "load" ELSE "evict") /\ new_frame'[a] = GetFrame
    BY <2>1
  <2> HIDE DEF Shape, ControlType
  <2>7. FrameInv'
    BY <1>0, <1>2, <2>1, <2>3, <2>4, <2>5, <2>6 
    DEF FrameInv, Starting, InFault, Taking, IsFree, KeyOf, Inv
  <2> QED BY <2>2, <2>7
<1>4. CASE Evict(a)
  <2> DEFINE k == KeyOf(new_frame[a])
  <2>1. /\ pc[a] = "evict" /\ Holder(a)
        /\ pc' = [pc EXCEPT ![a] = "store"]
        /\ pte' = [pte EXCEPT ![k] = Invalid]
        /\ UNCHANGED <<swap_pool_table, new_frame, missing>>
    BY <1>4 DEF Evict, Goto, Holder, InFault, handlerVars
  <2>2. k \in Key /\ \A x \in Key : pte[x] = new_frame[a] /\ Running(x[1]) => x = k
    <3>1. swap_pool_table[new_frame[a]].asid \in Asid /\ swap_pool_table[new_frame[a]].page \in Page
      BY <1>0, <2>1 DEF FrameInv, IsFree
    <3>2. ASSUME NEW x \in Key, pte[x] = new_frame[a], Running(x[1])
          PROVE  x = k
      <4>1. pte[x] # Invalid
        BY <3>2, FrameFacts
      <4>2. swap_pool_table[new_frame[a]] = [asid |-> x[1], page |-> x[2]]
        BY <3>2, <4>1 DEF ValidPageOwnsFrame, Running
      <4> QED BY <1>0, <4>2 DEF KeyOf
    <3> QED BY <1>0, <3>1, <3>2 DEF KeyOf
  <2>3. pte'[k] = Invalid /\ \A x \in Key \ {k} : pte'[x] = pte[x]
    BY <1>0, <2>1, <2>2
  <2>4. ValidPageOwnsFrame'
    BY <1>0, <2>1, <2>3 DEF ValidPageOwnsFrame, InFault
  <2>5. \A x \in Key : Running(x[1])' => Running(x[1]) /\ pte'[x] # new_frame[a]
    BY <1>0, <2>1, <2>2, <2>3, FrameFacts DEF Running, InFault
  <2>6. \A c \in Asid, g \in Page : pte[<<c, g>>] = Invalid => pte'[<<c, g>>] = Invalid
    BY <1>0, <2>3
  <2>7. FrameInv'
    <3>1. \A c \in Asid \ {a} : pc'[c] = pc[c] /\ pc[c] \notin Critical
      BY <1>2, <2>1
    <3>2. pc'[a] = "store" /\ k' = k
      BY <2>1 DEF KeyOf
    <3> HIDE DEF Shape, k
    <3>3. \A c \in Asid : pc'[c] \in Starting =>
             /\ \A g \in Page : pte'[<<c, g>>] = Invalid
             /\ \A f \in Frame : swap_pool_table'[f].asid # c
      BY <1>0, <2>1, <2>6, <3>1, <3>2 DEF FrameInv, Starting
    <3>4. \A c \in Asid : pc'[c] \in {"evict", "store", "storing"} => ~IsFree(new_frame[c])'
      BY <1>0, <2>1, <3>1, <3>2 DEF FrameInv, IsFree
    <3>5. \A c \in Asid : pc'[c] \in {"store", "storing"} => pte'[KeyOf(new_frame[c])'] = Invalid
      BY <1>0, <2>1, <2>3, <3>1, <3>2 DEF k
    <3>6. \A c \in Asid : pc'[c] \in Taking =>
            \A x \in Key : Running(x[1])' => pte'[x] # new_frame[c]
      BY <1>0, <2>5, <3>1
    <3>7. \A c \in Asid : pc'[c] \in InFault \ {"disown", "unlock"} =>
            pte'[<<c, missing[c]>>] = Invalid
      BY <1>0, <2>1, <2>6, <3>1, <3>2 DEF FrameInv, InFault, Shape
    <3> QED BY <1>0, <2>1, <3>1, <3>2, <3>3, <3>4, <3>5, <3>6, <3>7 DEF FrameInv
  <2> QED BY <2>4, <2>7
<1>5. CASE Enter(a)
  <2>1. /\ pc[a] = "enter" /\ Holder(a)
        /\ pc' = [pc EXCEPT ![a] = "map"]
        /\ swap_pool_table' =
             [swap_pool_table EXCEPT ![new_frame[a]] = [asid |-> a, page |-> missing[a]]]
        /\ UNCHANGED <<pte, new_frame, missing>>
    BY <1>5 DEF Enter, Goto, Holder, InFault, pagingVars
  <2>2. \A c \in Asid \ {a} : pc'[c] = pc[c] /\ pc[c] \notin Critical
    BY <1>2, <2>1
  <2>3. /\ pc'[a] = "map"
        /\ swap_pool_table'[new_frame[a]] = [asid |-> a, page |-> missing[a]]
        /\ \A f \in Frame \ {new_frame[a]} : swap_pool_table'[f] = swap_pool_table[f]
    BY <1>0, <2>1
  <2>4. \A k \in Key : Running(k[1])' => Running(k[1]) /\ pte[k] # new_frame[a]
    BY <1>0, <2>1, <2>2, <2>3 DEF Running, InFault, FrameInv, Taking
  <2>5. ValidPageOwnsFrame'
    BY <1>0, <2>1, <2>3, <2>4 DEF ValidPageOwnsFrame, Running
  <2>6. FrameInv'
    BY <1>0, <2>1, <2>2, <2>3 DEF FrameInv, Starting, InFault, Taking
  <2> QED BY <2>5, <2>6
<1>6. CASE Map(a)
  <2> DEFINE k == <<a, missing[a]>>
  <2>1. /\ pc[a] = "map" /\ Holder(a)
        /\ pc' = [pc EXCEPT ![a] = "disown"]
        /\ pte' = [pte EXCEPT ![k] = new_frame[a]]
        /\ UNCHANGED <<swap_pool_table, new_frame, missing>>
    BY <1>6 DEF Map, Goto, Holder, InFault, handlerVars
  <2>2. \A c \in Asid \ {a} : pc'[c] = pc[c] /\ pc[c] \notin Critical
    BY <1>2, <2>1
  <2>3. k \in Key /\ pc'[a] = "disown"
    BY <1>0, <2>1
  <2>4. pte'[k] = new_frame[a] /\ \A x \in Key \ {k} : pte'[x] = pte[x]
    BY <1>0, <2>1, <2>3
  <2>5. \A c \in Asid \ {a} : \A g \in Page : pte'[<<c, g>>] = pte[<<c, g>>]
    BY <1>0, <2>4
  <2>6. ValidPageOwnsFrame'
    BY <1>0, <2>1, <2>2, <2>3, <2>4 DEF ValidPageOwnsFrame, FrameInv, InFault
  <2>7. FrameInv'
    BY <1>0, <2>1, <2>2, <2>3, <2>5 DEF FrameInv, Starting, InFault, Taking
  <2> QED BY <2>6, <2>7
<1>7. CASE UnlockStep(a)
  <2>1. /\ pc[a] \in {"unlock", "release", "freeunlock"}
        /\ pc'[a] \in {"user", "trap", "dead"} /\ (pc'[a] = "user" => pc[a] = "unlock")
        /\ \A c \in Asid \ {a} :
             pc'[c] = pc[c] /\ new_frame'[c] = new_frame[c] /\ missing'[c] = missing[c]
        /\ UNCHANGED <<pte, swap_pool_table>>
    BY <1>7 DEF UnlockStep, Unlock, Goto, pagingVars
  <2>2. \A k \in Key : Running(k[1])' => Running(k[1])
    BY <1>0, <2>1 DEF Running, InFault
  <2>3. ValidPageOwnsFrame'
    BY <1>0, <2>1, <2>2 DEF ValidPageOwnsFrame, Running
  <2>4. FrameInv'
    <3>1. pc'[a] \notin Starting \cup {"evict", "map"} \cup Taking \cup InFault
      BY <2>1 DEF Starting, Taking, InFault
    <3> HIDE DEF Shape, ControlType
    <3>2. \A c \in Asid : pc'[c] \in Taking => \A k \in Key : Running(k[1])' => pte[k] # new_frame[c]
      BY <2>1, <2>2, <3>1 DEF FrameInv
    <3> QED BY <2>1, <3>1, <3>2 DEF FrameInv, IsFree, KeyOf, InFault
  <2> QED BY <2>3, <2>4
<1>8. CASE FreeFrames(a)
  <2>1. /\ pc[a] = "free" /\ Holder(a)
        /\ pc' = [pc EXCEPT ![a] = "freedisown"]
        /\ swap_pool_table' =
             [f \in Frame |-> IF swap_pool_table[f].asid = a THEN FreeFrame ELSE swap_pool_table[f]]
        /\ UNCHANGED <<pte, new_frame, missing>>
    BY <1>8 DEF FreeFrames, Goto, Holder, pagingVars
  <2>2. \A c \in Asid \ {a} : pc'[c] = pc[c] /\ pc[c] \notin Critical
    BY <1>2, <2>1
  <2>3. pc'[a] = "freedisown"
    BY <2>1
  <2>4. \A f \in Frame :
          /\ swap_pool_table[f].asid # a => swap_pool_table'[f] = swap_pool_table[f]
          /\ swap_pool_table'[f].asid \in {swap_pool_table[f].asid, NOPROC}
    BY <1>0, <2>1 DEF FreeFrame
  <2>5. ValidPageOwnsFrame'
    BY <1>0, <2>1, <2>2, <2>3, <2>4 DEF ValidPageOwnsFrame, InFault
  <2>6. FrameInv'
    BY <1>0, <2>1, <2>2, <2>3, <2>4, FrameFacts DEF FrameInv, Starting, InFault, Taking
  <2> QED BY <2>5, <2>6
<1>9. CASE UNCHANGED <<pc, pte, swap_pool_table, new_frame, missing>>
  <2>1. FrameInv'
    BY <1>9 DEF FrameInv, Running, IsFree, KeyOf
  <2> QED BY <1>9, <2>1 DEF ValidPageOwnsFrame
<1>10. CASE \/ StartProcess(a) \/ HeaderRead(a) \/ (\E g \in Page : WriteToText(a, g))
            \/ Trap(a) \/ Terminate(a) \/ LockStep(a) \/ DisownStep(a)
            \/ Store(a) \/ Load(a) \/ NothingToRelease(a) \/ FlashStep(a)
  <2>1. PICK b \in Asid, to \in Starting \cup {"user"} \cup InFault \cup Ending :
          /\ pc' = [pc EXCEPT ![b] = to]
          /\ UNCHANGED <<pte, swap_pool_table, new_frame, missing>>
          /\ \/ pc[b] = "new" /\ to = "header"
             \/ pc[b] = "header" /\ to = "user"
             \/ pc[b] = "store" /\ to = "storing"
             \/ pc[b] = "load" /\ to = "loading"
             \/ pc[b] = "storing" /\ to = "load"
             \/ pc[b] = "loading" /\ to = "enter"
             \/ pc[b] = "lock" /\ to = "choose"
             \/ pc[b] = "disown" /\ to = "unlock"
             \/ to \in {"trap", "freelock", "free", "release", "freeunlock"}
    BY <1>10
    DEF StartProcess, HeaderRead, WriteToText, Trap, Terminate, LockStep, Lock, DisownStep,
        Disown, Release, Store, Load, NothingToRelease, FlashStep, StoreDone, LoadDone,
        StoreError, LoadError, Served, Goto, handlerVars, pagingVars, StoreType, Operation,
        Starting, InFault, Ending
  <2>2. /\ to \in Starting => pc[b] \in Starting
        /\ ~(to \in {"evict", "store"})
        /\ to = "storing" => pc[b] = "store"
        /\ to \in Taking => pc[b] \in Taking
        /\ ~(to = "map")
        /\ to \in InFault \ {"disown", "unlock"} => pc[b] \in InFault \ {"disown", "unlock"}
        /\ to \in {"user"} \cup InFault => Running(b) \/ pc[b] \in Starting
    BY <2>1 DEF Starting, InFault, Taking, Running
  <2> HIDE DEF Shape, ControlType
  <2> QED BY <2>1, <2>2, FrameKept DEF Inv
<1> HIDE DEF Shape, ControlType, Inv
<1> QED
  BY <1>1, <1>3, <1>4, <1>5, <1>6, <1>7, <1>8, <1>9, <1>10
  DEF Step, StartStep, UserStep, FaultStep, EndStep, Refill, Write, HeaderError, LockStep,
      UnlockStep, DisownStep, handlerVars, pagingVars

-----------------------------------------------------------------------------
(* The flash devices                                                       *)

\* A process goes on while nothing changes for those that the flash serves.
LEMMA DeviceKept ==
  ASSUME DeviceInv, UNCHANGED dev,
         \A b \in Asid : pc[b] \in {"storing", "loading", "header"} =>
           /\ pc'[b] = pc[b] /\ new_frame'[b] = new_frame[b] /\ missing'[b] = missing[b]
           /\ pc[b] = "storing" => KeyOf(new_frame[b])' = KeyOf(new_frame[b])
  PROVE  DeviceInv'
<1> SUFFICES ASSUME NEW d \in Asid, dev[d] # IdleDevice
             PROVE  Serves(d)'
  BY DEF DeviceInv
<1>1. Serves(d)
  BY DEF DeviceInv
<1> QED BY <1>1 DEF Serves

LEMMA DeviceStep ==
  ASSUME Shape, Inv, NEW a \in Asid, Step(a)
  PROVE  DeviceInv'
<1>0. /\ pc \in [Asid -> Starting \cup {"user"} \cup InFault \cup Ending]
      /\ dev \in [Asid -> Operation]
      /\ missing \in [Asid -> Page] /\ new_frame \in [Asid -> Frame]
      /\ swap_pool_table \in [Frame -> [asid : Asid \cup {NOPROC}, page : Page]]
      /\ MutexInv /\ DeviceInv
  BY DEF Shape, ControlType, TableType, StoreType, Inv
<1>1. CASE StartProcess(a)
  <2>1. /\ pc[a] = "new" /\ pc'[a] = "header" /\ \A b \in Asid \ {a} : pc'[b] = pc[b]
        /\ dev'[a].by = NOPROC /\ \A d \in Asid \ {a} : dev'[d] = dev[d]
        /\ UNCHANGED <<new_frame, missing, swap_pool_table>>
    BY <1>0, <1>1 DEF StartProcess, Goto, IdleDevice, handlerVars
  <2> QED BY <1>0, <2>1 DEF DeviceInv, Serves, KeyOf
<1>2. CASE HeaderRead(a) \/ HeaderError(a)
  <2>1. /\ pc[a] = "header" /\ \A b \in Asid \ {a} : pc'[b] = pc[b]
        /\ dev'[a] = IdleDevice /\ \A d \in Asid \ {a} : dev'[d] = dev[d]
        /\ UNCHANGED <<new_frame, missing, swap_pool_table>>
    BY <1>0, <1>2 DEF HeaderRead, HeaderError, Goto, handlerVars
  <2>2. \A d \in Asid \ {a} : dev[d] # IdleDevice => Serves(d)'
    BY <1>0, <2>1 DEF DeviceInv, Serves, KeyOf
  <2> QED BY <2>1, <2>2 DEF DeviceInv, IdleDevice
<1>3. CASE Store(a)
  <2> DEFINE d == swap_pool_table[new_frame[a]].asid
  <2>1. /\ pc[a] = "store" /\ pc'[a] = "storing" /\ \A b \in Asid \ {a} : pc'[b] = pc[b]
        /\ dev' = [dev EXCEPT ![d] = [op |-> "write", page |-> swap_pool_table[new_frame[a]].page,
                                      frame |-> new_frame[a], by |-> a]]
        /\ UNCHANGED <<new_frame, missing, swap_pool_table>>
    BY <1>0, <1>3 DEF Store, Command, Goto, handlerVars
  <2>2. d \in Asid
    BY <1>0, <2>1 DEF Inv, FrameInv, IsFree
  <2>3. /\ dev'[d] = [op |-> "write", page |-> swap_pool_table[new_frame[a]].page,
                       frame |-> new_frame[a], by |-> a]
        /\ \A x \in Asid \ {d} : dev'[x] = dev[x]
    BY <1>0, <2>1, <2>2
  <2>4. Serves(d)'
    BY <2>1, <2>2, <2>3 DEF Serves, KeyOf
  <2>5. \A x \in Asid \ {d} : dev'[x] # IdleDevice => Serves(x)'
    <3> HIDE DEF d
    <3> QED BY <1>0, <2>1, <2>3 DEF DeviceInv, Serves, KeyOf
  <2> QED BY <2>1, <2>4, <2>5 DEF DeviceInv
<1>4. CASE Load(a)
  <2>1. /\ pc[a] = "load" /\ pc'[a] = "loading" /\ \A b \in Asid \ {a} : pc'[b] = pc[b]
        /\ dev'[a] = [op |-> "read", page |-> missing[a], frame |-> new_frame[a], by |-> a]
        /\ \A d \in Asid \ {a} : dev'[d] = dev[d]
        /\ UNCHANGED <<new_frame, missing, swap_pool_table>>
    BY <1>0, <1>4 DEF Load, Command, Goto, handlerVars
  <2>2. Serves(a)'
    BY <2>1 DEF Serves
  <2>3. \A d \in Asid \ {a} : dev'[d] # IdleDevice => Serves(d)'
    BY <1>0, <2>1 DEF DeviceInv, Serves, KeyOf
  <2> QED BY <2>2, <2>3 DEF DeviceInv
<1>5. CASE FlashStep(a)
  <2> DEFINE b == dev[a].by
  <2>1. /\ b \in Asid /\ pc[b] \in {"storing", "loading"}
        /\ \A c \in Asid \ {b} : pc'[c] = pc[c]
        /\ dev'[a] = IdleDevice /\ \A d \in Asid \ {a} : dev'[d] = dev[d]
        /\ dev[a].op \in {"read", "write"}
        /\ UNCHANGED <<new_frame, missing, swap_pool_table>>
    BY <1>0, <1>5
    DEF FlashStep, StoreDone, LoadDone, StoreError, LoadError, Served, Operation, handlerVars
  <2>2. dev[a] # IdleDevice
    BY <2>1 DEF IdleDevice
  <2>3. Serves(a) /\ b # NOPROC
    BY <1>0, <2>1, <2>2, FrameFacts DEF DeviceInv
  <2>4. ASSUME NEW d \in Asid \ {a}, dev[d] # IdleDevice
        PROVE  Serves(d)'
    <3>1. Serves(d)
      BY <1>0, <2>4 DEF DeviceInv
    <3>2. dev[d].by # b
      BY <2>1, <2>3, <2>4, <3>1, FrameFacts DEF Serves, KeyOf
    <3> HIDE DEF b
    <3> QED BY <2>1, <3>1, <3>2 DEF Serves, KeyOf
  <2> QED BY <2>1, <2>4 DEF DeviceInv
<1>6. ASSUME UNCHANGED dev, NEW c \in Asid, pc[c] \notin {"storing", "loading", "header"},
             \A b \in Asid \ {c} :
                pc'[b] = pc[b] /\ new_frame'[b] = new_frame[b] /\ missing'[b] = missing[b],
             \A b \in Asid : pc[b] = "storing" => KeyOf(new_frame[b])' = KeyOf(new_frame[b])
      PROVE  DeviceInv'
  <2>1. \A b \in Asid : pc[b] \in {"storing", "loading", "header"} =>
           /\ pc'[b] = pc[b] /\ new_frame'[b] = new_frame[b] /\ missing'[b] = missing[b]
           /\ pc[b] = "storing" => KeyOf(new_frame[b])' = KeyOf(new_frame[b])
    BY <1>6
  <2> QED BY <1>0, <1>6, <2>1, DeviceKept
<1>7. CASE Enter(a) \/ FreeFrames(a)
  <2>1. Holder(a) /\ pc[a] \in {"enter", "free"}
    BY <1>7 DEF Enter, FreeFrames, Goto, Holder, InFault
  <2>2. \A b \in Asid : pc[b] # "storing"
    BY <1>0, <2>1, OthersWait DEF InFault
  <2> QED BY <1>0, <1>6, <1>7, <2>1, <2>2 DEF Enter, FreeFrames, Goto, storeVars
<1>8. CASE \/ \E g \in Page : PageFault(a, g) \/ WriteToText(a, g)
           \/ LockStep(a) \/ DisownStep(a) \/ UnlockStep(a) \/ ChooseFrame(a) \/ Evict(a) \/ Map(a)
           \/ Trap(a) \/ Terminate(a) \/ NothingToRelease(a)
  <2>1. /\ UNCHANGED <<dev, swap_pool_table>>
        /\ pc[a] \notin {"storing", "loading", "header"}
        /\ \A b \in Asid \ {a} :
             pc'[b] = pc[b] /\ new_frame'[b] = new_frame[b] /\ missing'[b] = missing[b]
    BY <1>0, <1>8
    DEF PageFault, WriteToText, LockStep, Lock, DisownStep, Disown, Release, UnlockStep, Unlock,
        ChooseFrame, Evict, Map, Trap, Terminate, NothingToRelease, Goto, handlerVars, storeVars
  <2>2. \A b \in Asid : pc[b] = "storing" => KeyOf(new_frame[b])' = KeyOf(new_frame[b])
    BY <2>1 DEF KeyOf
  <2> QED BY <1>6, <2>1, <2>2
<1>9. CASE \/ \E g \in Page : Refill(a, g)
           \/ \E g \in Page, v \in Value : Write(a, g, v)
  <2>1. UNCHANGED <<dev, pc, new_frame, missing, swap_pool_table>>
    BY <1>9 DEF Refill, Write, handlerVars, storeVars
  <2> QED BY <1>0, <2>1, DeviceKept DEF KeyOf
<1> QED
  BY <1>1, <1>2, <1>3, <1>4, <1>5, <1>7, <1>8, <1>9
  DEF Step, StartStep, UserStep, FaultStep, EndStep, LockStep, UnlockStep, DisownStep

-----------------------------------------------------------------------------
(* The pages                                                               *)

Working(a, f) == new_frame[a] = f /\ pc[a] \in Taking \cup {"map"}

\* Process b goes on, in no way that concerns the pages.
LEMMA PageKept ==
  ASSUME Shape, FrameInv, PageInv, NEW b \in Asid,
         \A c \in Asid \ {b} :
           pc'[c] = pc[c] /\ new_frame'[c] = new_frame[c] /\ missing'[c] = missing[c],
         Running(b)' => Running(b) \/ pc[b] \in Starting,
         \/ pc[b] \notin Taking \cup {"map"}
         \/ pc'[b] \in Taking \cup {"map"} /\ new_frame'[b] = new_frame[b],
         pc'[b] \notin {"enter", "map"},
         UNCHANGED <<swap_pool_table, pte, ram, flash, lost>>
  PROVE  PageInv'
<1>1. ASSUME NEW f \in Frame, ~IsFree(f)', Running(KeyOf(f)[1])', KeyOf(f)' \notin lost
      PROVE  pte[KeyOf(f)'] = f \/ \E a \in Asid : Working(a, f)'
  <2>1. KeyOf(f)' = KeyOf(f) /\ ~IsFree(f)
    BY <1>1 DEF KeyOf, IsFree
  <2>2. KeyOf(f)[1] \in Asid /\ KeyOf(f)[1] = swap_pool_table[f].asid
    BY <2>1 DEF KeyOf, IsFree, Shape, TableType
  <2>3. Running(KeyOf(f)[1])
    BY <1>1, <2>1, <2>2 DEF Running, FrameInv
  <2>4. CASE pte[KeyOf(f)] = f
    BY <2>1, <2>4
  <2>5. CASE \E a \in Asid : new_frame[a] = f /\ pc[a] \in Taking \cup {"map"}
    BY <2>5 DEF Working
  <2> QED BY <1>1, <2>1, <2>3, <2>4, <2>5 DEF PageInv
<1>2. \A a \in Asid : pc'[a] \in {"enter", "map"} =>
        ram'[new_frame'[a]] = flash'[<<a, missing'[a]>>]
  BY DEF PageInv
<1> QED BY <1>1, <1>2 DEF PageInv, Working

LEMMA PageStep ==
  ASSUME Shape, Inv, NEW a \in Asid, Step(a)
  PROVE  PageInv'
<1>0. /\ pc \in [Asid -> Starting \cup {"user"} \cup InFault \cup Ending]
      /\ dev \in [Asid -> Operation]
      /\ missing \in [Asid -> Page] /\ new_frame \in [Asid -> Frame]
      /\ swap_pool_table \in [Frame -> [asid : Asid \cup {NOPROC}, page : Page]]
      /\ pte \in [Key -> Frame \cup {Invalid}]
      /\ ram \in [Frame -> Value] /\ flash \in [Key -> Value]
      /\ MutexInv /\ FrameInv /\ ValidPageOwnsFrame /\ DeviceInv /\ PageInv
  BY DEF Shape, ControlType, TableType, PagingOK, StoreType, Inv
<1>1. ASSUME NEW f \in Frame, ~IsFree(f)
      PROVE  /\ KeyOf(f) \in Key
             /\ KeyOf(f)[1] \in Asid /\ KeyOf(f)[1] = swap_pool_table[f].asid
  BY <1>0, <1>1 DEF KeyOf, Key, IsFree
<1>2. ASSUME Holder(a)
      PROVE  \A c \in Asid \ {a} : pc[c] \notin Taking \cup {"map", "evict"}
  BY <1>0, <1>2, OthersWait DEF InFault, Taking
<1>3. ASSUME NEW g \in Page, NEW v \in Value, Write(a, g, v)
      PROVE  PageInv'
  <2> DEFINE k == <<a, g>>
  <2>1. /\ pc[a] = "user" /\ k \in Key /\ pte[k] \in Frame
        /\ ram' = [ram EXCEPT ![pte[k]] = v]
        /\ UNCHANGED <<pc, missing, new_frame, swap_pool_table, pte, flash, lost>>
    BY <1>3, FrameFacts DEF Write, handlerVars, pagingVars, Shape, PagingOK, TLBCoherent, Key
  <2>2. swap_pool_table[pte[k]] = [asid |-> a, page |-> g]
    BY <1>0, <2>1, FrameFacts DEF ValidPageOwnsFrame
  <2>3. \A c \in Asid : pc[c] \in {"enter", "map"} => new_frame[c] # pte[k]
    <3>1. ASSUME NEW c \in Asid, pc[c] = "map", new_frame[c] = pte[k]
          PROVE  FALSE
      <4>1. swap_pool_table[new_frame[c]].asid = c
        <5>1. swap_pool_table[new_frame[c]] = [asid |-> c, page |-> missing[c]]
          BY <1>0, <3>1 DEF FrameInv
        <5> QED BY <5>1
      <4> QED BY <2>1, <2>2, <3>1, <4>1
    <3>2. ASSUME NEW c \in Asid, pc[c] = "enter", new_frame[c] = pte[k]
          PROVE  FALSE
      BY <1>0, <2>1, <3>2 DEF FrameInv, Taking, Running
    <3> QED BY <3>1, <3>2
  <2>4. \A c \in Asid : pc[c] \in {"enter", "map"} => ram'[new_frame[c]] = ram[new_frame[c]]
    BY <1>0, <2>1, <2>3
  <2> QED BY <1>0, <2>1, <2>4, ZenonT(40) DEF PageInv, Running, IsFree, KeyOf
<1>4. CASE HeaderError(a) \/ \E g \in Page : Refill(a, g)
  <2>1. UNCHANGED <<pc, missing, new_frame, swap_pool_table, pte, ram, flash, lost>>
    BY <1>4 DEF HeaderError, Refill, handlerVars, pagingVars, storeVars
  <2> QED BY <1>0, <2>1 DEF PageInv, Running, IsFree, KeyOf
<1>5. CASE Evict(a)
  <2> DEFINE k == KeyOf(new_frame[a])
  <2>1. /\ pc[a] = "evict" /\ Holder(a) /\ pc'[a] = "store"
        /\ \A c \in Asid \ {a} : pc'[c] = pc[c]
        /\ pte' = [pte EXCEPT ![k] = Invalid]
        /\ UNCHANGED <<swap_pool_table, new_frame, missing, ram, flash, lost>>
    BY <1>0, <1>5 DEF Evict, Goto, Holder, InFault, handlerVars, storeVars
  <2>2. k \in Key /\ \A x \in Key \ {k} : pte'[x] = pte[x]
    BY <1>0, <1>1, <2>1 DEF FrameInv
  <2>3. ASSUME NEW f \in Frame, ~IsFree(f), Running(KeyOf(f)[1])', KeyOf(f) \notin lost
        PROVE  pte'[KeyOf(f)] = f \/ Working(a, f)'
    <3>1. Running(KeyOf(f)[1])
      BY <1>1, <2>1, <2>3 DEF Running, InFault, KeyOf
    <3>2. CASE f = new_frame[a]
      BY <2>1, <3>2 DEF Working, Taking
    <3>3. CASE f # new_frame[a]
      <4>1. \A x \in Frame : ~IsFree(x) /\ Running(KeyOf(x)[1]) /\ KeyOf(x) \notin lost => pte[KeyOf(x)] = x
        BY <1>0, <1>2, <2>1 DEF PageInv, Taking
      <4>2. pte[KeyOf(f)] = f
        BY <2>3, <3>1, <4>1
      <4>3. ~IsFree(new_frame[a]) /\ new_frame[a] \in Frame
        BY <1>0, <2>1 DEF FrameInv
      <4>4. KeyOf(f) # k
        BY <2>3, <3>1, <3>3, <4>1, <4>2, <4>3
      <4> QED BY <1>1, <2>2, <2>3, <4>2, <4>4
    <3> QED BY <3>2, <3>3
  <2>4. \A c \in Asid : pc'[c] \in {"enter", "map"} => ram[new_frame[c]] = flash[<<c, missing[c]>>]
    BY <1>0, <2>1 DEF PageInv
  <2>5. \A f \in Frame : IsFree(f)' = IsFree(f) /\ KeyOf(f)' = KeyOf(f)
    BY <2>1 DEF IsFree, KeyOf
  <2> HIDE DEF k
  <2> QED BY <2>1, <2>3, <2>4, <2>5 DEF PageInv, Working
<1>6. CASE Enter(a)
  <2>1. /\ pc[a] = "enter" /\ Holder(a) /\ pc'[a] = "map"
        /\ \A c \in Asid \ {a} : pc'[c] = pc[c]
        /\ \A f \in Frame \ {new_frame[a]} : swap_pool_table'[f] = swap_pool_table[f]
        /\ UNCHANGED <<pte, new_frame, missing, ram, flash, lost>>
    BY <1>0, <1>6 DEF Enter, Goto, Holder, InFault, pagingVars, storeVars
  <2>2. ASSUME NEW f \in Frame, ~IsFree(f)', Running(KeyOf(f)[1])', KeyOf(f)' \notin lost
        PROVE  pte[KeyOf(f)'] = f \/ Working(a, f)'
    <3>1. CASE f = new_frame[a]
      BY <2>1, <3>1 DEF Working
    <3>2. CASE f # new_frame[a]
      <4>1. KeyOf(f)' = KeyOf(f) /\ ~IsFree(f)
        BY <2>1, <2>2, <3>2 DEF KeyOf, IsFree
      <4>2. Running(KeyOf(f)[1])
        BY <1>1, <2>1, <2>2, <4>1 DEF Running, InFault
      <4>3. \A c \in Asid : pc[c] \in Taking \cup {"map"} => c = a
        BY <1>2, <2>1
      <4> QED BY <1>0, <2>1, <2>2, <3>2, <4>1, <4>2, <4>3 DEF PageInv
    <3> QED BY <3>1, <3>2
  <2>3. \A c \in Asid : pc'[c] \in {"enter", "map"} => ram[new_frame[c]] = flash[<<c, missing[c]>>]
    BY <1>0, <2>1 DEF PageInv
  <2> QED BY <2>1, <2>2, <2>3 DEF PageInv, Working
<1>7. CASE Map(a)
  <2> DEFINE k == <<a, missing[a]>>
  <2>1. /\ pc[a] = "map" /\ Holder(a) /\ pc'[a] = "disown"
        /\ \A c \in Asid \ {a} : pc'[c] = pc[c]
        /\ pte' = [pte EXCEPT ![k] = new_frame[a]]
        /\ UNCHANGED <<swap_pool_table, new_frame, missing, ram, flash, lost>>
    BY <1>0, <1>7 DEF Map, Goto, Holder, InFault, handlerVars, storeVars
  <2>2. /\ k \in Key /\ pte'[k] = new_frame[a] /\ \A x \in Key \ {k} : pte'[x] = pte[x]
        /\ pte[k] = Invalid
        /\ KeyOf(new_frame[a]) = k
    <3>1. k \in Key
      BY <1>0 DEF Key
    <3>2. pte[k] = Invalid
      BY <1>0, <2>1 DEF FrameInv, InFault
    <3>3. swap_pool_table[new_frame[a]] = [asid |-> a, page |-> missing[a]]
      BY <1>0, <2>1 DEF FrameInv
    <3>4. KeyOf(new_frame[a]) = k
      BY <3>3 DEF KeyOf
    <3> HIDE DEF k
    <3> QED BY <1>0, <2>1, <3>1, <3>2, <3>4
  <2>3. \A c \in Asid \ {a} : pc[c] \notin Taking \cup {"map", "evict"}
    BY <1>2, <2>1
  <2> HIDE DEF k
  <2>4. ASSUME NEW f \in Frame, ~IsFree(f), Running(KeyOf(f)[1])', KeyOf(f) \notin lost
        PROVE  pte'[KeyOf(f)] = f
    <3>1. Running(KeyOf(f)[1])
      BY <1>1, <2>1, <2>4 DEF Running, InFault, KeyOf
    <3>2. CASE f = new_frame[a]
      BY <2>2, <3>2
    <3>3. CASE f # new_frame[a]
      <4>1. pte[KeyOf(f)] = f
        BY <1>0, <2>3, <2>4, <3>1, <3>3 DEF PageInv
      <4>2. KeyOf(f) # k
        BY <2>2, <4>1, FrameFacts
      <4> QED BY <1>1, <2>2, <2>4, <4>1, <4>2
    <3> QED BY <3>2, <3>3
  <2>5. \A c \in Asid : pc'[c] \notin {"enter", "map"}
    BY <2>1, <2>3 DEF Taking
  <2>6. \A f \in Frame : IsFree(f)' = IsFree(f) /\ KeyOf(f)' = KeyOf(f)
    BY <2>1 DEF IsFree, KeyOf
  <2> QED BY <2>1, <2>4, <2>5, <2>6 DEF PageInv
<1>8. CASE FreeFrames(a)
  <2>1. /\ pc[a] = "free" /\ Holder(a) /\ pc'[a] = "freedisown"
        /\ \A c \in Asid \ {a} : pc'[c] = pc[c]
        /\ \A f \in Frame : swap_pool_table'[f].asid # NOPROC => swap_pool_table'[f] = swap_pool_table[f]
        /\ UNCHANGED <<pte, new_frame, missing, ram, flash, lost>>
    BY <1>0, <1>8 DEF FreeFrames, FreeFrame, Goto, Holder, pagingVars, storeVars
  <2>2. \A f \in Frame : ~IsFree(f)' => ~IsFree(f) /\ KeyOf(f)' = KeyOf(f)
    BY <2>1 DEF IsFree, KeyOf
  <2>3. \A f \in Frame : ~IsFree(f)' /\ Running(KeyOf(f)[1])' => Running(KeyOf(f)[1])
    BY <1>1, <2>1, <2>2 DEF Running, InFault, KeyOf
  <2>4. \A c \in Asid : pc[c] \in Taking \cup {"map"} => c # a
    BY <2>1 DEF Taking
  <2> QED BY <1>0, <2>1, <2>2, <2>3, <2>4 DEF PageInv
<1>9. CASE FlashStep(a)
  <2> DEFINE b == dev[a].by
             k == <<a, dev[a].page>>
  <2>1. /\ b \in Asid /\ dev[a].frame = new_frame[b] /\ k \in Key
        /\ \/ pc[b] = "storing" /\ dev[a].op = "write" /\ k = KeyOf(new_frame[b])
           \/ pc[b] = "loading" /\ dev[a].op = "read" /\ k = <<b, missing[b]>>
    <3>1. b \in Asid /\ pc[b] \in {"storing", "loading"} /\ dev[a].op \in {"read", "write"}
      BY <1>0, <1>9
      DEF FlashStep, StoreDone, LoadDone, StoreError, LoadError, Served, Operation
    <3>2. Serves(a)
      BY <1>0, <3>1 DEF DeviceInv, IdleDevice
    <3>3. k \in Key
      BY <1>0 DEF Operation, Key
    <3>4. b # NOPROC
      BY <3>1, FrameFacts
    <3> HIDE DEF k
    <3> QED BY <3>1, <3>2, <3>3, <3>4 DEF Serves, k
  <2>2. /\ UNCHANGED <<pte, swap_pool_table, new_frame, missing>>
        /\ \A c \in Asid \ {b} : pc'[c] = pc[c]
    BY <1>0, <1>9
    DEF FlashStep, StoreDone, LoadDone, StoreError, LoadError, handlerVars, pagingVars
  <2>3. \A c \in Asid \ {b} : pc[c] \notin Taking \cup {"map"}
    BY <1>0, <2>1, ServedIsHolder, OthersWait DEF Shape, InFault, Taking
  <2>4. \A f \in Frame : ~IsFree(f) /\ Running(KeyOf(f)[1]) /\ KeyOf(f) \notin lost =>
          pte[KeyOf(f)] = f \/ f = new_frame[b]
    BY <1>0, <2>3 DEF PageInv
  <2>5. \A f \in Frame : ~IsFree(f) /\ Running(KeyOf(f)[1])' => Running(KeyOf(f)[1])
    BY <1>1, <2>1, <2>2 DEF Running, InFault, KeyOf
  <2>6. \A f \in Frame : IsFree(f)' = IsFree(f) /\ KeyOf(f)' = KeyOf(f)
    BY <2>2 DEF IsFree, KeyOf
  <2> HIDE DEF b, k
  <2>7. lost \subseteq lost'
    BY <1>9 DEF FlashStep, StoreDone, LoadDone, StoreError, LoadError
  <2>8. ASSUME \/ pc'[b] \in Taking
               \/ pc'[b] = "trap" /\ (~IsFree(new_frame[b]) => KeyOf(new_frame[b]) \in lost'),
               pc'[b] = "enter" => ram'[new_frame[b]] = flash'[<<b, missing[b]>>],
               pc'[b] # "map"
        PROVE  PageInv'
    <3>1. \A f \in Frame : ~IsFree(f)' /\ Running(KeyOf(f)[1])' /\ KeyOf(f)' \notin lost' =>
            pte'[KeyOf(f)'] = f \/ (new_frame'[b] = f /\ pc'[b] \in Taking)
      BY <2>2, <2>4, <2>5, <2>6, <2>7, <2>8
    <3>2. \A c \in Asid : pc'[c] \in {"enter", "map"} => c = b
      BY <2>2, <2>3 DEF Taking
    <3> QED BY <2>1, <2>2, <2>8, <3>1, <3>2 DEF PageInv
  <2>9. CASE StoreDone(a)
    <3>1. pc'[b] = "load"
      BY <1>0, <2>1, <2>9 DEF StoreDone, b
    <3> QED BY <2>8, <3>1 DEF Taking
  <2>10. CASE LoadDone(a)
    <3>1. /\ pc'[b] = "enter" /\ pc[b] = "loading" /\ flash' = flash
          /\ ram' = [ram EXCEPT ![new_frame[b]] = flash[k]]
      BY <1>0, <2>1, <2>10 DEF LoadDone, Served, b, k
    <3>2. k = <<b, missing[b]>>
      BY <2>1, <3>1
    <3>3. ram'[new_frame[b]] = flash'[<<b, missing[b]>>]
      BY <1>0, <2>1, <3>1, <3>2
    <3> QED BY <2>8, <3>1, <3>3 DEF Taking
  <2>11. CASE StoreError(a)
    <3>1. pc'[b] = "trap" /\ pc[b] = "storing" /\ lost' = lost \cup {k}
      BY <1>0, <2>1, <2>11 DEF StoreError, Served, b, k
    <3> QED BY <2>1, <2>8, <3>1
  <2>12. CASE LoadError(a)
    <3>1. /\ pc'[b] = "trap" /\ pc[b] = "loading"
          /\ lost' = IF IsFree(new_frame[b]) THEN lost ELSE lost \cup {KeyOf(new_frame[b])}
      BY <1>0, <2>1, <2>12 DEF LoadError, Served, b
    <3> QED BY <2>1, <2>8, <3>1
  <2> QED BY <1>9, <2>9, <2>10, <2>11, <2>12 DEF FlashStep
<1>10. CASE \/ StartProcess(a) \/ HeaderRead(a) \/ (\E g \in Page : PageFault(a, g) \/ WriteToText(a, g))
            \/ Trap(a) \/ Terminate(a) \/ LockStep(a) \/ DisownStep(a) \/ UnlockStep(a)
            \/ ChooseFrame(a) \/ Store(a) \/ Load(a) \/ NothingToRelease(a)
  <2>1. /\ \A c \in Asid \ {a} :
             pc'[c] = pc[c] /\ new_frame'[c] = new_frame[c] /\ missing'[c] = missing[c]
        /\ UNCHANGED <<swap_pool_table, pte, ram, flash, lost>>
        /\ \/ /\ pc[a] \notin Taking \cup {"map"}
              /\ pc'[a] \in {"header", "trap", "freelock", "choose", "free", "release",
                          "freeunlock", "dead", "load", "evict", "unlock", "lock", "user"}
           \/ /\ pc[a] \in {"store", "load"} /\ pc'[a] \in {"storing", "loading"}
              /\ new_frame' = new_frame
        /\ pc'[a] \in {"user"} \cup InFault => pc[a] \in {"header", "user"} \cup InFault
    BY <1>0, <1>10
    DEF StartProcess, HeaderRead, PageFault, WriteToText, Trap, Terminate, LockStep, Lock,
        DisownStep, Disown, Release, UnlockStep, Unlock, ChooseFrame, Store, Load,
        NothingToRelease, Goto, handlerVars, pagingVars, storeVars, Taking, InFault
  <2>2. Running(a)' => Running(a) \/ pc[a] \in Starting
    BY <2>1 DEF Running, Starting
  <2>3. \/ pc[a] \notin Taking \cup {"map"}
        \/ pc'[a] \in Taking \cup {"map"} /\ new_frame'[a] = new_frame[a]
    BY <2>1 DEF Taking
  <2>4. pc'[a] \notin {"enter", "map"}
    BY <2>1
  <2> QED BY <1>0, <2>1, <2>2, <2>3, <2>4, PageKept
<1> QED
  BY <1>3, <1>4, <1>5, <1>6, <1>7, <1>8, <1>9, <1>10
  DEF Step, StartStep, UserStep, FaultStep, EndStep, LockStep, UnlockStep, DisownStep

-----------------------------------------------------------------------------
(* The start of the processes                                              *)

LEMMA StartInvStep ==
  ASSUME Shape, Inv, NEW a \in Asid, Step(a)
  PROVE  StartInv'
<1>1. CASE StartProcess(a)
  BY <1>1 DEF StartProcess, Goto, Inv, StartInv, Shape, ControlType, Starting
<1>2. ASSUME \A b \in Asid : pc'[b] = pc[b] \/ pc'[b] \notin Starting
      PROVE  StartInv'
  BY <1>2 DEF Inv, StartInv, Starting
<1>3. CASE ~StartProcess(a)
  <2>1. \A b \in Asid : pc'[b] = pc[b] \/ pc'[b] \notin Starting
    BY <1>3 DEF Shape, ControlType, Step, StartStep, UserStep, FaultStep, EndStep, FlashStep,
       HeaderRead, HeaderError, Refill, PageFault, WriteToText, Write, Trap, Terminate, Lock,
       ChooseFrame, Evict, Store, Load, Enter, Map, Disown, Unlock, Release, NothingToRelease,
       FreeFrames, StoreDone, LoadDone, StoreError, LoadError, Goto, Starting
  <2> QED BY <1>2, <2>1
<1> QED BY <1>1, <1>3

-----------------------------------------------------------------------------
(* The theorems                                                            *)

LEMMA InvStep ==
  ASSUME Shape, Inv, NEW a \in Asid, Step(a)
  PROVE  Inv'
BY MutexStep, OwnerStep, FrameStep, DeviceStep, PageStep, StartInvStep DEF Inv

LEMMA InitInv == Init => Inv
<1> SUFFICES ASSUME Init PROVE Inv
  OBVIOUS
<1>1. /\ \A a \in Asid : pc[a] = "new"
      /\ \A k \in Key : pte[k] = Invalid
      /\ \A f \in Frame : swap_pool_table[f].asid = NOPROC
      /\ \A d \in Asid : dev[d] = IdleDevice
      /\ swap_pool_sem.queue = <<>> /\ swap_pool_sem.user_asid = NOPROC
  BY DEF Init, FreeFrame, Semaphore
<1>2. MutexInv
  BY <1>1, FrameFacts DEF MutexInv, Holder, InFault, IsInjective, Range
<1>3. FrameInv
  BY <1>1, FrameFacts DEF FrameInv, InFault, Taking, Key
<1>4. ValidPageOwnsFrame
  BY <1>1 DEF ValidPageOwnsFrame
<1>5. DeviceInv
  BY <1>1 DEF DeviceInv
<1>6. PageInv
  BY <1>1 DEF PageInv, IsFree
<1>7. OwnerInv /\ StartInv
  BY <1>1 DEF OwnerInv, StartInv, InFault
<1> QED BY <1>2, <1>3, <1>4, <1>5, <1>6, <1>7 DEF Inv

LEMMA IInvStep == IInv /\ [Next]_vars => IInv'
<1> SUFFICES ASSUME IInv, [Next]_vars PROVE IInv'
  OBVIOUS
<1>1. Shape /\ Inv
  BY ShapeIsTypeOK DEF IInv
<1>2. ASSUME Shape', Inv' PROVE IInv'
  BY <1>2, ShapeIsTypeOK, PTL DEF IInv
<1>3. CASE UNCHANGED vars
  <2> USE <1>3 DEF vars, handlerVars, pagingVars, storeVars
  <2>1. Shape'
    BY <1>1 DEF Shape, ControlType, TableType, PagingOK, StoreType, Cached, TLBCoherent
  <2>2. MutexInv' = MutexInv
    BY DEF MutexInv, Holder
  <2>3. FrameInv' = FrameInv
    BY DEF FrameInv, Running, IsFree, KeyOf
  <2>4. ValidPageOwnsFrame' = ValidPageOwnsFrame
    BY DEF ValidPageOwnsFrame
  <2>5. DeviceInv' = DeviceInv
    BY DEF DeviceInv, Serves, KeyOf
  <2>6. PageInv' = PageInv
    BY DEF PageInv, Running, IsFree, KeyOf
  <2>7. OwnerInv' = OwnerInv /\ StartInv' = StartInv
    BY DEF OwnerInv, StartInv
  <2> QED BY <1>1, <1>2, <2>1, <2>2, <2>3, <2>4, <2>5, <2>6, <2>7 DEF Inv
<1>4. ASSUME NEW a \in Asid, Step(a)
      PROVE  IInv'
  BY <1>1, <1>2, <1>4, ShapeStep, InvStep
<1> QED BY <1>3, <1>4, NextIsStep

\* The invariant that the theorems below follow from: who has the mutex of the
\* swap pool, and whose each frame is at every moment of a page fault.
THEOREM IInvHolds == Spec => []IInv
<1>1. Init => IInv
  BY InitShape, InitInv, ShapeIsTypeOK DEF IInv
<1> QED BY <1>1, IInvStep, PTL DEF Spec

\* The variables keep their types, and the TLB never grows beyond its size:
\* _getFrame stays in the pool, and no entry of the TLB is made but by a refill.
THEOREM TypeCorrect == Spec => []TypeOK
<1>1. IInv => TypeOK
  BY DEF IInv
<1> QED BY <1>1, IInvHolds, PTL

\* The TLB agrees with the page table at every moment, although entries are
\* refilled at random and evicted pages belong to other processes.
THEOREM TLBIsCoherent == Spec => []TLBCoherent
<1>1. IInv => TLBCoherent
  BY DEF IInv
<1> QED BY <1>1, IInvHolds, PTL

\* The entry of the frame of a valid page names that page.
THEOREM PagesOwnTheirFrames == Spec => []ValidPageOwnsFrame
<1>1. IInv => ValidPageOwnsFrame
  BY DEF IInv, Inv
<1> QED BY <1>1, IInvHolds, PTL

\* No command reaches a flash device that is busy.
THEOREM CommandsMeetReadyFlash == Spec => []FlashReadyForCommand
<1>1. ASSUME IInv PROVE FlashReadyForCommand
  <2>1. Shape /\ Inv
    BY <1>1, ShapeIsTypeOK DEF IInv
  <2>2. ASSUME NEW a \in Asid, pc[a] \in {"store", "load"}, NEW d \in Asid,
               pc[d] # "header", dev[d] # IdleDevice
        PROVE  FALSE
    <3>1. PICK b \in Asid : pc[b] \in {"storing", "loading"}
      BY <2>1, <2>2 DEF Inv, DeviceInv, Serves
    <3>2. Holder(a) /\ Holder(b) /\ a # b
      BY <2>2, <3>1 DEF Holder, InFault
    <3> QED BY <2>1, <3>2 DEF Inv, MutexInv
  <2>3. ASSUME NEW a \in Asid, pc[a] = "store"
        PROVE  dev[swap_pool_table[new_frame[a]].asid] = IdleDevice
    <3> DEFINE d == swap_pool_table[new_frame[a]].asid
    <3>1. d \in Asid /\ pc[d] # "header"
      BY <2>1, <2>3
      DEF Shape, ControlType, TableType, Inv, FrameInv, IsFree, Starting
    <3> HIDE DEF d
    <3>2. dev[d] = IdleDevice
      BY <2>2, <2>3, <3>1
    <3> QED BY <3>2 DEF d
  <2>4. ASSUME NEW a \in Asid, pc[a] = "new", dev[a] # IdleDevice
        PROVE  FALSE
    <3>1. Serves(a)
      BY <2>1, <2>4 DEF Inv, DeviceInv
    <3>2. PICK b \in Asid : pc[b] = "storing" /\ a = KeyOf(new_frame[b])[1]
      BY <2>4, <3>1 DEF Serves
    <3>3. new_frame[b] \in Frame /\ swap_pool_table[new_frame[b]].asid = a
      BY <2>1, <3>2 DEF Shape, ControlType, KeyOf
    <3> QED BY <2>1, <2>4, <3>3 DEF Inv, FrameInv, Starting
  <2> QED BY <2>2, <2>3, <2>4 DEF FlashReadyForCommand
<1> QED BY <1>1, IInvHolds, PTL

-----------------------------------------------------------------------------
(* Vm implements UserMemory                                                *)

Saving(a) == pc[a] \in {"store", "storing"}

Promised(k) == life[k[1]] # "ended" /\ k \notin lost

\* Where the process of k would find its page.
Content(k) ==
  IF pte[k] # Invalid THEN ram[pte[k]]
  ELSE IF BeingSaved(k) # {} THEN ram[CHOOSE f \in BeingSaved(k) : TRUE]
  ELSE flash[k]

SavedBy(a) ==
  \A k \in Key :
    BeingSaved(k) = IF Saving(a) /\ KeyOf(new_frame[a]) = k THEN {new_frame[a]} ELSE {}

\* At most one page is being saved.
LEMMA OneIsSaved ==
  \A a \in Asid :
    new_frame[a] \in Frame /\ (\A c \in Asid \ {a} : ~Saving(c)) => SavedBy(a)
BY DEF SavedBy, Saving, BeingSaved

LEMMA LifeIs ==
  ASSUME nucleus = "runs", UNCHANGED nucleus, NEW a \in Asid
  PROVE  /\ life[a] = IF pc[a] \in Starting THEN "new"
                      ELSE IF pc[a] \in Ending THEN "ended" ELSE "running"
         /\ life'[a] = IF pc'[a] \in Starting THEN "new"
                       ELSE IF pc'[a] \in Ending THEN "ended" ELSE "running"
BY DEF life, Starting, Ending

\* The mapped memory does not change.
LEMMA SameMemory ==
  ASSUME UNCHANGED life, \A k \in Key : Promised(k)' <=> Promised(k),
         \A k \in Key : Promised(k) => Content(k)' = Content(k)
  PROVE  UNCHANGED memory
<1>1. \A k \in Key : memory'[k] = memory[k]
  BY DEF memory, Promised, Content
<1> QED BY <1>1 DEF memory

\* A process ends, and some pages are lost.
LEMMA EndsView ==
  ASSUME Shape, nucleus = "runs", UNCHANGED nucleus, NEW b \in Asid, NEW L \in SUBSET Key,
         pc'[b] \in Ending, \A c \in Asid \ {b} : pc'[c] = pc[c],
         lost' = lost \cup L,
         \A k \in Key : Promised(k)' => Content(k)' = Content(k)
  PROVE  UserMem!End({b}, L)
<1>1. \A c \in Asid : life'[c] = IF c \in {b} THEN "ended" ELSE life[c]
  BY LifeIs DEF Starting, Ending
<1>2. life' = [c \in Asid |-> IF c \in {b} THEN "ended" ELSE life[c]]
  BY <1>1 DEF life
<1>3. \A k \in Key : memory'[k] = IF k[1] \in {b} \/ k \in L THEN Lost ELSE memory[k]
  <2> SUFFICES ASSUME NEW k \in Key
               PROVE  memory'[k] = IF k[1] \in {b} \/ k \in L THEN Lost ELSE memory[k]
    OBVIOUS
  <2>1. k[1] \in Asid
    BY DEF Key
  <2>2. memory[k] = (IF Promised(k) THEN Content(k) ELSE Lost)
    BY DEF memory, Promised, Content
  <2>3. memory'[k] = (IF Promised(k)' THEN Content(k)' ELSE Lost)
    BY DEF memory, Promised, Content
  <2>4. Promised(k)' <=> Promised(k) /\ k[1] \notin {b} /\ k \notin L
    BY <1>1, <2>1 DEF Promised
  <2> QED BY <2>2, <2>3, <2>4
<1>4. memory' = [k \in UserMem!Key |-> IF k[1] \in {b} \/ k \in L THEN Lost ELSE memory[k]]
  BY <1>3 DEF memory, UserMem!Key, Key
<1> QED BY <1>2, <1>4 DEF UserMem!End

\* Nothing moves but the process.
LEMMA ContentKept ==
  ASSUME UNCHANGED <<pte, ram, flash>>, NEW k, BeingSaved(k)' = BeingSaved(k)
  PROVE  Content(k)' = Content(k)
BY DEF Content

\* The pages of a process that has not ended, and what a frame may hold.
LEMMA ValidPages ==
  ASSUME Shape, Inv, NEW k \in Key, Promised(k), pte[k] # Invalid
  PROVE  Running(k[1]) /\ swap_pool_table[pte[k]] = [asid |-> k[1], page |-> k[2]] /\ KeyOf(pte[k]) = k
<1>1. k[1] \in Asid /\ k[2] \in Page /\ k = <<k[1], k[2]>>
  BY DEF Key
<1>2. pc[k[1]] \notin Starting
  BY <1>1 DEF Inv, FrameInv
<1>3. Running(k[1])
  BY <1>1, <1>2 DEF Promised, life, Running, Shape, ControlType
<1>4. swap_pool_table[pte[k]] = [asid |-> k[1], page |-> k[2]]
  BY <1>3 DEF Inv, ValidPageOwnsFrame, Running
<1> QED BY <1>1, <1>3, <1>4 DEF KeyOf

LEMMA Initially == Init => UserMem!Init
<1> SUFFICES ASSUME Init PROVE UserMem!Init
  OBVIOUS
<1>1. life = [a \in Asid |-> "new"]
  BY DEF Init, life, Starting, Ending
<1>2. \A k \in Key : life[k[1]] = "new" /\ BeingSaved(k) = {} /\ pte[k] = Invalid /\ flash[k] = Image
  BY <1>1 DEF Init, BeingSaved, Key
<1>3. \A k \in Key : memory[k] = Image
  BY <1>2 DEF memory, Init
<1> QED BY <1>1, <1>3 DEF memory, UserMem!Init, UserMem!Key, Key

\* A step of Vm is a step of UserMemory, or none.
LEMMA StepMaps ==
  ASSUME Shape, Inv, NEW a \in Asid, Step(a), ~HeaderError(a)
  PROVE  \/ UserMem!Next
         \/ UNCHANGED <<memory, life>>
<1> DEFINE Goal == UserMem!Next \/ UNCHANGED <<memory, life>>
<1>0. /\ nucleus = "runs" /\ UNCHANGED nucleus
      /\ pc \in [Asid -> Starting \cup {"user"} \cup InFault \cup Ending]
      /\ dev \in [Asid -> Operation]
      /\ missing \in [Asid -> Page] /\ new_frame \in [Asid -> Frame]
      /\ swap_pool_table \in [Frame -> [asid : Asid \cup {NOPROC}, page : Page]]
      /\ pte \in [Key -> Frame \cup {Invalid}]
      /\ ram \in [Frame -> Value] /\ flash \in [Key -> Value]
      /\ lost \subseteq Key
      /\ MutexInv /\ FrameInv /\ ValidPageOwnsFrame /\ DeviceInv /\ PageInv
  BY WhoChanges DEF Shape, ControlType, TableType, PagingOK, StoreType, Inv
<1>1. ASSUME NEW b \in Asid, Holder(b)
      PROVE  (\A c \in Asid \ {b} : ~Saving(c)) /\ SavedBy(b)
  <2>1. \A c \in Asid \ {b} : ~Saving(c)
    BY <1>0, <1>1, OthersWait DEF Saving, InFault
  <2> QED BY <1>0, <2>1, OneIsSaved
<1>2. ASSUME NEW b \in Asid, Holder(b), \A c \in Asid \ {b} : pc'[c] = pc[c],
             UNCHANGED new_frame
      PROVE  SavedBy(b)'
  <2>1. (\A c \in Asid \ {b} : ~Saving(c))'
    BY <1>1, <1>2 DEF Saving
  <2>2. new_frame'[b] \in Frame
    BY <1>0, <1>2
  <2> QED BY <2>1, <2>2 DEF SavedBy, Saving, BeingSaved
<1>3. CASE Evict(a)
  <2> DEFINE k0 == KeyOf(new_frame[a])
  <2>1. /\ pc[a] = "evict" /\ Holder(a) /\ pc'[a] = "store"
        /\ \A c \in Asid \ {a} : pc'[c] = pc[c]
        /\ pte' = [pte EXCEPT ![k0] = Invalid]
        /\ UNCHANGED <<swap_pool_table, new_frame, missing, ram, flash, lost>>
    BY <1>0, <1>3 DEF Evict, Goto, Holder, InFault, handlerVars, storeVars
  <2>2. /\ k0 \in Key /\ pte'[k0] = Invalid /\ \A x \in Key \ {k0} : pte'[x] = pte[x]
        /\ k0[1] \in Asid /\ k0[1] = swap_pool_table[new_frame[a]].asid
    BY <1>0, <2>1 DEF FrameInv, KeyOf, IsFree, Key
  <2>3. SavedBy(a) /\ SavedBy(a)' /\ ~Saving(a) /\ Saving(a)' /\ k0' = k0
    BY <1>1, <1>2, <2>1 DEF Saving, KeyOf
  <2>4. life' = life
    BY <1>0, <2>1 DEF life, Starting, Ending
  <2>5. \A k \in Key \ {k0} : Content(k)' = Content(k)
    BY <2>1, <2>2, <2>3 DEF SavedBy, Content
  <2>6. Content(k0)' = ram[new_frame[a]]
    BY <2>1, <2>2, <2>3 DEF SavedBy, Content
  <2>7. ASSUME Promised(k0) PROVE Content(k0) = ram[new_frame[a]]
    <3>1. pc[k0[1]] \notin Starting
      BY <1>0, <2>2 DEF FrameInv
    <3>2. Running(k0[1])
      BY <1>0, <2>2, <2>7, <3>1, LifeIs DEF Promised, Running
    <3>3. \A c \in Asid : pc[c] \notin Taking \cup {"map"}
      BY <1>0, <2>1, OthersWait DEF Taking, InFault
    <3>4. ~IsFree(new_frame[a]) /\ new_frame[a] \in Frame
      BY <1>0, <2>1 DEF FrameInv
    <3>5. pte[k0] = new_frame[a]
      BY <1>0, <2>7, <3>2, <3>3, <3>4 DEF PageInv, Promised
    <3> QED BY <3>4, <3>5, FrameFacts DEF Content
  <2>8. \A k \in Key : Promised(k)' <=> Promised(k)
    BY <2>1, <2>4 DEF Promised
  <2> HIDE DEF k0
  <2> QED BY <2>3, <2>4, <2>5, <2>6, <2>7, <2>8, SameMemory
<1>4. CASE Map(a)
  <2> DEFINE k0 == <<a, missing[a]>>
  <2>1. /\ pc[a] = "map" /\ Holder(a) /\ pc'[a] = "disown"
        /\ \A c \in Asid \ {a} : pc'[c] = pc[c]
        /\ pte' = [pte EXCEPT ![k0] = new_frame[a]]
        /\ UNCHANGED <<swap_pool_table, new_frame, missing, ram, flash, lost>>
    BY <1>0, <1>4 DEF Map, Goto, Holder, InFault, handlerVars, storeVars
  <2>2. /\ k0 \in Key /\ pte'[k0] = new_frame[a] /\ \A x \in Key \ {k0} : pte'[x] = pte[x]
        /\ pte[k0] = Invalid /\ new_frame[a] # Invalid
        /\ ram[new_frame[a]] = flash[k0]
    <3>1. k0 \in Key
      BY <1>0 DEF Key
    <3>2. pte[k0] = Invalid /\ ram[new_frame[a]] = flash[k0]
      BY <1>0, <2>1 DEF FrameInv, PageInv, InFault
    <3> HIDE DEF k0
    <3> QED BY <1>0, <2>1, <3>1, <3>2, FrameFacts
  <2>3. SavedBy(a) /\ SavedBy(a)' /\ ~Saving(a) /\ ~Saving(a)'
    BY <1>1, <1>2, <2>1 DEF Saving
  <2>4. life' = life
    BY <1>0, <2>1 DEF life, Starting, Ending, InFault
  <2> HIDE DEF k0
  <2>5. \A k \in Key : Content(k)' = Content(k)
    BY <2>1, <2>2, <2>3 DEF SavedBy, Content
  <2>6. \A k \in Key : Promised(k)' <=> Promised(k)
    BY <2>1, <2>4 DEF Promised
  <2> QED BY <2>4, <2>5, <2>6, SameMemory
<1>5. CASE Enter(a) \/ FreeFrames(a)
  <2>1. /\ pc[a] \in {"enter", "free"} /\ Holder(a) /\ pc'[a] \in {"map", "freedisown"}
        /\ (pc[a] = "enter" <=> pc'[a] = "map")
        /\ \A c \in Asid \ {a} : pc'[c] = pc[c]
        /\ UNCHANGED <<pte, new_frame, missing, ram, flash, lost>>
    BY <1>0, <1>5 DEF Enter, FreeFrames, Goto, Holder, InFault, pagingVars, storeVars
  <2>2. SavedBy(a) /\ SavedBy(a)' /\ ~Saving(a) /\ ~Saving(a)'
    BY <1>1, <1>2, <2>1 DEF Saving
  <2>3. life' = life
    BY <1>0, <2>1 DEF life, Starting, Ending
  <2>4. \A k \in Key : Content(k)' = Content(k)
    BY <2>1, <2>2, ContentKept DEF SavedBy
  <2>5. \A k \in Key : Promised(k)' <=> Promised(k)
    BY <2>1, <2>3 DEF Promised
  <2> QED BY <2>3, <2>4, <2>5, SameMemory
<1>6. CASE FlashStep(a)
  <2>1. PICK b \in Asid, k0 \in Key :
          /\ b = dev[a].by /\ k0 = <<a, dev[a].page>> /\ dev[a].frame = new_frame[b]
          /\ \/ pc[b] = "storing" /\ dev[a].op = "write" /\ k0 = KeyOf(new_frame[b])
             \/ pc[b] = "loading" /\ dev[a].op = "read" /\ k0 = <<b, missing[b]>>
    <3> DEFINE b == dev[a].by
               k0 == <<a, dev[a].page>>
    <3>1. b \in Asid /\ pc[b] \in {"storing", "loading"} /\ dev[a].op \in {"read", "write"}
      BY <1>0, <1>6
      DEF FlashStep, StoreDone, LoadDone, StoreError, LoadError, Served, Operation
    <3>2. Serves(a)
      BY <1>0, <3>1 DEF DeviceInv, IdleDevice
    <3>3. k0 \in Key
      BY <1>0 DEF Operation, Key
    <3>4. b # NOPROC
      BY <3>1, FrameFacts
    <3>5. /\ dev[a].frame = new_frame[b]
          /\ \/ pc[b] = "storing" /\ dev[a].op = "write" /\ k0 = KeyOf(new_frame[b])
             \/ pc[b] = "loading" /\ dev[a].op = "read" /\ k0 = <<b, missing[b]>>
      <4> HIDE DEF k0
      <4> QED BY <3>1, <3>2, <3>3, <3>4 DEF Serves, k0
    <3> QED BY <3>1, <3>3, <3>5
  <2>2. /\ UNCHANGED <<pte, swap_pool_table, new_frame, missing>>
        /\ \A c \in Asid \ {b} : pc'[c] = pc[c]
    BY <1>0, <1>6, <2>1
    DEF FlashStep, StoreDone, LoadDone, StoreError, LoadError, handlerVars, pagingVars
  <2>3. Holder(b)
    BY <1>0, <2>1, ServedIsHolder
  <2>4. SavedBy(b) /\ SavedBy(b)' /\ KeyOf(new_frame[b])' = KeyOf(new_frame[b])
    BY <1>1, <1>2, <2>2, <2>3 DEF KeyOf
  <2>5. life[b] = "running" /\ pte[k0] = Invalid /\ new_frame[b] \in Frame
    <3>1. life[b] = "running"
      BY <1>0, <2>1, LifeIs DEF Starting, Ending
    <3>2. CASE pc[b] = "storing"
      BY <1>0, <2>1, <3>1, <3>2 DEF FrameInv
    <3>3. CASE pc[b] = "loading"
      BY <1>0, <2>1, <3>1, <3>3 DEF FrameInv, InFault
    <3> QED BY <2>1, <3>2, <3>3
  \* The frame that is written holds no page.
  <2>6. \A k \in Key : Promised(k) => pte[k] # new_frame[b]
    <3>1. pc[b] \in Taking
      BY <2>1 DEF Taking
    <3>2. ASSUME NEW k \in Key, Promised(k), pte[k] = new_frame[b]
          PROVE  FALSE
      <4>1. Running(k[1])
        BY <2>5, <3>2, ValidPages, FrameFacts
      <4> QED BY <1>0, <3>1, <3>2, <4>1 DEF FrameInv
    <3> QED BY <3>2
  <2>7. \A k \in Key : Promised(k)' => Promised(k)
    <3>1. lost \subseteq lost'
      BY <1>6 DEF FlashStep, StoreDone, LoadDone, StoreError, LoadError
    <3>2. \A c \in Asid : life[c] = "ended" => life'[c] = "ended"
      BY <1>0, <2>1, <2>2, LifeIs DEF Starting, Ending, InFault
    <3> QED BY <3>1, <3>2 DEF Promised, Key
  <2>8. CASE StoreDone(a)
    <3>1. /\ pc[b] = "storing" /\ pc'[b] = "load" /\ UNCHANGED <<ram, lost>>
          /\ flash' = [flash EXCEPT ![k0] = ram[new_frame[b]]]
          /\ k0 = KeyOf(new_frame[b])
      BY <1>0, <2>1, <2>8 DEF StoreDone, Served
    <3>2. life' = life
      BY <1>0, <2>2, <3>1 DEF life, Starting, Ending
    <3>3. flash'[k0] = ram[new_frame[b]] /\ \A k \in Key \ {k0} : flash'[k] = flash[k]
      BY <1>0, <3>1
    <3>4. Saving(b) /\ ~Saving(b)'
      BY <3>1 DEF Saving
    <3>5. \A k \in Key : Content(k)' = Content(k)
      BY <2>2, <2>4, <2>5, <3>1, <3>3, <3>4 DEF Content, SavedBy
    <3>6. \A k \in Key : Promised(k)' <=> Promised(k)
      BY <3>1, <3>2 DEF Promised
    <3> QED BY <3>2, <3>5, <3>6, SameMemory
  <2>9. CASE LoadDone(a) \/ LoadError(a)
    <3>1. /\ pc[b] = "loading" /\ flash' = flash
          /\ \A f \in Frame \ {new_frame[b]} : ram'[f] = ram[f]
          /\ pc'[b] \in {"enter", "trap"}
      BY <1>0, <2>1, <2>9 DEF LoadDone, LoadError, Served
    <3>2. ~Saving(b) /\ ~Saving(b)'
      BY <3>1 DEF Saving
    <3>3. \A k \in Key : Promised(k) => Content(k)' = Content(k)
      BY <1>0, <2>2, <2>4, <2>6, <3>1, <3>2 DEF Content, SavedBy
    <3>4. CASE LoadDone(a)
      <4>1. pc'[b] = "enter" /\ lost' = lost
        BY <1>0, <2>1, <3>4 DEF LoadDone
      <4>2. life' = life
        BY <1>0, <2>2, <3>1, <4>1 DEF life, Starting, Ending
      <4>3. \A k \in Key : Promised(k)' <=> Promised(k)
        BY <4>1, <4>2 DEF Promised
      <4> QED BY <3>3, <4>2, <4>3, SameMemory
    <3>5. CASE LoadError(a)
      <4>1. /\ pc'[b] = "trap"
            /\ lost' = IF IsFree(new_frame[b]) THEN lost ELSE lost \cup {KeyOf(new_frame[b])}
        BY <1>0, <2>1, <3>5 DEF LoadError
      <4>2. pc'[b] \in Ending
        BY <4>1 DEF Ending
      <4>3. \A k \in Key : Promised(k)' => Content(k)' = Content(k)
        BY <2>7, <3>3
      <4>4. CASE IsFree(new_frame[b])
        <5>1. UserMem!End({b}, {})
          BY <1>0, <2>2, <4>1, <4>2, <4>3, <4>4, EndsView
        <5> QED BY <2>5, <5>1 DEF UserMem!Next, UserMem!Terminate
      <4>5. CASE ~IsFree(new_frame[b])
        <5> DEFINE k == KeyOf(new_frame[b])
        <5>1. k \in Key
          BY <1>0, <2>5, <4>5 DEF KeyOf, IsFree, Key
        <5> HIDE DEF k
        <5>2. UserMem!End({b}, {k})
          BY <1>0, <2>2, <4>1, <4>2, <4>3, <4>5, <5>1, EndsView DEF k
        <5> QED BY <2>5, <5>1, <5>2 DEF UserMem!Next, UserMem!StoreError, UserMem!Key, Key
      <4> QED BY <4>4, <4>5
    <3> QED BY <2>9, <3>4, <3>5
  <2>10. CASE StoreError(a)
    <3>1. /\ pc[b] = "storing" /\ pc'[b] = "trap" /\ lost' = lost \cup {k0} /\ ram' = ram
          /\ \A k \in Key \ {k0} : flash'[k] = flash[k]
          /\ k0 = KeyOf(new_frame[b])
      BY <1>0, <2>1, <2>10 DEF StoreError, Served
    <3>2. Saving(b) /\ ~Saving(b)' /\ pc'[b] \in Ending
      BY <3>1 DEF Saving, Ending
    <3>3. \A k \in Key : Promised(k)' => k # k0
      BY <3>1 DEF Promised
    <3>4. \A k \in Key : Promised(k)' => Content(k)' = Content(k)
      BY <2>2, <2>4, <3>1, <3>2, <3>3 DEF Content, SavedBy
    <3>5. UserMem!End({b}, {k0})
      BY <1>0, <2>2, <3>1, <3>2, <3>4, EndsView
    <3> QED BY <2>5, <3>5 DEF UserMem!Next, UserMem!StoreError, UserMem!Key, Key
  <2> QED BY <1>6, <2>8, <2>9, <2>10 DEF FlashStep
\* The steps in which nothing happens to the memory.
<1>7. CASE \/ StartProcess(a) \/ HeaderRead(a)
           \/ \E g \in Page : Refill(a, g) \/ PageFault(a, g) \/ WriteToText(a, g)
           \/ Trap(a) \/ Terminate(a) \/ LockStep(a) \/ DisownStep(a) \/ UnlockStep(a)
           \/ ChooseFrame(a) \/ Store(a) \/ Load(a) \/ NothingToRelease(a)
  <2>1. /\ \A c \in Asid \ {a} : pc'[c] = pc[c] /\ new_frame'[c] = new_frame[c]
        /\ UNCHANGED <<pte, swap_pool_table, ram, flash, lost>>
        /\ \/ ~Saving(a) /\ ~Saving(a)'
           \/ Saving(a) /\ Saving(a)' /\ new_frame' = new_frame
    BY <1>0, <1>7
    DEF StartProcess, HeaderRead, Refill, PageFault, WriteToText, Trap, Terminate, LockStep, Lock,
        DisownStep, Disown, Release, UnlockStep, Unlock, ChooseFrame, Store, Load,
        NothingToRelease, Goto, handlerVars, pagingVars, storeVars, Saving
  <2>2. \A k \in Key : BeingSaved(k)' = BeingSaved(k)
    <3>1. ASSUME NEW f \in Frame
          PROVE  /\ KeyOf(f)' = KeyOf(f)
                 /\ (\E c \in Asid : new_frame'[c] = f /\ pc'[c] \in {"store", "storing"})
                      <=> \E c \in Asid : new_frame[c] = f /\ pc[c] \in {"store", "storing"}
      BY <2>1 DEF KeyOf, Saving
    <3> QED BY <3>1 DEF BeingSaved
  <2>3. \A k \in Key : Content(k)' = Content(k)
    BY <2>1, <2>2, ContentKept
  <2>4. CASE HeaderRead(a)
    <3>1. /\ pc[a] = "header" /\ pc'[a] = "user"
      BY <1>0, <2>4 DEF HeaderRead, Goto
    <3>2. life[a] = "new" /\ \A c \in Asid : life'[c] = IF c = a THEN "running" ELSE life[c]
      BY <1>0, <2>1, <3>1, LifeIs DEF Starting, Ending
    <3>3. life' = [life EXCEPT ![a] = "running"]
      BY <1>0, <3>2 DEF life
    <3>4. \A k \in Key : Promised(k)' <=> Promised(k)
      BY <2>1, <3>2 DEF Promised, Key
    <3>5. \A k \in Key : memory'[k] = memory[k]
      BY <2>3, <3>4 DEF memory, Promised, Content
    <3>6. memory' = memory
      BY <3>5 DEF memory
    <3> QED BY <3>2, <3>3, <3>6 DEF UserMem!Next, UserMem!Start
  <2>5. CASE Trap(a) \/ Terminate(a) \/ \E g \in Page : WriteToText(a, g)
    <3>1. pc[a] = "user" /\ pc'[a] \in Ending
      BY <1>0, <2>5 DEF Trap, Terminate, WriteToText, Goto, Ending
    <3>2. life[a] = "running"
      BY <1>0, <3>1, LifeIs DEF Starting, Ending
    <3>3. UserMem!End({a}, {})
      BY <1>0, <2>1, <2>3, <3>1, EndsView
    <3> QED BY <3>2, <3>3 DEF UserMem!Next, UserMem!Terminate
  <2>6. CASE ~HeaderRead(a) /\ ~Trap(a) /\ ~Terminate(a) /\ ~\E g \in Page : WriteToText(a, g)
    <3>1. \/ pc[a] \in Starting /\ pc'[a] \in Starting
          \/ pc[a] \in Ending /\ pc'[a] \in Ending
          \/ pc[a] \notin Starting \cup Ending /\ pc'[a] \notin Starting \cup Ending
      BY <1>0, <1>7, <2>6, ZenonT(40)
      DEF StartProcess, Refill, PageFault, LockStep, Lock, DisownStep, Disown, Release,
          UnlockStep, Unlock, ChooseFrame, Store, Load, NothingToRelease, Goto, Starting, Ending,
          InFault
    <3>2. \A c \in Asid : life'[c] = life[c]
      BY <1>0, <2>1, <3>1, LifeIs DEF Starting, Ending
    <3>3. life' = life
      BY <1>0, <3>2 DEF life
    <3>4. \A k \in Key : Promised(k)' <=> Promised(k)
      BY <2>1, <3>3 DEF Promised
    <3> QED BY <2>3, <3>3, <3>4, SameMemory
  <2> QED BY <2>4, <2>5, <2>6
<1>8. ASSUME NEW g \in Page, NEW v \in Value, Write(a, g, v)
      PROVE  Goal
  <2> DEFINE k0 == <<a, g>>
  <2>1. /\ pc[a] = "user" /\ k0 \in Key /\ pte[k0] \in Frame /\ g \notin TextPage
        /\ ram' = [ram EXCEPT ![pte[k0]] = v]
        /\ UNCHANGED <<pc, missing, new_frame, swap_pool_table, pte, flash, lost>>
    BY <1>8, FrameFacts DEF Write, handlerVars, pagingVars, Shape, PagingOK, TLBCoherent, Key
  <2>2. life' = life /\ life[a] = "running"
    BY <1>0, <2>1, LifeIs DEF life, Starting, Ending
  <2>3. \A k \in Key : (Promised(k)' <=> Promised(k)) /\ BeingSaved(k)' = BeingSaved(k)
    BY <2>1, <2>2 DEF Promised, BeingSaved, KeyOf
  <2>4. ASSUME NEW k \in Key, k # k0, Promised(k)
        PROVE  Content(k)' = Content(k)
    <3>1. CASE pte[k] # Invalid
      <4>1. KeyOf(pte[k]) = k
        BY <2>4, <3>1, ValidPages
      <4>2. swap_pool_table[pte[k0]] = [asid |-> a, page |-> g]
        BY <1>0, <2>1, FrameFacts DEF ValidPageOwnsFrame
      <4>3. pte[k] # pte[k0]
        BY <2>4, <4>1, <4>2 DEF KeyOf
      <4> QED BY <1>0, <2>1, <3>1, <4>3 DEF Content
    <3>2. CASE pte[k] = Invalid
      <4>1. CASE BeingSaved(k) = {}
        BY <2>1, <2>3, <3>2, <4>1 DEF Content
      <4>2. CASE BeingSaved(k) # {}
        <5> DEFINE f == CHOOSE x \in BeingSaved(k) : TRUE
        <5>1. f \in BeingSaved(k)
          BY <4>2
        <5>2. PICK c \in Asid : new_frame[c] = f /\ pc[c] \in Taking
          BY <5>1 DEF BeingSaved, Taking
        <5>3. pte[k0] # f /\ f \in Frame
          <6>1. Running(k0[1]) /\ f \in Frame
            BY <2>1, <5>1 DEF Running, BeingSaved
          <6> HIDE DEF f, k0
          <6> QED BY <1>0, <2>1, <5>2, <6>1 DEF FrameInv
        <5>4. ram'[f] = ram[f]
          BY <1>0, <2>1, <5>3
        <5> QED BY <2>1, <2>3, <3>2, <4>2, <5>4 DEF Content
      <4> QED BY <4>1, <4>2
    <3> QED BY <3>1, <3>2
  <2>5. pte[k0] # Invalid /\ Content(k0)' = v /\ Content(k0) \in Value
    <3>1. pte[k0] # Invalid
      BY <2>1, FrameFacts
    <3>2. ram'[pte[k0]] = v /\ ram[pte[k0]] \in Value
      BY <1>0, <2>1
    <3> HIDE DEF k0
    <3> QED BY <2>1, <3>1, <3>2 DEF Content
  <2>6. CASE Promised(k0)
    <3>1. memory[k0] # Lost
      BY <2>1, <2>5, <2>6, VmAssumption DEF memory, Promised, Content
    <3>2. \A k \in Key : memory'[k] = IF k = k0 THEN v ELSE memory[k]
      <4>1. \A k \in Key : memory[k] = IF Promised(k) THEN Content(k) ELSE Lost
        BY DEF memory, Promised, Content
      <4>2. \A k \in Key : memory'[k] = IF Promised(k)' THEN Content(k)' ELSE Lost
        BY DEF memory, Promised, Content
      <4> HIDE DEF k0
      <4> QED BY <2>3, <2>4, <2>5, <2>6, <4>1, <4>2
    <3>3. memory' = [memory EXCEPT ![k0] = v]
      <4>1. /\ memory = [k \in Key |-> memory[k]]
            /\ memory' = [k \in Key |-> memory'[k]]
        BY DEF memory
      <4> HIDE DEF k0
      <4> QED BY <2>1, <3>2, <4>1
    <3> QED BY <2>1, <2>2, <3>1, <3>3 DEF UserMem!Next, UserMem!Write
  <2>7. CASE ~Promised(k0)
    BY <2>2, <2>3, <2>4, <2>7, SameMemory
  <2> QED BY <2>6, <2>7
<1> QED
  BY <1>3, <1>4, <1>5, <1>6, <1>7, <1>8
  DEF Step, StartStep, UserStep, FaultStep, EndStep, LockStep, UnlockStep, DisownStep

\* An error while test() starts a process ends them all.
LEMMA HeaderErrorStep ==
  ASSUME Shape, NEW a \in Asid, HeaderError(a)
  PROVE  UserMem!StartError
<1>1. \A c \in Asid : life'[c] = "ended"
  BY DEF HeaderError, life
<1>2. life' = [c \in Asid |-> IF c \in Asid THEN "ended" ELSE life[c]]
  BY <1>1 DEF life
<1>3. \A k \in Key : k[1] \in Asid
  BY DEF Key
<1>4. \A k \in Key : memory'[k] = Lost
  BY <1>1, <1>3 DEF memory
<1>5. memory' = [k \in UserMem!Key |-> IF k[1] \in Asid \/ k \in {} THEN Lost ELSE memory[k]]
  BY <1>3, <1>4 DEF memory, UserMem!Key, Key
<1> QED BY <1>2, <1>5 DEF UserMem!StartError, UserMem!End

\* What a process finds in its memory is what it stored there.
THEOREM MemoryIsTheirs == Spec => ImplementsUserMemory
<1>1. ASSUME IInv, [Next]_vars
      PROVE  [UserMem!Next]_<<memory, life>>
  <2>1. Shape /\ Inv
    BY <1>1, ShapeIsTypeOK DEF IInv
  <2>2. CASE UNCHANGED vars
    <3> USE <2>2 DEF vars, handlerVars, pagingVars, storeVars
    <3>1. life' = life
      BY DEF life
    <3>2. \A k \in Key : (Promised(k)' <=> Promised(k)) /\ Content(k)' = Content(k)
      BY <3>1 DEF Promised, Content, BeingSaved, KeyOf
    <3> QED BY <3>1, <3>2, SameMemory
  <2>3. ASSUME NEW a \in Asid, Step(a)
        PROVE  [UserMem!Next]_<<memory, life>>
    <3>1. CASE HeaderError(a)
      BY <2>1, <3>1, HeaderErrorStep DEF UserMem!Next
    <3>2. CASE ~HeaderError(a)
      BY <2>1, <2>3, <3>2, StepMaps
    <3> QED BY <3>1, <3>2
  <2> QED BY <1>1, <2>2, <2>3, NextIsStep
<1> QED BY <1>1, Initially, IInvHolds, PTL DEF Spec, ImplementsUserMemory, UserMem!Spec

-----------------------------------------------------------------------------
(* Vm implements Support                                                   *)

\* Where Support has a process that is at p.
PointOf(p) ==
  CASE p = "header" -> "new"
    [] p = "lock"   -> "faultlock"
    [] p = "choose" -> "faultown"
    [] p \in InFault \ {"lock", "choose", "disown", "unlock"} -> "fault"
    [] p = "disown" -> "faultdisown"
    [] p = "unlock" -> "faultunlock"
    [] p = "dead"   -> "signal"
    [] OTHER -> p

LEMMA PointIs ==
  /\ point = [a \in Asid |-> PointOf(pc[a])]
  /\ point' = [a \in Asid |-> PointOf(pc'[a])]
BY DEF point, PointOf

LEMMA LevelNames ==
  /\ Level!Mutex = Mutex /\ Level!SwapPool = PoolMutex /\ PoolMutex \in Mutex
  /\ Level!Test = 0 /\ 0 \notin Asid /\ Level!NOPROC = NOPROC
<1>1. Level!SwapPool = PoolMutex
  BY DEF Level!SwapPool, PoolMutex
<1>2. Level!Mutex = Mutex
  <2>1. {Level!Printer(a) : a \in Asid} \cup {Level!Terminal(a) : a \in Asid}
          = {"printer", "terminal"} \X Asid
    BY DEF Level!Printer, Level!Terminal
  <2> QED BY <1>1, <2>1 DEF Level!Mutex, Mutex
<1>3. PoolMutex \in Mutex
  BY DEF Mutex
<1>4. Level!Test = 0 /\ 0 \notin Asid /\ Level!NOPROC = NOPROC
  BY VmAssumption DEF Level!Test, Level!NOPROC, NOPROC
<1> QED BY <1>1, <1>2, <1>3, <1>4

\* The operators on semaphores are those of Semaphores.
LEMMA LevelOperators ==
  ASSUME NEW s, NEW p
  PROVE  /\ Level!SemP(s, p) = SemP(s, p)
         /\ Level!SemV(s, p) = SemV(s, p)
         /\ Level!Owned(s, p) = Owned(s, p)
         /\ Level!Disowned(s) = Disowned(s)
         /\ Level!BlockedOn(s, p) <=> BlockedOn(s, p)
         /\ Level!Semaphore(s) = Semaphore(s)
BY DEF Level!SemP, SemP, Level!SemV, SemV, Level!Owned, Owned, Level!Disowned, Disowned,
       Level!BlockedOn, BlockedOn, Level!Semaphore, Semaphore, Level!InsertProcQ, InsertProcQ,
       Level!Range, Range, Level!NOPROC, NOPROC

LEMMA Mutexes ==
  /\ mutexes[PoolMutex] = swap_pool_sem
  /\ \A m \in Mutex \ {PoolMutex} : mutexes[m] = Semaphore(1) /\ holding[m] = {}
  /\ holding[PoolMutex] = {a \in Asid : Holder(a)}
BY LevelNames DEF mutexes, holding

LEMMA MutexesChange ==
  /\ mutexes' = [mutexes EXCEPT ![PoolMutex] = swap_pool_sem']
  /\ holding' = [holding EXCEPT ![PoolMutex] = {a \in Asid : Holder(a)'}]
BY LevelNames DEF mutexes, holding

\* A process that can take a step in Vm can take one in Support.
LEMMA CanGo ==
  ASSUME Shape, nucleus = "runs"
  PROVE  /\ Level!Runs(0)
         /\ \A a \in Asid : ~BlockedOn(swap_pool_sem, a) => Level!Runs(a)
<1>0. ~BlockedOn(swap_pool_sem, 0)
  BY LevelNames DEF Shape, SemaphoreType, BlockedOn, Range
<1>1. \A p : ~Level!BlockedOn(Semaphore(0), p) /\ ~Level!BlockedOn(Semaphore(1), p)
  BY LevelOperators DEF BlockedOn, Semaphore, Range
<1>2. \A p : (\A m \in Level!Mutex : ~Level!BlockedOn(mutexes[m], p)) <=> ~BlockedOn(swap_pool_sem, p)
  BY <1>1, LevelNames, LevelOperators, Mutexes
<1> QED BY <1>0, <1>1, <1>2, LevelNames DEF Level!Runs

LEMMA LevelGoto ==
  ASSUME Shape, nucleus = "runs", NEW a \in Asid, ~BlockedOn(swap_pool_sem, a),
         NEW to, pc' = [pc EXCEPT ![a] = to]
  PROVE  Level!Goto(a, PointOf(pc[a]), PointOf(to))
<1>1. pc'[a] = to /\ \A c \in Asid \ {a} : pc'[c] = pc[c]
  BY DEF Shape, ControlType
<1>2. point[a] = PointOf(pc[a])
  BY PointIs
<1>3. point' = [point EXCEPT ![a] = PointOf(to)]
  BY <1>1, PointIs
<1> QED BY <1>2, <1>3, CanGo DEF Level!Goto

LEMMA TestStays ==
  ASSUME \A c \in Asid : pc'[c] = pc[c] \/ {pc[c], pc'[c]} \cap Starting = {}
  PROVE  UNCHANGED testPoint
BY DEF testPoint, Starting

LEMMA SemsStay ==
  ASSUME swap_pool_sem' = swap_pool_sem, \A c \in Asid : Holder(c)' <=> Holder(c)
  PROVE  Level!KeepSems
<1>1. mutexes' = mutexes
  BY DEF mutexes
<1>2. holding' = holding
  BY DEF holding
<1> QED BY <1>1, <1>2 DEF Level!KeepSems

\* Steps that are one step of Support, and touch no semaphore.
LEMMA QuietStep ==
  ASSUME Shape, Inv, nucleus = "runs", NEW b \in Asid, ~BlockedOn(swap_pool_sem, b),
         NEW to, pc' = [pc EXCEPT ![b] = to],
         UNCHANGED swap_pool_sem,
         \/ pc[b] \in {"new", "header"} /\ to \in {"header", "user"}
         \/ pc[b] = "user" /\ to \in {"lock", "trap", "freelock"}
         \/ /\ pc[b] \in {"evict", "store", "storing", "load", "loading", "enter", "map"}
            /\ to \in (InFault \ {"lock", "choose"}) \cup {"trap"}
         \/ pc[b] = "trap" /\ swap_pool_sem.user_asid # b /\ to = "freelock"
  PROVE  Level!Goto(b, PointOf(pc[b]), PointOf(to)) /\ Level!KeepSems
<1>1. pc'[b] = to /\ \A c \in Asid \ {b} : pc'[c] = pc[c]
  BY DEF Shape, ControlType
<1>2. \A c \in Asid \ {b} : Holder(c)' <=> Holder(c)
  BY <1>1 DEF Holder, BlockedOn
<1>3. Holder(b)' <=> Holder(b)
  <2>1. CASE pc[b] \in {"new", "header", "user", "trap"}
    <3>1. pc[b] # "trap" => swap_pool_sem.user_asid # b
      BY <2>1 DEF Inv, MutexInv, InFault
    <3> QED BY <1>1, <2>1, <3>1 DEF Holder, InFault
  <2>2. CASE pc[b] \in {"evict", "store", "storing", "load", "loading", "enter", "map"}
    <3>1. swap_pool_sem.user_asid = b
      BY <2>2 DEF Inv, OwnerInv, InFault
    <3> QED BY <1>1, <2>2, <3>1 DEF Holder, InFault
  <2> QED BY <2>1, <2>2
<1>4. Level!KeepSems
  BY <1>2, <1>3, SemsStay
<1> QED BY <1>4, LevelGoto

\* The steps on the mutex of the swap pool.
LEMMA LevelLock ==
  ASSUME Shape, Inv, NEW a \in Asid, LockStep(a)
  PROVE  Level!Lock(a, PoolMutex)
<1> DEFINE s == swap_pool_sem
<1>1. /\ s \in SemaphoreType(Asid) /\ s' = SemP(s, a) /\ ~BlockedOn(s, a)
      /\ pc[a] \in {"lock", "freelock"} /\ pc'[a] \in {"choose", "free"}
      /\ \A c \in Asid \ {a} : pc'[c] = pc[c]
  BY DEF LockStep, Lock, Goto, Shape, ControlType
<1>2. /\ s.val \in {0, 1} /\ s'.user_asid = s.user_asid
      /\ Range(s'.queue) = Range(s.queue) \cup (IF s.val = 0 THEN {a} ELSE {})
  <2>1. s.val \in {0, 1} /\ (s.val = 1 => s.queue = <<>>)
    BY <1>1 DEF Inv, MutexInv, SemaphoreType
  <2> QED BY <1>1, <2>1, SemPProperties
<1>3. \A c \in Asid \ {a} : Holder(c)' <=> Holder(c)
  BY <1>1, <1>2 DEF Holder, BlockedOn
<1>4. ~Holder(a) /\ (Holder(a)' <=> s.val = 1)
  BY <1>1, <1>2 DEF Holder, BlockedOn, InFault
<1>5. {c \in Asid : Holder(c)'} =
        IF s.val = 1 THEN {c \in Asid : Holder(c)} \cup {a} ELSE {c \in Asid : Holder(c)}
  BY <1>3, <1>4
<1>6. /\ mutexes' = [mutexes EXCEPT ![PoolMutex] = Level!SemP(mutexes[PoolMutex], a)]
      /\ holding' = [holding EXCEPT ![PoolMutex] =
                       IF mutexes[PoolMutex].val = 1 THEN holding[PoolMutex] \cup {a}
                       ELSE holding[PoolMutex]]
  BY <1>1, <1>5, Mutexes, MutexesChange, LevelOperators
<1> QED BY <1>6 DEF Level!Lock

LEMMA LevelUnlock ==
  ASSUME Shape, Inv, NEW a \in Asid, UnlockStep(a)
  PROVE  Level!Unlock(a, PoolMutex)
<1> DEFINE s == swap_pool_sem
<1>1. /\ s \in SemaphoreType(Asid) /\ s' = SemV(s, a) /\ ~BlockedOn(s, a)
      /\ pc[a] \in {"unlock", "release", "freeunlock"}
      /\ pc'[a] \in {"user", "trap", "dead"}
      /\ \A c \in Asid \ {a} : pc'[c] = pc[c]
  BY DEF UnlockStep, Unlock, Goto, Shape, ControlType
<1>2. Holder(a) /\ s.user_asid # a
  BY <1>1 DEF Holder, Inv, MutexInv, InFault
<1>3. s.val = 0
  BY <1>1, <1>2 DEF Inv, MutexInv, SemaphoreType
<1>4. s'.user_asid = s.user_asid
  BY <1>1, <1>3, SemVProperties
<1>5. ~Holder(a)' /\ {c \in Asid : Holder(c)} = {a}
  BY <1>1, <1>2, <1>4 DEF Inv, MutexInv, Holder, InFault
<1>6. \A c \in Asid \ {a} : Holder(c)' <=> c \in Range(s.queue) /\ c \notin Range(s'.queue)
  <2> SUFFICES ASSUME NEW c \in Asid \ {a}
               PROVE  Holder(c)' <=> c \in Range(s.queue) /\ c \notin Range(s'.queue)
    OBVIOUS
  <2>1. ~Holder(c)
    BY <1>5
  <2>2. c \in Range(s.queue) => pc[c] \in {"choose", "free"}
    BY DEF Inv, MutexInv
  <2> QED BY <1>1, <1>4, <2>1, <2>2 DEF Holder, BlockedOn, InFault
<1>7. {c \in Asid : Holder(c)'} = ({a} \ {a}) \cup IF s.queue = <<>> THEN {} ELSE {Head(s.queue)}
  <2>1. CASE s.queue = <<>>
    BY <1>5, <1>6, <2>1 DEF Range
  <2>2. CASE s.queue # <<>>
    <3> DEFINE head == Head(s.queue)
    <3>1. /\ Range(s.queue) = Range(s'.queue) \cup {head}
          /\ head \notin Range(s'.queue)
      BY <1>1, <1>3, <2>2, SemVProperties DEF Inv, MutexInv
    <3>2. head \in Asid /\ head # a
      <4>1. s.queue \in Seq(Asid) /\ a \notin Range(s.queue)
        BY <1>1 DEF SemaphoreType, BlockedOn
      <4> QED BY <2>2, <3>1, <4>1, TailProperties
    <3> HIDE DEF head
    <3>3. {c \in Asid : Holder(c)'} = {head}
      BY <1>5, <1>6, <3>1, <3>2
    <3> QED BY <2>2, <3>3 DEF head
  <2> QED BY <2>1, <2>2
<1>8. /\ mutexes' = [mutexes EXCEPT ![PoolMutex] = Level!SemV(mutexes[PoolMutex], a)]
      /\ mutexes[PoolMutex] = s /\ mutexes[PoolMutex].val # 1
  <2>1. mutexes[PoolMutex] = s
    BY Mutexes
  <2>2. s' = Level!SemV(s, a)
    BY <1>1, LevelOperators
  <2> HIDE DEF s
  <2> QED BY <1>3, <2>1, <2>2, MutexesChange DEF s
<1>9. holding' = [holding EXCEPT ![PoolMutex] =
                    (holding[PoolMutex] \ {a})
                      \cup IF mutexes[PoolMutex].queue = <<>> THEN {}
                           ELSE {Head(mutexes[PoolMutex].queue)}]
  BY <1>5, <1>7, <1>8, Mutexes, MutexesChange
<1> QED BY <1>8, <1>9 DEF Level!Unlock

\* The holder stores or clears user_asid, and is the holder still.
LEMMA SameHolder ==
  ASSUME Shape, Inv, NEW a \in Asid, Holder(a), Holder(a)',
         \A c \in Asid \ {a} : pc'[c] = pc[c],
         swap_pool_sem'.queue = swap_pool_sem.queue,
         swap_pool_sem'.user_asid \in {a, NOPROC}
  PROVE  holding' = holding
<1>1. \A c \in Asid \ {a} : ~Holder(c)
  BY DEF Inv, MutexInv
<1>2. \A c \in Asid \ {a} : ~Holder(c)'
  BY <1>1, FrameFacts DEF Holder, BlockedOn
<1>3. {c \in Asid : Holder(c)'} = {c \in Asid : Holder(c)}
  BY <1>1, <1>2
<1> QED BY <1>3 DEF holding

LEMMA LevelOwn ==
  ASSUME Shape, Inv, NEW a \in Asid, ChooseFrame(a) \/ FreeFrames(a)
  PROVE  Level!Own(a, PoolMutex)
<1>1. /\ swap_pool_sem' = Owned(swap_pool_sem, a) /\ ~BlockedOn(swap_pool_sem, a)
      /\ pc[a] \in {"choose", "free"} /\ pc'[a] \in {"load", "evict", "freedisown"}
      /\ \A c \in Asid \ {a} : pc'[c] = pc[c]
  BY DEF ChooseFrame, FreeFrames, Goto, Shape, ControlType
<1>2. swap_pool_sem'.user_asid = a /\ swap_pool_sem'.queue = swap_pool_sem.queue
  BY <1>1 DEF Owned, Shape, SemaphoreType
<1>3. holding' = holding
  BY <1>1, <1>2, SameHolder DEF Holder, InFault
<1>4. mutexes' = [mutexes EXCEPT ![PoolMutex] = Level!Owned(mutexes[PoolMutex], a)]
  BY <1>1, Mutexes, MutexesChange, LevelOperators
<1> QED BY <1>3, <1>4 DEF Level!Own

LEMMA LevelDisown ==
  ASSUME Shape, Inv, NEW a \in Asid, DisownStep(a)
  PROVE  Level!Disown(PoolMutex)
<1>1. /\ swap_pool_sem' = Disowned(swap_pool_sem)
      /\ \/ pc[a] \in {"disown", "freedisown"}
         \/ pc[a] = "trap" /\ swap_pool_sem.user_asid = a
      /\ pc'[a] \in {"unlock", "release", "freeunlock"}
      /\ \A c \in Asid \ {a} : pc'[c] = pc[c]
  BY DEF DisownStep, Disown, Release, Goto, Shape, ControlType
<1>2. swap_pool_sem'.user_asid = NOPROC /\ swap_pool_sem'.queue = swap_pool_sem.queue
  BY <1>1 DEF Disowned, Shape, SemaphoreType
<1>3. holding' = holding
  BY <1>1, <1>2, SameHolder DEF Holder, InFault
<1>4. mutexes' = [mutexes EXCEPT ![PoolMutex] = Level!Disowned(mutexes[PoolMutex])]
  BY <1>1, Mutexes, MutexesChange, LevelOperators
<1> QED BY <1>3, <1>4 DEF Level!Disown

\* test() starts the processes: what is ahead of it when it reads a header.
LEMMA HeaderFacts ==
  ASSUME Inv, NEW a \in Asid, pc[a] = "header"
  PROVE  \A b \in Asid \ {a} : pc[b] # "header" /\ (b < a => pc[b] # "new")
<1> SUFFICES ASSUME NEW b \in Asid \ {a} PROVE pc[b] # "header" /\ (b < a => pc[b] # "new")
  OBVIOUS
<1>1. a \in Nat /\ b \in Nat /\ (b < a \/ a < b)
  BY VmAssumption
<1> QED BY <1>1 DEF Inv, StartInv, Starting

LEMMA LevelStart ==
  ASSUME Shape, Inv, NEW a \in Asid, StartStep(a)
  PROVE  Level!TestStep
<1>0. nucleus = "runs" /\ pc \in [Asid -> Starting \cup {"user"} \cup InFault \cup Ending]
  BY DEF StartStep, StartProcess, HeaderRead, HeaderError, Goto, Shape, ControlType
<1>1. Level!Runs(Level!Test)
  BY <1>0, CanGo, LevelNames
<1>2. CASE StartProcess(a)
  <2>1. /\ pc[a] = "new" /\ pc' = [pc EXCEPT ![a] = "header"]
        /\ ~BlockedOn(swap_pool_sem, a)
        /\ \A b \in Asid : b < a => pc[b] \notin Starting
        /\ UNCHANGED <<nucleus, swap_pool_sem>>
    BY <1>2 DEF StartProcess, Goto
  <2>2. ASSUME NEW b \in Asid, pc[b] = "header" PROVE FALSE
    <3>1. a \in Nat /\ b \in Nat /\ a # b /\ (b < a \/ a < b)
      BY <2>1, <2>2, VmAssumption
    <3> QED BY <2>1, <2>2, <3>1 DEF Inv, StartInv, Starting
  <2>3. testPoint = "starting"
    BY <2>1, <2>2 DEF testPoint
  <2>4. testPoint' = "header"
    BY <1>0, <2>1 DEF testPoint
  <2>5. Level!KeepSems /\ Level!Goto(a, "new", "new")
    BY <1>0, <2>1, QuietStep DEF PointOf, InFault
  <2>6. point' = point
    <3>1. point[a] = "new" /\ point' = [point EXCEPT ![a] = "new"]
      BY <2>5 DEF Level!Goto
    <3>2. point \in [Asid -> {point[b] : b \in Asid}]
      BY DEF point
    <3> QED BY <3>1, <3>2
  <2> QED
    BY <1>1, <2>1, <2>3, <2>4, <2>5, <2>6
    DEF Level!TestStep, Level!StartProcess, Level!callVars
<1>3. CASE HeaderRead(a)
  <2>1. /\ pc[a] = "header" /\ pc' = [pc EXCEPT ![a] = "user"]
        /\ ~BlockedOn(swap_pool_sem, a)
        /\ UNCHANGED <<nucleus, swap_pool_sem>>
    BY <1>3 DEF HeaderRead, Goto
  <2>2. Level!KeepSems /\ Level!Goto(a, "new", "user")
    BY <1>0, <2>1, QuietStep DEF PointOf, InFault
  <2>3. \A b \in Asid \ {a} : pc[b] # "header" /\ (b < a => pc[b] # "new")
    BY <2>1, HeaderFacts
  <2>4. \A b \in Asid \ {a} : point[b] = "new" <=> pc[b] = "new"
    <3> SUFFICES ASSUME NEW b \in Asid \ {a} PROVE point[b] = "new" <=> pc[b] = "new"
      OBVIOUS
    <3>1. PointOf(pc[b]) = "new" <=> pc[b] = "new"
      BY <1>0, <2>3 DEF PointOf, InFault, Starting, Ending
    <3> QED BY <3>1, PointIs
  <2>5. testPoint = "header"
    BY <2>1 DEF testPoint
  <2>6. testPoint' = IF \A b \in Asid \ {a} : point[b] # "new" THEN "waiting" ELSE "starting"
    <3>1. pc'[a] = "user" /\ \A b \in Asid \ {a} : pc'[b] = pc[b]
      BY <1>0, <2>1
    <3>2. ~(\E b \in Asid : pc'[b] = "header") /\ Asid # {}
      BY <2>3, <3>1
    <3>3. (\E b \in Asid : pc'[b] = "new") <=> ~(\A b \in Asid \ {a} : point[b] # "new")
      BY <2>4, <3>1
    <3> QED BY <3>2, <3>3 DEF testPoint
  <2>7. \A b \in Asid : b < a => point[b] # "new"
    <3>1. ~(a < a)
      BY VmAssumption
    <3> QED BY <2>3, <2>4, <3>1
  <2>8. point[a] = "new" /\ point' = [point EXCEPT ![a] = "user"]
    BY <2>2 DEF Level!Goto
  <2> QED
    BY <1>1, <2>1, <2>2, <2>5, <2>6, <2>7, <2>8
    DEF Level!TestStep, Level!CreateProcess, Level!callVars
<1>4. CASE HeaderError(a)
  <2>1. pc[a] = "header" /\ nucleus' = "halt" /\ UNCHANGED <<pc, swap_pool_sem>>
    BY <1>4 DEF HeaderError
  <2>2. testPoint = "header" /\ testPoint' = "header"
    BY <2>1 DEF testPoint
  <2>3. Level!KeepSems
    BY <2>1, SemsStay DEF Holder
  <2>4. point' = point
    BY <2>1 DEF point
  <2> QED BY <1>1, <2>1, <2>2, <2>3, <2>4 DEF Level!TestStep, Level!HeaderError, Level!callVars
<1> QED BY <1>2, <1>3, <1>4 DEF StartStep

\* A step of one process, while test() stays where it is.
LEMMA LevelStep ==
  ASSUME Shape, Inv, NEW a \in Asid,
         UserStep(a) \/ FaultStep(a) \/ EndStep(a) \/ FlashStep(a)
  PROVE  Level!Next \/ UNCHANGED Level!vars
<1> DEFINE Rest == UNCHANGED <<nucleus, testPoint, 0, Level!callVars>>
<1>0. /\ nucleus = "runs" /\ UNCHANGED nucleus
      /\ pc \in [Asid -> Starting \cup {"user"} \cup InFault \cup Ending]
  BY WhoChanges DEF Step, HeaderError, UserStep, FaultStep, EndStep, FlashStep, Refill, Write,
     PageFault, WriteToText, Trap, Terminate, Lock, ChooseFrame, Evict, Store, Load, Enter, Map,
     Disown, Unlock, NothingToRelease, Release, FreeFrames, StoreDone, LoadDone, StoreError,
     LoadError, Goto, Served, Shape, ControlType
<1>1. ASSUME NEW b \in Asid, NEW to, pc' = [pc EXCEPT ![b] = to], pc[b] \notin Starting, to \notin Starting
      PROVE  Rest
  <2>1. \A c \in Asid : pc'[c] = pc[c] \/ {pc[c], pc'[c]} \cap Starting = {}
    BY <1>0, <1>1
  <2> QED BY <1>0, <2>1, TestStays DEF Level!callVars
\* Nothing that Support knows of.
<1>2. CASE \/ \E g \in Page : Refill(a, g)
           \/ \E g \in Page, v \in Value : Write(a, g, v)
  <2>1. UNCHANGED <<nucleus, pc, swap_pool_sem>>
    BY <1>2 DEF Refill, Write
  <2>2. Level!KeepSems
    BY <2>1, SemsStay DEF Holder
  <2>3. UNCHANGED <<point, testPoint>>
    BY <2>1 DEF point, testPoint
  <2> QED BY <2>1, <2>2, <2>3 DEF Level!vars, Level!callVars, Level!KeepSems
<1>3. CASE \/ Evict(a) \/ Store(a) \/ Load(a) \/ Enter(a) \/ StoreDone(a) \/ LoadDone(a)
  <2>1. PICK b \in Asid, to \in {"store", "storing", "load", "loading", "enter", "map"} :
          /\ pc[b] \in {"evict", "store", "storing", "load", "loading", "enter"}
          /\ pc' = [pc EXCEPT ![b] = to]
          /\ ~BlockedOn(swap_pool_sem, b)
          /\ UNCHANGED swap_pool_sem
    <3>1. CASE Evict(a) \/ Store(a) \/ Load(a) \/ Enter(a)
      BY <3>1 DEF Evict, Store, Load, Enter, Goto
    <3>2. CASE StoreDone(a) \/ LoadDone(a)
      <4>1. PICK b \in Asid, to \in {"load", "enter"} :
              /\ pc[b] \in {"storing", "loading"} /\ pc' = [pc EXCEPT ![b] = to]
              /\ UNCHANGED swap_pool_sem
        BY <3>2 DEF StoreDone, LoadDone, Served, Shape, StoreType, Operation
      <4> QED BY <4>1, ServedIsHolder DEF Inv
    <3> QED BY <1>3, <3>1, <3>2
  <2>2. /\ Level!Goto(b, PointOf(pc[b]), PointOf(to)) /\ Level!KeepSems
    BY <1>0, <2>1, QuietStep DEF InFault
  <2>3. PointOf(pc[b]) = "fault" /\ PointOf(to) = "fault"
    BY <2>1 DEF PointOf, InFault
  <2>4. point' = point
    <3>1. point[b] = "fault" /\ point' = [point EXCEPT ![b] = "fault"]
      BY <2>2, <2>3 DEF Level!Goto
    <3>2. point \in [Asid -> {point[c] : c \in Asid}]
      BY DEF point
    <3> QED BY <3>1, <3>2
  <2>5. Rest
    BY <1>1, <2>1 DEF Starting
  <2> QED BY <2>2, <2>4, <2>5 DEF Level!vars, Level!KeepSems
\* The program.
<1>4. CASE Trap(a) \/ Terminate(a) \/ \E g \in Page : PageFault(a, g) \/ WriteToText(a, g)
  <2>1. PICK to \in {"lock", "trap", "freelock"} :
          /\ pc[a] = "user" /\ pc' = [pc EXCEPT ![a] = to]
          /\ ~BlockedOn(swap_pool_sem, a) /\ UNCHANGED swap_pool_sem
    BY <1>4 DEF Trap, Terminate, PageFault, WriteToText, Goto
  <2>2. Level!Goto(a, "user", PointOf(to)) /\ Level!KeepSems
    <3>1. PointOf("user") = "user"
      BY DEF PointOf, InFault
    <3> QED BY <1>0, <2>1, <3>1, QuietStep
  <2>3. Rest
    BY <1>1, <2>1 DEF Starting
  <2>4. CASE to = "lock"
    <3>1. PointOf(to) = "faultlock" /\ point[a] = "user"
      BY <2>1, <2>2, <2>4 DEF PointOf, Level!Goto
    <3>2. [c \in Asid |-> "user"] = [[c \in Asid |-> "user"] EXCEPT ![a] = "user"]
      OBVIOUS
    <3>3. Level!PageFault(a)
      BY <2>2, <2>3, <3>1, <3>2 DEF Level!PageFault, Level!callVars
    <3> QED BY <3>3 DEF Level!Next, Level!ProgramStep
  <2>5. CASE to = "trap"
    <3>1. PointOf(to) = "trap"
      BY <2>5 DEF PointOf, InFault
    <3>2. Level!Trap(a)
      BY <2>2, <2>3, <3>1 DEF Level!Trap
    <3> QED BY <3>2 DEF Level!Next, Level!ProgramStep
  <2>6. CASE to = "freelock"
    <3>1. PointOf(to) = "freelock"
      BY <2>6 DEF PointOf, InFault
    <3>2. Level!Terminate(a)
      BY <2>2, <2>3, <3>1 DEF Level!Terminate
    <3> QED BY <3>2 DEF Level!Next, Level!ProgramStep
  <2> QED BY <2>1, <2>4, <2>5, <2>6
\* The mutex of the swap pool.
<1>5. ASSUME NEW from \in (InFault \cup Ending) \ {"dead"}, NEW to \in {"user"} \cup InFault \cup Ending,
             Goto(a, from, to)
      PROVE  Level!Goto(a, PointOf(from), PointOf(to)) /\ Rest
  <2>1. pc[a] = from /\ pc' = [pc EXCEPT ![a] = to] /\ ~BlockedOn(swap_pool_sem, a)
    BY <1>5 DEF Goto
  <2>2. Rest
    BY <1>1, <1>5, <2>1 DEF Starting, InFault, Ending
  <2> QED BY <1>0, <2>1, <2>2, LevelGoto
<1>6. CASE LockStep(a)
  <2>1. Level!Lock(a, Level!SwapPool)
    BY <1>6, LevelLock, LevelNames
  <2>2. CASE Lock(a, "lock", "choose")
    <3>1. Level!Goto(a, "faultlock", "faultown") /\ Rest
      BY <1>5, <2>2 DEF Lock, PointOf, InFault
    <3> QED BY <2>1, <3>1 DEF Level!Next, Level!FaultStep, Level!LockFault
  <2>3. CASE Lock(a, "freelock", "free")
    <3>1. Level!Goto(a, "freelock", "free") /\ Rest
      BY <1>5, <2>3 DEF Lock, PointOf, InFault, Ending
    <3> QED BY <2>1, <3>1 DEF Level!Next, Level!EndStep, Level!LockFree
  <2> QED BY <1>6, <2>2, <2>3 DEF LockStep
<1>7. CASE ChooseFrame(a) \/ FreeFrames(a)
  <2>1. Level!Own(a, Level!SwapPool)
    BY <1>7, LevelOwn, LevelNames
  <2>2. CASE ChooseFrame(a)
    <3>1. PICK to \in {"load", "evict"} : Goto(a, "choose", to)
      BY <2>2 DEF ChooseFrame
    <3>2. Level!Goto(a, "faultown", "fault") /\ Rest
      BY <1>5, <3>1 DEF PointOf, InFault
    <3> QED BY <2>1, <3>2 DEF Level!Next, Level!FaultStep, Level!OwnFault
  <2>3. CASE FreeFrames(a)
    <3>1. Level!Goto(a, "free", "freedisown") /\ Rest
      BY <1>5, <2>3 DEF FreeFrames, PointOf, InFault, Ending
    <3> QED BY <2>1, <3>1 DEF Level!Next, Level!EndStep, Level!OwnFree
  <2> QED BY <1>7, <2>2, <2>3
<1>8. CASE DisownStep(a)
  <2>1. Level!Disown(PoolMutex)
    BY <1>8, LevelDisown
  <2>2. CASE Disown(a, "disown", "unlock")
    <3>1. Level!Goto(a, "faultdisown", "faultunlock") /\ Rest
      BY <1>5, <2>2 DEF Disown, PointOf, InFault
    <3> QED BY <2>1, <3>1, LevelNames DEF Level!Next, Level!FaultStep, Level!DisownFault
  <2>3. CASE Disown(a, "freedisown", "freeunlock")
    <3>1. Level!Goto(a, "freedisown", "freeunlock") /\ Rest
      BY <1>5, <2>3 DEF Disown, PointOf, InFault, Ending
    <3> QED BY <2>1, <3>1, LevelNames DEF Level!Next, Level!EndStep, Level!DisownFree
  <2>4. CASE Release(a)
    <3>1. Level!Goto(a, "trap", "release") /\ Rest
      BY <1>5, <2>4 DEF Release, Disown, PointOf, InFault, Ending
    <3>2. Level!Names(a) = {PoolMutex}
      <4>1. swap_pool_sem.user_asid = a /\ a # NOPROC
        BY <2>4, FrameFacts DEF Release
      <4>2. \A m \in Mutex \ {PoolMutex} : mutexes[m].user_asid = NOPROC
        BY Mutexes DEF Semaphore
      <4> QED BY <4>1, <4>2, LevelNames, Mutexes DEF Level!Names
    <3>3. [c \in Asid |-> PoolMutex] = [[c \in Asid |-> PoolMutex] EXCEPT ![a] = PoolMutex]
      OBVIOUS
    <3>4. Level!Release(a, PoolMutex)
      BY <2>1, <3>1, <3>2, <3>3, LevelNames DEF Level!Release, Level!callVars
    <3> QED BY <3>4, LevelNames DEF Level!Next, Level!EndStep
  <2> QED BY <1>8, <2>2, <2>3, <2>4 DEF DisownStep
<1>9. CASE UnlockStep(a)
  <2>1. Level!Unlock(a, PoolMutex)
    BY <1>9, LevelUnlock
  <2>2. CASE Unlock(a, "unlock", "user")
    <3>1. Level!Goto(a, "faultunlock", "user") /\ Rest
      BY <1>5, <2>2 DEF Unlock, PointOf, InFault, Ending
    <3>2. [c \in Asid |-> "user"] = [[c \in Asid |-> "user"] EXCEPT ![a] = "user"]
      OBVIOUS
    <3>3. Level!UnlockFault(a)
      BY <2>1, <3>1, <3>2, LevelNames DEF Level!UnlockFault, Level!callVars
    <3> QED BY <3>3 DEF Level!Next, Level!FaultStep
  <2>3. CASE Unlock(a, "release", "trap")
    <3>1. Level!Goto(a, "release", "trap") /\ Rest
      BY <1>5, <2>3 DEF Unlock, PointOf, InFault, Ending
    <3>2. [c \in Asid |-> PoolMutex] = [[c \in Asid |-> PoolMutex] EXCEPT ![a] = PoolMutex]
      OBVIOUS
    <3>3. Level!Released(a)
      BY <2>1, <3>1, <3>2, LevelNames DEF Level!Released, Level!callVars
    <3> QED BY <3>3 DEF Level!Next, Level!EndStep
  <2>4. CASE Unlock(a, "freeunlock", "dead")
    <3>1. Level!Goto(a, "freeunlock", "signal") /\ Rest
      BY <1>5, <2>4 DEF Unlock, PointOf, InFault, Ending
    <3> QED BY <2>1, <3>1, LevelNames DEF Level!Next, Level!EndStep, Level!UnlockFree
  <2> QED BY <1>9, <2>2, <2>3, <2>4 DEF UnlockStep
\* The rest of the fault handler and of the trap handler.
<1>10. CASE Map(a)
  <2>1. Goto(a, "map", "disown") /\ UNCHANGED swap_pool_sem
    BY <1>10 DEF Map
  <2>2. Level!Goto(a, "fault", "faultdisown") /\ Rest
    BY <1>5, <2>1 DEF PointOf, InFault
  <2>3. Level!KeepSems
    BY <1>0, <2>1, QuietStep DEF Goto, InFault
  <2> QED BY <2>2, <2>3 DEF Level!Next, Level!FaultStep, Level!PageLoaded
<1>11. CASE StoreError(a) \/ LoadError(a)
  <2>1. PICK b \in Asid : /\ pc[b] \in {"storing", "loading"} /\ pc' = [pc EXCEPT ![b] = "trap"]
                          /\ UNCHANGED swap_pool_sem
    BY <1>11 DEF StoreError, LoadError, Served, Shape, StoreType, Operation
  <2>2. ~BlockedOn(swap_pool_sem, b)
    BY <2>1, ServedIsHolder DEF Inv
  <2>3. PointOf(pc[b]) = "fault" /\ PointOf("trap") = "trap"
    BY <2>1 DEF PointOf, InFault
  <2>4. Level!Goto(b, "fault", "trap") /\ Level!KeepSems
    <3>1. Level!Goto(b, PointOf(pc[b]), PointOf("trap")) /\ Level!KeepSems
      BY <1>0, <2>1, <2>2, QuietStep
    <3> QED BY <2>3, <3>1
  <2>5. Rest
    BY <1>1, <2>1 DEF Starting
  <2>6. Level!FlashError(b)
    BY <2>4, <2>5 DEF Level!FlashError
  <2> QED BY <2>6 DEF Level!Next, Level!FaultStep
<1>12. CASE NothingToRelease(a)
  <2>1. Goto(a, "trap", "freelock") /\ UNCHANGED swap_pool_sem /\ swap_pool_sem.user_asid # a
    BY <1>12 DEF NothingToRelease
  <2>2. Level!Goto(a, "trap", "freelock") /\ Rest
    BY <1>5, <2>1 DEF PointOf, InFault, Ending
  <2>3. Level!KeepSems
    BY <1>0, <2>1, QuietStep DEF Goto
  <2>4. Level!Names(a) = {}
    <3>1. \A m \in Mutex \ {PoolMutex} : mutexes[m].user_asid = NOPROC
      BY Mutexes DEF Semaphore
    <3> QED BY <2>1, <3>1, LevelNames, Mutexes, FrameFacts DEF Level!Names
  <2>5. /\ [c \in Asid |-> "none"] = [[c \in Asid |-> "none"] EXCEPT ![a] = "none"]
        /\ [c \in Asid |-> 0] = [[c \in Asid |-> 0] EXCEPT ![a] = 0]
        /\ [c \in Asid |-> "user"] = [[c \in Asid |-> "user"] EXCEPT ![a] = "user"]
    OBVIOUS
  <2>6. Level!NothingToRelease(a)
    BY <2>2, <2>3, <2>4, <2>5 DEF Level!NothingToRelease, Level!callVars
  <2> QED BY <2>6 DEF Level!Next, Level!EndStep
<1> QED
  BY <1>2, <1>3, <1>4, <1>6, <1>7, <1>8, <1>9, <1>10, <1>11, <1>12
  DEF UserStep, FaultStep, EndStep, FlashStep, LockStep, DisownStep, UnlockStep

LEMMA LevelInit == Init => Level!Init
<1> SUFFICES ASSUME Init PROVE Level!Init
  OBVIOUS
<1>1. \A a \in Asid : pc[a] = "new" /\ ~Holder(a)
  BY FrameFacts DEF Init, Holder, InFault, Semaphore
<1>2. point = [a \in Asid |-> "new"]
  BY <1>1, PointIs DEF PointOf, InFault
<1>3. testPoint = "starting"
  BY <1>1 DEF testPoint
<1>4. mutexes = [m \in Level!Mutex |-> Level!Semaphore(1)]
  BY LevelNames, LevelOperators DEF Init, mutexes
<1>5. holding = [m \in Level!Mutex |-> {}]
  BY <1>1, LevelNames DEF holding
<1>6. Level!SwapPool = PoolMutex /\ Semaphore(0) = Level!Semaphore(0)
  BY LevelNames, LevelOperators
<1> QED BY <1>2, <1>3, <1>4, <1>5, <1>6 DEF Init, Level!Init

\* The page fault handler and the end of a process, step by step, do to the
\* mutex of the swap pool what Support assumes of them.
THEOREM PagingIsTheLevels == Spec => ImplementsSupport
<1>1. ASSUME IInv, [Next]_vars
      PROVE  [Level!Next]_(Level!vars)
  <2>1. Shape /\ Inv
    BY <1>1, ShapeIsTypeOK DEF IInv
  <2>2. CASE UNCHANGED vars
    <3>1. UNCHANGED <<nucleus, pc, swap_pool_sem>>
      BY <2>2 DEF vars
    <3>2. Level!KeepSems
      BY <3>1, SemsStay DEF Holder
    <3>3. UNCHANGED <<point, testPoint>>
      BY <3>1 DEF point, testPoint
    <3> QED BY <3>1, <3>2, <3>3 DEF Level!vars, Level!callVars, Level!KeepSems
  <2>3. ASSUME NEW a \in Asid, Step(a)
        PROVE  Level!Next \/ UNCHANGED Level!vars
    BY <2>1, <2>3, LevelStart, LevelStep DEF Step, Level!Next
  <2> QED BY <1>1, <2>2, <2>3, NextIsStep
<1> QED BY <1>1, LevelInit, IInvHolds, PTL DEF Spec, ImplementsSupport, Level!Spec

=============================================================================
