--------------------------- MODULE SupportProofs ----------------------------
(***************************************************************************)
(* Proofs that the safety invariants of Support hold for every set of user *)
(* processes, and that its mutexes implement FifoLock.                     *)
(*                                                                         *)
(* The argument: where a process is in its system call, its page fault or  *)
(* its end tells which mutexes it holds and which have its user_asid       *)
(* (Has, Owns), and the processes in the queue of a mutex are those        *)
(* between the two halves of a P (MutexInv).  The signals of the processes *)
(* that end are counted: each is in master_sem, in its queue, or has been  *)
(* taken by test() (MasterInv).  Only the swap pool is ever waited for,    *)
(* since a device has one process (HeldInv), and who has the swap pool     *)
(* waits for nothing; so nobody waits in a circle.                         *)
(***************************************************************************)
EXTENDS Support, QueueProofs

\* Between the two halves of P.
Waiting(a, m) ==
  \/ m = CallMutex(a) /\ pc[a] = "own"
  \/ m = SwapPool /\ pc[a] \in {"faultown", "free"}

\* The mutexes whose user_asid is that of the process.
Owns(a, m) ==
  \/ /\ m = CallMutex(a)
     /\ \/ pc[a] \in {"loop", "io", "buffer", "disown"}
        \/ pc[a] \in InFault /\ back[a] # "user"
  \/ m = SwapPool /\ pc[a] \in {"fault", "faultdisown", "freedisown"}

\* The mutexes that it has.  The trap handler knows them from user_asid.
Has(a, m) ==
  \/ Owns(a, m)
  \/ m = CallMutex(a) /\ pc[a] = "unlock"
  \/ m = SwapPool /\ pc[a] \in {"faultunlock", "freeunlock"}
  \/ Waiting(a, m) /\ ~BlockedOn(sem[m], a)
  \/ pc[a] \in {"trap", "release"} /\ sem[m].user_asid = a
  \/ pc[a] = "release" /\ releasing[a] = m

MutexOK(m) ==
  /\ sem[m].val = 1 => sem[m].queue = <<>> /\ holders[m] = {}
  /\ sem[m].val = 0 => \E h \in Asid : holders[m] = {h}
  /\ sem[m].user_asid \in holders[m] \cup {NOPROC}
  /\ IsInjective(sem[m].queue)
  /\ \A a \in Range(sem[m].queue) : Waiting(a, m)

ProcessOK(a, m) ==
  /\ a \in holders[m] <=> Has(a, m)
  /\ pc[a] \notin {"trap", "release"} => (sem[m].user_asid = a <=> Owns(a, m))
  /\ pc[a] = "release" /\ releasing[a] = m => sem[m].user_asid # a

MutexInv == \A m \in Mutex : MutexOK(m) /\ \A a \in Asid : ProcessOK(a, m)

Signallers == {a \in Asid : pc[a] \in {"terminate", "dead"}}

\* The processes whose signal waits in the queue, and whether test() has a
\* signal that it has not counted yet.
Queued == Range(master_sem.queue) \ {Test}
Got == IF test = "taking" /\ ~BlockedOn(master_sem, Test) THEN 1 ELSE 0

MasterInv ==
  /\ master_sem.val = 0 => master_sem.queue \in {<<>>, <<Test>>}
  /\ master_sem.val = 1 => Test \notin Range(master_sem.queue)
  /\ IsInjective(master_sem.queue)
  /\ Test \in Range(master_sem.queue) => test = "taking"
  /\ \A a \in Queued : pc[a] = "terminate"
  /\ Cardinality(Signallers) = taken + Got + master_sem.val + Cardinality(Queued)

TestInv ==
  /\ test \in {"starting", "header"} => taken = 0
  /\ test \in {"waiting", "taking"} => taken < Cardinality(Asid)
  /\ test = "terminate" => taken = Cardinality(Asid)

\* The mutex of a device has no holder but the process whose device it is.
HeldInv ==
  \A a \in Asid, m \in Mutex : a \in holders[m] => m \in {SwapPool, Printer(a), Terminal(a)}

\* test() waits for the signals when it has created all the processes.
CreatedInv == test \notin {"starting", "header"} => \A a \in Asid : pc[a] # "new"

\* A character that is being written is one that is left.
LeftInv == \A a \in Asid : pc[a] = "io" /\ call[a] # "receiver" => left[a] > 0

IInv == TypeOK /\ MutexInv /\ MasterInv /\ TestInv /\ CreatedInv /\ HeldInv /\ LeftInv

-----------------------------------------------------------------------------
(* The operators                                                           *)

LEMMA MutexFacts ==
  /\ SwapPool \in Mutex
  /\ \A a \in Asid : Printer(a) \in Mutex /\ Terminal(a) \in Mutex
  /\ \A a \in Asid : Printer(a) # SwapPool /\ Terminal(a) # SwapPool
  /\ \A a, b \in Asid : a # b =>
       Printer(a) # Printer(b) /\ Printer(a) # Terminal(b) /\ Terminal(a) # Terminal(b)
  /\ NOPROC \notin Asid /\ Test \notin Asid /\ Test # NOPROC
BY SupportAssumption DEF Mutex, SwapPool, Printer, Terminal, NOPROC, Test

LEMMA CallMutexFacts ==
  ASSUME NEW a \in Asid
  PROVE  /\ CallMutex(a) \in Mutex /\ CallMutex(a) # SwapPool
         /\ \A b \in Asid \ {a} : CallMutex(b) # CallMutex(a)
BY MutexFacts DEF CallMutex

-----------------------------------------------------------------------------
(* The mutexes: what each kind of step does to the invariant, while the    *)
(* other processes stay where they are.                                    *)

Stays(b) ==
  /\ pc'[b] = pc[b] /\ call'[b] = call[b]
  /\ back'[b] = back[b] /\ releasing'[b] = releasing[b]

SemType ==
  /\ sem \in [Mutex -> SemaphoreType(Asid)]
  /\ holders \in [Mutex -> SUBSET Asid]

LEMMA StaysFacts ==
  ASSUME NEW b \in Asid, Stays(b)
  PROVE  \A m \in Mutex :
           /\ Waiting(b, m)' = Waiting(b, m)
           /\ Owns(b, m)' = Owns(b, m)
BY DEF Stays, Waiting, Owns, CallMutex

LEMMA WaitingHas ==
  ASSUME NEW b \in Asid, NEW m \in Mutex, Waiting(b, m)
  PROVE  ~Owns(b, m) /\ (Has(b, m) <=> ~BlockedOn(sem[m], b))
BY CallMutexFacts DEF Waiting, Owns, Has, InFault

\* What a process that stays has, while the semaphore changes.
LEMMA StaysHas ==
  ASSUME NEW b \in Asid, Stays(b), NEW m \in Mutex,
         sem'[m].user_asid = b <=> sem[m].user_asid = b
  PROVE  /\ Waiting(b, m) => (Has(b, m)' <=> ~BlockedOn(sem'[m], b))
         /\ ~Waiting(b, m) => (Has(b, m)' <=> Has(b, m))
         /\ ProcessOK(b, m) /\ (b \in holders'[m] <=> Has(b, m)') => ProcessOK(b, m)'
<1>1. (Waiting(b, m)' <=> Waiting(b, m)) /\ (Owns(b, m)' <=> Owns(b, m))
  BY StaysFacts
<1>2. CallMutex(b)' = CallMutex(b)
  BY DEF Stays, CallMutex
<1>3. Waiting(b, m) => pc[b] \in {"own", "faultown", "free"} /\ ~Owns(b, m)
  BY WaitingHas DEF Waiting
<1>4. Waiting(b, m) => (Has(b, m)' <=> ~BlockedOn(sem'[m], b))
  BY <1>1, <1>2, <1>3 DEF Has, Stays
<1>5. ~Waiting(b, m) => (Has(b, m)' <=> Has(b, m))
  BY <1>1, <1>2 DEF Has, Stays
<1>6. ProcessOK(b, m) /\ (b \in holders'[m] <=> Has(b, m)') => ProcessOK(b, m)'
  BY <1>1 DEF ProcessOK, Stays
<1> QED BY <1>4, <1>5, <1>6

\* Nothing happens to mutex x, and process b stays where it is.
LEMMA OthersKept ==
  ASSUME NEW b \in Asid, Stays(b), NEW m \in Mutex, ProcessOK(b, m),
         sem'[m] = sem[m], holders'[m] = holders[m]
  PROVE  ProcessOK(b, m)'
<1>1. Has(b, m)' <=> Has(b, m)
  BY StaysHas, WaitingHas
<1> QED BY <1>1, StaysHas DEF ProcessOK

\* Nothing happens to mutex x, and process a goes on.
LEMMA OtherMutexKept ==
  ASSUME SemType, MutexInv, NEW a \in Asid, \A b \in Asid \ {a} : Stays(b),
         \A x \in Mutex : ~BlockedOn(sem[x], a),
         NEW x \in Mutex, sem'[x] = sem[x], holders'[x] = holders[x],
         Has(a, x)' <=> Has(a, x),
         pc'[a] \notin {"trap", "release"} => (Owns(a, x)' <=> sem[x].user_asid = a),
         ~(pc'[a] = "release" /\ releasing'[a] = x)
  PROVE  MutexOK(x)' /\ \A b \in Asid : ProcessOK(b, x)'
<1>1. \A b \in Range(sem[x].queue) : b \in Asid \ {a}
  BY DEF SemType, SemaphoreType, Range, BlockedOn
<1>2. MutexOK(x)'
  BY <1>1, StaysFacts DEF MutexInv, MutexOK
<1>3. ASSUME NEW b \in Asid PROVE ProcessOK(b, x)'
  <2>1. CASE b # a
    BY <2>1, OthersKept DEF MutexInv
  <2>2. CASE b = a
    BY <2>2 DEF MutexInv, ProcessOK
  <2> QED BY <2>1, <2>2
<1> QED BY <1>2, <1>3

\* No mutex changes.
LEMMA Moved ==
  ASSUME SemType, MutexInv, NEW a \in Asid, \A b \in Asid \ {a} : Stays(b),
         \A x \in Mutex : ~BlockedOn(sem[x], a),
         UNCHANGED <<sem, holders>>,
         pc'[a] # "release",
         \A x \in Mutex :
           /\ Has(a, x)' <=> Has(a, x)
           /\ pc'[a] # "trap" => (Owns(a, x)' <=> sem[x].user_asid = a)
  PROVE  MutexInv'
BY OtherMutexKept DEF MutexInv

\* PASSEREN.
LEMMA Locked ==
  ASSUME SemType, MutexInv, NEW a \in Asid, \A b \in Asid \ {a} : Stays(b),
         \A x \in Mutex : ~BlockedOn(sem[x], a),
         NEW m \in Mutex, Lock(a, m),
         Waiting(a, m)', ~Has(a, m),
         pc'[a] \notin {"trap", "release"},
         \A x \in Mutex : Owns(a, x)' <=> sem[x].user_asid = a,
         \A x \in Mutex \ {m} : Has(a, x)' <=> Has(a, x)
  PROVE  MutexInv' /\ SemType'
<1> DEFINE s == sem[m]
           t == sem'[m]
<1>1. /\ s \in SemaphoreType(Asid) /\ t = SemP(s, a)
      /\ \A x \in Mutex \ {m} : sem'[x] = sem[x] /\ holders'[x] = holders[x]
      /\ holders'[m] = IF s.val = 1 THEN holders[m] \cup {a} ELSE holders[m]
      /\ s.val \in {0, 1}
  BY DEF SemType, Lock, SemaphoreType
<1>2. MutexOK(m) /\ ~BlockedOn(s, a) /\ a \notin holders[m]
  BY DEF MutexInv, ProcessOK
<1>3. /\ t \in SemaphoreType(Asid)
      /\ t.user_asid = s.user_asid
      /\ t.val = 0
      /\ s.val = 1 => t.queue = <<>>
      /\ Range(t.queue) = Range(s.queue) \cup (IF s.val = 0 THEN {a} ELSE {})
      /\ IsInjective(t.queue)
  <2>1. (s.val = 1 => s.queue = <<>>) /\ IsInjective(s.queue) /\ a \notin Range(s.queue)
    BY <1>2 DEF MutexOK, BlockedOn
  <2> HIDE DEF s, t
  <2> QED BY <1>1, <2>1, SemPProperties
<1>4. SemType'
  BY <1>1, <1>3 DEF SemType, Lock
<1>5. ASSUME NEW x \in Mutex \ {m}
      PROVE  MutexOK(x)' /\ \A b \in Asid : ProcessOK(b, x)'
  BY <1>1, OtherMutexKept
<1>6. MutexOK(m)'
  <2>1. \A b \in Range(t.queue) : Waiting(b, m)'
    <3>1. \A b \in Range(s.queue) : b \in Asid \ {a}
      BY <1>1, <1>2 DEF SemaphoreType, Range, BlockedOn
    <3> QED BY <1>2, <1>3, <3>1, StaysFacts DEF MutexOK
  <2>2. \E h \in Asid : holders'[m] = {h}
    BY <1>1, <1>2 DEF MutexOK
  <2>3. t.user_asid \in holders'[m] \cup {NOPROC}
    BY <1>1, <1>2, <1>3 DEF MutexOK
  <2> HIDE DEF s
  <2> QED BY <1>3, <2>1, <2>2, <2>3 DEF MutexOK
<1>7. ASSUME NEW b \in Asid PROVE ProcessOK(b, m)'
  <2>1. CASE b # a
    <3>1. BlockedOn(t, b) <=> BlockedOn(s, b)
      BY <1>3, <2>1 DEF BlockedOn
    <3>2. b \in holders'[m] <=> b \in holders[m]
      BY <1>1, <2>1
    <3>3. Has(b, m)' <=> Has(b, m)
      BY <1>3, <2>1, <3>1, StaysHas, WaitingHas
    <3> QED BY <1>3, <2>1, <3>2, <3>3, StaysHas DEF MutexInv, ProcessOK
  <2>2. CASE b = a
    <3>1. Has(a, m)' <=> ~BlockedOn(t, a)
      <4>1. ~Owns(a, m)'
        BY <1>1, <1>2, MutexFacts DEF MutexOK
      <4>2. pc'[a] \in {"own", "faultown", "free"}
        BY DEF Waiting
      <4> QED BY <4>1, <4>2 DEF Has
    <3>2. BlockedOn(t, a) <=> s.val = 0
      BY <1>2, <1>3 DEF BlockedOn
    <3>3. a \in holders'[m] <=> s.val = 1
      BY <1>1, <1>2
    <3> QED BY <1>1, <1>3, <2>2, <3>1, <3>2, <3>3 DEF ProcessOK
  <2> QED BY <2>1, <2>2
<1> QED BY <1>4, <1>5, <1>6, <1>7 DEF MutexInv

\* The store to user_asid after PASSEREN.
LEMMA OwnedNow ==
  ASSUME SemType, MutexInv, NEW a \in Asid, \A b \in Asid \ {a} : Stays(b),
         \A x \in Mutex : ~BlockedOn(sem[x], a),
         NEW m \in Mutex, Own(a, m),
         Waiting(a, m),
         pc'[a] \notin {"trap", "release"},
         Owns(a, m)',
         \A x \in Mutex \ {m} : (Owns(a, x)' <=> sem[x].user_asid = a) /\ (Has(a, x)' <=> Has(a, x))
  PROVE  MutexInv' /\ SemType'
<1> DEFINE s == sem[m]
           t == sem'[m]
<1>1. /\ s \in SemaphoreType(Asid)
      /\ t.val = s.val /\ t.queue = s.queue /\ t.user_asid = a
      /\ t \in SemaphoreType(Asid)
      /\ \A x \in Mutex \ {m} : sem'[x] = sem[x]
      /\ holders' = holders
  BY DEF SemType, Own, Owned, SemaphoreType
<1>2. MutexOK(m) /\ ~BlockedOn(s, a)
  BY DEF MutexInv
<1>3. holders[m] = {a} /\ s.user_asid \in {a, NOPROC}
  <2>1. a \in holders[m]
    BY <1>2, WaitingHas DEF MutexInv, ProcessOK
  <2>2. s.val = 0
    BY <1>1, <1>2, <2>1 DEF MutexOK, SemaphoreType
  <2> QED BY <1>2, <2>1, <2>2 DEF MutexOK
<1>4. SemType'
  BY <1>1 DEF SemType, Own
<1>5. ASSUME NEW x \in Mutex \ {m}
      PROVE  MutexOK(x)' /\ \A b \in Asid : ProcessOK(b, x)'
  BY <1>1, OtherMutexKept
<1>6. MutexOK(m)'
  <2>1. \A b \in Range(s.queue) : b \in Asid \ {a}
    BY <1>1, <1>2 DEF SemaphoreType, Range, BlockedOn
  <2> QED BY <1>1, <1>2, <1>3, <2>1, StaysFacts DEF MutexOK
<1>7. ASSUME NEW b \in Asid PROVE ProcessOK(b, m)'
  <2>1. CASE b # a
    <3>1. t.user_asid = b <=> s.user_asid = b
      BY <1>1, <1>3, <2>1, MutexFacts
    <3>2. Has(b, m)' <=> Has(b, m)
      BY <1>1, <2>1, <3>1, StaysHas, WaitingHas DEF BlockedOn
    <3> QED BY <1>1, <2>1, <3>1, <3>2, StaysHas DEF MutexInv, ProcessOK
  <2>2. CASE b = a
    BY <1>1, <1>3, <2>2 DEF ProcessOK, Has
  <2> QED BY <2>1, <2>2
<1> QED BY <1>4, <1>5, <1>6, <1>7 DEF MutexInv

\* The store to user_asid before VERHOGEN.
LEMMA DisownedNow ==
  ASSUME SemType, MutexInv, NEW a \in Asid, \A b \in Asid \ {a} : Stays(b),
         \A x \in Mutex : ~BlockedOn(sem[x], a),
         NEW m \in Mutex, Disown(m),
         sem[m].user_asid = a,
         pc'[a] # "trap",
         pc'[a] = "release" => releasing'[a] = m,
         Has(a, m)', ~Owns(a, m)',
         \A x \in Mutex \ {m} :
           /\ Has(a, x)' <=> Has(a, x)
           /\ pc'[a] # "release" => (Owns(a, x)' <=> sem[x].user_asid = a)
  PROVE  MutexInv' /\ SemType'
<1> DEFINE s == sem[m]
           t == sem'[m]
<1>1. /\ s \in SemaphoreType(Asid)
      /\ t.val = s.val /\ t.queue = s.queue /\ t.user_asid = NOPROC
      /\ t \in SemaphoreType(Asid)
      /\ \A x \in Mutex \ {m} : sem'[x] = sem[x]
      /\ holders' = holders
  BY DEF SemType, Disown, Disowned, SemaphoreType
<1>2. MutexOK(m) /\ ~BlockedOn(s, a)
  BY DEF MutexInv
<1>3. a \in holders[m]
  BY <1>2, MutexFacts DEF MutexOK
<1>4. SemType'
  BY <1>1 DEF SemType, Disown
<1>5. ASSUME NEW x \in Mutex \ {m}
      PROVE  MutexOK(x)' /\ \A b \in Asid : ProcessOK(b, x)'
  BY <1>1, OtherMutexKept
<1>6. MutexOK(m)'
  <2>1. \A b \in Range(s.queue) : b \in Asid \ {a}
    BY <1>1, <1>2 DEF SemaphoreType, Range, BlockedOn
  <2> QED BY <1>1, <1>2, <2>1, StaysFacts DEF MutexOK
<1>7. ASSUME NEW b \in Asid PROVE ProcessOK(b, m)'
  <2>1. CASE b # a
    <3>1. t.user_asid = b <=> s.user_asid = b
      BY <1>1, <2>1, MutexFacts
    <3>2. Has(b, m)' <=> Has(b, m)
      BY <1>1, <2>1, <3>1, StaysHas, WaitingHas DEF BlockedOn
    <3> QED BY <1>1, <2>1, <3>1, <3>2, StaysHas DEF MutexInv, ProcessOK
  <2>2. CASE b = a
    BY <1>1, <1>3, <2>2, MutexFacts DEF ProcessOK
  <2> QED BY <2>1, <2>2
<1> QED BY <1>4, <1>5, <1>6, <1>7 DEF MutexInv

\* VERHOGEN: the first process that waits has the mutex from now on.
LEMMA Unlocked ==
  ASSUME SemType, MutexInv, NEW a \in Asid, \A b \in Asid \ {a} : Stays(b),
         \A x \in Mutex : ~BlockedOn(sem[x], a),
         NEW m \in Mutex, Unlock(a, m),
         Has(a, m), sem[m].user_asid # a,
         pc'[a] # "release",
         ~Owns(a, m)', ~Waiting(a, m)', ~(m = CallMutex(a)' /\ pc'[a] = "unlock"),
         ~(m = SwapPool /\ pc'[a] \in {"faultunlock", "freeunlock"}),
         \A x \in Mutex \ {m} :
           /\ Has(a, x)' <=> Has(a, x)
           /\ pc'[a] # "trap" => (Owns(a, x)' <=> sem[x].user_asid = a)
  PROVE  MutexInv' /\ SemType'
<1> DEFINE s == sem[m]
           t == sem'[m]
<1>1. /\ s \in SemaphoreType(Asid) /\ t = SemV(s, a)
      /\ \A x \in Mutex \ {m} : sem'[x] = sem[x] /\ holders'[x] = holders[x]
  BY DEF SemType, Unlock
<1>2. MutexOK(m) /\ ~BlockedOn(s, a) /\ a \in holders[m]
  BY DEF MutexInv, ProcessOK
<1>3. s.val = 0 /\ holders[m] = {a} /\ s.user_asid = NOPROC
  <2>1. s.val \in {0, 1}
    BY <1>1 DEF SemaphoreType
  <2> QED BY <1>2, <2>1 DEF MutexOK
<1>4. /\ t \in SemaphoreType(Asid)
      /\ t.user_asid = NOPROC
      /\ s.queue = <<>> => t.val = 1 /\ t.queue = <<>>
      /\ s.queue # <<>> =>
              /\ t.val = 0
              /\ Range(s.queue) = Range(t.queue) \cup {Head(s.queue)}
              /\ IsInjective(t.queue) /\ Head(s.queue) \notin Range(t.queue)
  <2>1. IsInjective(s.queue)
    BY <1>2 DEF MutexOK
  <2> HIDE DEF s, t
  <2> QED BY <1>1, <1>3, <2>1, SemVProperties
<1>5. /\ holders'[m] = IF s.queue = <<>> THEN {} ELSE {Head(s.queue)}
      /\ s.queue # <<>> => Head(s.queue) \in Asid \ {a}
  <2>1. holders'[m] = (holders[m] \ {a}) \cup IF s.queue = <<>> THEN {} ELSE {Head(s.queue)}
    BY <1>3 DEF SemType, Unlock
  <2>2. s.queue # <<>> => Head(s.queue) \in Range(s.queue)
    BY <1>4
  <2>3. \A b \in Range(s.queue) : b \in Asid \ {a}
    BY <1>1, <1>2 DEF SemaphoreType, Range, BlockedOn
  <2> QED BY <1>3, <2>1, <2>2, <2>3
<1>6. SemType'
  <2>1. sem' \in [Mutex -> SemaphoreType(Asid)]
    BY <1>1, <1>4 DEF SemType, Unlock
  <2>2. holders' \in [Mutex -> SUBSET Asid]
    <3> HIDE DEF s, t
    <3> QED BY <1>1, <1>5, ZenonT(40) DEF SemType, Unlock
  <2> QED BY <2>1, <2>2 DEF SemType
<1>7. ASSUME NEW x \in Mutex \ {m}
      PROVE  MutexOK(x)' /\ \A b \in Asid : ProcessOK(b, x)'
  BY <1>1, OtherMutexKept
<1>8. MutexOK(m)'
  <2>1. \A b \in Range(s.queue) : b \in Asid \ {a} /\ Waiting(b, m)'
    <3>1. \A b \in Range(s.queue) : b \in Asid \ {a}
      BY <1>1, <1>2 DEF SemaphoreType, Range, BlockedOn
    <3> QED BY <1>2, <3>1, StaysFacts DEF MutexOK
  <2>2. Range(t.queue) \subseteq Range(s.queue)
    BY <1>4
  <2>3. IsInjective(t.queue)
    BY <1>2, <1>4 DEF MutexOK
  <2> HIDE DEF s
  <2> QED BY <1>4, <1>5, <2>1, <2>2, <2>3 DEF MutexOK
<1>9. ASSUME NEW b \in Asid PROVE ProcessOK(b, m)'
  <2>1. CASE b # a
    <3>1. t.user_asid = b <=> s.user_asid = b
      BY <1>3, <1>4
    <3>2. b \notin holders[m] /\ ~Has(b, m)
      BY <1>3, <2>1 DEF MutexInv, ProcessOK
    <3>3. BlockedOn(s, b) => Waiting(b, m)
      BY <1>2 DEF MutexOK, BlockedOn
    <3>4. Has(b, m)' <=> BlockedOn(s, b) /\ ~BlockedOn(t, b)
      BY <2>1, <3>1, <3>2, <3>3, StaysHas, WaitingHas
    <3>5. b \in holders'[m] <=> BlockedOn(s, b) /\ ~BlockedOn(t, b)
      BY <1>4, <1>5 DEF BlockedOn
    <3> QED BY <2>1, <3>1, <3>4, <3>5, StaysHas DEF MutexInv
  <2>2. CASE b = a
    <3>1. t.user_asid # a
      BY <1>4, MutexFacts
    <3>2. ~Has(a, m)'
      BY <3>1 DEF Has
    <3>3. a \notin holders'[m]
      BY <1>5
    <3> QED BY <2>2, <3>1, <3>2, <3>3 DEF ProcessOK
  <2> QED BY <2>1, <2>2
<1> QED BY <1>6, <1>7, <1>8, <1>9 DEF MutexInv

\* A process of the user, or its support level.
Step(a) == ProgramStep(a) \/ CallStep(a) \/ FaultStep(a) \/ EndStep(a) \/ TerminalStep(a)

Shape ==
  /\ SemType
  /\ nucleus \in {"runs", "halt", "panic"}
  /\ pc \in [Asid -> {"new", "user"} \cup InCall \cup InFault \cup Ending]
  /\ call \in [Asid -> Call]
  /\ left \in [Asid -> 0 .. MaxLength]
  /\ back \in [Asid -> {"user", "loop", "buffer"}]
  /\ releasing \in [Asid -> Mutex]

LEMMA GotoFacts ==
  ASSUME Shape, NEW a \in Asid, NEW from, NEW to, Goto(a, from, to)
  PROVE  /\ pc[a] = from /\ pc'[a] = to
         /\ \A b \in Asid \ {a} : pc'[b] = pc[b]
         /\ \A x \in Mutex : ~BlockedOn(sem[x], a)
BY DEF Goto, Runs, Shape

\* The steps that leave the mutexes alone.
LEMMA MovedStep ==
  ASSUME Shape, MutexInv, NEW a \in Asid,
         \/ \E device \in {"printer", "transmitter"}, length \in 0 .. MaxLength :
               WriteCall(a, device, length)
         \/ ReadCall(a) \/ Terminate(a) \/ Trap(a) \/ PageFault(a)
         \/ NextCharacter(a) \/ LastCharacter(a) \/ Written(a) \/ PrinterError(a) \/ Buffered(a)
         \/ PageLoaded(a) \/ FlashError(a) \/ NothingToRelease(a) \/ Signal(a) \/ TermProcess(a)
         \/ Received(a)
  PROVE  MutexInv' /\ SemType'
<1> USE DEF Shape
<1>1. UNCHANGED <<sem, holders>>
  BY DEF WriteCall, ReadCall, Terminate, Trap, PageFault, NextCharacter, LastCharacter, Written,
         PrinterError, Buffered, PageLoaded, FlashError, NothingToRelease, Signal, TermProcess,
         Received, KeepSems
<1>2. SemType'
  BY <1>1 DEF SemType
<1>3. \A b \in Asid \ {a} : Stays(b)
  BY DEF WriteCall, ReadCall, Terminate, Trap, PageFault, NextCharacter, LastCharacter, Written,
         PrinterError, Buffered, PageLoaded, FlashError, NothingToRelease, Signal, TermProcess,
         Received, Goto, Stays, callVars
<1>4. \A x \in Mutex : ~BlockedOn(sem[x], a)
  BY DEF WriteCall, ReadCall, Terminate, Trap, PageFault, NextCharacter, LastCharacter, Written,
         PrinterError, Buffered, PageLoaded, FlashError, NothingToRelease, Signal, TermProcess,
         Received, Goto, Runs
<1>5. ASSUME pc'[a] # "release",
             \A x \in Mutex : /\ Has(a, x)' <=> Has(a, x)
                              /\ pc'[a] # "trap" => (Owns(a, x)' <=> sem[x].user_asid = a)
      PROVE  MutexInv' /\ SemType'
  BY <1>1, <1>2, <1>3, <1>4, <1>5, Moved
<1>6. \A x \in Mutex : pc[a] \notin {"trap", "release"} => (sem[x].user_asid = a <=> Owns(a, x))
  BY DEF MutexInv, ProcessOK
<1>7. CASE pc[a] = "user" /\ pc'[a] \in {"lock", "freelock", "trap"}
  <2>1. \A x \in Mutex : ~Owns(a, x) /\ ~Owns(a, x)' /\ ~Waiting(a, x) /\ ~Waiting(a, x)'
    BY <1>7 DEF Owns, Waiting, InFault
  <2>2. \A x \in Mutex : ~Has(a, x) /\ ~Has(a, x)'
    BY <1>1, <1>6, <1>7, <2>1 DEF Has
  <2> QED BY <1>5, <1>6, <1>7, <2>1, <2>2
<1>8. CASE /\ pc[a] \in {"loop", "io", "buffer"} /\ pc'[a] \in {"loop", "io", "buffer", "disown"}
           /\ call'[a] = call[a]
  <2>1. \A x \in Mutex :
          /\ Owns(a, x) <=> x = CallMutex(a)
          /\ Owns(a, x)' <=> x = CallMutex(a)
          /\ ~Waiting(a, x) /\ ~Waiting(a, x)'
    BY <1>8 DEF Owns, Waiting, InFault, CallMutex
  <2>2. \A x \in Mutex : Has(a, x)' <=> Has(a, x)
    BY <1>8, <2>1 DEF Has
  <2> QED BY <1>5, <1>6, <1>8, <2>1, <2>2
\* The trap handler finds what the process has in user_asid.
<1>9. CASE pc[a] \in {"buffer", "fault"} /\ pc'[a] = "trap"
  <2>1. \A x \in Mutex : ~Owns(a, x)' /\ ~Waiting(a, x)'
    BY <1>9 DEF Owns, Waiting, InFault
  <2>2. \A x \in Mutex : Has(a, x) <=> Owns(a, x)
    BY <1>9 DEF Has, Waiting
  <2>3. \A x \in Mutex : Has(a, x)' <=> sem[x].user_asid = a
    BY <1>1, <1>9, <2>1 DEF Has
  <2> QED BY <1>5, <1>6, <1>9, <2>2, <2>3
<1>10. CASE /\ pc[a] \in {"user", "buffer", "loop"} /\ pc'[a] = "faultlock"
            /\ call'[a] = call[a] /\ back'[a] = pc[a]
  <2>1. \A x \in Mutex :
          /\ Owns(a, x) <=> x = CallMutex(a) /\ pc[a] # "user"
          /\ Owns(a, x)' <=> x = CallMutex(a) /\ pc[a] # "user"
          /\ ~Waiting(a, x) /\ ~Waiting(a, x)'
    BY <1>10 DEF Owns, Waiting, InFault, CallMutex
  <2>2. \A x \in Mutex : Has(a, x)' <=> Has(a, x)
    BY <1>10, <2>1 DEF Has
  <2> QED BY <1>5, <1>6, <1>10, <2>1, <2>2
<1>11. CASE /\ pc[a] = "fault" /\ pc'[a] = "faultdisown"
            /\ call'[a] = call[a] /\ back'[a] = back[a]
  <2>1. \A x \in Mutex :
          /\ Owns(a, x)' <=> Owns(a, x)
          /\ ~Waiting(a, x) /\ ~Waiting(a, x)'
    BY <1>11 DEF Owns, Waiting, InFault, CallMutex
  <2>2. \A x \in Mutex : Has(a, x)' <=> Has(a, x)
    BY <1>11, <2>1 DEF Has
  <2> QED BY <1>5, <1>6, <1>11, <2>1, <2>2
<1>12. CASE \/ pc[a] = "trap" /\ pc'[a] = "freelock" /\ Names(a) = {}
            \/ pc[a] \in {"signal", "terminate"} /\ pc'[a] \in {"terminate", "dead"}
  <2>1. \A x \in Mutex : ~Owns(a, x) /\ ~Owns(a, x)' /\ ~Waiting(a, x) /\ ~Waiting(a, x)'
    BY <1>12 DEF Owns, Waiting, InFault
  <2>2. \A x \in Mutex : sem[x].user_asid # a
    BY <1>6, <1>12, <2>1 DEF Names
  <2>3. \A x \in Mutex : ~Has(a, x) /\ ~Has(a, x)'
    BY <1>1, <1>12, <2>1, <2>2 DEF Has
  <2> QED BY <1>5, <1>12, <2>1, <2>2, <2>3
<1> QED
  BY <1>7, <1>8, <1>9, <1>10, <1>11, <1>12, GotoFacts
  DEF WriteCall, ReadCall, Terminate, Trap, PageFault, NextCharacter, LastCharacter, Written,
      PrinterError, Buffered, PageLoaded, FlashError, NothingToRelease, Signal, TermProcess,
      Received, callVars

LEMMA LockStep ==
  ASSUME Shape, MutexInv, NEW a \in Asid, LockCall(a) \/ LockFault(a) \/ LockFree(a)
  PROVE  MutexInv' /\ SemType'
<1> USE DEF Shape
<1>1. PICK m \in Mutex :
        /\ Lock(a, m)
        /\ \/ pc[a] = "lock" /\ pc'[a] = "own" /\ m = CallMutex(a)
           \/ pc[a] = "faultlock" /\ pc'[a] = "faultown" /\ m = SwapPool
           \/ pc[a] = "freelock" /\ pc'[a] = "free" /\ m = SwapPool
        /\ UNCHANGED <<call, back, releasing>>
        /\ \A b \in Asid \ {a} : pc'[b] = pc[b]
        /\ \A x \in Mutex : ~BlockedOn(sem[x], a)
  BY GotoFacts, CallMutexFacts, MutexFacts DEF LockCall, LockFault, LockFree, callVars
<1>2. \A b \in Asid \ {a} : Stays(b)
  BY <1>1 DEF Stays
<1>3. CallMutex(a)' = CallMutex(a)
  BY <1>1 DEF CallMutex
<1>4. \A x \in Mutex : (Owns(a, x)' <=> Owns(a, x)) /\ ~Waiting(a, x)
  BY <1>1, <1>3 DEF Owns, Waiting, InFault
<1>5. Waiting(a, m)' /\ \A x \in Mutex \ {m} : ~Waiting(a, x)'
  BY <1>1, <1>3 DEF Waiting
<1>6. \A x \in Mutex : (Has(a, x) <=> Owns(a, x)) /\ (sem[x].user_asid = a <=> Owns(a, x))
  BY <1>1, <1>4 DEF Has, MutexInv, ProcessOK
<1>7. \A x \in Mutex \ {m} : Has(a, x)' <=> Owns(a, x)
  BY <1>1, <1>4, <1>5 DEF Has
<1>8. ~Owns(a, m)
  BY <1>1, CallMutexFacts DEF Owns, InFault
<1> QED BY <1>1, <1>2, <1>4, <1>5, <1>6, <1>7, <1>8, Locked

LEMMA OwnStep ==
  ASSUME Shape, MutexInv, NEW a \in Asid, OwnCall(a) \/ OwnFault(a) \/ OwnFree(a)
  PROVE  MutexInv' /\ SemType'
<1> USE DEF Shape
<1>1. PICK m \in Mutex :
        /\ Own(a, m)
        /\ \/ pc[a] = "own" /\ pc'[a] = "loop" /\ m = CallMutex(a)
           \/ pc[a] = "faultown" /\ pc'[a] = "fault" /\ m = SwapPool
           \/ pc[a] = "free" /\ pc'[a] = "freedisown" /\ m = SwapPool
        /\ UNCHANGED <<call, back, releasing>>
        /\ \A b \in Asid \ {a} : pc'[b] = pc[b]
        /\ \A x \in Mutex : ~BlockedOn(sem[x], a)
  BY GotoFacts, CallMutexFacts, MutexFacts DEF OwnCall, OwnFault, OwnFree, callVars
<1>2. \A b \in Asid \ {a} : Stays(b)
  BY <1>1 DEF Stays
<1>3. CallMutex(a)' = CallMutex(a)
  BY <1>1 DEF CallMutex
<1>4. Waiting(a, m) /\ Owns(a, m)'
  BY <1>1, <1>3 DEF Waiting, Owns
<1>5. \A x \in Mutex \ {m} : (Owns(a, x)' <=> Owns(a, x)) /\ ~Waiting(a, x) /\ ~Waiting(a, x)'
  BY <1>1, <1>3 DEF Owns, Waiting, InFault
<1>6. \A x \in Mutex \ {m} :
        /\ (Has(a, x) <=> Owns(a, x)) /\ (Has(a, x)' <=> Owns(a, x))
        /\ (sem[x].user_asid = a <=> Owns(a, x))
  BY <1>1, <1>5 DEF Has, MutexInv, ProcessOK
<1> QED BY <1>1, <1>2, <1>4, <1>5, <1>6, OwnedNow

LEMMA DisownStep ==
  ASSUME Shape, MutexInv, NEW a \in Asid,
         DisownCall(a) \/ DisownFault(a) \/ DisownFree(a) \/ \E m \in Mutex : Release(a, m)
  PROVE  MutexInv' /\ SemType'
<1> USE DEF Shape
<1>1. PICK m \in Mutex :
        /\ Disown(m)
        /\ \/ pc[a] = "disown" /\ pc'[a] = "unlock" /\ m = CallMutex(a) /\ releasing' = releasing
           \/ pc[a] = "faultdisown" /\ pc'[a] = "faultunlock" /\ m = SwapPool /\ releasing' = releasing
           \/ pc[a] = "freedisown" /\ pc'[a] = "freeunlock" /\ m = SwapPool /\ releasing' = releasing
           \/ /\ pc[a] = "trap" /\ pc'[a] = "release" /\ sem[m].user_asid = a
              /\ releasing' = [releasing EXCEPT ![a] = m]
        /\ UNCHANGED <<call, back>>
        /\ \A b \in Asid \ {a} : pc'[b] = pc[b]
        /\ \A x \in Mutex : ~BlockedOn(sem[x], a)
  BY GotoFacts, CallMutexFacts, MutexFacts
  DEF DisownCall, DisownFault, DisownFree, Release, Names, callVars
<1>2. \A b \in Asid \ {a} : Stays(b)
  BY <1>1 DEF Stays
<1>3. CallMutex(a)' = CallMutex(a)
  BY <1>1 DEF CallMutex
<1>4. \A x \in Mutex : ~Waiting(a, x) /\ ~Waiting(a, x)'
  BY <1>1 DEF Waiting
<1>5. \A x \in Mutex \ {m} : sem'[x] = sem[x]
  BY <1>1 DEF Disown
<1>6. CASE pc[a] = "trap"
  <2>1. \A x \in Mutex : ~Owns(a, x) /\ ~Owns(a, x)'
    BY <1>1, <1>6 DEF Owns, InFault
  <2>2. releasing'[a] = m /\ pc'[a] = "release"
    BY <1>1, <1>6
  <2>3. \A x \in Mutex \ {m} :
           (Has(a, x) <=> sem[x].user_asid = a) /\ (Has(a, x)' <=> sem[x].user_asid = a)
    BY <1>4, <1>5, <1>6, <2>1, <2>2 DEF Has
  <2>4. Has(a, m)'
    BY <2>2 DEF Has
  <2> QED BY <1>1, <1>2, <1>6, <2>1, <2>2, <2>3, <2>4, DisownedNow
<1>7. CASE pc[a] # "trap"
  <2>1. \A x \in Mutex : (Has(a, x) <=> Owns(a, x)) /\ (sem[x].user_asid = a <=> Owns(a, x))
    BY <1>1, <1>4, <1>7 DEF Has, MutexInv, ProcessOK
  <2>2. Owns(a, m) /\ ~Owns(a, m)' /\ Has(a, m)'
    BY <1>1, <1>3, <1>7, CallMutexFacts DEF Owns, Has, InFault
  <2>3. \A x \in Mutex \ {m} : (Owns(a, x)' <=> Owns(a, x)) /\ (Has(a, x)' <=> Owns(a, x)')
    BY <1>1, <1>3, <1>4, <1>7 DEF Owns, Has, InFault
  <2> QED BY <1>1, <1>2, <1>7, <2>1, <2>2, <2>3, DisownedNow
<1> QED BY <1>6, <1>7

LEMMA UnlockStep ==
  ASSUME Shape, MutexInv, NEW a \in Asid,
         UnlockCall(a) \/ UnlockFault(a) \/ UnlockFree(a) \/ Released(a)
  PROVE  MutexInv' /\ SemType'
<1> USE DEF Shape
<1>1. PICK m \in Mutex :
        /\ Unlock(a, m)
        /\ \/ pc[a] = "unlock" /\ pc'[a] = "user" /\ m = CallMutex(a) /\ back' = back
           \/ /\ pc[a] = "faultunlock" /\ pc'[a] = back[a] /\ m = SwapPool
              /\ call' = call /\ back' = [back EXCEPT ![a] = "user"]
           \/ pc[a] = "freeunlock" /\ pc'[a] = "signal" /\ m = SwapPool
           \/ pc[a] = "release" /\ pc'[a] = "trap" /\ m = releasing[a]
        /\ \A b \in Asid \ {a} : Stays(b)
        /\ \A x \in Mutex : ~BlockedOn(sem[x], a)
  BY GotoFacts, CallMutexFacts, MutexFacts
  DEF UnlockCall, UnlockFault, UnlockFree, Released, Stays, callVars
<1>2. \A x \in Mutex : ~Waiting(a, x) /\ ~Waiting(a, x)'
  BY <1>1 DEF Waiting
<1>3. \A x \in Mutex \ {m} : sem'[x] = sem[x]
  BY <1>1 DEF Unlock
<1>4. Has(a, m)
  BY <1>1 DEF Has
<1>5. CASE pc[a] = "release"
  <2>1. \A x \in Mutex : ~Owns(a, x) /\ ~Owns(a, x)'
    BY <1>1, <1>5 DEF Owns, InFault
  <2>2. \A x \in Mutex \ {m} :
           (Has(a, x) <=> sem[x].user_asid = a) /\ (Has(a, x)' <=> sem[x].user_asid = a)
    BY <1>1, <1>2, <1>3, <1>5, <2>1 DEF Has
  <2>3. sem[m].user_asid # a
    BY <1>1, <1>5 DEF MutexInv, ProcessOK
  <2> QED BY <1>1, <1>2, <1>4, <1>5, <2>1, <2>2, <2>3, Unlocked
<1>6. CASE pc[a] # "release"
  <2>1. \A x \in Mutex : sem[x].user_asid = a <=> Owns(a, x)
    BY <1>1, <1>6 DEF MutexInv, ProcessOK
  <2>2. \A x \in Mutex \ {m} : (Has(a, x) <=> Owns(a, x)) /\ (Has(a, x)' <=> Owns(a, x)')
    BY <1>1, <1>2, <1>6 DEF Has
  <2>3. ~Owns(a, m)
    BY <1>1, <1>6, CallMutexFacts DEF Owns, InFault
  <2>4. ~Owns(a, m)' /\ \A x \in Mutex \ {m} : Owns(a, x)' <=> Owns(a, x)
    <3>1. CASE pc[a] = "faultunlock"
      <4>1. CallMutex(a)' = CallMutex(a) /\ pc'[a] \in {"user", "loop", "buffer"}
        BY <1>1, <3>1 DEF CallMutex
      <4> QED BY <1>1, <3>1, <4>1, CallMutexFacts DEF Owns, InFault
    <3>2. CASE pc[a] # "faultunlock"
      BY <1>1, <1>6, <3>2 DEF Owns, InFault
    <3> QED BY <3>1, <3>2
  <2>5. pc'[a] \notin {"release", "trap", "unlock", "faultunlock", "freeunlock"}
    BY <1>1, <1>6
  <2> QED BY <1>1, <1>2, <1>4, <2>1, <2>2, <2>3, <2>4, <2>5, Unlocked
<1> QED BY <1>5, <1>6

LEMMA NextSteps == Next <=> TestStep \/ (\E a \in Asid : Step(a)) \/ Stutter
BY DEF Next, Step

\* The steps of test() leave the processes alone, but for the one it creates.
LEMMA TestKeepsMutexes ==
  ASSUME Shape, MutexInv, TestStep
  PROVE  MutexInv' /\ SemType'
<1> USE DEF Shape
<1>1. UNCHANGED <<sem, holders, call, back, releasing>>
  BY DEF TestStep, StartProcess, CreateProcess, HeaderError, TakeMaster, MasterTaken,
         TestTerminates, KeepSems, callVars
<1>2. ASSUME NEW a \in Asid, pc[a] = "new", pc'[a] = "user",
             \A b \in Asid \ {a} : pc'[b] = pc[b]
      PROVE  MutexInv' /\ SemType'
  <2>1. \A b \in Asid \ {a} : Stays(b)
    BY <1>1, <1>2 DEF Stays
  <2>2. \A x \in Mutex : ~Owns(a, x) /\ ~Owns(a, x)' /\ ~Waiting(a, x) /\ ~Waiting(a, x)'
    BY <1>2 DEF Owns, Waiting, InFault
  <2>3. \A x \in Mutex : ~Has(a, x) /\ ~Has(a, x)'
    BY <1>2, <2>2 DEF Has
  <2>4. \A x \in Mutex : sem[x].user_asid # a /\ ~BlockedOn(sem[x], a)
    BY <1>2, <2>2 DEF MutexInv, MutexOK, ProcessOK, BlockedOn
  <2> QED BY <1>1, <1>2, <2>1, <2>2, <2>3, <2>4, Moved DEF SemType
<1>3. CASE UNCHANGED pc
  BY <1>1, <1>3 DEF MutexInv, MutexOK, ProcessOK, Has, Owns, Waiting, CallMutex, SemType
<1> QED
  BY <1>2, <1>3
  DEF TestStep, StartProcess, CreateProcess, HeaderError, TakeMaster, MasterTaken, TestTerminates

LEMMA MutexInvStep ==
  ASSUME Shape, MutexInv, [Next]_vars
  PROVE  MutexInv' /\ SemType'
<1>1. CASE TestStep
  BY <1>1, TestKeepsMutexes
<1>2. ASSUME NEW a \in Asid, Step(a)
      PROVE  MutexInv' /\ SemType'
  <2>1. CASE TerminalError(a)
    <3>1. UNCHANGED <<sem, holders, pc, call, back, releasing>>
      BY <2>1 DEF TerminalError, KeepSems, callVars
    <3> QED
      BY <3>1 DEF MutexInv, MutexOK, ProcessOK, Has, Owns, Waiting, CallMutex, SemType, Shape
  <2> QED
    BY <1>2, <2>1, MovedStep, LockStep, OwnStep, DisownStep, UnlockStep
    DEF Step, ProgramStep, CallStep, FaultStep, EndStep, TerminalStep
<1>3. CASE UNCHANGED vars
  BY <1>3 DEF vars, callVars, MutexInv, MutexOK, ProcessOK, Has, Owns, Waiting, CallMutex,
                SemType, Shape
<1> QED BY <1>1, <1>2, <1>3, NextSteps DEF Stutter

-----------------------------------------------------------------------------
(* The rest of the types                                                   *)

\* What a process changes.
LEMMA ProcessChanges ==
  ASSUME Shape, NEW a \in Asid, Step(a)
  PROVE  /\ \A b \in Asid \ {a} : Stays(b) /\ left'[b] = left[b]
         /\ UNCHANGED <<test, taken>>
         /\ Signal(a) \/ UNCHANGED master_sem
         /\ pc[a] # "new" /\ pc'[a] # "new"
BY DEF Step, ProgramStep, CallStep, FaultStep, EndStep, TerminalStep, Stays, Goto, callVars,
       KeepSems, Lock, Own, Disown, Unlock, Shape, InCall, InFault, Ending, ReadCall, Terminate,
       Trap, LockCall, OwnCall, NextCharacter, LastCharacter, Written, Received, PrinterError,
       TerminalError, Buffered, DisownCall, UnlockCall, PageFault, LockFault, OwnFault,
       PageLoaded, FlashError, DisownFault, UnlockFault, Release, Released, NothingToRelease,
       LockFree, OwnFree, DisownFree, UnlockFree, Signal, TermProcess, WriteCall

LEMMA ControlTypeStep ==
  ASSUME Shape, NEW a \in Asid, Step(a)
  PROVE  /\ nucleus' \in {"runs", "halt", "panic"}
         /\ pc' \in [Asid -> {"new", "user"} \cup InCall \cup InFault \cup Ending]
         /\ call' \in [Asid -> Call]
         /\ back' \in [Asid -> {"user", "loop", "buffer"}]
         /\ releasing' \in [Asid -> Mutex]
<1> USE DEF Shape
<1>1. nucleus' \in {"runs", "halt", "panic"}
  BY DEF Step, ProgramStep, CallStep, FaultStep, EndStep, TerminalStep, Goto, ReadCall,
         Terminate, Trap, LockCall, OwnCall, NextCharacter, LastCharacter, Written, Received,
         PrinterError, TerminalError, Buffered, DisownCall, UnlockCall, PageFault, LockFault,
         OwnFault, PageLoaded, FlashError, DisownFault, UnlockFault, Release, Released,
         NothingToRelease, LockFree, OwnFree, DisownFree, UnlockFree, Signal, TermProcess,
         WriteCall
<1>2. pc' \in [Asid -> {"new", "user"} \cup InCall \cup InFault \cup Ending]
  BY DEF Step, ProgramStep, CallStep, FaultStep, EndStep, TerminalStep, Goto, InCall,
         InFault, Ending, ReadCall, Terminate, Trap, LockCall, OwnCall, NextCharacter,
         LastCharacter, Written, Received, PrinterError, TerminalError, Buffered, DisownCall,
         UnlockCall, PageFault, LockFault, OwnFault, PageLoaded, FlashError, DisownFault,
         UnlockFault, Release, Released, NothingToRelease, LockFree, OwnFree, DisownFree,
         UnlockFree, Signal, TermProcess, WriteCall
<1>3. call' \in [Asid -> Call]
  BY DEF Step, ProgramStep, CallStep, FaultStep, EndStep, TerminalStep, Goto, callVars, Call,
         ReadCall, Terminate, Trap, LockCall, OwnCall, NextCharacter, LastCharacter, Written,
         Received, PrinterError, TerminalError, Buffered, DisownCall, UnlockCall, PageFault,
         LockFault, OwnFault, PageLoaded, FlashError, DisownFault, UnlockFault, Release,
         Released, NothingToRelease, LockFree, OwnFree, DisownFree, UnlockFree, Signal,
         TermProcess, WriteCall
<1>4. back' \in [Asid -> {"user", "loop", "buffer"}]
  BY DEF Step, ProgramStep, CallStep, FaultStep, EndStep, TerminalStep, Goto, callVars,
         ReadCall, Terminate, Trap, LockCall, OwnCall, NextCharacter, LastCharacter, Written,
         Received, PrinterError, TerminalError, Buffered, DisownCall, UnlockCall, PageFault,
         LockFault, OwnFault, PageLoaded, FlashError, DisownFault, UnlockFault, Release,
         Released, NothingToRelease, LockFree, OwnFree, DisownFree, UnlockFree, Signal,
         TermProcess, WriteCall
<1>5. releasing' \in [Asid -> Mutex]
  BY MutexFacts
  DEF Step, ProgramStep, CallStep, FaultStep, EndStep, TerminalStep, Goto, callVars,
      ReadCall, Terminate, Trap, LockCall, OwnCall, NextCharacter, LastCharacter, Written,
      Received, PrinterError, TerminalError, Buffered, DisownCall, UnlockCall, PageFault,
      LockFault, OwnFault, PageLoaded, FlashError, DisownFault, UnlockFault, Release,
      Released, NothingToRelease, LockFree, OwnFree, DisownFree, UnlockFree, Signal,
      TermProcess, WriteCall
<1> QED BY <1>1, <1>2, <1>3, <1>4, <1>5

LEMMA LeftStep ==
  ASSUME Shape, LeftInv, NEW a \in Asid, Step(a)
  PROVE  left' \in [Asid -> 0 .. MaxLength] /\ LeftInv'
<1> USE SupportAssumption DEF Shape
<1>1. CASE Written(a)
  <2>1. /\ pc[a] = "io" /\ call[a] # "receiver" /\ pc'[a] = "loop"
        /\ left' = [left EXCEPT ![a] = @ - 1]
    BY <1>1, GotoFacts DEF Written
  <2>2. left[a] \in 0 .. MaxLength /\ left[a] > 0
    BY <2>1 DEF LeftInv
  <2>3. left[a] - 1 \in 0 .. MaxLength
    BY <2>2
  <2>4. left' \in [Asid -> 0 .. MaxLength]
    BY <2>1, <2>3
  <2> QED BY <2>1, <2>4, ProcessChanges DEF LeftInv, Stays
<1>2. CASE NextCharacter(a)
  <2>1. /\ left' = left /\ call' = call /\ pc[a] = "loop"
        /\ call[a] = "receiver" \/ left[a] > 0
    BY <1>2, GotoFacts DEF NextCharacter, callVars
  <2> QED BY <2>1, ProcessChanges DEF LeftInv, Stays
<1>3. CASE ~Written(a) /\ ~NextCharacter(a) /\ ~TerminalError(a)
  <2>1. left' \in [Asid -> 0 .. MaxLength]
    BY <1>3
    DEF Step, ProgramStep, CallStep, FaultStep, EndStep, TerminalStep, Goto, callVars,
        ReadCall, Terminate, Trap, LockCall, OwnCall, LastCharacter, Received, PrinterError,
        Buffered, DisownCall, UnlockCall, PageFault, LockFault, OwnFault, PageLoaded,
        FlashError, DisownFault, UnlockFault, Release, Released, NothingToRelease, LockFree,
        OwnFree, DisownFree, UnlockFree, Signal, TermProcess, WriteCall
  <2>2. pc'[a] # "io"
    BY <1>3
    DEF Step, ProgramStep, CallStep, FaultStep, EndStep, TerminalStep, Goto, ReadCall,
        Terminate, Trap, LockCall, OwnCall, LastCharacter, Received, PrinterError, Buffered,
        DisownCall, UnlockCall, PageFault, LockFault, OwnFault, PageLoaded, FlashError,
        DisownFault, UnlockFault, Release, Released, NothingToRelease, LockFree, OwnFree,
        DisownFree, UnlockFree, Signal, TermProcess, WriteCall
  <2> QED BY <2>1, <2>2, ProcessChanges DEF LeftInv, Stays
<1>4. CASE TerminalError(a)
  BY <1>4 DEF TerminalError, callVars, LeftInv
<1> QED BY <1>1, <1>2, <1>3, <1>4

LEMMA ShapeStep ==
  ASSUME Shape, LeftInv, MutexInv, [Next]_vars
  PROVE  Shape' /\ LeftInv'
<1>1. CASE TestStep
  <2>1. nucleus' \in {"runs", "halt", "panic"}
    BY <1>1
    DEF Shape, TestStep, StartProcess, CreateProcess, HeaderError, TakeMaster, MasterTaken,
        TestTerminates
  <2>2. pc' \in [Asid -> {"new", "user"} \cup InCall \cup InFault \cup Ending]
    BY <1>1
    DEF Shape, TestStep, StartProcess, CreateProcess, HeaderError, TakeMaster, MasterTaken,
        TestTerminates
  <2>3. UNCHANGED callVars
    BY <1>1
    DEF TestStep, StartProcess, CreateProcess, HeaderError, TakeMaster, MasterTaken, TestTerminates
  <2>4. \A a \in Asid : pc'[a] = "io" => pc[a] = "io"
    BY <1>1
    DEF Shape, TestStep, StartProcess, CreateProcess, HeaderError, TakeMaster, MasterTaken,
        TestTerminates
  <2>5. SemType'
    BY <1>1, TestKeepsMutexes
  <2> QED BY <2>1, <2>2, <2>3, <2>4, <2>5 DEF Shape, callVars, LeftInv
<1>2. ASSUME NEW a \in Asid, Step(a)
      PROVE  Shape' /\ LeftInv'
  <2>1. SemType'
    BY <1>2, MutexInvStep, NextSteps
  <2> QED BY <1>2, <2>1, ControlTypeStep, LeftStep DEF Shape
<1>3. CASE UNCHANGED vars
  BY <1>3 DEF vars, callVars, Shape, SemType, LeftInv
<1> QED BY <1>1, <1>2, <1>3, NextSteps DEF Stutter

-----------------------------------------------------------------------------
(* The signals                                                             *)

MasterType ==
  /\ test \in {"starting", "header", "waiting", "taking", "terminate"}
  /\ taken \in 0 .. Cardinality(Asid)
  /\ master_sem \in SemaphoreType(Asid \cup {Test})

LEMMA ShapeIsTypeOK == Shape /\ MasterType <=> TypeOK
BY DEF Shape, MasterType, TypeOK, SemType

LEMMA OneInQueue ==
  /\ Range(<<>>) = {} /\ IsInjective(<<>>)
  /\ Range(<<Test>>) = {Test} /\ IsInjective(<<Test>>) /\ <<Test>> # <<>>
  /\ Tail(<<Test>>) = <<>>
  /\ InsertProcQ(<<>>, Test) = <<Test>>
<1>1. DOMAIN <<Test>> = {1} /\ <<Test>>[1] = Test
  OBVIOUS
<1>2. DOMAIN <<>> = {}
  OBVIOUS
<1> QED BY <1>1, <1>2 DEF Range, IsInjective, InsertProcQ

\* The numbers of processes that have signalled and that wait for test().
LEMMA CountFacts ==
  ASSUME MasterType, MasterInv
  PROVE  /\ IsFiniteSet(Signallers) /\ Cardinality(Signallers) \in Nat
         /\ Cardinality(Signallers) <= Cardinality(Asid) /\ Cardinality(Asid) \in Nat
         /\ Cardinality(Signallers) = Cardinality(Asid) => Signallers = Asid
         /\ Queued \subseteq Signallers
         /\ IsFiniteSet(Queued) /\ Cardinality(Queued) \in Nat
         /\ Cardinality(Queued) = 0 => Queued = {}
<1>1. Queued \subseteq Asid
  BY DEF Queued, MasterType, SemaphoreType, Range
<1>2. Queued \subseteq Signallers
  BY <1>1 DEF MasterInv, Signallers
<1>3. Signallers \in SUBSET Asid
  BY DEF Signallers
<1>4. /\ IsFiniteSet(Signallers) /\ Cardinality(Signallers) <= Cardinality(Asid)
      /\ Cardinality(Signallers) = Cardinality(Asid) => Signallers = Asid
  BY <1>3, SupportAssumption, FS_Subset
<1>5. IsFiniteSet(Queued)
  BY <1>2, <1>4, FS_Subset
<1> QED BY <1>2, <1>4, <1>5, SupportAssumption, FS_CardinalityType, FS_EmptySet

\* The count when something moves between the semaphore, its queue and test().
LEMMA CountMoves ==
  ASSUME NEW c \in Nat, NEW t \in Nat,
         NEW g, NEW g2, NEW v, NEW v2, NEW k, NEW k2,
         g \in Nat, g2 \in Nat, v \in Nat, v2 \in Nat, k \in Nat, k2 \in Nat,
         c = t + g + v + k
  PROVE  /\ k2 + v2 + g2 = k + v + g + 1 => c + 1 = t + g2 + v2 + k2
         /\ k2 + v2 + g2 = k + v + g => c = t + g2 + v2 + k2
OBVIOUS

\* VERHOGEN: the signal is in master_sem, given to test() or in the queue.
LEMMA SignalStep ==
  ASSUME Shape, MasterType, MasterInv, TestInv, NEW a \in Asid, Signal(a)
  PROVE  MasterType' /\ MasterInv' /\ TestInv'
<1> DEFINE q == master_sem.queue
           r == master_sem'.queue
           v == master_sem.val
<1>1. /\ pc[a] = "signal" /\ pc'[a] = "terminate" /\ \A b \in Asid \ {a} : pc'[b] = pc[b]
      /\ master_sem' = SemV(master_sem, a)
      /\ UNCHANGED <<test, taken>>
      /\ a \notin Range(q) /\ a # Test
  BY GotoFacts, MutexFacts DEF Signal, MasterV, Goto, Runs, BlockedOn
<1>2. /\ Signallers' = Signallers \cup {a} /\ a \notin Signallers
      /\ Cardinality(Signallers') = Cardinality(Signallers) + 1
  <2>1. Signallers' = Signallers \cup {a} /\ a \notin Signallers
    BY <1>1 DEF Signallers
  <2> HIDE DEF Signallers
  <2> QED BY <2>1, CountFacts, FS_AddElement
<1>3. q \in Seq(Asid \cup {Test}) /\ v \in {0, 1} /\ taken \in Nat
  BY CountFacts DEF MasterType, SemaphoreType
<1>4. TestInv'
  BY <1>1 DEF TestInv
<1>5. ASSUME Queued' \in {Queued, Queued \cup {a}},
             Cardinality(Queued') + master_sem'.val + Got' = Cardinality(Queued) + v + Got + 1,
             master_sem' \in SemaphoreType(Asid \cup {Test}),
             master_sem'.val = 0 => r \in {<<>>, <<Test>>},
             Test \in Range(r) => Test \in Range(q) /\ master_sem'.val = 0,
             IsInjective(r)
      PROVE  MasterType' /\ MasterInv' /\ TestInv'
  <2>1. MasterType'
    BY <1>1, <1>5 DEF MasterType
  <2>2. \A b \in Queued' : pc'[b] = "terminate"
    <3>1. \A b \in Queued : b \in Asid \ {a} /\ pc[b] = "terminate"
      BY <1>1, <1>3 DEF MasterInv, Queued, Range
    <3> QED BY <1>1, <1>5, <3>1
  <2>3. Cardinality(Signallers') = taken' + Got' + master_sem'.val + Cardinality(Queued')
    <3>1. Cardinality(Signallers) = taken + Got + v + Cardinality(Queued)
      BY DEF MasterInv
    <3>2. taken' = taken /\ Got \in {0, 1} /\ Got' \in {0, 1}
      BY <1>1 DEF Got
    <3>3. master_sem'.val \in {0, 1}
      BY <1>5 DEF SemaphoreType
    <3>4. Cardinality(Queued') \in Nat
      <4>1. IsFiniteSet(Queued) /\ IsFiniteSet(Queued \cup {a})
        BY CountFacts, FS_AddElement
      <4> QED BY <1>5, <4>1, FS_CardinalityType
    <3>5. Cardinality(Queued') + master_sem'.val + Got' = Cardinality(Queued) + v + Got + 1
      BY <1>5
    <3>6. Cardinality(Signallers) \in Nat /\ Cardinality(Queued) \in Nat
      BY CountFacts
    <3>7. taken \in Nat /\ v \in Nat /\ master_sem'.val \in Nat /\ Got \in Nat /\ Got' \in Nat
      BY <1>3, <3>2, <3>3
    <3> HIDE DEF v, Got, Signallers, Queued
    <3>8. Cardinality(Signallers) + 1 = taken + Got' + master_sem'.val + Cardinality(Queued')
      BY <3>1, <3>4, <3>5, <3>6, <3>7, CountMoves
    <3> QED BY <1>2, <3>2, <3>8
  <2> QED BY <1>1, <1>4, <1>5, <2>1, <2>2, <2>3 DEF MasterInv
<1>6. CASE v = 1
  <2>1. master_sem' = [master_sem EXCEPT !.queue = InsertProcQ(@, a)]
    BY <1>1, <1>6 DEF SemV
  <2>2. /\ r = InsertProcQ(q, a) /\ r \in Seq(Asid \cup {Test})
        /\ Range(r) = Range(q) \cup {a} /\ IsInjective(r)
        /\ master_sem' \in SemaphoreType(Asid \cup {Test}) /\ master_sem'.val = 1
    <3>1. /\ InsertProcQ(q, a) \in Seq(Asid \cup {Test})
          /\ Range(InsertProcQ(q, a)) = Range(q) \cup {a}
          /\ IsInjective(InsertProcQ(q, a))
      BY <1>1, <1>3, InsertProcQProperties DEF MasterInv
    <3> QED BY <1>6, <2>1, <3>1 DEF MasterType, SemaphoreType
  <2>3. Queued' = Queued \cup {a} /\ a \notin Queued
    BY <1>1, <2>2 DEF Queued
  <2>4. Cardinality(Queued') = Cardinality(Queued) + 1
    BY <2>3, CountFacts, FS_AddElement
  <2>5. Got' = Got /\ Got \in {0, 1} /\ Test \notin Range(r)
    BY <1>1, <1>6, <2>2 DEF Got, BlockedOn, MasterInv
  <2>6. Cardinality(Queued') + master_sem'.val + Got' = Cardinality(Queued) + v + Got + 1
    BY <1>6, <2>2, <2>4, <2>5, CountFacts
  <2> HIDE DEF q, r, v
  <2> QED BY <1>5, <1>6, <2>2, <2>3, <2>5, <2>6
<1>7. CASE v = 0 /\ q = <<>>
  <2>1. master_sem' = [master_sem EXCEPT !.val = 1]
    BY <1>1, <1>7 DEF SemV
  <2>2. r = q /\ master_sem'.val = 1 /\ master_sem' \in SemaphoreType(Asid \cup {Test})
    BY <2>1 DEF MasterType, SemaphoreType
  <2>3. Queued' = Queued /\ Got' = Got /\ Got \in {0, 1}
    BY <1>1, <2>2 DEF Queued, Got, BlockedOn
  <2>4. Cardinality(Queued') + master_sem'.val + Got' = Cardinality(Queued) + v + Got + 1
    BY <1>7, <2>2, <2>3, CountFacts
  <2>5. IsInjective(r) /\ Test \notin Range(r)
    BY <1>7, <2>2, OneInQueue
  <2> HIDE DEF q, r, v
  <2> QED BY <1>5, <2>2, <2>3, <2>4, <2>5
<1>8. CASE v = 0 /\ q = <<Test>>
  <2>1. master_sem' = [master_sem EXCEPT !.queue = Tail(@)]
    BY <1>1, <1>8, OneInQueue DEF SemV
  <2>2. r = <<>> /\ master_sem'.val = 0 /\ master_sem' \in SemaphoreType(Asid \cup {Test})
    <3>1. Tail(q) = <<>> /\ <<>> \in Seq(Asid \cup {Test})
      BY <1>8, OneInQueue
    <3> QED BY <1>8, <2>1, <3>1 DEF MasterType, SemaphoreType
  <2>3. Queued' = Queued
    BY <1>8, <2>2, OneInQueue DEF Queued
  <2>4. Got = 0 /\ Got' = 1
    <3>1. test = "taking" /\ Test \in Range(q)
      BY <1>8, OneInQueue DEF MasterInv
    <3> QED BY <1>1, <2>2, <3>1, OneInQueue DEF Got, BlockedOn
  <2>5. Cardinality(Queued') + master_sem'.val + Got' = Cardinality(Queued) + v + Got + 1
    BY <1>8, <2>2, <2>3, <2>4, CountFacts
  <2>6. IsInjective(r) /\ Test \notin Range(r)
    BY <2>2, OneInQueue
  <2> HIDE DEF q, r, v
  <2> QED BY <1>5, <2>2, <2>3, <2>5, <2>6
<1> QED BY <1>3, <1>6, <1>7, <1>8 DEF MasterInv

\* PASSEREN of test().
LEMMA TakeStep ==
  ASSUME Shape, MasterType, MasterInv, TestInv, TakeMaster
  PROVE  MasterType' /\ MasterInv' /\ TestInv'
<1> DEFINE q == master_sem.queue
           r == master_sem'.queue
           v == master_sem.val
<1>1. /\ test = "waiting" /\ test' = "taking"
      /\ UNCHANGED <<pc, taken>>
      /\ master_sem' = SemP(master_sem, Test)
      /\ Test \notin Range(q)
  BY DEF TakeMaster, Runs, BlockedOn
<1>2. q \in Seq(Asid \cup {Test}) /\ v \in {0, 1} /\ taken \in Nat
  BY CountFacts DEF MasterType, SemaphoreType
<1>3. TestInv'
  BY <1>1 DEF TestInv
<1>4. Signallers' = Signallers /\ Got = 0
  BY <1>1 DEF Signallers, Got
<1>5. ASSUME Queued' \subseteq Queued,
             Cardinality(Queued') + master_sem'.val + Got' = Cardinality(Queued) + v,
             master_sem' \in SemaphoreType(Asid \cup {Test}),
             master_sem'.val = 0 => r \in {<<>>, <<Test>>},
             master_sem'.val = 1 => Test \notin Range(r),
             IsInjective(r)
      PROVE  MasterType' /\ MasterInv' /\ TestInv'
  <2>1. MasterType'
    BY <1>1, <1>5 DEF MasterType
  <2>2. \A b \in Queued' : pc'[b] = "terminate"
    BY <1>1, <1>5 DEF MasterInv
  <2>3. Cardinality(Signallers') = taken' + Got' + master_sem'.val + Cardinality(Queued')
    <3>1. Cardinality(Signallers) = taken + Got + v + Cardinality(Queued)
      BY DEF MasterInv
    <3>2. taken' = taken /\ Got' \in {0, 1}
      BY <1>1 DEF Got
    <3>3. master_sem'.val \in {0, 1}
      BY <1>5 DEF SemaphoreType
    <3>4. Cardinality(Queued') \in Nat
      BY <1>5, CountFacts, FS_Subset, FS_CardinalityType
    <3>5. Cardinality(Queued') + master_sem'.val + Got' = Cardinality(Queued) + v
      BY <1>5
    <3>6. Cardinality(Signallers') = Cardinality(Signallers)
      BY <1>4
    <3>7. Cardinality(Signallers) \in Nat /\ Cardinality(Queued) \in Nat
      BY CountFacts
    <3>8. taken \in Nat /\ v \in Nat /\ master_sem'.val \in Nat /\ Got \in Nat /\ Got' \in Nat
      BY <1>2, <1>4, <3>2, <3>3
    <3>9. Cardinality(Queued') + master_sem'.val + Got' = Cardinality(Queued) + v + Got
      BY <1>4, <3>5, <3>7, <3>8
    <3> HIDE DEF v, Got, Signallers, Queued
    <3>10. Cardinality(Signallers) = taken + Got' + master_sem'.val + Cardinality(Queued')
      BY <3>1, <3>4, <3>7, <3>8, <3>9, CountMoves
    <3> QED BY <3>2, <3>6, <3>10
  <2> QED BY <1>1, <1>3, <1>5, <2>1, <2>2, <2>3 DEF MasterInv
<1>6. CASE v = 0
  <2>1. q = <<>>
    BY <1>1, <1>6, OneInQueue DEF MasterInv
  <2>2. master_sem' = [master_sem EXCEPT !.queue = InsertProcQ(@, Test)]
    BY <1>1, <1>6 DEF SemP
  <2>3. r = <<Test>> /\ master_sem'.val = 0 /\ master_sem' \in SemaphoreType(Asid \cup {Test})
    <3>1. InsertProcQ(q, Test) = <<Test>> /\ <<Test>> \in Seq(Asid \cup {Test})
      BY <2>1, OneInQueue
    <3> QED BY <1>6, <2>2, <3>1 DEF MasterType, SemaphoreType
  <2>4. Queued' = Queued /\ Got' = 0
    BY <2>1, <2>3, OneInQueue DEF Queued, Got, BlockedOn
  <2> QED BY <1>5, <1>6, <2>3, <2>4, OneInQueue, CountFacts
<1>7. CASE v = 1 /\ q # <<>>
  <2>1. master_sem' = [master_sem EXCEPT !.queue = Tail(@)]
    BY <1>1, <1>7 DEF SemP
  <2>2. /\ Head(q) \in Range(q) /\ Tail(q) \in Seq(Asid \cup {Test})
        /\ Range(q) = Range(Tail(q)) \cup {Head(q)}
        /\ IsInjective(Tail(q)) /\ Head(q) \notin Range(Tail(q))
    BY <1>2, <1>7, TailProperties DEF MasterInv
  <2>3. r = Tail(q) /\ master_sem'.val = 1 /\ master_sem' \in SemaphoreType(Asid \cup {Test})
    BY <1>7, <2>1, <2>2 DEF MasterType, SemaphoreType
  <2>4. Queued' = Queued \ {Head(q)} /\ Head(q) \in Queued /\ Test \notin Range(r)
    BY <1>1, <2>2, <2>3 DEF Queued
  <2>5. Cardinality(Queued') = Cardinality(Queued) - 1
    BY <2>4, CountFacts, FS_RemoveElement
  <2>6. Got' = 1
    BY <1>1, <2>4 DEF Got, BlockedOn
  <2> QED BY <1>5, <1>7, <2>2, <2>3, <2>4, <2>5, <2>6, CountFacts
<1>8. CASE v = 1 /\ q = <<>>
  <2>1. master_sem' = [master_sem EXCEPT !.val = 0]
    BY <1>1, <1>8 DEF SemP
  <2>2. r = <<>> /\ master_sem'.val = 0 /\ master_sem' \in SemaphoreType(Asid \cup {Test})
    BY <1>8, <2>1 DEF MasterType, SemaphoreType
  <2>3. Queued' = Queued /\ Got' = 1
    BY <1>1, <1>8, <2>2, OneInQueue DEF Queued, Got, BlockedOn
  <2> QED BY <1>5, <1>8, <2>2, <2>3, OneInQueue, CountFacts
<1> QED BY <1>2, <1>6, <1>7, <1>8

\* The steps that have nothing to do with master_sem.
LEMMA MasterKept ==
  ASSUME Shape, MasterType, MasterInv, UNCHANGED master_sem,
         Signallers' = Signallers,
         \A b \in Queued : pc'[b] = pc[b],
         test' \in {"starting", "header", "waiting", "taking", "terminate"},
         taken' \in 0 .. Cardinality(Asid),
         Test \in Range(master_sem.queue) => test' = "taking",
         taken' + Got' = taken + Got
  PROVE  MasterType' /\ MasterInv'
<1>1. MasterType'
  BY DEF MasterType
<1>2. Queued' = Queued
  BY DEF Queued
<1>3. Cardinality(Signallers') = taken' + Got' + master_sem'.val + Cardinality(Queued')
  BY <1>2 DEF MasterInv
<1> QED BY <1>1, <1>2, <1>3 DEF MasterInv

LEMMA MasterStep ==
  ASSUME Shape, MasterType, MasterInv, TestInv, [Next]_vars
  PROVE  MasterType' /\ MasterInv' /\ TestInv'
<1>1. CASE TestStep /\ ~TakeMaster
  <2>1. /\ UNCHANGED master_sem
        /\ \A b \in Asid : pc'[b] = pc[b] \/ (pc[b] = "new" /\ pc'[b] = "user")
    BY <1>1
    DEF TestStep, StartProcess, CreateProcess, HeaderError, MasterTaken, TestTerminates, KeepSems,
        Shape
  <2>2. Signallers' = Signallers /\ \A b \in Queued : pc'[b] = pc[b]
    <3>1. Queued \subseteq Asid
      BY CountFacts DEF Signallers
    <3> QED BY <2>1, <3>1 DEF Signallers, MasterInv
  <2>3. CASE MasterTaken
    <3>1. /\ test = "taking" /\ ~BlockedOn(master_sem, Test)
          /\ taken' = taken + 1
          /\ test' = IF taken + 1 = Cardinality(Asid) THEN "terminate" ELSE "waiting"
      BY <2>3 DEF MasterTaken, Runs, TakenAll
    <3>2. taken < Cardinality(Asid) /\ taken \in Nat /\ Cardinality(Asid) \in Nat
      BY <3>1, CountFacts DEF TestInv, MasterType
    <3>3. taken' \in 0 .. Cardinality(Asid) /\ TestInv'
      BY <3>1, <3>2 DEF TestInv
    <3>4. Got = 1 /\ Got' = 0
      BY <3>1 DEF Got
    <3>5. Test \notin Range(master_sem.queue)
      BY <3>1 DEF BlockedOn
    <3> QED BY <2>1, <2>2, <3>1, <3>2, <3>3, <3>4, <3>5, MasterKept
  <2>4. CASE ~MasterTaken
    <3>1. taken' = taken
      BY <1>1, <2>4 DEF TestStep, StartProcess, CreateProcess, HeaderError, TestTerminates
    <3>2. CASE test' = test
      <4>1. TestInv' /\ Got' = Got
        BY <2>1, <3>1, <3>2 DEF TestInv, Got
      <4> QED BY <2>1, <2>2, <3>1, <3>2, <4>1, MasterKept DEF MasterType, MasterInv
    <3>3. CASE test' # test
      <4>1. /\ test \in {"starting", "header"} /\ test' \in {"starting", "header", "waiting"}
            /\ test' = "waiting" => Asid # {}
        BY <1>1, <2>4, <3>3 DEF TestStep, StartProcess, CreateProcess, HeaderError, TestTerminates
      <4>2. Cardinality(Asid) \in Nat /\ (Asid # {} => Cardinality(Asid) # 0)
        BY CountFacts, SupportAssumption, FS_EmptySet
      <4>3. taken = 0 /\ TestInv' /\ Got = 0 /\ Got' = 0
        BY <3>1, <4>1, <4>2 DEF TestInv, Got
      <4>4. Test \notin Range(master_sem.queue)
        BY <4>1 DEF MasterInv
      <4> QED BY <2>1, <2>2, <3>1, <4>1, <4>3, <4>4, MasterKept DEF MasterType
    <3> QED BY <3>2, <3>3
  <2> QED BY <2>3, <2>4
<1>2. ASSUME NEW a \in Asid, Step(a), ~Signal(a)
      PROVE  MasterType' /\ MasterInv' /\ TestInv'
  <2>1. /\ UNCHANGED <<master_sem, test, taken>>
        /\ \A b \in Asid \ {a} : pc'[b] = pc[b]
    BY <1>2, ProcessChanges DEF Stays
  <2>2. /\ pc'[a] \in {"terminate", "dead"} <=> pc[a] \in {"terminate", "dead"}
        /\ pc'[a] = pc[a] \/ ~BlockedOn(master_sem, a)
    BY <1>2
    DEF Step, ProgramStep, CallStep, FaultStep, EndStep, TerminalStep, Goto, Runs, Shape,
        ReadCall, Terminate, Trap, LockCall, OwnCall, NextCharacter, LastCharacter, Written,
        Received, PrinterError, TerminalError, Buffered, DisownCall, UnlockCall, PageFault,
        LockFault, OwnFault, PageLoaded, FlashError, DisownFault, UnlockFault, Release,
        Released, NothingToRelease, LockFree, OwnFree, DisownFree, UnlockFree, TermProcess,
        WriteCall
  <2>3. Signallers' = Signallers
    BY <2>1, <2>2 DEF Signallers
  <2>4. \A b \in Queued : pc'[b] = pc[b]
    <3>1. Queued \subseteq Asid
      BY CountFacts DEF Signallers
    <3> QED BY <2>1, <2>2, <3>1 DEF Queued, BlockedOn
  <2>5. TestInv' /\ Got' = Got
    BY <2>1 DEF TestInv, Got
  <2> QED BY <2>1, <2>3, <2>4, <2>5, MasterKept DEF MasterType, MasterInv
<1>3. CASE UNCHANGED vars
  BY <1>3 DEF vars, MasterType, MasterInv, TestInv, Signallers, Got, Queued
<1> QED
  BY <1>1, <1>2, <1>3, NextSteps, SignalStep, TakeStep DEF Stutter

LEMMA CreatedStep ==
  ASSUME Shape, CreatedInv, [Next]_vars
  PROVE  CreatedInv'
<1>1. CASE TestStep
  <2>1. \/ test' = "waiting" /\ \A a \in Asid : pc'[a] # "new"
        \/ test' \in {"starting", "header"}
        \/ test \notin {"starting", "header"} /\ pc' = pc
        \/ test' = test /\ pc' = pc
    BY <1>1
    DEF TestStep, StartProcess, CreateProcess, HeaderError, TakeMaster, MasterTaken,
        TestTerminates, Shape
  <2> QED BY <2>1 DEF CreatedInv
<1>2. ASSUME NEW a \in Asid, Step(a)
      PROVE  CreatedInv'
  BY <1>2, ProcessChanges DEF CreatedInv, Stays
<1>3. CASE UNCHANGED vars
  BY <1>3 DEF vars, CreatedInv
<1> QED BY <1>1, <1>2, <1>3, NextSteps DEF Stutter

-----------------------------------------------------------------------------
(* Who gets a mutex and who gives it back                                  *)

\* A P is of a process that has not the mutex, a V of the one that has it.
LEMMA LockBegins ==
  ASSUME Shape, MutexInv, NEW a \in Asid, LockCall(a) \/ LockFault(a) \/ LockFree(a)
  PROVE  \E m \in {SwapPool, CallMutex(a)} :
           Lock(a, m) /\ ~BlockedOn(sem[m], a) /\ a \notin holders[m]
<1>1. PICK m \in {SwapPool, CallMutex(a)} :
        /\ m \in Mutex
        /\ Lock(a, m)
        /\ \/ pc[a] = "lock" /\ m = CallMutex(a)
           \/ pc[a] \in {"faultlock", "freelock"} /\ m = SwapPool
        /\ ~BlockedOn(sem[m], a)
  BY GotoFacts, CallMutexFacts, MutexFacts DEF LockCall, LockFault, LockFree
<1>2. ~Owns(a, m) /\ ~Waiting(a, m)
  BY <1>1, CallMutexFacts DEF Owns, Waiting, InFault
<1>3. ~Has(a, m)
  BY <1>1, <1>2 DEF Has
<1> QED BY <1>1, <1>3 DEF MutexInv, ProcessOK

LEMMA UnlockBegins ==
  ASSUME Shape, MutexInv, NEW a \in Asid,
         UnlockCall(a) \/ UnlockFault(a) \/ UnlockFree(a) \/ Released(a)
  PROVE  \E m \in Mutex : Unlock(a, m) /\ ~BlockedOn(sem[m], a) /\ a \in holders[m]
<1>1. PICK m \in Mutex :
        /\ Unlock(a, m)
        /\ \/ pc[a] = "unlock" /\ m = CallMutex(a)
           \/ pc[a] \in {"faultunlock", "freeunlock"} /\ m = SwapPool
           \/ pc[a] = "release" /\ m = releasing[a]
        /\ ~BlockedOn(sem[m], a)
  BY GotoFacts, CallMutexFacts, MutexFacts
  DEF UnlockCall, UnlockFault, UnlockFree, Released, Shape
<1>2. Has(a, m)
  BY <1>1 DEF Has
<1> QED BY <1>1, <1>2 DEF MutexInv, ProcessOK

LineKept(m) == holders'[m] = holders[m] /\ sem'[m].queue = sem[m].queue

LEMMA LinesChange ==
  ASSUME Shape, MutexInv, [Next]_vars
  PROVE  \/ \E a \in Asid : \E m \in {SwapPool, CallMutex(a)} :
              Lock(a, m) /\ ~BlockedOn(sem[m], a) /\ a \notin holders[m]
         \/ \E a \in Asid, m \in Mutex :
              Unlock(a, m) /\ ~BlockedOn(sem[m], a) /\ a \in holders[m]
         \/ \A m \in Mutex : LineKept(m)
<1>1. CASE UNCHANGED <<sem, holders>>
  BY <1>1 DEF LineKept
<1>2. ASSUME NEW a \in Asid, NEW m \in Mutex, Own(a, m) \/ Disown(m)
      PROVE  \A x \in Mutex : LineKept(x)
  <2>1. /\ holders' = holders
        /\ \A x \in Mutex \ {m} : sem'[x] = sem[x]
        /\ sem'[m] = Owned(sem[m], a) \/ sem'[m] = Disowned(sem[m])
    BY <1>2 DEF Own, Disown, Shape, SemType
  <2>2. sem'[m].queue = sem[m].queue
    BY <2>1 DEF Owned, Disowned, Shape, SemType, SemaphoreType
  <2> QED BY <2>1, <2>2 DEF LineKept
<1>3. ASSUME NEW a \in Asid, Step(a)
      PROVE  \/ LockCall(a) \/ LockFault(a) \/ LockFree(a)
             \/ UnlockCall(a) \/ UnlockFault(a) \/ UnlockFree(a) \/ Released(a)
             \/ \E m \in Mutex : Own(a, m) \/ Disown(m)
             \/ UNCHANGED <<sem, holders>>
  BY <1>3, CallMutexFacts, MutexFacts
  DEF Step, ProgramStep, CallStep, FaultStep, EndStep, TerminalStep, KeepSems, ReadCall,
      Terminate, Trap, OwnCall, NextCharacter, LastCharacter, Written, Received, PrinterError,
      TerminalError, Buffered, DisownCall, PageFault, OwnFault, PageLoaded, FlashError,
      DisownFault, Release, NothingToRelease, OwnFree, DisownFree, Signal, TermProcess, WriteCall
<1>4. TestStep \/ UNCHANGED vars => UNCHANGED <<sem, holders>>
  BY DEF TestStep, StartProcess, CreateProcess, HeaderError, TakeMaster, MasterTaken,
         TestTerminates, KeepSems, vars
<1> QED
  BY <1>1, <1>2, <1>3, <1>4, NextSteps, LockBegins, UnlockBegins DEF Stutter

LEMMA HeldStep ==
  ASSUME Shape, MutexInv, HeldInv, [Next]_vars
  PROVE  HeldInv'
<1>1. ASSUME NEW a \in Asid, NEW m \in {SwapPool, CallMutex(a)}, Lock(a, m)
      PROVE  HeldInv'
  <2>1. m \in {SwapPool, Printer(a), Terminal(a)}
    BY DEF CallMutex
  <2>2. \A x \in Mutex : holders'[x] \subseteq IF x = m THEN holders[m] \cup {a} ELSE holders[x]
    BY <1>1 DEF Lock, Shape, SemType
  <2> QED BY <2>1, <2>2 DEF HeldInv
<1>2. ASSUME NEW a \in Asid, NEW m \in Mutex, Unlock(a, m)
      PROVE  HeldInv'
  <2>1. \A x \in Mutex \ {m} : holders'[x] = holders[x]
    BY <1>2 DEF Unlock, Shape, SemType
  <2>2. ASSUME NEW b \in Asid, b \in holders'[m], b \notin holders[m]
        PROVE  m \in {SwapPool, Printer(b), Terminal(b)}
    <3>1. sem[m].queue # <<>> /\ b = Head(sem[m].queue)
      BY <1>2, <2>2 DEF Unlock, Shape, SemType
    <3>2. b \in Range(sem[m].queue)
      BY <3>1, TailProperties DEF Shape, SemType, SemaphoreType
    <3>3. Waiting(b, m)
      BY <3>2 DEF MutexInv, MutexOK
    <3> QED BY <3>3 DEF Waiting, CallMutex
  <2> QED BY <2>1, <2>2 DEF HeldInv
<1>3. CASE \A m \in Mutex : LineKept(m)
  BY <1>3 DEF LineKept, HeldInv
<1> QED BY <1>1, <1>2, <1>3, LinesChange

-----------------------------------------------------------------------------
(* The inductive invariant                                                 *)

LEMMA InitIInv == Init => IInv
<1> SUFFICES ASSUME Init PROVE IInv
  OBVIOUS
<1>0. ASSUME NEW S, NEW v \in {0, 1} PROVE Semaphore(v) \in SemaphoreType(S)
  BY DEF Semaphore, SemaphoreType
<1> USE SupportAssumption, MutexFacts
<1>1. /\ Semaphore(1) = [val |-> 1, queue |-> <<>>, user_asid |-> NOPROC]
      /\ Semaphore(0) = [val |-> 0, queue |-> <<>>, user_asid |-> NOPROC]
  BY DEF Semaphore
<1>2. Cardinality(Asid) \in Nat /\ Cardinality({}) = 0
  BY FS_CardinalityType, FS_EmptySet
<1>3. TypeOK
  <2>3. /\ sem \in [Mutex -> SemaphoreType(Asid)]
        /\ master_sem \in SemaphoreType(Asid \cup {Test})
    BY <1>0 DEF Init
  <2>4. 0 \in 0 .. MaxLength /\ 0 \in 0 .. Cardinality(Asid)
    BY <1>2
  <2> QED BY <2>3, <2>4 DEF Init, TypeOK, Call
<1>4. MutexInv
  <2>1. ASSUME NEW m \in Mutex PROVE MutexOK(m)
    BY <1>1, OneInQueue DEF Init, MutexOK
  <2>2. ASSUME NEW m \in Mutex, NEW a \in Asid PROVE ProcessOK(a, m)
    BY <1>1 DEF Init, ProcessOK, Has, Owns, Waiting, InFault
  <2> QED BY <2>1, <2>2 DEF MutexInv
<1>5. Signallers = {} /\ Queued = {} /\ Got = 0
  BY <1>1, OneInQueue DEF Init, Signallers, Queued, Got
<1>6. MasterInv
  BY <1>1, <1>2, <1>5, OneInQueue DEF Init, MasterInv
<1>7. TestInv /\ CreatedInv /\ HeldInv /\ LeftInv
  BY DEF Init, TestInv, CreatedInv, HeldInv, LeftInv
<1> QED BY <1>3, <1>4, <1>6, <1>7 DEF IInv

LEMMA NextIInv == IInv /\ [Next]_vars => IInv'
<1> SUFFICES ASSUME IInv, [Next]_vars PROVE IInv'
  OBVIOUS
<1>1. Shape /\ MasterType
  BY ShapeIsTypeOK DEF IInv
<1>2. Shape' /\ LeftInv'
  BY <1>1, ShapeStep DEF IInv
<1>3. MutexInv'
  BY <1>1, MutexInvStep DEF IInv
<1>4. MasterType' /\ MasterInv' /\ TestInv'
  BY <1>1, MasterStep DEF IInv
<1>5. TypeOK'
  BY <1>2, <1>4, ShapeIsTypeOK DEF Shape, MasterType, TypeOK, SemType
<1>6. CreatedInv' /\ HeldInv'
  BY <1>1, CreatedStep, HeldStep DEF IInv
<1> QED BY <1>2, <1>3, <1>4, <1>5, <1>6 DEF IInv

\* The invariant that the theorems below follow from: who has which mutex, and
\* where the signals of the processes that have ended are.
THEOREM IInvHolds == Spec => []IInv
BY InitIInv, NextIInv, PTL DEF Spec

-----------------------------------------------------------------------------
(* What it says                                                            *)

\* The states of the system calls, page faults and ends of the processes, of
\* test() and of the mutexes have the types that Support declares.
THEOREM TypeCorrect == Spec => []TypeOK
<1>1. IInv => TypeOK
  BY DEF IInv
<1> QED BY <1>1, IInvHolds, PTL

\* Every mutex has one holder or none, as its value says; user_asid names its
\* holder or nobody; and no V on a mutex blocks.
THEOREM MutexesHaveOneHolder == Spec => []OneHolder
<1>1. IInv => OneHolder
  <2> SUFFICES ASSUME IInv, NEW m \in Mutex
               PROVE  /\ Cardinality(holders[m]) = 1 - sem[m].val
                      /\ sem[m].val = 1 => sem[m].queue = <<>>
                      /\ sem[m].user_asid \in holders[m] \cup {NOPROC}
    BY DEF OneHolder
  <2>1. MutexOK(m) /\ sem[m].val \in {0, 1}
    BY DEF IInv, MutexInv, TypeOK, SemaphoreType
  <2>2. ASSUME sem[m].val = 1 PROVE Cardinality(holders[m]) = 1 - sem[m].val
    <3>1. holders[m] = {}
      BY <2>1, <2>2 DEF MutexOK
    <3> QED BY <2>2, <3>1, FS_EmptySet
  <2>3. ASSUME sem[m].val = 0 PROVE Cardinality(holders[m]) = 1 - sem[m].val
    <3>1. PICK h : holders[m] = {h}
      BY <2>1, <2>3 DEF MutexOK
    <3>2. Cardinality({h}) = 1
      BY FS_Singleton
    <3> QED BY <2>3, <3>1, <3>2
  <2>4. Cardinality(holders[m]) = 1 - sem[m].val
    BY <2>1, <2>2, <2>3
  <2> QED BY <2>1, <2>4 DEF MutexOK
<1> QED BY <1>1, IInvHolds, PTL

\* A process that is back in its program, or past the release of its mutexes,
\* holds none: system calls, page faults, errors and traps release all they took.
THEOREM NothingIsKept == Spec => []NothingHeld
<1>1. IInv => NothingHeld
  <2> SUFFICES ASSUME IInv, NEW a \in Asid, NEW m \in Mutex,
                      pc[a] \in {"new", "user", "freelock", "signal", "terminate", "dead"}
               PROVE  a \notin holders[m]
    BY DEF NothingHeld
  <2>1. ProcessOK(a, m)
    BY DEF IInv, MutexInv
  <2>2. ~Has(a, m)
    BY DEF Has, Owns, Waiting, InFault
  <2> QED BY <2>1, <2>2 DEF ProcessOK
<1> QED BY <1>1, IInvHolds, PTL

\* test() has taken master_sem once for every process only when all of them
\* have signalled and none waits to: its TERMPROCESS kills only processes that
\* have nothing left to do.
THEOREM OnlyFinishedAreKilled == Spec => []TestKillsOnlyFinished
<1>1. IInv => TestKillsOnlyFinished
  <2> SUFFICES ASSUME IInv, test = "terminate", NEW a \in Asid
               PROVE  pc[a] \in {"terminate", "dead"} /\ ~BlockedOn(master_sem, a)
    BY DEF TestKillsOnlyFinished
  <2>1. MasterType /\ MasterInv /\ taken = Cardinality(Asid)
    BY ShapeIsTypeOK DEF IInv, TestInv
  <2>2. /\ Cardinality(Signallers) = taken + Got + master_sem.val + Cardinality(Queued)
        /\ Got = 0 /\ master_sem.val \in Nat
    BY <2>1 DEF MasterInv, MasterType, SemaphoreType, Got
  <2>3. /\ Cardinality(Signallers) \in Nat /\ Cardinality(Signallers) <= Cardinality(Asid)
        /\ Cardinality(Queued) \in Nat /\ Cardinality(Asid) \in Nat
    BY <2>1, CountFacts
  <2>4. Cardinality(Signallers) = Cardinality(Asid) /\ Cardinality(Queued) = 0
    BY <2>1, <2>2, <2>3
  <2>5. Signallers = Asid /\ Queued = {}
    BY <2>1, <2>4, CountFacts
  <2>6. a \in Signallers /\ a \notin Range(master_sem.queue)
    BY <2>5, MutexFacts DEF Queued
  <2> QED BY <2>6 DEF Signallers, BlockedOn
<1> QED BY <1>1, IInvHolds, PTL

-----------------------------------------------------------------------------
(* Nobody waits in a circle.  Only the swap pool is ever waited for, since  *)
(* every process has its devices for itself; who has the swap pool waits    *)
(* for nothing; and while test() waits, nobody else waits for master_sem.   *)

LEMMA OnlyThePoolIsAwaited ==
  ASSUME IInv, NEW m \in Mutex, NEW a \in Asid, BlockedOn(sem[m], a)
  PROVE  m = SwapPool
<1>1. MutexOK(m) /\ a \in Range(sem[m].queue) /\ sem[m].val \in {0, 1}
  BY DEF IInv, MutexInv, TypeOK, SemaphoreType, BlockedOn
<1>2. Waiting(a, m) /\ sem[m].val = 0
  <2>1. sem[m].val = 1 => Range(sem[m].queue) = {}
    BY <1>1, OneInQueue DEF MutexOK
  <2> QED BY <1>1, <2>1 DEF MutexOK
<1>3. PICK h \in Asid : holders[m] = {h}
  BY <1>1, <1>2 DEF MutexOK
<1>4. h # a
  BY <1>2, <1>3, WaitingHas DEF IInv, MutexInv, ProcessOK
<1>5. m \in {SwapPool, Printer(a), Terminal(a)} /\ m \in {SwapPool, Printer(h), Terminal(h)}
  BY <1>2, <1>3 DEF Waiting, CallMutex, IInv, HeldInv
<1> QED BY <1>4, <1>5, MutexFacts

\* Who has the swap pool is not waiting for anything, and has not ended.
LEMMA PoolHolderRuns ==
  ASSUME IInv, nucleus = "runs", NEW h \in Asid, h \in holders[SwapPool]
  PROVE  Runs(h) /\ pc[h] \notin {"terminate", "dead"}
<1>1. Has(h, SwapPool) /\ SwapPool \in Mutex
  BY MutexFacts DEF IInv, MutexInv, ProcessOK
<1>2. pc[h] \notin {"terminate", "dead"}
  BY <1>1 DEF Has, Owns, Waiting, InFault
<1>3. ~BlockedOn(master_sem, h)
  BY <1>2, MutexFacts DEF IInv, MasterInv, Queued, BlockedOn
<1>4. ASSUME NEW m \in Mutex, BlockedOn(sem[m], h) PROVE FALSE
  <2>1. m = SwapPool
    BY <1>4, OnlyThePoolIsAwaited
  <2>2. Waiting(h, m)
    BY <1>4 DEF IInv, MutexInv, MutexOK, BlockedOn
  <2> QED BY <1>1, <1>4, <2>1, <2>2, WaitingHas
<1> QED BY <1>2, <1>3, <1>4 DEF Runs

\* Nobody waits in a circle, for any number of processes: who waits for a mutex
\* waits for a process that can go on, who waits to signal waits for test(), and
\* test() waits for a process that can go on.
THEOREM WaitsAreNotCircular == Spec => []NoCircularWait
<1>1. ASSUME IInv, nucleus = "runs", NEW m \in Mutex, NEW a \in Asid, BlockedOn(sem[m], a)
      PROVE  \E h \in holders[m] : h \in Asid /\ Runs(h) /\ pc[h] \notin {"terminate", "dead"}
  <2>1. m = SwapPool
    BY <1>1, OnlyThePoolIsAwaited
  <2>2. MutexOK(m) /\ a \in Range(sem[m].queue) /\ sem[m].val \in {0, 1}
    BY <1>1 DEF IInv, MutexInv, TypeOK, SemaphoreType, BlockedOn
  <2>3. PICK h \in Asid : holders[m] = {h}
    BY <2>2, OneInQueue DEF MutexOK
  <2> QED BY <1>1, <2>1, <2>3, PoolHolderRuns
<1>2. ASSUME IInv, nucleus = "runs", NEW a \in Asid, BlockedOn(master_sem, a)
      PROVE  Runs(Test)
  <2>1. master_sem.queue \notin {<<>>, <<Test>>}
    BY <1>2, MutexFacts, OneInQueue DEF BlockedOn
  <2>2. Test \notin Range(master_sem.queue)
    BY <1>2, <2>1 DEF IInv, MasterInv, TypeOK, SemaphoreType
  <2>3. \A m \in Mutex : Test \notin Range(sem[m].queue)
    BY <1>2, MutexFacts DEF IInv, TypeOK, SemaphoreType, Range
  <2> QED BY <1>2, <2>2, <2>3 DEF Runs, BlockedOn
<1>3. ASSUME IInv, nucleus = "runs", BlockedOn(master_sem, Test)
      PROVE  \E a \in Asid : Runs(a) /\ pc[a] \notin {"terminate", "dead"}
  <2>1. /\ MasterType /\ MasterInv
        /\ test = "taking" /\ taken < Cardinality(Asid)
        /\ master_sem.val = 0 /\ master_sem.queue = <<Test>>
    BY <1>3, ShapeIsTypeOK, OneInQueue
    DEF IInv, MasterInv, TestInv, BlockedOn, MasterType, SemaphoreType
  <2>2. Queued = {} /\ Got = 0
    BY <1>3, <2>1, OneInQueue DEF Queued, Got
  <2>3. Cardinality(Signallers) # Cardinality(Asid)
    <3>1. Cardinality(Signallers) = taken + Got + master_sem.val + Cardinality(Queued)
      BY <2>1 DEF MasterInv
    <3>2. taken \in Nat /\ Cardinality(Asid) \in Nat /\ Cardinality(Queued) = 0
      BY <2>1, <2>2, CountFacts, FS_EmptySet DEF MasterType
    <3> QED BY <2>1, <2>2, <3>1, <3>2
  <2>4. PICK b \in Asid : pc[b] \notin {"terminate", "dead"}
    BY <2>3 DEF Signallers
  <2>5. CASE \E m \in Mutex : BlockedOn(sem[m], b)
    <3>1. PICK m \in Mutex : BlockedOn(sem[m], b)
      BY <2>5
    <3> QED BY <1>1, <1>3, <3>1
  <2>6. CASE \A m \in Mutex : ~BlockedOn(sem[m], b)
    <3>1. ~BlockedOn(master_sem, b)
      BY <2>1, MutexFacts, OneInQueue DEF BlockedOn
    <3> QED BY <1>3, <2>4, <2>6, <3>1 DEF Runs
  <2> QED BY <2>5, <2>6
<1>4. IInv => NoCircularWait
  BY <1>1, <1>2, <1>3 DEF NoCircularWait
<1> QED BY <1>4, IInvHolds, PTL

-----------------------------------------------------------------------------
(* Every mutex is a FifoLock                                               *)

\* Who holds a mutex, from the invariant.
HolderIs(m) ==
  /\ sem[m].val \in {0, 1}
  /\ sem[m].val = 1 => HolderOf(m) = NOPROC /\ holders[m] = {} /\ sem[m].queue = <<>>
  /\ sem[m].val = 0 => HolderOf(m) \in Asid /\ holders[m] = {HolderOf(m)}

HoldersKnown == \A m \in Mutex : HolderIs(m)

LEMMA HolderFacts == Shape /\ MutexInv => HoldersKnown
<1> SUFFICES ASSUME Shape, MutexInv, NEW m \in Mutex PROVE HolderIs(m)
  BY DEF HoldersKnown
<1>0. MutexOK(m) /\ sem[m].val \in {0, 1}
  BY DEF MutexInv, Shape, SemType, SemaphoreType
<1>1. CASE sem[m].val = 1
  BY <1>0, <1>1 DEF MutexOK, HolderOf, HolderIs
<1>2. CASE sem[m].val = 0
  <2>1. PICK h \in Asid : holders[m] = {h}
    BY <1>0, <1>2 DEF MutexOK
  <2>2. HolderOf(m) \in {h}
    BY <2>1 DEF HolderOf
  <2> QED BY <1>2, <2>1, <2>2 DEF HolderIs
<1> QED BY <1>0, <1>1, <1>2

LEMMA FifoLockStep ==
  ASSUME Shape, MutexInv, [Next]_vars, Shape', MutexInv', NEW m \in Mutex
  PROVE  [FifoLockOf(m)!Next]_<<HolderOf(m), sem[m].queue>>
<1> DEFINE s == sem[m]
           h == HolderOf(m)
<1>1. /\ s \in SemaphoreType(Asid)
      /\ s.val \in {0, 1}
      /\ s.val = 1 => h = NOPROC /\ holders[m] = {} /\ s.queue = <<>>
      /\ s.val = 0 => h \in Asid /\ holders[m] = {h}
  BY HolderFacts DEF HoldersKnown, HolderIs, Shape, SemType
<1>2. /\ s'.val = 1 => h' = NOPROC /\ s'.queue = <<>>
      /\ s'.val = 0 => h' \in Asid /\ holders'[m] = {h'}
  <2>1. (Shape /\ MutexInv => HoldersKnown)'
    BY HolderFacts, PTL
  <2> QED BY <2>1 DEF HoldersKnown, HolderIs
<1>3. ASSUME LineKept(m) PROVE UNCHANGED <<h, s.queue>>
  BY <1>3 DEF LineKept, HolderOf
<1>4. ASSUME NEW a \in Asid, Lock(a, m), ~BlockedOn(s, a), a \notin holders[m]
      PROVE  FifoLockOf(m)!Next
  <2>1. /\ s' = SemP(s, a)
        /\ holders'[m] = IF s.val = 1 THEN holders[m] \cup {a} ELSE holders[m]
    BY <1>4 DEF Lock, Shape, SemType
  <2>2. /\ s'.val = 0
        /\ s.val = 1 => s'.queue = <<>>
        /\ s.val = 0 => s'.queue = Append(s.queue, a)
    <3> HIDE DEF s
    <3> QED BY <1>1, <2>1, SemPProperties DEF InsertProcQ
  <2>3. CASE s.val = 1
    <3>1. h = NOPROC /\ h' = a /\ s'.queue = s.queue
      BY <1>1, <1>2, <2>1, <2>2, <2>3
    <3> QED BY <3>1 DEF FifoLockOf!Next, FifoLockOf!Take
  <2>4. CASE s.val = 0
    <3>1. h \in Asid /\ h # a /\ h # NOPROC /\ h' = h
      BY <1>1, <1>2, <1>4, <2>1, <2>2, <2>4, MutexFacts
    <3>2. a \notin Range(s.queue)
      BY <1>4 DEF BlockedOn
    <3> QED BY <2>2, <2>4, <3>1, <3>2 DEF FifoLockOf!Next, FifoLockOf!Wait, FifoLockOf!Range, Range
  <2> QED BY <1>1, <2>3, <2>4
<1>5. ASSUME NEW a \in Asid, Unlock(a, m), a \in holders[m]
      PROVE  FifoLockOf(m)!Next
  <2>1. s.val = 0
    BY <1>1, <1>5
  <2>2. /\ s' = SemV(s, a)
        /\ s.queue # <<>> => Head(s.queue) \in holders'[m]
    BY <1>5, <2>1 DEF Unlock, Shape, SemType
  <2>3. /\ s.queue = <<>> => s'.val = 1 /\ s'.queue = <<>>
        /\ s.queue # <<>> => s'.val = 0 /\ s'.queue = Tail(s.queue)
    <3> HIDE DEF s
    <3> QED BY <1>1, <2>1, <2>2, SemVProperties
  <2>4. CASE s.queue = <<>>
    BY <1>2, <2>3, <2>4 DEF FifoLockOf!Next, FifoLockOf!Free
  <2>5. CASE s.queue # <<>>
    <3>1. h' = Head(s.queue)
      BY <1>2, <2>2, <2>3, <2>5
    <3> QED BY <2>3, <2>5, <3>1 DEF FifoLockOf!Next, FifoLockOf!HandOver
  <2> QED BY <2>4, <2>5
<1>6. \A a \in Asid, x \in Mutex \ {m} : Lock(a, x) \/ Unlock(a, x) => LineKept(m)
  BY DEF Lock, Unlock, LineKept, Shape, SemType
<1>7. \A a \in Asid : SwapPool \in Mutex /\ CallMutex(a) \in Mutex
  BY MutexFacts, CallMutexFacts
<1> HIDE DEF s, h
<1> QED BY <1>3, <1>4, <1>5, <1>6, <1>7, LinesChange DEF s, h

\* A mutex is handed over to the first process that waits for it, and nobody
\* gets past one that waits.
THEOREM MutexesAreFifoLocks == Spec => ImplementsFifoLocks
<1>1. Init => \A m \in Mutex : FifoLockOf(m)!Init
  BY DEF Init, Semaphore, HolderOf, FifoLockOf!Init
<1>2. IInv /\ IInv' /\ [Next]_vars =>
        [\A m \in Mutex : [FifoLockOf(m)!Next]_<<HolderOf(m), sem[m].queue>>]_vars
  <2>1. IInv => Shape /\ MutexInv
    BY ShapeIsTypeOK DEF IInv
  <2>2. (IInv => Shape /\ MutexInv)'
    BY <2>1, PTL
  <2> QED BY <2>1, <2>2, FifoLockStep
<1> QED BY <1>1, <1>2, IInvHolds, PTL DEF Spec, ImplementsFifoLocks

=============================================================================
