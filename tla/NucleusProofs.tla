--------------------------- MODULE NucleusProofs ---------------------------
(***************************************************************************)
(* Proofs that the safety invariants of Nucleus hold for every set of      *)
(* PCBs, semaphores and devices.                                           *)
(*                                                                         *)
(* The inductive invariant is split in two.  SemInv says where processes   *)
(* are blocked and what the counters, the semaphores and the devices have  *)
(* to do with it.  CpuInv says where the others are: curr_process and the  *)
(* ready queues.  Every handler first changes what SemInv speaks of and    *)
(* then leaves through Schedule, Resume or InterruptExit, which change     *)
(* only what CpuInv speaks of: each of these is proved once.               *)
(* TreeOK needs TreeType and nothing else of it.  The order of the queues  *)
(* is a property of steps: LeavesWith(rq) is the form every step has, and  *)
(* two properties of it, Fifo and HighPriorityFirst, are proved from it.   *)
(***************************************************************************)
EXTENDS Nucleus, QueueProofs

\* The processes blocked on a device or the clock.
Soft == {p \in Pcb : semAdd[p] \in Device \cup {ITSem}}

TreeType ==
  /\ alive \subseteq Pcb
  /\ parent \in [Pcb -> Pcb \cup {Null}]
  /\ prio \in [Pcb -> Prio]
  /\ supp \in [Pcb -> BOOLEAN]

SemType ==
  /\ semAdd \in [Pcb -> Sem \cup {Null}]
  /\ asl \in [Sem -> Seq(Pcb)]
  /\ semVal \in [Sem -> {0, 1}]
  /\ blockedBy \in [Pcb -> {"P", "V", "none"}]

\* The part of OnePlace about the blocked processes.
Queued ==
  /\ \A p \in Pcb \ alive : semAdd[p] = Null
  /\ \A s \in Sem : IsInjective(asl[s]) /\ Range(asl[s]) = {p \in alive : semAdd[p] = s}

Counted ==
  /\ leaked \in Nat
  /\ process_count = Cardinality(alive)
  /\ softblocked_count = Cardinality(Soft) + leaked

Devices ==
  /\ dev \in [Device -> DevState]
  /\ DevSemOK

SemInv ==
  TreeType /\ SemType /\ Queued /\ Counted /\ Devices /\ BlockedMatchesValue

\* The ready queues rq hold the live processes that are neither blocked nor c,
\* each once, each in the queue of its priority.
ReadyOK(rq, c, live, sem, pr) ==
  /\ rq \in [Prio -> Seq(Pcb)]
  /\ \A level \in Prio :
       /\ IsInjective(rq[level])
       /\ Range(rq[level]) = {p \in live : p # c /\ sem[p] = Null /\ pr[p] = level}

CpuInv ==
  /\ ReadyOK(readyqueue, curr_process, alive, semAdd, prio)
  /\ curr_process \in Pcb \cup {Null}
  /\ curr_process # Null => curr_process \in alive /\ semAdd[curr_process] = Null
  /\ mode \in Mode /\ mode # "nosemd"
  /\ mode = "run" => curr_process # Null
  /\ plt \in BOOLEAN
  /\ IdleSound

IInv == SemInv /\ CpuInv

-----------------------------------------------------------------------------
(* Cardinalities *)

LEMMA AliveFinite ==
  ASSUME TreeType
  PROVE  /\ IsFiniteSet(alive) /\ Cardinality(alive) \in Nat
         /\ IsFiniteSet(Soft) /\ Cardinality(Soft) \in Nat
         /\ Cardinality(Pcb) \in Nat
<1>1. alive \in SUBSET Pcb /\ Soft \in SUBSET Pcb
  BY DEF TreeType, Soft
<1> QED BY <1>1, PcbAssumption, FS_Subset, FS_CardinalityType

\* A queue that links nobody twice is as long as its set of members is large.
LEMMA InjectiveLen ==
  ASSUME NEW S, NEW q \in Seq(S), IsInjective(q)
  PROVE  IsFiniteSet(Range(q)) /\ Cardinality(Range(q)) = Len(q)
<1>1. Len(q) \in Nat /\ DOMAIN q = 1 .. Len(q)
  OBVIOUS
<1>2. q \in Bijection(1 .. Len(q), Range(q))
  <2>1. q \in [1 .. Len(q) -> Range(q)]
    BY <1>1 DEF Range
  <2>2. \A t \in Range(q) : \E i \in 1 .. Len(q) : q[i] = t
    BY <1>1 DEF Range
  <2> QED BY <1>1, <2>1, <2>2 DEF Bijection, Injection, Surjection, IsInjective
<1>3. ExistsBijection(1 .. Len(q), Range(q))
  BY <1>2 DEF ExistsBijection
<1>4. IsFiniteSet(1 .. Len(q)) /\ Cardinality(1 .. Len(q)) = Len(q)
  BY <1>1, FS_Interval
<1> QED BY <1>3, <1>4, FS_Bijection

\* The running process is in no queue, so that the active semaphores have at
\* most one process less than there are PCBs to block on them.
LEMMA CurrentUsesNoSemd ==
  ASSUME SemInv, CpuInv, curr_process # Null
  PROVE  ~(Cardinality(ActiveSem) >= MaxSemd)
<1> DEFINE others == Pcb \ {curr_process}
           head == [s \in ActiveSem |-> Head(asl[s])]
<1>1. curr_process \in Pcb
  BY DEF CpuInv
<1>2. IsFiniteSet(others) /\ Cardinality(others) = Cardinality(Pcb) - 1
  BY <1>1, PcbAssumption, FS_RemoveElement
<1>3. ASSUME NEW s \in ActiveSem
      PROVE  Head(asl[s]) \in alive /\ semAdd[Head(asl[s])] = s /\ s # Null
  <2>1. s \in Sem /\ asl[s] \in Seq(Pcb) /\ asl[s] # <<>>
    BY DEF ActiveSem, SemInv, SemType
  <2>2. Head(asl[s]) \in Range(asl[s])
    BY <2>1, TailProperties
  <2> QED BY <2>1, <2>2, SemAssumption DEF SemInv, Queued
<1>4. head \in Injection(ActiveSem, others)
  <2>1. \A s \in ActiveSem : Head(asl[s]) \in others
    BY <1>3 DEF CpuInv, SemInv, TreeType
  <2>2. \A s, t \in ActiveSem : Head(asl[s]) = Head(asl[t]) => s = t
    BY <1>3
  <2> HIDE DEF others
  <2> QED BY <2>1, <2>2 DEF Injection, IsInjective
<1>5. IsFiniteSet(ActiveSem) /\ Cardinality(ActiveSem) <= Cardinality(others)
  <2> HIDE DEF others, head
  <2> QED BY <1>2, <1>4, FS_Injection
<1>6. Cardinality(ActiveSem) \in Nat /\ Cardinality(Pcb) \in Nat
  BY <1>5, PcbAssumption, FS_CardinalityType
<1> QED BY <1>2, <1>5, <1>6 DEF MaxSemd

-----------------------------------------------------------------------------
(* Leaving a handler *)

\* scheduler() puts one ready process on the CPU, or stops or waits for the
\* right reason.
LEMMA ScheduleCpuInv ==
  ASSUME SemInv', NEW STATE rq, NEW STATE skip, NEW STATE pending, pending \in BOOLEAN,
         ReadyOK(rq, Null, alive', semAdd', prio'),
         Schedule(rq, skip, pending)
  PROVE  CpuInv'
<1>1. /\ process_count' = Cardinality(alive') /\ process_count' \in Nat
      /\ softblocked_count' = Cardinality(Soft') + leaked'
      /\ alive' \subseteq Pcb
      /\ leaked' \in Nat
      /\ IsFiniteSet(alive') /\ IsFiniteSet(Soft') /\ Cardinality(Soft') \in Nat
  <2>1. TreeType' /\ Counted'
    BY DEF SemInv
  <2>2. /\ IsFiniteSet(alive') /\ Cardinality(alive') \in Nat
        /\ IsFiniteSet(Soft') /\ Cardinality(Soft') \in Nat
    <3>1. alive' \in SUBSET Pcb /\ Soft' \in SUBSET Pcb
      BY <2>1 DEF TreeType, Soft
    <3> QED BY <3>1, PcbAssumption, FS_Subset, FS_CardinalityType
  <2> QED BY <2>1, <2>2 DEF Counted, TreeType
<1>2. rq \in [Prio -> Seq(Pcb)] /\ Null \notin alive'
  BY <1>1, PcbAssumption DEF ReadyOK
<1>3. CASE Halt(rq, pending)
  <2>1. alive' = {}
    BY <1>1, <1>3, FS_EmptySet DEF Halt
  <2>2. ReadyOK(readyqueue', curr_process', alive', semAdd', prio')
    BY <1>3 DEF Halt
  <2> QED BY <1>3, <2>1, <2>2 DEF Halt, CpuInv, IdleSound, Mode, Stopped
<1>4. ASSUME NEW level \in Prio, rq[level] # <<>>, Dispatch(rq, level, pending)
      PROVE  CpuInv'
  <2> DEFINE h == Head(rq[level])
  <2>1. rq[level] \in Seq(Pcb) /\ IsInjective(rq[level])
    BY <1>2 DEF ReadyOK
  <2>2. /\ h \in Range(rq[level]) /\ h \in Pcb
        /\ Tail(rq[level]) \in Seq(Pcb)
        /\ Range(rq[level]) = Range(Tail(rq[level])) \cup {h}
        /\ IsInjective(Tail(rq[level])) /\ h \notin Range(Tail(rq[level]))
    BY <1>4, <2>1, TailProperties
  <2>3. h \in alive' /\ semAdd'[h] = Null /\ prio'[h] = level
    BY <2>2 DEF ReadyOK
  <2>4. /\ curr_process' = h /\ mode' = "run" /\ plt' \in BOOLEAN
        /\ readyqueue' = [rq EXCEPT ![level] = Tail(rq[level])]
    BY <1>4 DEF Dispatch
  <2>5. readyqueue' \in [Prio -> Seq(Pcb)]
    BY <1>2, <2>2, <2>4
  <2>6. ASSUME NEW l \in Prio
        PROVE  /\ IsInjective(readyqueue'[l])
               /\ Range(readyqueue'[l]) =
                    {p \in alive' : p # h /\ semAdd'[p] = Null /\ prio'[p] = l}
    <3>1. /\ IsInjective(rq[l])
          /\ Range(rq[l]) = {p \in alive' : p # Null /\ semAdd'[p] = Null /\ prio'[p] = l}
      BY DEF ReadyOK
    <3>2. CASE l = level
      <4>1. readyqueue'[l] = Tail(rq[level])
        BY <1>2, <2>4, <3>2
      <4> QED BY <1>2, <2>2, <3>1, <3>2, <4>1
    <3>3. CASE l # level
      <4>1. readyqueue'[l] = rq[l]
        BY <1>2, <2>4, <3>3
      <4> QED BY <1>2, <2>3, <3>1, <3>3, <4>1
    <3> QED BY <3>2, <3>3
  <2>7. ReadyOK(readyqueue', curr_process', alive', semAdd', prio')
    BY <2>4, <2>5, <2>6 DEF ReadyOK
  <2> QED BY <1>2, <2>2, <2>3, <2>4, <2>7 DEF CpuInv, IdleSound, Mode
<1>5. CASE process_count' # 0 /\ rq[NextQueue(rq, skip)] = <<>> /\ Idle(rq, pending)
  <2>1. rq[LOW] = <<>> /\ rq[HIGH] = <<>>
    BY <1>5 DEF NextQueue
  <2>2. \A level \in Prio : Range(rq[level]) = {}
    BY <2>1 DEF Prio, Range
  <2>3. \A p \in alive' : semAdd'[p] # Null
    <3> SUFFICES ASSUME NEW p \in alive', semAdd'[p] = Null
                 PROVE  FALSE
      OBVIOUS
    <3>1. prio'[p] \in Prio
      BY <1>1 DEF SemInv, TreeType
    <3>2. p \in Range(rq[prio'[p]])
      BY <1>2, <3>1 DEF ReadyOK
    <3> QED BY <2>2, <3>1, <3>2
  <2>4. alive' # {}
    BY <1>1, <1>5, FS_EmptySet
  <2>5. softblocked_count' = 0 => \A p \in alive' : semAdd'[p] \in UserSem
    <3> SUFFICES ASSUME softblocked_count' = 0, NEW p \in alive'
                 PROVE  semAdd'[p] \in UserSem
      OBVIOUS
    <3>1. Cardinality(Soft') = 0
      BY <1>1
    <3>2. Soft' = {}
      BY <1>1, <3>1, FS_EmptySet
    <3>3. semAdd'[p] \in Sem
      BY <1>1, <2>3 DEF SemInv, SemType
    <3>4. p \notin Soft'
      BY <3>2
    <3> QED BY <1>1, <3>3, <3>4 DEF Soft, Sem
  <2>6. mode' = "deadlock" => softblocked_count' = 0
    BY <1>1, <1>5 DEF Idle
  <2>7. /\ readyqueue' = rq /\ curr_process' = Null /\ plt' \in BOOLEAN
        /\ mode' \in {"wait", "deadlock"}
    BY <1>5 DEF Idle
  <2>8. ReadyOK(readyqueue', curr_process', alive', semAdd', prio')
    BY <2>7
  <2> QED BY <2>3, <2>4, <2>5, <2>6, <2>7, <2>8 DEF CpuInv, IdleSound, Mode, Stopped
<1> QED BY <1>3, <1>4, <1>5 DEF Schedule

\* LDST to curr_process.
LEMMA ResumeCpuInv ==
  ASSUME CpuInv, mode = "run", NEW STATE rq,
         alive' \subseteq Pcb, curr_process \in alive', semAdd'[curr_process] = Null,
         ReadyOK(rq, curr_process, alive', semAdd', prio'),
         readyqueue' = rq, plt' \in BOOLEAN, UNCHANGED <<curr_process, mode>>
  PROVE  CpuInv'
BY DEF CpuInv, IdleSound

-----------------------------------------------------------------------------
(* The pieces that handlers are made of *)

\* setProcessReady(p), for a process that has just stopped to run or to wait.
LEMMA MakeReadyOK ==
  ASSUME ReadyOK(readyqueue, curr_process, alive, semAdd, prio), TreeType,
         NEW p \in alive, ~(p # curr_process /\ semAdd[p] = Null),
         NEW STATE c, NEW STATE sem,
         \A q \in alive : (q # c /\ sem[q] = Null) <=>
                            (q = p \/ (q # curr_process /\ semAdd[q] = Null))
  PROVE  ReadyOK(MakeReady(p), c, alive, sem, prio)
<1> DEFINE rq == MakeReady(p)
<1>1. p \in Pcb /\ prio[p] \in Prio
  BY DEF TreeType
<1>2. ASSUME NEW level \in Prio
      PROVE  /\ readyqueue[level] \in Seq(Pcb)
             /\ IsInjective(readyqueue[level])
             /\ Range(readyqueue[level]) =
                  {q \in alive : q # curr_process /\ semAdd[q] = Null /\ prio[q] = level}
             /\ p \notin Range(readyqueue[level])
  BY DEF ReadyOK
<1>3. rq = [readyqueue EXCEPT ![prio[p]] = InsertProcQ(readyqueue[prio[p]], p)]
  BY DEF MakeReady
<1>4. readyqueue \in [Prio -> Seq(Pcb)]
  BY DEF ReadyOK
<1>5. /\ InsertProcQ(readyqueue[prio[p]], p) \in Seq(Pcb)
      /\ Range(InsertProcQ(readyqueue[prio[p]], p)) = Range(readyqueue[prio[p]]) \cup {p}
      /\ IsInjective(InsertProcQ(readyqueue[prio[p]], p))
  BY <1>1, <1>2, InsertProcQProperties
<1>6. rq \in [Prio -> Seq(Pcb)]
  BY <1>1, <1>3, <1>4, <1>5
<1>7. ASSUME NEW level \in Prio
      PROVE  /\ IsInjective(rq[level])
             /\ Range(rq[level]) = {q \in alive : q # c /\ sem[q] = Null /\ prio[q] = level}
  <2>1. CASE level = prio[p]
    <3>1. rq[level] = InsertProcQ(readyqueue[prio[p]], p)
      BY <1>3, <1>4, <2>1
    <3> HIDE DEF rq
    <3> QED BY <1>2, <1>5, <2>1, <3>1
  <2>2. CASE level # prio[p]
    <3>1. rq[level] = readyqueue[level]
      BY <1>3, <1>4, <2>2
    <3> HIDE DEF rq
    <3> QED BY <1>2, <2>2, <3>1
  <2> QED BY <2>1, <2>2
<1> QED BY <1>6, <1>7 DEF ReadyOK

\* A kill visits live processes only, and the process it is asked to kill.
LEMMA SubtreeAlive ==
  ASSUME TreeType, NEW target \in alive
  PROVE  Subtree(target) \subseteq alive /\ target \in Subtree(target)
<1>1. alive \in SUBSET Pcb /\ Children(alive) \subseteq alive
  BY DEF TreeType, Children
<1> QED BY <1>1 DEF Subtree

\* An injective queue all of whose members are x has at most one.
LEMMA SingletonQueue ==
  ASSUME NEW S, NEW q \in Seq(S), NEW r \in Seq(S), IsInjective(q), IsInjective(r),
         Len(q) = 1, Range(r) \subseteq Range(q), r # <<>>
  PROVE  Len(r) = 1
<1>1. Cardinality(Range(q)) = 1 /\ IsFiniteSet(Range(q))
  BY InjectiveLen
<1>2. PICK x : Range(q) = {x}
  BY <1>1, FS_Singleton
<1>3. Head(r) \in Range(r)
  BY TailProperties
<1>4. Range(r) = {x}
  BY <1>2, <1>3
<1> QED BY <1>4, InjectiveLen, FS_Singleton

LEMMA KillReady ==
  ASSUME SemInv, CpuInv, NEW target \in alive, KillProcess(target)
  PROVE  ReadyOK(ReadyAfterKill(target), curr_process, alive', semAdd', prio')
<1> DEFINE V == Subtree(target)
           Out(level) == {p \in V : prio[p] = level}
<1>1. V \subseteq alive /\ alive \subseteq Pcb
  BY SubtreeAlive DEF SemInv, TreeType
<1>2. /\ alive' = alive \ V
      /\ prio' = [p \in Pcb |-> IF p \in V THEN LOW ELSE prio[p]]
      /\ semAdd' = [p \in Pcb |-> IF p \in V THEN Null ELSE semAdd[p]]
  BY DEF KillProcess
<1>3. ReadyAfterKill(target) = [level \in Prio |-> Without(readyqueue[level], Out(level))]
  BY DEF ReadyAfterKill
<1>4. ASSUME NEW level \in Prio
      PROVE  /\ Without(readyqueue[level], Out(level)) \in Seq(Pcb)
             /\ IsInjective(Without(readyqueue[level], Out(level)))
             /\ Range(Without(readyqueue[level], Out(level))) =
                  {p \in alive' : p # curr_process /\ semAdd'[p] = Null /\ prio'[p] = level}
  <2>1. /\ readyqueue[level] \in Seq(Pcb)
        /\ IsInjective(readyqueue[level])
        /\ Range(readyqueue[level]) =
             {p \in alive : p # curr_process /\ semAdd[p] = Null /\ prio[p] = level}
    BY DEF CpuInv, ReadyOK
  <2>2. /\ Without(readyqueue[level], Out(level)) \in Seq(Pcb)
        /\ IsInjective(Without(readyqueue[level], Out(level)))
        /\ Range(Without(readyqueue[level], Out(level))) =
             Range(readyqueue[level]) \ Out(level)
    BY <2>1, WithoutProperties
  <2>3. ASSUME NEW p \in alive'
        PROVE  prio'[p] = prio[p] /\ semAdd'[p] = semAdd[p] /\ p \in alive /\ p \notin V
    BY <1>1, <1>2
  <2> HIDE DEF V
  <2>4. Range(readyqueue[level]) \ Out(level) =
          {p \in alive' : p # curr_process /\ semAdd'[p] = Null /\ prio'[p] = level}
    BY <1>2, <2>1, <2>3
  <2> QED BY <2>2, <2>4
<1> QED BY <1>3, <1>4 DEF ReadyOK

\* _killProcess keeps the counters and the queues of the semaphores right.
\* The semaphores and the devices may change the way OrphanInterrupt changes
\* them before the kill.
LEMMA KillSemInv ==
  ASSUME SemInv, NEW target \in alive, KillProcess(target), UNCHANGED leaked,
         semVal' \in [Sem -> {0, 1}], dev' \in [Device -> DevState],
         \A s \in Sem : asl[s] # <<>> => semVal'[s] = semVal[s],
         semVal'[ITSem] = 0,
         \A d \in Device : dev'[d] # "ready" => semVal'[d] = 0,
         \A d \in Device : asl[d] # <<>> => dev'[d] # "ready"
  PROVE  SemInv'
<1> DEFINE V == Subtree(target)
           Out(s) == {p \in V : semAdd[p] = s}
<1>1. V \subseteq alive /\ alive \subseteq Pcb
  BY SubtreeAlive DEF SemInv, TreeType
<1>2. /\ alive' = alive \ V
      /\ parent' = [p \in Pcb |-> IF p \in V THEN Null ELSE parent[p]]
      /\ prio' = [p \in Pcb |-> IF p \in V THEN LOW ELSE prio[p]]
      /\ supp' = [p \in Pcb |-> IF p \in V THEN FALSE ELSE supp[p]]
      /\ semAdd' = [p \in Pcb |-> IF p \in V THEN Null ELSE semAdd[p]]
      /\ blockedBy' = [p \in Pcb |-> IF p \in V THEN "none" ELSE blockedBy[p]]
      /\ asl' = [s \in Sem |-> Without(asl[s], Out(s))]
      /\ process_count' = process_count - Cardinality(V)
      /\ softblocked_count' = softblocked_count - Cardinality({p \in V : IsSoftBlocked(p)})
  BY DEF KillProcess
<1> HIDE DEF V
<1>3. TreeType'
  BY <1>1, <1>2 DEF SemInv, TreeType, Prio
<1>4. ASSUME NEW s \in Sem
      PROVE  /\ asl'[s] \in Seq(Pcb)
             /\ IsInjective(asl'[s])
             /\ Range(asl'[s]) = Range(asl[s]) \ Out(s)
             /\ Range(asl'[s]) = {p \in alive' : semAdd'[p] = s}
             /\ asl'[s] # <<>> => asl[s] # <<>>
  <2>1. /\ asl[s] \in Seq(Pcb) /\ IsInjective(asl[s])
        /\ Range(asl[s]) = {p \in alive : semAdd[p] = s}
    BY DEF SemInv, SemType, Queued
  <2>2. asl'[s] = Without(asl[s], Out(s))
    BY <1>2
  <2>3. /\ asl'[s] \in Seq(Pcb)
        /\ IsInjective(asl'[s])
        /\ Range(asl'[s]) = Range(asl[s]) \ Out(s)
    BY <2>1, <2>2, WithoutProperties
  <2>4. Range(asl'[s]) = {p \in alive' : semAdd'[p] = s}
    BY <1>1, <1>2, <2>1, <2>3
  <2>5. asl'[s] # <<>> => Range(asl'[s]) # {}
    BY <2>3, TailProperties
  <2>6. asl[s] = <<>> => Range(asl[s]) = {}
    BY DEF Range
  <2> QED BY <2>3, <2>4, <2>5, <2>6
<1>5. SemType'
  <2>1. asl' \in [Sem -> Seq(Pcb)]
    BY <1>2, <1>4
  <2> QED BY <1>2, <2>1 DEF SemInv, SemType
<1>6. Queued'
  <2>1. \A p \in Pcb \ alive' : semAdd'[p] = Null
    BY <1>1, <1>2 DEF SemInv, Queued
  <2> QED BY <1>4, <2>1 DEF Queued
<1>7. Counted'
  <2>1. IsFiniteSet(alive) /\ IsFiniteSet(Soft) /\ Cardinality(Soft) \in Nat
        /\ Cardinality(alive) \in Nat
    BY AliveFinite DEF SemInv
  <2>2. Cardinality(alive \ V) = Cardinality(alive) - Cardinality(V)
    <3>1. alive \cap V = V
      BY <1>1
    <3>2. Cardinality(alive \cap V) = Cardinality(V)
      BY <3>1
    <3>3. Cardinality(alive \ V) = Cardinality(alive) - Cardinality(alive \cap V)
      BY <2>1, FS_Difference
    <3> QED BY <3>2, <3>3
  <2>3. Soft' = Soft \ V
    BY <1>1, <1>2, SemAssumption DEF Soft, Sem
  <2>4. {p \in V : IsSoftBlocked(p)} = Soft \cap V
    BY <1>1 DEF Soft, IsSoftBlocked
  <2>5. Cardinality(Soft \ V) = Cardinality(Soft) - Cardinality(Soft \cap V)
    BY <2>1, FS_Difference
  <2>6. Cardinality(Soft \cap V) \in Nat
    BY <2>1, FS_Intersection, FS_CardinalityType
  <2>7. process_count' = Cardinality(alive')
    BY <1>2, <2>2 DEF SemInv, Counted
  <2>8. softblocked_count' = (Cardinality(Soft) + leaked) - Cardinality(Soft \cap V)
    <3>1. Cardinality({p \in V : IsSoftBlocked(p)}) = Cardinality(Soft \cap V)
      BY <2>4
    <3>2. /\ softblocked_count' = softblocked_count - Cardinality({p \in V : IsSoftBlocked(p)})
          /\ softblocked_count = Cardinality(Soft) + leaked
      BY <1>2 DEF SemInv, Counted
    <3> QED BY <3>1, <3>2
  <2>9. softblocked_count' = Cardinality(Soft') + leaked' /\ leaked' \in Nat
    BY <2>1, <2>3, <2>5, <2>6, <2>8 DEF SemInv, Counted
  <2> QED BY <2>7, <2>9 DEF Counted
<1>8. Devices'
  <2>1. ASSUME NEW d \in Device, asl'[d] # <<>>
        PROVE  dev'[d] # "ready" /\ Len(asl'[d]) = 1
    <3>1. d \in Sem
      BY DEF Sem
    <3>2. asl[d] # <<>> /\ Range(asl'[d]) \subseteq Range(asl[d])
      BY <1>4, <2>1, <3>1
    <3>3. Len(asl[d]) = 1 /\ asl[d] \in Seq(Pcb) /\ IsInjective(asl[d])
      BY <3>1, <3>2 DEF SemInv, Devices, DevSemOK, SemType, Queued
    <3>4. Len(asl'[d]) = 1
      BY <1>4, <2>1, <3>1, <3>2, <3>3, SingletonQueue
    <3> QED BY <3>2, <3>4
  <2> QED BY <2>1 DEF Devices, DevSemOK
<1>9. BlockedMatchesValue'
  <2> SUFFICES ASSUME NEW p \in Pcb, semAdd'[p] # Null
               PROVE  semVal'[semAdd'[p]] = IF blockedBy'[p] = "P" THEN 0 ELSE 1
    BY DEF BlockedMatchesValue
  <2>1. p \notin V /\ semAdd'[p] = semAdd[p] /\ blockedBy'[p] = blockedBy[p]
    BY <1>2
  <2>2. semAdd[p] \in Sem /\ p \in alive
    BY <2>1 DEF SemInv, SemType, Queued
  <2>3. p \in Range(asl[semAdd[p]])
    BY <2>2 DEF SemInv, Queued
  <2>4. asl[semAdd[p]] # <<>>
    BY <2>3 DEF Range
  <2> QED BY <2>1, <2>2, <2>4 DEF SemInv, BlockedMatchesValue
<1> QED BY <1>3, <1>5, <1>6, <1>7, <1>8, <1>9 DEF SemInv

\* Steps that leave every process where it is.
LEMMA StaySemInv ==
  ASSUME SemInv, UNCHANGED <<treeVars, semAdd, asl, blockedBy, process_count>>,
         leaked' \in Nat, softblocked_count' = Cardinality(Soft) + leaked',
         semVal' \in [Sem -> {0, 1}], dev' \in [Device -> DevState],
         \A s \in Sem : asl[s] # <<>> => semVal'[s] = semVal[s],
         semVal'[ITSem] = 0,
         \A d \in Device : dev'[d] # "ready" => semVal'[d] = 0,
         \A d \in Device : asl[d] # <<>> => dev'[d] # "ready"
  PROVE  SemInv'
<1>1. TreeType' /\ SemType' /\ Queued'
  BY DEF SemInv, TreeType, SemType, Queued, treeVars
<1>2. Soft' = Soft
  BY DEF Soft
<1>3. Counted'
  BY <1>2 DEF SemInv, Counted, treeVars
<1>4. Devices'
  BY DEF SemInv, Devices, DevSemOK
<1>5. BlockedMatchesValue'
  <2> SUFFICES ASSUME NEW p \in Pcb, semAdd[p] # Null
               PROVE  semVal'[semAdd[p]] = IF blockedBy[p] = "P" THEN 0 ELSE 1
    BY DEF BlockedMatchesValue
  <2>1. semAdd[p] \in Sem /\ p \in Range(asl[semAdd[p]])
    BY DEF SemInv, SemType, Queued
  <2>2. asl[semAdd[p]] # <<>>
    BY <2>1 DEF Range
  <2> QED BY <2>1, <2>2 DEF SemInv, BlockedMatchesValue
<1> QED BY <1>1, <1>3, <1>4, <1>5 DEF SemInv

LEMMA UnchangedSemInv ==
  ASSUME SemInv, UNCHANGED <<treeVars, semVars, process_count, softblocked_count, dev, leaked>>
  PROVE  SemInv'
<1>1. UNCHANGED <<treeVars, semAdd, asl, blockedBy, semVal, process_count,
                  softblocked_count, dev, leaked>>
  BY DEF semVars
<1>2. /\ leaked \in Nat /\ softblocked_count = Cardinality(Soft) + leaked
      /\ semVal \in [Sem -> {0, 1}] /\ dev \in [Device -> DevState]
      /\ semVal[ITSem] = 0
      /\ \A d \in Device : dev[d] # "ready" => semVal[d] = 0
      /\ \A d \in Device : asl[d] # <<>> => dev[d] # "ready"
  BY DEF SemInv, Counted, SemType, Devices, DevSemOK
<1> QED BY <1>1, <1>2, StaySemInv

\* insertBlocked: the current process joins the queue of s.
LEMMA BlockSemInv ==
  ASSUME IInv, mode = "run", NEW s \in Sem, NEW op \in {"P", "V"},
         semVal[s] = BlockedAt(op), s \in Device => op = "P" /\ asl[s] = <<>>,
         asl' = [asl EXCEPT ![s] = InsertProcQ(@, curr_process)],
         semAdd' = [semAdd EXCEPT ![curr_process] = s],
         blockedBy' = [blockedBy EXCEPT ![curr_process] = op],
         UNCHANGED <<semVal, treeVars, process_count, leaked>>,
         softblocked_count' =
           softblocked_count + (IF s \in Device \cup {ITSem} THEN 1 ELSE 0),
         dev' \in [Device -> DevState],
         \A d \in Device : d # s => dev'[d] = dev[d],
         s \in Device => dev'[s] # "ready"
  PROVE  /\ SemInv'
         /\ ReadyOK(readyqueue, Null, alive', semAdd', prio')
<1> DEFINE c == curr_process
<1>1. c \in alive /\ c \in Pcb /\ semAdd[c] = Null
  BY DEF IInv, CpuInv, SemInv, TreeType
<1>2. s # Null /\ Null \notin Pcb
  BY PcbAssumption, SemAssumption
<1>3. TreeType' /\ alive' = alive /\ prio' = prio
  BY DEF IInv, SemInv, TreeType, treeVars
<1>4. /\ asl[s] \in Seq(Pcb) /\ IsInjective(asl[s])
      /\ Range(asl[s]) = {p \in alive : semAdd[p] = s}
      /\ c \notin Range(asl[s])
  BY <1>1, <1>2 DEF IInv, SemInv, SemType, Queued
<1>5. /\ asl'[s] = InsertProcQ(asl[s], c)
      /\ asl'[s] \in Seq(Pcb) /\ IsInjective(asl'[s])
      /\ Range(asl'[s]) = Range(asl[s]) \cup {c}
      /\ \A t \in Sem : t # s => asl'[t] = asl[t]
  BY <1>1, <1>4, InsertProcQProperties DEF IInv, SemInv, SemType
<1>6. /\ semAdd'[c] = s /\ blockedBy'[c] = op
      /\ \A p \in Pcb : p # c => semAdd'[p] = semAdd[p] /\ blockedBy'[p] = blockedBy[p]
  BY <1>1 DEF IInv, SemInv, SemType
<1>7. SemType'
  BY <1>1, <1>5 DEF IInv, SemInv, SemType
<1>8. Queued'
  <2>1. ASSUME NEW t \in Sem
        PROVE  IsInjective(asl'[t]) /\ Range(asl'[t]) = {p \in alive' : semAdd'[p] = t}
    <3>1. CASE t = s
      BY <1>1, <1>3, <1>4, <1>5, <1>6, <3>1 DEF IInv, SemInv, TreeType
    <3>2. CASE t # s
      <4>1. /\ asl'[t] = asl[t] /\ IsInjective(asl[t])
            /\ Range(asl[t]) = {p \in alive : semAdd[p] = t}
        BY <1>5, <3>2 DEF IInv, SemInv, Queued
      <4>2. t # Null
        BY SemAssumption
      <4> QED BY <1>1, <1>3, <1>6, <3>2, <4>1, <4>2 DEF IInv, SemInv, TreeType
    <3> QED BY <3>1, <3>2
  <2>2. \A p \in Pcb \ alive' : semAdd'[p] = Null
    BY <1>1, <1>3, <1>6 DEF IInv, SemInv, Queued
  <2> QED BY <2>1, <2>2 DEF Queued
<1>9. Counted'
  <2>1. IsFiniteSet(Soft) /\ Cardinality(Soft) \in Nat
    BY AliveFinite DEF IInv, SemInv
  <2>2. c \notin Soft
    BY <1>1, SemAssumption DEF Soft, Sem
  <2>3. CASE s \in Device \cup {ITSem}
    <3>1. Soft' = Soft \cup {c}
      BY <1>1, <1>6, <2>3 DEF Soft
    <3>2. Cardinality(Soft \cup {c}) = Cardinality(Soft) + 1
      BY <2>1, <2>2, FS_AddElement
    <3> QED BY <1>3, <2>1, <2>3, <3>1, <3>2 DEF IInv, SemInv, Counted
  <2>4. CASE s \notin Device \cup {ITSem}
    <3>1. Soft' = Soft
      BY <1>1, <1>6, <2>2, <2>4 DEF Soft
    <3> QED BY <1>3, <2>1, <2>4, <3>1 DEF IInv, SemInv, Counted
  <2> QED BY <2>3, <2>4
<1>10. Devices'
  <2>1. ASSUME NEW d \in Device
        PROVE  /\ dev'[d] # "ready" => semVal[d] = 0
               /\ asl'[d] # <<>> => dev'[d] # "ready" /\ Len(asl'[d]) = 1
    <3>1. CASE d = s
      <4>1. asl[s] = <<>>
        BY <3>1
      <4>2. \A q \in Seq(Pcb) : q = <<>> => Len(InsertProcQ(q, c)) = 1
        BY <1>1, SingletonLen
      <4>3. Len(InsertProcQ(asl[s], c)) = 1
        BY <1>4, <4>1, <4>2
      <4>4. Len(asl'[d]) = 1
        BY <1>5, <3>1, <4>3, Zenon
      <4> QED BY <3>1, <4>4 DEF BlockedAt
    <3>2. CASE d # s
      <4>1. asl'[d] = asl[d] /\ dev'[d] = dev[d]
        BY <1>5, <3>2 DEF Sem
      <4> QED BY <4>1 DEF IInv, SemInv, Devices, DevSemOK
    <3> QED BY <3>1, <3>2
  <2> QED BY <2>1 DEF IInv, SemInv, Devices, DevSemOK
<1>11. BlockedMatchesValue'
  <2> SUFFICES ASSUME NEW p \in Pcb, semAdd'[p] # Null
               PROVE  semVal[semAdd'[p]] = IF blockedBy'[p] = "P" THEN 0 ELSE 1
    BY DEF BlockedMatchesValue
  <2>1. CASE p = c
    BY <1>6, <2>1 DEF BlockedAt
  <2>2. CASE p # c
    BY <1>6, <2>2 DEF IInv, SemInv, BlockedMatchesValue
  <2> QED BY <2>1, <2>2
<1>12. ReadyOK(readyqueue, Null, alive', semAdd', prio')
  <2>1. ReadyOK(readyqueue, c, alive, semAdd, prio)
    BY DEF IInv, CpuInv
  <2>2. \A p \in alive : (p # c /\ semAdd[p] = Null) <=> (p # Null /\ semAdd'[p] = Null)
    BY <1>1, <1>2, <1>6 DEF IInv, SemInv, TreeType
  <2> QED BY <1>3, <2>1, <2>2 DEF ReadyOK
<1> QED BY <1>3, <1>7, <1>8, <1>9, <1>10, <1>11, <1>12 DEF SemInv

\* removeBlocked: the head of the queue of s becomes ready.
LEMMA UnblockSemInv ==
  ASSUME SemInv, CpuInv, NEW s \in Sem, asl[s] # <<>>, Unblock(s),
         UNCHANGED <<treeVars, process_count, leaked>>,
         softblocked_count' =
           softblocked_count - (IF s \in Device \cup {ITSem} THEN 1 ELSE 0),
         dev' \in [Device -> DevState],
         \A d \in Device : d # s => dev'[d] = dev[d],
         s \in Device => semVal[s] = 0
  PROVE  /\ SemInv'
         /\ ReadyOK(MakeReady(Head(asl[s])), curr_process, alive', semAdd', prio')
<1> DEFINE h == Head(asl[s])
<1>1. /\ asl[s] \in Seq(Pcb) /\ IsInjective(asl[s])
      /\ Range(asl[s]) = {p \in alive : semAdd[p] = s}
      /\ s # Null /\ Null \notin Pcb /\ alive \subseteq Pcb
  BY PcbAssumption, SemAssumption DEF SemInv, SemType, Queued, TreeType
<1>2. /\ h \in Range(asl[s])
      /\ Tail(asl[s]) \in Seq(Pcb) /\ IsInjective(Tail(asl[s]))
      /\ Range(asl[s]) = Range(Tail(asl[s])) \cup {h} /\ h \notin Range(Tail(asl[s]))
  BY <1>1, TailProperties
<1>3. h \in alive /\ h \in Pcb /\ semAdd[h] = s
  BY <1>1, <1>2
<1> HIDE DEF h
<1>4. /\ asl' = [asl EXCEPT ![s] = Tail(asl[s])]
      /\ semAdd' = [semAdd EXCEPT ![h] = Null]
      /\ blockedBy' = [blockedBy EXCEPT ![h] = "none"]
      /\ UNCHANGED semVal
  BY DEF Unblock, h
<1>5. asl'[s] = Tail(asl[s]) /\ \A t \in Sem : t # s => asl'[t] = asl[t]
  BY <1>4 DEF SemInv, SemType
<1>6. /\ semAdd'[h] = Null
      /\ \A p \in Pcb : p # h => semAdd'[p] = semAdd[p] /\ blockedBy'[p] = blockedBy[p]
  BY <1>3, <1>4 DEF SemInv, SemType
<1>7. TreeType' /\ alive' = alive /\ prio' = prio
  BY DEF SemInv, TreeType, treeVars
<1>8. SemType'
  BY <1>2, <1>3, <1>4 DEF SemInv, SemType
<1>9. Queued'
  <2>1. ASSUME NEW t \in Sem
        PROVE  IsInjective(asl'[t]) /\ Range(asl'[t]) = {p \in alive' : semAdd'[p] = t}
    <3>1. t # Null
      BY SemAssumption
    <3>2. CASE t = s
      <4>1. Range(Tail(asl[s])) = {p \in alive : p # h /\ semAdd[p] = s}
        BY <1>1, <1>2
      <4>2. {p \in alive : p # h /\ semAdd[p] = s} = {p \in alive' : semAdd'[p] = t}
        BY <1>1, <1>3, <1>6, <1>7, <3>1, <3>2
      <4> QED BY <1>2, <1>5, <3>2, <4>1, <4>2
    <3>3. CASE t # s
      <4>1. /\ asl'[t] = asl[t] /\ IsInjective(asl[t])
            /\ Range(asl[t]) = {p \in alive : semAdd[p] = t}
        BY <1>5, <3>3 DEF SemInv, Queued
      <4> QED BY <1>1, <1>3, <1>6, <1>7, <3>1, <3>3, <4>1
    <3> QED BY <3>2, <3>3
  <2>2. \A p \in Pcb \ alive' : semAdd'[p] = Null
    BY <1>3, <1>6, <1>7 DEF SemInv, Queued
  <2> QED BY <2>1, <2>2 DEF Queued
<1>10. Counted'
  <2>1. IsFiniteSet(Soft) /\ Cardinality(Soft) \in Nat
    BY AliveFinite DEF SemInv
  <2>2. Null \notin Device \cup {ITSem}
    BY SemAssumption DEF Sem
  <2>3. CASE s \in Device \cup {ITSem}
    <3>1. h \in Soft /\ Soft' = Soft \ {h}
      BY <1>3, <1>6, <2>2, <2>3 DEF Soft
    <3>2. Cardinality(Soft \ {h}) = Cardinality(Soft) - 1
      BY <2>1, <3>1, FS_RemoveElement
    <3>3. Cardinality(Soft') = Cardinality(Soft) - 1
      BY <3>1, <3>2
    <3> QED BY <1>7, <2>1, <2>3, <3>3 DEF SemInv, Counted
  <2>4. CASE s \notin Device \cup {ITSem}
    <3>1. Soft' = Soft
      BY <1>3, <1>6, <2>2, <2>4 DEF Soft
    <3> QED BY <1>7, <2>1, <2>4, <3>1 DEF SemInv, Counted
  <2> QED BY <2>3, <2>4
<1>11. Devices'
  <2>1. ASSUME NEW d \in Device
        PROVE  /\ dev'[d] # "ready" => semVal'[d] = 0
               /\ asl'[d] # <<>> => dev'[d] # "ready" /\ Len(asl'[d]) = 1
    <3>1. d \in Sem
      BY DEF Sem
    <3>2. CASE d = s
      <4>1. Len(asl[d]) = 1
        BY <3>2 DEF SemInv, Devices, DevSemOK
      <4>2. asl'[d] = <<>>
        BY <1>1, <1>3, <1>5, <3>2, <4>1, SingletonLen
      <4> QED BY <1>4, <3>2, <4>2
    <3>3. CASE d # s
      BY <1>4, <1>5, <3>1, <3>3 DEF SemInv, Devices, DevSemOK
    <3> QED BY <3>2, <3>3
  <2> QED BY <1>4, <2>1 DEF SemInv, Devices, DevSemOK
<1>12. BlockedMatchesValue'
  <2> SUFFICES ASSUME NEW p \in Pcb, semAdd'[p] # Null
               PROVE  semVal[semAdd'[p]] = IF blockedBy'[p] = "P" THEN 0 ELSE 1
    BY <1>4 DEF BlockedMatchesValue
  <2>1. p # h
    BY <1>6
  <2> QED BY <1>6, <2>1 DEF SemInv, BlockedMatchesValue
<1>13. ReadyOK(MakeReady(h), curr_process, alive, semAdd', prio)
  <2>1. ~(h # curr_process /\ semAdd[h] = Null)
    BY <1>1, <1>3
  <2>2. h # curr_process
    BY <1>1, <1>3 DEF CpuInv
  <2>3. \A q \in alive : (q # curr_process /\ semAdd'[q] = Null) <=>
                           (q = h \/ (q # curr_process /\ semAdd[q] = Null))
    BY <1>1, <1>6, <2>2
  <2>4. ReadyOK(readyqueue, curr_process, alive, semAdd, prio) /\ TreeType
    BY DEF SemInv, CpuInv
  <2> QED BY <1>3, <2>1, <2>3, <2>4, MakeReadyOK
<1> QED BY <1>7, <1>8, <1>9, <1>10, <1>11, <1>12, <1>13 DEF SemInv, h

\* _ITHandler: every process that waits for the clock becomes ready.
LEMMA TickSemInv ==
  ASSUME SemInv, CpuInv, ITInterrupt
  PROVE  /\ SemInv'
         /\ ReadyOK(ReadyAfterTick, curr_process, alive', semAdd', prio')
<1> DEFINE woken == {p \in alive : semAdd[p] = ITSem}
           Woken(level) == Without(asl[ITSem], {p \in Pcb : prio[p] # level})
<1>1. /\ asl' = [asl EXCEPT ![ITSem] = <<>>]
      /\ semAdd' = [p \in Pcb |-> IF semAdd[p] = ITSem THEN Null ELSE semAdd[p]]
      /\ blockedBy' = [p \in Pcb |-> IF semAdd[p] = ITSem THEN "none" ELSE blockedBy[p]]
      /\ semVal' = [semVal EXCEPT ![ITSem] = 0]
      /\ softblocked_count' = softblocked_count - Len(asl[ITSem])
      /\ UNCHANGED <<alive, parent, prio, supp, process_count, dev, leaked>>
  BY DEF ITInterrupt, treeVars
<1>2. /\ ITSem \in Sem /\ ITSem # Null /\ ITSem \notin Device
      /\ Null \notin Pcb /\ Null \notin Device /\ alive \subseteq Pcb
  BY PcbAssumption, SemAssumption DEF Sem, SemInv, TreeType
<1>3. /\ asl[ITSem] \in Seq(Pcb) /\ IsInjective(asl[ITSem])
      /\ Range(asl[ITSem]) = woken
  BY <1>2 DEF SemInv, SemType, Queued
<1>4. asl'[ITSem] = <<>> /\ \A s \in Sem : s # ITSem => asl'[s] = asl[s]
  BY <1>1, <1>2 DEF SemInv, SemType
<1>5. TreeType'
  BY <1>1 DEF SemInv, TreeType
<1>6. SemType'
  BY <1>1, <1>2 DEF SemInv, SemType
<1>7. Queued'
  <2>1. ASSUME NEW s \in Sem
        PROVE  IsInjective(asl'[s]) /\ Range(asl'[s]) = {p \in alive' : semAdd'[p] = s}
    <3>1. s # Null
      BY SemAssumption
    <3>2. CASE s = ITSem
      <4>1. IsInjective(<<>>) /\ Range(<<>>) = {}
        BY DEF IsInjective, Range
      <4>2. {p \in alive' : semAdd'[p] = s} = {}
        BY <1>1, <1>2, <3>1, <3>2
      <4> QED BY <1>4, <3>2, <4>1, <4>2
    <3>3. CASE s # ITSem
      <4>1. /\ asl'[s] = asl[s] /\ IsInjective(asl[s])
            /\ Range(asl[s]) = {p \in alive : semAdd[p] = s}
        BY <1>4, <3>3 DEF SemInv, Queued
      <4> QED BY <1>1, <1>2, <3>1, <3>3, <4>1
    <3> QED BY <3>2, <3>3
  <2>2. \A p \in Pcb \ alive' : semAdd'[p] = Null
    BY <1>1 DEF SemInv, Queued
  <2> QED BY <2>1, <2>2 DEF Queued
<1>8. Counted'
  <2>1. IsFiniteSet(Soft) /\ Cardinality(Soft) \in Nat
    BY AliveFinite DEF SemInv
  <2>2. woken \in SUBSET Soft
    BY <1>2 DEF Soft
  <2>3. Soft' = Soft \ woken
    <3>1. \A p \in Pcb : semAdd[p] = ITSem => p \in alive
      BY <1>2 DEF SemInv, Queued
    <3> QED BY <1>1, <1>2, <3>1 DEF Soft
  <2>4. /\ Cardinality(Soft \ woken) = Cardinality(Soft) - Cardinality(Soft \cap woken)
        /\ Soft \cap woken = woken
    BY <2>1, <2>2, FS_Difference
  <2>5. Cardinality(woken) = Len(asl[ITSem])
    BY <1>3, InjectiveLen
  <2>6. Cardinality(Soft \cap woken) = Len(asl[ITSem]) /\ Len(asl[ITSem]) \in Nat
    <3>1. Cardinality(Soft \cap woken) = Cardinality(woken)
      BY <2>4
    <3> HIDE DEF woken
    <3> QED BY <1>3, <2>5, <3>1
  <2>7. Cardinality(Soft') = Cardinality(Soft) - Len(asl[ITSem])
    BY <2>3, <2>4, <2>6
  <2>8. softblocked_count = Cardinality(Soft) + leaked /\ leaked \in Nat
    BY DEF SemInv, Counted
  <2>9. softblocked_count' = Cardinality(Soft') + leaked
    BY <1>1, <2>1, <2>6, <2>7, <2>8
  <2> QED BY <1>1, <2>9 DEF SemInv, Counted
<1>9. Devices'
  <2>1. \A d \in Device : d \in Sem /\ asl'[d] = asl[d] /\ semVal'[d] = semVal[d]
    BY <1>1, <1>2, <1>4 DEF Sem, SemInv, SemType
  <2>2. semVal'[ITSem] = 0
    BY <1>1, <1>2 DEF SemInv, SemType
  <2> QED BY <1>1, <2>1, <2>2 DEF SemInv, Devices, DevSemOK
<1>10. BlockedMatchesValue'
  <2> SUFFICES ASSUME NEW p \in Pcb, semAdd'[p] # Null
               PROVE  semVal'[semAdd'[p]] = IF blockedBy'[p] = "P" THEN 0 ELSE 1
    BY DEF BlockedMatchesValue
  <2>1. /\ semAdd[p] # ITSem /\ semAdd'[p] = semAdd[p] /\ blockedBy'[p] = blockedBy[p]
        /\ semAdd[p] # Null
    BY <1>1
  <2>2. semVal'[semAdd[p]] = semVal[semAdd[p]]
    BY <1>1, <2>1 DEF SemInv, SemType
  <2> QED BY <2>1, <2>2 DEF SemInv, BlockedMatchesValue
<1>11. ASSUME NEW level \in Prio
       PROVE  /\ readyqueue[level] \o Woken(level) \in Seq(Pcb)
              /\ IsInjective(readyqueue[level] \o Woken(level))
              /\ Range(readyqueue[level] \o Woken(level)) =
                   {p \in alive' : p # curr_process /\ semAdd'[p] = Null /\ prio'[p] = level}
  <2>1. /\ Woken(level) \in Seq(Pcb) /\ IsInjective(Woken(level))
        /\ Range(Woken(level)) = woken \ {p \in Pcb : prio[p] # level}
    BY <1>3, WithoutProperties
  <2>2. /\ readyqueue[level] \in Seq(Pcb) /\ IsInjective(readyqueue[level])
        /\ Range(readyqueue[level]) =
             {p \in alive : p # curr_process /\ semAdd[p] = Null /\ prio[p] = level}
    BY DEF CpuInv, ReadyOK
  <2> HIDE DEF Woken
  <2>3. Range(readyqueue[level]) \cap Range(Woken(level)) = {}
    BY <1>2, <2>1, <2>2
  <2>4. /\ readyqueue[level] \o Woken(level) \in Seq(Pcb)
        /\ IsInjective(readyqueue[level] \o Woken(level))
        /\ Range(readyqueue[level] \o Woken(level)) =
             Range(readyqueue[level]) \cup Range(Woken(level))
    BY <2>1, <2>2, <2>3, ConcatInjective
  <2>5. \A p \in woken : p # curr_process
    BY <1>2 DEF CpuInv
  <2>6. Range(readyqueue[level]) \cup Range(Woken(level)) =
          {p \in alive' : p # curr_process /\ semAdd'[p] = Null /\ prio'[p] = level}
    BY <1>1, <1>2, <2>1, <2>2, <2>5
  <2> QED BY <2>4, <2>6
<1>12. ReadyOK(ReadyAfterTick, curr_process, alive', semAdd', prio')
  <2>1. ReadyAfterTick = [level \in Prio |-> readyqueue[level] \o Woken(level)]
    BY DEF ReadyAfterTick
  <2> HIDE DEF Woken
  <2> QED BY <1>11, <2>1 DEF ReadyOK
<1> QED BY <1>5, <1>6, <1>7, <1>8, <1>9, <1>10, <1>12 DEF SemInv

\* _interruptHandlerExit, whoever was running.
LEMMA ExitCpuInv ==
  ASSUME SemInv', CpuInv, Interruptible, NEW STATE rq, alive' = alive,
         ReadyOK(rq, curr_process, alive', semAdd', prio'),
         curr_process # Null => semAdd'[curr_process] = Null,
         InterruptExit(rq)
  PROVE  CpuInv'
<1>1. PICK late \in BOOLEAN :
        IF curr_process = Null
        THEN Schedule(rq, Null, late)
        ELSE readyqueue' = rq /\ plt' = late /\ UNCHANGED <<curr_process, mode>>
  BY DEF InterruptExit
<1>2. CASE curr_process = Null
  BY <1>1, <1>2, ScheduleCpuInv
<1>3. CASE curr_process # Null
  <2>1. mode = "run"
    BY <1>3 DEF CpuInv, IdleSound, Interruptible
  <2>2. alive' \subseteq Pcb /\ curr_process \in alive'
    BY <1>3 DEF CpuInv, SemInv, TreeType
  <2> QED BY <1>1, <1>3, <2>1, <2>2, ResumeCpuInv
<1> QED BY <1>2, <1>3

-----------------------------------------------------------------------------
(* The actions *)

\* semP and semV as a whole, for the four system calls made of them.
LEMMA SemOpIInv ==
  ASSUME IInv, Running, NEW s \in Sem, NEW op \in {"P", "V"}, SemOp(s, op),
         s \in Device => op = "P" /\ dev[s] = "ready",
         s = ITSem => op = "P",
         UNCHANGED <<treeVars, process_count>>,
         softblocked_count' =
           softblocked_count + (IF s \in Device \cup {ITSem} THEN 1 ELSE 0),
         dev' = IF s \in Device THEN [dev EXCEPT ![s] = "busy"] ELSE dev,
         leaked' = IF s \in Device /\ semVal[s] # 0 THEN leaked + 1 ELSE leaked
  PROVE  IInv'
<1>1. /\ mode = "run" /\ curr_process # Null /\ curr_process \in alive
      /\ plt \in BOOLEAN
      /\ SemInv /\ CpuInv
  BY DEF IInv, CpuInv, Running
<1>2. /\ dev' \in [Device -> DevState]
      /\ \A d \in Device : d # s => dev'[d] = dev[d]
      /\ s \in Device => dev'[s] = "busy"
  BY <1>1 DEF SemInv, Devices, DevState
<1>3. semVal[s] \in {0, 1} /\ semVal \in [Sem -> {0, 1}] /\ semVal[ITSem] = 0
  BY <1>1 DEF SemInv, SemType, Devices, DevSemOK
<1>4. s \in Device => asl[s] = <<>>
  BY <1>1 DEF SemInv, Devices, DevSemOK
<1>5. CASE semVal[s] = BlockedAt(op) /\ Block(s, op)
  <2>2. ~(Cardinality(ActiveSem) >= MaxSemd)
    BY <1>1, CurrentUsesNoSemd
  <2>3. /\ asl' = [asl EXCEPT ![s] = InsertProcQ(@, curr_process)]
        /\ semAdd' = [semAdd EXCEPT ![curr_process] = s]
        /\ blockedBy' = [blockedBy EXCEPT ![curr_process] = op]
        /\ UNCHANGED semVal
        /\ Schedule(readyqueue, Null, plt)
    BY <1>5, <2>2 DEF Block
  <2>4. leaked' = leaked
    BY <1>5 DEF BlockedAt
  <2>5. SemInv' /\ ReadyOK(readyqueue, Null, alive', semAdd', prio')
    BY <1>1, <1>2, <1>4, <1>5, <2>3, <2>4, BlockSemInv
  <2>6. CpuInv'
    BY <1>1, <2>3, <2>5, ScheduleCpuInv
  <2> QED BY <2>5, <2>6 DEF IInv
<1>6. CASE /\ semVal[s] # BlockedAt(op) /\ asl[s] # <<>>
           /\ Unblock(s) /\ Resume(MakeReady(Head(asl[s])))
  <2>1. s \notin Device /\ s # ITSem
    BY <1>3, <1>4, <1>6 DEF BlockedAt
  <2>2. leaked' = leaked /\ dev' = dev /\ softblocked_count' = softblocked_count + 0
    BY <2>1
  <2>3. softblocked_count' = softblocked_count - 0
    <3>1. softblocked_count \in Nat
      BY <1>1, AliveFinite DEF SemInv, Counted
    <3> QED BY <2>2, <3>1
  <2>4. /\ SemInv'
        /\ ReadyOK(MakeReady(Head(asl[s])), curr_process, alive', semAdd', prio')
    BY <1>1, <1>2, <1>6, <2>1, <2>2, <2>3, UnblockSemInv
  <2>5. alive' \subseteq Pcb /\ curr_process \in alive'
    BY <1>1, <2>4 DEF SemInv, TreeType, treeVars
  <2>6. semAdd'[curr_process] = Null
    BY <1>1, <1>6 DEF Unblock, CpuInv, SemInv, SemType
  <2>7. CpuInv'
    BY <1>1, <1>6, <2>4, <2>5, <2>6, ResumeCpuInv DEF Resume
  <2> QED BY <2>4, <2>7 DEF IInv
<1>7. CASE /\ semVal[s] # BlockedAt(op) /\ asl[s] = <<>>
           /\ semVal' = [semVal EXCEPT ![s] = BlockedAt(op)]
           /\ Resume(readyqueue)
           /\ UNCHANGED <<semAdd, asl, blockedBy>>
  <2>1. s # ITSem
    BY <1>3, <1>7 DEF BlockedAt
  <2>2. /\ semVal' \in [Sem -> {0, 1}]
        /\ \A t \in Sem : t # s => semVal'[t] = semVal[t]
        /\ s \in Device => semVal'[s] = 0 /\ semVal[s] # 0
    BY <1>3, <1>7 DEF BlockedAt
  <2>3. ITSem \in Sem /\ \A d \in Device : d \in Sem
    BY DEF Sem
  <2>4. leaked' \in Nat /\ softblocked_count' = Cardinality(Soft) + leaked'
    <3>1. /\ leaked \in Nat /\ Cardinality(Soft) \in Nat
          /\ softblocked_count = Cardinality(Soft) + leaked
      BY <1>1, AliveFinite DEF SemInv, Counted
    <3> QED BY <2>1, <2>2, <3>1
  <2>5. \A d \in Device : /\ dev'[d] # "ready" => semVal'[d] = 0
                          /\ asl[d] # <<>> => dev'[d] # "ready"
    BY <1>1, <1>2, <1>4, <2>2, <2>3 DEF SemInv, Devices, DevSemOK
  <2>6. SemInv'
    BY <1>1, <1>2, <1>3, <1>7, <2>1, <2>2, <2>3, <2>4, <2>5, StaySemInv
  <2>7. alive' \subseteq Pcb /\ curr_process \in alive' /\ semAdd'[curr_process] = Null
    BY <1>1, <1>7, <2>6 DEF SemInv, TreeType, treeVars, CpuInv
  <2>8. ReadyOK(readyqueue, curr_process, alive', semAdd', prio')
    BY <1>1, <1>7 DEF CpuInv, treeVars
  <2>9. CpuInv'
    BY <1>1, <1>7, <2>7, <2>8, ResumeCpuInv DEF Resume
  <2> QED BY <2>6, <2>9 DEF IInv
<1> QED BY <1>5, <1>6, <1>7 DEF SemOp

LEMMA CreateIInv ==
  ASSUME IInv, NEW new \in Pcb, NEW level \in Prio, NEW support \in BOOLEAN,
         CreateProcess(new, level, support)
  PROVE  IInv'
<1>1. /\ mode = "run" /\ new \notin alive
      /\ alive' = alive \cup {new}
      /\ parent' = [parent EXCEPT ![new] = curr_process]
      /\ prio' = [prio EXCEPT ![new] = level]
      /\ supp' = [supp EXCEPT ![new] = support]
      /\ process_count' = process_count + 1
      /\ readyqueue' = [readyqueue EXCEPT ![level] = InsertProcQ(readyqueue[level], new)]
      /\ UNCHANGED <<curr_process, mode, plt>>
      /\ UNCHANGED <<semAdd, asl, semVal, blockedBy, softblocked_count, dev, leaked>>
  BY DEF CreateProcess, Running, Resume, semVars
<1>2. /\ curr_process \in alive /\ curr_process # Null /\ curr_process # new
      /\ semAdd[curr_process] = Null /\ semAdd[new] = Null
      /\ plt \in BOOLEAN /\ alive \subseteq Pcb /\ Null \notin Pcb
  BY <1>1, PcbAssumption DEF IInv, CpuInv, SemInv, TreeType, Queued
<1>3. TreeType'
  BY <1>1, <1>2 DEF IInv, SemInv, TreeType
<1>4. SemType' /\ Devices' /\ BlockedMatchesValue'
  BY <1>1 DEF IInv, SemInv, SemType, Devices, DevSemOK, BlockedMatchesValue
<1>5. Queued'
  <2>1. ASSUME NEW s \in Sem
        PROVE  IsInjective(asl'[s]) /\ Range(asl'[s]) = {p \in alive' : semAdd'[p] = s}
    <3>1. s # Null
      BY SemAssumption
    <3>2. /\ asl'[s] = asl[s] /\ IsInjective(asl[s])
          /\ Range(asl[s]) = {p \in alive : semAdd[p] = s}
      BY <1>1 DEF IInv, SemInv, Queued
    <3> QED BY <1>1, <1>2, <3>1, <3>2
  <2>2. \A p \in Pcb \ alive' : semAdd'[p] = Null
    BY <1>1 DEF IInv, SemInv, Queued
  <2> QED BY <2>1, <2>2 DEF Queued
<1>6. Counted'
  <2>1. IsFiniteSet(alive) /\ Cardinality(alive) \in Nat
    BY AliveFinite DEF IInv, SemInv
  <2>2. Cardinality(alive \cup {new}) = Cardinality(alive) + 1
    BY <1>1, <2>1, FS_AddElement
  <2>3. Cardinality(alive') = Cardinality(alive) + 1
    BY <1>1, <2>2
  <2>4. Soft' = Soft
    BY <1>1 DEF Soft
  <2>5. Cardinality(Soft') = Cardinality(Soft)
    BY <2>4
  <2> QED BY <1>1, <2>3, <2>5 DEF IInv, SemInv, Counted
<1>7. ReadyOK(readyqueue', curr_process, alive', semAdd', prio')
  <2>1. ASSUME NEW l \in Prio
        PROVE  /\ readyqueue[l] \in Seq(Pcb) /\ IsInjective(readyqueue[l])
               /\ Range(readyqueue[l]) =
                    {p \in alive : p # curr_process /\ semAdd[p] = Null /\ prio[p] = l}
               /\ new \notin Range(readyqueue[l])
    BY <1>1 DEF IInv, CpuInv, ReadyOK
  <2>2. /\ InsertProcQ(readyqueue[level], new) \in Seq(Pcb)
        /\ Range(InsertProcQ(readyqueue[level], new)) = Range(readyqueue[level]) \cup {new}
        /\ IsInjective(InsertProcQ(readyqueue[level], new))
    BY <2>1, InsertProcQProperties
  <2>3. readyqueue \in [Prio -> Seq(Pcb)]
    BY DEF IInv, CpuInv, ReadyOK
  <2>4. readyqueue' \in [Prio -> Seq(Pcb)]
    BY <1>1, <2>2, <2>3
  <2>5. prio'[new] = level /\ \A p \in alive : prio'[p] = prio[p]
    BY <1>1, <1>2 DEF IInv, SemInv, TreeType
  <2>6. ASSUME NEW l \in Prio
        PROVE  /\ IsInjective(readyqueue'[l])
               /\ Range(readyqueue'[l]) =
                    {p \in alive' : p # curr_process /\ semAdd'[p] = Null /\ prio'[p] = l}
    <3>1. CASE l = level
      <4>1. readyqueue'[l] = InsertProcQ(readyqueue[level], new)
        BY <1>1, <2>3, <3>1
      <4>2. Range(readyqueue[level]) \cup {new} =
              {p \in alive' : p # curr_process /\ semAdd'[p] = Null /\ prio'[p] = l}
        BY <1>1, <1>2, <2>1, <2>5, <3>1
      <4> QED BY <2>2, <4>1, <4>2
    <3>2. CASE l # level
      <4>1. readyqueue'[l] = readyqueue[l]
        BY <1>1, <2>3, <3>2
      <4>2. Range(readyqueue[l]) =
              {p \in alive' : p # curr_process /\ semAdd'[p] = Null /\ prio'[p] = l}
        BY <1>1, <1>2, <2>1, <2>5, <3>2
      <4> QED BY <2>1, <4>1, <4>2
    <3> QED BY <3>1, <3>2
  <2> QED BY <2>4, <2>6 DEF ReadyOK
<1>8. CpuInv'
  <2>1. CpuInv /\ alive' \subseteq Pcb /\ curr_process \in alive' /\ semAdd'[curr_process] = Null
    BY <1>1, <1>2, <1>3 DEF IInv, TreeType
  <2> QED BY <1>1, <1>2, <1>7, <2>1, ResumeCpuInv
<1> QED BY <1>3, <1>4, <1>5, <1>6, <1>8 DEF IInv, SemInv

\* A kill, and the way out of the handler that made it: scheduler() if the
\* running process is among the victims.
LEMMA KillIInv ==
  ASSUME IInv, mode = "run", NEW target \in alive, KillProcess(target), SemInv',
         IF curr_process \in Subtree(target)
         THEN Schedule(ReadyAfterKill(target), Null, plt)
         ELSE Resume(ReadyAfterKill(target))
  PROVE  IInv'
<1>1. SemInv /\ CpuInv /\ plt \in BOOLEAN /\ curr_process # Null /\ curr_process \in alive
  BY DEF IInv, CpuInv
<1>2. /\ alive' = alive \ Subtree(target) /\ alive' \subseteq Pcb
      /\ semAdd' = [p \in Pcb |-> IF p \in Subtree(target) THEN Null ELSE semAdd[p]]
  BY DEF KillProcess, SemInv, TreeType
<1>3. ReadyOK(ReadyAfterKill(target), curr_process, alive', semAdd', prio')
  BY <1>1, KillReady
<1>4. CASE curr_process \in Subtree(target)
  <2>1. \A p \in alive' : p # Null /\ p # curr_process
    BY <1>2, <1>4, PcbAssumption
  <2>2. ReadyOK(ReadyAfterKill(target), Null, alive', semAdd', prio')
    BY <1>3, <2>1 DEF ReadyOK
  <2>3. CpuInv'
    BY <1>1, <1>4, <2>2, ScheduleCpuInv
  <2> QED BY <2>3 DEF IInv
<1>5. CASE curr_process \notin Subtree(target)
  <2>1. curr_process \in alive' /\ semAdd'[curr_process] = Null
    BY <1>1, <1>2, <1>5 DEF CpuInv
  <2>2. CpuInv'
    BY <1>1, <1>2, <1>3, <1>5, <2>1, ResumeCpuInv DEF Resume
  <2> QED BY <2>2 DEF IInv
<1> QED BY <1>4, <1>5

LEMMA TermProcessIInv ==
  ASSUME IInv, NEW target \in Pcb, TermProcess(target)
  PROVE  IInv'
<1>1. target \in alive /\ mode = "run" /\ KillProcess(target) /\ UNCHANGED <<semVal, dev, leaked>>
  BY DEF TermProcess, Running
<1>2. /\ SemInv
      /\ semVal' \in [Sem -> {0, 1}] /\ dev' \in [Device -> DevState]
      /\ semVal'[ITSem] = 0
      /\ \A d \in Device : dev'[d] # "ready" => semVal'[d] = 0
      /\ \A d \in Device : asl[d] # <<>> => dev'[d] # "ready"
  BY <1>1 DEF IInv, SemInv, SemType, Devices, DevSemOK
<1>3. SemInv'
  BY <1>1, <1>2, KillSemInv
<1> QED BY <1>1, <1>3, KillIInv DEF TermProcess

LEMMA DieIInv ==
  ASSUME IInv, Die
  PROVE  IInv'
<1>1. /\ mode = "run" /\ curr_process \in alive /\ curr_process \in Pcb
      /\ TreeType
  BY DEF Die, Running, IInv, CpuInv, SemInv, TreeType
<1>2. curr_process \in Subtree(curr_process)
  BY <1>1, SubtreeAlive
<1>3. TermProcess(curr_process)
  BY <1>1, <1>2 DEF Die, TermProcess
<1> QED BY <1>1, <1>3, TermProcessIInv

\* The process that ran goes to the end of its ready queue: YIELD and the end
\* of a time slice.
LEMMA PreemptIInv ==
  ASSUME IInv, curr_process # Null, NEW STATE skip, NEW STATE pending, pending \in BOOLEAN,
         UNCHANGED <<treeVars, semVars, process_count, softblocked_count, dev, leaked>>,
         Schedule(MakeReady(curr_process), skip, pending)
  PROVE  IInv'
<1>1. /\ SemInv /\ CpuInv /\ TreeType
      /\ curr_process \in alive /\ semAdd[curr_process] = Null
      /\ ReadyOK(readyqueue, curr_process, alive, semAdd, prio)
      /\ \A q \in alive : q # Null
  BY PcbAssumption DEF IInv, CpuInv, SemInv, TreeType
<1>2. SemInv'
  BY <1>1, UnchangedSemInv
<1>3. ReadyOK(MakeReady(curr_process), Null, alive, semAdd, prio)
  <2>1. \A q \in alive : (q # Null /\ semAdd[q] = Null) <=>
                           (q = curr_process \/ (q # curr_process /\ semAdd[q] = Null))
    BY <1>1
  <2> QED BY <1>1, <2>1, MakeReadyOK
<1>4. alive' = alive /\ semAdd' = semAdd /\ prio' = prio
  BY DEF treeVars, semVars
<1>5. CpuInv'
  BY <1>2, <1>3, <1>4, ScheduleCpuInv
<1> QED BY <1>2, <1>5 DEF IInv

LEMMA PLTInterruptIInv ==
  ASSUME IInv, PLTInterrupt
  PROVE  IInv'
<1>1. /\ Interruptible
      /\ UNCHANGED <<treeVars, semVars, process_count, softblocked_count, dev, leaked>>
  BY DEF PLTInterrupt
<1>2. CASE curr_process = Null
  <2>1. SemInv'
    BY <1>1, UnchangedSemInv DEF IInv
  <2>2. mode' = "fault" /\ plt' = FALSE /\ UNCHANGED <<curr_process, readyqueue>>
    BY <1>2 DEF PLTInterrupt
  <2>3. alive' = alive /\ semAdd' = semAdd /\ prio' = prio
    BY <1>1 DEF treeVars, semVars
  <2>4. CpuInv'
    BY <1>2, <2>2, <2>3 DEF IInv, CpuInv, IdleSound, Mode, Stopped
  <2> QED BY <2>1, <2>4 DEF IInv
<1>3. CASE curr_process # Null
  BY <1>1, <1>3, PreemptIInv DEF PLTInterrupt
<1> QED BY <1>2, <1>3

LEMMA ITInterruptIInv ==
  ASSUME IInv, ITInterrupt
  PROVE  IInv'
<1>1. /\ SemInv'
      /\ ReadyOK(ReadyAfterTick, curr_process, alive', semAdd', prio')
  BY TickSemInv DEF IInv
<1>2. /\ Interruptible /\ alive' = alive /\ InterruptExit(ReadyAfterTick)
      /\ semAdd' = [p \in Pcb |-> IF semAdd[p] = ITSem THEN Null ELSE semAdd[p]]
  BY DEF ITInterrupt, treeVars
<1>3. curr_process # Null => semAdd'[curr_process] = Null
  BY <1>2 DEF IInv, CpuInv
<1> QED BY <1>1, <1>2, <1>3, ExitCpuInv DEF IInv

LEMMA DeviceInterruptIInv ==
  ASSUME IInv, NEW d \in Device, DeviceInterrupt(d)
  PROVE  IInv'
<1>1. /\ Interruptible /\ semVal[d] = 0 /\ asl[d] # <<>>
      /\ dev' = [dev EXCEPT ![d] = "ready"]
      /\ Unblock(d)
      /\ softblocked_count' = softblocked_count - 1
      /\ UNCHANGED <<treeVars, process_count, leaked>>
      /\ InterruptExit(MakeReady(Head(asl[d])))
  BY DEF DeviceInterrupt
<1>2. /\ SemInv /\ CpuInv /\ d \in Sem
      /\ dev' \in [Device -> DevState]
      /\ \A e \in Device : e # d => dev'[e] = dev[e]
  BY <1>1 DEF IInv, SemInv, Devices, DevState, Sem
<1>3. softblocked_count' =
        softblocked_count - (IF d \in Device \cup {ITSem} THEN 1 ELSE 0)
  BY <1>1
<1>4. /\ SemInv'
      /\ ReadyOK(MakeReady(Head(asl[d])), curr_process, alive', semAdd', prio')
  BY <1>1, <1>2, <1>3, UnblockSemInv
<1>5. alive' = alive /\ (curr_process # Null => semAdd'[curr_process] = Null)
  BY <1>1, <1>2 DEF treeVars, Unblock, CpuInv, SemInv, SemType
<1> QED BY <1>1, <1>2, <1>4, <1>5, ExitCpuInv DEF IInv

LEMMA OrphanInterruptIInv ==
  ASSUME IInv, NEW d \in Device, OrphanInterrupt(d)
  PROVE  IInv'
<1>1. /\ Interruptible /\ asl[d] = <<>>
      /\ dev' = [dev EXCEPT ![d] = "ready"]
      /\ semVal' = [semVal EXCEPT ![d] = 1]
      /\ UNCHANGED leaked
      /\ SemInv /\ CpuInv
  BY DEF OrphanInterrupt, IInv
<1>2. d # ITSem /\ \A e \in Device : e \in Sem
  BY SemAssumption DEF Sem
<1>3. /\ semVal' \in [Sem -> {0, 1}] /\ dev' \in [Device -> DevState]
      /\ semVal'[ITSem] = 0
      /\ \A s \in Sem : asl[s] # <<>> => semVal'[s] = semVal[s]
      /\ \A e \in Device : dev'[e] # "ready" => semVal'[e] = 0
      /\ \A e \in Device : asl[e] # <<>> => dev'[e] # "ready"
  BY <1>1, <1>2 DEF SemInv, SemType, Devices, DevSemOK, DevState
<1>4. leaked' \in Nat /\ softblocked_count = Cardinality(Soft) + leaked'
  BY <1>1 DEF SemInv, Counted
<1>5. CASE /\ curr_process = Null
           /\ mode' = "fault"
           /\ UNCHANGED <<treeVars, semAdd, asl, blockedBy, curr_process, readyqueue,
                          plt, process_count, softblocked_count>>
  <2>1. SemInv'
    BY <1>1, <1>3, <1>4, <1>5, StaySemInv
  <2>2. CpuInv'
    BY <1>1, <1>5 DEF CpuInv, IdleSound, Mode, Stopped, treeVars
  <2> QED BY <2>1, <2>2 DEF IInv
<1>6. CASE UNCHANGED <<treeVars, semAdd, asl, blockedBy, cpuVars,
                       process_count, softblocked_count>>
  <2>1. SemInv'
    BY <1>1, <1>3, <1>4, <1>6, StaySemInv
  <2>2. CpuInv'
    BY <1>1, <1>6 DEF CpuInv, IdleSound, treeVars, cpuVars
  <2> QED BY <2>1, <2>2 DEF IInv
<1>7. CASE /\ curr_process # Null
           /\ KillProcess(curr_process)
           /\ Schedule(ReadyAfterKill(curr_process), Null, plt)
  <2>1. curr_process \in alive /\ mode = "run" /\ TreeType
    BY <1>1, <1>7 DEF CpuInv, IdleSound, Interruptible, SemInv
  <2>2. SemInv'
    BY <1>1, <1>3, <1>7, <2>1, KillSemInv
  <2>3. curr_process \in Subtree(curr_process)
    BY <2>1, SubtreeAlive
  <2> QED BY <1>7, <2>1, <2>2, <2>3, KillIInv
<1> QED BY <1>5, <1>6, <1>7 DEF OrphanInterrupt

\* The events that change neither the queues nor the counters.
LEMMA EventIInv ==
  ASSUME IInv, \/ PLTExpire
               \/ \E d \in Device : DevComplete(d) \/ TerminalError(d)
               \/ Stutter
               \/ UNCHANGED vars
  PROVE  IInv'
<1>1. CASE PLTExpire
  <2>1. SemInv'
    BY <1>1, UnchangedSemInv DEF PLTExpire, IInv
  <2>2. CpuInv'
    BY <1>1 DEF PLTExpire, IInv, CpuInv, IdleSound, treeVars, semVars
  <2> QED BY <2>1, <2>2 DEF IInv
<1>2. ASSUME NEW d \in Device, DevComplete(d)
      PROVE  IInv'
  <2>1. /\ dev[d] = "busy"
        /\ UNCHANGED <<treeVars, semVars, cpuVars, process_count, softblocked_count, leaked>>
        /\ \E result \in {"done", "error"} : dev' = [dev EXCEPT ![d] = result]
    BY <1>2 DEF DevComplete
  <2>2. /\ SemInv
        /\ leaked \in Nat /\ softblocked_count = Cardinality(Soft) + leaked
        /\ semVal \in [Sem -> {0, 1}] /\ semVal[ITSem] = 0
        /\ dev' \in [Device -> DevState]
        /\ \A e \in Device : dev'[e] # "ready" => semVal[e] = 0
        /\ \A e \in Device : asl[e] # <<>> => dev'[e] # "ready"
    BY <2>1 DEF IInv, SemInv, Counted, SemType, Devices, DevSemOK, DevState
  <2>3. SemInv'
    BY <2>1, <2>2, StaySemInv DEF semVars
  <2>4. CpuInv'
    BY <2>1 DEF IInv, CpuInv, IdleSound, treeVars, semVars, cpuVars
  <2> QED BY <2>3, <2>4 DEF IInv
<1>3. ASSUME NEW d \in Device, TerminalError(d)
      PROVE  IInv'
  <2>1. SemInv'
    BY <1>3, UnchangedSemInv DEF TerminalError, IInv
  <2>2. CpuInv'
    BY <1>3 DEF TerminalError, IInv, CpuInv, IdleSound, Mode, Stopped, treeVars, semVars
  <2> QED BY <2>1, <2>2 DEF IInv
<1>4. CASE UNCHANGED vars
  <2>1. SemInv'
    BY <1>4, UnchangedSemInv DEF vars, IInv
  <2>2. CpuInv'
    BY <1>4 DEF vars, IInv, CpuInv, IdleSound, treeVars, semVars, cpuVars
  <2> QED BY <2>1, <2>2 DEF IInv
<1> QED BY <1>1, <1>2, <1>3, <1>4 DEF Stutter

LEMMA InitIInv ==
  ASSUME Init
  PROVE  IInv
<1>1. PICK root \in Pcb :
        /\ alive = {root}
        /\ parent = [p \in Pcb |-> Null]
        /\ prio = [p \in Pcb |-> LOW]
        /\ supp = [p \in Pcb |-> FALSE]
        /\ semAdd = [p \in Pcb |-> Null]
        /\ curr_process = root
        /\ readyqueue = [level \in Prio |-> <<>>]
        /\ asl = [s \in Sem |-> <<>>]
        /\ \E value \in [UserSem -> {0, 1}] :
             semVal = [s \in Sem |-> IF s \in UserSem THEN value[s] ELSE 0]
        /\ process_count = 1
        /\ softblocked_count = 0
        /\ mode = "run"
        /\ plt = FALSE
        /\ dev = [d \in Device |-> "ready"]
        /\ blockedBy = [p \in Pcb |-> "none"]
        /\ leaked = 0
  BY DEF Init
<1>2. /\ Null \notin Pcb /\ Null \notin Sem /\ ITSem \in Sem /\ ITSem \notin UserSem
      /\ Null \notin Device \cup {ITSem}
      /\ \A d \in Device : d \in Sem
  BY PcbAssumption, SemAssumption DEF Sem
<1>3. <<>> \in Seq(Pcb) /\ IsInjective(<<>>) /\ Range(<<>>) = {}
  BY DEF IsInjective, Range
<1>4. TreeType
  BY <1>1 DEF TreeType, Prio
<1>5. SemType
  BY <1>1, <1>3 DEF SemType
<1>6. Queued
  BY <1>1, <1>2, <1>3 DEF Queued
<1>7. Counted
  <2>1. Soft = {}
    BY <1>1, <1>2 DEF Soft
  <2>2. Cardinality(Soft) = 0 /\ Cardinality(alive) = 1
    BY <1>1, <2>1, FS_EmptySet, FS_Singleton
  <2> QED BY <1>1, <2>2 DEF Counted
<1>8. Devices
  BY <1>1, <1>2 DEF Devices, DevSemOK, DevState
<1>9. BlockedMatchesValue
  BY <1>1 DEF BlockedMatchesValue
<1>10. ReadyOK(readyqueue, curr_process, alive, semAdd, prio)
  <2>1. \A level \in Prio : readyqueue[level] = <<>>
    BY <1>1
  <2>2. readyqueue \in [Prio -> Seq(Pcb)]
    BY <1>1, <1>3
  <2>3. \A p \in alive : p = curr_process
    BY <1>1
  <2> QED BY <1>3, <2>1, <2>2, <2>3 DEF ReadyOK
<1>11. CpuInv
  BY <1>1, <1>2, <1>10 DEF CpuInv, IdleSound, Mode, Stopped
<1> QED BY <1>4, <1>5, <1>6, <1>7, <1>8, <1>9, <1>11 DEF IInv, SemInv

LEMMA NextIInv ==
  ASSUME IInv, [Next]_vars
  PROVE  IInv'
<1>1. ASSUME NEW new \in Pcb, NEW level \in Prios, NEW support \in Supports,
             CreateProcess(new, level, support)
      PROVE  IInv'
  BY <1>1, InputAssumption, CreateIInv
<1>2. ASSUME NEW target \in Pcb, TermProcess(target)
      PROVE  IInv'
  BY <1>2, TermProcessIInv
<1>3. CASE Die
  BY <1>3, DieIInv
<1>4. ASSUME NEW s \in UserSem, NEW op \in {"P", "V"}, Running, SemOp(s, op),
             UNCHANGED <<treeVars, process_count, softblocked_count, dev, leaked>>
      PROVE  IInv'
  <2>1. s \in Sem /\ s \notin Device /\ s # ITSem
    BY SemAssumption DEF Sem
  <2>2. softblocked_count' = softblocked_count + 0
    <3>1. softblocked_count \in Nat
      BY AliveFinite DEF IInv, SemInv, Counted
    <3> QED BY <1>4, <3>1
  <2> QED BY <1>4, <2>1, <2>2, SemOpIInv
<1>5. ASSUME NEW d \in Device, DoIO(d)
      PROVE  IInv'
  <2>1. d \in Sem /\ d # ITSem
    BY SemAssumption DEF Sem
  <2>2. leaked' = IF d \in Device /\ semVal[d] # 0 THEN leaked + 1 ELSE leaked
    BY <1>5 DEF DoIO
  <2> QED BY <1>5, <2>1, <2>2, SemOpIInv DEF DoIO
<1>6. CASE ClockWait
  <2>1. ITSem \in Sem /\ ITSem \notin Device
    BY SemAssumption DEF Sem
  <2> QED BY <1>6, <2>1, SemOpIInv DEF ClockWait
<1>7. CASE Yield
  <2>1. curr_process # Null /\ plt \in BOOLEAN
    BY <1>7 DEF Yield, Running, IInv, CpuInv
  <2> QED BY <1>7, <2>1, PreemptIInv DEF Yield
<1>8. CASE Interrupt
  BY <1>8, PLTInterruptIInv, ITInterruptIInv, DeviceInterruptIInv,
     OrphanInterruptIInv, EventIInv DEF Interrupt
<1>9. CASE SystemCall
  BY <1>1, <1>2, <1>3, <1>4, <1>5, <1>6, <1>7, <1>9 DEF SystemCall, Passeren, Verhogen
<1> QED BY <1>8, <1>9, EventIInv DEF Next

-----------------------------------------------------------------------------
(* The process tree                                                        *)

\* An action that creates no process and kills none.
LEMMA SameTree ==
  ASSUME TreeOK, UNCHANGED treeVars
  PROVE  TreeOK'
BY DEF TreeOK, treeVars, Children

\* CREATEPROCESS adds a leaf.
LEMMA CreateTree ==
  ASSUME IInv, TreeOK, NEW new \in Pcb, NEW level, NEW support,
         CreateProcess(new, level, support)
  PROVE  TreeOK'
<1>1. /\ new \notin alive /\ alive' = alive \cup {new}
      /\ parent' = [parent EXCEPT ![new] = curr_process]
      /\ curr_process \in alive /\ Null \notin Pcb
      /\ parent \in [Pcb -> Pcb \cup {Null}] /\ alive \subseteq Pcb
  BY PcbAssumption DEF CreateProcess, Running, IInv, CpuInv, SemInv, TreeType
<1>2. parent'[new] = curr_process /\ \A p \in Pcb \ {new} : parent'[p] = parent[p]
  BY <1>1
<1>3. /\ \A p \in Pcb \ alive' : parent'[p] = Null
      /\ \A p \in alive' : parent'[p] \in alive' \cup {Null}
  BY <1>1, <1>2 DEF TreeOK
<1>4. PICK root \in alive :
        /\ parent[root] = Null
        /\ \A S \in SUBSET alive : (root \in S /\ Children(S) \subseteq S) => S = alive
  BY <1>1 DEF TreeOK
<1>5. root \in alive' /\ parent'[root] = Null
  BY <1>1, <1>2, <1>4
<1>6. ASSUME NEW S \in SUBSET alive', root \in S, {q \in alive' : parent'[q] \in S} \subseteq S
      PROVE  S = alive'
  <2> DEFINE old == S \cap alive
  <2>1. old \in SUBSET alive /\ root \in old
    BY <1>4, <1>6
  <2>2. Children(old) \subseteq old
    <3> SUFFICES ASSUME NEW q \in alive, parent[q] \in old
                 PROVE  q \in old
      BY DEF Children
    <3>1. q \in alive' /\ parent'[q] \in S
      BY <1>1, <1>2
    <3> QED BY <1>6, <3>1
  <2>3. old = alive
    BY <1>4, <2>1, <2>2
  <2>4. new \in S
    BY <1>1, <1>2, <1>6, <2>3
  <2> QED BY <1>1, <2>3, <2>4
<1> QED BY <1>3, <1>5, <1>6 DEF TreeOK, Children

\* _killProcess takes a whole subtree away, so that what is left is a tree.
LEMMA KillTree ==
  ASSUME IInv, TreeOK, NEW target \in alive, KillProcess(target)
  PROVE  TreeOK'
<1> DEFINE V == Subtree(target)
<1>1. /\ V \subseteq alive /\ alive \subseteq Pcb /\ Null \notin Pcb
      /\ alive' = alive \ V
      /\ parent' = [p \in Pcb |-> IF p \in V THEN Null ELSE parent[p]]
  BY SubtreeAlive, PcbAssumption DEF IInv, SemInv, TreeType, KillProcess
<1>2. \A q \in alive : parent[q] \in V => q \in V
  <2> SUFFICES ASSUME NEW q \in alive, parent[q] \in V,
                      NEW S \in SUBSET Pcb, target \in S, Children(S) \subseteq S
               PROVE  q \in S
    BY <1>1 DEF Subtree
  <2>1. parent[q] \in S
    BY DEF Subtree
  <2> QED BY <2>1 DEF Children
<1> HIDE DEF V
<1>3. \A p \in alive' : parent'[p] = parent[p] /\ p \in alive /\ p \notin V
  BY <1>1
<1>4. /\ \A p \in Pcb \ alive' : parent'[p] = Null
      /\ \A p \in alive' : parent'[p] \in alive' \cup {Null}
  BY <1>1, <1>2, <1>3 DEF TreeOK
<1>5. ASSUME alive' # {}
      PROVE  \E root \in alive' :
               /\ parent'[root] = Null
               /\ \A S \in SUBSET alive' :
                    (root \in S /\ {q \in alive' : parent'[q] \in S} \subseteq S) => S = alive'
  <2>1. PICK root \in alive :
          /\ parent[root] = Null
          /\ \A S \in SUBSET alive : (root \in S /\ Children(S) \subseteq S) => S = alive
    BY <1>1, <1>5 DEF TreeOK
  <2>2. root \notin V
    <3>1. Children(V) \subseteq V /\ V \in SUBSET alive
      BY <1>1, <1>2 DEF Children
    <3>2. root \in V => V = alive
      BY <2>1, <3>1
    <3> QED BY <1>1, <1>5, <3>2
  <2>3. ASSUME NEW S \in SUBSET alive', root \in S,
               {q \in alive' : parent'[q] \in S} \subseteq S
        PROVE  S = alive'
    <3>1. S \cup V \in SUBSET alive
      BY <1>1
    <3>2. Children(S \cup V) \subseteq S \cup V
      <4> SUFFICES ASSUME NEW q \in alive, parent[q] \in S \cup V, q \notin V
                   PROVE  q \in S
        BY DEF Children
      <4>1. q \in alive' /\ parent'[q] \in S
        BY <1>1, <1>2, <1>3
      <4> QED BY <2>3, <4>1
    <3>3. S \cup V = alive
      BY <2>1, <2>3, <3>1, <3>2
    <3> QED BY <1>1, <3>3
  <2> QED BY <1>1, <1>3, <2>1, <2>2, <2>3
<1> QED BY <1>4, <1>5 DEF TreeOK, Children

LEMMA InitTree ==
  ASSUME Init
  PROVE  TreeOK
<1>1. PICK root \in Pcb : alive = {root} /\ parent = [p \in Pcb |-> Null]
  BY DEF Init
<1>2. \A S \in SUBSET alive : root \in S => S = alive
  BY <1>1
<1> QED BY <1>1, <1>2 DEF TreeOK

LEMMA NextTree ==
  ASSUME IInv, TreeOK, [Next]_vars
  PROVE  TreeOK'
<1>1. ASSUME NEW new \in Pcb, NEW level \in Prios, NEW support \in Supports,
             CreateProcess(new, level, support)
      PROVE  TreeOK'
  BY <1>1, CreateTree
<1>2. ASSUME NEW target \in Pcb, TermProcess(target)
      PROVE  TreeOK'
  BY <1>2, KillTree DEF TermProcess
<1>3. CASE Die
  <2>1. curr_process \in alive
    BY <1>3 DEF Die, Running, IInv, CpuInv
  <2> QED BY <1>3, <2>1, KillTree DEF Die
<1>4. ASSUME NEW d \in Device, OrphanInterrupt(d)
      PROVE  TreeOK'
  <2>1. UNCHANGED treeVars \/ (curr_process # Null /\ KillProcess(curr_process))
    BY <1>4 DEF OrphanInterrupt
  <2>2. curr_process # Null => curr_process \in alive
    BY DEF IInv, CpuInv
  <2> QED BY <2>1, <2>2, KillTree, SameTree
<1>5. CASE SystemCall
  <2>1. \/ UNCHANGED treeVars
        \/ \E new \in Pcb, level \in Prios, support \in Supports :
             CreateProcess(new, level, support)
        \/ \E target \in Pcb : TermProcess(target)
        \/ Die
    BY <1>5 DEF SystemCall, Passeren, Verhogen, DoIO, ClockWait, Yield
  <2> QED BY <1>1, <1>2, <1>3, <2>1, SameTree
<1>6. CASE Interrupt
  <2>1. \/ UNCHANGED treeVars
        \/ \E d \in Device : OrphanInterrupt(d)
    BY <1>6 DEF Interrupt, PLTInterrupt, ITInterrupt, DeviceInterrupt, TerminalError
  <2> QED BY <1>4, <2>1, SameTree
<1>7. CASE PLTExpire \/ (\E d \in Device : DevComplete(d)) \/ Stutter \/ UNCHANGED vars
  <2>1. UNCHANGED treeVars
    BY <1>7 DEF PLTExpire, DevComplete, Stutter, vars
  <2> QED BY <2>1, SameTree
<1> QED BY <1>5, <1>6, <1>7 DEF Next

-----------------------------------------------------------------------------
(* What a step may never do to the order of the queues.  Every handler      *)
(* first decides what the ready queues are to be, and then leaves them so   *)
(* or gives them to scheduler(): LeavesWith(rq) says this of a step.        *)

LEMMA SameOrder ==
  ASSUME NEW STATE q, q \in Seq(Pcb)
  PROVE  KeepsOrder(q, q)
BY DEF KeepsOrder, Range

\* list_add_tail: those who come go behind those who were there.
LEMMA AppendedOrder ==
  ASSUME NEW STATE q, q \in Seq(Pcb), NEW STATE t, t \in Seq(Pcb),
         Range(q) \cap Range(t) = {}
  PROVE  KeepsOrder(q, q \o t)
<1> DEFINE r == q \o t
<1>1. /\ Len(q) \in Nat /\ Len(t) \in Nat /\ DOMAIN q = 1 .. Len(q)
      /\ DOMAIN t = 1 .. Len(t) /\ DOMAIN r = 1 .. Len(q) + Len(t)
      /\ \A i \in DOMAIN q : r[i] = q[i]
      /\ \A i \in DOMAIN r \ DOMAIN q : i - Len(q) \in DOMAIN t /\ r[i] = t[i - Len(q)]
  OBVIOUS
<1> HIDE DEF r
<1>2. \A i \in DOMAIN q : i \in DOMAIN r /\ q[i] \in Range(r)
  BY <1>1 DEF Range
<1>3. ASSUME NEW k \in DOMAIN r, NEW l \in DOMAIN r, k < l, r[l] \in Range(q)
      PROVE  \E i, j \in DOMAIN q : i < j /\ q[i] = r[k] /\ q[j] = r[l]
  <2>1. l \in DOMAIN q
    <3>1. l \notin DOMAIN q => r[l] \in Range(t)
      BY <1>1 DEF Range
    <3> QED BY <1>3, <3>1
  <2>2. k \in DOMAIN q
    BY <1>1, <1>3, <2>1
  <2> QED BY <1>1, <1>3, <2>1, <2>2
<1>4. KeepsOrder(q, r)
  BY <1>2, <1>3 DEF KeepsOrder
<1> QED BY <1>4 DEF r

LEMMA InsertedOrder ==
  ASSUME NEW STATE q, q \in Seq(Pcb), NEW STATE p, p \in Pcb, p \notin Range(q)
  PROVE  KeepsOrder(q, InsertProcQ(q, p))
<1>1. <<p>> \in Seq(Pcb) /\ Range(<<p>>) = {p}
  BY DEF Range
<1>2. InsertProcQ(q, p) = q \o <<p>>
  BY DEF InsertProcQ
<1> QED BY <1>1, <1>2, AppendedOrder

\* outProcQ of processes that are killed.
LEMMA KilledOrder ==
  ASSUME NEW STATE q, q \in Seq(Pcb), NEW STATE D, D \cap alive' = {}
  PROVE  KeepsOrder(q, Without(q, D))
<1> DEFINE r == Without(q, D)
<1>1. Range(r) = Range(q) \ D /\ r \in Seq(Pcb)
  BY WithoutProperties
<1>2. \A j \in DOMAIN q : q[j] \in alive' => q[j] \in Range(r)
  <2>1. \A j \in DOMAIN q : q[j] \in Range(q)
    BY DEF Range
  <2> HIDE DEF r
  <2> QED BY <1>1, <2>1
<1>3. \A k, l \in DOMAIN r : k < l =>
        \E i, j \in DOMAIN q : i < j /\ q[i] = r[k] /\ q[j] = r[l]
  BY WithoutOrder
<1> HIDE DEF r
<1>4. KeepsOrder(q, r)
  BY <1>2, <1>3 DEF KeepsOrder
<1> QED BY <1>4 DEF r

\* removeProcQ: the first one leaves.
LEMMA TailOrder ==
  ASSUME NEW STATE q, q \in Seq(Pcb), IsInjective(q),
         NEW STATE r, r \in Seq(Pcb), r # <<>>, IsInjective(r), KeepsOrder(q, r)
  PROVE  KeepsOrder(q, Tail(r))
<1> DEFINE t == Tail(r)
<1>1. /\ Len(r) \in Nat \ {0} /\ DOMAIN r = 1 .. Len(r)
      /\ DOMAIN t = 1 .. Len(r) - 1
      /\ \A k \in DOMAIN t : k + 1 \in DOMAIN r /\ t[k] = r[k + 1]
  OBVIOUS
<1>2. /\ Range(r) = Range(t) \cup {Head(r)}
      /\ Head(r) \notin Range(t)
      /\ Head(r) = r[1] /\ 1 \in DOMAIN r
  BY <1>1, TailProperties
<1> HIDE DEF t
<1>3. ASSUME NEW i \in DOMAIN q, NEW j \in DOMAIN q,
             i < j, q[i] \in Range(t), q[j] \in alive'
      PROVE  q[j] \in Range(t)
  <2>1. q[j] \in Range(r)
    BY <1>2, <1>3 DEF KeepsOrder
  <2>2. ASSUME q[j] = r[1]
        PROVE  FALSE
    <3>1. PICK k \in DOMAIN t : t[k] = q[i]
      BY <1>3 DEF Range
    <3>2. k + 1 \in DOMAIN r /\ r[k + 1] = q[i] /\ 1 < k + 1
      BY <1>1, <3>1
    <3>3. q[i] \in Range(q)
      BY DEF Range
    <3>4. PICK m, n \in DOMAIN q : m < n /\ q[m] = r[1] /\ q[n] = r[k + 1]
      BY <1>2, <3>2, <3>3 DEF KeepsOrder
    <3>5. m = j /\ n = i
      BY <2>2, <3>2, <3>4 DEF IsInjective
    <3>6. i \in Nat /\ j \in Nat
      OBVIOUS
    <3> QED BY <1>3, <3>4, <3>5, <3>6
  <2> QED BY <1>2, <2>1, <2>2
<1>4. ASSUME NEW k \in DOMAIN t, NEW l \in DOMAIN t, k < l, t[l] \in Range(q)
      PROVE  \E i, j \in DOMAIN q : i < j /\ q[i] = t[k] /\ q[j] = t[l]
  <2>1. k + 1 \in DOMAIN r /\ l + 1 \in DOMAIN r /\ k + 1 < l + 1
    BY <1>1, <1>4
  <2>2. t[k] = r[k + 1] /\ t[l] = r[l + 1]
    BY <1>1
  <2> QED BY <1>4, <2>1, <2>2 DEF KeepsOrder
<1>5. KeepsOrder(q, t)
  BY <1>3, <1>4 DEF KeepsOrder
<1> QED BY <1>5 DEF t

OrderKept(rq) ==
  /\ rq \in [Prio -> Seq(Pcb)]
  /\ \A level \in Prio :
       IsInjective(rq[level]) /\ KeepsOrder(readyqueue[level], rq[level])

LeavesWith(rq) ==
  /\ OrderKept(rq)
  /\ \/ readyqueue' = rq /\ curr_process' = curr_process
     \/ /\ \A level \in Prio : \A p \in Range(rq[level]) : prio[p] = level
        /\ \E skip \in {Null, curr_process}, pending \in BOOLEAN :
             Schedule(rq, skip, pending)

SemOrderKept == \A s \in Sem : KeepsOrder(asl[s], asl'[s])

\* scheduler() takes the head of one queue, of the low one only if the other
\* is empty or headed by the process to skip.
LEMMA LeavesInOrder ==
  ASSUME IInv, NEW STATE rq, LeavesWith(rq), SemOrderKept
  PROVE  FifoStep /\ DispatchStep
<1>1. /\ rq \in [Prio -> Seq(Pcb)] /\ Null \notin Pcb
      /\ \A level \in Prio :
           /\ rq[level] \in Seq(Pcb) /\ IsInjective(rq[level])
           /\ readyqueue[level] \in Seq(Pcb) /\ IsInjective(readyqueue[level])
           /\ KeepsOrder(readyqueue[level], rq[level])
  BY PcbAssumption DEF LeavesWith, OrderKept, IInv, CpuInv, ReadyOK
<1>2. CASE readyqueue' = rq /\ (curr_process' = curr_process \/ curr_process' = Null)
  BY <1>1, <1>2 DEF FifoStep, SemOrderKept, DispatchStep
<1>3. ASSUME \A l \in Prio : \A p \in Range(rq[l]) : prio[p] = l,
             NEW skip \in {Null, curr_process}, NEW pending \in BOOLEAN,
             NEW level \in Prio, level = NextQueue(rq, skip), rq[level] # <<>>,
             Dispatch(rq, level, pending)
      PROVE  FifoStep /\ DispatchStep
  <2>1. /\ readyqueue' = [rq EXCEPT ![level] = Tail(rq[level])]
        /\ curr_process' = Head(rq[level])
    BY <1>3 DEF Dispatch
  <2>2. readyqueue'[level] = Tail(rq[level]) /\ \A l \in Prio \ {level} : readyqueue'[l] = rq[l]
    BY <1>1, <2>1
  <2>3. KeepsOrder(readyqueue[level], Tail(rq[level]))
    BY <1>1, <1>3, TailOrder
  <2>4. FifoStep
    <3> SUFFICES ASSUME NEW l \in Prio
                 PROVE  KeepsOrder(readyqueue[l], readyqueue'[l])
      BY DEF FifoStep, SemOrderKept
    <3>1. CASE l = level
      BY <2>2, <2>3, <3>1
    <3>2. CASE l # level
      BY <1>1, <2>2, <3>2
    <3> QED BY <3>1, <3>2
  <2>5. Head(rq[level]) \in Range(rq[level])
    BY <1>1, <1>3, TailProperties
  <2>6. prio[Head(rq[level])] = level
    BY <1>3, <2>5
  <2>7. ASSUME level = LOW
        PROVE  \/ readyqueue'[HIGH] = <<>>
               \/ curr_process # Null /\ Head(readyqueue'[HIGH]) = curr_process
    <3>1. HIGH \in Prio /\ HIGH # LOW
      BY DEF Prio, HIGH, LOW
    <3>2. readyqueue'[HIGH] = rq[HIGH]
      BY <2>2, <2>7, <3>1
    <3>3. rq[HIGH] # <<>> => Head(rq[HIGH]) = skip
      BY <1>3, <2>7, <3>1 DEF NextQueue
    <3>4. rq[HIGH] # <<>> => Head(rq[HIGH]) \in Pcb
      BY <1>1, <3>1
    <3> QED BY <1>1, <3>2, <3>3, <3>4
  <2>8. DispatchStep
    BY <2>1, <2>6, <2>7 DEF DispatchStep
  <2> QED BY <2>4, <2>8
<1>4. CASE /\ \A l \in Prio : \A p \in Range(rq[l]) : prio[p] = l
           /\ \E skip \in {Null, curr_process}, pending \in BOOLEAN :
                Schedule(rq, skip, pending)
  <2>1. PICK skip \in {Null, curr_process}, pending \in BOOLEAN : Schedule(rq, skip, pending)
    BY <1>4
  <2>2. CASE Halt(rq, pending) \/ Idle(rq, pending)
    <3>1. readyqueue' = rq /\ curr_process' = Null
      BY <2>2 DEF Halt, Idle
    <3> QED BY <1>2, <3>1
  <2>3. CASE \E level \in Prio : level = NextQueue(rq, skip) /\ rq[level] # <<>>
                                   /\ Dispatch(rq, level, pending)
    BY <1>3, <1>4, <2>3
  <2> QED BY <2>1, <2>2, <2>3 DEF Schedule
<1> QED BY <1>2, <1>4 DEF LeavesWith

\* The ready queues as they are.
LEMMA ReadyAsIs ==
  ASSUME IInv
  PROVE  /\ OrderKept(readyqueue)
         /\ \A level \in Prio : \A p \in Range(readyqueue[level]) : prio[p] = level
<1>1. ASSUME NEW level \in Prio
      PROVE  /\ readyqueue[level] \in Seq(Pcb) /\ IsInjective(readyqueue[level])
             /\ \A p \in Range(readyqueue[level]) : prio[p] = level
             /\ KeepsOrder(readyqueue[level], readyqueue[level])
  <2>1. /\ readyqueue[level] \in Seq(Pcb) /\ IsInjective(readyqueue[level])
        /\ \A p \in Range(readyqueue[level]) : prio[p] = level
    BY DEF IInv, CpuInv, ReadyOK
  <2> QED BY <2>1, SameOrder
<1> QED BY <1>1 DEF OrderKept, IInv, CpuInv, ReadyOK

\* setProcessReady of a process that is in no ready queue.
LEMMA ReadyMade ==
  ASSUME IInv, NEW STATE p, p \in alive, ~(p # curr_process /\ semAdd[p] = Null)
  PROVE  /\ OrderKept(MakeReady(p))
         /\ \A level \in Prio : \A q \in Range(MakeReady(p)[level]) : prio[q] = level
<1> DEFINE rq == MakeReady(p)
<1>1. /\ p \in Pcb /\ prio[p] \in Prio /\ readyqueue \in [Prio -> Seq(Pcb)]
      /\ rq = [readyqueue EXCEPT ![prio[p]] = InsertProcQ(readyqueue[prio[p]], p)]
  BY DEF IInv, SemInv, TreeType, CpuInv, ReadyOK, MakeReady
<1>2. ASSUME NEW level \in Prio
      PROVE  /\ readyqueue[level] \in Seq(Pcb) /\ IsInjective(readyqueue[level])
             /\ p \notin Range(readyqueue[level])
             /\ \A q \in Range(readyqueue[level]) : prio[q] = level
             /\ KeepsOrder(readyqueue[level], readyqueue[level])
  <2>1. /\ readyqueue[level] \in Seq(Pcb) /\ IsInjective(readyqueue[level])
        /\ p \notin Range(readyqueue[level])
        /\ \A q \in Range(readyqueue[level]) : prio[q] = level
    BY DEF IInv, CpuInv, ReadyOK
  <2> QED BY <2>1, SameOrder
<1>3. /\ rq[prio[p]] = InsertProcQ(readyqueue[prio[p]], p)
      /\ \A level \in Prio \ {prio[p]} : rq[level] = readyqueue[level]
  BY <1>1
<1>4. LET r == InsertProcQ(readyqueue[prio[p]], p) IN
      /\ r \in Seq(Pcb) /\ IsInjective(r)
      /\ Range(r) = Range(readyqueue[prio[p]]) \cup {p}
  BY <1>1, <1>2, InsertProcQProperties
<1>5. KeepsOrder(readyqueue[prio[p]], InsertProcQ(readyqueue[prio[p]], p))
  BY <1>1, <1>2, InsertedOrder
<1>6. rq \in [Prio -> Seq(Pcb)]
  BY <1>1, <1>4
<1> HIDE DEF rq
<1>7. ASSUME NEW level \in Prio
      PROVE  /\ IsInjective(rq[level]) /\ KeepsOrder(readyqueue[level], rq[level])
             /\ \A q \in Range(rq[level]) : prio[q] = level
  <2>1. CASE level = prio[p]
    BY <1>2, <1>3, <1>4, <1>5, <2>1
  <2>2. CASE level # prio[p]
    BY <1>2, <1>3, <2>2
  <2> QED BY <2>1, <2>2
<1>8. OrderKept(rq) /\ \A level \in Prio : \A q \in Range(rq[level]) : prio[q] = level
  BY <1>6, <1>7 DEF OrderKept
<1> QED BY <1>8 DEF rq

LEMMA SemQueueTypes ==
  ASSUME IInv, NEW s \in Sem
  PROVE  /\ asl[s] \in Seq(Pcb) /\ IsInjective(asl[s])
         /\ Range(asl[s]) = {p \in alive : semAdd[p] = s}
         /\ s # Null
         /\ KeepsOrder(asl[s], asl[s])
<1>1. /\ asl[s] \in Seq(Pcb) /\ IsInjective(asl[s])
      /\ Range(asl[s]) = {p \in alive : semAdd[p] = s}
      /\ s # Null
  BY SemAssumption DEF IInv, SemInv, SemType, Queued
<1> QED BY <1>1, SameOrder

LEMMA SemQueuesAsTheyAre ==
  ASSUME IInv, UNCHANGED asl
  PROVE  SemOrderKept
BY SemQueueTypes DEF SemOrderKept

\* removeBlocked takes the head of one queue and makes it ready.
LEMMA UnblockOrder ==
  ASSUME IInv, NEW s \in Sem, asl[s] # <<>>, Unblock(s)
  PROVE  /\ SemOrderKept
         /\ OrderKept(MakeReady(Head(asl[s])))
         /\ \A level \in Prio :
              \A q \in Range(MakeReady(Head(asl[s]))[level]) : prio[q] = level
<1>1. /\ asl[s] \in Seq(Pcb) /\ IsInjective(asl[s])
      /\ Range(asl[s]) = {p \in alive : semAdd[p] = s}
      /\ s # Null
      /\ KeepsOrder(asl[s], asl[s])
  BY SemQueueTypes
<1>2. Head(asl[s]) \in alive /\ semAdd[Head(asl[s])] # Null
  BY <1>1, TailProperties
<1>3. KeepsOrder(asl[s], Tail(asl[s]))
  BY <1>1, TailOrder
<1>4. asl'[s] = Tail(asl[s]) /\ \A t \in Sem \ {s} : asl'[t] = asl[t]
  BY DEF Unblock, IInv, SemInv, SemType
<1>5. ASSUME NEW t \in Sem
      PROVE  KeepsOrder(asl[t], asl'[t])
  <2>1. KeepsOrder(asl[t], asl[t])
    BY SemQueueTypes
  <2>2. CASE t = s
    BY <1>3, <1>4, <2>2
  <2>3. CASE t # s
    BY <1>4, <2>1, <2>3
  <2> QED BY <2>2, <2>3
<1> QED BY <1>2, <1>5, ReadyMade DEF SemOrderKept

LEMMA SemOpOrder ==
  ASSUME IInv, NEW s \in Sem, NEW op, curr_process # Null, SemOp(s, op)
  PROVE  FifoStep /\ DispatchStep
<1>1. /\ curr_process \in alive /\ curr_process \in Pcb /\ semAdd[curr_process] = Null
      /\ plt \in BOOLEAN
  BY DEF IInv, CpuInv, SemInv, TreeType
<1>2. CASE Block(s, op)
  <2>1. CASE UNCHANGED <<curr_process, readyqueue, plt, semVars>>
    <3>1. SemOrderKept
      BY <2>1, SemQueuesAsTheyAre DEF semVars
    <3>2. LeavesWith(readyqueue)
      BY <2>1, ReadyAsIs DEF LeavesWith
    <3> QED BY <3>1, <3>2, LeavesInOrder
  <2>2. CASE /\ asl' = [asl EXCEPT ![s] = InsertProcQ(asl[s], curr_process)]
             /\ Schedule(readyqueue, Null, plt)
    <3>1. KeepsOrder(asl[s], InsertProcQ(asl[s], curr_process))
      <4>1. asl[s] \in Seq(Pcb) /\ curr_process \notin Range(asl[s])
        BY <1>1, SemQueueTypes
      <4> QED BY <1>1, <4>1, InsertedOrder
    <3>2. /\ asl'[s] = InsertProcQ(asl[s], curr_process)
          /\ \A t \in Sem \ {s} : asl'[t] = asl[t]
      BY <2>2 DEF IInv, SemInv, SemType
    <3>3. ASSUME NEW t \in Sem
          PROVE  KeepsOrder(asl[t], asl'[t])
      <4>1. KeepsOrder(asl[t], asl[t])
        BY SemQueueTypes
      <4>2. CASE t = s
        BY <3>1, <3>2, <4>2
      <4>3. CASE t # s
        BY <3>2, <4>1, <4>3
      <4> QED BY <4>2, <4>3
    <3>4. SemOrderKept
      BY <3>3 DEF SemOrderKept
    <3>5. LeavesWith(readyqueue)
      BY <1>1, <2>2, ReadyAsIs DEF LeavesWith
    <3> QED BY <3>4, <3>5, LeavesInOrder
  <2> QED BY <1>2, <2>1, <2>2 DEF Block
<1>3. CASE asl[s] # <<>> /\ Unblock(s) /\ Resume(MakeReady(Head(asl[s])))
  <2>1. SemOrderKept /\ OrderKept(MakeReady(Head(asl[s])))
    BY <1>3, UnblockOrder
  <2>2. LeavesWith(MakeReady(Head(asl[s])))
    BY <1>3, <2>1 DEF LeavesWith, Resume
  <2> QED BY <2>1, <2>2, LeavesInOrder
<1>4. CASE Resume(readyqueue) /\ UNCHANGED asl
  <2>1. LeavesWith(readyqueue)
    BY <1>4, ReadyAsIs DEF LeavesWith, Resume
  <2> QED BY <1>4, <2>1, SemQueuesAsTheyAre, LeavesInOrder
<1> QED BY <1>2, <1>3, <1>4 DEF SemOp

LEMMA CreateOrder ==
  ASSUME IInv, NEW new \in Pcb, NEW level \in Prio, NEW support,
         CreateProcess(new, level, support)
  PROVE  FifoStep /\ DispatchStep
<1> DEFINE rq == [readyqueue EXCEPT ![level] = InsertProcQ(readyqueue[level], new)]
<1>1. /\ new \notin alive /\ readyqueue' = rq /\ UNCHANGED <<curr_process, asl>>
      /\ readyqueue \in [Prio -> Seq(Pcb)]
  BY DEF CreateProcess, Resume, semVars, IInv, CpuInv, ReadyOK
<1>2. ASSUME NEW l \in Prio
      PROVE  /\ readyqueue[l] \in Seq(Pcb) /\ IsInjective(readyqueue[l])
             /\ new \notin Range(readyqueue[l])
             /\ KeepsOrder(readyqueue[l], readyqueue[l])
  <2>1. /\ readyqueue[l] \in Seq(Pcb) /\ IsInjective(readyqueue[l])
        /\ new \notin Range(readyqueue[l])
    BY <1>1 DEF IInv, CpuInv, ReadyOK
  <2> QED BY <2>1, SameOrder
<1>3. LET r == InsertProcQ(readyqueue[level], new) IN
      r \in Seq(Pcb) /\ IsInjective(r) /\ KeepsOrder(readyqueue[level], r)
  BY <1>2, InsertProcQProperties, InsertedOrder
<1>4. /\ rq \in [Prio -> Seq(Pcb)]
      /\ rq[level] = InsertProcQ(readyqueue[level], new)
      /\ \A l \in Prio \ {level} : rq[l] = readyqueue[l]
  BY <1>1, <1>3
<1> HIDE DEF rq
<1>5. ASSUME NEW l \in Prio
      PROVE  IsInjective(rq[l]) /\ KeepsOrder(readyqueue[l], rq[l])
  <2>1. CASE l = level
    BY <1>3, <1>4, <2>1
  <2>2. CASE l # level
    BY <1>2, <1>4, <2>2
  <2> QED BY <2>1, <2>2
<1>6. LeavesWith(rq)
  BY <1>1, <1>4, <1>5 DEF LeavesWith, OrderKept
<1> QED BY <1>1, <1>6, SemQueuesAsTheyAre, LeavesInOrder

\* _killProcess takes processes out of the middle of queues; they are dead.
LEMMA KillOrder ==
  ASSUME IInv, NEW target \in alive, KillProcess(target)
  PROVE  /\ SemOrderKept
         /\ OrderKept(ReadyAfterKill(target))
         /\ \A level \in Prio :
              \A q \in Range(ReadyAfterKill(target)[level]) : prio[q] = level
<1> DEFINE V == Subtree(target)
<1>1. /\ alive' = alive \ V
      /\ asl' = [s \in Sem |-> Without(asl[s], {p \in V : semAdd[p] = s})]
      /\ ReadyAfterKill(target) =
           [level \in Prio |-> Without(readyqueue[level], {p \in V : prio[p] = level})]
  BY DEF KillProcess, ReadyAfterKill
<1> HIDE DEF V
<1>2. ASSUME NEW s \in Sem
      PROVE  KeepsOrder(asl[s], asl'[s])
  <2> DEFINE D == {p \in V : semAdd[p] = s}
  <2>1. asl'[s] = Without(asl[s], D) /\ D \cap alive' = {} /\ asl[s] \in Seq(Pcb)
    BY <1>1, SemQueueTypes
  <2> HIDE DEF D
  <2> QED BY <2>1, KilledOrder
<1>3. ASSUME NEW level \in Prio
      PROVE  LET r == ReadyAfterKill(target)[level] IN
             /\ r \in Seq(Pcb) /\ IsInjective(r)
             /\ KeepsOrder(readyqueue[level], r)
             /\ \A q \in Range(r) : prio[q] = level
  <2> DEFINE D == {p \in V : prio[p] = level}
  <2>1. /\ readyqueue[level] \in Seq(Pcb) /\ IsInjective(readyqueue[level])
        /\ \A q \in Range(readyqueue[level]) : prio[q] = level
    BY DEF IInv, CpuInv, ReadyOK
  <2>2. ReadyAfterKill(target)[level] = Without(readyqueue[level], D) /\ D \cap alive' = {}
    BY <1>1
  <2> HIDE DEF D
  <2>3. KeepsOrder(readyqueue[level], Without(readyqueue[level], D))
    BY <2>1, <2>2, KilledOrder
  <2>4. /\ Without(readyqueue[level], D) \in Seq(Pcb)
        /\ IsInjective(Without(readyqueue[level], D))
        /\ Range(Without(readyqueue[level], D)) \subseteq Range(readyqueue[level])
    BY <2>1, WithoutProperties
  <2> QED BY <2>1, <2>2, <2>3, <2>4
<1>4. ReadyAfterKill(target) \in [Prio -> Seq(Pcb)]
  <2>1. \A level \in Prio :
          Without(readyqueue[level], {p \in V : prio[p] = level}) \in Seq(Pcb)
    <3>1. \A level \in Prio : ReadyAfterKill(target)[level] \in Seq(Pcb)
      BY <1>3
    <3> QED BY <1>1, <3>1
  <2> QED BY <1>1, <2>1
<1> QED BY <1>2, <1>3, <1>4 DEF SemOrderKept, OrderKept

\* A kill, followed by scheduler() or by the return to the caller.
LEMMA KillExitOrder ==
  ASSUME IInv, NEW target \in alive, KillProcess(target),
         \/ Schedule(ReadyAfterKill(target), Null, plt)
         \/ Resume(ReadyAfterKill(target))
  PROVE  FifoStep /\ DispatchStep
<1>1. /\ SemOrderKept
      /\ OrderKept(ReadyAfterKill(target))
      /\ \A level \in Prio :
           \A q \in Range(ReadyAfterKill(target)[level]) : prio[q] = level
  BY KillOrder
<1>2. plt \in BOOLEAN
  BY DEF IInv, CpuInv
<1>3. LeavesWith(ReadyAfterKill(target))
  BY <1>1, <1>2 DEF LeavesWith, Resume
<1> QED BY <1>1, <1>3, LeavesInOrder

\* YIELD and the end of a time slice.
LEMMA PreemptOrder ==
  ASSUME IInv, curr_process # Null, UNCHANGED asl,
         NEW STATE skip, skip \in {Null, curr_process},
         NEW STATE pending, pending \in BOOLEAN,
         Schedule(MakeReady(curr_process), skip, pending)
  PROVE  FifoStep /\ DispatchStep
<1>1. curr_process \in alive
  BY DEF IInv, CpuInv
<1>2. /\ OrderKept(MakeReady(curr_process))
      /\ \A level \in Prio :
           \A q \in Range(MakeReady(curr_process)[level]) : prio[q] = level
  BY <1>1, ReadyMade
<1>3. LeavesWith(MakeReady(curr_process))
  BY <1>2 DEF LeavesWith
<1> QED BY <1>3, SemQueuesAsTheyAre, LeavesInOrder

\* _interruptHandlerExit.
LEMMA InterruptExitOrder ==
  ASSUME IInv, NEW STATE rq, OrderKept(rq),
         \A level \in Prio : \A q \in Range(rq[level]) : prio[q] = level,
         SemOrderKept, InterruptExit(rq)
  PROVE  FifoStep /\ DispatchStep
<1>1. LeavesWith(rq)
  BY DEF LeavesWith, InterruptExit
<1> QED BY <1>1, LeavesInOrder

\* The tick of the pseudo-clock: those it wakes go behind those who are ready.
LEMMA TickOrder ==
  ASSUME IInv, ITInterrupt
  PROVE  FifoStep /\ DispatchStep
<1>1. /\ asl' = [asl EXCEPT ![ITSem] = <<>>] /\ ITSem \in Sem
      /\ InterruptExit(ReadyAfterTick)
  BY DEF ITInterrupt, Sem
<1>2. SemOrderKept
  <2> SUFFICES ASSUME NEW s \in Sem
               PROVE  KeepsOrder(asl[s], asl'[s])
    BY DEF SemOrderKept
  <2>1. asl[s] \in Seq(Pcb) /\ KeepsOrder(asl[s], asl[s])
    BY SemQueueTypes
  <2>2. CASE s = ITSem
    <3>1. asl'[s] = <<>>
      BY <1>1, <2>2 DEF IInv, SemInv, SemType
    <3>2. KeepsOrder(asl[s], <<>>)
      BY DEF KeepsOrder, Range
    <3> QED BY <3>1, <3>2
  <2>3. CASE s # ITSem
    BY <1>1, <2>1, <2>3 DEF IInv, SemInv, SemType
  <2> QED BY <2>2, <2>3
<1> DEFINE woken(level) == Without(asl[ITSem], {p \in Pcb : prio[p] # level})
<1>3. ReadyAfterTick = [level \in Prio |-> readyqueue[level] \o woken(level)]
  BY DEF ReadyAfterTick
<1>4. ASSUME NEW level \in Prio
      PROVE  LET r == readyqueue[level] \o woken(level) IN
             /\ r \in Seq(Pcb) /\ IsInjective(r)
             /\ KeepsOrder(readyqueue[level], r)
             /\ \A q \in Range(r) : prio[q] = level
  <2>1. /\ readyqueue[level] \in Seq(Pcb) /\ IsInjective(readyqueue[level])
        /\ \A q \in Range(readyqueue[level]) : prio[q] = level /\ semAdd[q] = Null
    BY DEF IInv, CpuInv, ReadyOK
  <2>2. /\ asl[ITSem] \in Seq(Pcb) /\ IsInjective(asl[ITSem]) /\ ITSem # Null
        /\ Range(asl[ITSem]) = {p \in alive : semAdd[p] = ITSem}
        /\ alive \subseteq Pcb
    BY <1>1, SemQueueTypes DEF IInv, SemInv, TreeType
  <2>3. /\ woken(level) \in Seq(Pcb) /\ IsInjective(woken(level))
        /\ Range(woken(level)) = Range(asl[ITSem]) \ {p \in Pcb : prio[p] # level}
    BY <2>2, WithoutProperties
  <2> HIDE DEF woken
  <2>4. /\ Range(readyqueue[level]) \cap Range(woken(level)) = {}
        /\ \A q \in Range(woken(level)) : prio[q] = level
    BY <2>1, <2>2, <2>3
  <2>5. /\ readyqueue[level] \o woken(level) \in Seq(Pcb)
        /\ IsInjective(readyqueue[level] \o woken(level))
        /\ Range(readyqueue[level] \o woken(level)) =
             Range(readyqueue[level]) \cup Range(woken(level))
    BY <2>1, <2>3, <2>4, ConcatInjective
  <2>6. KeepsOrder(readyqueue[level], readyqueue[level] \o woken(level))
    BY <2>1, <2>3, <2>4, AppendedOrder
  <2> QED BY <2>1, <2>4, <2>5, <2>6
<1> HIDE DEF woken
<1>5. ReadyAfterTick \in [Prio -> Seq(Pcb)]
  BY <1>3, <1>4
<1>6. /\ OrderKept(ReadyAfterTick)
      /\ \A level \in Prio : \A q \in Range(ReadyAfterTick[level]) : prio[q] = level
  BY <1>3, <1>4, <1>5 DEF OrderKept
<1> QED BY <1>1, <1>2, <1>6, InterruptExitOrder

\* The steps that leave every queue and curr_process as they are.
LEMMA QuietOrder ==
  ASSUME IInv, UNCHANGED <<asl, readyqueue, curr_process>>
  PROVE  FifoStep /\ DispatchStep
<1>1. LeavesWith(readyqueue)
  BY ReadyAsIs DEF LeavesWith
<1> QED BY <1>1, SemQueuesAsTheyAre, LeavesInOrder

LEMMA NextOrder ==
  ASSUME IInv, [Next]_vars
  PROVE  FifoStep /\ DispatchStep
<1>0. Running => curr_process # Null /\ curr_process \in alive /\ plt \in BOOLEAN
  BY DEF Running, IInv, CpuInv
<1>1. ASSUME NEW new \in Pcb, NEW level \in Prios, NEW support \in Supports,
             CreateProcess(new, level, support)
      PROVE  FifoStep /\ DispatchStep
  BY <1>1, InputAssumption, CreateOrder
<1>2. ASSUME NEW target \in Pcb, TermProcess(target)
      PROVE  FifoStep /\ DispatchStep
  BY <1>2, KillExitOrder DEF TermProcess
<1>3. CASE Die
  BY <1>0, <1>3, KillExitOrder DEF Die
<1>4. ASSUME NEW s \in UserSem, Passeren(s) \/ Verhogen(s)
      PROVE  FifoStep /\ DispatchStep
  <2>1. s \in Sem
    BY DEF Sem
  <2> QED BY <1>0, <1>4, <2>1, SemOpOrder DEF Passeren, Verhogen
<1>5. ASSUME NEW d \in Device, DoIO(d)
      PROVE  FifoStep /\ DispatchStep
  <2>1. d \in Sem
    BY DEF Sem
  <2> QED BY <1>0, <1>5, <2>1, SemOpOrder DEF DoIO
<1>6. CASE ClockWait
  <2>1. ITSem \in Sem
    BY DEF Sem
  <2> QED BY <1>0, <1>6, <2>1, SemOpOrder DEF ClockWait
<1>7. CASE Yield
  <2>1. UNCHANGED asl /\ Schedule(MakeReady(curr_process), curr_process, plt) /\ Running
    BY <1>7 DEF Yield, semVars
  <2> QED BY <1>0, <2>1, PreemptOrder
<1>8. CASE PLTInterrupt
  <2>1. UNCHANGED asl
    BY <1>8 DEF PLTInterrupt, semVars
  <2>2. CASE curr_process = Null
    BY <1>8, <2>1, <2>2, QuietOrder DEF PLTInterrupt
  <2>3. CASE curr_process # Null
    <3>1. Schedule(MakeReady(curr_process), Null, FALSE)
      BY <1>8, <2>3 DEF PLTInterrupt
    <3> QED BY <2>1, <2>3, <3>1, PreemptOrder
  <2> QED BY <2>2, <2>3
<1>9. ASSUME NEW d \in Device, DeviceInterrupt(d)
      PROVE  FifoStep /\ DispatchStep
  <2>1. d \in Sem /\ asl[d] # <<>> /\ Unblock(d) /\ InterruptExit(MakeReady(Head(asl[d])))
    BY <1>9 DEF DeviceInterrupt, Sem
  <2>2. /\ SemOrderKept
        /\ OrderKept(MakeReady(Head(asl[d])))
        /\ \A level \in Prio :
             \A q \in Range(MakeReady(Head(asl[d]))[level]) : prio[q] = level
    BY <2>1, UnblockOrder
  <2> QED BY <2>1, <2>2, InterruptExitOrder
<1>10. ASSUME NEW d \in Device, OrphanInterrupt(d)
       PROVE  FifoStep /\ DispatchStep
  <2>1. CASE UNCHANGED <<asl, readyqueue, curr_process>>
    BY <2>1, QuietOrder
  <2>2. CASE /\ curr_process # Null
             /\ KillProcess(curr_process)
             /\ Schedule(ReadyAfterKill(curr_process), Null, plt)
    <3>1. curr_process \in alive
      BY <2>2 DEF IInv, CpuInv
    <3> QED BY <2>2, <3>1, KillExitOrder
  <2> QED BY <1>10, <2>1, <2>2 DEF OrphanInterrupt, cpuVars
<1>11. CASE \/ PLTExpire \/ Stutter \/ UNCHANGED vars
            \/ \E d \in Device : DevComplete(d) \/ TerminalError(d)
  <2>1. UNCHANGED <<asl, readyqueue, curr_process>>
    BY <1>11 DEF PLTExpire, Stutter, DevComplete, TerminalError, vars, semVars, cpuVars
  <2> QED BY <2>1, QuietOrder
<1>12. CASE SystemCall
  BY <1>1, <1>2, <1>3, <1>4, <1>5, <1>6, <1>7, <1>12 DEF SystemCall
<1>13. CASE Interrupt
  BY <1>8, <1>9, <1>10, <1>11, <1>13, TickOrder DEF Interrupt
<1> QED BY <1>11, <1>12, <1>13 DEF Next

-----------------------------------------------------------------------------
(* The theorems *)

LEMMA IInvImplies ==
  ASSUME IInv
  PROVE  /\ TypeOK /\ OnePlace /\ ProcessCountExact /\ SoftBlockedExact
         /\ BlockedMatchesValue /\ DevSemOK /\ IdleSound /\ NoSemdExhaustion
<1>1. SemInv /\ CpuInv
  BY DEF IInv
<1>2. /\ IsFiniteSet(alive) /\ Cardinality(alive) \in Nat /\ Cardinality(Soft) \in Nat
  BY <1>1, AliveFinite DEF SemInv
<1>3. process_count \in Nat /\ softblocked_count \in Nat
  BY <1>1, <1>2 DEF SemInv, Counted
<1>4. TypeOK
  BY <1>1, <1>3 DEF TypeOK, SemInv, TreeType, SemType, Counted, Devices, CpuInv, ReadyOK
<1>5. OnePlace
  BY <1>1 DEF OnePlace, SemInv, Queued, CpuInv, ReadyOK
<1>6. ProcessCountExact /\ SoftBlockedExact
  BY <1>1 DEF SemInv, Counted, ProcessCountExact, SoftBlockedExact, Soft
<1> QED BY <1>1, <1>4, <1>5, <1>6 DEF SemInv, Devices, CpuInv, NoSemdExhaustion

\* IInv holds in every state that the nucleus can reach, for every set of
\* PCBs, semaphores and devices: main() establishes it and every handler,
\* completion and timer preserves it.
THEOREM Invariance == Spec => []IInv
<1>1. Init => IInv
  BY InitIInv
<1>2. IInv /\ [Next]_vars => IInv'
  BY NextIInv
<1> QED BY <1>1, <1>2, PTL DEF Spec

\* No handler leaves a variable outside its type; in particular the unsigned
\* process_count and softblocked_count are never decremented below 0.
THEOREM TypeCorrect == Spec => []TypeOK
<1>1. IInv => TypeOK
  BY IInvImplies
<1> QED BY <1>1, Invariance, PTL

\* A live process is in exactly one of curr_process, its ready queue and the
\* queue of the semaphore it is blocked on, whatever was created, killed,
\* blocked and woken before, and it is linked there once.
THEOREM EveryProcessInOnePlace == Spec => []OnePlace
<1>1. IInv => OnePlace
  BY IInvImplies
<1> QED BY <1>1, Invariance, PTL

\* process_count, updated one by one in the handlers and by the recursion of
\* _killProcess, is the number of live processes.
THEOREM CountersExact == Spec => []ProcessCountExact
<1>1. IInv => ProcessCountExact
  BY IInvImplies
<1> QED BY <1>1, Invariance, PTL

\* softblocked_count is the number of processes in a queue of a device or of
\* the clock, and of the DOIO calls that were counted and did not block.
THEOREM SoftBlockedCounted == Spec => []SoftBlockedExact
<1>1. IInv => SoftBlockedExact
  BY IInvImplies
<1> QED BY <1>1, Invariance, PTL

\* A process blocked in P waits for a semaphore that is 0 and one blocked in V
\* for one that is 1: semP and semV never lose a wake-up.
THEOREM NoLostWakeup == Spec => []BlockedMatchesValue
<1>1. IInv => BlockedMatchesValue
  BY IInvImplies
<1> QED BY <1>1, Invariance, PTL

\* At most one process waits for a device, which is then working or has
\* raised its interrupt, and the V of an interrupt never blocks.
THEOREM DeviceSemaphores == Spec => []DevSemOK
<1>1. IInv => DevSemOK
  BY IInvImplies
<1> QED BY <1>1, Invariance, PTL

\* scheduler() reports a deadlock only when nobody can be woken, and halts
\* only when no process is left.
THEOREM SchedulerStopsForCause == Spec => []IdleSound
<1>1. IInv => IdleSound
  BY IInvImplies
<1> QED BY <1>1, Invariance, PTL

\* With as many semaphore descriptors as PCBs, insertBlocked always finds one:
\* the PANIC of semP and semV is dead code.
THEOREM SemaphoreDescriptorsSuffice == Spec => []NoSemdExhaustion
<1>1. IInv => NoSemdExhaustion
  BY IInvImplies
<1> QED BY <1>1, Invariance, PTL

\* The live processes form one tree, whatever subtrees were killed: no
\* process is left whose parent is a free PCB or that the root does not reach.
THEOREM ProcessesFormTree == Spec => []TreeOK
<1>1. Init => IInv /\ TreeOK
  BY InitIInv, InitTree
<1>2. IInv /\ TreeOK /\ [Next]_vars => TreeOK'
  BY NextTree
<1> QED BY <1>1, <1>2, Invariance, PTL DEF Spec

\* Every queue is first in, first out: no handler lets a process overtake
\* another one in a ready queue or in the queue of a semaphore.
THEOREM QueuesAreFifo == Spec => Fifo
<1>1. IInv /\ [Next]_vars => [FifoStep]_vars
  BY NextOrder
<1> QED BY <1>1, Invariance, PTL DEF Spec, Fifo

\* scheduler() puts a low-priority process on the CPU only if no high-priority
\* one is ready but the one that has just yielded.
THEOREM HighPriorityGoesFirst == Spec => HighPriorityFirst
<1>1. IInv /\ [Next]_vars => [DispatchStep]_vars
  BY NextOrder
<1> QED BY <1>1, Invariance, PTL DEF Spec, HighPriorityFirst

\* No process that calls YIELD while somebody is ready gets the CPU back: in no
\* state that satisfies IInv is a YieldsToItself step possible, not even one
\* that changes no variable.  (This is the step behind YieldGivesWay, which
\* says it with ENABLED.)
THEOREM YieldPassesTheCpu ==
  ASSUME IInv
  PROVE  ~YieldsToItself
<1> SUFFICES ASSUME YieldsToItself
             PROVE  FALSE
  OBVIOUS
<1> DEFINE c == curr_process
           rq == MakeReady(c)
<1>1. /\ Running /\ Schedule(rq, c, plt) /\ curr_process' = c
      /\ process_count' = process_count
  BY DEF YieldsToItself, Yield
<1>2. PICK other \in Prio : readyqueue[other] # <<>>
  BY DEF YieldsToItself
<1>3. /\ c \in Pcb /\ c # Null /\ Null \notin Pcb /\ prio[c] \in Prio
      /\ readyqueue \in [Prio -> Seq(Pcb)]
      /\ \A level \in Prio : c \notin Range(readyqueue[level])
      /\ rq = [readyqueue EXCEPT ![prio[c]] = InsertProcQ(readyqueue[prio[c]], c)]
  BY <1>1, PcbAssumption DEF Running, IInv, CpuInv, SemInv, TreeType, ReadyOK, MakeReady
<1>4. ASSUME NEW level \in Prio, readyqueue[level] # <<>>
      PROVE  rq[level] # <<>> /\ Head(rq[level]) # c
  <2>1. /\ readyqueue[level] \in Seq(Pcb)
        /\ Head(readyqueue[level]) \in Range(readyqueue[level])
    BY <1>3, <1>4, TailProperties
  <2>2. CASE level = prio[c]
    <3>1. rq[level] = Append(readyqueue[level], c)
      BY <1>3, <2>2 DEF InsertProcQ
    <3>2. rq[level] # <<>> /\ Head(rq[level]) = Head(readyqueue[level])
      BY <1>4, <2>1, <3>1
    <3> QED BY <1>3, <2>1, <3>2
  <2>3. CASE level # prio[c]
    <3>1. rq[level] = readyqueue[level]
      BY <1>3, <2>3
    <3> QED BY <1>3, <1>4, <2>1, <3>1
  <2> QED BY <2>2, <2>3
<1>5. \A level \in Prio : readyqueue[level] = <<>> /\ rq[level] # <<>> =>
                            level = prio[c]
  BY <1>3
<1> HIDE DEF rq
<1>6. PICK level \in Prio :
        level = NextQueue(rq, c) /\ rq[level] # <<>> /\ c = Head(rq[level])
  BY <1>1, <1>3 DEF Schedule, Halt, Dispatch, Idle
<1>7. readyqueue[level] = <<>> /\ level = prio[c]
  BY <1>4, <1>5, <1>6
<1>8. other # level
  BY <1>2, <1>7
<1>9. rq[other] # <<>> /\ Head(rq[other]) # c
  BY <1>2, <1>4
<1>10. CASE level = HIGH
  BY <1>6, <1>8, <1>9, <1>10 DEF NextQueue, Prio, HIGH, LOW
<1>11. CASE level = LOW
  BY <1>6, <1>8, <1>9, <1>11 DEF NextQueue, Prio, HIGH, LOW
<1> QED BY <1>10, <1>11 DEF Prio

-----------------------------------------------------------------------------
(* The semaphores as the processes of phase 3 see them *)

\* A semaphore of the nucleus, with an owner that the nucleus does not know.
SemaphoreAt(s, owner) == [val |-> semVal[s], user_asid |-> owner, queue |-> asl[s]]

LEMMA SemOpAsSeen ==
  ASSUME IInv, NEW s \in Sem, NEW op \in {"P", "V"}, NEW owner, curr_process # Null,
         SemOp(s, op)
  PROVE  SemaphoreAt(s, owner)' =
           IF op = "P" THEN SemP(SemaphoreAt(s, owner), curr_process)
                       ELSE SemV(SemaphoreAt(s, owner), curr_process)
<1> DEFINE before == [val |-> semVal[s], user_asid |-> owner, queue |-> asl[s]]
<1>1. /\ semVal[s] \in {0, 1} /\ asl \in [Sem -> Seq(Pcb)] /\ semVal \in [Sem -> {0, 1}]
      /\ ~(Cardinality(ActiveSem) >= MaxSemd)
  BY CurrentUsesNoSemd DEF IInv, SemInv, SemType
<1>2. /\ before.val = semVal[s] /\ before.queue = asl[s]
      /\ SemaphoreAt(s, owner) = before
      /\ SemaphoreAt(s, owner)' = [val |-> semVal'[s], user_asid |-> owner, queue |-> asl'[s]]
      /\ \A q : [before EXCEPT !.queue = q] =
                  [val |-> semVal[s], user_asid |-> owner, queue |-> q]
      /\ \A v : [before EXCEPT !.val = v] =
                  [val |-> v, user_asid |-> owner, queue |-> asl[s]]
  BY DEF SemaphoreAt
<1> HIDE DEF before
<1>3. BlockedAt(op) = IF op = "P" THEN 0 ELSE 1
  BY DEF BlockedAt
<1>4. CASE semVal[s] = BlockedAt(op) /\ Block(s, op)
  <2>1. asl'[s] = InsertProcQ(asl[s], curr_process) /\ semVal'[s] = semVal[s]
    BY <1>1, <1>4 DEF Block
  <2> QED BY <1>2, <1>3, <1>4, <2>1 DEF SemP, SemV
<1>5. CASE semVal[s] # BlockedAt(op) /\ asl[s] # <<>> /\ Unblock(s)
  <2>1. asl'[s] = Tail(asl[s]) /\ semVal'[s] = semVal[s]
    BY <1>1, <1>5 DEF Unblock
  <2>2. /\ before.queue # <<>>
        /\ SemaphoreAt(s, owner)' = [before EXCEPT !.queue = Tail(before.queue)]
    <3>1. before.queue = asl[s]
      BY <1>2
    <3>2. SemaphoreAt(s, owner)' =
            [val |-> semVal[s], user_asid |-> owner, queue |-> Tail(asl[s])]
      BY <1>2, <2>1
    <3>3. [before EXCEPT !.queue = Tail(asl[s])] =
            [val |-> semVal[s], user_asid |-> owner, queue |-> Tail(asl[s])]
      BY <1>2
    <3> QED BY <1>5, <3>1, <3>2, <3>3
  <2>3. CASE op = "P"
    <3>1. before.val # 0
      BY <1>2, <1>3, <1>5, <2>3
    <3> QED BY <1>2, <2>2, <2>3, <3>1 DEF SemP
  <2>4. CASE op = "V"
    <3>1. before.val # 1
      BY <1>2, <1>3, <1>5, <2>4
    <3> QED BY <1>2, <2>2, <2>4, <3>1 DEF SemV
  <2> QED BY <2>3, <2>4
<1>6. CASE /\ semVal[s] # BlockedAt(op) /\ asl[s] = <<>>
           /\ semVal' = [semVal EXCEPT ![s] = BlockedAt(op)] /\ UNCHANGED asl
  <2>1. asl'[s] = asl[s] /\ semVal'[s] = BlockedAt(op)
    BY <1>1, <1>6
  <2> QED BY <1>1, <1>2, <1>3, <1>6, <2>1 DEF SemP, SemV
<1> QED BY <1>4, <1>5, <1>6 DEF SemOp

\* PASSEREN and VERHOGEN do to a semaphore what the operators of Semaphores
\* say, on which the modules of phase 3 are built: they block at the end of
\* the queue, wake its head or change the value.
THEOREM SemaphoresAsSeen ==
  ASSUME IInv, NEW s \in UserSem, NEW owner
  PROVE  /\ Passeren(s) =>
              SemaphoreAt(s, owner)' = SemP(SemaphoreAt(s, owner), curr_process)
         /\ Verhogen(s) =>
              SemaphoreAt(s, owner)' = SemV(SemaphoreAt(s, owner), curr_process)
         /\ \A p \in Pcb : BlockedOn(SemaphoreAt(s, owner), p) <=> semAdd[p] = s
<1>1. s \in Sem /\ s # Null
  BY SemAssumption DEF Sem
<1>2. Running => curr_process # Null
  BY DEF Running, IInv, CpuInv
<1>3. ASSUME Passeren(s)
      PROVE  SemaphoreAt(s, owner)' = SemP(SemaphoreAt(s, owner), curr_process)
  BY <1>1, <1>2, <1>3, SemOpAsSeen DEF Passeren
<1>4. ASSUME Verhogen(s)
      PROVE  SemaphoreAt(s, owner)' = SemV(SemaphoreAt(s, owner), curr_process)
  <2>1. "V" # "P"
    OBVIOUS
  <2> QED BY <1>1, <1>2, <1>4, <2>1, SemOpAsSeen DEF Verhogen
<1>5. ASSUME NEW p \in Pcb
      PROVE  BlockedOn(SemaphoreAt(s, owner), p) <=> semAdd[p] = s
  BY <1>1 DEF BlockedOn, SemaphoreAt, IInv, SemInv, Queued
<1> QED BY <1>3, <1>4, <1>5

=============================================================================
