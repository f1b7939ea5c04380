-------------------------------- MODULE Asl ---------------------------------
(***************************************************************************)
(* The active semaphore list (src/phase1/asl.c): a list of descriptors     *)
(* sorted by key, each with a queue of blocked processes, and the list of  *)
(* the free descriptors.  It implements SemQueues.                         *)
(*                                                                         *)
(* The operations are called the way the nucleus calls them: a process     *)
(* that blocks is running, so that it is in no queue, and outBlocked is    *)
(* called for a process whose p_semAdd is not NULL.                        *)
(***************************************************************************)
EXTENDS ProcQueues

CONSTANTS
  Pcb,   \* processes
  Key,   \* addresses of semaphores, ordered like integers
  Semd,  \* semd_table
  Null   \* the NULL pointer

ASSUME AslAssumption ==
  /\ IsFiniteSet(Pcb)
  /\ IsFiniteSet(Semd)
  /\ Cardinality(Semd) = Cardinality(Pcb)  \* both are MAXPROC
  /\ Key \subseteq Int
  /\ Null \notin Key

VARIABLES
  semd_h,      \* the active descriptors, from the head of the list
  semdFree_h,  \* the free ones
  s_key,       \* s_key of every descriptor
  s_procq,     \* s_procq of every descriptor
  p_semAdd     \* p_semAdd of every process

vars == <<semd_h, semdFree_h, s_key, s_procq, p_semAdd>>

TypeOK ==
  /\ semd_h \in Seq(Semd)
  /\ semdFree_h \in Seq(Semd)
  /\ s_key \in [Semd -> Key \cup {Null}]
  /\ s_procq \in [Semd -> Seq(Pcb)]
  /\ p_semAdd \in [Pcb -> Key \cup {Null}]

\* _peekActiveSemaphore: the walk stops at the first descriptor of the key,
\* or gives up at the first one of a greater key.
Peek(key) ==
  {semd_h[i] : i \in {i \in DOMAIN semd_h :
     /\ s_key[semd_h[i]] = key
     /\ \A j \in 1 .. i - 1 : s_key[semd_h[j]] < key}}

\* Mutant: list_add_tail.
ActivatedAtTail(key, sem) == Append(semd_h, sem)

\* _addActiveSemaphore: before the first descriptor of a greater key.
Activated(key, sem) ==
  LET smaller == {i \in DOMAIN semd_h : \A j \in 1 .. i : s_key[semd_h[j]] <= key}
      last == Cardinality(smaller)
  IN SubSeq(semd_h, 1, last) \o <<sem>> \o SubSeq(semd_h, last + 1, Len(semd_h))

\* insertBlocked with an active descriptor, and with one that is initialised.
\* (Without any it returns TRUE, and its callers panic: DescriptorsSuffice.)
InsertActive(key, p) ==
  \E sem \in Peek(key) :
    /\ s_procq' = [s_procq EXCEPT ![sem] = InsertProcQ(@, p)]
    /\ UNCHANGED <<semd_h, semdFree_h, s_key>>

InsertInitialised(key, p) ==
  /\ Peek(key) = {}
  /\ semdFree_h # <<>>
  /\ LET sem == Head(semdFree_h) IN
     /\ semdFree_h' = Tail(semdFree_h)
     /\ s_key' = [s_key EXCEPT ![sem] = key]
     /\ semd_h' = Activated(key, sem)
     /\ s_procq' = [s_procq EXCEPT ![sem] = InsertProcQ(<<>>, p)]

InsertBlocked(key, p) ==
  /\ p_semAdd[p] = Null
  /\ p_semAdd' = [p_semAdd EXCEPT ![p] = key]
  /\ \/ InsertActive(key, p)
     \/ InsertInitialised(key, p)

\* Mutant: the descriptor of an empty queue is not given back.
UpdateActiveLeaking(sem, queue) ==
  /\ s_procq' = [s_procq EXCEPT ![sem] = queue]
  /\ semd_h' = IF queue = <<>> THEN Without(semd_h, {sem}) ELSE semd_h
  /\ UNCHANGED <<semdFree_h, s_key>>

\* The queue of an active descriptor shrinks; _updateActiveSemaphore moves a
\* descriptor whose queue is empty to the head of the free ones.
UpdateActive(sem, queue) ==
  /\ s_procq' = [s_procq EXCEPT ![sem] = queue]
  /\ UNCHANGED s_key
  /\ IF queue = <<>>
     THEN /\ semd_h' = Without(semd_h, {sem})
          /\ semdFree_h' = <<sem>> \o semdFree_h
     ELSE UNCHANGED <<semd_h, semdFree_h>>

\* removeBlocked, with an active descriptor.
RemoveBlocked(key) ==
  \E sem \in Peek(key) :
    /\ p_semAdd' = [p_semAdd EXCEPT ![Head(s_procq[sem])] = Null]
    /\ UpdateActive(sem, Tail(s_procq[sem]))

\* Mutant: p_semAdd keeps the key of the queue that the process has left.
OutBlockedStale(p) ==
  /\ p_semAdd[p] # Null
  /\ \E sem \in Peek(p_semAdd[p]) : UpdateActive(sem, Without(s_procq[sem], {p}))
  /\ UNCHANGED p_semAdd

\* outBlocked
OutBlocked(p) ==
  /\ p_semAdd[p] # Null
  /\ \E sem \in Peek(p_semAdd[p]) :
       /\ p_semAdd' = [p_semAdd EXCEPT ![p] = Null]
       /\ UpdateActive(sem, Without(s_procq[sem], {p}))

\* initASL adds the descriptors one by one to the head of the free list.
Init ==
  /\ semd_h = <<>>
  /\ semdFree_h \in {q \in [1 .. Cardinality(Semd) -> Semd] : IsInjective(q)}
  /\ s_key = [sem \in Semd |-> Null]
  /\ s_procq = [sem \in Semd |-> <<>>]
  /\ p_semAdd = [p \in Pcb |-> Null]

Next ==
  \/ \E key \in Key, p \in Pcb : InsertBlocked(key, p)
  \/ \E key \in Key : RemoveBlocked(key)
  \/ \E p \in Pcb : OutBlocked(p)

Spec == Init /\ [][Next]_vars

-----------------------------------------------------------------------------
(* Properties *)

\* The list is sorted by key without repetitions, every active descriptor has
\* somebody in its queue, and every descriptor is either active or free.
ListOK ==
  /\ \A i, j \in DOMAIN semd_h : i < j => s_key[semd_h[i]] < s_key[semd_h[j]]
  /\ \A i \in DOMAIN semd_h : s_procq[semd_h[i]] # <<>>
  /\ IsInjective(semdFree_h)
  /\ Range(semdFree_h) = Semd \ Range(semd_h)

\* A process that blocks always finds a descriptor: insertBlocked never
\* returns TRUE to semP and semV.
DescriptorsSuffice ==
  (\E p \in Pcb : p_semAdd[p] = Null) =>
     \A key \in Key : Peek(key) # {} \/ semdFree_h # <<>>

\* The queue that the active descriptors hold for a key.
QueueOf(key) ==
  IF \E i \in DOMAIN semd_h : s_key[semd_h[i]] = key
  THEN s_procq[semd_h[CHOOSE i \in DOMAIN semd_h : s_key[semd_h[i]] = key]]
  ELSE <<>>

\* Every operation does to the queue of its key what SemQueues says and leaves
\* the others alone, whatever the list has become.
Queues == INSTANCE SemQueues WITH asl <- [key \in Key |-> QueueOf(key)]

ImplementsSemQueues == Queues!Spec

\* p_semAdd, which outBlocked trusts, names the queue that the process is in.
SemAddExact ==
  \A p \in Pcb, key \in Key : p_semAdd[p] = key <=> p \in Range(QueueOf(key))

=============================================================================
