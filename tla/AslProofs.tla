----------------------------- MODULE AslProofs ------------------------------
(***************************************************************************)
(* Proofs that the sorted list of descriptors of src/phase1/asl.c keeps a  *)
(* FIFO queue for every semaphore: the invariants of Asl, and that Asl     *)
(* implements SemQueues, for any number of processes and any addresses.    *)
(*                                                                         *)
(* The argument: the list is sorted, so that the walk that gives up at the *)
(* first greater key misses no descriptor (PeekExact), and the place that  *)
(* _addActiveSemaphore finds keeps it sorted (ActivatedFacts).  An active  *)
(* descriptor has somebody in its queue, and p_semAdd names one queue, so  *)
(* that there are never more queues than processes that wait.              *)
(***************************************************************************)
EXTENDS Asl, QueueProofs

Active == Range(semd_h)

KeysOK == \A d \in Active : s_key[d] \in Key

\* Who is in the queue of an active descriptor, and that whoever is blocked
\* has one.
QueuesOK ==
  /\ \A d \in Active : IsInjective(s_procq[d])
  /\ \A d \in Active, p \in Pcb : p \in Range(s_procq[d]) <=> p_semAdd[p] = s_key[d]
  /\ \A p \in Pcb : p_semAdd[p] # Null => \E d \in Active : s_key[d] = p_semAdd[p]

IInv == TypeOK /\ ListOK /\ KeysOK /\ QueuesOK

-----------------------------------------------------------------------------
(* The sorted list                                                         *)

\* No key is in the list twice.
LEMMA SortedFacts ==
  IInv =>
    /\ Active \subseteq Semd
    /\ \A i \in DOMAIN semd_h : semd_h[i] \in Active /\ s_key[semd_h[i]] \in Key
    /\ \A i, j \in DOMAIN semd_h :
         /\ s_key[semd_h[i]] = s_key[semd_h[j]] => i = j
         /\ s_key[semd_h[i]] < s_key[semd_h[j]] => i < j
    /\ \A d, e \in Active : s_key[d] = s_key[e] => d = e
<1> SUFFICES ASSUME IInv
             PROVE  /\ Active \subseteq Semd
                    /\ \A i \in DOMAIN semd_h : semd_h[i] \in Active /\ s_key[semd_h[i]] \in Key
                    /\ \A i, j \in DOMAIN semd_h :
                         /\ s_key[semd_h[i]] = s_key[semd_h[j]] => i = j
                         /\ s_key[semd_h[i]] < s_key[semd_h[j]] => i < j
                    /\ \A d, e \in Active : s_key[d] = s_key[e] => d = e
  OBVIOUS
<1>1. /\ Active \subseteq Semd
      /\ \A i \in DOMAIN semd_h : semd_h[i] \in Active /\ s_key[semd_h[i]] \in Key
  BY DEF IInv, TypeOK, KeysOK, Active, Range
<1>2. \A i \in DOMAIN semd_h : i \in Int /\ s_key[semd_h[i]] \in Int
  <2>1. DOMAIN semd_h = 1 .. Len(semd_h)
    BY DEF IInv, TypeOK
  <2>2. Key \subseteq Int
    BY AslAssumption
  <2>3. ASSUME NEW i \in DOMAIN semd_h
        PROVE  s_key[semd_h[i]] \in Int
    BY <1>1, <2>2
  <2> QED BY <2>1, <2>3
<1>3. \A i, j \in DOMAIN semd_h : i < j => s_key[semd_h[i]] < s_key[semd_h[j]]
  BY DEF IInv, ListOK
<1>4. ASSUME NEW i \in DOMAIN semd_h, NEW j \in DOMAIN semd_h
      PROVE  /\ s_key[semd_h[i]] = s_key[semd_h[j]] => i = j
             /\ s_key[semd_h[i]] < s_key[semd_h[j]] => i < j
  <2>1. i < j \/ i = j \/ j < i
    BY <1>2
  <2>2. i \in Int /\ j \in Int /\ s_key[semd_h[i]] \in Int /\ s_key[semd_h[j]] \in Int
    BY <1>2
  <2> QED BY <1>3, <2>1, <2>2
<1>5. ASSUME NEW d \in Active, NEW e \in Active, s_key[d] = s_key[e]
      PROVE  d = e
  <2>1. PICK i \in DOMAIN semd_h : d = semd_h[i]
    BY DEF Active, Range
  <2>2. PICK j \in DOMAIN semd_h : e = semd_h[j]
    BY DEF Active, Range
  <2> QED BY <1>4, <1>5, <2>1, <2>2
<1> QED BY <1>1, <1>4, <1>5

\* The walk that stops at a greater key finds every descriptor.
LEMMA PeekExact ==
  ASSUME IInv, NEW key \in Key
  PROVE  Peek(key) = {d \in Active : s_key[d] = key}
<1>1. ASSUME NEW d \in Peek(key)
      PROVE  d \in Active /\ s_key[d] = key
  BY SortedFacts DEF Peek
<1>2. ASSUME NEW d \in Active, s_key[d] = key
      PROVE  d \in Peek(key)
  <2>1. PICK i \in DOMAIN semd_h : d = semd_h[i]
    BY DEF Active, Range
  <2>2. \A j \in 1 .. i - 1 : j \in DOMAIN semd_h /\ j < i
    BY <2>1 DEF IInv, TypeOK
  <2>3. \A j \in 1 .. i - 1 : s_key[semd_h[j]] < key
    BY <1>2, <2>1, <2>2 DEF IInv, ListOK
  <2> QED BY <1>2, <2>1, <2>3 DEF Peek
<1> QED BY <1>1, <1>2

\* What QueueOf returns: the queue of the one descriptor that has the key.
LEMMA QueueOfFacts ==
  IInv =>
    /\ \A d \in Active : QueueOf(s_key[d]) = s_procq[d]
    /\ \A key \in Key : (\A d \in Active : s_key[d] # key) => QueueOf(key) = <<>>
<1> SUFFICES ASSUME IInv
             PROVE  /\ \A d \in Active : QueueOf(s_key[d]) = s_procq[d]
                    /\ \A key \in Key :
                         (\A d \in Active : s_key[d] # key) => QueueOf(key) = <<>>
  OBVIOUS
<1>1. ASSUME NEW d \in Active
      PROVE  QueueOf(s_key[d]) = s_procq[d]
  <2>1. PICK i \in DOMAIN semd_h : d = semd_h[i]
    BY DEF Active, Range
  <2>2. \A j \in DOMAIN semd_h : s_key[semd_h[j]] = s_key[d] <=> j = i
    BY <2>1, SortedFacts
  <2>3. (CHOOSE j \in DOMAIN semd_h : s_key[semd_h[j]] = s_key[d]) = i
    BY <2>2
  <2> QED BY <2>1, <2>2, <2>3 DEF QueueOf
<1>2. ASSUME NEW key \in Key, \A d \in Active : s_key[d] # key
      PROVE  QueueOf(key) = <<>>
  BY <1>2, SortedFacts DEF QueueOf
<1> QED BY <1>1, <1>2

\* Where _addActiveSemaphore puts a descriptor: behind the smaller keys.
LEMMA ActivatedFacts ==
  ASSUME IInv, NEW key \in Key, NEW sem \in Semd, Peek(key) = {}
  PROVE  \E last \in 0 .. Len(semd_h) :
           /\ Activated(key, sem) = LinkedIn(semd_h, sem, last)
           /\ \A i \in 1 .. last : s_key[semd_h[i]] < key
           /\ \A i \in last + 1 .. Len(semd_h) : key < s_key[semd_h[i]]
<1> DEFINE smaller == {i \in DOMAIN semd_h : \A j \in 1 .. i : s_key[semd_h[j]] <= key}
           last == Cardinality(smaller)
<1>1. Len(semd_h) \in Nat /\ DOMAIN semd_h = 1 .. Len(semd_h)
  BY DEF IInv, TypeOK
<1>2. last \in 0 .. Len(semd_h) /\ smaller = 1 .. last
  <2>1. smaller \in SUBSET (1 .. Len(semd_h)) /\ \A i \in smaller : 1 .. i \subseteq smaller
    BY <1>1
  <2> HIDE DEF smaller
  <2> QED BY <1>1, <2>1, PrefixClosed
<1>3. \A i \in DOMAIN semd_h : s_key[semd_h[i]] \in Int /\ s_key[semd_h[i]] # key /\ key \in Int
  <2>1. \A i \in DOMAIN semd_h : semd_h[i] \in Active /\ s_key[semd_h[i]] \in Key
    BY SortedFacts
  <2>2. \A d \in Active : s_key[d] # key
    BY PeekExact
  <2>3. Key \subseteq Int
    BY AslAssumption
  <2> QED BY <2>1, <2>2, <2>3
<1>4. ASSUME NEW i \in 1 .. last
      PROVE  s_key[semd_h[i]] < key
  <2>1. i \in smaller
    BY <1>2
  <2>2. i \in DOMAIN semd_h /\ s_key[semd_h[i]] <= key
    BY <1>1, <2>1
  <2> QED BY <1>3, <2>2
<1>5. ASSUME NEW i \in last + 1 .. Len(semd_h)
      PROVE  key < s_key[semd_h[i]]
  <2>1. i \in DOMAIN semd_h /\ i \notin smaller
    <3> HIDE DEF smaller, last
    <3> QED BY <1>1, <1>2
  <2>2. PICK j \in 1 .. i : ~(s_key[semd_h[j]] <= key)
    BY <2>1
  <2>3. j \in DOMAIN semd_h /\ (j < i \/ j = i)
    BY <1>1, <2>1, <2>2
  <2>4. key < s_key[semd_h[j]] /\ s_key[semd_h[j]] \in Int
    BY <1>3, <2>2, <2>3
  <2>5. s_key[semd_h[j]] < s_key[semd_h[i]] \/ j = i
    BY <2>1, <2>3 DEF IInv, ListOK
  <2> QED BY <1>3, <2>1, <2>4, <2>5
<1>6. Activated(key, sem) = LinkedIn(semd_h, sem, last)
  BY DEF Activated, LinkedIn
<1> HIDE DEF last
<1> QED BY <1>2, <1>4, <1>5, <1>6

LEMMA ActivatedList ==
  ASSUME IInv, NEW key \in Key, NEW sem \in Semd \ Active, Peek(key) = {},
         s_key' = [s_key EXCEPT ![sem] = key], semd_h' = Activated(key, sem)
  PROVE  /\ semd_h' \in Seq(Semd)
         /\ Active' = Active \cup {sem}
         /\ \A i, j \in DOMAIN semd_h' : i < j => s_key'[semd_h'[i]] < s_key'[semd_h'[j]]
<1>1. /\ Len(semd_h) \in Nat /\ DOMAIN semd_h = 1 .. Len(semd_h)
      /\ \A i \in 1 .. Len(semd_h) :
           semd_h[i] \in Active /\ semd_h[i] \in Semd /\ s_key[semd_h[i]] \in Key
  BY SortedFacts DEF IInv, TypeOK
<1>2. PICK last \in 0 .. Len(semd_h) :
        /\ Activated(key, sem) = LinkedIn(semd_h, sem, last)
        /\ \A i \in 1 .. last : s_key[semd_h[i]] < key
        /\ \A i \in last + 1 .. Len(semd_h) : key < s_key[semd_h[i]]
  BY ActivatedFacts
<1>3. \A d \in Semd : s_key'[d] = IF d = sem THEN key ELSE s_key[d]
  BY DEF IInv, TypeOK
<1>4. /\ s_key'[sem] = key /\ s_key'[sem] \in Int
      /\ \A i \in 1 .. Len(semd_h) :
           s_key'[semd_h[i]] = s_key[semd_h[i]] /\ s_key'[semd_h[i]] \in Int
  BY <1>1, <1>3, AslAssumption
<1>5. \A i, j \in 1 .. Len(semd_h) : i < j => s_key'[semd_h[i]] < s_key'[semd_h[j]]
  BY <1>1, <1>4 DEF IInv, ListOK
<1>6. /\ \A i \in 1 .. last : s_key'[semd_h[i]] < s_key'[sem]
      /\ \A i \in last + 1 .. Len(semd_h) : s_key'[sem] < s_key'[semd_h[i]]
  <2>1. \A i \in 1 .. last : i \in 1 .. Len(semd_h)
    BY <1>1
  <2>2. \A i \in last + 1 .. Len(semd_h) : i \in 1 .. Len(semd_h)
    BY <1>1
  <2> QED BY <1>2, <1>4, <2>1, <2>2
<1> DEFINE h == semd_h
           r == semd_h'
           f == s_key'
<1>7. /\ h \in Seq(Semd) /\ sem \in Semd
      /\ r = LinkedIn(h, sem, last)
      /\ last \in 0 .. Len(h) /\ f[sem] \in Int
      /\ \A i \in 1 .. Len(h) : f[h[i]] \in Int
      /\ \A i, j \in 1 .. Len(h) : i < j => f[h[i]] < f[h[j]]
      /\ \A i \in 1 .. last : f[h[i]] < f[sem]
      /\ \A i \in last + 1 .. Len(h) : f[sem] < f[h[i]]
  BY <1>2, <1>4, <1>5, <1>6 DEF IInv, TypeOK
<1> HIDE DEF h, r, f
<1>8. r \in Seq(Semd) /\ Range(r) = Range(h) \cup {sem}
  BY <1>7, InsertionAt
<1>9. \A i, j \in DOMAIN r : i < j => f[r[i]] < f[r[j]]
  BY <1>7, SortedInsertion
<1> QED BY <1>8, <1>9 DEF Active, Range, h, r, f

-----------------------------------------------------------------------------
(* The steps: what each does to the invariant and to the queues.           *)

\* The queue of a key is that of its descriptor, or empty.
LEMMA QueueOfNext ==
  ASSUME IInv', NEW k \in Key, NEW q,
         \/ \E d \in Active' : s_key'[d] = k /\ s_procq'[d] = q
         \/ (\A d \in Active' : s_key'[d] # k) /\ q = <<>>
  PROVE  QueueOf(k)' = q
<1>1. /\ \A d \in Active' : QueueOf(s_key[d])' = s_procq'[d]
      /\ \A key \in Key : (\A d \in Active' : s_key'[d] # key) => QueueOf(key)' = <<>>
  <2>1. (/\ \A d \in Active : QueueOf(s_key[d]) = s_procq[d]
         /\ \A key \in Key : (\A d \in Active : s_key[d] # key) => QueueOf(key) = <<>>)'
    BY QueueOfFacts, PTL
  <2> QED BY <2>1
<1> QED BY <1>1

\* A process that is not blocked is in no queue.
LEMMA NotBlocked ==
  ASSUME IInv, NEW p \in Pcb, p_semAdd[p] = Null
  PROVE  \A d \in Active : p \notin Range(s_procq[d])
<1>1. \A d \in Active : s_key[d] # Null
  BY AslAssumption DEF IInv, KeysOK
<1> QED BY <1>1 DEF IInv, QueuesOK

LEMMA InsertActiveStep ==
  ASSUME IInv, NEW key \in Key, NEW p \in Pcb, p_semAdd[p] = Null,
         p_semAdd' = [p_semAdd EXCEPT ![p] = key], InsertActive(key, p)
  PROVE  /\ IInv'
         /\ \A k \in Key :
              QueueOf(k)' = IF k = key THEN InsertProcQ(QueueOf(k), p) ELSE QueueOf(k)
<1>1. PICK sem \in Peek(key) :
        /\ s_procq' = [s_procq EXCEPT ![sem] = InsertProcQ(@, p)]
        /\ UNCHANGED <<semd_h, semdFree_h, s_key>>
  BY DEF InsertActive
<1>2. sem \in Active /\ s_key[sem] = key /\ sem \in Semd /\ Active' = Active
  BY <1>1, PeekExact, SortedFacts DEF Active
<1>3. \A d \in Active : d \in Semd /\ p \notin Range(s_procq[d])
  BY NotBlocked, SortedFacts
<1>4. s_procq[sem] \in Seq(Pcb) /\ IsInjective(s_procq[sem])
  BY <1>2 DEF IInv, TypeOK, QueuesOK
<1>5. /\ InsertProcQ(s_procq[sem], p) \in Seq(Pcb)
      /\ Range(InsertProcQ(s_procq[sem], p)) = Range(s_procq[sem]) \cup {p}
      /\ IsInjective(InsertProcQ(s_procq[sem], p))
      /\ InsertProcQ(s_procq[sem], p) # <<>>
  <2>1. p \notin Range(s_procq[sem])
    BY <1>2, <1>3
  <2>2. InsertProcQ(s_procq[sem], p) # <<>>
    BY <1>4 DEF InsertProcQ
  <2> QED BY <1>4, <2>1, <2>2, InsertProcQProperties
<1>6. \A d \in Semd : s_procq'[d] = IF d = sem THEN InsertProcQ(s_procq[sem], p) ELSE s_procq[d]
  BY <1>1 DEF IInv, TypeOK
<1>7. \A x \in Pcb : p_semAdd'[x] = IF x = p THEN key ELSE p_semAdd[x]
  BY DEF IInv, TypeOK
<1>8. TypeOK'
  BY <1>1, <1>2, <1>5 DEF IInv, TypeOK
<1>9. ListOK'
  <2>1. \A i \in DOMAIN semd_h : semd_h[i] \in Semd /\ s_procq'[semd_h[i]] # <<>>
    BY <1>5, <1>6, SortedFacts DEF IInv, ListOK
  <2> QED BY <1>1, <1>2, <2>1 DEF IInv, ListOK, Active
<1>10. KeysOK'
  BY <1>1, <1>2 DEF IInv, KeysOK
<1>11. QueuesOK'
  <2>1. \A d \in Active : IsInjective(s_procq'[d])
    BY <1>3, <1>5, <1>6 DEF IInv, QueuesOK
  <2>2. ASSUME NEW d \in Active, NEW x \in Pcb
        PROVE  x \in Range(s_procq'[d]) <=> p_semAdd'[x] = s_key[d]
    <3>1. x \in Range(s_procq[d]) <=> p_semAdd[x] = s_key[d]
      BY DEF IInv, QueuesOK
    <3>2. CASE x = p
      <4>1. s_key[d] = key <=> d = sem
        BY <1>2, SortedFacts
      <4> QED BY <1>3, <1>5, <1>6, <1>7, <3>2, <4>1
    <3>3. CASE x # p
      BY <1>3, <1>5, <1>6, <1>7, <3>1, <3>3
    <3> QED BY <3>2, <3>3
  <2>3. \A x \in Pcb : p_semAdd'[x] # Null => \E d \in Active : s_key[d] = p_semAdd'[x]
    BY <1>2, <1>7 DEF IInv, QueuesOK
  <2> QED BY <1>1, <1>2, <2>1, <2>2, <2>3 DEF QueuesOK
<1>12. IInv'
  BY <1>8, <1>9, <1>10, <1>11 DEF IInv
<1>13. ASSUME NEW k \in Key
       PROVE  QueueOf(k)' = IF k = key THEN InsertProcQ(QueueOf(k), p) ELSE QueueOf(k)
  <2>1. CASE k = key
    <3>1. QueueOf(k) = s_procq[sem]
      BY <1>2, <2>1, QueueOfFacts
    <3>2. s_key'[sem] = k /\ s_procq'[sem] = InsertProcQ(QueueOf(k), p) /\ sem \in Active'
      BY <1>1, <1>2, <1>6, <2>1, <3>1
    <3> QED BY <1>12, <2>1, <3>2, QueueOfNext
  <2>2. CASE k # key
    <3>1. CASE \E d \in Active : s_key[d] = k
      <4>1. PICK d \in Active : s_key[d] = k
        BY <3>1
      <4>2. d \in Active' /\ s_key'[d] = k /\ s_procq'[d] = QueueOf(k)
        BY <1>1, <1>2, <1>3, <1>6, <2>2, <4>1, QueueOfFacts
      <4> QED BY <1>12, <2>2, <4>2, QueueOfNext
    <3>2. CASE \A d \in Active : s_key[d] # k
      <4>1. (\A d \in Active' : s_key'[d] # k) /\ QueueOf(k) = <<>>
        BY <1>1, <1>2, <3>2, QueueOfFacts
      <4> QED BY <1>12, <2>2, <4>1, QueueOfNext
    <3> QED BY <3>1, <3>2
  <2> QED BY <2>1, <2>2
<1> QED BY <1>12, <1>13

LEMMA InsertInitialisedStep ==
  ASSUME IInv, NEW key \in Key, NEW p \in Pcb, p_semAdd[p] = Null,
         p_semAdd' = [p_semAdd EXCEPT ![p] = key], InsertInitialised(key, p)
  PROVE  /\ IInv'
         /\ \A k \in Key :
              QueueOf(k)' = IF k = key THEN InsertProcQ(QueueOf(k), p) ELSE QueueOf(k)
<1> DEFINE sem == Head(semdFree_h)
           one == InsertProcQ(<<>>, p)
<1>1. /\ Peek(key) = {} /\ semdFree_h # <<>>
      /\ semdFree_h' = Tail(semdFree_h)
      /\ s_key' = [s_key EXCEPT ![sem] = key]
      /\ semd_h' = Activated(key, sem)
      /\ s_procq' = [s_procq EXCEPT ![sem] = one]
  BY DEF InsertInitialised
<1>2. /\ semdFree_h \in Seq(Semd) /\ IsInjective(semdFree_h)
      /\ Range(semdFree_h) = Semd \ Active
  BY DEF IInv, TypeOK, ListOK, Active
<1>3. /\ sem \in Semd \ Active
      /\ Tail(semdFree_h) \in Seq(Semd) /\ IsInjective(Tail(semdFree_h))
      /\ Range(Tail(semdFree_h)) = (Semd \ Active) \ {sem}
  <2>1. /\ sem \in Range(semdFree_h)
        /\ Tail(semdFree_h) \in Seq(Semd)
        /\ Range(semdFree_h) = Range(Tail(semdFree_h)) \cup {sem}
        /\ IsInjective(Tail(semdFree_h)) /\ sem \notin Range(Tail(semdFree_h))
    BY <1>1, <1>2, TailProperties
  <2> QED BY <1>2, <2>1
<1>4. one \in Seq(Pcb) /\ Range(one) = {p} /\ IsInjective(one) /\ one # <<>>
  <2>1. <<>> \in Seq(Pcb) /\ Range(<<>>) = {} /\ IsInjective(<<>>)
    <3>1. DOMAIN <<>> = {} /\ <<>> \in Seq(Pcb)
      OBVIOUS
    <3> QED BY <3>1 DEF Range, IsInjective
  <2>2. one # <<>>
    BY DEF InsertProcQ
  <2> HIDE DEF one
  <2>3. one \in Seq(Pcb) /\ Range(one) = Range(<<>>) \cup {p} /\ IsInjective(one)
    <3> DEFINE none == <<>>
    <3> HIDE DEF none
    <3>1. /\ InsertProcQ(none, p) \in Seq(Pcb)
          /\ Range(InsertProcQ(none, p)) = Range(none) \cup {p}
          /\ IsInjective(InsertProcQ(none, p))
      <4>1. none \in Seq(Pcb) /\ p \notin Range(none) /\ IsInjective(none)
        BY <2>1 DEF none
      <4> QED BY <4>1, InsertProcQProperties
    <3> QED BY <3>1 DEF none, one
  <2> QED BY <2>1, <2>2, <2>3
<1> HIDE DEF sem, one
<1>5. /\ semd_h' \in Seq(Semd)
      /\ Active' = Active \cup {sem}
      /\ \A i, j \in DOMAIN semd_h' : i < j => s_key'[semd_h'[i]] < s_key'[semd_h'[j]]
  BY <1>1, <1>3, ActivatedList
<1>6. \A d \in Active : d \in Semd /\ d # sem /\ p \notin Range(s_procq[d]) /\ s_key[d] # key
  BY <1>1, <1>3, NotBlocked, SortedFacts, PeekExact
<1>7. \A d \in Semd : /\ s_procq'[d] = IF d = sem THEN one ELSE s_procq[d]
                      /\ s_key'[d] = IF d = sem THEN key ELSE s_key[d]
  BY <1>1 DEF IInv, TypeOK
<1>8. \A x \in Pcb : p_semAdd'[x] = IF x = p THEN key ELSE p_semAdd[x]
  BY DEF IInv, TypeOK
<1>9. TypeOK'
  BY <1>1, <1>3, <1>4, <1>5 DEF IInv, TypeOK
<1>10. ListOK'
  <2>1. \A d \in Active : s_procq[d] # <<>>
    BY DEF IInv, ListOK, Active, Range
  <2>2. \A d \in Active' : s_procq'[d] # <<>>
    BY <1>3, <1>4, <1>5, <1>6, <1>7, <2>1
  <2>3. \A i \in DOMAIN semd_h' : s_procq'[semd_h'[i]] # <<>>
    BY <2>2 DEF Active, Range
  <2>4. Range(semdFree_h') = Semd \ Active'
    BY <1>1, <1>3, <1>5
  <2> QED BY <1>1, <1>3, <1>5, <2>3, <2>4 DEF ListOK, Active
<1>11. KeysOK'
  BY <1>3, <1>5, <1>6, <1>7 DEF IInv, KeysOK
<1>12. QueuesOK'
  <2>1. \A d \in Active' : IsInjective(s_procq'[d])
    BY <1>3, <1>4, <1>5, <1>6, <1>7 DEF IInv, QueuesOK
  <2>2. ASSUME NEW d \in Active', NEW x \in Pcb
        PROVE  x \in Range(s_procq'[d]) <=> p_semAdd'[x] = s_key'[d]
    <3>1. CASE d = sem
      <4>1. x # p => p_semAdd[x] # key
        BY <1>6, AslAssumption DEF IInv, QueuesOK
      <4> QED BY <1>3, <1>4, <1>7, <1>8, <3>1, <4>1
    <3>2. CASE d # sem
      <4>1. d \in Active
        BY <1>5, <3>2
      <4>2. x \in Range(s_procq[d]) <=> p_semAdd[x] = s_key[d]
        BY <4>1 DEF IInv, QueuesOK
      <4> QED BY <1>6, <1>7, <1>8, <4>1, <4>2
    <3> QED BY <3>1, <3>2
  <2>3. ASSUME NEW x \in Pcb, p_semAdd'[x] # Null
        PROVE  \E d \in Active' : s_key'[d] = p_semAdd'[x]
    <3>1. CASE x = p
      BY <1>3, <1>5, <1>7, <1>8, <3>1
    <3>2. CASE x # p
      <4>1. PICK d \in Active : s_key[d] = p_semAdd[x]
        BY <1>8, <2>3, <3>2 DEF IInv, QueuesOK
      <4> QED BY <1>5, <1>6, <1>7, <1>8, <3>2, <4>1
    <3> QED BY <3>1, <3>2
  <2> QED BY <2>1, <2>2, <2>3 DEF QueuesOK
<1>13. IInv'
  BY <1>9, <1>10, <1>11, <1>12 DEF IInv
<1>14. ASSUME NEW k \in Key
       PROVE  QueueOf(k)' = IF k = key THEN InsertProcQ(QueueOf(k), p) ELSE QueueOf(k)
  <2>1. CASE k = key
    <3>1. QueueOf(k) = <<>>
      BY <1>6, <2>1, QueueOfFacts
    <3>2. s_key'[sem] = k /\ s_procq'[sem] = InsertProcQ(QueueOf(k), p) /\ sem \in Active'
      BY <1>3, <1>5, <1>7, <2>1, <3>1 DEF one
    <3> QED BY <1>13, <2>1, <3>2, QueueOfNext
  <2>2. CASE k # key
    <3>1. CASE \E d \in Active : s_key[d] = k
      <4>1. PICK d \in Active : s_key[d] = k
        BY <3>1
      <4>2. d \in Active' /\ s_key'[d] = k /\ s_procq'[d] = QueueOf(k)
        BY <1>5, <1>6, <1>7, <4>1, QueueOfFacts
      <4> QED BY <1>13, <2>2, <4>2, QueueOfNext
    <3>2. CASE \A d \in Active : s_key[d] # k
      <4>1. (\A d \in Active' : s_key'[d] # k) /\ QueueOf(k) = <<>>
        BY <1>3, <1>5, <1>6, <1>7, <2>2, <3>2, QueueOfFacts
      <4> QED BY <1>13, <2>2, <4>1, QueueOfNext
    <3> QED BY <3>1, <3>2
  <2> QED BY <2>1, <2>2
<1> QED BY <1>13, <1>14

\* The queue of a descriptor loses process p, and the descriptor is freed when
\* that was the last one.
LEMMA UpdateStep ==
  ASSUME IInv, NEW sem \in Active, NEW p \in Pcb, NEW queue \in Seq(Pcb),
         p \in Range(s_procq[sem]),
         Range(queue) = Range(s_procq[sem]) \ {p}, IsInjective(queue),
         p_semAdd' = [p_semAdd EXCEPT ![p] = Null], UpdateActive(sem, queue)
  PROVE  /\ IInv'
         /\ \A k \in Key : QueueOf(k)' = IF k = s_key[sem] THEN queue ELSE QueueOf(k)
<1> DEFINE w == Without(semd_h, {sem})
           f == <<sem>> \o semdFree_h
<1>1. /\ s_procq' = [s_procq EXCEPT ![sem] = queue]
      /\ s_key' = s_key
      /\ queue = <<>> => semd_h' = w /\ semdFree_h' = f
      /\ queue # <<>> => semd_h' = semd_h /\ semdFree_h' = semdFree_h
  BY DEF UpdateActive
<1>2. sem \in Semd /\ s_key[sem] \in Key /\ Active \subseteq Semd
  BY SortedFacts DEF IInv, KeysOK
<1>3. /\ \A d \in Semd : s_procq'[d] = IF d = sem THEN queue ELSE s_procq[d]
      /\ \A x \in Pcb : p_semAdd'[x] = IF x = p THEN Null ELSE p_semAdd[x]
  BY <1>1 DEF IInv, TypeOK
<1>4. \A d \in Active : /\ s_key[d] = s_key[sem] => d = sem
                        /\ s_key[d] # Null /\ s_key[d] \in Key
  BY SortedFacts, AslAssumption DEF IInv, KeysOK
<1>5. /\ w \in Seq(Semd) /\ Range(w) = Active \ {sem}
      /\ \A i, j \in DOMAIN w : i < j => s_key[w[i]] < s_key[w[j]]
  <2>1. semd_h \in Seq(Semd)
    BY DEF IInv, TypeOK
  <2>2. w \in Seq(Semd) /\ Range(w) = Active \ {sem}
    BY <2>1, WithoutProperties DEF Active
  <2>3. ASSUME NEW i \in DOMAIN w, NEW j \in DOMAIN w, i < j
        PROVE  s_key[w[i]] < s_key[w[j]]
    <3>1. PICK m \in DOMAIN semd_h, n \in DOMAIN semd_h :
            m < n /\ w[i] = semd_h[m] /\ w[j] = semd_h[n]
      BY <2>1, <2>3, WithoutOrder
    <3> QED BY <3>1 DEF IInv, ListOK
  <2> QED BY <2>2, <2>3
<1>6. f \in Seq(Semd) /\ Range(f) = (Semd \ Active) \cup {sem} /\ IsInjective(f)
  <2>1. /\ semdFree_h \in Seq(Semd) /\ IsInjective(semdFree_h)
        /\ Range(semdFree_h) = Semd \ Active
    BY DEF IInv, TypeOK, ListOK, Active
  <2>2. <<sem>> \in Seq(Semd) /\ Range(<<sem>>) = {sem} /\ IsInjective(<<sem>>)
    <3>1. DOMAIN <<sem>> = {1} /\ <<sem>>[1] = sem
      OBVIOUS
    <3> QED BY <1>2, <3>1 DEF Range, IsInjective
  <2>3. Range(<<sem>>) \cap Range(semdFree_h) = {}
    BY <2>1, <2>2
  <2>4. f \in Seq(Semd) /\ Range(f) = Range(<<sem>>) \cup Range(semdFree_h) /\ IsInjective(f)
    <3> DEFINE one == <<sem>>
               old == semdFree_h
    <3>1. /\ one \in Seq(Semd) /\ old \in Seq(Semd)
          /\ IsInjective(one) /\ IsInjective(old) /\ Range(one) \cap Range(old) = {}
      BY <2>1, <2>2, <2>3
    <3>2. f = one \o old
      OBVIOUS
    <3> HIDE DEF f, one, old
    <3>3. f \in Seq(Semd) /\ Range(f) = Range(one) \cup Range(old) /\ IsInjective(f)
      BY <3>1, <3>2, ConcatInjective
    <3> QED BY <3>3 DEF one, old
  <2> QED BY <2>1, <2>2, <2>4
<1> HIDE DEF w, f
<1>7. Active' = IF queue = <<>> THEN Active \ {sem} ELSE Active
  BY <1>1, <1>5 DEF Active
<1>8. TypeOK'
  <2>1. semd_h' \in Seq(Semd) /\ semdFree_h' \in Seq(Semd)
    BY <1>1, <1>5, <1>6 DEF IInv, TypeOK
  <2> QED BY <1>1, <2>1 DEF IInv, TypeOK
<1>9. ListOK'
  <2>1. \A i, j \in DOMAIN semd_h' : i < j => s_key'[semd_h'[i]] < s_key'[semd_h'[j]]
    BY <1>1, <1>5 DEF IInv, ListOK
  <2>2. \A d \in Active : s_procq[d] # <<>>
    BY DEF IInv, ListOK, Active, Range
  <2>3. \A d \in Active' : s_procq'[d] # <<>>
    BY <1>2, <1>3, <1>7, <2>2
  <2>4. \A i \in DOMAIN semd_h' : s_procq'[semd_h'[i]] # <<>>
    BY <2>3 DEF Active, Range
  <2>5. IsInjective(semdFree_h')
    BY <1>1, <1>6 DEF IInv, ListOK
  <2>6. Range(semdFree_h') = Semd \ Active'
    <3>1. Range(semdFree_h) = Semd \ Active
      BY DEF IInv, ListOK, Active
    <3> QED BY <1>1, <1>2, <1>6, <1>7, <3>1
  <2> QED BY <2>1, <2>4, <2>5, <2>6 DEF ListOK, Active
<1>10. KeysOK'
  BY <1>1, <1>4, <1>7 DEF KeysOK
<1>11. QueuesOK'
  <2>1. \A d \in Active' : IsInjective(s_procq'[d])
    BY <1>2, <1>3, <1>7 DEF IInv, QueuesOK
  <2>2. \A d \in Active, x \in Pcb : x \in Range(s_procq[d]) <=> p_semAdd[x] = s_key[d]
    BY DEF IInv, QueuesOK
  <2>3. p_semAdd[p] = s_key[sem]
    BY <2>2
  <2>4. ASSUME NEW d \in Active', NEW x \in Pcb
        PROVE  x \in Range(s_procq'[d]) <=> p_semAdd'[x] = s_key'[d]
    <3>1. d \in Active /\ d \in Semd
      BY <1>2, <1>7
    <3>2. CASE d = sem
      BY <1>1, <1>3, <1>4, <2>2, <3>1, <3>2
    <3>3. CASE d # sem
      <4>1. p_semAdd[p] # s_key[d] /\ s_key[d] # Null
        BY <1>4, <2>3, <3>1, <3>3
      <4> QED BY <1>1, <1>3, <2>2, <3>1, <3>3, <4>1
    <3> QED BY <3>2, <3>3
  <2>5. ASSUME NEW x \in Pcb, p_semAdd'[x] # Null
        PROVE  \E d \in Active' : s_key'[d] = p_semAdd'[x]
    <3>1. x # p /\ p_semAdd'[x] = p_semAdd[x]
      BY <1>3, <2>5
    <3>2. PICK d \in Active : s_key[d] = p_semAdd[x]
      BY <2>5, <3>1 DEF IInv, QueuesOK
    <3>3. d \in Active'
      <4>1. CASE d = sem
        <5>1. x \in Range(queue)
          BY <2>2, <3>1, <3>2, <4>1
        <5>2. queue # <<>>
          BY <5>1 DEF Range
        <5> QED BY <1>7, <5>2
      <4>2. CASE d # sem
        BY <1>7, <4>2
      <4> QED BY <4>1, <4>2
    <3> QED BY <1>1, <3>1, <3>2, <3>3
  <2> QED BY <2>1, <2>4, <2>5 DEF QueuesOK
<1>12. IInv'
  BY <1>8, <1>9, <1>10, <1>11 DEF IInv
<1>13. ASSUME NEW k \in Key
       PROVE  QueueOf(k)' = IF k = s_key[sem] THEN queue ELSE QueueOf(k)
  <2>1. CASE k = s_key[sem] /\ queue # <<>>
    <3>1. sem \in Active' /\ s_key'[sem] = k /\ s_procq'[sem] = queue
      BY <1>1, <1>2, <1>3, <1>7, <2>1
    <3> QED BY <1>12, <2>1, <3>1, QueueOfNext
  <2>2. CASE k = s_key[sem] /\ queue = <<>>
    <3>1. \A d \in Active' : s_key'[d] # k
      BY <1>1, <1>4, <1>7, <2>2
    <3> QED BY <1>12, <2>2, <3>1, QueueOfNext
  <2>3. CASE k # s_key[sem]
    <3>1. CASE \E d \in Active : s_key[d] = k
      <4>1. PICK d \in Active : s_key[d] = k
        BY <3>1
      <4>2. d \in Active' /\ s_key'[d] = k /\ s_procq'[d] = QueueOf(k)
        BY <1>1, <1>2, <1>3, <1>7, <2>3, <4>1, QueueOfFacts
      <4> QED BY <1>12, <2>3, <4>2, QueueOfNext
    <3>2. CASE \A d \in Active : s_key[d] # k
      <4>1. (\A d \in Active' : s_key'[d] # k) /\ QueueOf(k) = <<>>
        BY <1>1, <1>7, <3>2, QueueOfFacts
      <4> QED BY <1>12, <2>3, <4>1, QueueOfNext
    <3> QED BY <3>1, <3>2
  <2> QED BY <2>1, <2>2, <2>3
<1> QED BY <1>12, <1>13

LEMMA RemoveBlockedStep ==
  ASSUME IInv, NEW key \in Key, RemoveBlocked(key)
  PROVE  /\ IInv' /\ QueueOf(key) # <<>>
         /\ \A k \in Key : QueueOf(k)' = IF k = key THEN Tail(QueueOf(k)) ELSE QueueOf(k)
<1>1. PICK sem \in Peek(key) :
        /\ p_semAdd' = [p_semAdd EXCEPT ![Head(s_procq[sem])] = Null]
        /\ UpdateActive(sem, Tail(s_procq[sem]))
  BY DEF RemoveBlocked
<1>2. sem \in Active /\ s_key[sem] = key /\ QueueOf(key) = s_procq[sem]
  BY PeekExact, QueueOfFacts
<1>3. s_procq[sem] \in Seq(Pcb) /\ s_procq[sem] # <<>> /\ IsInjective(s_procq[sem])
  <2>1. sem \in Semd
    BY <1>2, SortedFacts
  <2>2. s_procq[sem] \in Seq(Pcb) /\ IsInjective(s_procq[sem])
    BY <1>2, <2>1 DEF IInv, TypeOK, QueuesOK
  <2>3. s_procq[sem] # <<>>
    BY <1>2 DEF IInv, ListOK, Active, Range
  <2> QED BY <2>2, <2>3
<1> DEFINE q == s_procq[sem]
<1>4. /\ Head(q) \in Range(q) /\ Head(q) \in Pcb /\ Tail(q) \in Seq(Pcb)
      /\ Range(q) = Range(Tail(q)) \cup {Head(q)}
      /\ IsInjective(Tail(q)) /\ Head(q) \notin Range(Tail(q))
  <2> HIDE DEF q
  <2> QED BY <1>3, TailProperties DEF q
<1>5. Range(Tail(q)) = Range(q) \ {Head(q)}
  BY <1>4
<1>6. /\ IInv'
      /\ \A k \in Key : QueueOf(k)' = IF k = s_key[sem] THEN Tail(q) ELSE QueueOf(k)
  <2>1. /\ p_semAdd' = [p_semAdd EXCEPT ![Head(q)] = Null]
        /\ UpdateActive(sem, Tail(q))
    BY <1>1
  <2>2. Head(q) \in Range(s_procq[sem]) /\ Range(Tail(q)) = Range(s_procq[sem]) \ {Head(q)}
    BY <1>4, <1>5
  <2> HIDE DEF q
  <2> QED BY <1>2, <1>4, <2>1, <2>2, UpdateStep
<1> QED BY <1>2, <1>3, <1>6

LEMMA OutBlockedStep ==
  ASSUME IInv, NEW p \in Pcb, OutBlocked(p)
  PROVE  /\ IInv'
         /\ \E k \in Key : p \in Range(QueueOf(k))
         /\ \A k \in Key : QueueOf(k)' = Without(QueueOf(k), {p})
<1>1. /\ p_semAdd[p] \in Key
      /\ p_semAdd' = [p_semAdd EXCEPT ![p] = Null]
  BY DEF OutBlocked, IInv, TypeOK
<1>2. PICK sem \in Peek(p_semAdd[p]) : UpdateActive(sem, Without(s_procq[sem], {p}))
  BY DEF OutBlocked
<1>3. /\ sem \in Active /\ sem \in Semd /\ s_key[sem] = p_semAdd[p]
      /\ QueueOf(p_semAdd[p]) = s_procq[sem]
  BY <1>1, PeekExact, QueueOfFacts, SortedFacts
<1>4. s_procq[sem] \in Seq(Pcb) /\ IsInjective(s_procq[sem]) /\ p \in Range(s_procq[sem])
  BY <1>3 DEF IInv, TypeOK, QueuesOK
<1> DEFINE q == s_procq[sem]
           w == Without(q, {p})
<1>5. w \in Seq(Pcb) /\ Range(w) = Range(q) \ {p} /\ IsInjective(w)
  BY <1>4, WithoutProperties
<1>6. /\ IInv'
      /\ \A k \in Key : QueueOf(k)' = IF k = s_key[sem] THEN w ELSE QueueOf(k)
  <2>1. UpdateActive(sem, w) /\ Range(w) = Range(s_procq[sem]) \ {p}
    BY <1>2, <1>5
  <2> HIDE DEF q, w
  <2> QED BY <1>1, <1>3, <1>4, <1>5, <2>1, UpdateStep
<1>7. ASSUME NEW k \in Key, k # s_key[sem]
      PROVE  Without(QueueOf(k), {p}) = QueueOf(k)
  <2>1. QueueOf(k) \in Seq(Pcb) /\ p \notin Range(QueueOf(k))
    <3>1. CASE \E d \in Active : s_key[d] = k
      <4>1. PICK d \in Active : s_key[d] = k
        BY <3>1
      <4>2. QueueOf(k) = s_procq[d] /\ d \in Semd
        BY <4>1, QueueOfFacts, SortedFacts
      <4> QED BY <1>3, <1>7, <4>1, <4>2 DEF IInv, TypeOK, QueuesOK
    <3>2. CASE \A d \in Active : s_key[d] # k
      <4>1. QueueOf(k) = <<>>
        BY <3>2, QueueOfFacts
      <4> QED BY <4>1 DEF Range
    <3> QED BY <3>1, <3>2
  <2> QED BY <2>1, WithoutNothing
<1> QED BY <1>1, <1>3, <1>4, <1>6, <1>7

-----------------------------------------------------------------------------
(* The inductive invariant                                                 *)

LEMMA InitIInv == Init => IInv
<1> SUFFICES ASSUME Init PROVE IInv
  OBVIOUS
<1>1. DOMAIN semd_h = {} /\ semd_h \in Seq(Semd)
  BY DEF Init
<1>2. Active = {}
  BY <1>1 DEF Active, Range
<1>3. /\ semdFree_h \in [1 .. Cardinality(Semd) -> Semd] /\ IsInjective(semdFree_h)
      /\ Cardinality(Semd) \in Nat
  BY AslAssumption, FS_CardinalityType DEF Init
<1>4. Range(semdFree_h) = Semd
  <2> DEFINE c == Cardinality(Semd)
  <2>1. IsFiniteSet(1 .. c) /\ Cardinality(1 .. c) = Cardinality(Semd)
    BY <1>3, FS_Interval
  <2>2. semdFree_h \in Injection(1 .. c, Semd)
    BY <1>3 DEF Injection, IsInjective
  <2> HIDE DEF c
  <2>3. semdFree_h \in Surjection(1 .. c, Semd)
    BY <2>1, <2>2, AslAssumption, FS_Injection
  <2> QED BY <2>3 DEF Surjection, Range
<1>5. semdFree_h \in Seq(Semd)
  BY <1>3, SeqDef
<1>6. TypeOK
  BY <1>1, <1>5 DEF Init, TypeOK
<1>7. ListOK
  BY <1>1, <1>2, <1>3, <1>4 DEF ListOK, Active
<1>8. KeysOK /\ QueuesOK
  BY <1>2 DEF Init, KeysOK, QueuesOK
<1> QED BY <1>6, <1>7, <1>8 DEF IInv

LEMMA InsertBlockedStep ==
  ASSUME IInv, NEW key \in Key, NEW p \in Pcb, InsertBlocked(key, p)
  PROVE  /\ IInv'
         /\ \A k \in Key :
              QueueOf(k)' = IF k = key THEN InsertProcQ(QueueOf(k), p) ELSE QueueOf(k)
<1>1. CASE InsertActive(key, p)
  BY <1>1, InsertActiveStep DEF InsertBlocked
<1>2. CASE InsertInitialised(key, p)
  BY <1>2, InsertInitialisedStep DEF InsertBlocked
<1> QED BY <1>1, <1>2 DEF InsertBlocked

LEMMA NextIInv == IInv /\ [Next]_vars => IInv'
<1> SUFFICES ASSUME IInv, [Next]_vars PROVE IInv'
  OBVIOUS
<1>1. ASSUME NEW key \in Key, NEW p \in Pcb, InsertBlocked(key, p) PROVE IInv'
  BY <1>1, InsertBlockedStep
<1>2. ASSUME NEW key \in Key, RemoveBlocked(key) PROVE IInv'
  BY <1>2, RemoveBlockedStep
<1>3. ASSUME NEW p \in Pcb, OutBlocked(p) PROVE IInv'
  BY <1>3, OutBlockedStep
<1>4. CASE UNCHANGED vars
  BY <1>4 DEF vars, IInv, TypeOK, ListOK, KeysOK, QueuesOK, Active
<1> QED BY <1>1, <1>2, <1>3, <1>4 DEF Next

\* The invariant that the theorems below follow from: the list is sorted, and
\* p_semAdd and the queues of the active descriptors say the same.
THEOREM IInvHolds == Spec => []IInv
BY InitIInv, NextIInv, PTL DEF Spec

-----------------------------------------------------------------------------
(* What it says                                                            *)

\* The links of the two lists, the keys and p_semAdd have the types that Asl
\* declares: p_semAdd is a key and never a descriptor.
THEOREM TypeCorrect == Spec => []TypeOK
<1>1. IInv => TypeOK
  BY DEF IInv
<1> QED BY <1>1, IInvHolds, PTL

\* However descriptors are freed and used again for other keys, the list stays
\* sorted, every active descriptor has a process in its queue, and every
\* descriptor is active or free.
THEOREM ListStaysSorted == Spec => []ListOK
<1>1. IInv => ListOK
  BY DEF IInv
<1> QED BY <1>1, IInvHolds, PTL

\* p_semAdd names the queue that the process is in, and is NULL in no queue:
\* outBlocked, which kills rely on, looks in the right one.
THEOREM SemAddNamesQueue == Spec => []SemAddExact
<1>1. IInv => SemAddExact
  <2> SUFFICES ASSUME IInv, NEW p \in Pcb, NEW key \in Key
               PROVE  p_semAdd[p] = key <=> p \in Range(QueueOf(key))
    BY DEF SemAddExact
  <2>1. CASE \E d \in Active : s_key[d] = key
    BY <2>1, QueueOfFacts DEF IInv, QueuesOK
  <2>2. CASE \A d \in Active : s_key[d] # key
    <3>1. QueueOf(key) = <<>>
      BY <2>2, QueueOfFacts
    <3>2. p \notin Range(QueueOf(key))
      BY <3>1 DEF Range
    <3>3. p_semAdd[p] # key
      BY <2>2, AslAssumption DEF IInv, QueuesOK
    <3> QED BY <3>2, <3>3
  <2> QED BY <2>1, <2>2
<1> QED BY <1>1, IInvHolds, PTL

\* A process that is in no queue finds a descriptor: the others are in fewer
\* queues than there are descriptors, so that insertBlocked does not fail.
THEOREM DescriptorsAlwaysSuffice == Spec => []DescriptorsSuffice
<1>1. IInv => DescriptorsSuffice
  <2> SUFFICES ASSUME IInv, NEW p \in Pcb, p_semAdd[p] = Null, NEW key \in Key,
                      semdFree_h = <<>>
               PROVE  FALSE
    BY DEF DescriptorsSuffice
  <2>1. Active = Semd
    <3>1. Range(semdFree_h) = {} /\ Range(semdFree_h) = Semd \ Active
      BY DEF IInv, ListOK, Active, Range
    <3> QED BY <3>1, SortedFacts
  <2>2. \A d \in Semd : \E x \in Pcb \ {p} : p_semAdd[x] = s_key[d]
    <3> SUFFICES ASSUME NEW d \in Semd
                 PROVE  \E x \in Pcb \ {p} : p_semAdd[x] = s_key[d]
      OBVIOUS
    <3>1. s_procq[d] \in Seq(Pcb) /\ s_procq[d] # <<>>
      BY <2>1 DEF IInv, TypeOK, ListOK, Active, Range
    <3>2. Head(s_procq[d]) \in Pcb /\ Head(s_procq[d]) \in Range(s_procq[d])
      <4> DEFINE q == s_procq[d]
      <4> HIDE DEF q
      <4>1. q # <<>> => Head(q) \in Pcb /\ Head(q) \in Range(q)
        BY <3>1, TailProperties DEF q
      <4> QED BY <3>1, <4>1 DEF q
    <3>3. p \notin Range(s_procq[d])
      BY <2>1, NotBlocked
    <3> QED BY <2>1, <3>2, <3>3 DEF IInv, QueuesOK
  <2> DEFINE g == [d \in Semd |-> CHOOSE x \in Pcb \ {p} : p_semAdd[x] = s_key[d]]
  <2>3. \A d \in Semd : g[d] \in Pcb \ {p} /\ p_semAdd[g[d]] = s_key[d]
    BY <2>2
  <2>4. g \in [Semd -> Pcb \ {p}]
    BY <2>3
  <2> HIDE DEF g
  <2>5. g \in Injection(Semd, Pcb \ {p})
    <3>1. \A d, e \in Semd : g[d] = g[e] => d = e
      BY <2>1, <2>3, SortedFacts
    <3> QED BY <2>4, <3>1 DEF Injection, IsInjective
  <2>6. /\ IsFiniteSet(Pcb \ {p})
        /\ Cardinality(Pcb \ {p}) = Cardinality(Pcb) - 1
        /\ Cardinality(Pcb) \in Nat
    BY AslAssumption, FS_RemoveElement, FS_CardinalityType
  <2>7. Cardinality(Semd) <= Cardinality(Pcb \ {p})
    BY <2>5, <2>6, FS_Injection
  <2> QED BY <2>6, <2>7, AslAssumption
<1> QED BY <1>1, IInvHolds, PTL

-----------------------------------------------------------------------------
(* Asl implements SemQueues                                                *)

\* The operators on queues that SemQueues has are those of Asl.
LEMMA SameOperators ==
  /\ \A q, p : Queues!InsertProcQ(q, p) = InsertProcQ(q, p)
  /\ \A q, D : Queues!Without(q, D) = Without(q, D)
  /\ \A q : Queues!Range(q) = Range(q)
<1>0. \A S : Queues!Cardinality(S) = Cardinality(S)
  BY DEF Queues!Cardinality, Cardinality
<1>1. \A q, D : Queues!Kept(q, D) = Kept(q, D)
  BY DEF Queues!Kept, Kept
<1>2. ASSUME NEW q, NEW D, NEW i
      PROVE  Queues!Rank(q, D, i) = Rank(q, D, i)
  <2>1. {j \in Queues!Kept(q, D) : j <= i} = {j \in Kept(q, D) : j <= i}
    BY <1>1
  <2> QED BY <2>1, <1>0 DEF Queues!Rank, Rank
<1>3. ASSUME NEW q, NEW D
      PROVE  Queues!Without(q, D) = Without(q, D)
  <2> DEFINE There(n) == CHOOSE i \in Queues!Kept(q, D) : Queues!Rank(q, D, i) = n
  <2> DEFINE Here(n) == CHOOSE i \in Kept(q, D) : Rank(q, D, i) = n
  <2>1. \A n : There(n) = Here(n)
    BY <1>1, <1>2
  <2>2. /\ Queues!Without(q, D)
             = [n \in 1 .. Queues!Cardinality(Queues!Kept(q, D)) |-> q[There(n)]]
        /\ Without(q, D) = [n \in 1 .. Cardinality(Kept(q, D)) |-> q[Here(n)]]
    BY DEF Queues!Without, Without
  <2> HIDE DEF There, Here
  <2>3. Queues!Cardinality(Queues!Kept(q, D)) = Cardinality(Kept(q, D))
    BY <1>0, <1>1
  <2> QED BY <2>1, <2>2, <2>3
<1> QED BY <1>3 DEF Queues!InsertProcQ, InsertProcQ, Queues!Range, Range

\* The view of the list as a queue for every key.
View == [k \in Key |-> QueueOf(k)]

LEMMA BlockedIsView ==
  Queues!Blocked = UNION {Range(QueueOf(k)) : k \in Key}
<1>1. \A k \in Key : Queues!Range(View[k]) = Range(QueueOf(k))
  BY SameOperators DEF View
<1> QED BY <1>1 DEF Queues!Blocked, View

LEMMA NextMaps ==
  ASSUME IInv, [Next]_vars
  PROVE  [Queues!Next]_([key \in Key |-> QueueOf(key)])
<1>1. ASSUME NEW key \in Key, NEW p \in Pcb, InsertBlocked(key, p)
      PROVE  Queues!InsertBlocked(key, p)
  <2>1. \A k \in Key :
          QueueOf(k)' = IF k = key THEN InsertProcQ(QueueOf(k), p) ELSE QueueOf(k)
    BY <1>1, InsertBlockedStep
  <2>2. p \notin Queues!Blocked
    <3>1. \A d \in Active : p \notin Range(s_procq[d])
      BY <1>1, NotBlocked DEF InsertBlocked
    <3>2. \A k \in Key : p \notin Range(QueueOf(k))
      BY <3>1, QueueOfFacts DEF Range
    <3> QED BY <3>2, BlockedIsView
  <2>3. View' = [View EXCEPT ![key] = Queues!InsertProcQ(@, p)]
    BY <2>1, SameOperators DEF View
  <2> QED BY <2>2, <2>3 DEF Queues!InsertBlocked, View
<1>2. ASSUME NEW key \in Key, RemoveBlocked(key)
      PROVE  Queues!RemoveBlocked(key)
  <2>1. /\ QueueOf(key) # <<>>
        /\ \A k \in Key : QueueOf(k)' = IF k = key THEN Tail(QueueOf(k)) ELSE QueueOf(k)
    BY <1>2, RemoveBlockedStep
  <2>2. View' = [View EXCEPT ![key] = Tail(@)] /\ View[key] # <<>>
    BY <2>1 DEF View
  <2> QED BY <2>2 DEF Queues!RemoveBlocked, View
<1>3. ASSUME NEW p \in Pcb, OutBlocked(p)
      PROVE  Queues!OutBlocked(p)
  <2>1. /\ \E k \in Key : p \in Range(QueueOf(k))
        /\ \A k \in Key : QueueOf(k)' = Without(QueueOf(k), {p})
    BY <1>3, OutBlockedStep
  <2>2. p \in Queues!Blocked
    BY <2>1, BlockedIsView
  <2>3. View' = [k \in Key |-> Queues!Without(View[k], {p})]
    BY <2>1, SameOperators DEF View
  <2> QED BY <2>2, <2>3 DEF Queues!OutBlocked, View
<1>4. CASE UNCHANGED vars
  <2>1. \A k \in Key : QueueOf(k)' = QueueOf(k)
    BY <1>4 DEF vars, QueueOf
  <2> QED BY <2>1 DEF View
<1> QED BY <1>1, <1>2, <1>3, <1>4 DEF Next, Queues!Next

\* What asl.c does with its list of descriptors is, for its callers, a FIFO
\* queue for every semaphore: an operation changes the queue of its key and no
\* other.  This is what Nucleus assumes.
THEOREM AslImplementsSemQueues == Spec => ImplementsSemQueues
<1>1. Init => Queues!Init
  <2> SUFFICES ASSUME Init PROVE Queues!Init
    OBVIOUS
  <2>1. Active = {} /\ IInv
    BY InitIInv DEF Init, Active, Range
  <2>2. \A k \in Key : QueueOf(k) = <<>>
    BY <2>1, QueueOfFacts
  <2> QED BY <2>2 DEF Queues!Init
<1>2. IInv /\ [Next]_vars => [Queues!Next]_([key \in Key |-> QueueOf(key)])
  BY NextMaps
<1> QED BY <1>1, <1>2, IInvHolds, PTL DEF Spec, ImplementsSemQueues, Queues!Spec

=============================================================================
