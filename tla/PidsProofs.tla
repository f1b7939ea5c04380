----------------------------- MODULE PidsProofs -----------------------------
(***************************************************************************)
(* Proofs about the process identifiers of src/phase1/pcb.c, for any size  *)
(* of the process table and any width of pid_t: allocPcb never gives a pid *)
(* that is in use, the list stays sorted so that getProcessByPid finds     *)
(* every process, and pids are given in cyclic order.                      *)
(*                                                                         *)
(* There are more pids than processes, so that the loop of _generatePid    *)
(* that looks for an unused one ends (FirstUnusedFacts); what it returns   *)
(* is not in the list, and _addPid finds the place that keeps it sorted.   *)
(***************************************************************************)
EXTENDS Pids, QueueProofs

Live == Pcb \ free

Sorted ==
  \A i, j \in DOMAIN pid_list : i < j => p_pid[pid_list[i]] < p_pid[pid_list[j]]

IInv == TypeOK /\ Range(pid_list) = Live /\ Sorted

\* A pid that names a process.
Used(pid) == \E p \in Live : p_pid[p] = pid

-----------------------------------------------------------------------------
(* The search and the sorted list                                          *)

LEMMA Constants ==
  /\ PidBound \in Nat \ {0} /\ PidBound - 1 \in Nat /\ 1 < PidBound
  /\ IsFiniteSet(Pcb) /\ Cardinality(Pcb) \in Nat /\ Cardinality(Pcb) < PidBound
<1>1. Cardinality(Pcb) \in Nat
  BY PidsAssumption, FS_CardinalityType
<1> QED BY <1>1, PidsAssumption

LEMMA ListFacts ==
  ASSUME IInv
  PROVE  /\ Len(pid_list) \in Nat /\ DOMAIN pid_list = 1 .. Len(pid_list)
         /\ \A i \in 1 .. Len(pid_list) : pid_list[i] \in Live
         /\ \A p \in Live : \E i \in 1 .. Len(pid_list) : pid_list[i] = p
         /\ \A p \in Pcb : p_pid[p] \in Pid /\ p_pid[p] \in Int
<1>1. Len(pid_list) \in Nat /\ DOMAIN pid_list = 1 .. Len(pid_list)
  BY DEF IInv, TypeOK
<1>2. /\ \A i \in 1 .. Len(pid_list) : pid_list[i] \in Live
      /\ \A p \in Live : \E i \in 1 .. Len(pid_list) : pid_list[i] = p
  BY <1>1 DEF IInv, Range
<1>3. \A p \in Pcb : p_pid[p] \in Pid /\ p_pid[p] \in Int
  BY Constants DEF IInv, TypeOK, Pid
<1> QED BY <1>1, <1>2, <1>3

\* No pid is in the list twice.
LEMMA PidsDiffer ==
  ASSUME IInv
  PROVE  /\ \A i, j \in 1 .. Len(pid_list) :
              p_pid[pid_list[i]] = p_pid[pid_list[j]] => i = j
         /\ \A p, q \in Live : p_pid[p] = p_pid[q] => p = q
<1>1. ASSUME NEW i \in 1 .. Len(pid_list), NEW j \in 1 .. Len(pid_list),
             p_pid[pid_list[i]] = p_pid[pid_list[j]]
      PROVE  i = j
  <2>1. i \in DOMAIN pid_list /\ j \in DOMAIN pid_list
    BY ListFacts
  <2>2. p_pid[pid_list[i]] \in Int /\ p_pid[pid_list[j]] \in Int
    BY ListFacts DEF Live
  <2>3. ~(i < j) /\ ~(j < i)
    BY <1>1, <2>1, <2>2 DEF IInv, Sorted
  <2> QED BY <2>3
<1>2. ASSUME NEW p \in Live, NEW q \in Live, p_pid[p] = p_pid[q]
      PROVE  p = q
  <2>1. PICK i \in 1 .. Len(pid_list) : pid_list[i] = p
    BY ListFacts
  <2>2. PICK j \in 1 .. Len(pid_list) : pid_list[j] = q
    BY ListFacts
  <2> QED BY <1>1, <1>2, <2>1, <2>2
<1> QED BY <1>1, <1>2

\* The walk that gives up at a greater pid finds whoever has the pid.
LEMMA SearchExact ==
  ASSUME IInv, NEW pid \in Int
  PROVE  ProcessByPid(pid) = {p \in Live : p_pid[p] = pid}
<1>1. ASSUME NEW p \in ProcessByPid(pid)
      PROVE  p \in Live /\ p_pid[p] = pid
  BY ListFacts DEF ProcessByPid, Positions
<1>2. ASSUME NEW p \in Live, p_pid[p] = pid
      PROVE  p \in ProcessByPid(pid)
  <2>1. PICK i \in 1 .. Len(pid_list) : pid_list[i] = p
    BY ListFacts
  <2>2. ASSUME NEW j \in 1 .. i - 1
        PROVE  p_pid[pid_list[j]] <= pid /\ p_pid[pid_list[j]] # pid
    <3>1. i \in DOMAIN pid_list /\ j \in DOMAIN pid_list /\ j < i
      BY <2>1, ListFacts
    <3>2. p_pid[pid_list[j]] \in Int
      BY <3>1, ListFacts DEF Live
    <3>3. p_pid[pid_list[j]] < pid
      BY <1>2, <2>1, <3>1 DEF IInv, Sorted
    <3> QED BY <3>2, <3>3
  <2>3. i \in Positions(pid)
    BY <1>2, <2>1, <2>2, ListFacts DEF Positions
  <2> QED BY <2>1, <2>3 DEF ProcessByPid
<1> QED BY <1>1, <1>2

LEMMA UnusedEmpty ==
  ASSUME IInv, NEW pid \in Int
  PROVE  ProcessByPid(pid) = {} <=> ~Used(pid)
BY SearchExact DEF Used

-----------------------------------------------------------------------------
(* The loop of _generatePid                                                *)

\* From any start the loop meets every pid.
LEMMA EveryPidMet ==
  ASSUME NEW start \in Pid, NEW pid \in Pid
  PROVE  \E k \in 0 .. PidBound - 1 : (start + k) % PidBound = pid
<1> DEFINE k == (pid - start) % PidBound
<1>1. start \in Int /\ pid \in Int /\ pid - start \in Int /\ pid \in 0 .. PidBound - 1
  BY Constants DEF Pid
<1>2. k \in 0 .. PidBound - 1 /\ \E q \in Int : pid - start = PidBound * q + k
  BY <1>1, Constants, RemainderFacts
<1> HIDE DEF k
<1>3. PICK q \in Int : pid - start = PidBound * q + k
  BY <1>2
<1>4. start + k = PidBound * (-q) + pid /\ start + k \in Int /\ -q \in Int
  <2>1. PidBound * (-q) = -(PidBound * q) /\ PidBound * q \in Int
    BY Constants
  <2> QED BY <1>1, <1>2, <1>3, <2>1
<1>5. (start + k) % PidBound = pid
  <2> DEFINE sum == start + k
  <2>1. sum \in Int /\ sum = PidBound * (-q) + pid
    BY <1>4
  <2> HIDE DEF sum
  <2>2. sum % PidBound = pid
    BY <1>1, <1>4, <2>1, Constants, RemainderUnique
  <2> QED BY <2>2 DEF sum
<1> QED BY <1>2, <1>5

\* Not every pid is used: there are more of them than processes.
LEMMA SomePidUnused ==
  ASSUME IInv
  PROVE  \E pid \in Pid : ~Used(pid)
<1> SUFFICES ASSUME \A pid \in Pid : Used(pid)
             PROVE  FALSE
  OBVIOUS
<1> DEFINE holder == [pid \in Pid |-> CHOOSE p \in Live : p_pid[p] = pid]
<1>1. \A pid \in Pid : holder[pid] \in Pcb /\ p_pid[holder[pid]] = pid
  BY DEF Used, Live
<1>2. holder \in [Pid -> Pcb]
  BY <1>1
<1> HIDE DEF holder
<1>3. \A a, b \in Pid : holder[a] = holder[b] => a = b
  BY <1>1
<1>4. holder \in Injection(Pid, Pcb)
  BY <1>2, <1>3 DEF Injection, IsInjective
<1>5. Cardinality(Pid) = PidBound /\ IsFiniteSet(Pid)
  <2>1. /\ 0 \in Int /\ PidBound - 1 \in Int /\ 0 <= PidBound - 1
        /\ (PidBound - 1) - 0 + 1 = PidBound
    BY Constants
  <2> QED BY <2>1, FS_Interval DEF Pid
<1>6. Cardinality(Pid) <= Cardinality(Pcb)
  BY <1>4, Constants, FS_Injection
<1> QED BY <1>5, <1>6, Constants

\* What the loop stops at, and that it has met only pids in use before.
LEMMA FirstUnusedFacts ==
  ASSUME IInv, NEW start \in Pid
  PROVE  \E d \in 0 .. PidBound - 1 :
           /\ FirstUnused(start) = (start + d) % PidBound
           /\ ~Used((start + d) % PidBound)
           /\ \A j \in 0 .. d - 1 : Used((start + j) % PidBound)
<1> DEFINE T == {k \in 0 .. PidBound - 1 : ProcessByPid((start + k) % PidBound) = {}}
           Stop(k) == /\ ProcessByPid((start + k) % PidBound) = {}
                      /\ \A j \in 0 .. k - 1 : ProcessByPid((start + j) % PidBound) # {}
<1>1. \A k \in 0 .. PidBound - 1 : (start + k) % PidBound \in Pid /\ (start + k) % PidBound \in Int
  <2>1. ASSUME NEW k \in 0 .. PidBound - 1
        PROVE  (start + k) % PidBound \in Pid /\ (start + k) % PidBound \in Int
    <3>1. start + k \in Int
      BY Constants DEF Pid
    <3>2. (start + k) % PidBound \in 0 .. PidBound - 1
      BY <3>1, Constants, RemainderFacts
    <3> QED BY <3>2, Constants DEF Pid
  <2> QED BY <2>1
<1>2. \A k \in 0 .. PidBound - 1 :
        ProcessByPid((start + k) % PidBound) = {} <=> ~Used((start + k) % PidBound)
  BY <1>1, UnusedEmpty
<1>3. \E k \in 0 .. PidBound - 1 : Stop(k)
  <2>1. T # {}
    <3>1. PICK pid \in Pid : ~Used(pid)
      BY SomePidUnused
    <3>2. PICK k \in 0 .. PidBound - 1 : (start + k) % PidBound = pid
      BY EveryPidMet
    <3>3. k \in T
      BY <1>2, <3>1, <3>2
    <3> QED BY <3>3
  <2>2. T \in SUBSET (0 .. PidBound - 1) /\ PidBound - 1 \in Nat
    BY Constants
  <2>3. PICK m \in T : \A k \in T : m <= k
    <3> HIDE DEF T
    <3> QED BY <2>1, <2>2, LeastElement
  <2>4. ASSUME NEW j \in 0 .. m - 1
        PROVE  ProcessByPid((start + j) % PidBound) # {}
    <3>1. j \in 0 .. PidBound - 1 /\ ~(m <= j)
      BY <2>2, <2>3, Constants
    <3> QED BY <2>3, <3>1
  <2> QED BY <2>3, <2>4
<1> DEFINE d == CHOOSE k \in 0 .. PidBound - 1 : Stop(k)
<1>4. d \in 0 .. PidBound - 1 /\ Stop(d)
  <2> HIDE DEF Stop
  <2> QED BY <1>3
<1>5. FirstUnused(start) = (start + d) % PidBound
  BY DEF FirstUnused
<1> HIDE DEF d
<1>6. \A j \in 0 .. d - 1 : j \in 0 .. PidBound - 1
  BY <1>4, Constants
<1> QED BY <1>2, <1>4, <1>5, <1>6

\* The pid at which _generatePid starts.
Start == IF curr_pid = 0 THEN 1 ELSE curr_pid

LEMMA StartFacts ==
  ASSUME IInv
  PROVE  Start \in Pid /\ Start \in Int /\ Start # 0
BY Constants DEF Start, IInv, TypeOK, Pid

\* What _generatePid returns: an unused pid, and all those from start up to it
\* are in use.
LEMMA GeneratedFacts ==
  ASSUME IInv
  PROVE  /\ GeneratedPid \in Pid /\ GeneratedPid \in Int
         /\ ~Used(GeneratedPid)
         /\ \E d \in 0 .. PidBound - 1 :
              /\ GeneratedPid = (Start + d) % PidBound
              /\ \A j \in 0 .. d - 1 : Used((Start + j) % PidBound)
<1>1. CASE pid_list # <<>> /\ p_pid[pid_list[Len(pid_list)]] >= Start
  <2>1. GeneratedPid = FirstUnused(Start)
    BY <1>1 DEF GeneratedPid, Start
  <2>2. PICK d \in 0 .. PidBound - 1 :
          /\ FirstUnused(Start) = (Start + d) % PidBound
          /\ ~Used((Start + d) % PidBound)
          /\ \A j \in 0 .. d - 1 : Used((Start + j) % PidBound)
    BY StartFacts, FirstUnusedFacts
  <2>3. (Start + d) % PidBound \in Pid /\ (Start + d) % PidBound \in Int
    <3>1. Start + d \in Int
      BY StartFacts
    <3>2. (Start + d) % PidBound \in 0 .. PidBound - 1
      BY <3>1, Constants, RemainderFacts
    <3> QED BY <3>2, Constants DEF Pid
  <2> QED BY <2>1, <2>2, <2>3
<1>2. CASE ~(pid_list # <<>> /\ p_pid[pid_list[Len(pid_list)]] >= Start)
  <2>1. GeneratedPid = Start
    BY <1>2 DEF GeneratedPid, Start
  <2>2. ASSUME NEW p \in Live
        PROVE  p_pid[p] # Start
    <3>1. PICK i \in 1 .. Len(pid_list) : pid_list[i] = p
      BY ListFacts
    <3>2. /\ Len(pid_list) \in Nat /\ Len(pid_list) \in 1 .. Len(pid_list)
          /\ i \in DOMAIN pid_list /\ Len(pid_list) \in DOMAIN pid_list
      BY <3>1, ListFacts
    <3>3. /\ p_pid[pid_list[Len(pid_list)]] \in Int /\ p_pid[p] \in Int
          /\ pid_list # <<>>
      BY <3>2, ListFacts DEF Live
    <3>4. p_pid[pid_list[Len(pid_list)]] < Start
      BY <1>2, <3>3, StartFacts
    <3>5. i = Len(pid_list) \/ p_pid[p] < p_pid[pid_list[Len(pid_list)]]
      BY <3>1, <3>2 DEF IInv, Sorted
    <3> QED BY <3>1, <3>3, <3>4, <3>5, StartFacts
  <2>3. (Start + 0) % PidBound = Start
    <3>1. Start + 0 = PidBound * 0 + Start /\ Start + 0 \in Int
      BY StartFacts, Constants
    <3>2. Start \in 0 .. PidBound - 1
      BY StartFacts DEF Pid
    <3> QED BY <3>1, <3>2, Constants, RemainderUnique
  <2>4. 0 \in 0 .. PidBound - 1 /\ \A j \in 0 .. 0 - 1 : FALSE
    BY Constants
  <2> QED BY <2>1, <2>2, <2>3, <2>4, StartFacts DEF Used
<1> QED BY <1>1, <1>2

-----------------------------------------------------------------------------
(* The steps                                                               *)

\* The place that _addPid finds: behind the smaller pids.
LEMMA WithPidFacts ==
  ASSUME IInv, NEW p, NEW pid \in Int, ~Used(pid)
  PROVE  \E last \in 0 .. Len(pid_list) :
           /\ WithPid(p, pid) = LinkedIn(pid_list, p, last)
           /\ \A i \in 1 .. last : p_pid[pid_list[i]] < pid
           /\ \A i \in last + 1 .. Len(pid_list) : pid < p_pid[pid_list[i]]
<1> DEFINE smaller == {i \in DOMAIN pid_list : p_pid[pid_list[i]] <= pid}
           last == IF smaller = {} THEN 0
                   ELSE CHOOSE i \in smaller : \A j \in smaller : j <= i
<1>1. /\ Len(pid_list) \in Nat /\ DOMAIN pid_list = 1 .. Len(pid_list)
      /\ smaller \in SUBSET (0 .. Len(pid_list))
  BY ListFacts
<1>2. \A i \in 1 .. Len(pid_list) :
        p_pid[pid_list[i]] \in Int /\ p_pid[pid_list[i]] # pid
  BY ListFacts DEF Live, Used
<1>3. WithPid(p, pid) = LinkedIn(pid_list, p, last)
  BY DEF WithPid, LinkedIn
<1>4. \/ smaller = {} /\ last = 0
      \/ last \in smaller /\ \A j \in smaller : j <= last
  <2>1. CASE smaller = {}
    BY <2>1
  <2>2. CASE smaller # {}
    <3>1. last = CHOOSE i \in smaller : \A j \in smaller : j <= i
      BY <2>2
    <3>2. \E i \in smaller : \A j \in smaller : j <= i
      <4> HIDE DEF smaller
      <4> QED BY <1>1, <2>2, GreatestElement
    <3> HIDE DEF smaller, last
    <3> QED BY <3>1, <3>2
  <2> QED BY <2>1, <2>2
<1>5. last \in 0 .. Len(pid_list)
  <2>1. \A j \in smaller : j \in 0 .. Len(pid_list)
    BY <1>1
  <2>2. 0 \in 0 .. Len(pid_list)
    BY <1>1
  <2> HIDE DEF smaller, last
  <2> QED BY <1>4, <2>1, <2>2
<1>6. \A i \in DOMAIN pid_list : i \in smaller <=> p_pid[pid_list[i]] <= pid
  OBVIOUS
<1> HIDE DEF smaller, last
<1>7. ASSUME NEW i \in 1 .. last
      PROVE  p_pid[pid_list[i]] < pid
  <2>1. last \in smaller /\ i \in DOMAIN pid_list /\ last \in DOMAIN pid_list
    BY <1>1, <1>4, <1>5
  <2>2. p_pid[pid_list[last]] <= pid
    BY <1>6, <2>1
  <2>3. i = last \/ p_pid[pid_list[i]] < p_pid[pid_list[last]]
    <3>1. i = last \/ i < last
      BY <1>5
    <3> QED BY <2>1, <3>1 DEF IInv, Sorted
  <2>4. /\ p_pid[pid_list[i]] \in Int /\ p_pid[pid_list[i]] # pid
        /\ p_pid[pid_list[last]] \in Int
    BY <1>1, <1>2, <2>1
  <2> QED BY <2>2, <2>3, <2>4
<1>8. ASSUME NEW i \in last + 1 .. Len(pid_list)
      PROVE  pid < p_pid[pid_list[i]]
  <2>1. i \in DOMAIN pid_list /\ i \notin smaller
    BY <1>1, <1>4, <1>5
  <2>2. p_pid[pid_list[i]] \in Int
    BY <1>1, <1>2, <2>1
  <2> QED BY <1>6, <2>1, <2>2
<1> QED BY <1>3, <1>5, <1>7, <1>8

LEMMA AllocStep ==
  ASSUME IInv, NEW p \in Pcb, AllocPcb(p)
  PROVE  IInv'
<1>1. /\ p \in free /\ free' = free \ {p}
      /\ p_pid' = [p_pid EXCEPT ![p] = GeneratedPid]
      /\ curr_pid' = Successor(GeneratedPid)
      /\ pid_list' = WithPid(p, GeneratedPid)
  BY DEF AllocPcb
<1>2. GeneratedPid \in Pid /\ GeneratedPid \in Int /\ ~Used(GeneratedPid)
  BY GeneratedFacts
<1>3. p \notin Live /\ Live' = Live \cup {p}
  BY <1>1 DEF Live
<1>4. \A x \in Pcb : p_pid'[x] = IF x = p THEN GeneratedPid ELSE p_pid[x]
  BY <1>1 DEF IInv, TypeOK
<1>5. PICK last \in 0 .. Len(pid_list) :
        /\ WithPid(p, GeneratedPid) = LinkedIn(pid_list, p, last)
        /\ \A i \in 1 .. last : p_pid[pid_list[i]] < GeneratedPid
        /\ \A i \in last + 1 .. Len(pid_list) : GeneratedPid < p_pid[pid_list[i]]
  BY <1>2, WithPidFacts
<1>6. \A i \in 1 .. Len(pid_list) :
        p_pid'[pid_list[i]] = p_pid[pid_list[i]] /\ p_pid'[pid_list[i]] \in Int
  BY <1>3, <1>4, ListFacts DEF Live
<1>7. p_pid'[p] = GeneratedPid /\ p_pid'[p] \in Int
  BY <1>2, <1>4
<1>8. \A i, j \in 1 .. Len(pid_list) : i < j => p_pid'[pid_list[i]] < p_pid'[pid_list[j]]
  BY <1>6, ListFacts DEF IInv, Sorted
<1>9. /\ \A i \in 1 .. last : p_pid'[pid_list[i]] < p_pid'[p]
      /\ \A i \in last + 1 .. Len(pid_list) : p_pid'[p] < p_pid'[pid_list[i]]
  <2>1. \A i \in 1 .. last : i \in 1 .. Len(pid_list)
    BY <1>5, ListFacts
  <2>2. \A i \in last + 1 .. Len(pid_list) : i \in 1 .. Len(pid_list)
    BY <1>5, ListFacts
  <2> QED BY <1>5, <1>6, <1>7, <2>1, <2>2
<1> DEFINE h == pid_list
           r == pid_list'
           f == p_pid'
<1>10. /\ h \in Seq(Pcb) /\ r = LinkedIn(h, p, last)
       /\ last \in 0 .. Len(h) /\ f[p] \in Int
       /\ \A i \in 1 .. Len(h) : f[h[i]] \in Int
       /\ \A i, j \in 1 .. Len(h) : i < j => f[h[i]] < f[h[j]]
       /\ \A i \in 1 .. last : f[h[i]] < f[p]
       /\ \A i \in last + 1 .. Len(h) : f[p] < f[h[i]]
  BY <1>1, <1>5, <1>6, <1>7, <1>8, <1>9 DEF IInv, TypeOK
<1> HIDE DEF h, r, f
<1>11. r \in Seq(Pcb) /\ Range(r) = Range(h) \cup {p}
  BY <1>10, InsertionAt
<1>12. \A i, j \in DOMAIN r : i < j => f[r[i]] < f[r[j]]
  BY <1>10, SortedInsertion
<1>13. Sorted'
  BY <1>12 DEF Sorted, r, f
<1>14. Range(pid_list') = Live'
  BY <1>3, <1>11 DEF IInv, h, r
<1>15. TypeOK'
  <2>1. p_pid' \in [Pcb -> Pid]
    BY <1>1, <1>2 DEF IInv, TypeOK
  <2>2. curr_pid' \in Pid
    <3>1. GeneratedPid + 1 \in Int
      BY <1>2
    <3> QED BY <1>1, <3>1, Constants, RemainderFacts DEF Successor, Pid
  <2> QED BY <1>1, <1>11, <2>1, <2>2 DEF IInv, TypeOK, r
<1> QED BY <1>13, <1>14, <1>15 DEF IInv, Range

LEMMA FreeStep ==
  ASSUME IInv, NEW p \in Pcb, FreePcb(p)
  PROVE  IInv'
<1>1. /\ p \in Pcb \ free /\ free' = free \cup {p}
      /\ p_pid' = [p_pid EXCEPT ![p] = FREE_PCB_PID]
      /\ pid_list' = Without(pid_list, {p}) /\ curr_pid' = curr_pid
  BY DEF FreePcb
<1>2. Live' = Live \ {p}
  BY <1>1 DEF Live
<1>3. pid_list \in Seq(Pcb)
  BY DEF IInv, TypeOK
<1>4. pid_list' \in Seq(Pcb) /\ Range(pid_list') = Range(pid_list) \ {p}
  <2> DEFINE h == pid_list
  <2>1. h \in Seq(Pcb)
    BY <1>3
  <2> HIDE DEF h
  <2>2. Without(h, {p}) \in Seq(Pcb) /\ Range(Without(h, {p})) = Range(h) \ {p}
    BY <2>1, WithoutProperties
  <2> QED BY <1>1, <2>2 DEF h
<1>5. Range(pid_list') = Live'
  BY <1>2, <1>4 DEF IInv
<1>6. FREE_PCB_PID \in Pid
  BY Constants DEF FREE_PCB_PID, Pid
<1>7. TypeOK'
  BY <1>1, <1>4, <1>6 DEF IInv, TypeOK
<1>8. Sorted'
  <2> SUFFICES ASSUME NEW a \in DOMAIN pid_list', NEW b \in DOMAIN pid_list', a < b
               PROVE  p_pid'[pid_list'[a]] < p_pid'[pid_list'[b]]
    BY DEF Sorted
  <2>1. PICK i \in DOMAIN pid_list, j \in DOMAIN pid_list :
          i < j /\ pid_list'[a] = pid_list[i] /\ pid_list'[b] = pid_list[j]
    <3> DEFINE h == pid_list
               r == pid_list'
    <3>1. h \in Seq(Pcb) /\ r = Without(h, {p}) /\ a \in DOMAIN r /\ b \in DOMAIN r
      BY <1>1, <1>3
    <3> HIDE DEF h, r
    <3>2. \E i, j \in DOMAIN h : i < j /\ r[a] = h[i] /\ r[b] = h[j]
      BY <3>1, WithoutOrder
    <3> QED BY <3>2 DEF h, r
  <2>2. pid_list'[a] # p /\ pid_list'[b] # p /\ pid_list'[a] \in Pcb /\ pid_list'[b] \in Pcb
    BY <1>4 DEF Range
  <2>3. p_pid'[pid_list'[a]] = p_pid[pid_list[i]] /\ p_pid'[pid_list'[b]] = p_pid[pid_list[j]]
    BY <1>1, <2>1, <2>2 DEF IInv, TypeOK
  <2> QED BY <2>1, <2>3 DEF IInv, Sorted
<1> QED BY <1>5, <1>7, <1>8 DEF IInv, Range

LEMMA InitIInv == Init => IInv
<1> SUFFICES ASSUME Init
             PROVE  IInv
  OBVIOUS
<1>1. /\ free = Pcb /\ p_pid = [p \in Pcb |-> FREE_PCB_PID]
      /\ pid_list = <<>> /\ curr_pid = 1
  BY DEF Init
<1>2. DOMAIN pid_list = {} /\ pid_list \in Seq(Pcb)
  BY <1>1
<1>3. FREE_PCB_PID \in Pid /\ 1 \in Pid
  BY Constants DEF FREE_PCB_PID, Pid
<1>4. TypeOK
  BY <1>1, <1>2, <1>3 DEF TypeOK
<1>5. Range(pid_list) = Live
  BY <1>1, <1>2 DEF Range, Live
<1>6. Sorted
  BY <1>2 DEF Sorted
<1> QED BY <1>4, <1>5, <1>6 DEF IInv

LEMMA NextIInv ==
  ASSUME IInv, [Next]_vars
  PROVE  IInv'
<1>1. CASE UNCHANGED vars
  BY <1>1 DEF vars, IInv, TypeOK, Live, Sorted
<1>2. CASE Next
  BY <1>2, AllocStep, FreeStep DEF Next
<1> QED BY <1>1, <1>2

\* Up to the pid that is given, all but 0 are in use.
LEMMA StepIsCyclic ==
  ASSUME IInv, [Next]_vars
  PROVE  CyclicStep
<1> SUFFICES ASSUME NEW p \in free \ free', NEW pid \in Pid \ {0}, NEW k \in 0 .. PidBound - 1,
                    pid = (curr_pid + k) % PidBound,
                    k < (p_pid'[p] - curr_pid) % PidBound
             PROVE  Used(pid)
  BY DEF CyclicStep, Used, Live
<1>1. p \in Pcb /\ AllocPcb(p)
  <2>1. ~UNCHANGED vars
    BY DEF vars
  <2>2. PICK q \in Pcb : AllocPcb(q) \/ FreePcb(q)
    BY <2>1 DEF Next
  <2>3. ~FreePcb(q)
    BY DEF FreePcb
  <2> QED BY <2>2, <2>3 DEF AllocPcb
<1>2. p_pid'[p] = GeneratedPid
  BY <1>1 DEF AllocPcb, IInv, TypeOK
<1>3. PICK d \in 0 .. PidBound - 1 :
        /\ GeneratedPid = (Start + d) % PidBound
        /\ \A j \in 0 .. d - 1 : Used((Start + j) % PidBound)
  BY GeneratedFacts
<1>4. /\ curr_pid \in Int /\ curr_pid \in 0 .. PidBound - 1
      /\ GeneratedPid \in Int /\ GeneratedPid \in 0 .. PidBound - 1
      /\ Start \in Int /\ k \in Int /\ d \in Int /\ PidBound \in Int
  BY StartFacts, GeneratedFacts, Constants DEF IInv, TypeOK, Pid
<1>5. PICK q \in Int : Start + d = PidBound * q + GeneratedPid
  <2> DEFINE sum == Start + d
  <2>1. sum \in Int /\ GeneratedPid = sum % PidBound
    BY <1>3, <1>4
  <2> HIDE DEF sum
  <2>2. \E q \in Int : sum = PidBound * q + (sum % PidBound)
    BY <2>1, Constants, RemainderFacts
  <2> QED BY <2>1, <2>2 DEF sum
<1> DEFINE gap == GeneratedPid - curr_pid
<1>6. gap \in Int /\ k < gap % PidBound
  BY <1>2, <1>4
<1>7. CASE curr_pid # 0
  <2>1. Start = curr_pid
    BY <1>7 DEF Start
  <2>2. gap = PidBound * (-q) + d
    <3>1. PidBound * (-q) = -(PidBound * q) /\ PidBound * q \in Int
      BY Constants
    <3> QED BY <1>4, <1>5, <2>1, <3>1
  <2> HIDE DEF gap
  <2>3. gap % PidBound = d
    <3>1. -q \in Int
      OBVIOUS
    <3> QED BY <1>6, <2>2, <3>1, Constants, RemainderUnique
  <2>4. k \in 0 .. d - 1
    BY <1>4, <1>6, <2>3
  <2> QED BY <1>3, <2>1, <2>4
<1>8. CASE curr_pid = 0
  <2>1. Start = 1 /\ gap = GeneratedPid
    BY <1>4, <1>8 DEF Start
  <2>2. gap % PidBound = GeneratedPid
    <3>1. gap = PidBound * 0 + GeneratedPid
      BY <1>4, <2>1, Constants
    <3> HIDE DEF gap
    <3> QED BY <1>4, <1>6, <3>1, Constants, RemainderUnique
  <2>3. k # 0
    <3>1. 0 % PidBound = 0
      <4>1. 0 = PidBound * 0 + 0 /\ 0 \in 0 .. PidBound - 1
        BY Constants
      <4> QED BY <4>1, Constants, RemainderUnique
    <3>2. k = 0 => curr_pid + k = 0
      BY <1>8
    <3> QED BY <3>1, <3>2
  <2>4. GeneratedPid <= d + 1
    <3>1. CASE d + 1 < PidBound
      <4> DEFINE sum == Start + d
      <4>1. sum = d + 1 /\ sum \in 0 .. PidBound - 1 /\ GeneratedPid = sum % PidBound
        BY <1>3, <1>4, <2>1, <3>1
      <4> HIDE DEF sum
      <4>2. sum = PidBound * 0 + sum /\ sum \in Int
        BY <1>4, <4>1
      <4>3. sum % PidBound = sum
        BY <4>1, <4>2, Constants, RemainderUnique
      <4> QED BY <1>4, <4>1, <4>3
    <3>2. CASE ~(d + 1 < PidBound)
      BY <1>4, <3>2
    <3> QED BY <3>1, <3>2
  <2>5. k - 1 \in 0 .. d - 1
    <3>1. k < GeneratedPid
      BY <1>6, <2>2
    <3> QED BY <1>4, <2>3, <2>4, <3>1
  <2>6. Start + (k - 1) = curr_pid + k
    BY <1>4, <1>8, <2>1
  <2> QED BY <1>3, <2>5, <2>6
<1> QED BY <1>7, <1>8

-----------------------------------------------------------------------------
(* The theorems                                                            *)

\* The list of the live processes is sorted by pids that are all different.
THEOREM IInvHolds == Spec => []IInv
<1>1. Init => IInv
  BY InitIInv
<1>2. IInv /\ [Next]_vars => IInv'
  BY NextIInv
<1> QED BY <1>1, <1>2, PTL DEF Spec

\* Every variable keeps to its type; curr_pid wraps around with pid_t.
THEOREM TypeCorrect == Spec => []TypeOK
<1>1. IInv => TypeOK
  BY DEF IInv
<1> QED BY <1>1, IInvHolds, PTL

\* getProcessByPid finds every live process under its pid and no other one,
\* also after pids have wrapped around.
THEOREM SearchFindsProcess == Spec => []LookupExact
<1>1. IInv => LookupExact
  <2> SUFFICES ASSUME IInv
               PROVE  LookupExact
    OBVIOUS
  <2>1. ASSUME NEW p \in Live
        PROVE  ProcessByPid(p_pid[p]) = {p}
    <3>1. p_pid[p] \in Int
      BY ListFacts DEF Live
    <3>2. ProcessByPid(p_pid[p]) = {x \in Live : p_pid[x] = p_pid[p]}
      BY <3>1, SearchExact
    <3> QED BY <3>2, PidsDiffer
  <2> QED BY <2>1 DEF LookupExact, IInv, Live
<1> QED BY <1>1, IInvHolds, PTL

\* _generatePid gives a pid again only after all the others were tried.
THEOREM PidsGivenInOrder == Spec => CyclicOrder
<1>1. IInv /\ [Next]_vars => [CyclicStep]_vars
  BY StepIsCyclic
<1> QED BY <1>1, IInvHolds, PTL DEF Spec, CyclicOrder

=============================================================================
