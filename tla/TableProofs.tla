---------------------------- MODULE TableProofs -----------------------------
(***************************************************************************)
(* Proofs about the arrays of the system and how their entries are found:  *)
(* the semaphore of a device (DevSem), the entry of a page (PageIndex) and *)
(* a free support structure (SupportPool).                                 *)
(***************************************************************************)
EXTENDS DevSem, PageIndex, SupportPool, QueueProofs

-----------------------------------------------------------------------------
(* Semaphores of devices                                                   *)

\* The subtractions and the test of one bit in getIODeviceSemaphore find the
\* line and the number of the device again.
LEMMA SemIndexOfDevice ==
  \A d \in Device :
    SemIndex(CommandAddress(d)) =
      (d.line - 3) * N_DEV_PER_IL + d.number + (IF d.transmits THEN 8 ELSE 0)
  <1> SUFFICES ASSUME NEW d \in Device
               PROVE  SemIndex(CommandAddress(d)) =
                        (d.line - 3) * N_DEV_PER_IL + d.number
                          + (IF d.transmits THEN 8 ELSE 0)
    OBVIOUS
  <1> DEFINE n == d.number
  <1>1. n \in 0 .. 7 /\ d.line \in 3 .. 7 /\ d.transmits \in BOOLEAN
    BY DEF Device, Lines, IL_TERMINAL, N_DEV_PER_IL
  <1>2. CASE d.line = 7 /\ d.transmits
    <2>1. CommandAddress(d) = 608 + n * 16
      BY <1>1, <1>2 DEF CommandAddress, DEV_REG_START, DEV_REG_SIZE, N_DEV_PER_IL
    <2>2. IsTransmission(608 + n * 16)
      BY <1>1 DEF IsTransmission, IsReception, TERM0ADDR
    <2>3. SemIndex(608 + n * 16) = 40 + n
      BY <1>1, <2>2 DEF SemIndex, DevRegisterAddress, Offset, DEV_REG_START, DEV_REG_SIZE
    <2> QED
      BY <1>1, <1>2, <2>1, <2>3 DEF N_DEV_PER_IL
  <1>3. CASE ~d.transmits
    <2> DEFINE k == (d.line - 3) * 8 + n
    <2>1. k \in 0 .. 39 /\ (d.line < 7 => k < 32) /\ (d.line = 7 => k >= 32)
      BY <1>1
    <2>2. CommandAddress(d) = 88 + k * 16
      BY <1>1, <1>3 DEF CommandAddress, DEV_REG_START, DEV_REG_SIZE, N_DEV_PER_IL
    <2> HIDE DEF k
    <2>3. ~IsTransmission(88 + k * 16)
      BY <2>1 DEF IsTransmission, IsReception, TERM0ADDR
    <2>4. SemIndex(88 + k * 16) = k
      BY <2>1, <2>3 DEF SemIndex, DevRegisterAddress, Offset, DEV_REG_START, DEV_REG_SIZE
    <2> QED
      BY <1>3, <2>1, <2>2, <2>4 DEF k, N_DEV_PER_IL
  <1> QED
    BY <1>1, <1>2, <1>3 DEF Device, IL_TERMINAL

\* The semaphores of the devices lie inside semaphore_devices, which
\* isSoftBlocked takes to hold all of them and nothing else, in the order of
\* priority, from disk 0 to the transmitter of terminal 7 (Relazione.tex:146).
THEOREM SemaphoresByPriority ==
  \A d, e \in Device :
    /\ SemIndex(CommandAddress(d)) \in 0 .. TOTAL_IO_DEVICES - 1
    /\ Precedes(d, e) => SemIndex(CommandAddress(d)) < SemIndex(CommandAddress(e))
  BY SemIndexOfDevice
  DEF Device, Lines, IL_TERMINAL, N_DEV_PER_IL, TOTAL_IO_DEVICES, Precedes

\* Two devices, or two halves of a terminal, never share a semaphore: of two
\* commands one precedes the other.
THEOREM SemaphoresDistinct ==
  \A d, e \in Device :
    SemIndex(CommandAddress(d)) = SemIndex(CommandAddress(e)) => d = e
  BY SemIndexOfDevice DEF Device, Lines, IL_TERMINAL, N_DEV_PER_IL

-----------------------------------------------------------------------------
(* Entries of pages                                                        *)

LEMMA PageOfEntryRange ==
  ASSUME NEW i \in 0 .. USERPGTBLSIZE - 1
  PROVE  /\ PageOfEntry(i) \in Int
         /\ USEG <= PageOfEntry(i) /\ PageOfEntry(i) <= STACK
  BY SMT DEF PageOfEntry, USERPGTBLSIZE, STACK, USEG

LEMMA EntryHiFields ==
  ASSUME NEW vpn \in Int, USEG <= vpn, vpn <= STACK, NEW asid \in AsidField
  PROVE  /\ EntryHi(vpn, asid) \in Nat /\ EntryHi(vpn, asid) < 4294967296
         /\ GetVpn(EntryHi(vpn, asid)) = vpn
         /\ EntryHiAsid(EntryHi(vpn, asid)) = asid
<1>1. vpn >= 524288 /\ vpn <= 786431
  BY SMT DEF USEG, STACK
<1>2. asid \in Int /\ asid >= 0 /\ asid <= 63
  BY SMT DEF AsidField
<1>3. EntryHi(vpn, asid) = vpn * 4096 + asid * 64
  BY SMT DEF EntryHi, VPN_BIT, ASID_BIT
<1>4. EntryHi(vpn, asid) \in Nat /\ EntryHi(vpn, asid) < 4294967296
  BY SMT, <1>1, <1>2, <1>3
<1>5. EntryHi(vpn, asid) \div 4096 = vpn
  BY SMT, <1>1, <1>2, <1>3
<1>6. EntryHi(vpn, asid) \div 64 = vpn * 64 + asid
  BY SMT, <1>1, <1>2, <1>3
<1>7. (vpn * 64 + asid) % 64 = asid
  BY SMT, <1>1, <1>2
<1>8. vpn % 262144 = vpn - 524288
  BY SMT, <1>1
<1>9. GetVpn(EntryHi(vpn, asid)) = vpn
  BY SMT, <1>1, <1>5, <1>8 DEF GetVpn, EntryHiVpn, VPN_BIT, USEG
<1>10. EntryHiAsid(EntryHi(vpn, asid)) = asid
  BY SMT, <1>6, <1>7 DEF EntryHiAsid, ASID_BIT
<1> QED
  BY SMT, <1>4, <1>9, <1>10

\* A page fault and a refill on a page of a process find its own entry, and
\* _loadPage its own block of the flash and its own ASID, for all the pages that
\* a process has; the stack is not where the others are.
THEOREM PageIndexExact ==
  \A i \in 0 .. USERPGTBLSIZE - 1, asid \in AsidField :
    /\ GetPageIndex(GetVpn(EntryHi(PageOfEntry(i), asid))) = i
    /\ EntryHiAsid(EntryHi(PageOfEntry(i), asid)) = asid
<1> SUFFICES ASSUME NEW i \in 0 .. USERPGTBLSIZE - 1, NEW asid \in AsidField
             PROVE  /\ GetPageIndex(GetVpn(EntryHi(PageOfEntry(i), asid))) = i
                    /\ EntryHiAsid(EntryHi(PageOfEntry(i), asid)) = asid
  OBVIOUS
<1>1. GetPageIndex(PageOfEntry(i)) = i
  BY SMT DEF GetPageIndex, PageOfEntry, USERPGTBLSIZE, STACK, USEG
<1> QED
  BY SMT, <1>1, PageOfEntryRange, EntryHiFields

\* TLBP, which looks for an EntryHi, finds the entry of one page only.
THEOREM EntryHiDistinct ==
  \A i, j \in 0 .. USERPGTBLSIZE - 1, a, b \in AsidField :
    EntryHi(PageOfEntry(i), a) = EntryHi(PageOfEntry(j), b) => i = j /\ a = b
<1> SUFFICES ASSUME NEW i \in 0 .. USERPGTBLSIZE - 1, NEW j \in 0 .. USERPGTBLSIZE - 1,
                    NEW a \in AsidField, NEW b \in AsidField,
                    EntryHi(PageOfEntry(i), a) = EntryHi(PageOfEntry(j), b)
             PROVE  i = j /\ a = b
  OBVIOUS
<1> QED
  BY SMT, PageIndexExact

-----------------------------------------------------------------------------
(* Support structures                                                      *)

Node == Structure \cup {free_support}

\* The processes whose structure is not in the list.
Having == {a \in Asid : pc[a] \in {"runs", "deallocate"} \/ (Started(a) /\ test = "create")}

TypeInv ==
  /\ p_list \in Links(Node)
  /\ test \in {"allocate", "delete", "create"}
  /\ pc \in [Asid -> {"new", "runs", "deallocate", "freed"}]
  /\ sup \in [Asid -> Node]
  /\ first \in [Asid -> Node]

OneOperation ==
  /\ test = "delete" => \A a \in Asid : pc[a] # "deallocate"
  /\ \A a, b \in Asid : pc[a] = "deallocate" /\ pc[b] = "deallocate" => a = b

\* What _deallocate has read before its stores still holds.
ReadIsCurrent == \A a \in Asid : pc[a] = "deallocate" => first[a] = p_list.next[free_support]

OwnTheirs ==
  /\ \A a \in Having : sup[a] \in Structure
  /\ \A a, b \in Having : sup[a] = sup[b] => a = b

\* The list has the structures that nobody has, and _allocate has taken its first.
FreeAre(q) ==
  /\ Holds(p_list, free_support, q)
  /\ Range(q) = Structure \ {sup[a] : a \in Having}
  /\ test = "delete" => \A a \in Asid : Started(a) => q # <<>> /\ sup[a] = q[1]

PoolInv == TypeInv /\ OneOperation /\ ReadIsCurrent /\ OwnTheirs /\ \E q \in Seq(Structure) : FreeAre(q)

\* list_add as the operator on sequences.
LEMMA InsertAtFrontProperties ==
  ASSUME NEW S, NEW q \in Seq(S), NEW p \in S
  PROVE  /\ InsertProcQAtFront(q, p) \in Seq(S)
         /\ Range(InsertProcQAtFront(q, p)) = Range(q) \cup {p}
<1> DEFINE r == InsertProcQAtFront(q, p)
<1>1. /\ r \in Seq(S) /\ Len(r) = Len(q) + 1
      /\ r[1] = p /\ \A i \in 1 .. Len(q) : r[i + 1] = q[i]
  BY DEF InsertProcQAtFront
<1>2. DOMAIN q = 1 .. Len(q) /\ DOMAIN r = 1 .. Len(q) + 1 /\ Len(q) \in Nat
  BY <1>1
<1> HIDE DEF r
<1>3. ASSUME NEW i \in DOMAIN r
      PROVE  r[i] \in Range(q) \cup {p}
  <2>1. CASE i = 1
    BY <1>1, <2>1
  <2>2. CASE i # 1
    <3>1. i - 1 \in DOMAIN q /\ r[(i - 1) + 1] = q[i - 1] /\ (i - 1) + 1 = i
      BY <1>1, <1>2, <2>2
    <3> QED
      BY <3>1 DEF Range
  <2> QED
    BY <2>1, <2>2
<1>4. ASSUME NEW i \in DOMAIN q
      PROVE  q[i] \in Range(r)
  <2>1. i + 1 \in DOMAIN r /\ r[i + 1] = q[i]
    BY <1>1, <1>2
  <2> QED
    BY <2>1 DEF Range
<1>5. p \in Range(r)
  BY <1>1, <1>2 DEF Range
<1>6. Range(r) = Range(q) \cup {p}
  BY <1>3, <1>4, <1>5 DEF Range
<1> QED
  BY <1>1, <1>6 DEF r

LEMMA NodeFacts ==
  ASSUME UPROCMAX \in Nat
  PROVE  /\ free_support \in Node /\ free_support \notin Structure
         /\ Structure \subseteq Node
         /\ \A S \in SUBSET Structure : Seq(S) \subseteq Seq(Node)
<1>1. free_support \in Node /\ free_support \notin Structure /\ Structure \subseteq Node
  BY DEF Node, Structure, free_support
<1>2. ASSUME NEW S \in SUBSET Structure, NEW q \in Seq(S)
      PROVE  q \in Seq(Node)
  BY <1>1
<1> QED
  BY <1>1, <1>2

\* The stores of list_add and of list_del stay among the nodes.
LEMMA LinksKept ==
  ASSUME NEW N, NEW mem \in Links(N), NEW x \in N, NEW y \in N, NEW z \in N
  PROVE  /\ mem.next[x] \in N
         /\ ListInsert(mem, x, y, z) \in Links(N)
         /\ ListDel(mem, x) \in Links(N)
<1>1. mem.next \in [N -> N] /\ mem.prev \in [N -> N]
  BY DEF Links
<1>2. ListInsert(mem, x, y, z) \in Links(N)
  BY <1>1 DEF ListInsert, Links
<1>3. ListDel(mem, x) \in Links(N)
  BY <1>1 DEF ListDel, Links
<1> QED
  BY <1>1, <1>2, <1>3

-----------------------------------------------------------------------------
(* _initFreeSupportStack.  A recursive function is the one that its         *)
(* equation describes once there is one: the links after n insertions, in   *)
(* closed form, satisfy it.                                                 *)

StackOf(n) ==
  [next |-> [s \in Node |-> IF s = 0 THEN n ELSE IF s <= n THEN s - 1 ELSE s],
   prev |-> [s \in Node |->
     IF s = 0 THEN (IF n = 0 THEN 0 ELSE 1) ELSE IF s < n THEN s + 1 ELSE IF s = n THEN 0 ELSE s]]

Unlinked == [next |-> [s \in Node |-> s], prev |-> [s \in Node |-> s]]

LEMMA StackEquation ==
  ASSUME UPROCMAX \in Nat, NEW n \in 0 .. UPROCMAX
  PROVE  FreeSupportStack[n] = IF n = 0 THEN InitListHead(Unlinked, free_support)
                               ELSE ListAdd(FreeSupportStack[n - 1], n, free_support)
<1> DEFINE Step(f, k) == IF k = 0 THEN InitListHead(Unlinked, free_support)
                         ELSE ListAdd(f[k - 1], k, free_support)
           g == [k \in 0 .. UPROCMAX |-> StackOf(k)]
<1>1. StackOf(0) = InitListHead(Unlinked, free_support)
  <2>1. \A s \in Node : s \in Int /\ s >= 0
    BY DEF Node, Structure, free_support
  <2>2. StackOf(0).next = InitListHead(Unlinked, free_support).next
    BY <2>1 DEF StackOf, InitListHead, Unlinked, free_support
  <2>3. StackOf(0).prev = InitListHead(Unlinked, free_support).prev
    BY <2>1 DEF StackOf, InitListHead, Unlinked, free_support
  <2> QED
    BY <2>2, <2>3 DEF StackOf, InitListHead
<1>2. ASSUME NEW k \in 1 .. UPROCMAX
      PROVE  StackOf(k) = ListAdd(StackOf(k - 1), k, free_support)
  <2>1. \A s \in Node : s \in Int /\ s >= 0
    BY DEF Node, Structure, free_support
  <2>2. k \in Node /\ 0 \in Node /\ k # 0 /\ k - 1 \in Node /\ StackOf(k - 1).next[0] = k - 1
    BY DEF Node, Structure, free_support, StackOf
  <2>3. ListAdd(StackOf(k - 1), k, free_support) = ListInsert(StackOf(k - 1), k, 0, k - 1)
    BY <2>2 DEF ListAdd, free_support
  <2> DEFINE m == StackOf(k - 1)
             r == StackOf(k)
  <2>4. /\ m.next \in [Node -> Node] /\ m.prev \in [Node -> Node]
        /\ r.next \in [Node -> Node] /\ r.prev \in [Node -> Node]
        /\ r = [next |-> r.next, prev |-> r.prev]
    <3>1. ASSUME NEW j \in 0 .. UPROCMAX
          PROVE  StackOf(j).next \in [Node -> Node] /\ StackOf(j).prev \in [Node -> Node]
      BY <2>1 DEF StackOf, Node, Structure, free_support
    <3>2. k \in 0 .. UPROCMAX /\ k - 1 \in 0 .. UPROCMAX
      OBVIOUS
    <3>3. r = [next |-> r.next, prev |-> r.prev]
      BY DEF StackOf
    <3> HIDE DEF m, r
    <3> QED
      BY <3>1, <3>2, <3>3 DEF m, r
  <2>5. \A s \in Node :
          /\ r.next[s] = IF s = 0 THEN k ELSE IF s = k THEN k - 1 ELSE m.next[s]
          /\ r.prev[s] = IF s = k THEN 0 ELSE IF s = k - 1 THEN k ELSE m.prev[s]
    BY <2>1, <2>2 DEF StackOf
  <2> HIDE DEF m, r
  <2>6. r.next = [m.next EXCEPT ![k] = k - 1, ![0] = k]
    BY <2>2, <2>4, <2>5
  <2>7. r.prev = [m.prev EXCEPT ![k - 1] = k, ![k] = 0]
    BY <2>2, <2>4, <2>5
  <2> QED
    BY <2>3, <2>4, <2>6, <2>7 DEF ListInsert, m, r
<1>3. g = [k \in 0 .. UPROCMAX |-> Step(g, k)]
  <2> SUFFICES ASSUME NEW k \in 0 .. UPROCMAX
               PROVE  StackOf(k) = Step(g, k)
    OBVIOUS
  <2>1. CASE k = 0
    BY <1>1, <2>1
  <2>2. CASE k # 0
    <3>1. k \in 1 .. UPROCMAX /\ k - 1 \in 0 .. UPROCMAX
      BY <2>2
    <3>2. g[k - 1] = StackOf(k - 1)
      BY <3>1
    <3> QED
      BY <1>2, <2>2, <3>1, <3>2
  <2> QED
    BY <2>1, <2>2
<1>4. FreeSupportStack = CHOOSE f : f = [k \in 0 .. UPROCMAX |-> Step(f, k)]
  BY DEF FreeSupportStack, Unlinked, Node
<1>5. FreeSupportStack = [k \in 0 .. UPROCMAX |-> Step(FreeSupportStack, k)]
  <2> HIDE DEF g, Step
  <2> QED
    BY <1>3, <1>4
<1> QED
  BY <1>5

\* The first n structures are in the list, each of them once.
StackHolds(n) ==
  /\ FreeSupportStack[n] \in Links(Node)
  /\ \E q \in Seq(Structure) : Holds(FreeSupportStack[n], free_support, q) /\ Range(q) = 1 .. n

LEMMA StackBuilt ==
  ASSUME UPROCMAX \in Nat
  PROVE  StackHolds(UPROCMAX)
<1>1. StackHolds(0)
  <2>1. Unlinked \in Links(Node)
    BY DEF Unlinked, Links
  <2>2. FreeSupportStack[0] = InitListHead(Unlinked, free_support)
    BY StackEquation
  <2>3. <<>> \in Seq(Structure) /\ Range(<<>>) = 1 .. 0
    BY DEF Range
  <2> QED
    BY <2>1, <2>2, <2>3, NodeFacts, InitListHeadHolds DEF StackHolds
<1>2. ASSUME NEW n \in 1 .. UPROCMAX, StackHolds(n - 1)
      PROVE  StackHolds(n)
  <2> DEFINE mem == FreeSupportStack[n - 1]
  <2>1. mem \in Links(Node)
    BY <1>2 DEF StackHolds
  <2>2. PICK q \in Seq(Structure) : Holds(mem, free_support, q) /\ Range(q) = 1 .. n - 1
    BY <1>2 DEF StackHolds
  <2>3. FreeSupportStack[n] = ListAdd(mem, n, free_support)
    BY StackEquation
  <2> HIDE DEF mem
  <2>4. n \in Structure /\ n \in Node /\ n # free_support /\ n \notin Range(q)
    BY <2>2, NodeFacts DEF Structure
  <2>5. q \in Seq(Node) /\ n \notin Nodes(free_support, q)
    BY <2>4, NodeFacts DEF Nodes
  <2>6. Holds(ListAdd(mem, n, free_support), free_support, InsertProcQAtFront(q, n))
    BY <2>1, <2>2, <2>4, <2>5, NodeFacts, ListAddHolds
  <2>7. /\ InsertProcQAtFront(q, n) \in Seq(Structure)
        /\ Range(InsertProcQAtFront(q, n)) = Range(q) \cup {n}
    BY <2>4, InsertAtFrontProperties
  <2>8. Range(q) \cup {n} = 1 .. n
    BY <2>2
  <2>9. ListAdd(mem, n, free_support) \in Links(Node)
    BY <2>1, <2>4, NodeFacts, LinksKept DEF ListAdd
  <2> QED
    BY <2>3, <2>6, <2>7, <2>8, <2>9 DEF StackHolds
<1> DEFINE Bad == {n \in 0 .. UPROCMAX : ~StackHolds(n)}
<1>3. Bad = {}
  <2> SUFFICES ASSUME Bad # {} PROVE FALSE
    OBVIOUS
  <2>1. PICK m \in Bad : \A k \in Bad : m <= k
    <3>1. Bad \in SUBSET (0 .. UPROCMAX)
      OBVIOUS
    <3> HIDE DEF Bad
    <3> QED
      BY <3>1, LeastElement
  <2>2. m \in 1 .. UPROCMAX /\ m - 1 \in 0 .. UPROCMAX /\ ~(m <= m - 1)
    BY <1>1
  <2>3. m - 1 \notin Bad
    BY <2>1, <2>2
  <2> QED
    BY <1>2, <2>2, <2>3
<1> QED
  BY <1>3

-----------------------------------------------------------------------------
(* The invariant *)

LEMMA OneIsStarted ==
  ASSUME UPROCMAX \in Nat, NEW a \in Asid, NEW b \in Asid, Started(a), Started(b)
  PROVE  a = b
  BY DEF Started, Asid

LEMMA PoolInit == UPROCMAX \in Nat /\ Init => PoolInv
<1> SUFFICES ASSUME UPROCMAX \in Nat, Init
             PROVE  PoolInv
  OBVIOUS
<1>1. StackHolds(UPROCMAX)
  BY StackBuilt
<1>2. TypeInv
  BY <1>1, NodeFacts DEF Init, TypeInv, StackHolds
<1>3. Having = {}
  BY DEF Init, Having
<1>4. PICK q \in Seq(Structure) : Holds(p_list, free_support, q) /\ Range(q) = 1 .. UPROCMAX
  BY <1>1 DEF StackHolds, Init
<1>5. FreeAre(q)
  BY <1>3, <1>4 DEF FreeAre, Structure, Init
<1>6. OneOperation /\ ReadIsCurrent
  BY DEF Init, OneOperation, ReadIsCurrent
<1>7. OwnTheirs
  BY <1>3 DEF OwnTheirs
<1> QED
  BY <1>2, <1>4, <1>5, <1>6, <1>7 DEF PoolInv

\* There is a structure for every process: as many as processes, and the one
\* that starts has none.
LEMMA FreeForTheNext ==
  ASSUME UPROCMAX \in Nat, PoolInv, NEW a \in Asid, Started(a), test = "allocate",
         NEW q \in Seq(Structure), FreeAre(q)
  PROVE  q # <<>>
<1> SUFFICES ASSUME q = <<>> PROVE FALSE
  OBVIOUS
<1> DEFINE own == [b \in Having |-> sup[b]]
<1>1. IsFiniteSet(Asid) /\ Cardinality(Asid) = UPROCMAX
  BY FS_Interval DEF Asid
<1>2. Having \in SUBSET Asid /\ a \notin Having
  BY DEF Having, Started
<1>3. IsFiniteSet(Having) /\ Cardinality(Having) < UPROCMAX
  <2>1. Having # Asid
    BY <1>2
  <2>2. /\ IsFiniteSet(Having) /\ Cardinality(Having) <= Cardinality(Asid)
        /\ Cardinality(Having) # Cardinality(Asid)
    BY <1>1, <1>2, <2>1, FS_Subset
  <2>3. Cardinality(Having) \in Nat
    BY <2>2, FS_CardinalityType
  <2> QED
    BY <1>1, <2>2, <2>3
<1>4. Range(q) = {}
  BY DEF Range
<1>5. own \in Surjection(Having, Structure)
  <2>1. \A b \in Having : sup[b] \in Structure
    BY DEF PoolInv, OwnTheirs
  <2>2. Structure \subseteq {sup[b] : b \in Having}
    BY <1>4 DEF FreeAre
  <2> QED
    BY <2>1, <2>2 DEF Surjection
<1>6. Cardinality(Structure) <= Cardinality(Having)
  <2> HIDE DEF own
  <2> QED
    BY <1>3, <1>5, FS_Surjection
<1>7. Structure = Asid
  BY DEF Structure, Asid
<1>8. Cardinality(Having) \in Nat
  BY <1>3, FS_CardinalityType
<1> QED
  BY <1>1, <1>3, <1>6, <1>7, <1>8

LEMMA PoolStep == UPROCMAX \in Nat /\ PoolInv /\ [NextProtected]_vars => PoolInv'
<1> SUFFICES ASSUME UPROCMAX \in Nat, PoolInv, [NextProtected]_vars
             PROVE  PoolInv'
  OBVIOUS
<1>1. PICK q \in Seq(Structure) : FreeAre(q)
  BY DEF PoolInv
<1>2. TypeInv /\ OneOperation /\ ReadIsCurrent /\ OwnTheirs
  BY DEF PoolInv
<1>3. /\ q \in Seq(Node) /\ free_support \in Node /\ Structure \subseteq Node
      /\ free_support \notin Structure
  BY NodeFacts
<1>4. /\ Holds(p_list, free_support, q) /\ IsInjective(q) /\ free_support \notin Range(q)
      /\ p_list \in Links(Node)
  BY <1>1, <1>2 DEF FreeAre, Holds, TypeInv
<1>5. p_list.next[free_support] \in Node
  BY <1>3, <1>4, LinksKept
<1>6. q # <<>> => p_list.next[free_support] = q[1] /\ q[1] \in Structure
  <2>1. q # <<>> => p_list.next[free_support] = q[1]
    BY <1>3, <1>4, ListEmptyIsEmpty
  <2>2. q # <<>> => q[1] \in Structure
    OBVIOUS
  <2> QED
    BY <2>1, <2>2
<1>7. CASE UNCHANGED vars
  <2>1. TypeInv'
    BY <1>2, <1>7 DEF vars, TypeInv
  <2>2. Having' = Having
    BY <1>7 DEF vars, Having, Started
  <2>3. OneOperation' /\ ReadIsCurrent'
    BY <1>2, <1>7 DEF vars, OneOperation, ReadIsCurrent
  <2>4. OwnTheirs'
    BY <1>2, <1>7, <2>2 DEF vars, OwnTheirs
  <2>5. FreeAre(q)'
    BY <1>1, <1>7, <2>2 DEF vars, FreeAre, Started
  <2> QED
    BY <2>1, <2>3, <2>4, <2>5 DEF PoolInv
<1>8. ASSUME NEW a \in Asid, Protected, Allocate(a)
      PROVE  PoolInv'
  <2>1. q # <<>>
    BY <1>1, <1>8, FreeForTheNext DEF Allocate
  <2>2. sup' = [sup EXCEPT ![a] = q[1]] /\ q[1] \in Structure /\ q[1] \in Node
    BY <1>3, <1>6, <1>8, <2>1 DEF Allocate
  <2>3. TypeInv'
    BY <1>2, <1>8, <2>2 DEF TypeInv, Allocate
  <2>4. Having' = Having /\ a \notin Having
    BY <1>8 DEF Allocate, Having, Started
  <2>5. \A b \in Having : sup'[b] = sup[b]
    BY <1>2, <2>2, <2>4 DEF TypeInv, Having
  <2>6. OneOperation' /\ ReadIsCurrent'
    BY <1>2, <1>8 DEF OneOperation, ReadIsCurrent, Allocate, Protected
  <2>7. OwnTheirs'
    BY <1>2, <2>4, <2>5 DEF OwnTheirs
  <2>8. \A b \in Asid : Started(b)' => b = a
    <3>1. \A b \in Asid : Started(b)' => Started(b)
      BY <1>8 DEF Allocate, Started
    <3> QED
      BY <1>8, <3>1, OneIsStarted DEF Allocate
  <2>9. sup'[a] = q[1]
    BY <1>2, <2>2 DEF TypeInv
  <2>10. FreeAre(q)'
    <3>1. Range(q) = Structure \ {sup'[b] : b \in Having}
      BY <1>1, <2>5 DEF FreeAre
    <3>2. Holds(p_list', free_support, q)
      BY <1>4, <1>8 DEF Allocate
    <3> QED
      BY <2>1, <2>4, <2>8, <2>9, <3>1, <3>2 DEF FreeAre
  <2> QED
    BY <2>3, <2>6, <2>7, <2>10 DEF PoolInv
<1>9. ASSUME NEW a \in Asid, Delete(a)
      PROVE  PoolInv'
  <2>1. /\ q # <<>> /\ sup[a] = q[1] /\ q[1] \in Structure /\ p_list.next[free_support] = q[1]
        /\ p_list' = ListDel(p_list, q[1]) /\ sup' = sup /\ pc' = pc /\ first' = first
        /\ test = "delete" /\ test' = "create" /\ Started(a)
    BY <1>1, <1>6, <1>9 DEF FreeAre, Delete
  <2>2. /\ Tail(q) \in Seq(Structure) /\ Range(q) = Range(Tail(q)) \cup {q[1]}
        /\ q[1] \notin Range(Tail(q))
    BY <1>4, <2>1, TailProperties, Head(q) = q[1]
  <2>3. Holds(p_list', free_support, Tail(q))
    BY <1>3, <1>4, <2>1, ListDelFirstHolds
  <2>4. Having' = Having \cup {a} /\ a \notin Having
    <3>1. \A b \in Asid : Started(b)' <=> Started(b)
      BY <2>1 DEF Started
    <3>2. \A b \in Asid : Started(b) => b = a
      BY <2>1, OneIsStarted
    <3>3. pc[a] = "new"
      BY <2>1 DEF Started
    <3> QED
      BY <2>1, <3>1, <3>2, <3>3 DEF Having
  <2>5. TypeInv'
    <3>1. p_list' \in Links(Node)
      BY <1>3, <1>4, <2>1, LinksKept
    <3> QED
      BY <1>2, <2>1, <3>1 DEF TypeInv
  <2>6. OneOperation' /\ ReadIsCurrent'
    BY <1>2, <2>1 DEF OneOperation, ReadIsCurrent
  <2>7. \A b \in Having : sup[b] # q[1]
    <3>1. q[1] \in Range(q)
      BY <2>2
    <3> QED
      BY <1>1, <3>1 DEF FreeAre
  <2>8. OwnTheirs'
    BY <1>2, <2>1, <2>4, <2>7 DEF OwnTheirs
  <2>9. FreeAre(Tail(q))'
    <3>1. Range(Tail(q)) = Structure \ {sup[b] : b \in Having \cup {a}}
      BY <1>1, <2>1, <2>2 DEF FreeAre
    <3> QED
      BY <2>1, <2>3, <2>4, <3>1 DEF FreeAre
  <2> QED
    BY <2>2, <2>5, <2>6, <2>8, <2>9 DEF PoolInv
<1>10. ASSUME NEW a \in Asid, CreateProcess(a)
       PROVE  PoolInv'
  <2>1. /\ Started(a) /\ test = "create" /\ test' = "allocate" /\ pc' = [pc EXCEPT ![a] = "runs"]
        /\ p_list' = p_list /\ sup' = sup /\ first' = first
    BY <1>10 DEF CreateProcess
  <2>2. \A b \in Asid : pc'[b] = IF b = a THEN "runs" ELSE pc[b]
    BY <1>2, <2>1 DEF TypeInv
  <2>3. Having' = Having
    <3>1. \A b \in Asid : Started(b) => b = a
      BY <2>1, OneIsStarted
    <3> QED
      BY <2>1, <2>2, <3>1 DEF Having
  <2>4. TypeInv'
    BY <1>2, <2>1 DEF TypeInv
  <2>5. OneOperation' /\ ReadIsCurrent'
    BY <1>2, <2>1, <2>2 DEF OneOperation, ReadIsCurrent
  <2>6. OwnTheirs'
    BY <1>2, <2>1, <2>3 DEF OwnTheirs
  <2>7. FreeAre(q)'
    BY <1>1, <2>1, <2>3 DEF FreeAre
  <2> QED
    BY <2>4, <2>5, <2>6, <2>7 DEF PoolInv
<1>11. ASSUME NEW a \in Asid, Protected, Deallocate(a)
       PROVE  PoolInv'
  <2>1. /\ pc[a] = "runs" /\ pc' = [pc EXCEPT ![a] = "deallocate"]
        /\ first' = [first EXCEPT ![a] = p_list.next[free_support]]
        /\ p_list' = p_list /\ test' = test /\ sup' = sup /\ test # "delete"
        /\ \A b \in Asid : pc[b] # "deallocate"
    BY <1>11 DEF Deallocate, Protected
  <2>2. \A b \in Asid : pc'[b] = IF b = a THEN "deallocate" ELSE pc[b]
    BY <1>2, <2>1 DEF TypeInv
  <2>3. first'[a] = p_list.next[free_support]
    BY <1>2, <2>1 DEF TypeInv
  <2>4. \A b \in Asid : Started(b)' <=> Started(b)
    BY <2>1, <2>2 DEF Started
  <2>5. Having' = Having
    BY <2>1, <2>2, <2>4 DEF Having
  <2>6. TypeInv'
    BY <1>2, <1>5, <2>1 DEF TypeInv
  <2>7. OneOperation' /\ ReadIsCurrent'
    BY <2>1, <2>2, <2>3 DEF OneOperation, ReadIsCurrent
  <2>8. OwnTheirs'
    BY <1>2, <2>1, <2>5 DEF OwnTheirs
  <2>9. FreeAre(q)'
    BY <1>1, <2>1, <2>5 DEF FreeAre
  <2> QED
    BY <2>6, <2>7, <2>8, <2>9 DEF PoolInv
<1>12. ASSUME NEW a \in Asid, Store(a)
       PROVE  PoolInv'
  <2>1. /\ pc[a] = "deallocate" /\ pc' = [pc EXCEPT ![a] = "freed"]
        /\ test' = test /\ sup' = sup /\ first' = first /\ test # "delete"
        /\ p_list' = ListInsert(p_list, sup[a], free_support, first[a])
    BY <1>2, <1>12 DEF Store, OneOperation
  <2>2. \A b \in Asid : pc'[b] = IF b = a THEN "freed" ELSE pc[b]
    BY <1>2, <2>1 DEF TypeInv
  <2>3. \A b \in Asid : Started(b)' <=> Started(b)
    BY <2>1, <2>2 DEF Started
  <2>4. Having' = Having \ {a} /\ a \in Having
    <3>1. ~Started(a)
      BY <2>1 DEF Started
    <3> QED
      BY <2>1, <2>2, <2>3, <3>1 DEF Having
  <2>5. sup[a] \in Structure /\ \A b \in Having : sup[b] = sup[a] => b = a
    BY <1>2, <2>4 DEF OwnTheirs
  <2>6. sup[a] \notin Range(q)
    BY <1>1, <2>4 DEF FreeAre
  <2>7. p_list' = ListAdd(p_list, sup[a], free_support)
    BY <1>2, <2>1 DEF ReadIsCurrent, ListAdd
  <2>8. Holds(p_list', free_support, InsertProcQAtFront(q, sup[a]))
    <3>1. sup[a] \in Node /\ sup[a] \notin Nodes(free_support, q)
      BY <1>3, <2>5, <2>6 DEF Nodes
    <3> QED
      BY <1>3, <1>4, <2>7, <3>1, ListAddHolds
  <2>9. /\ InsertProcQAtFront(q, sup[a]) \in Seq(Structure)
        /\ Range(InsertProcQAtFront(q, sup[a])) = Range(q) \cup {sup[a]}
    BY <2>5, InsertAtFrontProperties
  <2>10. TypeInv'
    <3>1. p_list' \in Links(Node)
      BY <1>3, <1>4, <1>5, <2>5, <2>7, LinksKept DEF ListAdd
    <3> QED
      BY <1>2, <2>1, <3>1 DEF TypeInv
  <2>11. OneOperation' /\ ReadIsCurrent'
    BY <1>2, <2>1, <2>2 DEF OneOperation, ReadIsCurrent
  <2>12. OwnTheirs'
    BY <1>2, <2>1, <2>4 DEF OwnTheirs
  <2>13. FreeAre(InsertProcQAtFront(q, sup[a]))'
    <3>1. Range(q) \cup {sup[a]} = Structure \ {sup[b] : b \in Having \ {a}}
      BY <1>1, <2>4, <2>5 DEF FreeAre
    <3> QED
      BY <2>1, <2>4, <2>8, <2>9, <3>1 DEF FreeAre
  <2> QED
    BY <2>1, <2>9, <2>10, <2>11, <2>12, <2>13 DEF PoolInv
<1>13. CASE NextProtected
  <2>1. PICK a \in Asid : \/ Protected /\ (Allocate(a) \/ Deallocate(a))
                         \/ Delete(a) \/ CreateProcess(a) \/ Store(a)
    BY <1>13, Zenon DEF NextProtected
  <2> QED
    BY <1>8, <1>9, <1>10, <1>11, <1>12, <2>1, Zenon
<1> QED
  BY <1>7, <1>13, Zenon

\* Two processes share a support structure only because the operations on the
\* free list interleave: with each of them protected, for any number of
\* processes, the one that starts gets a structure that nobody has.
THEOREM ProtectedPoolIsSound ==
  UPROCMAX \in Nat => (SpecProtected => []SupportsDistinct)
<1> SUFFICES ASSUME UPROCMAX \in Nat
             PROVE  SpecProtected => []SupportsDistinct
  OBVIOUS
<1>1. Init => PoolInv
  BY PoolInit
<1>2. PoolInv /\ [NextProtected]_vars => PoolInv'
  BY PoolStep
<1>3. PoolInv => SupportsDistinct
  BY DEF PoolInv, OwnTheirs, Having, SupportsDistinct
<1> QED
  BY <1>1, <1>2, <1>3, PTL DEF SpecProtected

=============================================================================
