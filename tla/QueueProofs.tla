---------------------------- MODULE QueueProofs -----------------------------
(***************************************************************************)
(* What the components above the lists rely on, for queues of any length:  *)
(* what the operators on sequences of processes return (ProcQueues), what  *)
(* P and V do to the queue of a semaphore (Semaphores), and that the       *)
(* pointer operations of src/lib/listx.h do to a list what the operators   *)
(* on sequences say and leave all the other lists alone (Listx).  With     *)
(* them, what the proofs need of sorted lists and of remainders.           *)
(***************************************************************************)
EXTENDS Listx, Semaphores, FiniteSetTheorems, SequenceTheorems, TLAPS

-----------------------------------------------------------------------------
(* Sequences of processes                                                  *)

\* insertProcQ adds its argument to the members of the queue, and links no
\* process twice if the argument is not in the queue.
LEMMA InsertProcQProperties ==
  ASSUME NEW S, NEW q \in Seq(S), NEW p \in S
  PROVE  /\ InsertProcQ(q, p) \in Seq(S)
         /\ Range(InsertProcQ(q, p)) = Range(q) \cup {p}
         /\ IsInjective(q) /\ p \notin Range(q) => IsInjective(InsertProcQ(q, p))
<1> DEFINE r == InsertProcQ(q, p)
<1>1. /\ r \in Seq(S)
      /\ Len(r) = Len(q) + 1
      /\ \A i \in 1 .. Len(q) : r[i] = q[i]
      /\ r[Len(q) + 1] = p
  BY DEF InsertProcQ
<1>2. /\ DOMAIN q = 1 .. Len(q)
      /\ DOMAIN r = 1 .. Len(q) + 1
      /\ Len(q) \in Nat
  BY <1>1
<1>3. Range(r) = Range(q) \cup {p}
  BY <1>1, <1>2 DEF Range
<1>4. ASSUME IsInjective(q), p \notin Range(q)
      PROVE  IsInjective(r)
  <2> SUFFICES ASSUME NEW a \in DOMAIN r, NEW b \in DOMAIN r, r[a] = r[b]
               PROVE  a = b
    BY DEF IsInjective
  <2>1. CASE a \in 1 .. Len(q) /\ b \in 1 .. Len(q)
    BY <1>1, <1>2, <1>4, <2>1 DEF IsInjective
  <2>2. CASE a \in 1 .. Len(q) /\ b = Len(q) + 1
    BY <1>1, <1>2, <1>4, <2>2 DEF Range
  <2>3. CASE a = Len(q) + 1 /\ b \in 1 .. Len(q)
    BY <1>1, <1>2, <1>4, <2>3 DEF Range
  <2> QED BY <1>2, <2>1, <2>2, <2>3
<1> QED BY <1>1, <1>3, <1>4

\* removeProcQ takes exactly the head out of the queue.
LEMMA TailProperties ==
  ASSUME NEW S, NEW q \in Seq(S), q # <<>>
  PROVE  /\ Head(q) \in Range(q)
         /\ Head(q) \in S
         /\ Tail(q) \in Seq(S)
         /\ Range(q) = Range(Tail(q)) \cup {Head(q)}
         /\ IsInjective(q) => IsInjective(Tail(q)) /\ Head(q) \notin Range(Tail(q))
<1>1. /\ Len(q) \in Nat \ {0}
      /\ DOMAIN q = 1 .. Len(q)
      /\ Head(q) = q[1]
      /\ Head(q) \in S
      /\ Tail(q) \in Seq(S)
      /\ DOMAIN Tail(q) = 1 .. Len(q) - 1
      /\ \A i \in 1 .. Len(q) - 1 : Tail(q)[i] = q[i + 1]
  OBVIOUS
<1>2. Range(q) = Range(Tail(q)) \cup {q[1]}
  <2>1. ASSUME NEW i \in 1 .. Len(q)
        PROVE  q[i] \in Range(Tail(q)) \cup {q[1]}
    <3>1. CASE i = 1
      BY <3>1
    <3>2. CASE i # 1
      <4>1. i - 1 \in 1 .. Len(q) - 1 /\ Tail(q)[i - 1] = q[i]
        BY <1>1, <3>2
      <4> QED BY <1>1, <4>1 DEF Range
    <3> QED BY <3>1, <3>2
  <2>2. ASSUME NEW i \in 1 .. Len(q) - 1
        PROVE  Tail(q)[i] \in Range(q)
    BY <1>1 DEF Range
  <2>3. q[1] \in Range(q)
    BY <1>1 DEF Range
  <2> QED BY <1>1, <2>1, <2>2, <2>3 DEF Range
<1>3. ASSUME IsInjective(q)
      PROVE  IsInjective(Tail(q)) /\ q[1] \notin Range(Tail(q))
  <2>1. ASSUME NEW a \in DOMAIN Tail(q), NEW b \in DOMAIN Tail(q), Tail(q)[a] = Tail(q)[b]
        PROVE  a = b
    <3>1. a + 1 \in DOMAIN q /\ b + 1 \in DOMAIN q /\ q[a + 1] = q[b + 1]
      BY <1>1, <2>1
    <3>2. a + 1 = b + 1
      BY <1>3, <3>1 DEF IsInjective
    <3> QED BY <1>1, <3>2
  <2>2. ASSUME NEW a \in DOMAIN Tail(q), Tail(q)[a] = q[1]
        PROVE  FALSE
    <3>1. a + 1 \in DOMAIN q /\ 1 \in DOMAIN q /\ q[a + 1] = q[1]
      BY <1>1, <2>2
    <3>2. a + 1 = 1
      BY <1>3, <3>1 DEF IsInjective
    <3> QED BY <1>1, <3>2
  <2> QED BY <2>1, <2>2 DEF IsInjective, Range
<1> QED BY <1>1, <1>2, <1>3 DEF Range

\* The first process of a queue, and the last one.
LEMMA SingletonLen ==
  ASSUME NEW S, NEW q \in Seq(S), NEW p \in S
  PROVE  /\ q = <<>> => Len(InsertProcQ(q, p)) = 1
         /\ Len(q) = 1 => Tail(q) = <<>>
<1>1. q = <<>> => Len(InsertProcQ(q, p)) = 1
  BY DEF InsertProcQ
<1>2. ASSUME Len(q) = 1
      PROVE  Tail(q) = <<>>
  <2>0. Len(<<>>) # 1
    OBVIOUS
  <2>1. q # <<>>
    BY <1>2, <2>0, Zenon
  <2>2. Tail(q) \in Seq(S) /\ Len(Tail(q)) = 0
    BY <1>2, <2>1, HeadTailProperties
  <2> QED BY <2>2, EmptySeq
<1> QED BY <1>1, <1>2

\* Two queues with no process in common, one after the other.
LEMMA ConcatInjective ==
  ASSUME NEW S, NEW q \in Seq(S), NEW r \in Seq(S)
  PROVE  /\ q \o r \in Seq(S)
         /\ Range(q \o r) = Range(q) \cup Range(r)
         /\ IsInjective(q) /\ IsInjective(r) /\ Range(q) \cap Range(r) = {}
              => IsInjective(q \o r)
<1> DEFINE s == q \o r
<1>1. /\ s \in Seq(S)
      /\ Len(q) \in Nat /\ Len(r) \in Nat
      /\ DOMAIN q = 1 .. Len(q) /\ DOMAIN r = 1 .. Len(r)
      /\ DOMAIN s = 1 .. Len(q) + Len(r)
      /\ \A i \in 1 .. Len(q) : s[i] = q[i]
      /\ \A i \in Len(q) + 1 .. Len(q) + Len(r) : s[i] = r[i - Len(q)]
  OBVIOUS
<1>2. Range(s) = Range(q) \cup Range(r)
  <2>1. ASSUME NEW i \in DOMAIN s
        PROVE  s[i] \in Range(q) \cup Range(r)
    <3>1. CASE i \in 1 .. Len(q)
      BY <1>1, <3>1 DEF Range
    <3>2. CASE i \in Len(q) + 1 .. Len(q) + Len(r)
      BY <1>1, <3>2, i - Len(q) \in DOMAIN r DEF Range
    <3> QED BY <1>1, <3>1, <3>2
  <2>2. ASSUME NEW i \in DOMAIN q
        PROVE  q[i] \in Range(s)
    BY <1>1, i \in DOMAIN s DEF Range
  <2>3. ASSUME NEW i \in DOMAIN r
        PROVE  r[i] \in Range(s)
    <3>1. i + Len(q) \in DOMAIN s /\ s[i + Len(q)] = r[i]
      BY <1>1
    <3> QED BY <3>1 DEF Range
  <2> QED BY <2>1, <2>2, <2>3 DEF Range
<1>3. ASSUME IsInjective(q), IsInjective(r), Range(q) \cap Range(r) = {},
             NEW a \in DOMAIN s, NEW b \in DOMAIN s, s[a] = s[b]
      PROVE  a = b
  <2>1. CASE a \in 1 .. Len(q) /\ b \in 1 .. Len(q)
    BY <1>1, <1>3, <2>1 DEF IsInjective
  <2>2. CASE a \in Len(q) + 1 .. Len(q) + Len(r) /\ b \in Len(q) + 1 .. Len(q) + Len(r)
    <3>1. /\ a - Len(q) \in DOMAIN r /\ b - Len(q) \in DOMAIN r
          /\ r[a - Len(q)] = r[b - Len(q)]
      BY <1>1, <1>3, <2>2
    <3>2. a - Len(q) = b - Len(q)
      BY <1>3, <3>1 DEF IsInjective
    <3> QED BY <1>1, <3>2
  <2>3. CASE a \in 1 .. Len(q) /\ b \in Len(q) + 1 .. Len(q) + Len(r)
    BY <1>1, <1>3, <2>3, b - Len(q) \in DOMAIN r DEF Range
  <2>4. CASE a \in Len(q) + 1 .. Len(q) + Len(r) /\ b \in 1 .. Len(q)
    BY <1>1, <1>3, <2>4, a - Len(q) \in DOMAIN r DEF Range
  <2> QED BY <1>1, <2>1, <2>2, <2>3, <2>4
<1> QED BY <1>1, <1>2, <1>3 DEF IsInjective

-----------------------------------------------------------------------------
(* Without.  Rank is a bijection between the kept positions and            *)
(* 1 .. Cardinality(Kept(q, D)): it is injective because a later position  *)
(* counts strictly more, and an injection between finite sets of equal     *)
(* cardinality is a surjection.                                            *)

LEMMA RankProperties ==
  ASSUME NEW S, NEW q \in Seq(S), NEW D
  PROVE  /\ IsFiniteSet(Kept(q, D))
         /\ Cardinality(Kept(q, D)) \in Nat
         /\ \A i \in Kept(q, D) : Rank(q, D, i) \in 1 .. Cardinality(Kept(q, D))
         /\ \A i, j \in Kept(q, D) : Rank(q, D, i) = Rank(q, D, j) => i = j
         /\ \A n \in 1 .. Cardinality(Kept(q, D)) :
              \E i \in Kept(q, D) : Rank(q, D, i) = n
<1> DEFINE K == Kept(q, D)
           c == Cardinality(K)
           UpTo(i) == {j \in K : j <= i}
           rank == [i \in K |-> Rank(q, D, i)]
<1>1. K \subseteq 1 .. Len(q) /\ Len(q) \in Nat
  BY DEF Kept
<1>2. IsFiniteSet(K) /\ c \in Nat
  <2>1. IsFiniteSet(1 .. Len(q))
    BY <1>1, FS_Interval
  <2> QED BY <1>1, <2>1, FS_Subset, FS_CardinalityType
<1>3. ASSUME NEW i \in K
      PROVE  /\ Rank(q, D, i) = Cardinality(UpTo(i))
             /\ IsFiniteSet(UpTo(i))
             /\ i \in UpTo(i)
             /\ Cardinality(UpTo(i)) \in 1 .. c
  <2>1. Rank(q, D, i) = Cardinality(UpTo(i))
    BY DEF Rank
  <2>2. UpTo(i) \in SUBSET K /\ i \in UpTo(i)
    BY <1>1
  <2>3. IsFiniteSet(UpTo(i)) /\ Cardinality(UpTo(i)) <= c /\ Cardinality(UpTo(i)) \in Nat
    BY <1>2, <2>2, FS_Subset, FS_CardinalityType
  <2>4. Cardinality(UpTo(i)) # 0
    BY <2>2, <2>3, FS_EmptySet
  <2> HIDE DEF K, c, UpTo
  <2> QED BY <1>2, <2>1, <2>2, <2>3, <2>4
<1>4. ASSUME NEW i \in K, NEW j \in K, i < j
      PROVE  Rank(q, D, i) # Rank(q, D, j)
  <2>1. UpTo(i) \in SUBSET UpTo(j) /\ j \in UpTo(j) /\ j \notin UpTo(i)
    BY <1>1, <1>4
  <2>2. Cardinality(UpTo(i)) # Cardinality(UpTo(j))
    BY <1>3, <2>1, FS_Subset
  <2> QED BY <1>3, <2>2
<1>5. \A i, j \in K : Rank(q, D, i) = Rank(q, D, j) => i = j
  <2> SUFFICES ASSUME NEW i \in K, NEW j \in K, Rank(q, D, i) = Rank(q, D, j)
               PROVE  i = j
    OBVIOUS
  <2>1. i \in Int /\ j \in Int
    BY <1>1
  <2>2. ~(i < j) /\ ~(j < i)
    BY <1>4
  <2> QED BY <2>1, <2>2
<1>6. rank \in Injection(K, 1 .. c)
  <2>1. \A i \in K : Rank(q, D, i) \in 1 .. c
    BY <1>3
  <2> HIDE DEF K, c
  <2> QED BY <1>5, <2>1 DEF Injection, IsInjective
<1>7. IsFiniteSet(1 .. c) /\ Cardinality(1 .. c) = c
  <2> HIDE DEF c
  <2> QED BY <1>2, FS_Interval
<1>8. rank \in Surjection(K, 1 .. c)
  <2> HIDE DEF c, K, rank
  <2>1. Cardinality(K) = Cardinality(1 .. c)
    BY <1>7 DEF c
  <2> QED BY <1>6, <1>7, <2>1, FS_Injection
<1>9. \A n \in 1 .. c : \E i \in K : Rank(q, D, i) = n
  <2> HIDE DEF c, K
  <2> QED BY <1>8 DEF Surjection
<1>10. \A i \in K : Rank(q, D, i) \in 1 .. c
  BY <1>3
<1> QED BY <1>2, <1>5, <1>9, <1>10

\* outProcQ removes the members of D, all of them and nothing else, and
\* leaves no process linked twice.
LEMMA WithoutProperties ==
  ASSUME NEW S, NEW q \in Seq(S), NEW D
  PROVE  /\ Without(q, D) \in Seq(S)
         /\ Range(Without(q, D)) = Range(q) \ D
         /\ IsInjective(q) => IsInjective(Without(q, D))
<1> DEFINE K == Kept(q, D)
           c == Cardinality(K)
           At(n) == CHOOSE i \in K : Rank(q, D, i) = n
           w == Without(q, D)
<1>1. c \in Nat
  BY RankProperties
<1>2. ASSUME NEW n \in 1 .. c
      PROVE  At(n) \in K /\ Rank(q, D, At(n)) = n
  <2>1. \E i \in K : Rank(q, D, i) = n
    BY RankProperties
  <2> QED BY <2>1
<1>3. ASSUME NEW i \in K
      PROVE  Rank(q, D, i) \in 1 .. c /\ At(Rank(q, D, i)) = i
  <2>1. Rank(q, D, i) \in 1 .. c
    BY RankProperties
  <2>2. At(Rank(q, D, i)) \in K /\ Rank(q, D, At(Rank(q, D, i))) = Rank(q, D, i)
    BY <1>2, <2>1
  <2> HIDE DEF At
  <2>3. \A k, l \in K : Rank(q, D, k) = Rank(q, D, l) => k = l
    BY RankProperties
  <2> QED BY <2>1, <2>2, <2>3
<1>4. w = [n \in 1 .. c |-> q[At(n)]]
  BY DEF Without
<1> HIDE DEF At, w, c
<1>5. \A i \in K : i \in DOMAIN q /\ q[i] \in S /\ q[i] \notin D
  BY DEF Kept
<1>6. w \in [1 .. c -> S]
  BY <1>2, <1>4, <1>5
<1>7. w \in Seq(S)
  BY <1>1, <1>6, SeqDef
<1>8. Range(w) = Range(q) \ D
  <2>1. ASSUME NEW n \in 1 .. c
        PROVE  w[n] \in Range(q) \ D
    BY <1>2, <1>4, <1>5 DEF Range
  <2>2. ASSUME NEW v \in Range(q) \ D
        PROVE  v \in Range(w)
    <3>1. PICK i \in DOMAIN q : v = q[i]
      BY DEF Range
    <3>2. i \in K
      BY <3>1 DEF Kept
    <3>3. Rank(q, D, i) \in 1 .. c /\ w[Rank(q, D, i)] = v
      BY <1>3, <1>4, <3>1, <3>2
    <3> QED BY <1>6, <3>3 DEF Range
  <2> QED BY <1>6, <2>1, <2>2 DEF Range
<1>9. ASSUME IsInjective(q), NEW a \in 1 .. c, NEW b \in 1 .. c, w[a] = w[b]
      PROVE  a = b
  <2>1. At(a) \in DOMAIN q /\ At(b) \in DOMAIN q /\ q[At(a)] = q[At(b)]
    BY <1>2, <1>4, <1>5, <1>9
  <2>2. At(a) = At(b)
    BY <1>9, <2>1 DEF IsInjective
  <2> QED BY <1>2, <2>2
<1>10. DOMAIN w = 1 .. c
  BY <1>6
<1>11. IsInjective(q) => IsInjective(w)
  BY <1>9, <1>10 DEF IsInjective
<1> QED BY <1>7, <1>8, <1>11 DEF w

\* outProcQ keeps the order of those it leaves.
LEMMA WithoutOrder ==
  ASSUME NEW S, NEW q \in Seq(S), NEW D,
         NEW a \in DOMAIN Without(q, D), NEW b \in DOMAIN Without(q, D), a < b
  PROVE  \E i, j \in DOMAIN q : i < j /\ Without(q, D)[a] = q[i] /\ Without(q, D)[b] = q[j]
<1> DEFINE K == Kept(q, D)
           c == Cardinality(K)
           At(n) == CHOOSE i \in K : Rank(q, D, i) = n
<1>1. a \in 1 .. c /\ b \in 1 .. c
  BY DEF Without
<1>2. ASSUME NEW n \in 1 .. c
      PROVE  At(n) \in K /\ Rank(q, D, At(n)) = n
  <2>1. \E i \in K : Rank(q, D, i) = n
    BY RankProperties
  <2> QED BY <2>1
<1>3. Without(q, D)[a] = q[At(a)] /\ Without(q, D)[b] = q[At(b)]
  BY <1>1 DEF Without
<1>4. PICK i \in K : i = At(a) /\ Rank(q, D, i) = a
  BY <1>1, <1>2
<1>5. PICK j \in K : j = At(b) /\ Rank(q, D, j) = b
  BY <1>1, <1>2
<1> HIDE DEF At, c
<1>6. i \in DOMAIN q /\ j \in DOMAIN q /\ i \in Nat /\ j \in Nat
  BY DEF Kept
<1>7. i < j
  <2> SUFFICES ASSUME j <= i PROVE FALSE
    BY <1>6
  <2>1. {k \in K : k <= j} \in SUBSET {k \in K : k <= i}
    BY <1>6 DEF Kept
  <2>2. IsFiniteSet({k \in K : k <= i})
    <3>1. IsFiniteSet(K) /\ {k \in K : k <= i} \in SUBSET K
      BY RankProperties
    <3> QED BY <3>1, FS_Subset
  <2>3. Rank(q, D, j) <= Rank(q, D, i)
    BY <2>1, <2>2, FS_Subset DEF Rank
  <2>4. a \in Int /\ b \in Int
    BY <1>1
  <2> QED BY <1>4, <1>5, <2>3, <2>4
<1> QED BY <1>3, <1>4, <1>5, <1>6, <1>7

\* outProcQ of processes that are not in the queue changes nothing.
LEMMA WithoutNothing ==
  ASSUME NEW S, NEW q \in Seq(S), NEW D, D \cap Range(q) = {}
  PROVE  Without(q, D) = q
<1>1. Len(q) \in Nat /\ DOMAIN q = 1 .. Len(q)
  OBVIOUS
<1>2. Kept(q, D) = 1 .. Len(q)
  BY <1>1 DEF Kept, Range
<1>3. ASSUME NEW i \in 1 .. Len(q)
      PROVE  Rank(q, D, i) = i
  <2>1. {j \in 1 .. Len(q) : j <= i} = 1 .. i
    BY <1>1
  <2>2. Cardinality(1 .. i) = i
    BY <1>1, FS_Interval
  <2> QED BY <1>2, <2>1, <2>2 DEF Rank
<1>4. Cardinality(1 .. Len(q)) = Len(q)
  BY <1>1, FS_Interval
<1>5. Without(q, D) = [n \in 1 .. Len(q) |-> q[CHOOSE i \in 1 .. Len(q) : Rank(q, D, i) = n]]
  BY <1>2, <1>4 DEF Without
<1>6. ASSUME NEW n \in 1 .. Len(q)
      PROVE  (CHOOSE i \in 1 .. Len(q) : Rank(q, D, i) = n) = n
  BY <1>3
<1>7. Without(q, D) = [n \in 1 .. Len(q) |-> q[n]]
  BY <1>5, <1>6
<1> QED BY <1>1, <1>7

-----------------------------------------------------------------------------
(* Positions.  A set of positions that has with every position all the     *)
(* ones before it is an interval, as long as its cardinality.              *)

LEMMA PrefixClosed ==
  ASSUME NEW n \in Nat, NEW S \in SUBSET (1 .. n), \A i \in S : 1 .. i \subseteq S
  PROVE  Cardinality(S) \in 0 .. n /\ S = 1 .. Cardinality(S)
<1> DEFINE c == Cardinality(S)
<1>1. \A m \in Nat : IsFiniteSet(1 .. m) /\ Cardinality(1 .. m) = m
  BY FS_Interval
<1>2. IsFiniteSet(S) /\ c \in Nat /\ c <= n
  <2>1. IsFiniteSet(S) /\ c <= Cardinality(1 .. n)
    BY <1>1, FS_Subset
  <2>2. c \in Nat
    BY <2>1, FS_CardinalityType
  <2> HIDE DEF c
  <2> QED BY <1>1, <2>1, <2>2
<1>3. ASSUME NEW i \in S
      PROVE  i \in 1 .. c
  <2>1. i \in Nat /\ i >= 1 /\ (1 .. i) \in SUBSET S
    OBVIOUS
  <2>2. Cardinality(1 .. i) <= c
    BY <1>2, <2>1, FS_Subset
  <2> QED BY <1>1, <1>2, <2>1, <2>2
<1>4. ASSUME NEW i \in 1 .. c, i \notin S
      PROVE  FALSE
  <2>1. \A j \in S : j < i
    BY <1>4
  <2>2. S \in SUBSET (1 .. i - 1) /\ i - 1 \in Nat
    BY <2>1
  <2>3. c <= Cardinality(1 .. i - 1)
    BY <1>1, <2>2, FS_Subset
  <2> QED BY <1>1, <1>2, <2>2, <2>3
<1>5. S = 1 .. c
  <2> HIDE DEF c
  <2> QED BY <1>2, <1>3, <1>4
<1>6. c \in 0 .. n
  <2> HIDE DEF c
  <2> QED BY <1>2
<1> QED BY <1>5, <1>6

LEMMA LeastElement ==
  ASSUME NEW n \in Nat, NEW S \in SUBSET (0 .. n), S # {}
  PROVE  \E m \in S : \A k \in S : m <= k
<1> DEFINE T == {i \in 1 .. n : \A k \in S : i <= k}
           c == Cardinality(T)
<1>1. c \in 0 .. n /\ T = 1 .. c
  <2>1. T \in SUBSET (1 .. n) /\ \A i \in T : 1 .. i \subseteq T
    OBVIOUS
  <2> HIDE DEF T
  <2> QED BY <2>1, PrefixClosed
<1> HIDE DEF c
<1>2. \A k \in S : c <= k
  <2>1. CASE c = 0
    BY <2>1
  <2>2. CASE c # 0
    <3>1. c \in T
      BY <1>1, <2>2
    <3> QED BY <3>1
  <2> QED BY <2>1, <2>2
<1>3. CASE c \in S
  BY <1>2, <1>3
<1>4. CASE c \notin S
  <2>1. \A k \in S : c + 1 <= k
    BY <1>1, <1>2, <1>4
  <2>2. c + 1 \in 1 .. n
    <3>1. PICK k \in S : TRUE
      OBVIOUS
    <3>2. c + 1 <= k /\ k <= n /\ k \in Int
      BY <2>1
    <3> QED BY <1>1, <3>2
  <2>3. c + 1 \in T
    BY <2>1, <2>2
  <2>4. c + 1 \in 1 .. c /\ c \in Int
    <3> HIDE DEF T
    <3> QED BY <1>1, <2>3
  <2> QED BY <2>4
<1> QED BY <1>3, <1>4

LEMMA GreatestElement ==
  ASSUME NEW n \in Nat, NEW S \in SUBSET (0 .. n), S # {}
  PROVE  \E m \in S : \A k \in S : k <= m
<1> DEFINE T == {n - k : k \in S}
<1>1. T \in SUBSET (0 .. n) /\ T # {}
  <2>1. \A k \in S : n - k \in 0 .. n
    OBVIOUS
  <2>2. PICK k \in S : TRUE
    OBVIOUS
  <2>3. n - k \in T
    OBVIOUS
  <2> QED BY <2>1, <2>3
<1>2. PICK t \in T : \A u \in T : t <= u
  <2> HIDE DEF T
  <2> QED BY <1>1, LeastElement
<1>3. PICK m \in S : t = n - m
  OBVIOUS
<1>4. ASSUME NEW k \in S
      PROVE  k <= m
  <2>1. n - k \in T
    OBVIOUS
  <2>2. t <= n - k
    BY <1>2, <2>1
  <2> QED BY <1>3, <2>2
<1> QED BY <1>4

-----------------------------------------------------------------------------
(* Sorted lists                                                            *)

\* x is linked in behind the element number last.
LinkedIn(h, x, last) == SubSeq(h, 1, last) \o <<x>> \o SubSeq(h, last + 1, Len(h))

\* What the list is then.
LEMMA InsertionAt ==
  ASSUME NEW S, NEW h \in Seq(S), NEW x \in S, NEW last \in 0 .. Len(h)
  PROVE  LET r == LinkedIn(h, x, last) IN
         /\ r \in Seq(S) /\ DOMAIN r = 1 .. Len(h) + 1
         /\ Range(r) = Range(h) \cup {x}
         /\ \A i \in 1 .. Len(h) + 1 :
              r[i] = IF i <= last THEN h[i] ELSE IF i = last + 1 THEN x ELSE h[i - 1]
<1>1. /\ Len(h) \in Nat /\ DOMAIN h = 1 .. Len(h)
      /\ \A i \in 1 .. Len(h) : h[i] \in S
  OBVIOUS
<1>2. last \in Nat /\ last + 1 \in Int /\ Len(h) \in Int /\ last <= Len(h)
  BY <1>1
<1>3. /\ SubSeq(h, 1, last) \in Seq(S) /\ Len(SubSeq(h, 1, last)) = last
      /\ \A i \in 1 .. last : SubSeq(h, 1, last)[i] = h[i]
  <2>1. \A i \in 1 .. last : h[i] \in S
    BY <1>1
  <2>2. last \in Int /\ 1 \in Int
    BY <1>2
  <2>3. /\ SubSeq(h, 1, last) \in Seq(S)
        /\ Len(SubSeq(h, 1, last)) = IF 1 <= last THEN last - 1 + 1 ELSE 0
        /\ \A i \in 1 .. last - 1 + 1 : SubSeq(h, 1, last)[i] = h[1 + i - 1]
    BY <2>1, <2>2, SubSeqProperties
  <2> QED BY <1>1, <2>2, <2>3
<1>4. /\ SubSeq(h, last + 1, Len(h)) \in Seq(S)
      /\ Len(SubSeq(h, last + 1, Len(h))) = Len(h) - last
      /\ \A i \in 1 .. Len(h) - last : SubSeq(h, last + 1, Len(h))[i] = h[last + i]
  <2>1. \A i \in last + 1 .. Len(h) : h[i] \in S
    BY <1>1, <1>2
  <2>2. /\ SubSeq(h, last + 1, Len(h)) \in Seq(S)
        /\ Len(SubSeq(h, last + 1, Len(h)))
             = IF last + 1 <= Len(h) THEN Len(h) - (last + 1) + 1 ELSE 0
        /\ \A i \in 1 .. Len(h) - (last + 1) + 1 :
             SubSeq(h, last + 1, Len(h))[i] = h[(last + 1) + i - 1]
    BY <1>2, <2>1, SubSeqProperties
  <2>3. Len(h) - (last + 1) + 1 = Len(h) - last /\ (last + 1 <= Len(h) \/ Len(h) - last = 0)
    <3> HIDE <1>1
    <3> QED BY <1>2
  <2>4. ASSUME NEW i \in 1 .. Len(h) - last
        PROVE  SubSeq(h, last + 1, Len(h))[i] = h[last + i]
    <3>1. (last + 1) + i - 1 = last + i
      BY <1>2
    <3>2. SubSeq(h, last + 1, Len(h))[i] = h[(last + 1) + i - 1]
      BY <2>2, <2>3
    <3> QED BY <3>1, <3>2
  <2> QED BY <2>2, <2>3, <2>4
<1> DEFINE r == LinkedIn(h, x, last)
           front == SubSeq(h, 1, last)
           rest == SubSeq(h, last + 1, Len(h))
<1>5. r = (front \o <<x>>) \o rest
  BY DEF LinkedIn
<1>6. front \in Seq(S) /\ rest \in Seq(S) /\ <<x>> \in Seq(S)
  BY <1>3, <1>4
<1>7. /\ Len(front) = last /\ \A i \in 1 .. last : front[i] = h[i]
      /\ Len(rest) = Len(h) - last /\ \A i \in 1 .. Len(h) - last : rest[i] = h[last + i]
  BY <1>3, <1>4
<1> HIDE DEF r, front, rest
<1>8. /\ front \o <<x>> \in Seq(S) /\ Len(front \o <<x>>) = last + 1
      /\ \A i \in 1 .. last + 1 : (front \o <<x>>)[i] = IF i <= last THEN h[i] ELSE x
  BY <1>2, <1>6, <1>7
<1>9. /\ r \in Seq(S) /\ Len(r) = Len(h) + 1
      /\ \A i \in 1 .. Len(h) + 1 :
           r[i] = IF i <= last + 1 THEN (front \o <<x>>)[i] ELSE rest[i - (last + 1)]
  BY <1>2, <1>5, <1>6, <1>7, <1>8, ConcatProperties
<1>10. ASSUME NEW i \in 1 .. Len(h) + 1
       PROVE  r[i] = IF i <= last THEN h[i] ELSE IF i = last + 1 THEN x ELSE h[i - 1]
  <2>1. CASE i <= last + 1
    BY <1>2, <1>8, <1>9, <2>1
  <2>2. CASE i > last + 1
    <3>1. i - (last + 1) \in 1 .. Len(h) - last /\ last + (i - (last + 1)) = i - 1
      BY <1>2, <2>2
    <3>2. rest[i - (last + 1)] = h[i - 1]
      BY <1>7, <3>1
    <3> QED BY <1>2, <1>9, <2>2, <3>2
  <2> QED BY <1>2, <2>1, <2>2
<1>11. DOMAIN r = 1 .. Len(h) + 1
  BY <1>9
<1>12. Range(r) = Range(h) \cup {x}
  <2>1. Range(r) = {r[i] : i \in 1 .. Len(h) + 1} /\ Range(h) = {h[i] : i \in 1 .. Len(h)}
    BY <1>1, <1>11 DEF Range
  <2>2. ASSUME NEW i \in 1 .. Len(h)
        PROVE  \E j \in 1 .. Len(h) + 1 : r[j] = h[i]
    <3>1. CASE i <= last
      BY <1>1, <1>2, <1>9, <1>10, <3>1
    <3>2. CASE i > last
      <4>1. i + 1 \in 1 .. Len(h) + 1 /\ (i + 1) - 1 = i /\ ~(i + 1 <= last) /\ i + 1 # last + 1
        BY <1>1, <3>2
      <4> QED BY <1>10, <4>1
    <3> QED BY <1>1, <3>1, <3>2
  <2>3. last + 1 \in 1 .. Len(h) + 1 /\ r[last + 1] = x
    BY <1>1, <1>2, <1>9, <1>10
  <2>4. ASSUME NEW i \in 1 .. Len(h) + 1
        PROVE  r[i] \in {h[j] : j \in 1 .. Len(h)} \cup {x}
    <3>1. CASE i <= last
      <4>1. i \in 1 .. Len(h)
        BY <1>2, <3>1
      <4> QED BY <1>10, <3>1, <4>1
    <3>2. CASE i = last + 1
      BY <1>2, <1>10, <3>2
    <3>3. CASE i > last + 1
      <4>1. i - 1 \in 1 .. Len(h) /\ ~(i <= last) /\ i # last + 1
        BY <1>2, <3>3
      <4> QED BY <1>10, <4>1
    <3> QED BY <1>2, <3>1, <3>2, <3>3
  <2> QED BY <2>1, <2>2, <2>3, <2>4
<1> QED BY <1>9, <1>10, <1>11, <1>12 DEF r

\* A list that is sorted by the key f stays so if x is linked in behind the
\* smaller keys.
LEMMA SortedInsertion ==
  ASSUME NEW S, NEW h \in Seq(S), NEW x \in S, NEW last \in 0 .. Len(h), NEW f,
         f[x] \in Int
  PROVE  LET r == LinkedIn(h, x, last) IN
         /\ \A i \in 1 .. Len(h) : f[h[i]] \in Int
         /\ \A i, j \in 1 .. Len(h) : i < j => f[h[i]] < f[h[j]]
         /\ \A i \in 1 .. last : f[h[i]] < f[x]
         /\ \A i \in last + 1 .. Len(h) : f[x] < f[h[i]]
         => \A i, j \in DOMAIN r : i < j => f[r[i]] < f[r[j]]
<1> DEFINE r == LinkedIn(h, x, last)
<1>1. /\ Len(h) \in Nat /\ DOMAIN h = 1 .. Len(h)
      /\ last \in Nat /\ last <= Len(h)
  OBVIOUS
<1>2. /\ DOMAIN r = 1 .. Len(h) + 1
      /\ \A i \in 1 .. Len(h) + 1 :
           r[i] = IF i <= last THEN h[i] ELSE IF i = last + 1 THEN x ELSE h[i - 1]
  BY InsertionAt
<1> HIDE DEF r
<1>3. SUFFICES ASSUME \A i \in 1 .. Len(h) : f[h[i]] \in Int,
                      \A i, j \in 1 .. Len(h) : i < j => f[h[i]] < f[h[j]],
                      \A i \in 1 .. last : f[h[i]] < f[x],
                      \A i \in last + 1 .. Len(h) : f[x] < f[h[i]]
               PROVE  \A i, j \in DOMAIN r : i < j => f[r[i]] < f[r[j]]
  BY DEF r
<1>4. ASSUME NEW i \in DOMAIN r, NEW j \in DOMAIN r, i < j
      PROVE  f[r[i]] < f[r[j]]
  <2> DEFINE old(n) == IF n <= last THEN n ELSE n - 1
  <2>1. ASSUME NEW n \in 1 .. Len(h) + 1, n # last + 1
        PROVE  old(n) \in 1 .. Len(h) /\ r[n] = h[old(n)]
    BY <1>1, <1>2, <2>1
  <2>2. i \in 1 .. Len(h) + 1 /\ j \in 1 .. Len(h) + 1
    BY <1>2
  <2>3. CASE i # last + 1 /\ j # last + 1
    <3>1. old(i) < old(j)
      BY <1>1, <1>4, <2>2, <2>3
    <3>2. /\ old(i) \in 1 .. Len(h) /\ r[i] = h[old(i)]
          /\ old(j) \in 1 .. Len(h) /\ r[j] = h[old(j)]
      BY <2>1, <2>2, <2>3
    <3> HIDE DEF old
    <3> QED BY <1>3, <3>1, <3>2
  <2>4. CASE i = last + 1 /\ j # last + 1
    <3>1. old(j) \in last + 1 .. Len(h)
      BY <1>1, <1>4, <2>2, <2>4
    <3>2. r[i] = x /\ r[j] = h[old(j)]
      BY <1>1, <1>2, <2>1, <2>2, <2>4
    <3> HIDE DEF old
    <3> QED BY <1>3, <3>1, <3>2
  <2>5. CASE i # last + 1 /\ j = last + 1
    <3>1. old(i) \in 1 .. last
      BY <1>1, <1>4, <2>2, <2>5
    <3>2. r[j] = x /\ r[i] = h[old(i)]
      BY <1>1, <1>2, <2>1, <2>2, <2>5
    <3> HIDE DEF old
    <3> QED BY <1>3, <3>1, <3>2
  <2>6. ~(i = last + 1 /\ j = last + 1)
    BY <1>1, <1>4
  <2> QED BY <2>3, <2>4, <2>5, <2>6
<1> QED BY <1>4

-----------------------------------------------------------------------------
(* Remainders                                                              *)

\* What the remainder of a division is, by a divisor that is not a literal.
LEMMA RemainderFacts ==
  ASSUME NEW w \in Nat \ {0}, NEW x \in Int
  PROVE  /\ x % w \in 0 .. w - 1
         /\ \E q \in Int : x = w * q + (x % w)
<1>1. x % w \in 0 .. w - 1
  OBVIOUS
<1>2. x \div w \in Int /\ x = w * (x \div w) + (x % w)
  OBVIOUS
<1> QED BY <1>1, <1>2

\* A product with an integer other than 0 is at least as large.
LEMMA ProductBound ==
  ASSUME NEW w \in Nat \ {0}, NEW n \in Int, -w < w * n, w * n < w
  PROVE  n = 0
<1>1. CASE n >= 1
  OBVIOUS
<1>2. CASE n <= -1
  OBVIOUS
<1> QED BY <1>1, <1>2

\* There is only one remainder.
LEMMA RemainderUnique ==
  ASSUME NEW w \in Nat \ {0}, NEW x \in Int, NEW q \in Int, NEW r \in 0 .. w - 1,
         x = w * q + r
  PROVE  x % w = r
<1>1. PICK k \in Int : x = w * k + (x % w)
  BY RemainderFacts
<1>2. x % w \in 0 .. w - 1
  BY RemainderFacts
<1>3. w * (q - k) = (x % w) - r
  <2>1. w * (q - k) = w * q - w * k
    OBVIOUS
  <2> QED BY <1>1, <1>2, <2>1
<1>4. q - k = 0
  BY <1>2, <1>3, ProductBound
<1> QED BY <1>1, <1>4

-----------------------------------------------------------------------------
(* Semaphores                                                              *)

\* PASSEREN on a semaphore with value 1 and an empty queue takes it, and on one
\* with value 0 blocks.
LEMMA SemPProperties ==
  ASSUME NEW S, NEW s \in SemaphoreType(S), NEW p \in S,
         s.val = 1 => s.queue = <<>>
  PROVE  /\ SemP(s, p) \in SemaphoreType(S)
         /\ SemP(s, p).user_asid = s.user_asid
         /\ SemP(s, p).val = 0
         /\ s.val = 1 => SemP(s, p).queue = <<>>
         /\ s.val = 0 => SemP(s, p).queue = InsertProcQ(s.queue, p)
         /\ Range(SemP(s, p).queue) = Range(s.queue) \cup (IF s.val = 0 THEN {p} ELSE {})
         /\ IsInjective(s.queue) /\ p \notin Range(s.queue) => IsInjective(SemP(s, p).queue)
<1>1. s.queue \in Seq(S) /\ s.val \in {0, 1}
  BY DEF SemaphoreType
<1>2. CASE s.val = 0
  <2>1. SemP(s, p) = [s EXCEPT !.queue = InsertProcQ(@, p)]
    BY <1>2 DEF SemP
  <2>2. /\ InsertProcQ(s.queue, p) \in Seq(S)
        /\ Range(InsertProcQ(s.queue, p)) = Range(s.queue) \cup {p}
        /\ IsInjective(s.queue) /\ p \notin Range(s.queue)
              => IsInjective(InsertProcQ(s.queue, p))
    BY <1>1, InsertProcQProperties
  <2>3. /\ SemP(s, p) \in SemaphoreType(S)
        /\ SemP(s, p).queue = InsertProcQ(s.queue, p)
        /\ SemP(s, p).val = 0
        /\ SemP(s, p).user_asid = s.user_asid
    BY <1>2, <2>1, <2>2 DEF SemaphoreType
  <2> QED BY <1>2, <2>2, <2>3
<1>3. CASE s.val = 1
  <2>1. SemP(s, p) = [s EXCEPT !.val = 0]
    BY <1>3 DEF SemP
  <2> QED BY <1>1, <1>3, <2>1 DEF SemaphoreType
<1> QED BY <1>1, <1>2, <1>3

\* VERHOGEN on a semaphore with value 0 wakes the first process that waits,
\* which has the mutex then, or sets the value to 1.
LEMMA SemVProperties ==
  ASSUME NEW S, NEW s \in SemaphoreType(S), NEW p \in S,
         s.val = 0
  PROVE  /\ SemV(s, p) \in SemaphoreType(S)
         /\ SemV(s, p).user_asid = s.user_asid
         /\ s.queue = <<>> => SemV(s, p).val = 1 /\ SemV(s, p).queue = <<>>
         /\ s.queue # <<>> =>
              /\ SemV(s, p).val = 0
              /\ SemV(s, p).queue = Tail(s.queue)
              /\ Head(s.queue) \in Range(s.queue)
              /\ Range(s.queue) = Range(SemV(s, p).queue) \cup {Head(s.queue)}
              /\ IsInjective(s.queue) =>
                   IsInjective(SemV(s, p).queue) /\ Head(s.queue) \notin Range(SemV(s, p).queue)
<1>1. s.queue \in Seq(S)
  BY DEF SemaphoreType
<1>2. CASE s.queue = <<>>
  <2>1. SemV(s, p) = [s EXCEPT !.val = 1]
    BY <1>2 DEF SemV
  <2> QED BY <1>1, <1>2, <2>1 DEF SemaphoreType
<1>3. CASE s.queue # <<>>
  <2>1. SemV(s, p) = [s EXCEPT !.queue = Tail(@)]
    BY <1>3 DEF SemV
  <2>2. /\ Tail(s.queue) \in Seq(S)
        /\ Head(s.queue) \in Range(s.queue)
        /\ Range(s.queue) = Range(Tail(s.queue)) \cup {Head(s.queue)}
        /\ IsInjective(s.queue) =>
             IsInjective(Tail(s.queue)) /\ Head(s.queue) \notin Range(Tail(s.queue))
    BY <1>1, <1>3, TailProperties
  <2>3. /\ SemV(s, p) \in SemaphoreType(S)
        /\ SemV(s, p).queue = Tail(s.queue)
        /\ SemV(s, p).val = 0
        /\ SemV(s, p).user_asid = s.user_asid
    BY <2>1, <2>2 DEF SemaphoreType
  <2> QED BY <1>3, <2>2, <2>3
<1> QED BY <1>2, <1>3

-----------------------------------------------------------------------------
(* Pointers                                                                *)

\* The list is empty for list_empty when it holds no element, and the first
\* element is behind the head.
THEOREM ListEmptyIsEmpty ==
  ASSUME NEW Node, NEW mem \in Links(Node), NEW head \in Node, NEW q \in Seq(Node),
         Holds(mem, head, q)
  PROVE  /\ ListEmpty(mem, head) <=> q = <<>>
         /\ q # <<>> => mem.next[head] = Head(q)
<1>1. Len(q) \in Nat /\ DOMAIN q = 1 .. Len(q)
  OBVIOUS
<1>2. RingNode(head, q, 0) = head
  BY <1>1 DEF RingNode
<1>3. mem.next[head] = RingNode(head, q, 1)
  BY <1>1, <1>2 DEF Holds
<1>4. CASE q = <<>>
  BY <1>1, <1>3, <1>4 DEF RingNode, ListEmpty
<1>5. CASE q # <<>>
  <2>1. Len(q) > 0
    BY <1>1, <1>5
  <2>2. RingNode(head, q, 1) = q[1] /\ q[1] \in Range(q) /\ Head(q) = q[1]
    BY <1>1, <2>1 DEF RingNode, Range
  <2> QED
    BY <1>3, <1>5, <2>2 DEF ListEmpty, Holds
<1> QED
  BY <1>4, <1>5

\* INIT_LIST_HEAD makes the empty list.
THEOREM InitListHeadHolds ==
  ASSUME NEW Node, NEW mem \in Links(Node), NEW head \in Node
  PROVE  /\ InitListHead(mem, head) \in Links(Node)
         /\ Holds(InitListHead(mem, head), head, <<>>)
<1> DEFINE m == InitListHead(mem, head)
<1>1. m \in Links(Node) /\ m.next[head] = head /\ m.prev[head] = head
  BY DEF InitListHead, Links
<1>2. IsInjective(<<>>) /\ Range(<<>>) = {} /\ Len(<<>>) = 0 /\ DOMAIN <<>> = {}
  BY DEF IsInjective, Range
<1> HIDE DEF m
<1>3. \A n \in 0 .. Len(<<>>) : n = 0
  BY <1>2
<1>4. \A n : RingNode(head, <<>>, n) = head
  BY <1>2 DEF RingNode
<1>5. Holds(m, head, <<>>)
  BY <1>1, <1>2, <1>3, <1>4 DEF Holds
<1> QED
  BY <1>1, <1>5 DEF m

-----------------------------------------------------------------------------
(* The ring of a list *)

LEMMA RingProperties ==
  ASSUME NEW Node, NEW head \in Node, NEW q \in Seq(Node),
         IsInjective(q), head \notin Range(q)
  PROVE  /\ RingNode(head, q, 0) = head
         /\ RingNode(head, q, Len(q) + 1) = head
         /\ \A n \in 1 .. Len(q) : RingNode(head, q, n) = q[n] /\ q[n] # head
         /\ \A n \in Nat : RingNode(head, q, n) \in Nodes(head, q)
         /\ Nodes(head, q) \subseteq Node
         /\ \A n, k \in 0 .. Len(q) :
              RingNode(head, q, n) = RingNode(head, q, k) => n = k
         /\ \A n, k \in 1 .. Len(q) + 1 :
              RingNode(head, q, n) = RingNode(head, q, k) => n = k
<1>1. Len(q) \in Nat /\ DOMAIN q = 1 .. Len(q)
  OBVIOUS
<1>2. \A n \in 1 .. Len(q) : q[n] \in Range(q) /\ q[n] \in Node
  BY <1>1 DEF Range
<1>3. Range(q) \subseteq Node
  BY <1>1, <1>2 DEF Range
<1>4. RingNode(head, q, 0) = head /\ RingNode(head, q, Len(q) + 1) = head
  BY <1>1 DEF RingNode
<1>5. \A n \in 1 .. Len(q) : RingNode(head, q, n) = q[n] /\ q[n] # head
  BY <1>1, <1>2 DEF RingNode
<1>6. \A n, k \in 1 .. Len(q) : q[n] = q[k] => n = k
  BY <1>1 DEF IsInjective
<1>7. \A n \in Nat : RingNode(head, q, n) \in Nodes(head, q)
  BY <1>1, <1>2 DEF RingNode, Nodes
<1>8. \A n, k \in 0 .. Len(q) : RingNode(head, q, n) = RingNode(head, q, k) => n = k
  BY <1>1, <1>4, <1>5, <1>6
<1>9. \A n, k \in 1 .. Len(q) + 1 : RingNode(head, q, n) = RingNode(head, q, k) => n = k
  BY <1>1, <1>4, <1>5, <1>6
<1> QED
  BY <1>3, <1>4, <1>5, <1>7, <1>8, <1>9 DEF Nodes

-----------------------------------------------------------------------------
(* Insertion *)

\* The sequence with new after its first k elements.
Inserted(q, k, new) ==
  [n \in 1 .. Len(q) + 1 |->
     IF n <= k THEN q[n] ELSE IF n = k + 1 THEN new ELSE q[n - 1]]

LEMMA InsertedProperties ==
  ASSUME NEW Node, NEW q \in Seq(Node), NEW head \in Node, NEW new \in Node,
         NEW k \in 0 .. Len(q), IsInjective(q), head \notin Range(q),
         new \notin Nodes(head, q)
  PROVE  LET r == Inserted(q, k, new) IN
         /\ r \in Seq(Node) /\ Len(r) = Len(q) + 1
         /\ IsInjective(r) /\ Range(r) = Range(q) \cup {new} /\ head \notin Range(r)
         /\ \A n \in 0 .. Len(q) + 2 :
              RingNode(head, r, n) =
                IF n <= k THEN RingNode(head, q, n)
                ELSE IF n = k + 1 THEN new ELSE RingNode(head, q, n - 1)
<1> DEFINE r == Inserted(q, k, new)
<1>1. /\ Len(q) \in Nat /\ DOMAIN q = 1 .. Len(q)
      /\ \A n \in 1 .. Len(q) : q[n] \in Range(q) /\ q[n] \in Node
      /\ \A n, m \in 1 .. Len(q) : q[n] = q[m] => n = m
      /\ new # head /\ new \notin Range(q)
  BY DEF Range, IsInjective, Nodes
<1>2. /\ DOMAIN r = 1 .. Len(q) + 1
      /\ \A n \in 1 .. Len(q) + 1 :
           r[n] = IF n <= k THEN q[n] ELSE IF n = k + 1 THEN new ELSE q[n - 1]
  BY DEF Inserted
<1> HIDE DEF r
<1>3. \A n \in 1 .. Len(q) + 1 : r[n] \in Node
  BY <1>1, <1>2
<1>4. r \in Seq(Node) /\ Len(r) = Len(q) + 1
  <2>1. r = [n \in 1 .. Len(q) + 1 |-> r[n]]
    BY <1>2 DEF r, Inserted
  <2> QED
    BY <1>1, <1>2, <1>3, <2>1
<1>5. IsInjective(r)
  <2> SUFFICES ASSUME NEW n \in 1 .. Len(q) + 1, NEW m \in 1 .. Len(q) + 1, r[n] = r[m]
               PROVE  n = m
    BY <1>2 DEF IsInjective
  <2> QED
    BY <1>1, <1>2, SMTT(30)
<1>6. Range(r) = Range(q) \cup {new}
  <2>1. \A x \in Range(r) : x \in Range(q) \cup {new}
    <3> SUFFICES ASSUME NEW n \in 1 .. Len(q) + 1
                 PROVE  r[n] \in Range(q) \cup {new}
      BY <1>2 DEF Range
    <3> QED
      BY <1>1, <1>2
  <2>2. new \in Range(r)
    <3>1. r[k + 1] = new /\ k + 1 \in DOMAIN r
      BY <1>1, <1>2
    <3> QED
      BY <3>1 DEF Range
  <2>3. \A n \in 1 .. Len(q) : q[n] \in Range(r)
    <3> SUFFICES ASSUME NEW n \in 1 .. Len(q)
                 PROVE  \E m \in DOMAIN r : r[m] = q[n]
      BY DEF Range
    <3>1. CASE n <= k
      <4>1. n \in DOMAIN r /\ r[n] = q[n]
        BY <1>1, <1>2, <3>1
      <4> QED
        BY <4>1
    <3>2. CASE n > k
      <4>1. n + 1 \in DOMAIN r /\ r[n + 1] = q[n]
        BY <1>1, <1>2, <3>2
      <4> QED
        BY <4>1
    <3> QED
      BY <1>1, <3>1, <3>2
  <2> QED
    BY <1>1, <2>1, <2>2, <2>3 DEF Range
<1>7. \A n \in 0 .. Len(q) + 2 :
        RingNode(head, r, n) =
          IF n <= k THEN RingNode(head, q, n)
          ELSE IF n = k + 1 THEN new ELSE RingNode(head, q, n - 1)
  BY <1>1, <1>2 DEF RingNode
<1> QED
  BY <1>1, <1>4, <1>5, <1>6, <1>7 DEF r

LEMMA ListInsertHolds ==
  ASSUME NEW Node, NEW mem \in Links(Node), NEW head \in Node, NEW q \in Seq(Node),
         NEW new \in Node, NEW k \in 0 .. Len(q),
         Holds(mem, head, q), new \notin Nodes(head, q)
  PROVE  Holds(ListInsert(mem, new, RingNode(head, q, k), RingNode(head, q, k + 1)),
               head, Inserted(q, k, new))
<1> DEFINE r == Inserted(q, k, new)
           R(n) == RingNode(head, q, n)
           S(n) == RingNode(head, r, n)
           m == ListInsert(mem, new, R(k), R(k + 1))
<1>1. /\ Len(q) \in Nat
      /\ IsInjective(q) /\ head \notin Range(q)
      /\ \A n \in 0 .. Len(q) : mem.next[R(n)] = R(n + 1) /\ mem.prev[R(n + 1)] = R(n)
  BY DEF Holds
<1>2. /\ \A n \in Nat : R(n) \in Node /\ R(n) # new
      /\ \A n, j \in 0 .. Len(q) : R(n) = R(j) => n = j
      /\ \A n, j \in 1 .. Len(q) + 1 : R(n) = R(j) => n = j
  BY <1>1, RingProperties
<1>3. /\ Len(r) = Len(q) + 1 /\ IsInjective(r) /\ head \notin Range(r)
      /\ \A n \in 0 .. Len(q) + 2 :
           S(n) = IF n <= k THEN R(n) ELSE IF n = k + 1 THEN new ELSE R(n - 1)
  BY <1>1, InsertedProperties
<1>4. \A x \in Node :
        /\ m.next[x] = IF x = R(k) THEN new ELSE IF x = new THEN R(k + 1) ELSE mem.next[x]
        /\ m.prev[x] = IF x = new THEN R(k) ELSE IF x = R(k + 1) THEN new ELSE mem.prev[x]
  BY <1>1, <1>2 DEF ListInsert, Links
<1> HIDE DEF r, R, S, m
<1>5. ASSUME NEW n \in 0 .. Len(q) + 1
      PROVE  m.next[S(n)] = S(n + 1) /\ m.prev[S(n + 1)] = S(n)
  <2>1. CASE n < k
    <3>1. S(n) = R(n) /\ S(n + 1) = R(n + 1)
      BY <1>1, <1>3, <2>1
    <3>2. R(n) # R(k) /\ R(n + 1) # R(k + 1)
      BY <1>1, <1>2, <2>1
    <3> QED
      BY <1>1, <1>2, <1>4, <2>1, <3>1, <3>2
  <2>2. CASE n = k
    <3>1. S(n) = R(k) /\ S(n + 1) = new
      BY <1>1, <1>3, <2>2
    <3> QED
      BY <1>1, <1>2, <1>4, <3>1
  <2>3. CASE n = k + 1
    <3>1. S(n) = new /\ S(n + 1) = R(k + 1)
      BY <1>1, <1>3, <2>3
    <3> QED
      BY <1>1, <1>2, <1>4, <3>1
  <2>4. CASE n > k + 1
    <3>1. S(n) = R(n - 1) /\ S(n + 1) = R(n) /\ n - 1 \in 0 .. Len(q) /\ n - 1 > k
      BY <1>1, <1>3, <2>4
    <3>2. R(n - 1) # R(k) /\ R(n) # R(k + 1)
      BY <1>1, <1>2, <2>4, <3>1
    <3>3. mem.next[R(n - 1)] = R(n) /\ mem.prev[R(n)] = R(n - 1)
      <4>1. (n - 1) + 1 = n
        BY <1>1
      <4> QED
        BY <1>1, <3>1, <4>1
    <3> QED
      BY <1>1, <1>2, <1>4, <2>4, <3>1, <3>2, <3>3
  <2> QED
    BY <1>1, <2>1, <2>2, <2>3, <2>4
<1>6. Holds(m, head, r)
  BY <1>1, <1>3, <1>5 DEF Holds, S
<1> QED
  BY <1>6 DEF m, r, R

\* list_add puts the new element before all the others.
THEOREM ListAddHolds ==
  ASSUME NEW Node, NEW mem \in Links(Node), NEW head \in Node, NEW q \in Seq(Node),
         NEW new \in Node, Holds(mem, head, q), new \notin Nodes(head, q)
  PROVE  Holds(ListAdd(mem, new, head), head, InsertProcQAtFront(q, new))
<1>1. /\ Len(q) \in Nat /\ DOMAIN q = 1 .. Len(q)
      /\ IsInjective(q) /\ head \notin Range(q)
  BY DEF Holds
<1>2. RingNode(head, q, 0) = head /\ RingNode(head, q, 1) = mem.next[head]
  BY <1>1, RingProperties DEF Holds
<1>3. Inserted(q, 0, new) = InsertProcQAtFront(q, new)
  <2> DEFINE r == InsertProcQAtFront(q, new)
  <2>1. r \in Seq(Node) /\ Len(r) = Len(q) + 1
    BY DEF InsertProcQAtFront
  <2>2. \A n \in 1 .. Len(q) + 1 : r[n] = Inserted(q, 0, new)[n]
    BY <1>1 DEF InsertProcQAtFront, Inserted
  <2>3. r = [n \in 1 .. Len(q) + 1 |-> r[n]]
    BY <2>1
  <2>4. Inserted(q, 0, new) = [n \in 1 .. Len(q) + 1 |-> Inserted(q, 0, new)[n]]
    BY DEF Inserted
  <2> HIDE DEF r
  <2> QED
    BY <2>2, <2>3, <2>4 DEF r
<1>4. Holds(ListInsert(mem, new, RingNode(head, q, 0), RingNode(head, q, 0 + 1)),
            head, Inserted(q, 0, new))
  BY <1>1, ListInsertHolds
<1> QED
  BY <1>2, <1>3, <1>4 DEF ListAdd

\* list_add_tail puts it behind all the others: insertProcQ and insertChild.
THEOREM ListAddTailHolds ==
  ASSUME NEW Node, NEW mem \in Links(Node), NEW head \in Node, NEW q \in Seq(Node),
         NEW new \in Node, Holds(mem, head, q), new \notin Nodes(head, q)
  PROVE  Holds(ListAddTail(mem, new, head), head, InsertProcQ(q, new))
<1>1. /\ Len(q) \in Nat /\ DOMAIN q = 1 .. Len(q)
      /\ IsInjective(q) /\ head \notin Range(q)
  BY DEF Holds
<1>2. RingNode(head, q, Len(q) + 1) = head /\ mem.prev[head] = RingNode(head, q, Len(q))
  BY <1>1, RingProperties DEF Holds
<1>3. Inserted(q, Len(q), new) = InsertProcQ(q, new)
  <2> DEFINE r == InsertProcQ(q, new)
             s == Inserted(q, Len(q), new)
  <2>1. r \in Seq(Node) /\ Len(r) = Len(q) + 1
    BY DEF InsertProcQ
  <2>2. \A n \in 1 .. Len(q) + 1 : r[n] = s[n]
    BY <1>1 DEF InsertProcQ, Inserted
  <2>3. r = [n \in 1 .. Len(q) + 1 |-> r[n]]
    BY <2>1
  <2>4. s = [n \in 1 .. Len(q) + 1 |-> s[n]]
    BY DEF Inserted
  <2> HIDE DEF r, s
  <2>5. r = s
    BY <2>2, <2>3, <2>4
  <2> QED
    BY <2>5 DEF r, s
<1>4. Holds(ListInsert(mem, new, RingNode(head, q, Len(q)), RingNode(head, q, Len(q) + 1)),
            head, Inserted(q, Len(q), new))
  BY <1>1, ListInsertHolds
<1> QED
  BY <1>2, <1>3, <1>4 DEF ListAddTail

-----------------------------------------------------------------------------
(* Removal *)

\* The sequence without its k-th element.
Removed(q, k) == [n \in 1 .. Len(q) - 1 |-> IF n < k THEN q[n] ELSE q[n + 1]]

LEMMA RemovedProperties ==
  ASSUME NEW Node, NEW q \in Seq(Node), NEW head \in Node,
         NEW k \in 1 .. Len(q), IsInjective(q), head \notin Range(q)
  PROVE  LET r == Removed(q, k) IN
         /\ r \in Seq(Node) /\ Len(r) = Len(q) - 1
         /\ IsInjective(r) /\ head \notin Range(r)
         /\ \A n \in 0 .. Len(q) :
              RingNode(head, r, n) =
                IF n < k THEN RingNode(head, q, n) ELSE RingNode(head, q, n + 1)
<1> DEFINE r == Removed(q, k)
<1>1. /\ Len(q) \in Nat /\ DOMAIN q = 1 .. Len(q)
      /\ \A n \in 1 .. Len(q) : q[n] \in Range(q) /\ q[n] \in Node
      /\ \A n, m \in 1 .. Len(q) : q[n] = q[m] => n = m
  BY DEF Range, IsInjective
<1>2. /\ DOMAIN r = 1 .. Len(q) - 1
      /\ \A n \in 1 .. Len(q) - 1 : r[n] = IF n < k THEN q[n] ELSE q[n + 1]
      /\ r = [n \in 1 .. Len(q) - 1 |-> r[n]]
  BY DEF Removed
<1> HIDE DEF r
<1>3. \A n \in 1 .. Len(q) - 1 : r[n] \in Node /\ r[n] \in Range(q)
  BY <1>1, <1>2
<1>4. r \in Seq(Node) /\ Len(r) = Len(q) - 1
  BY <1>1, <1>2, <1>3
<1>5. IsInjective(r)
  <2> SUFFICES ASSUME NEW n \in 1 .. Len(q) - 1, NEW m \in 1 .. Len(q) - 1, r[n] = r[m]
               PROVE  n = m
    BY <1>2 DEF IsInjective
  <2> QED
    BY <1>1, <1>2
<1>6. head \notin Range(r)
  BY <1>2, <1>3 DEF Range
<1>7. \A n \in 0 .. Len(q) :
        RingNode(head, r, n) =
          IF n < k THEN RingNode(head, q, n) ELSE RingNode(head, q, n + 1)
  BY <1>1, <1>2 DEF RingNode
<1> QED
  BY <1>4, <1>5, <1>6, <1>7 DEF r

\* list_del takes an element out and leaves the others in their order.
LEMMA ListDelAt ==
  ASSUME NEW Node, NEW mem \in Links(Node), NEW head \in Node, NEW q \in Seq(Node),
         NEW k \in 1 .. Len(q), Holds(mem, head, q)
  PROVE  Holds(ListDel(mem, q[k]), head, Removed(q, k))
<1> DEFINE r == Removed(q, k)
           R(n) == RingNode(head, q, n)
           S(n) == RingNode(head, r, n)
           m == ListDel(mem, q[k])
<1>1. /\ Len(q) \in Nat
      /\ IsInjective(q) /\ head \notin Range(q)
      /\ \A n \in 0 .. Len(q) : mem.next[R(n)] = R(n + 1) /\ mem.prev[R(n + 1)] = R(n)
  BY DEF Holds
<1>2. /\ \A n \in Nat : R(n) \in Node
      /\ \A n, j \in 0 .. Len(q) : R(n) = R(j) => n = j
      /\ \A n, j \in 1 .. Len(q) + 1 : R(n) = R(j) => n = j
      /\ q[k] = R(k)
  BY <1>1, RingProperties
<1>3. /\ Len(r) = Len(q) - 1 /\ IsInjective(r) /\ head \notin Range(r)
      /\ \A n \in 0 .. Len(q) : S(n) = IF n < k THEN R(n) ELSE R(n + 1)
  BY <1>1, RemovedProperties
<1>4. mem.next[q[k]] = R(k + 1) /\ mem.prev[q[k]] = R(k - 1)
  <2>1. k - 1 \in 0 .. Len(q) /\ (k - 1) + 1 = k /\ k \in 0 .. Len(q)
    BY <1>1
  <2>2. mem.prev[R((k - 1) + 1)] = R(k - 1) /\ mem.next[R(k)] = R(k + 1)
    BY <1>1, <2>1
  <2> HIDE DEF R
  <2> QED
    BY <1>2, <2>1, <2>2
<1>5. \A x \in Node :
        /\ m.next[x] = IF x = R(k - 1) THEN R(k + 1) ELSE mem.next[x]
        /\ m.prev[x] = IF x = R(k + 1) THEN R(k - 1) ELSE mem.prev[x]
  BY <1>4 DEF ListDel, Links
<1> HIDE DEF r, R, S, m
<1>6. ASSUME NEW n \in 0 .. Len(q) - 1
      PROVE  m.next[S(n)] = S(n + 1) /\ m.prev[S(n + 1)] = S(n)
  <2>1. CASE n < k - 1
    <3>1. S(n) = R(n) /\ S(n + 1) = R(n + 1)
      BY <1>1, <1>3, <2>1
    <3>2. R(n) # R(k - 1) /\ R(n + 1) # R(k + 1)
      BY <1>1, <1>2, <2>1
    <3> QED
      BY <1>1, <1>2, <1>5, <2>1, <3>1, <3>2
  <2>2. CASE n = k - 1
    <3>1. S(n) = R(k - 1) /\ S(n + 1) = R(k + 1)
      <4>1. n < k /\ n + 1 = k /\ n \in 0 .. Len(q) /\ k \in 0 .. Len(q)
        BY <1>1, <2>2
      <4> QED
        BY <1>3, <2>2, <4>1
    <3>2. k - 1 \in Nat /\ k + 1 \in Nat
      OBVIOUS
    <3> QED
      BY <1>2, <1>5, <3>1, <3>2
  <2>3. CASE n >= k
    <3>1. S(n) = R(n + 1) /\ S(n + 1) = R((n + 1) + 1) /\ n + 1 \in 0 .. Len(q)
      BY <1>1, <1>3, <2>3
    <3>2. R(n + 1) # R(k - 1) /\ R((n + 1) + 1) # R(k + 1)
      BY <1>1, <1>2, <2>3
    <3> QED
      BY <1>1, <1>2, <1>5, <3>1, <3>2
  <2> QED
    BY <1>1, <2>1, <2>2, <2>3
<1>7. Holds(m, head, r)
  BY <1>1, <1>3, <1>6 DEF Holds, S
<1> QED
  BY <1>7 DEF m, r

LEMMA RemovedIsWithout ==
  ASSUME NEW Node, NEW q \in Seq(Node), NEW k \in 1 .. Len(q), IsInjective(q)
  PROVE  Removed(q, k) = Without(q, {q[k]})
<1> DEFINE D == {q[k]}
           K == Kept(q, D)
<1>1. /\ Len(q) \in Nat /\ DOMAIN q = 1 .. Len(q)
      /\ \A n, m \in 1 .. Len(q) : q[n] = q[m] => n = m
  BY DEF IsInjective
<1>2. K = (1 .. Len(q)) \ {k}
  BY <1>1 DEF Kept
<1> HIDE DEF D, K
<1>3. \A n \in Nat : IsFiniteSet(1 .. n) /\ Cardinality(1 .. n) = n
  BY FS_Interval
<1>4. Cardinality(K) = Len(q) - 1
  <2>1. IsFiniteSet(1 .. Len(q)) /\ Cardinality(1 .. Len(q)) = Len(q)
    BY <1>1, <1>3
  <2>2. k \in 1 .. Len(q)
    OBVIOUS
  <2>3. Cardinality((1 .. Len(q)) \ {k}) = Cardinality(1 .. Len(q)) - 1
    BY <2>1, <2>2, FS_RemoveElement
  <2> QED BY <1>2, <2>1, <2>3
<1>5. \A i \in K : Rank(q, D, i) = IF i < k THEN i ELSE i - 1
  <2> SUFFICES ASSUME NEW i \in K
               PROVE  Rank(q, D, i) = IF i < k THEN i ELSE i - 1
    OBVIOUS
  <2>1. Rank(q, D, i) = Cardinality({j \in K : j <= i})
    BY DEF Rank, K
  <2>2. CASE i < k
    <3>1. {j \in K : j <= i} = 1 .. i /\ i \in Nat
      BY <1>1, <1>2, <2>2
    <3>2. Cardinality(1 .. i) = i
      BY <1>3, <3>1
    <3> QED
      BY <2>1, <2>2, <3>1, <3>2
  <2>3. CASE i > k
    <3>1. {j \in K : j <= i} = (1 .. i) \ {k}
      BY <1>1, <1>2, <2>3
    <3>2. k \in 1 .. i /\ i \in Nat
      BY <1>1, <1>2, <2>3
    <3>3. Cardinality((1 .. i) \ {k}) = i - 1
      BY <1>3, <3>2, FS_RemoveElement
    <3>4. ~(i < k)
      BY <1>1, <2>3, <3>2
    <3> QED
      BY <2>1, <3>1, <3>3, <3>4
  <2> QED
    BY <1>1, <1>2, <2>2, <2>3
<1>6. ASSUME NEW n \in 1 .. Len(q) - 1
      PROVE  Without(q, D)[n] = IF n < k THEN q[n] ELSE q[n + 1]
  <2> DEFINE at == IF n < k THEN n ELSE n + 1
  <2>1. at \in K /\ Rank(q, D, at) = n
    <3>1. at \in K
      BY <1>1, <1>2
    <3>2. Rank(q, D, at) = IF at < k THEN at ELSE at - 1
      BY <1>5, <3>1
    <3> QED
      BY <1>1, <3>1, <3>2
  <2>2. \A i \in K : Rank(q, D, i) = n => i = at
    BY <1>1, <1>2, <1>5
  <2>3. (CHOOSE i \in K : Rank(q, D, i) = n) = at
    <3> HIDE DEF at
    <3> QED
      BY <2>1, <2>2
  <2>4. Without(q, D)[n] = q[CHOOSE i \in K : Rank(q, D, i) = n]
    BY <1>1, <1>4 DEF Without, K
  <2> QED
    BY <2>3, <2>4
<1>7. Without(q, D) = [n \in 1 .. Len(q) - 1 |-> Without(q, D)[n]]
  BY <1>4 DEF Without, K
<1>8. Removed(q, k) = [n \in 1 .. Len(q) - 1 |-> Removed(q, k)[n]]
  BY DEF Removed
<1>9. \A n \in 1 .. Len(q) - 1 : Removed(q, k)[n] = Without(q, D)[n]
  BY <1>6 DEF Removed
<1> QED
  BY <1>7, <1>8, <1>9 DEF D

\* list_del, wherever the element is: outProcQ, removeProcQ, and the removal of
\* a killed process from the middle of a queue.
THEOREM ListDelHolds ==
  ASSUME NEW Node, NEW mem \in Links(Node), NEW head \in Node, NEW q \in Seq(Node),
         NEW p \in Range(q), Holds(mem, head, q)
  PROVE  Holds(ListDel(mem, p), head, Without(q, {p}))
<1>1. PICK k \in 1 .. Len(q) : q[k] = p
  BY DEF Range
<1>2. Holds(ListDel(mem, q[k]), head, Removed(q, k))
  BY ListDelAt
<1>3. Removed(q, k) = Without(q, {q[k]})
  BY RemovedIsWithout DEF Holds
<1> QED
  BY <1>1, <1>2, <1>3

\* list_del of the first element: allocPcb, removeProcQ, _allocate.
THEOREM ListDelFirstHolds ==
  ASSUME NEW Node, NEW mem \in Links(Node), NEW head \in Node, NEW q \in Seq(Node),
         q # <<>>, Holds(mem, head, q)
  PROVE  Holds(ListDel(mem, mem.next[head]), head, Tail(q))
<1>1. Len(q) \in Nat \ {0} /\ DOMAIN q = 1 .. Len(q)
  OBVIOUS
<1>2. mem.next[head] = q[1]
  BY ListEmptyIsEmpty
<1>3. Holds(ListDel(mem, q[1]), head, Removed(q, 1))
  BY <1>1, ListDelAt
<1>4. Removed(q, 1) = Tail(q)
  <2> DEFINE r == Removed(q, 1)
             s == Tail(q)
  <2>1. s \in Seq(Node) /\ Len(s) = Len(q) - 1
    BY <1>1
  <2>2. \A n \in 1 .. Len(q) - 1 : r[n] = s[n]
    BY <1>1 DEF Removed
  <2>3. s = [n \in 1 .. Len(q) - 1 |-> s[n]]
    <3> HIDE DEF s
    <3> QED
      BY <1>1, <2>1
  <2>4. r = [n \in 1 .. Len(q) - 1 |-> r[n]]
    BY DEF Removed
  <2> HIDE DEF r, s
  <2>5. r = s
    BY <2>2, <2>3, <2>4
  <2> QED
    BY <2>5 DEF r, s
<1> QED
  BY <1>2, <1>3, <1>4

-----------------------------------------------------------------------------
(* Other lists in the same memory *)

\* An operation on one list changes no other: the queues share p_list, and a
\* process is moved from one to another.
THEOREM OtherListsKept ==
  ASSUME NEW Node, NEW mem \in Links(Node),
         NEW head \in Node, NEW q \in Seq(Node), Holds(mem, head, q),
         NEW other \in Node, NEW s \in Seq(Node), Holds(mem, other, s),
         Nodes(head, q) \cap Nodes(other, s) = {}
  PROVE  /\ \A new \in Node \ Nodes(other, s) :
              /\ Holds(ListAdd(mem, new, head), other, s)
              /\ Holds(ListAddTail(mem, new, head), other, s)
         /\ \A p \in Range(q) : Holds(ListDel(mem, p), other, s)
<1> DEFINE R(n) == RingNode(head, q, n)
           S(n) == RingNode(other, s, n)
<1>1. /\ Len(q) \in Nat /\ Len(s) \in Nat
      /\ IsInjective(q) /\ head \notin Range(q)
      /\ IsInjective(s) /\ other \notin Range(s)
      /\ \A n \in 0 .. Len(q) : mem.next[R(n)] = R(n + 1) /\ mem.prev[R(n + 1)] = R(n)
      /\ \A n \in 0 .. Len(s) : mem.next[S(n)] = S(n + 1) /\ mem.prev[S(n + 1)] = S(n)
  BY DEF Holds
<1>2. \A n \in Nat : R(n) \in Nodes(head, q) /\ S(n) \in Nodes(other, s)
  BY <1>1, RingProperties
<1>3. Nodes(other, s) \subseteq Node /\ Nodes(head, q) \subseteq Node
  BY <1>1, RingProperties
<1>4. ASSUME NEW m \in [next : [Node -> Node], prev : [Node -> Node]],
             \A x \in Nodes(other, s) : m.next[x] = mem.next[x] /\ m.prev[x] = mem.prev[x]
      PROVE  Holds(m, other, s)
  BY <1>1, <1>2, <1>4 DEF Holds
<1>5. mem.next[head] \in Nodes(head, q) /\ mem.prev[head] \in Nodes(head, q)
  <2>1. R(0) = head /\ R(Len(q) + 1) = head
    BY <1>1, RingProperties
  <2> HIDE DEF R
  <2> QED
    BY <1>1, <1>2, <2>1
<1>6. \A p \in Range(q) : mem.next[p] \in Nodes(head, q) /\ mem.prev[p] \in Nodes(head, q)
  <2> SUFFICES ASSUME NEW k \in 1 .. Len(q)
               PROVE  mem.next[q[k]] \in Nodes(head, q) /\ mem.prev[q[k]] \in Nodes(head, q)
    BY DEF Range
  <2>1. q[k] = R(k)
    BY <1>1, RingProperties
  <2>2. k - 1 \in 0 .. Len(q) /\ (k - 1) + 1 = k /\ k \in 0 .. Len(q) /\ k + 1 \in Nat
    BY <1>1
  <2>3. mem.prev[R((k - 1) + 1)] = R(k - 1) /\ mem.next[R(k)] = R(k + 1)
    BY <1>1, <2>2
  <2> HIDE DEF R
  <2> QED
    BY <1>2, <2>1, <2>2, <2>3
<1>7. ASSUME NEW new \in Node \ Nodes(other, s), NEW a \in Nodes(head, q), NEW b \in Nodes(head, q)
      PROVE  Holds(ListInsert(mem, new, a, b), other, s)
  <2> DEFINE m == ListInsert(mem, new, a, b)
  <2>1. m \in [next : [Node -> Node], prev : [Node -> Node]]
    BY <1>3 DEF ListInsert, Links
  <2>2. \A x \in Nodes(other, s) : m.next[x] = mem.next[x] /\ m.prev[x] = mem.prev[x]
    BY <1>3 DEF ListInsert, Links
  <2> HIDE DEF m
  <2> QED
    BY <1>4, <2>1, <2>2 DEF m
<1>8. ASSUME NEW p \in Range(q)
      PROVE  Holds(ListDel(mem, p), other, s)
  <2> DEFINE m == ListDel(mem, p)
  <2>1. p \in Nodes(head, q) /\ p \in Node
    BY <1>3 DEF Nodes
  <2>2. m \in [next : [Node -> Node], prev : [Node -> Node]]
    BY <1>3, <1>6, <2>1 DEF ListDel, Links
  <2>3. \A x \in Nodes(other, s) : m.next[x] = mem.next[x] /\ m.prev[x] = mem.prev[x]
    BY <1>3, <1>6, <2>1 DEF ListDel, Links
  <2> HIDE DEF m
  <2> QED
    BY <1>4, <2>2, <2>3 DEF m
<1>9. head \in Nodes(head, q)
  BY DEF Nodes
<1> QED
  BY <1>5, <1>7, <1>8, <1>9 DEF ListAdd, ListAddTail

=============================================================================
