---------------------------- MODULE TimersProofs ----------------------------
(***************************************************************************)
(* Proofs about the CPU time of the processes and the interval timer, for  *)
(* every width of the TOD and every length of a pseudo-second.             *)
(*                                                                         *)
(* The stopwatch was started at some instant that the TOD shows modulo     *)
(* 2^32 (StopwatchOK): what p_time has, and what has passed since that     *)
(* instant, is between the time that the process executed and the time in  *)
(* which it held the CPU.  Differences of two readings of the TOD are      *)
(* exact, also across the point where it becomes negative, because no      *)
(* process holds the CPU for half the range of the word.                   *)
(***************************************************************************)
EXTENDS Timers, QueueProofs

Busy == {"process", "syscall"}

ModeOK ==
  /\ mode \in Busy => curr_process # Null
  /\ mode \in {"nucleus", "wait"} => curr_process = Null

HeldOK ==
  \A p \in Process :
    /\ held[p] < Half
    /\ held[p] <= clock
    /\ ran[p] <= held[p]

ChargedOK ==
  \A p \in Process :
    /\ 0 <= p_time[p] /\ p_time[p] <= held[p]
    /\ p # curr_process => ran[p] <= p_time[p]

\* The stopwatch was started at the instant start.
StartedAt(start) ==
  /\ timer_start = Signed(start)
  /\ p_time[curr_process] + (clock - start) <= held[curr_process]
  /\ ran[curr_process] <=
       p_time[curr_process] + (IF mode \in Busy THEN clock - start ELSE 0)

StopwatchOK == curr_process # Null => \E start \in 0 .. clock : StartedAt(start)

\* A timer that has left units to go at the instant now expires at a multiple
\* of PSECOND of a TOD that counts on instead of becoming negative.
Expires(left, now) ==
  left > 0 => \E reading \in -Half .. Half + 2 * PSECOND :
                /\ reading + left < Half + 2 * PSECOND
                /\ Signed(reading) = Signed(now)
                /\ (reading + left) % PSECOND = 0

ExpiresOK == Expires(it, clock)

IInv == TypeOK /\ ModeOK /\ HeldOK /\ ChargedOK /\ StopwatchOK /\ ExpiresOK

-----------------------------------------------------------------------------
(* Words                                                                   *)

LEMMA Constants ==
  /\ Half \in Nat /\ Half > 0
  /\ WordSize \in Nat \ {0} /\ WordSize = 2 * Half
  /\ PSECOND \in Nat \ {0} /\ PSECOND < Half
  /\ MaxTime \in Nat
<1>1. Half \in Int
  BY TimersAssumption DEF Half
<1> QED BY <1>1, TimersAssumption

\* A word is the number that was cut to it but for a multiple of WordSize.
LEMMA SignedFacts ==
  ASSUME NEW x \in Int
  PROVE  /\ Signed(x) \in Word
         /\ \E q \in Int : Signed(x) = x + WordSize * q
<1>1. /\ (x + Half) % WordSize \in 0 .. WordSize - 1
      /\ \E q \in Int : x + Half = WordSize * q + ((x + Half) % WordSize)
  <2>1. x + Half \in Int
    BY Constants
  <2> QED BY <2>1, Constants, RemainderFacts
<1>2. PICK q \in Int : x + Half = WordSize * q + ((x + Half) % WordSize)
  BY <1>1
<1> DEFINE r == (x + Half) % WordSize
<1> HIDE DEF r
<1>3. Signed(x) = r - Half /\ r \in 0 .. WordSize - 1 /\ x + Half = WordSize * q + r
  BY <1>1, <1>2 DEF Signed, r
<1>4. Signed(x) \in Word
  BY <1>3, Constants DEF Word
<1>5. Signed(x) = x + WordSize * (-q)
  <2>1. WordSize * (-q) = -(WordSize * q) /\ WordSize * q \in Int
    BY Constants
  <2> QED BY <1>3, <2>1, Constants
<1> QED BY <1>4, <1>5

\* The word that a number is cut to.
LEMMA SignedUnique ==
  ASSUME NEW x \in Int, NEW y \in Word, NEW q \in Int, x = y + WordSize * q
  PROVE  Signed(x) = y
<1>1. x + Half = WordSize * q + (y + Half) /\ y + Half \in 0 .. WordSize - 1
  <2>1. WordSize * q \in Int
    BY Constants
  <2> QED BY <2>1, Constants DEF Word
<1>2. (x + Half) % WordSize = y + Half
  <2>1. x + Half \in Int
    BY Constants
  <2> QED BY <1>1, <2>1, Constants, RemainderUnique
<1> QED BY <1>2, Constants DEF Signed, Word

LEMMA SignedIdentity ==
  ASSUME NEW x \in Word
  PROVE  Signed(x) = x
<1>1. x \in Int /\ x = x + WordSize * 0
  BY Constants DEF Word
<1> QED BY <1>1, SignedUnique

LEMMA SignedCongruent ==
  ASSUME NEW x \in Int, NEW y \in Int, NEW q \in Int, x = y + WordSize * q
  PROVE  Signed(x) = Signed(y)
<1>1. PICK n \in Int : Signed(y) = y + WordSize * n
  BY SignedFacts
<1>2. x = Signed(y) + WordSize * (q - n)
  <2>1. /\ WordSize * (q - n) = WordSize * q - WordSize * n
        /\ WordSize * q \in Int /\ WordSize * n \in Int
    BY Constants
  <2> QED BY <1>1, <2>1
<1>3. Signed(y) \in Word
  BY SignedFacts
<1> QED BY <1>2, <1>3, SignedUnique

\* Equal readings are still equal after the same time.
LEMMA SignedLater ==
  ASSUME NEW x \in Int, NEW y \in Int, NEW n \in Int, Signed(x) = Signed(y)
  PROVE  Signed(x + n) = Signed(y + n)
<1>1. PICK a \in Int : Signed(x) = x + WordSize * a
  BY SignedFacts
<1>2. PICK b \in Int : Signed(y) = y + WordSize * b
  BY SignedFacts
<1>3. x + n = (y + n) + WordSize * (b - a)
  <2>1. /\ WordSize * (b - a) = WordSize * b - WordSize * a
        /\ WordSize * b \in Int /\ WordSize * a \in Int
    BY Constants
  <2>2. x + WordSize * a = y + WordSize * b
    BY <1>1, <1>2
  <2> DEFINE xs == WordSize * a
  <2> DEFINE ys == WordSize * b
  <2> DEFINE ds == WordSize * (b - a)
  <2>3. xs \in Int /\ ys \in Int /\ ds = ys - xs /\ x + xs = y + ys
    BY <2>1, <2>2
  <2> HIDE DEF xs, ys, ds
  <2>4. x + n = (y + n) + ds
    BY <2>3
  <2> QED BY <2>4 DEF ds
<1>4. x + n \in Int /\ y + n \in Int /\ b - a \in Int
  OBVIOUS
<1> QED BY <1>3, <1>4, SignedCongruent

\* What is added to p_time is the time that has passed between two readings of
\* the TOD, if the sum can be represented.
LEMMA SignedDifference ==
  ASSUME NEW t \in Int, NEW start \in Int, NEW now \in Int, t + (now - start) \in Word
  PROVE  Signed(t + Signed(now) - Signed(start)) = t + (now - start)
<1>1. PICK a \in Int : Signed(now) = now + WordSize * a
  BY SignedFacts
<1>2. PICK b \in Int : Signed(start) = start + WordSize * b
  BY SignedFacts
<1>3. t + Signed(now) - Signed(start) = t + (now - start) + WordSize * (a - b)
  <2>1. /\ WordSize * (a - b) = WordSize * a - WordSize * b
        /\ WordSize * a \in Int /\ WordSize * b \in Int
    BY Constants
  <2> QED BY <1>1, <1>2, <2>1
<1>4. t + Signed(now) - Signed(start) \in Int
  BY SignedFacts DEF Word
<1> QED BY <1>3, <1>4, SignedUnique

\* What resetIntervalTimer loads runs out at the next multiple of PSECOND, or
\* at the one after that while the TOD is negative.
LEMMA IntervalFacts ==
  ASSUME NEW t \in Int
  PROVE  /\ PSECOND - CRem(t, PSECOND) \in 1 .. 2 * PSECOND - 1
         /\ (t + (PSECOND - CRem(t, PSECOND))) % PSECOND = 0
<1> DEFINE rem == CRem(t, PSECOND)
<1>1. rem \in -(PSECOND - 1) .. PSECOND - 1 /\ \E k \in Int : t - rem = PSECOND * k
  <2>1. CASE t >= 0
    <3>1. t % PSECOND \in 0 .. PSECOND - 1 /\ \E q \in Int : t = PSECOND * q + (t % PSECOND)
      BY Constants, RemainderFacts
    <3>2. rem = t % PSECOND
      BY <2>1 DEF CRem
    <3>3. PICK q \in Int : t = PSECOND * q + (t % PSECOND)
      BY <3>1
    <3> HIDE DEF rem
    <3>4. PSECOND * q \in Int
      BY Constants
    <3>5. t - rem = PSECOND * q
      BY <3>1, <3>2, <3>3, <3>4
    <3>6. rem \in -(PSECOND - 1) .. PSECOND - 1
      BY <3>1, <3>2, Constants
    <3> QED BY <3>5, <3>6
  <2>2. CASE t < 0
    <3> DEFINE s == -t
    <3>1. s \in Int /\ ~(t >= 0)
      BY <2>2
    <3>2. rem = -(s % PSECOND)
      BY <3>1 DEF CRem
    <3> HIDE DEF s, rem
    <3>3. s % PSECOND \in 0 .. PSECOND - 1 /\ \E q \in Int : s = PSECOND * q + (s % PSECOND)
      BY <3>1, Constants, RemainderFacts
    <3>4. PICK q \in Int : s = PSECOND * q + (s % PSECOND)
      BY <3>3
    <3>5. PSECOND * (-q) = -(PSECOND * q) /\ PSECOND * q \in Int
      BY Constants
    <3>6. t - rem = PSECOND * (-q)
      <4>1. t = -s
        BY DEF s
      <4> QED BY <3>1, <3>2, <3>3, <3>4, <3>5, <4>1
    <3>7. rem \in -(PSECOND - 1) .. PSECOND - 1
      BY <3>2, <3>3, Constants
    <3>8. -q \in Int
      OBVIOUS
    <3> QED BY <3>6, <3>7, <3>8
  <2> QED BY <2>1, <2>2
<1>2. PICK k \in Int : t - rem = PSECOND * k
  BY <1>1
<1> HIDE DEF rem
<1>3. t + (PSECOND - rem) = PSECOND * (k + 1) + 0
  <2>1. PSECOND * (k + 1) = PSECOND * k + PSECOND /\ PSECOND * k \in Int
    BY Constants
  <2> QED BY <1>1, <1>2, <2>1, Constants
<1>4. (t + (PSECOND - rem)) % PSECOND = 0
  <2> DEFINE sum == t + (PSECOND - rem)
  <2>1. sum \in Int /\ 0 \in 0 .. PSECOND - 1 /\ k + 1 \in Int
    BY <1>1, Constants
  <2>2. sum = PSECOND * (k + 1) + 0
    BY <1>3
  <2> HIDE DEF sum
  <2>3. sum % PSECOND = 0
    BY <2>1, <2>2, Constants, RemainderUnique
  <2> QED BY <2>3 DEF sum
<1> QED BY <1>1, <1>4, Constants DEF rem

-----------------------------------------------------------------------------
(* Time passes                                                             *)

\* The two halves of TypeOK: what the handlers write, and what time does.
ControlOK ==
  /\ mode \in Modes
  /\ curr_process \in Process \cup {Null}
  /\ timer_start \in Word
  /\ p_time \in [Process -> Word]

TimesOK ==
  /\ it \in 0 .. 2 * PSECOND
  /\ clock \in 0 .. MaxTime
  /\ {ran, held} \subseteq [Process -> 0 .. MaxTime]

LEMMA TypeParts == TypeOK <=> ControlOK /\ TimesOK
  BY DEF TypeOK, ControlOK, TimesOK

\* The timer that is counting goes on counting to the same instant.
LEMMA ExpiresLater ==
  ASSUME NEW left \in Nat, NEW now \in Int, NEW n \in Nat, left > n, Expires(left, now)
  PROVE  Expires(left - n, now + n)
<1>1. PICK reading \in -Half .. Half + 2 * PSECOND :
        /\ reading + left < Half + 2 * PSECOND
        /\ Signed(reading) = Signed(now)
        /\ (reading + left) % PSECOND = 0
  BY DEF Expires
<1>2. /\ reading \in Int /\ reading + n \in -Half .. Half + 2 * PSECOND
      /\ (reading + n) + (left - n) = reading + left
  BY <1>1, Constants
<1>3. Signed(reading + n) = Signed(now + n)
  <2>1. reading \in Int /\ n \in Int
    BY <1>2
  <2>2. Signed(reading) = Signed(now)
    BY <1>1
  <2> QED BY <2>1, <2>2, SignedLater
<1> QED BY <1>1, <1>2, <1>3 DEF Expires

\* What a passage of time changes.
LEMMA TimeStep ==
  ASSUME IInv, NEW n \in {0, 1}, NEW m, NEW left \in 0 .. 2 * PSECOND,
         Expires(left, clock), Elapse(n, m, left)
  PROVE  /\ TimesOK' /\ HeldOK' /\ ExpiresOK'
         /\ clock' = clock + n
         /\ held' = AddedTo(held, n)
         /\ ran' = IF m = "process" THEN AddedTo(ran, n) ELSE ran
<1>1. /\ clock' = clock + n /\ clock' <= MaxTime
      /\ it' = IF left > n THEN left - n ELSE 0
      /\ ran' = IF m = "process" THEN AddedTo(ran, n) ELSE ran
      /\ held' = AddedTo(held, n)
      /\ \A p \in Process : held'[p] < Half
  BY DEF Elapse
<1>2. /\ clock \in Nat /\ MaxTime \in Nat /\ n \in Nat /\ left \in Nat
      /\ ran \in [Process -> Nat] /\ held \in [Process -> Nat]
  BY Constants DEF IInv, TypeOK
<1>3. /\ held' \in [Process -> Nat] /\ ran' \in [Process -> Nat]
      /\ \A p \in Process :
           /\ held'[p] = IF p = curr_process THEN held[p] + n ELSE held[p]
           /\ ran'[p] = ran[p] \/ (ran'[p] = ran[p] + n /\ p = curr_process)
  BY <1>1, <1>2 DEF AddedTo
<1>4. clock' \in 0 .. MaxTime
  BY <1>1, <1>2
<1>5. HeldOK'
  <2>1. ASSUME NEW p \in Process
        PROVE  held'[p] < Half /\ held'[p] <= clock' /\ ran'[p] <= held'[p]
    <3>1. held[p] <= clock /\ ran[p] <= held[p]
      BY DEF IInv, HeldOK
    <3> QED BY <1>1, <1>2, <1>3, <3>1
  <2> QED BY <2>1 DEF HeldOK
<1>6. held' \in [Process -> 0 .. MaxTime] /\ ran' \in [Process -> 0 .. MaxTime]
  <2>1. ASSUME NEW p \in Process
        PROVE  held'[p] \in 0 .. MaxTime /\ ran'[p] \in 0 .. MaxTime
    <3>1. held'[p] <= clock' /\ ran'[p] <= held'[p]
      BY <1>5 DEF HeldOK
    <3>2. held'[p] \in Nat /\ ran'[p] \in Nat
      BY <1>3
    <3> QED BY <1>2, <1>4, <3>1, <3>2
  <2> QED BY <1>3, <2>1
<1>7. it' \in 0 .. 2 * PSECOND
  BY <1>1, <1>2, Constants
<1>8. Expires(it', clock')
  <2>1. CASE left > n
    <3>1. Expires(left - n, clock + n)
      BY <1>2, <2>1, ExpiresLater
    <3> QED BY <1>1, <2>1, <3>1
  <2>2. CASE ~(left > n)
    <3>1. it' = 0
      BY <1>1, <2>2
    <3> QED BY <3>1 DEF Expires
  <2> QED BY <2>1, <2>2
<1>9. ExpiresOK'
  BY <1>8 DEF ExpiresOK, Expires, Signed
<1> QED BY <1>1, <1>4, <1>5, <1>6, <1>7, <1>9 DEF TimesOK

\* A handler that restarts the stopwatch leaves the accounts in order if what
\* it has written to p_time is.
LEMMA Restarted ==
  ASSUME TimesOK', HeldOK', ExpiresOK', timer_start' = Signed(clock'),
         p_time' \in [Process -> Word],
         \A p \in Process : 0 <= p_time'[p] /\ p_time'[p] <= held'[p] /\ ran'[p] <= p_time'[p],
         (mode \in Modes)', (curr_process \in Process \cup {Null})', ModeOK'
  PROVE  IInv'
<1>1. clock' \in Nat /\ clock' \in 0 .. clock'
  BY DEF TimesOK
<1>2. ControlOK'
  <2>1. Signed(clock') \in Word
    BY <1>1, SignedFacts
  <2> QED BY <2>1 DEF ControlOK
<1>3. ChargedOK'
  BY DEF ChargedOK
<1>4. StopwatchOK'
  <2>1. curr_process' # Null => curr_process' \in Process
    OBVIOUS
  <2>2. ASSUME NEW p \in Process, p = curr_process'
        PROVE  StartedAt(clock)'
    <3>1. p_time'[p] <= held'[p] /\ ran'[p] <= p_time'[p] /\ p_time'[p] \in Int
      BY DEF Word
    <3>2. clock' - clock' = 0 /\ p_time'[p] + 0 = p_time'[p]
      <4> DEFINE now == clock'
      <4> DEFINE time == p_time'[p]
      <4>1. now \in Int /\ time \in Int
        BY <1>1, <3>1
      <4> HIDE DEF now, time
      <4>2. now - now = 0 /\ time + 0 = time
        BY <4>1
      <4> QED BY <4>2 DEF now, time
    <3>3. ran'[p] <= p_time'[p] + (IF mode' \in Busy THEN clock' - clock' ELSE 0)
      BY <3>1, <3>2
    <3> QED BY <2>2, <3>1, <3>2, <3>3 DEF StartedAt, Signed
  <2>3. (curr_process # Null => StartedAt(clock))'
    BY <2>1, <2>2
  <2> QED BY <1>1, <2>3 DEF StopwatchOK
<1>5. TypeOK'
  <2>1. (ControlOK /\ TimesOK => TypeOK)'
    BY TypeParts, PTL
  <2> QED BY <1>2, <2>1
<1> QED BY <1>3, <1>4, <1>5 DEF IInv

-----------------------------------------------------------------------------
(* The stopwatch                                                           *)

\* timerFlush outside the time of a process: it is called when nobody runs, or
\* after what has passed was charged.
LEMMA FlushStep ==
  ASSUME IInv, NEW m, m # "process", NEW left \in 0 .. 2 * PSECOND, Expires(left, clock),
         \A p \in Process : ran[p] <= p_time[p],
         TimerFlush(m, left), UNCHANGED p_time,
         (mode \in Modes)', (curr_process \in Process \cup {Null})', ModeOK'
  PROVE  IInv'
<1>1. PICK lag \in {0, 1} :
        Elapse(lag, m, left) /\ timer_start' = Signed(clock + lag)
  BY DEF TimerFlush
<1>2. /\ TimesOK' /\ HeldOK' /\ ExpiresOK'
      /\ clock' = clock + lag
      /\ held' = AddedTo(held, lag)
      /\ ran' = ran
  BY <1>1, TimeStep
<1>3. timer_start' = Signed(clock')
  BY <1>1, <1>2 DEF Signed
<1>4. ASSUME NEW p \in Process
      PROVE  0 <= p_time'[p] /\ p_time'[p] <= held'[p] /\ ran'[p] <= p_time'[p]
  <2>1. held'[p] = held[p] \/ held'[p] = held[p] + lag
    BY <1>2 DEF AddedTo
  <2>2. 0 <= p_time[p] /\ p_time[p] <= held[p] /\ p_time[p] \in Int /\ held[p] \in Int
    BY DEF IInv, ChargedOK, TypeOK, Word
  <2>3. p_time'[p] <= held'[p]
    BY <2>1, <2>2
  <2> QED BY <1>2, <2>2, <2>3
<1>5. p_time' \in [Process -> Word]
  BY DEF IInv, TypeOK
<1> QED BY <1>2, <1>3, <1>4, <1>5, Restarted

\* updateProcessCPUTime adds what has passed since the stopwatch was started.
LEMMA ChargeStep ==
  ASSUME IInv, NEW m, m # "process", curr_process # Null, UpdateProcessCPUTime(m),
         (mode \in Modes)', (curr_process \in Process \cup {Null})', ModeOK'
  PROVE  IInv'
<1> DEFINE c == curr_process
<1>1. PICK lag \in {0, 1} :
        Elapse(lag, m, it) /\ timer_start' = Signed(clock + lag)
  BY DEF UpdateProcessCPUTime, TimerFlush
<1>2. it \in 0 .. 2 * PSECOND /\ Expires(it, clock)
  BY DEF IInv, TypeOK, ExpiresOK
<1>3. /\ TimesOK' /\ HeldOK' /\ ExpiresOK'
      /\ clock' = clock + lag
      /\ held' = AddedTo(held, lag)
      /\ ran' = ran
  BY <1>1, <1>2, TimeStep
<1>4. timer_start' = Signed(clock')
  BY <1>1, <1>3 DEF Signed
<1>5. c \in Process
  BY DEF IInv, TypeOK
<1>6. PICK start \in 0 .. clock : StartedAt(start)
  BY DEF IInv, StopwatchOK
<1>7. /\ clock \in Nat /\ start \in Nat /\ start <= clock
      /\ held[c] \in Nat /\ ran[c] \in Nat /\ p_time[c] \in Int
      /\ 0 <= p_time[c] /\ held[c] < Half
  BY <1>5, <1>6 DEF IInv, TypeOK, ChargedOK, HeldOK, Word
<1>8. /\ timer_start = Signed(start)
      /\ p_time[c] + (clock - start) <= held[c]
      /\ ran[c] <= p_time[c] + (clock - start)
  <2>1. /\ timer_start = Signed(start)
        /\ p_time[c] + (clock - start) <= held[c]
        /\ \/ ran[c] <= p_time[c] + (clock - start)
           \/ ran[c] <= p_time[c] + 0
    BY <1>6 DEF StartedAt
  <2> QED BY <1>7, <2>1
<1> HIDE DEF c
<1>9. p_time[c] + (clock - start) \in Word /\ 0 <= p_time[c] + (clock - start)
  BY <1>7, <1>8, Constants DEF Word
<1>10. p_time' = [p_time EXCEPT ![c] = p_time[c] + (clock - start)]
  <2>1. p_time' = [p_time EXCEPT ![c] = Signed(p_time[c] + Signed(clock) - Signed(start))]
    BY <1>8 DEF UpdateProcessCPUTime, TOD, c
  <2>2. Signed(p_time[c] + Signed(clock) - Signed(start)) = p_time[c] + (clock - start)
    BY <1>7, <1>9, SignedDifference
  <2> QED BY <2>1, <2>2
<1>11. p_time' \in [Process -> Word]
  BY <1>9, <1>10 DEF IInv, TypeOK
<1>12. ASSUME NEW p \in Process
       PROVE  0 <= p_time'[p] /\ p_time'[p] <= held'[p] /\ ran'[p] <= p_time'[p]
  <2>1. CASE p = c
    <3>1. p_time'[p] = p_time[c] + (clock - start)
      BY <1>10, <2>1 DEF IInv, TypeOK
    <3>2. held'[p] = held[c] + lag
      BY <1>3, <2>1 DEF AddedTo, c
    <3>3. p_time[c] + (clock - start) <= held[c] + lag
      BY <1>7, <1>8, <1>9 DEF Word
    <3> QED BY <1>3, <1>8, <1>9, <2>1, <3>1, <3>2, <3>3
  <2>2. CASE p # c
    <3>1. p_time'[p] = p_time[p] /\ held'[p] = held[p]
      BY <1>3, <1>10, <2>2 DEF IInv, TypeOK, AddedTo, c
    <3> QED BY <1>3, <2>2, <3>1 DEF IInv, ChargedOK, c
  <2> QED BY <2>1, <2>2
<1> QED BY <1>3, <1>4, <1>11, <1>12, Restarted

-----------------------------------------------------------------------------
(* The steps                                                               *)

LEMMA InitIInv == Init => IInv
<1> SUFFICES ASSUME Init
             PROVE  IInv
  OBVIOUS
<1>1. /\ mode = "nucleus" /\ curr_process = Null /\ timer_start = 0 /\ clock = 0
      /\ p_time = [p \in Process |-> 0] /\ held = [p \in Process |-> 0]
      /\ ran = [p \in Process |-> 0] /\ it = PSECOND - CRem(TOD, PSECOND)
  BY DEF Init, Interval
<1>2. 0 \in Word /\ 0 \in Int /\ TOD = Signed(0)
  BY <1>1, Constants DEF Word, TOD
<1>3. TOD = 0
  BY <1>2, SignedIdentity
<1>4. it \in 1 .. 2 * PSECOND - 1 /\ (0 + it) % PSECOND = 0
  BY <1>1, <1>3, IntervalFacts
<1>5. TypeOK
  <2>1. it \in 0 .. 2 * PSECOND /\ 0 \in 0 .. MaxTime
    BY <1>4, Constants
  <2>2. p_time \in [Process -> Word]
    BY <1>1, <1>2
  <2>3. ran \in [Process -> 0 .. MaxTime] /\ held \in [Process -> 0 .. MaxTime]
    BY <1>1, <2>1
  <2> QED BY <1>1, <1>2, <2>1, <2>2, <2>3 DEF TypeOK, Modes
<1>6. ModeOK
  BY <1>1 DEF ModeOK, Busy
<1>7. HeldOK /\ ChargedOK
  BY <1>1, Constants DEF HeldOK, ChargedOK
<1>8. StopwatchOK
  BY <1>1 DEF StopwatchOK
<1>9. ExpiresOK
  <2>1. 0 \in -Half .. Half + 2 * PSECOND /\ 0 + it < Half + 2 * PSECOND
    BY <1>4, Constants
  <2> QED BY <1>1, <1>2, <1>4, <2>1 DEF ExpiresOK, Expires
<1> QED BY <1>5, <1>6, <1>7, <1>8, <1>9 DEF IInv

\* What resetIntervalTimer loads.
LEMMA IntervalExpires ==
  ASSUME IInv
  PROVE  Interval \in 0 .. 2 * PSECOND /\ Expires(Interval, clock)
<1>1. clock \in Int /\ TOD = Signed(clock) /\ TOD \in Word
  BY SignedFacts DEF IInv, TypeOK, TOD
<1>2. TOD \in Int /\ TOD < Half /\ TOD \in -Half .. Half + 2 * PSECOND
  BY <1>1, Constants DEF Word
<1>3. Interval \in 1 .. 2 * PSECOND - 1 /\ (TOD + Interval) % PSECOND = 0
  BY <1>2, IntervalFacts DEF Interval
<1>4. Signed(TOD) = Signed(clock)
  BY <1>1, SignedIdentity
<1>5. TOD + Interval < Half + 2 * PSECOND
  BY <1>2, <1>3, Constants
<1> HIDE DEF TOD
<1> QED BY <1>2, <1>3, <1>4, <1>5, Constants DEF Expires

\* Steps that only change what the CPU does.
LEMMA ModeStep ==
  ASSUME IInv, UNCHANGED <<curr_process, timer_start, p_time, times>>,
         mode' \in Modes, mode' \in Busy <=> mode \in Busy, ModeOK'
  PROVE  IInv'
<1>1. /\ it' = it /\ clock' = clock /\ ran' = ran /\ held' = held
      /\ curr_process' = curr_process /\ timer_start' = timer_start /\ p_time' = p_time
  BY DEF times
<1>2. TypeOK'
  BY <1>1 DEF IInv, TypeOK
<1>3. HeldOK' /\ ChargedOK'
  BY <1>1 DEF IInv, HeldOK, ChargedOK
<1>4. StopwatchOK'
  BY <1>1 DEF IInv, StopwatchOK, StartedAt, Signed
<1>5. ExpiresOK'
  BY <1>1 DEF IInv, ExpiresOK, Expires, Signed
<1> QED BY <1>2, <1>3, <1>4, <1>5 DEF IInv

LEMMA TickStep ==
  ASSUME IInv, Tick
  PROVE  IInv'
<1>1. /\ UNCHANGED <<mode, curr_process, timer_start, p_time>>
      /\ Elapse(1, mode, it) /\ it \in 0 .. 2 * PSECOND /\ Expires(it, clock)
  BY DEF Tick, IInv, TypeOK, ExpiresOK
<1>2. /\ TimesOK' /\ HeldOK' /\ ExpiresOK'
      /\ clock' = clock + 1
      /\ held' = AddedTo(held, 1)
      /\ ran' = IF mode = "process" THEN AddedTo(ran, 1) ELSE ran
  BY <1>1, TimeStep
<1>3. ControlOK'
  BY <1>1 DEF IInv, TypeOK, ControlOK
<1>4. ModeOK'
  BY <1>1 DEF IInv, ModeOK
<1>5. \A p \in Process :
        /\ held[p] \in Int /\ ran[p] \in Int /\ p_time[p] \in Int
        /\ held'[p] = IF p = curr_process THEN held[p] + 1 ELSE held[p]
        /\ p # curr_process => ran'[p] = ran[p]
        /\ ran'[p] = ran[p] \/ (ran'[p] = ran[p] + 1 /\ mode = "process")
        /\ p_time'[p] = p_time[p]
  BY <1>1, <1>2 DEF IInv, TypeOK, AddedTo, Word
<1>6. ChargedOK'
  <2>1. ASSUME NEW p \in Process
        PROVE  /\ 0 <= p_time'[p] /\ p_time'[p] <= held'[p]
               /\ p # curr_process => ran'[p] <= p_time'[p]
    <3>1. /\ 0 <= p_time[p] /\ p_time[p] <= held[p]
          /\ p # curr_process => ran[p] <= p_time[p]
      BY DEF IInv, ChargedOK
    <3> QED BY <1>5, <3>1
  <2> QED BY <1>1, <2>1 DEF ChargedOK
<1>7. StopwatchOK'
  <2>1. ASSUME NEW p \in Process, p = curr_process, NEW start \in 0 .. clock, StartedAt(start)
        PROVE  StartedAt(start)' /\ start \in 0 .. clock'
    <3>1. /\ timer_start = Signed(start)
          /\ p_time[p] + (clock - start) <= held[p]
          /\ ran[p] <= p_time[p] + (IF mode \in Busy THEN clock - start ELSE 0)
      BY <2>1 DEF StartedAt
    <3>2. clock \in Int /\ start \in Int
      BY DEF IInv, TypeOK
    <3>3. p_time'[p] + (clock' - start) <= held'[p]
      BY <1>2, <1>5, <2>1, <3>1, <3>2
    <3>4. ran'[p] <= p_time'[p] + (IF mode' \in Busy THEN clock' - start ELSE 0)
      <4>1. CASE mode \in Busy
        BY <1>1, <1>2, <1>5, <3>1, <3>2, <4>1
      <4>2. CASE mode \notin Busy
        <5>1. mode # "process"
          BY <4>2 DEF Busy
        <5> QED BY <1>1, <1>5, <3>1, <4>2, <5>1
      <4> QED BY <4>1, <4>2
    <3>5. start \in 0 .. clock'
      BY <1>2, <3>2
    <3> QED BY <1>1, <2>1, <3>1, <3>3, <3>4, <3>5 DEF StartedAt, Signed
  <2>2. curr_process # Null => curr_process \in Process
    BY DEF IInv, TypeOK
  <2>3. curr_process # Null => \E start \in 0 .. clock : StartedAt(start)
    BY DEF IInv, StopwatchOK
  <2> QED BY <1>1, <2>1, <2>2, <2>3 DEF StopwatchOK
<1>8. TypeOK'
  <2>1. (ControlOK /\ TimesOK => TypeOK)'
    BY TypeParts, PTL
  <2> QED BY <1>2, <1>3, <2>1
<1> QED BY <1>2, <1>4, <1>6, <1>7, <1>8 DEF IInv

LEMMA NextIInv ==
  ASSUME IInv, [Next]_vars
  PROVE  IInv'
<1> USE DEF Modes
<1>1. /\ mode \in Modes /\ curr_process \in Process \cup {Null}
      /\ Null \notin Process /\ ModeOK
      /\ it \in 0 .. 2 * PSECOND /\ Expires(it, clock)
  BY TimersAssumption DEF IInv, TypeOK, ExpiresOK
<1>2. ASSUME mode \notin Busy
      PROVE  \A p \in Process : ran[p] <= p_time[p]
  <2>1. ASSUME NEW p \in Process, p = curr_process
        PROVE  ran[p] <= p_time[p]
    <3>1. PICK start \in 0 .. clock : StartedAt(start)
      BY <1>1, <2>1 DEF IInv, StopwatchOK
    <3>2. ran[p] <= p_time[p] + 0 /\ p_time[p] \in Int
      BY <1>2, <2>1, <3>1 DEF StartedAt, IInv, TypeOK, Word
    <3> QED BY <3>2
  <2> QED BY <2>1 DEF IInv, ChargedOK
<1>3. CASE Tick
  BY <1>3, TickStep
<1>4. CASE SystemCall \/ Return \/ Wait
  <2>1. /\ UNCHANGED <<curr_process, timer_start, p_time, times>>
        /\ \/ mode = "process" /\ mode' = "syscall"
           \/ mode = "syscall" /\ mode' = "process"
           \/ mode = "nucleus" /\ mode' = "wait"
    BY <1>4 DEF SystemCall, Return, Wait
  <2>2. mode' \in Modes /\ (mode' \in Busy <=> mode \in Busy) /\ ModeOK'
    BY <1>1, <2>1 DEF ModeOK, Busy
  <2> QED BY <2>1, <2>2, ModeStep
<1>5. CASE GetCPUTime
  <2>1. /\ mode = "syscall" /\ mode' = "process" /\ UpdateProcessCPUTime("syscall")
        /\ curr_process' = curr_process /\ curr_process # Null
    BY <1>1, <1>5 DEF GetCPUTime, ModeOK, Busy
  <2>2. ModeOK' /\ mode' \in Modes /\ (curr_process \in Process \cup {Null})'
    BY <1>1, <2>1 DEF ModeOK, Busy
  <2> QED BY <2>1, <2>2, ChargeStep
<1>6. CASE GiveUpCPU \/ PLTInterrupt
  <2>1. /\ mode # "process" /\ mode' = "nucleus" /\ UpdateProcessCPUTime(mode)
        /\ curr_process' = Null /\ curr_process # Null
    BY <1>1, <1>6 DEF GiveUpCPU, PLTInterrupt, ModeOK, Busy
  <2>2. ModeOK' /\ mode' \in Modes /\ (curr_process \in Process \cup {Null})'
    BY <1>1, <2>1 DEF ModeOK, Busy
  <2> QED BY <2>1, <2>2, ChargeStep
<1>7. CASE TermProcess
  <2>1. /\ curr_process \in Process /\ curr_process' = Null /\ mode' = "nucleus"
        /\ p_time' = [p_time EXCEPT ![curr_process] = 0]
        /\ ran' = [ran EXCEPT ![curr_process] = 0]
        /\ held' = [held EXCEPT ![curr_process] = 0]
        /\ timer_start' = timer_start /\ it' = it /\ clock' = clock
    BY <1>1, <1>7 DEF TermProcess, ModeOK, Busy
  <2>2. /\ 0 \in Word /\ 0 \in 0 .. MaxTime /\ 0 < Half /\ clock \in Nat
        /\ p_time \in [Process -> Word]
        /\ ran \in [Process -> 0 .. MaxTime] /\ held \in [Process -> 0 .. MaxTime]
    BY Constants DEF Word, IInv, TypeOK
  <2>3. /\ p_time' \in [Process -> Word]
        /\ ran' \in [Process -> 0 .. MaxTime] /\ held' \in [Process -> 0 .. MaxTime]
        /\ \A p \in Process :
             \/ p_time'[p] = 0 /\ ran'[p] = 0 /\ held'[p] = 0
             \/ /\ p_time'[p] = p_time[p] /\ ran'[p] = ran[p] /\ held'[p] = held[p]
                /\ p # curr_process
    BY <2>1, <2>2
  <2>4. TypeOK'
    BY <2>1, <2>3 DEF IInv, TypeOK
  <2>5. HeldOK'
    <3>1. ASSUME NEW p \in Process
          PROVE  held'[p] < Half /\ held'[p] <= clock' /\ ran'[p] <= held'[p]
      <4>1. held[p] < Half /\ held[p] <= clock /\ ran[p] <= held[p]
        BY DEF IInv, HeldOK
      <4>2. 0 <= clock /\ 0 <= 0
        BY <2>2
      <4> QED BY <2>1, <2>2, <2>3, <4>1, <4>2
    <3> QED BY <3>1 DEF HeldOK
  <2>6. ChargedOK'
    <3>1. ASSUME NEW p \in Process
          PROVE  0 <= p_time'[p] /\ p_time'[p] <= held'[p] /\ ran'[p] <= p_time'[p]
      <4>1. /\ 0 <= p_time[p] /\ p_time[p] <= held[p]
            /\ p # curr_process => ran[p] <= p_time[p]
        BY DEF IInv, ChargedOK
      <4>2. 0 <= 0
        OBVIOUS
      <4> QED BY <2>3, <4>1, <4>2
    <3> QED BY <3>1 DEF ChargedOK
  <2>7. ModeOK' /\ StopwatchOK'
    BY <2>1 DEF ModeOK, StopwatchOK, Busy
  <2>8. ExpiresOK'
    BY <1>1, <2>1 DEF ExpiresOK, Expires, Signed
  <2> QED BY <2>4, <2>5, <2>6, <2>7, <2>8 DEF IInv
<1>8. ASSUME NEW p \in Process, Dispatch(p)
      PROVE  IInv'
  <2>1. /\ mode = "nucleus" /\ TimerFlush("nucleus", it) /\ curr_process' = p
        /\ mode' = "process" /\ p_time' = p_time
    BY <1>8 DEF Dispatch
  <2>2. ModeOK' /\ mode' \in Modes /\ (curr_process \in Process \cup {Null})'
    BY <1>1, <2>1 DEF ModeOK, Busy
  <2>3. \A x \in Process : ran[x] <= p_time[x]
    BY <1>2, <2>1 DEF Busy
  <2> QED BY <1>1, <2>1, <2>2, <2>3, FlushStep
<1>9. CASE InterruptEntry
  <2>1. /\ mode \in {"process", "wait"} /\ mode' = "interrupt"
        /\ curr_process' = curr_process
    BY <1>9 DEF InterruptEntry
  <2>2. ModeOK' /\ mode' \in Modes /\ (curr_process \in Process \cup {Null})'
    BY <1>1, <2>1 DEF ModeOK, Busy
  <2>3. CASE curr_process # Null
    <3>1. UpdateProcessCPUTime("interrupt")
      BY <1>9, <2>3 DEF InterruptEntry
    <3> QED BY <2>2, <2>3, <3>1, ChargeStep
  <2>4. CASE curr_process = Null
    <3>1. UNCHANGED <<curr_process, timer_start, p_time, times>>
      BY <1>9, <2>4 DEF InterruptEntry
    <3>2. mode' \in Busy <=> mode \in Busy
      BY <1>1, <2>1, <2>4 DEF ModeOK, Busy
    <3> QED BY <2>2, <3>1, <3>2, ModeStep
  <2> QED BY <2>3, <2>4
<1>10. ASSUME NEW left \in 0 .. 2 * PSECOND, Expires(left, clock), mode = "interrupt",
              InterruptHandlerExit(left)
       PROVE  IInv'
  <2>1. /\ TimerFlush("interrupt", left) /\ p_time' = p_time
        /\ mode' = IF curr_process # Null THEN "process" ELSE "nucleus"
        /\ curr_process' = curr_process
    BY <1>10 DEF InterruptHandlerExit
  <2>2. ModeOK' /\ mode' \in Modes /\ (curr_process \in Process \cup {Null})'
    BY <1>1, <2>1 DEF ModeOK, Busy
  <2>3. \A x \in Process : ran[x] <= p_time[x]
    BY <1>2, <1>10 DEF Busy
  <2> QED BY <1>10, <2>1, <2>2, <2>3, FlushStep
<1>11. CASE ITInterrupt
  BY <1>10, <1>11, IntervalExpires DEF ITInterrupt
<1>12. CASE DeviceInterrupt
  BY <1>1, <1>10, <1>12 DEF DeviceInterrupt
<1>13. CASE UNCHANGED vars
  <2>1. mode' = mode /\ UNCHANGED <<curr_process, timer_start, p_time, times>>
    BY <1>13 DEF vars, times
  <2>2. curr_process' = curr_process
    BY <2>1
  <2>3. ModeOK'
    BY <1>1, <2>1, <2>2 DEF ModeOK
  <2> QED BY <1>1, <2>1, <2>3, ModeStep
<1> QED
  BY <1>3, <1>4, <1>5, <1>6, <1>7, <1>8, <1>9, <1>11, <1>12, <1>13 DEF Next

-----------------------------------------------------------------------------
(* The theorems                                                            *)

\* The accounts and the interval timer are in order in every state.
THEOREM IInvHolds == Spec => []IInv
<1>1. Init => IInv
  BY InitIInv
<1>2. IInv /\ [Next]_vars => IInv'
  BY NextIInv
<1> QED BY <1>1, <1>2, PTL DEF Spec

\* Every variable keeps to its type.
THEOREM TypeCorrect == Spec => []TypeOK
<1>1. IInv => TypeOK
  BY DEF IInv
<1> QED BY <1>1, IInvHolds, PTL

\* A process is never charged for time in which another one, or nobody, had
\* the CPU (updateProcessCPUTime).
THEOREM ChargedForOwnTimeOnly == Spec => []OwnTimeOnly
<1>1. IInv => OwnTimeOnly
  BY DEF IInv, ChargedOK, OwnTimeOnly
<1> QED BY <1>1, IInvHolds, PTL

\* No time that a process executes is lost between one reading of the TOD and
\* the next.
THEOREM AllRunTimeCharged == Spec => []RunTimeCharged
<1>1. IInv => RunTimeCharged
  <2> SUFFICES ASSUME IInv, NEW p \in Process
               PROVE  ran[p] <= p_time[p] +
                        (IF curr_process = p /\ mode \in {"process", "syscall"}
                         THEN Signed(TOD - timer_start) ELSE 0)
    BY DEF RunTimeCharged
  <2>1. p_time[p] \in Int /\ clock \in Int /\ Null \notin Process
    BY TimersAssumption DEF IInv, TypeOK, Word
  <2>2. CASE p # curr_process
    <3>1. ran[p] <= p_time[p]
      BY <2>2 DEF IInv, ChargedOK
    <3> QED BY <2>1, <2>2, <3>1
  <2>3. CASE p = curr_process
    <3>1. PICK start \in 0 .. clock : StartedAt(start)
      BY <2>1, <2>3 DEF IInv, StopwatchOK
    <3>2. Signed(TOD - timer_start) = clock - start
      <4>1. /\ held[p] \in Int /\ held[p] < Half /\ 0 <= p_time[p]
            /\ p_time[p] + (clock - start) <= held[p]
            /\ start \in Int /\ start <= clock
        BY <2>1, <2>3, <3>1 DEF StartedAt, IInv, TypeOK, HeldOK, ChargedOK
      <4>2. 0 + (clock - start) \in Word
        BY <2>1, <4>1, Constants DEF Word
      <4>3. Signed(0 + Signed(clock) - Signed(start)) = 0 + (clock - start)
        BY <2>1, <4>1, <4>2, SignedDifference
      <4>4. TOD - timer_start = 0 + Signed(clock) - Signed(start)
        <5>1. Signed(clock) \in Int /\ Signed(start) \in Int
          BY <2>1, <4>1, SignedFacts DEF Word
        <5> QED BY <3>1, <5>1 DEF TOD, StartedAt
      <4> QED BY <2>1, <4>1, <4>3, <4>4
    <3>3. ran[p] <= p_time[p] + (IF mode \in Busy THEN clock - start ELSE 0)
      BY <2>3, <3>1 DEF StartedAt
    <3> QED BY <2>3, <3>2, <3>3 DEF Busy
  <2> QED BY <2>2, <2>3
<1> QED BY <1>1, IInvHolds, PTL

\* The interval timer expires at multiples of PSECOND, however late its handler
\* loads it (resetIntervalTimer).
THEOREM TicksStayAligned == Spec => []DelaysDoNotAddUp
<1>1. IInv => DelaysDoNotAddUp
  <2> SUFFICES ASSUME IInv, it > 0
               PROVE  \E turn \in {0, WordSize} : (TOD + turn + it) % PSECOND = 0
    BY DEF DelaysDoNotAddUp
  <2>1. PICK reading \in -Half .. Half + 2 * PSECOND :
          /\ reading + it < Half + 2 * PSECOND
          /\ Signed(reading) = TOD
          /\ (reading + it) % PSECOND = 0
    BY DEF IInv, ExpiresOK, Expires, TOD
  <2>2. it \in Int
    BY DEF IInv, TypeOK
  <2>3. CASE reading < Half
    <3>1. reading \in Word
      BY <2>1, <2>3, Constants DEF Word
    <3>2. TOD = reading
      BY <2>1, <3>1, SignedIdentity
    <3>3. TOD + 0 + it = reading + it
      BY <2>2, <3>2
    <3> QED BY <2>1, <3>3
  <2>4. CASE ~(reading < Half)
    <3>1. reading - WordSize \in Word
      BY <2>1, <2>2, <2>4, Constants DEF Word
    <3>2. reading = (reading - WordSize) + WordSize * 1
      BY Constants
    <3>3. TOD = reading - WordSize
      BY <2>1, <3>1, <3>2, SignedUnique
    <3>4. TOD + WordSize + it = reading + it
      BY <2>2, <3>3, Constants
    <3> QED BY <2>1, <3>4
  <2> QED BY <2>3, <2>4
<1> QED BY <1>1, IInvHolds, PTL

=============================================================================
