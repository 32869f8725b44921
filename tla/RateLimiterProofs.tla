------------------------- MODULE RateLimiterProofs -------------------------
(***************************************************************************)
(* The bounds of module RateLimiter for every period and every number of   *)
(* calls.  The queue is in order of age, so the calls at most a seconds    *)
(* old are its last ones, and as many as the history counts: what the      *)
(* while loop drops is exactly what is older than the period.              *)
(***************************************************************************)
EXTENDS RateLimiter, SequenceTheorems, TLAPS

(* The calls at most a old are the last passed[a] of the queue. *)
SuffixOfAge ==
  \A a \in Ages :
    /\ passed[a] <= Len(lastRunQueue)
    /\ \A i \in 1 .. Len(lastRunQueue) :
         lastRunQueue[i] <= a <=> i > Len(lastRunQueue) - passed[a]

QueueBounded == Len(lastRunQueue) <= timeLimitation + 1

LimiterInv == TypeOK /\ SuffixOfAge /\ QueueBounded /\ RefusedOnlyWhenBusy

-----------------------------------------------------------------------------
(* The while loop keeps the calls of the period, the last ones of the       *)
(* queue, and all of them.                                                  *)
LEMMA PrunedIsPeriod ==
  ASSUME TypeOK, SuffixOfAge
  PROVE  LET n == Len(lastRunQueue)
             w == PassedInPeriod
         IN  /\ w \in Nat /\ n \in Nat /\ w <= n
             /\ Pruned \in Seq(0 .. Expired)
             /\ Len(Pruned) = w
             /\ \A i \in 1 .. w : Pruned[i] = lastRunQueue[i + n - w]
  <1> DEFINE n == Len(lastRunQueue)
             w == PassedInPeriod
             kept == {i \in 1 .. n : ~Dropped(lastRunQueue[i])}
             first == CHOOSE i \in kept : \A j \in kept : i <= j
  <1>1. /\ periodSec \in Ages /\ periodSec \in Nat /\ w \in Nat /\ n \in Nat /\ w <= n
        /\ \A i \in 1 .. n : lastRunQueue[i] \in 0 .. Expired
    <2>1. periodSec \in Ages /\ periodSec \in Nat
      BY LimitAssumption DEF Ages
    <2>2. w \in Nat /\ n \in Nat /\ w <= n
      BY <2>1 DEF TypeOK, SuffixOfAge, PassedInPeriod
    <2>3. \A i \in 1 .. n : lastRunQueue[i] \in 0 .. Expired
      BY ElementOfSeq DEF TypeOK
    <2> QED
      BY <2>1, <2>2, <2>3
  <1>2. ASSUME NEW i \in 1 .. n
        PROVE  i \in kept <=> i > n - w
    BY <1>1 DEF SuffixOfAge, Dropped, PassedInPeriod, Expired
  <1>3. CASE w = 0
    <2>1. kept = {}
      BY <1>1, <1>2, <1>3
    <2>2. Pruned = <<>>
      BY <2>1 DEF Pruned
    <2> QED
      BY <2>2, <1>1, <1>3
  <1>4. CASE w # 0
    <2>1. n - w + 1 \in kept /\ \A j \in kept : n - w + 1 <= j
      BY <1>1, <1>2, <1>4
    <2>2. first = n - w + 1
      <3>1. first \in kept /\ \A j \in kept : first <= j
        BY <2>1
      <3>2. first \in Int
        BY <3>1
      <3> QED
        BY <3>1, <3>2, <2>1, <1>1
    <2>3. Pruned = SubSeq(lastRunQueue, n - w + 1, n)
      <3>1. kept # {}
        BY <2>1
      <3> QED
        BY <3>1, <2>2 DEF Pruned
    <2>4. /\ SubSeq(lastRunQueue, n - w + 1, n) \in Seq(0 .. Expired)
          /\ Len(SubSeq(lastRunQueue, n - w + 1, n)) = w
          /\ \A i \in 1 .. w :
               SubSeq(lastRunQueue, n - w + 1, n)[i] = lastRunQueue[n - w + 1 + i - 1]
      <3>1. n - w + 1 \in 1 .. n + 1 /\ n \in n - w .. n
        BY <1>1, <1>4
      <3>2. lastRunQueue \in Seq(0 .. Expired)
        BY DEF TypeOK
      <3>3. n - (n - w + 1) + 1 = w
        BY <1>1
      <3> QED
        BY <3>1, <3>2, <3>3, <1>1, <1>4, SubSeqProperties
    <2> QED
      BY <2>3, <2>4, <1>1, <1>4
  <1> QED
    BY <1>1, <1>3, <1>4

(* No age sees more calls than the period. *)
LEMMA PeriodSeesAll ==
  ASSUME TypeOK, SuffixOfAge, NEW a \in Ages
  PROVE  passed[a] <= PassedInPeriod
  <1> DEFINE n == Len(lastRunQueue)
             w == PassedInPeriod
  <1>1. /\ periodSec \in Ages /\ w \in Nat /\ n \in Nat /\ passed[a] \in Nat
        /\ passed[a] <= n /\ w <= n /\ a \in Nat /\ periodSec \in Nat /\ a <= periodSec
        /\ \A i \in 1 .. n : lastRunQueue[i] \in 0 .. Expired
    <2>1. periodSec \in Ages /\ periodSec \in Nat /\ a \in Nat /\ a <= periodSec
      BY LimitAssumption DEF Ages
    <2>2. w \in Nat /\ n \in Nat /\ w <= n /\ passed[a] \in Nat /\ passed[a] <= n
      BY <2>1 DEF TypeOK, SuffixOfAge, PassedInPeriod
    <2>3. \A i \in 1 .. n : lastRunQueue[i] \in 0 .. Expired
      BY ElementOfSeq DEF TypeOK
    <2> QED
      BY <2>1, <2>2, <2>3
  <1>2. SUFFICES ASSUME passed[a] > w PROVE FALSE
    BY <1>1
  <1>3. n - passed[a] + 1 \in 1 .. n
    BY <1>1, <1>2
  <1>4. lastRunQueue[n - passed[a] + 1] <= a
    BY <1>1, <1>3 DEF SuffixOfAge
  <1>5. ~(lastRunQueue[n - passed[a] + 1] <= periodSec)
    BY <1>1, <1>2, <1>3 DEF SuffixOfAge, PassedInPeriod
  <1> QED
    BY <1>1, <1>3, <1>4, <1>5 DEF Expired

(* A call that is let through, and one that is refused. *)
LEMMA CallKeeps == LimiterInv /\ Call => LimiterInv'
  <1> SUFFICES ASSUME LimiterInv, Call PROVE LimiterInv'
    OBVIOUS
  <1> DEFINE n == Len(lastRunQueue)
             w == PassedInPeriod
  <1>1. /\ w \in Nat /\ n \in Nat /\ w <= n
        /\ Pruned \in Seq(0 .. Expired) /\ Len(Pruned) = w
        /\ \A i \in 1 .. w : Pruned[i] = lastRunQueue[i + n - w]
    BY PrunedIsPeriod DEF LimiterInv
  <1>2. /\ timeLimitation \in Nat /\ periodSec \in Nat /\ n <= timeLimitation + 1
        /\ periodSec \in Ages
    BY LimitAssumption DEF LimiterInv, QueueBounded, Ages
  <1>3. \A a \in Ages : a \in Nat /\ passed[a] \in Nat /\ passed[a] <= n /\ passed[a] <= w
    BY PeriodSeesAll, LimitAssumption DEF LimiterInv, TypeOK, SuffixOfAge, Ages
  <1>4. ASSUME NEW a \in Ages, NEW i \in 1 .. w
        PROVE  Pruned[i] <= a <=> i > w - passed[a]
    <2>1. i + n - w \in 1 .. n
      BY <1>1
    <2>2. lastRunQueue[i + n - w] <= a <=> i + n - w > n - passed[a]
      BY <2>1 DEF LimiterInv, SuffixOfAge
    <2> QED
      BY <2>2, <1>1, <1>3
  <1>5. CASE Len(Pruned) > timeLimitation /\ limited' = TRUE /\ lastRunQueue' = Pruned
             /\ UNCHANGED passed
    <2>1. TypeOK'
      BY <1>1, <1>5 DEF LimiterInv, TypeOK
    <2>2. SuffixOfAge'
      BY <1>1, <1>3, <1>4, <1>5 DEF SuffixOfAge, Ages
    <2>3. w = timeLimitation + 1
      BY <1>1, <1>2, <1>5
    <2>4. QueueBounded' /\ RefusedOnlyWhenBusy'
      BY <1>1, <1>2, <1>5, <2>3 DEF QueueBounded, RefusedOnlyWhenBusy, PassedInPeriod
    <2> QED
      BY <2>1, <2>2, <2>4 DEF LimiterInv
  <1>6. CASE Len(Pruned) <= timeLimitation /\ limited' = FALSE
             /\ lastRunQueue' = Append(Pruned, 0) /\ passed' = [a \in Ages |-> passed[a] + 1]
    <2>1. /\ Len(lastRunQueue') = w + 1
          /\ lastRunQueue' \in Seq(0 .. Expired)
          /\ \A i \in 1 .. w : lastRunQueue'[i] = Pruned[i]
          /\ lastRunQueue'[w + 1] = 0
      BY <1>1, <1>2, <1>6, AppendProperties DEF Expired
    <2>2. TypeOK'
      <3>1. passed' \in [Ages -> Nat]
        BY <1>3, <1>6
      <3> QED
        BY <2>1, <1>6, <3>1 DEF TypeOK
    <2>3. SuffixOfAge'
      <3> SUFFICES ASSUME NEW a \in Ages
                   PROVE  /\ passed'[a] <= w + 1
                          /\ \A i \in 1 .. w + 1 :
                               lastRunQueue'[i] <= a <=> i > (w + 1) - passed'[a]
        BY <2>1 DEF SuffixOfAge, Ages
      <3>1. passed'[a] = passed[a] + 1 /\ a \in Nat /\ passed[a] \in Nat /\ passed[a] <= w
        BY <1>3, <1>6
      <3>2. ASSUME NEW i \in 1 .. w
            PROVE  lastRunQueue'[i] <= a <=> i > (w + 1) - passed'[a]
        BY <1>1, <1>4, <2>1, <3>1
      <3>3. lastRunQueue'[w + 1] <= a <=> w + 1 > (w + 1) - passed'[a]
        BY <1>1, <2>1, <3>1
      <3> QED
        BY <1>1, <3>1, <3>2, <3>3
    <2>4. QueueBounded' /\ RefusedOnlyWhenBusy'
      BY <1>1, <1>2, <1>6, <2>1 DEF QueueBounded, RefusedOnlyWhenBusy
    <2> QED
      BY <2>2, <2>3, <2>4 DEF LimiterInv
  <1> QED
    BY <1>5, <1>6 DEF Call

(* A second passes. *)
LEMMA TickKeeps == LimiterInv /\ Tick => LimiterInv'
  <1> SUFFICES ASSUME LimiterInv, Tick PROVE LimiterInv'
    OBVIOUS
  <1> DEFINE n == Len(lastRunQueue)
  <1>1. /\ n \in Nat /\ periodSec \in Nat
        /\ \A i \in 1 .. n : lastRunQueue[i] \in 0 .. Expired
        /\ \A a \in Ages : a \in Nat /\ passed[a] \in Nat /\ (a # 0 => a - 1 \in Ages)
    <2>1. n \in Nat /\ periodSec \in Nat
      BY LimitAssumption DEF LimiterInv, TypeOK
    <2>2. \A i \in 1 .. n : lastRunQueue[i] \in 0 .. Expired
      BY ElementOfSeq DEF LimiterInv, TypeOK
    <2>3. \A a \in Ages : a \in Nat /\ passed[a] \in Nat /\ (a # 0 => a - 1 \in Ages)
      BY <2>1 DEF LimiterInv, TypeOK, Ages
    <2> QED
      BY <2>1, <2>2, <2>3
  <1>2. /\ Len(lastRunQueue') = n /\ lastRunQueue' \in Seq(0 .. Expired)
        /\ \A i \in 1 .. n :
             lastRunQueue'[i] = IF lastRunQueue[i] < Expired THEN lastRunQueue[i] + 1 ELSE Expired
    BY <1>1 DEF Tick, Expired
  <1>3. TypeOK'
    BY <1>1, <1>2 DEF Tick, TypeOK
  <1>4. SuffixOfAge'
    <2> SUFFICES ASSUME NEW a \in Ages
                 PROVE  /\ passed'[a] <= n
                        /\ \A i \in 1 .. n : lastRunQueue'[i] <= a <=> i > n - passed'[a]
      BY <1>2 DEF SuffixOfAge, Ages
    <2>1. a \in Nat /\ a <= periodSec
      BY <1>1 DEF Ages
    <2>2. CASE a = 0
      BY <1>1, <1>2, <2>1, <2>2 DEF Tick, Expired
    <2>3. CASE a # 0
      <3>1. a - 1 \in Ages /\ passed'[a] = passed[a - 1]
        BY <1>1, <2>3 DEF Tick
      <3>2. /\ passed[a - 1] <= n
            /\ \A i \in 1 .. n : lastRunQueue[i] <= a - 1 <=> i > n - passed[a - 1]
        BY <3>1 DEF LimiterInv, SuffixOfAge
      <3>3. ASSUME NEW i \in 1 .. n
            PROVE  lastRunQueue'[i] <= a <=> lastRunQueue[i] <= a - 1
        BY <1>1, <1>2, <2>1, <2>3 DEF Expired
      <3> QED
        BY <3>1, <3>2, <3>3
    <2> QED
      BY <2>2, <2>3
  <1>5. QueueBounded' /\ RefusedOnlyWhenBusy'
    BY <1>2 DEF Tick, LimiterInv, QueueBounded, RefusedOnlyWhenBusy
  <1> QED
    BY <1>3, <1>4, <1>5 DEF LimiterInv

-----------------------------------------------------------------------------
LEMMA LimiterInvariant == Spec => []LimiterInv
  <1>1. Init => LimiterInv
    BY LimitAssumption
    DEF Init, LimiterInv, TypeOK, SuffixOfAge, QueueBounded, RefusedOnlyWhenBusy, Ages
  <1>2. LimiterInv /\ UNCHANGED vars => LimiterInv'
    BY DEF LimiterInv, TypeOK, SuffixOfAge, QueueBounded, RefusedOnlyWhenBusy,
           PassedInPeriod, vars
  <1>3. LimiterInv /\ [Next]_vars => LimiterInv'
    BY <1>2, CallKeeps, TickKeeps DEF Next
  <1> QED
    BY <1>1, <1>3, PTL DEF Spec

(* What isLimited (vt.js 131) reads, keeps and answers is of its type. *)
THEOREM TypeCorrect == Spec => []TypeOK
  <1>1. LimiterInv => TypeOK
    BY DEF LimiterInv
  <1> QED
    BY <1>1, LimiterInvariant, PTL

(* In no period does isLimited let more calls through than timeLimitation   *)
(* and the one its comparison adds (vt.js 135), whatever the two constants. *)
THEOREM LimiterBoundsPeriod == Spec => []PeriodBound
  <1>1. LimiterInv => PeriodBound
    <2> SUFFICES ASSUME LimiterInv PROVE PeriodBound
      OBVIOUS
    <2>1. PassedInPeriod \in Nat /\ Len(lastRunQueue) \in Nat
          /\ PassedInPeriod <= Len(lastRunQueue)
      BY PrunedIsPeriod DEF LimiterInv
    <2> QED
      BY <2>1, LimitAssumption DEF LimiterInv, QueueBounded, PeriodBound
  <1> QED
    BY <1>1, LimiterInvariant, PTL

(* isLimited refuses a call only if that many were let through in the       *)
(* period that ends with it.                                                *)
THEOREM LimiterRefusesWhenBusy == Spec => []RefusedOnlyWhenBusy
  <1>1. LimiterInv => RefusedOnlyWhenBusy
    BY DEF LimiterInv
  <1> QED
    BY <1>1, LimiterInvariant, PTL
=============================================================================
