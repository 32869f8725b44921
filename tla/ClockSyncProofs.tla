-------------------------- MODULE ClockSyncProofs --------------------------
(***************************************************************************)
(* The client's estimate of the server's clock is as good as the round     *)
(* trip it comes from, for every resolution of the clocks, every skew and  *)
(* any number of overlapping requests.                                     *)
(***************************************************************************)
EXTENDS ClockSync, TLAPS

USE ResolutionAssumption, SkewsAssumption, TimeAssumption

(* What truncation loses. *)
LEMMA TruncatedBounds ==
  ASSUME NEW t \in Int
  PROVE  /\ Truncated(t) \in Int
         /\ Truncated(t) <= t
         /\ t < Truncated(t) + Resolution
  BY DEF Truncated

(* The readings of a request that began under the present skew are in       *)
(* order, up to what truncation hides.                                      *)
InOrder ==
  \A r \in Requests :
    request[r].clean =>
      /\ request[r].stage # "unsent" => request[r].l1 <= now + skew
      /\ request[r].stage \in {"received", "answered"} =>
           /\ request[r].s1 <= now
           /\ request[r].l1 < request[r].s1 + skew + Resolution
      /\ request[r].stage = "answered" =>
           /\ request[r].s2 <= now
           /\ request[r].l1 < request[r].s2 + skew + Resolution

ClockInv == TypeOK /\ InOrder /\ OffsetIsAccurate

LEMMA ClockInit == Init => ClockInv
<1> SUFFICES ASSUME Init PROVE ClockInv
  OBVIOUS
<1>1. TypeOK
  <2>1. Idle \in [stage : Stages, kind : Kinds, clean : BOOLEAN,
                  l1 : Int, s1 : Int, s2 : Int]
    BY DEF Idle, Stages, Kinds
  <2>2. skew \in Skews /\ minTrip \in Int /\ doubled \in Int /\ now \in Nat
    BY DEF Init
  <2> QED BY <2>1, <2>2 DEF Init, TypeOK
<1>2. InOrder
  BY DEF Init, InOrder, Idle
<1>3. OffsetIsAccurate
  BY DEF Init, OffsetIsAccurate
<1> QED BY <1>1, <1>2, <1>3 DEF ClockInv

LEMMA Readings ==
  ASSUME TypeOK
  PROVE  /\ ServerTime \in Int /\ ServerTime <= now /\ now < ServerTime + Resolution
         /\ ClientTime \in Int /\ ClientTime <= now + skew
         /\ now + skew < ClientTime + Resolution
<1>1. now \in Int /\ now + skew \in Int
  BY DEF TypeOK
<1> QED BY <1>1, TruncatedBounds DEF ServerTime, ClientTime

LEMMA ClockStep == ASSUME ClockInv, [Next]_vars PROVE ClockInv'
<1> USE DEF ClockInv
<1>1. CASE UNCHANGED vars
  BY <1>1 DEF TypeOK, InOrder, OffsetIsAccurate, Margin, vars
<1>2. CASE Tick
  BY <1>2 DEF TypeOK, InOrder, OffsetIsAccurate, Margin, Tick
<1>3. CASE ClockSet
  BY <1>3 DEF TypeOK, InOrder, OffsetIsAccurate, Margin, ClockSet
<1>4. ASSUME NEW r \in Requests, Send(r) PROVE ClockInv'
  <2>1. TypeOK'
    BY <1>4, Readings DEF TypeOK, Send, Stages, Kinds
  <2>2. InOrder'
    BY <1>4, Readings DEF TypeOK, InOrder, Send
  <2>3. OffsetIsAccurate'
    BY <1>4 DEF OffsetIsAccurate, Margin, Send
  <2> QED BY <2>1, <2>2, <2>3
<1>5. ASSUME NEW r \in Requests, ServerReceives(r) PROVE ClockInv'
  <2>1. TypeOK'
    BY <1>5, Readings DEF TypeOK, ServerReceives, Stages
  <2>2. InOrder'
    BY <1>5, Readings DEF TypeOK, InOrder, ServerReceives
  <2>3. OffsetIsAccurate'
    BY <1>5 DEF OffsetIsAccurate, Margin, ServerReceives
  <2> QED BY <2>1, <2>2, <2>3
<1>6. ASSUME NEW r \in Requests, ServerAnswers(r) PROVE ClockInv'
  <2>1. TypeOK'
    BY <1>6, Readings DEF TypeOK, ServerAnswers, Stages
  <2>2. InOrder'
    BY <1>6, Readings DEF TypeOK, InOrder, ServerAnswers
  <2>3. OffsetIsAccurate'
    BY <1>6 DEF OffsetIsAccurate, Margin, ServerAnswers
  <2> QED BY <2>1, <2>2, <2>3
<1>7. ASSUME NEW r \in Requests, ClientReceives(r) PROVE ClockInv'
  <2> DEFINE sample == SampleOf(request[r], ClientTime)
  <2>1. sample.trip \in Int /\ sample.doubled \in Int
    BY Readings DEF TypeOK, SampleOf, Sample
  <2>2. request[r].clean =>
          /\ sample.doubled + 2 * skew <= sample.trip + 2 * Resolution
          /\ -(sample.doubled + 2 * skew) <= sample.trip + 2 * Resolution
    BY <1>7, Readings DEF TypeOK, InOrder, ClientReceives, SampleOf, Sample
  <2> HIDE DEF sample
  <2>3. \/ doubled' = sample.doubled /\ minTrip' = sample.trip /\ steady' = request[r].clean
        \/ UNCHANGED <<doubled, minTrip, steady>>
    BY <1>7 DEF ClientReceives, sample
  <2>4. request' = [request EXCEPT ![r] = Idle] /\ UNCHANGED <<now, skew>>
    BY <1>7 DEF ClientReceives
  <2>5. TypeOK'
    BY <2>1, <2>3, <2>4 DEF TypeOK, Idle, Stages, Kinds
  <2>6. InOrder'
    BY <2>4 DEF TypeOK, InOrder, Idle
  <2>7. OffsetIsAccurate'
    BY <2>2, <2>3, <2>4 DEF TypeOK, OffsetIsAccurate, Margin
  <2> QED BY <2>5, <2>6, <2>7
<1>8. ASSUME NEW r \in Requests, Lost(r) PROVE ClockInv'
  BY <1>8 DEF TypeOK, InOrder, OffsetIsAccurate, Margin, Lost, Idle, Stages, Kinds
<1> QED BY <1>1, <1>2, <1>3, <1>4, <1>5, <1>6, <1>7, <1>8 DEF Next

(* The offset is off by at most half the shortest round trip and what       *)
(* truncation adds, as long as nobody set the clock since.                  *)
THEOREM OffsetAccuracy == Spec => []OffsetIsAccurate
<1>1. ClockInv => OffsetIsAccurate
  BY DEF ClockInv
<1> QED BY <1>1, ClockInit, ClockStep, PTL DEF Spec
=============================================================================
