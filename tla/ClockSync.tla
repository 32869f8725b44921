----------------------------- MODULE ClockSync -----------------------------
(***************************************************************************)
(* How a client learns the server's clock: UpdateTimestampIfneeded (vt.js). *)
(*                                                                         *)
(* The answers to "/timestamp" and to "/room/..." carry the server time at  *)
(* which they were made; the websocket's "replay_timestamp" carries the    *)
(* times at which the server received the request and sent the answer.     *)
(* Each gives an estimate of the offset between the clocks; the client     *)
(* keeps the one with the shortest round trip, for ever.  Requests overlap *)
(* and their answers come in any order.                                    *)
(*                                                                         *)
(* Time is counted in units finer than the millisecond both sides truncate *)
(* their clocks to.  `timeOffset` has a half in it: `doubled` is twice it.  *)
(***************************************************************************)
EXTENDS Integers

CONSTANTS
  Requests,    \* requests that may be under way at the same time
  Resolution,  \* units in the millisecond the clocks are truncated to
  Skews,       \* differences the client's clock may have to the server's
  MaxTime,     \* bound on the time a run lasts
  Never        \* the minTrip of a client without a sample: 1e9

ASSUME ResolutionAssumption == Resolution \in Nat \ {0}
ASSUME SkewsAssumption == Skews \subseteq Int
ASSUME TimeAssumption == MaxTime \in Nat /\ Never \in Nat

VARIABLES
  now,      \* the true time, which the server's clock shows
  skew,     \* client's clock minus server's clock
  request,  \* request -> its state and the times read on its way
  doubled,  \* twice timeOffset
  minTrip,
  steady    \* history: nobody set the client's clock since the sample in
            \* use was begun
vars == <<now, skew, request, doubled, minTrip, steady>>

Kinds == {"http", "ws"}
Stages == {"unsent", "sent", "received", "answered"}
Idle == [stage |-> "unsent", kind |-> "http", clean |-> TRUE,
         l1 |-> 0, s1 |-> 0, s2 |-> 0]

Init ==
  /\ now = 0
  /\ skew \in Skews
  /\ request = [r \in Requests |-> Idle]
  /\ doubled = 0
  /\ minTrip = Never
  /\ steady = FALSE

(* What a clock that shows t is read as. *)
Truncated(t) == t - (t % Resolution)
ServerTime == Truncated(now)
ClientTime == Truncated(now + skew)

Tick ==
  /\ now < MaxTime
  /\ now' = now + 1
  /\ UNCHANGED <<skew, request, doubled, minTrip, steady>>

(* Somebody, or NTP, sets the client's clock. *)
ClockSet ==
  /\ skew' \in Skews \ {skew}
  /\ request' = [r \in Requests |-> [request[r] EXCEPT !.clean = FALSE]]
  /\ steady' = FALSE
  /\ UNCHANGED <<now, doubled, minTrip>>

Send(r) ==
  /\ request[r].stage = "unsent"
  /\ \E k \in Kinds :
       request' = [request EXCEPT ![r] =
         [stage |-> "sent", kind |-> k, clean |-> TRUE, l1 |-> ClientTime, s1 |-> 0, s2 |-> 0]]
  /\ UNCHANGED <<now, skew, doubled, minTrip, steady>>

(* The handler reads the clock: its startTime. *)
ServerReceives(r) ==
  /\ request[r].stage = "sent"
  /\ request' = [request EXCEPT ![r].stage = "received", ![r].s1 = ServerTime]
  /\ UNCHANGED <<now, skew, doubled, minTrip, steady>>

(* It reads it again for the answer: endTime, or the only timestamp of HTTP. *)
ServerAnswers(r) ==
  /\ request[r].stage = "received"
  /\ request' = [request EXCEPT ![r].stage = "answered", ![r].s2 = ServerTime]
  /\ UNCHANGED <<now, skew, doubled, minTrip, steady>>

Sample(server, start, end) ==
  [trip |-> end - start, doubled |-> 2 * server - (start + end)]

(* Mutant: the server time that does not go with the shortened end. *)
SampleOfSwapped(q, l2) ==
  IF q.kind = "ws" THEN Sample(q.s2, q.l1, l2 - q.s2 + q.s1)
                   ELSE Sample(q.s2, q.l1, l2)
(* TimestampV2Resp takes the time the server needed off the end. *)
SampleOf(q, l2) ==
  IF q.kind = "ws" THEN Sample(q.s1, q.l1, l2 - q.s2 + q.s1)
                   ELSE Sample(q.s2, q.l1, l2)

(* The answer arrives: UpdateTimestampIfneeded. *)
ClientReceives(r) ==
  /\ request[r].stage = "answered"
  /\ LET sample == SampleOf(request[r], ClientTime)
     IN  IF sample.trip < minTrip
         THEN /\ doubled' = sample.doubled
              /\ minTrip' = sample.trip
              /\ steady' = request[r].clean
         ELSE UNCHANGED <<doubled, minTrip, steady>>
  /\ request' = [request EXCEPT ![r] = Idle]
  /\ UNCHANGED <<now, skew>>

(* A request or its answer is lost, or Fetch gives up after ten seconds. *)
Lost(r) ==
  /\ request[r].stage # "unsent"
  /\ request' = [request EXCEPT ![r] = Idle]
  /\ UNCHANGED <<now, skew, doubled, minTrip, steady>>

Next ==
  \/ Tick \/ ClockSet
  \/ \E r \in Requests : \/ Send(r) \/ ServerReceives(r) \/ ServerAnswers(r)
                         \/ ClientReceives(r) \/ Lost(r)
Spec == Init /\ [][Next]_vars
-----------------------------------------------------------------------------
TypeOK ==
  /\ now \in Nat
  /\ skew \in Skews
  /\ request \in [Requests -> [stage : Stages, kind : Kinds, clean : BOOLEAN,
                               l1 : Int, s1 : Int, s2 : Int]]
  /\ doubled \in Int
  /\ minTrip \in Int
  /\ steady \in BOOLEAN

(* The offset the client uses is off by at most half of the shortest round  *)
(* trip it saw, and by what the truncation of the readings adds, however    *)
(* requests overlap, as long as nobody set its clock since that request.    *)
Margin == minTrip + 2 * Resolution
OffsetIsAccurate ==
  steady => /\ doubled + 2 * skew <= Margin
            /\ -(doubled + 2 * skew) <= Margin
=============================================================================
