---------------------------- MODULE RateLimiter ----------------------------
(***************************************************************************)
(* isLimited (vt.js): how often the events of a page (a player's play,     *)
(* pause or seek, a message on the websocket) may run the sync loop out of *)
(* turn.  lastRunQueue holds the times of the calls that were let through. *)
(*                                                                         *)
(* Times are kept as ages in seconds; ages beyond the period are one.  The  *)
(* history counts, for every age, the calls let through that are at most    *)
(* that old.                                                                *)
(***************************************************************************)
EXTENDS Integers, Sequences

CONSTANTS
  periodSec,       \* 5
  timeLimitation   \* 15

ASSUME LimitAssumption == periodSec \in Nat \ {0} /\ timeLimitation \in Nat

VARIABLES
  lastRunQueue,  \* ages of the calls let through, oldest first
  passed,        \* history: age -> number of calls let through since that age
  limited        \* the last answer
vars == <<lastRunQueue, passed, limited>>

Ages == 0 .. periodSec
Expired == periodSec + 1

Init ==
  /\ lastRunQueue = <<>>
  /\ passed = [a \in Ages |-> 0]
  /\ limited = FALSE

(* Mutant: entries of the period itself are dropped too. *)
DroppedAtPeriod(a) == a >= periodSec
(* lastRunQueue[0] < now - periodSec *)
Dropped(a) == a > periodSec

(* The while loop: shift as long as the oldest entry is too old. *)
Pruned ==
  LET kept == {i \in 1 .. Len(lastRunQueue) : ~Dropped(lastRunQueue[i])}
  IN  IF kept = {} THEN <<>>
      ELSE SubSeq(lastRunQueue, CHOOSE i \in kept : \A j \in kept : i <= j,
                  Len(lastRunQueue))

(* Mutant: the call is recorded before it is decided. *)
CallRecordedFirst ==
  LET queue == Append(Pruned, 0)
  IN  /\ limited' = (Len(Pruned) > timeLimitation)
      /\ lastRunQueue' = IF Len(queue) > 2 * timeLimitation THEN Tail(queue) ELSE queue
      /\ passed' = IF limited' THEN passed ELSE [a \in Ages |-> passed[a] + 1]
Call ==
  \/ /\ Len(Pruned) > timeLimitation
     /\ limited' = TRUE
     /\ lastRunQueue' = Pruned
     /\ UNCHANGED passed
  \/ /\ Len(Pruned) <= timeLimitation
     /\ limited' = FALSE
     /\ lastRunQueue' = Append(Pruned, 0)
     /\ passed' = [a \in Ages |-> passed[a] + 1]

Tick ==
  /\ lastRunQueue' = [i \in 1 .. Len(lastRunQueue) |->
                        IF lastRunQueue[i] < Expired THEN lastRunQueue[i] + 1 ELSE Expired]
  /\ passed' = [a \in Ages |-> IF a = 0 THEN 0 ELSE passed[a - 1]]
  /\ limited' = FALSE

Next == Call \/ Tick
Spec == Init /\ [][Next]_vars
-----------------------------------------------------------------------------
TypeOK ==
  /\ lastRunQueue \in Seq(0 .. Expired)
  /\ passed \in [Ages -> Nat]
  /\ limited \in BOOLEAN

PassedInPeriod == passed[periodSec]

(* In no period are more calls let through than the constant and the        *)
(* comparison in the code say: sixteen, where the comment on periodSec      *)
(* (vt.js 34) speaks of ten.                                                *)
PeriodBound == PassedInPeriod <= timeLimitation + 1

(* A call is refused only if that many were let through in the period that  *)
(* ends with it: refused calls do not prolong the refusal.                  *)
RefusedOnlyWhenBusy == limited => PassedInPeriod = timeLimitation + 1
=============================================================================
