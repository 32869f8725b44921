---------------------------- MODULE OnceDelivery ----------------------------
(***************************************************************************)
(* What a text message promises to the room it is sent to: it arrives, or  *)
(* is refused, once, whatever the voice service does.                      *)
(***************************************************************************)
EXTENDS Sequences

CONSTANTS Texts, Results

VARIABLES
  asked,   \* the texts handed in
  results  \* text -> its results so far
vars == <<asked, results>>

Init == asked = {} /\ results = [t \in Texts |-> <<>>]

Ask(t) ==
  /\ t \notin asked /\ asked' = asked \cup {t}
  /\ UNCHANGED results

Resolve(t) ==
  /\ t \in asked /\ results[t] = <<>>
  /\ \E r \in Results : results' = [results EXCEPT ![t] = <<r>>]
  /\ UNCHANGED asked

Next == \E t \in Texts : Ask(t) \/ Resolve(t)

Spec == Init /\ [][Next]_vars

FairSpec == Spec /\ \A t \in Texts : WF_vars(Resolve(t))
=============================================================================
