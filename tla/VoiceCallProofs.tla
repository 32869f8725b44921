--------------------------- MODULE VoiceCallProofs ---------------------------
(***************************************************************************)
(* Theorems about VoiceCall for any number of attempts to join.            *)
(***************************************************************************)
EXTENDS VoiceCall, TLAPS

(* As long as nothing overlapped, what Voice.conn and Voice.stream hold is  *)
(* the latest attempt's, there is no other connection or microphone, and    *)
(* only that attempt may still be starting.                                 *)

Unused(a) == a \notin enabled /\ a \notin handled /\ senders[a] = {}

Held ==
  /\ conn \in {None, joins} /\ stream \in {None, joins}
  /\ open \subseteq {conn} /\ mic \subseteq {stream}
  /\ stream # None => conn = stream /\ senders[stream] = {stream}
  /\ \A a \in Attempts : senders[a] \subseteq {a}

Started(a) ==
  /\ pc[a] \in Starting => /\ a = joins
                           /\ status \in {"CONNECTTING", "ERROR"}
                           /\ a \in muted <=> mutting
                           /\ a \notin handled
  /\ pc[a] \in {"uuid", "turn"} => conn = None /\ stream = None
  /\ pc[a] = "media" => conn = a /\ stream = None
  /\ pc[a] \in {"publish", "subscribe"} => conn = a /\ stream = a
  /\ pc[a] = "subscribe" => sub[a] = a
  /\ pc[a] \in {"uuid", "turn", "media"} => Unused(a)
  /\ joins < a => pc[a] = "none" /\ a \notin muted /\ Unused(a)

Shown ==
  /\ stream # None /\ mutting => stream \notin enabled
  /\ status = "MUTED" => mutting
  /\ status = "STOP" => conn = None /\ stream = None

Orderly == overlap \/ (Held /\ Shown /\ \A a \in Attempts : Started(a))

USE JoinsAssumption DEF Attempts

Steps == Starting \cup {"none", "wait", "resubscribe", "done"}

(* What joining does: the old connection and microphone are let go and the *)
(* next attempt begins. *)
LEMMA JoinEffect ==
  ASSUME TypeOK, NEW m \in BOOLEAN, NEW p \in [Attempts -> Steps], join(m, p)
  PROVE  /\ joins' = joins + 1 /\ joins' \in Attempts /\ mutting' = m
         /\ \A a \in Attempts : a \in muted' <=> (a \in muted \/ (m /\ a = joins'))
         /\ muted' \subseteq Attempts
         /\ conn' = None /\ stream' = None
         /\ open' = open \ {conn} /\ mic' \subseteq mic \ {stream}
         /\ pc' \in [Attempts -> Steps]
         /\ \A a \in Attempts : pc'[a] = IF a = joins' THEN "uuid" ELSE p[a]
         /\ UNCHANGED <<sub, handled, senders, enabled>>
<1>1. joins' = joins + 1 /\ joins' \in Attempts
  BY DEF join, TypeOK
<1>2. pc' = [p EXCEPT ![joins'] = "uuid"]
  BY DEF join
<1>3. "uuid" \in Steps
  BY DEF Steps, Starting
<1>4. pc' \in [Attempts -> Steps] /\ \A a \in Attempts : pc'[a] = IF a = joins' THEN "uuid" ELSE p[a]
  BY <1>1, <1>2, <1>3
<1>5. /\ \A a \in Attempts : a \in muted' <=> (a \in muted \/ (m /\ a = joins'))
      /\ muted' \subseteq Attempts
  BY <1>1 DEF join, TypeOK
<1> QED BY <1>1, <1>4, <1>5 DEF join, stop

LEMMA JoinType ==
  ASSUME TypeOK, NEW m \in BOOLEAN, NEW p \in [Attempts -> Steps], join(m, p),
         status' \in {"CONNECTTING", "ERROR"}, UNCHANGED <<inRoom, roomUuid>>,
         {recovered', overlap'} \subseteq BOOLEAN
  PROVE  TypeOK'
<1>1. /\ joins' \in 0 .. MaxJoins /\ mutting' \in BOOLEAN /\ muted' \subseteq Attempts
      /\ conn' = None /\ stream' = None /\ open' \subseteq Attempts /\ mic' \subseteq Attempts
      /\ UNCHANGED <<sub, handled, senders, enabled>> /\ pc' \in [Attempts -> Steps]
  <2>1. joins' \in 0 .. MaxJoins
    BY JoinEffect
  <2>2. muted' \subseteq Attempts /\ pc' \in [Attempts -> Steps] /\ mutting' \in BOOLEAN
    BY JoinEffect
  <2>3. /\ conn' = None /\ stream' = None /\ open' \subseteq open /\ mic' \subseteq mic
        /\ UNCHANGED <<sub, handled, senders, enabled>>
    BY JoinEffect
  <2> QED BY <2>1, <2>2, <2>3 DEF TypeOK
<1> QED BY <1>1 DEF TypeOK, Steps

LEMMA TypeStep == TypeOK /\ [Next]_vars => TypeOK'
<1> SUFFICES ASSUME TypeOK, [Next]_vars PROVE TypeOK'
  OBVIOUS
<1> USE DEF browser, attempts, place, vars, Starting
<1>0. TypeOK
  OBVIOUS
<1>1. CASE Call
  <2>1. pc \in [Attempts -> Steps] /\ {recovered', overlap'} \subseteq BOOLEAN
    BY <1>0, <1>1 DEF Call, Overlaps, TypeOK, Steps
  <2> QED BY <1>0, <1>1, <2>1, JoinType DEF Call
<1>2. CASE RecoveryState
  <2>1. pc \in [Attempts -> Steps] /\ {recovered', overlap'} \subseteq BOOLEAN
    BY <1>0, <1>2 DEF RecoveryState, Overlaps, TypeOK, Steps
  <2>2. CASE \E m \in BOOLEAN : join(m, pc) /\ status' = "CONNECTTING"
    BY <1>0, <1>2, <2>1, <2>2, JoinType DEF RecoveryState
  <2>3. CASE status' = "STOP" /\ UNCHANGED <<mutting, conn, stream, attempts, browser>>
    BY <1>0, <1>2, <2>1, <2>3 DEF RecoveryState, TypeOK
  <2> QED BY <1>2, <2>2, <2>3 DEF RecoveryState
<1>3. CASE exitRoom
  BY <1>0, <1>3 DEF exitRoom, TypeOK, stop, Overlaps
<1>4. CASE EnterRoom
  BY <1>0, <1>4 DEF EnterRoom, TypeOK
<1>5. CASE RoomDataNotification
  BY <1>0, <1>5 DEF RoomDataNotification, TypeOK
<1>6. CASE mute
  BY <1>0, <1>6 DEF mute, TypeOK
<1>7. CASE unmute
  BY <1>0, <1>7 DEF unmute, TypeOK
<1>8. CASE ConnectionChanges
  BY <1>0, <1>8 DEF ConnectionChanges, TypeOK, InCall
<1>9. ASSUME NEW a \in Attempts, GotUuid(a) PROVE TypeOK'
  BY <1>0, <1>9 DEF GotUuid, TypeOK, Goto
<1>10. ASSUME NEW a \in Attempts, NoUuid(a) PROVE TypeOK'
  BY <1>0, <1>10 DEF NoUuid, TypeOK, Goto
<1>11. ASSUME NEW a \in Attempts, RpcGivesUp(a) PROVE TypeOK'
  BY <1>0, <1>11 DEF RpcGivesUp, TypeOK, Goto
<1>12. ASSUME NEW a \in Attempts, Turn(a) PROVE TypeOK'
  BY <1>0, <1>12 DEF Turn, TypeOK, Goto
<1>13. ASSUME NEW a \in Attempts, MediaGranted(a) PROVE TypeOK'
  BY <1>0, <1>13 DEF MediaGranted, TypeOK, Goto, Fails
<1>14. ASSUME NEW a \in Attempts, MediaDenied(a) PROVE TypeOK'
  BY <1>0, <1>14 DEF MediaDenied, TypeOK, Goto, Fails
<1>15. ASSUME NEW a \in Attempts, Published(a) PROVE TypeOK'
  BY <1>0, <1>15 DEF Published, TypeOK, Goto, Fails
<1>16. ASSUME NEW a \in Attempts, Subscribed(a) PROVE TypeOK'
  BY <1>0, <1>16 DEF Subscribed, TypeOK, Goto, Fails, InCall
<1>17. ASSUME NEW a \in Attempts, Rejoin(a) PROVE TypeOK'
  <2>1. [pc EXCEPT ![a] = "done"] \in [Attempts -> Steps] /\ {recovered', overlap'} \subseteq BOOLEAN
    BY <1>0, <1>17 DEF Rejoin, TypeOK, Steps
  <2> QED BY <1>0, <1>17, <2>1, JoinType DEF Rejoin, TypeOK
<1>18. ASSUME NEW a \in Attempts, Resubscribed(a) PROVE TypeOK'
  BY <1>0, <1>18 DEF Resubscribed, TypeOK, Goto
<1>19. ASSUME NEW a \in Attempts, SubscribeAgain(a) PROVE TypeOK'
  BY <1>0, <1>19 DEF SubscribeAgain, TypeOK, Goto
<1>20. CASE UNCHANGED vars
  BY <1>0, <1>20 DEF TypeOK
<1> QED BY <1>1, <1>2, <1>3, <1>4, <1>5, <1>6, <1>7, <1>8, <1>9, <1>10, <1>11, <1>12, <1>13, <1>14, <1>15, <1>16, <1>17, <1>18, <1>19, <1>20 DEF Next

LEMMA TypeInit == Init => TypeOK
<1> SUFFICES ASSUME Init PROVE TypeOK
  OBVIOUS
<1>1. {inRoom, roomUuid, recovered, overlap} \subseteq BOOLEAN /\ mutting \in BOOLEAN
  BY DEF Init
<1>2. /\ joins \in 0 .. MaxJoins
      /\ pc \in [Attempts -> Starting \cup {"none", "wait", "resubscribe", "done"}]
      /\ sub \in [Attempts -> Attempts \cup {None}]
      /\ senders \in [Attempts -> SUBSET Attempts]
  BY DEF Init
<1> QED BY <1>1, <1>2 DEF Init, TypeOK

(* Every variable keeps its type, and Voice.conn is closed by nobody who    *)
(* does not also forget it.                                                 *)
THEOREM TypeCorrect == Spec => []TypeOK
  BY TypeInit, TypeStep, PTL DEF Spec

(* Joining while nothing is starting.  p is where the other attempts are. *)
LEMMA JoinOrderly ==
  ASSUME TypeOK, Held, Shown, \A a \in Attempts : Started(a),
         NEW m \in BOOLEAN, NEW p \in [Attempts -> Steps], join(m, p),
         \A a \in Attempts : p[a] \notin Starting /\ (p[a] = pc[a] \/ (p[a] = "done" /\ pc[a] # "none")),
         status' \in {"CONNECTTING", "ERROR"}
  PROVE  (Held /\ Shown /\ \A a \in Attempts : Started(a))'
<1>1. /\ joins' = joins + 1 /\ joins' \in Attempts /\ mutting' = m
      /\ \A a \in Attempts : a \in muted' <=> (a \in muted \/ (m /\ a = joins'))
      /\ conn' = None /\ stream' = None
      /\ open' = {} /\ mic' = {}
      /\ \A a \in Attempts : pc'[a] = IF a = joins' THEN "uuid" ELSE p[a]
      /\ UNCHANGED <<sub, handled, senders, enabled>>
  BY JoinEffect DEF Held
<1>2. Held' /\ Shown'
  BY <1>1 DEF Held, Shown
<1>3. ASSUME NEW a \in Attempts PROVE Started(a)'
  <2>1. CASE a = joins'
    <3>1. joins < a
      BY <1>1, <2>1 DEF TypeOK
    <3>2. Unused(a) /\ a \notin muted
      BY <3>1 DEF Started
    <3> QED BY <1>1, <2>1, <3>2 DEF Started, Unused, Starting
  <2>2. CASE a # joins'
    <3>1. pc'[a] = p[a] /\ p[a] \notin Starting
      BY <1>1, <2>2
    <3>2. joins' < a => joins < a /\ a \notin muted'
      BY <1>1, <2>2 DEF TypeOK, Started
    <3> QED BY <1>1, <3>1, <3>2 DEF Started, Unused, Starting
  <2> QED BY <2>1, <2>2
<1> QED BY <1>2, <1>3

LEMMA OrderlyStep == TypeOK /\ Orderly /\ [Next]_vars => Orderly'
<1> SUFFICES ASSUME TypeOK, Orderly, [Next]_vars, ~overlap' PROVE (Held /\ Shown /\ \A a \in Attempts : Started(a))'
  BY DEF Orderly
<1> USE DEF browser, attempts, place, vars
<1>0. TypeOK /\ Held /\ Shown /\ \A a \in Attempts : Started(a)
  <2>1. overlap => overlap'
    BY DEF TypeOK, Next, Call, RecoveryState, exitRoom, EnterRoom, RoomDataNotification, mute, unmute,
           ConnectionChanges, GotUuid, NoUuid, RpcGivesUp, Turn, MediaGranted, MediaDenied, Published,
           Subscribed, Rejoin, Resubscribed, SubscribeAgain, Overlaps
  <2> QED BY <2>1 DEF Orderly
<1>1. CASE Call
  <2>1. pc \in [Attempts -> Steps] /\ \A a \in Attempts : pc[a] \notin Starting
    BY <1>0, <1>1 DEF Call, Overlaps, TypeOK, Steps
  <2> QED BY <1>0, <1>1, <2>1, JoinOrderly DEF Call
<1>2. CASE RecoveryState
  <2>1. CASE \E m \in BOOLEAN : join(m, pc) /\ status' = "CONNECTTING" /\ Overlaps(Attempts)
    <3>1. pc \in [Attempts -> Steps] /\ \A a \in Attempts : pc[a] \notin Starting
      BY <1>0, <2>1 DEF Overlaps, TypeOK, Steps
    <3> QED BY <1>0, <2>1, <3>1, JoinOrderly
  <2>2. CASE /\ status' = "STOP" /\ overlap' = (overlap \/ joins > 0)
             /\ UNCHANGED <<mutting, conn, stream, attempts, browser>>
    <3>1. joins = 0
      <4>1. ~(joins > 0)
        BY <2>2
      <4> QED BY <1>0, <4>1 DEF TypeOK
    <3>2. conn = None /\ stream = None
      BY <1>0, <3>1 DEF TypeOK, Held
    <3>3. \A a \in Attempts : pc[a] = "none"
      BY <1>0, <3>1 DEF Started
    <3> QED BY <1>0, <2>2, <3>2, <3>3 DEF Held, Shown, Started, Unused, Starting
  <2> QED BY <1>2, <2>1, <2>2 DEF RecoveryState
<1>3. CASE exitRoom
  BY <1>0, <1>3 DEF exitRoom, TypeOK, Held, Shown, Started, Unused, Starting, stop, Overlaps
<1>4. CASE EnterRoom
  BY <1>0, <1>4 DEF EnterRoom, TypeOK, Held, Shown, Started, Unused, Starting
<1>5. CASE RoomDataNotification
  BY <1>0, <1>5 DEF RoomDataNotification, TypeOK, Held, Shown, Started, Unused, Starting
<1>6. CASE mute
  BY <1>0, <1>6 DEF mute, TypeOK, Held, Shown, Started, Unused, Starting
<1>7. CASE unmute
  BY <1>0, <1>7 DEF unmute, TypeOK, Held, Shown, Started, Unused, Starting
<1>8. CASE ConnectionChanges
  <2>1. conn # None /\ conn \in handled
    BY <1>0, <1>8 DEF ConnectionChanges, Held
  <2>2. \A a \in Attempts : pc[a] \notin Starting
    BY <1>0, <2>1 DEF Started, Starting
  <2>3. /\ status' \in {"ERROR", "MUTED", "UNMUTED"}
        /\ status' = "MUTED" => mutting
        /\ UNCHANGED <<mutting, conn, stream, attempts, browser>>
    BY <1>8 DEF ConnectionChanges, InCall
  <2>4. Held' /\ Shown'
    <3>1. Held'
      BY <1>0, <2>3 DEF Held
    <3>2. status' # "STOP"
      BY <2>3
    <3> QED BY <1>0, <2>3, <3>1, <3>2 DEF Shown
  <2>5. ASSUME NEW b \in Attempts PROVE Started(b)'
    BY <1>0, <2>2, <2>3 DEF Started, Unused
  <2> QED BY <2>4, <2>5
<1>9. ASSUME NEW a \in Attempts, GotUuid(a) PROVE (Held /\ Shown /\ \A b \in Attempts : Started(b))'
  BY <1>0, <1>9 DEF GotUuid, TypeOK, Held, Shown, Started, Unused, Starting, Goto
<1>10. ASSUME NEW a \in Attempts, NoUuid(a) PROVE (Held /\ Shown /\ \A b \in Attempts : Started(b))'
  BY <1>0, <1>10 DEF NoUuid, TypeOK, Held, Shown, Started, Unused, Starting, Goto
<1>11. ASSUME NEW a \in Attempts, RpcGivesUp(a) PROVE (Held /\ Shown /\ \A b \in Attempts : Started(b))'
  BY <1>0, <1>11 DEF RpcGivesUp, TypeOK, Held, Shown, Started, Unused, Starting, Goto
<1>12. ASSUME NEW a \in Attempts, Turn(a) PROVE (Held /\ Shown /\ \A b \in Attempts : Started(b))'
  BY <1>0, <1>12 DEF Turn, TypeOK, Held, Shown, Started, Unused, Starting, Goto
<1>13. ASSUME NEW a \in Attempts, MediaGranted(a) PROVE (Held /\ Shown /\ \A b \in Attempts : Started(b))'
  BY <1>0, <1>13 DEF MediaGranted, TypeOK, Held, Shown, Started, Unused, Starting, Goto, Fails
<1>14. ASSUME NEW a \in Attempts, MediaDenied(a) PROVE (Held /\ Shown /\ \A b \in Attempts : Started(b))'
  BY <1>0, <1>14 DEF MediaDenied, TypeOK, Held, Shown, Started, Unused, Starting, Goto, Fails
<1>15. ASSUME NEW a \in Attempts, Published(a) PROVE (Held /\ Shown /\ \A b \in Attempts : Started(b))'
  BY <1>0, <1>15 DEF Published, TypeOK, Held, Shown, Started, Unused, Starting, Goto, Fails
<1>16. ASSUME NEW a \in Attempts, Subscribed(a) PROVE (Held /\ Shown /\ \A b \in Attempts : Started(b))'
  BY <1>0, <1>16 DEF Subscribed, TypeOK, Held, Shown, Started, Unused, Starting, Goto, Fails, InCall
<1>17. ASSUME NEW a \in Attempts, Rejoin(a) PROVE (Held /\ Shown /\ \A b \in Attempts : Started(b))'
  <2> DEFINE p == [pc EXCEPT ![a] = "done"]
  <2>1. p \in [Attempts -> Steps] /\ \A b \in Attempts : p[b] = IF b = a THEN "done" ELSE pc[b]
    BY <1>0 DEF TypeOK, Steps
  <2>2. \A b \in Attempts : p[b] \notin Starting
    BY <1>17, <2>1 DEF Rejoin, Starting
  <2>3. /\ join(mutting, p) /\ mutting \in BOOLEAN /\ status' \in {"CONNECTTING", "ERROR"}
        /\ pc[a] # "none"
    BY <1>0, <1>17 DEF Rejoin, TypeOK
  <2> HIDE DEF p
  <2> QED BY <1>0, <2>1, <2>2, <2>3, JoinOrderly
<1>18. ASSUME NEW a \in Attempts, Resubscribed(a) PROVE (Held /\ Shown /\ \A b \in Attempts : Started(b))'
  BY <1>0, <1>18 DEF Resubscribed, TypeOK, Held, Shown, Started, Unused, Starting, Goto
<1>19. ASSUME NEW a \in Attempts, SubscribeAgain(a) PROVE (Held /\ Shown /\ \A b \in Attempts : Started(b))'
  BY <1>0, <1>19 DEF SubscribeAgain, TypeOK, Held, Shown, Started, Unused, Starting, Goto
<1>20. CASE UNCHANGED vars
  BY <1>0, <1>20 DEF TypeOK, Held, Shown, Started, Unused, Starting
<1> QED BY <1>1, <1>2, <1>3, <1>4, <1>5, <1>6, <1>7, <1>8, <1>9, <1>10, <1>11, <1>12, <1>13, <1>14, <1>15, <1>16, <1>17, <1>18, <1>19, <1>20 DEF Next

LEMMA OrderlyHolds == Spec => [](TypeOK /\ Orderly)
<1>1. Init => TypeOK /\ Orderly
  BY TypeInit DEF Init, Orderly, Held, Shown, Started, Unused, Starting
<1> QED BY <1>1, TypeStep, OrderlyStep, PTL DEF Spec

(* A stopped call holds neither microphone nor connection, however often    *)
(* the page joined, re-joined and stopped, unless that overlapped with an   *)
(* attempt that was still starting.                                         *)
THEOREM QuietAfterHangUp == Spec => []HangUpIsQuiet
<1>1. TypeOK /\ Orderly => HangUpIsQuiet
  BY DEF TypeOK, Orderly, Held, Shown, HangUpIsQuiet
<1> QED BY <1>1, OrderlyHolds, PTL

(* There is no connection and no microphone but those the page can stop. *)
THEOREM NothingLost == Spec => []NothingIsLost
<1>1. Orderly => NothingIsLost
  BY DEF Orderly, Held, NothingIsLost
<1> QED BY <1>1, OrderlyHolds, PTL

(* A call that is shown as muted sends nothing of the microphone. *)
THEOREM MutedSilent == Spec => []MutedIsSilent
<1>1. TypeOK /\ Orderly => MutedIsSilent
  BY DEF TypeOK, Orderly, Held, Shown, MutedIsSilent
<1> QED BY <1>1, OrderlyHolds, PTL
=============================================================================
