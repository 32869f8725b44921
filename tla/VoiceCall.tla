----------------------------- MODULE VoiceCall -----------------------------
(***************************************************************************)
(* The voice call of a page (vt.js, Voice).                                *)
(*                                                                         *)
(* Every Voice.join is an attempt that goes on by itself: it waits for the *)
(* id of the room, asks the voice proxy for a relay, opens a connection    *)
(* and the microphone, publishes, subscribes, and from then on subscribes  *)
(* again every three seconds.  Nothing ends an attempt: it only finds out, *)
(* at its next step, what later joins and stops did to Voice.conn,         *)
(* Voice.stream and Voice.status, which all attempts share.                *)
(*                                                                         *)
(* An rpc that fails is tried again for ever, a second later, unless the   *)
(* call is stopped by then.  WebRTC calls that stay in the browser take no *)
(* time.  updateVoiceSetting is never called: its only caller runs while   *)
(* the call is being set up.                                               *)
(***************************************************************************)
EXTENDS Naturals

CONSTANTS
  MaxJoins,  \* how often the page joins a call (a bound)
  None       \* no connection, no stream

Attempts == 1 .. MaxJoins
ASSUME JoinsAssumption == MaxJoins \in Nat \ {0} /\ None \notin Attempts

Starting == {"uuid", "turn", "media", "publish", "subscribe"}

VARIABLES
  (* Voice *)
  status, mutting,  \* _status, _mutting
  conn, stream,     \* the attempts whose connection and stream they are
  (* the attempts *)
  joins,            \* how many there were
  pc,               \* attempt -> what it waits for
  muted,            \* the attempts joined as muted
  sub,              \* attempt -> the connection it subscribed with
  (* the browser: connections and streams are named after their attempts *)
  open,             \* connections not closed
  handled,          \* connections with an oniceconnectionstatechange
  senders,          \* connection -> the streams whose tracks it sends
  mic,              \* streams not stopped
  enabled,          \* streams whose tracks are enabled
  (* the room *)
  inRoom, roomUuid, \* roomUuid: it is known
  recovered,        \* RecoveryState has run
  (* history *)
  overlap           \* a join or a stop came while an attempt was starting

browser == <<open, handled, senders, mic, enabled>>
attempts == <<joins, pc, muted, sub>>
place == <<inRoom, roomUuid, recovered>>
vars == <<status, mutting, conn, stream, attempts, browser, place, overlap>>

Init ==
  /\ status = "STOP" /\ mutting = FALSE /\ conn = None /\ stream = None
  /\ joins = 0 /\ pc = [a \in Attempts |-> "none"] /\ muted = {}
  /\ sub = [a \in Attempts |-> None]
  /\ open = {} /\ handled = {} /\ mic = {} /\ enabled = {}
  /\ senders = [a \in Attempts |-> {}]
  /\ inRoom = TRUE /\ roomUuid = FALSE /\ recovered = FALSE
  /\ overlap = FALSE

-----------------------------------------------------------------------------
(* Joining and stopping *)

(* Mutant: the tracks go on. *)
StopKeepsTracks ==
  /\ open' = open \ {conn}
  /\ conn' = None /\ stream' = None
  /\ UNCHANGED mic
(* Mutant: the connection is forgotten and not closed. *)
StopForgets ==
  /\ mic' = mic \ ({stream} \cup (IF conn = None THEN {} ELSE senders[conn]))
  /\ conn' = None /\ stream' = None
  /\ UNCHANGED open
(* Mutant: the connection is closed and kept. *)
StopKeepsConnection ==
  /\ mic' = mic \ ({stream} \cup (IF conn = None THEN {} ELSE senders[conn]))
  /\ open' = open \ {conn}
  /\ stream' = None
  /\ UNCHANGED conn
(* Voice.stop, but for the status.  "delete Voice.conn" leaves undefined. *)
stop ==
  /\ mic' = mic \ ({stream} \cup (IF conn = None THEN {} ELSE senders[conn]))
  /\ open' = open \ {conn}
  /\ conn' = None /\ stream' = None

Overlaps(others) == overlap' = (overlap \/ \E a \in others : pc[a] \in Starting)

(* Up to waitForRoomUuid.  p is where the other attempts are then. *)
join(m, p) ==
  /\ joins < MaxJoins /\ joins' = joins + 1
  /\ mutting' = m
  /\ muted' = IF m THEN muted \cup {joins'} ELSE muted
  /\ stop
  /\ pc' = [p EXCEPT ![joins'] = "uuid"]
  /\ UNCHANGED <<sub, handled, senders, enabled>>

(* The buttons to call and to call again. *)
Call ==
  /\ inRoom /\ status \in {"STOP", "ERROR"}
  /\ join(FALSE, pc) /\ status' = "CONNECTTING"
  /\ Overlaps(Attempts)
  /\ UNCHANGED place

(* What the tab's state said of the call, once, whatever is going on. *)
RecoveryState ==
  /\ inRoom /\ ~recovered /\ recovered' = TRUE
  /\ UNCHANGED <<inRoom, roomUuid>>
  /\ \/ /\ \E m \in BOOLEAN : join(m, pc)
        /\ status' = "CONNECTTING"
        /\ Overlaps(Attempts)
     \/ /\ status' = "STOP"
        /\ overlap' = (overlap \/ joins > 0)
        /\ UNCHANGED <<mutting, conn, stream, attempts, browser>>

exitRoom ==
  /\ inRoom /\ inRoom' = FALSE /\ roomUuid' = FALSE
  /\ stop /\ status' = "STOP"
  /\ Overlaps(Attempts)
  /\ UNCHANGED <<mutting, attempts, handled, senders, enabled, recovered>>

EnterRoom ==
  /\ ~inRoom /\ inRoom' = TRUE
  /\ UNCHANGED <<status, mutting, conn, stream, attempts, browser, roomUuid,
                 recovered, overlap>>

RoomDataNotification ==
  /\ inRoom /\ ~roomUuid /\ roomUuid' = TRUE
  /\ UNCHANGED <<status, mutting, conn, stream, attempts, browser, inRoom,
                 recovered, overlap>>

mute ==
  /\ status = "UNMUTED" /\ conn # None
  /\ enabled' = enabled \ senders[conn]
  /\ mutting' = TRUE /\ status' = "MUTED"
  /\ UNCHANGED <<conn, stream, attempts, open, handled, senders, mic, place, overlap>>
unmute ==
  /\ status = "MUTED" /\ conn # None
  /\ enabled' = enabled \cup senders[conn]
  /\ mutting' = FALSE /\ status' = "UNMUTED"
  /\ UNCHANGED <<conn, stream, attempts, open, handled, senders, mic, place, overlap>>

-----------------------------------------------------------------------------
(* An attempt goes on *)

Goto(a, label) == pc' = [pc EXCEPT ![a] = label]

(* start throws, or returns after an error: join's catch. *)
Fails(a) ==
  /\ Goto(a, "done")
  /\ status' = IF status = "CONNECTTING" THEN "ERROR" ELSE status

(* The uuid is known, in time or just when it is asked for. *)
GotUuid(a) ==
  /\ pc[a] = "uuid" /\ roomUuid
  /\ Goto(a, "turn")
  /\ UNCHANGED <<status, mutting, conn, stream, joins, muted, sub, browser, place, overlap>>
(* No uuid after ten seconds, or the name is too long, or no https. *)
NoUuid(a) ==
  /\ pc[a] = "uuid"
  /\ Goto(a, "done") /\ status' = "ERROR"
  /\ UNCHANGED <<mutting, conn, stream, joins, muted, sub, browser, place, overlap>>

(* Mutant: a failed rpc is tried again, stopped or not. *)
RpcRetriesForEver(a) == FALSE /\ UNCHANGED vars
(* An rpc fails and the call is stopped: it returns nothing, and the caller *)
(* fails on it.  Otherwise it is tried again, and nothing has changed.      *)
RpcGivesUp(a) ==
  /\ pc[a] \in {"turn", "publish", "subscribe", "resubscribe"}
  /\ status = "STOP"
  /\ Goto(a, "done")
  /\ UNCHANGED <<status, mutting, conn, stream, joins, muted, sub, browser, place, overlap>>

Turn(a) ==
  /\ pc[a] = "turn"
  /\ conn' = a /\ open' = open \cup {a}
  /\ Goto(a, "media")
  /\ UNCHANGED <<status, mutting, stream, joins, muted, sub, handled, senders, mic,
                 enabled, place, overlap>>

(* Mutant: the tracks are enabled whatever the call was joined as. *)
MediaEnabled(a) ==
  /\ pc[a] = "media" /\ conn # None
  /\ stream' = a /\ mic' = mic \cup {a} /\ enabled' = enabled \cup {a}
  /\ senders' = [senders EXCEPT ![conn] = @ \cup {a}]
  /\ Goto(a, "publish")
  /\ UNCHANGED <<status, mutting, conn, joins, muted, sub, open, handled, place, overlap>>
(* getUserMedia; addTrack fails when Voice.conn is gone. *)
MediaGranted(a) ==
  /\ pc[a] = "media"
  /\ stream' = a /\ mic' = mic \cup {a}
  /\ enabled' = IF a \in muted THEN enabled ELSE enabled \cup {a}
  /\ \/ /\ conn # None
        /\ senders' = [senders EXCEPT ![conn] = @ \cup {a}]
        /\ Goto(a, "publish")
        /\ UNCHANGED status
     \/ /\ conn = None
        /\ Fails(a)
        /\ UNCHANGED senders
  /\ UNCHANGED <<mutting, conn, joins, muted, sub, open, handled, place, overlap>>
MediaDenied(a) ==
  /\ pc[a] = "media"
  /\ Fails(a)
  /\ UNCHANGED <<mutting, conn, stream, joins, muted, sub, browser, place, overlap>>

(* The proxy may answer without data; the answer may not fit a connection   *)
(* that is another attempt's.                                               *)
Published(a) ==
  /\ pc[a] = "publish"
  /\ \/ /\ Fails(a)
        /\ UNCHANGED sub
     \/ /\ conn # None
        /\ sub' = [sub EXCEPT ![a] = conn]
        /\ Goto(a, "subscribe")
        /\ UNCHANGED status
  /\ UNCHANGED <<mutting, conn, stream, joins, muted, browser, place, overlap>>

InCall(m) == IF m THEN "MUTED" ELSE "UNMUTED"

(* Mutant: the end of join does not set the status. *)
StaysConnecting(a) ==
  /\ pc[a] = "subscribe" /\ conn # None
  /\ handled' = handled \cup {conn}
  /\ Goto(a, "wait")
  /\ UNCHANGED <<status, mutting, conn, stream, joins, muted, sub, open, senders, mic,
                 enabled, place, overlap>>
(* The first subscribe, the rest of start and the end of join.  A closed    *)
(* connection may not take the proxy's offer.                               *)
Subscribed(a) ==
  /\ pc[a] = "subscribe"
  /\ \/ /\ conn # None
        /\ handled' = handled \cup {conn}
        /\ Goto(a, "wait")
        /\ status' = IF status = "CONNECTTING" THEN InCall(a \in muted) ELSE status
     \/ /\ conn = None \/ sub[a] \notin open
        /\ Fails(a)
        /\ UNCHANGED handled
  /\ UNCHANGED <<mutting, conn, stream, joins, muted, sub, open, senders, mic,
                 enabled, place, overlap>>

(* The proxy does not know the caller any more: join anew.  At the first    *)
(* subscribe the attempt that does so then fails, and blames the new one.   *)
Rejoin(a) ==
  /\ pc[a] \in {"subscribe", "resubscribe"}
  /\ join(mutting, [pc EXCEPT ![a] = "done"])
  /\ status' = IF pc[a] = "subscribe" THEN "ERROR" ELSE "CONNECTTING"
  /\ overlap' = (overlap \/ status = "STOP"
                         \/ \E b \in Attempts \ {a} : pc[b] \in Starting)
  /\ UNCHANGED place

Resubscribed(a) ==
  /\ pc[a] = "resubscribe"
  /\ \/ Goto(a, "wait")
     \/ sub[a] \notin open /\ Goto(a, "done")
  /\ UNCHANGED <<status, mutting, conn, stream, joins, muted, sub, browser, place, overlap>>
(* The timer of three seconds. *)
SubscribeAgain(a) ==
  /\ pc[a] = "wait"
  /\ Goto(a, IF conn # None /\ sub[a] = conn /\ status # "STOP" THEN "resubscribe" ELSE "done")
  /\ UNCHANGED <<status, mutting, conn, stream, joins, muted, sub, browser, place, overlap>>

(* oniceconnectionstatechange of any connection looks at Voice.conn. *)
ConnectionChanges ==
  /\ conn # None /\ handled \cap open # {}
  /\ \/ status' = "ERROR"
     \/ status = "ERROR" /\ status' = InCall(mutting)
  /\ UNCHANGED <<mutting, conn, stream, attempts, browser, place, overlap>>

-----------------------------------------------------------------------------
Answered(a) == Turn(a) \/ Published(a) \/ Subscribed(a) \/ Resubscribed(a)
Waits(a) == GotUuid(a) \/ NoUuid(a) \/ MediaGranted(a) \/ MediaDenied(a) \/ SubscribeAgain(a)

Next ==
  \/ Call \/ RecoveryState \/ exitRoom \/ EnterRoom \/ RoomDataNotification
  \/ mute \/ unmute \/ ConnectionChanges
  \/ \E a \in Attempts :
       \/ GotUuid(a) \/ NoUuid(a) \/ RpcGivesUp(a) \/ Turn(a)
       \/ MediaGranted(a) \/ MediaDenied(a) \/ Published(a) \/ Subscribed(a)
       \/ Rejoin(a) \/ Resubscribed(a) \/ SubscribeAgain(a)

Spec == Init /\ [][Next]_vars

(* Timers fire, the user answers the browser's question, and an rpc that is *)
(* tried again and again gets an answer; once stopped, it need not.         *)
Fairness ==
  \A a \in Attempts :
    /\ WF_vars(Waits(a))
    /\ WF_vars(RpcGivesUp(a))
    /\ WF_vars(status # "STOP" /\ (Answered(a) \/ Rejoin(a)))
FairSpec == Spec /\ Fairness

TypeOK ==
  /\ status \in {"STOP", "CONNECTTING", "MUTED", "UNMUTED", "ERROR"}
  /\ mutting \in BOOLEAN
  /\ conn \in open \cup {None} /\ stream \in mic \cup {None}
  /\ joins \in 0 .. MaxJoins /\ muted \subseteq Attempts
  /\ pc \in [Attempts -> Starting \cup {"none", "wait", "resubscribe", "done"}]
  /\ sub \in [Attempts -> Attempts \cup {None}]
  /\ open \subseteq Attempts /\ handled \subseteq Attempts
  /\ senders \in [Attempts -> SUBSET Attempts]
  /\ mic \subseteq Attempts /\ enabled \subseteq Attempts
  /\ {inRoom, roomUuid, recovered, overlap} \subseteq BOOLEAN

(* A call that is stopped has let go of the microphone and of its           *)
(* connection, unless it was stopped or joined anew while an attempt was    *)
(* still starting: that attempt goes on and opens them again.               *)
HangUpIsQuiet == status = "STOP" => overlap \/ (mic = {} /\ open = {})

(* No connection and no microphone but those stop will find; with the same  *)
(* exception: the attempts overwrite each other's Voice.conn.               *)
NothingIsLost ==
  overlap \/ (open \subseteq {conn} /\ mic \subseteq {stream})

(* While the panel shows "muted" no live track is enabled. *)
MutedIsSilent == status = "MUTED" => overlap \/ mic \cap enabled = {}

(* The panel does not show "connecting" for ever. *)
ConnectingSettles == status = "CONNECTTING" ~> status # "CONNECTTING"

(* Once the call is stopped for good the retries end. *)
RetriesEnd ==
  <>[](status = "STOP")
    => <>[](\A a \in Attempts : pc[a] \in {"none", "done"})
=============================================================================
