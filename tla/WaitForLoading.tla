--------------------------- MODULE WaitForLoading ---------------------------
(***************************************************************************)
(* Watching together: a host's player, the room on the server, and the     *)
(* players of the members, who report whether they are loading.            *)
(*                                                                         *)
(* The host's page (vt.js) tells the server every two seconds, or at an    *)
(* event, whether its video is paused; the server counts the members that  *)
(* reported within ten seconds and sets WaitForLoadding when one of them   *)
(* is loading; the host then pauses its own video, but reports it as       *)
(* playing, and plays it again when nobody is loading any more.            *)
(*                                                                         *)
(* The room exists and everybody knows its password (RoomService, WsHub).  *)
(* Positions are left out: a member's video follows its play state here.   *)
(***************************************************************************)
EXTENDS Naturals

CONSTANTS
  Host,     \* the host's page and its websocket
  Http,     \* the host's HTTP requests
  Members,  \* the members' pages, each with its websocket
  None,     \* nothing: no message, no room heard of
  MaxDisturbances  \* how often users, players and connections disturb (a bound)

ASSUME NamesAssumption == Host # Http /\ {Host, Http, None} \cap Members = {}
ASSUME BoundAssumption == MaxDisturbances \in Nat

Clients == {Host} \cup Members
Threads == Clients \cup {Http}

(* What a client keeps of the room it was told of. *)
Snapshot == [paused : BOOLEAN, waitForLoadding : BOOLEAN]

(* Requests with data: an update of the host, a report of a member. *)
UpdateRequests == [method : {"update"}, paused : BOOLEAN, atEnd : BOOLEAN]
ReportRequests == [method : {"update_member"}, isLoadding : BOOLEAN]

(* The message from the host's top window to the frame of the video. *)
SyncMessages == [type : {"SyncMasterVideo"}, waitForLoadding : BOOLEAN]

VARIABLES
  (* the host's page *)
  video,             \* its video: [paused, ready, atEnd]
  waitForLoadding,   \* what the page believes
  playAfterLoadding, \* the video was paused by the page, not by the user
  page,              \* the message between top window and frame, or None
  wanted,            \* history: what the user did last to a video not held
  (* the members' pages *)
  here,              \* members whose page is in the room
  player,            \* member -> "ready", "stalled", or "refused" (autoplay)
  playing,           \* members whose video is not paused
  lastSeek,          \* members whose memberLastSeek is a position, not -1
  loading,           \* members whose Var.isThisMemberLoading is set
  awaiting,          \* members with a videoDom.play() that is not settled
  (* connections *)
  open,              \* clients whose socket is open
  joined,            \* members whose _joinedName is the room
  joining,           \* members with a join request under way
  heard,             \* client -> _lastRoom, or None when older than 5 seconds
  up,                \* thread -> the request on its way or being handled
  (* the server *)
  listed,            \* clients in roomClients of the room
  room,              \* [paused, atEnd, waitForLoadding]
  seen,              \* member -> "absent", "ok" or "loading" (joined, 10 s)
  disturbances,      \* how many there were
  calm               \* nobody stalls, leaves, loses a connection any more

hostPage == <<video, waitForLoadding, playAfterLoadding, page, wanted>>
memberPages == <<here, player, playing, lastSeek, loading, awaiting>>
network == <<open, joined, joining, heard, up>>
env == <<disturbances, calm>>
server == <<listed, room, seen>>
vars == <<hostPage, memberPages, network, server, env>>

(* CreateRoom: paused, at 0 of 0, so nobody is waited for. *)
Init ==
  /\ video = [paused |-> TRUE, ready |-> TRUE, atEnd |-> FALSE]
  /\ waitForLoadding = FALSE /\ playAfterLoadding = FALSE
  /\ page = None
  /\ wanted = "paused"
  /\ here = {}
  /\ player = [m \in Members |-> "ready"]
  /\ playing = {} /\ lastSeek = {} /\ loading = {} /\ awaiting = {}
  /\ open = {} /\ joined = {} /\ joining = {}
  /\ heard = [c \in Clients |-> None]
  /\ up = [t \in Threads |-> None]
  /\ listed = {}
  /\ room = [paused |-> TRUE, atEnd |-> TRUE, waitForLoadding |-> FALSE]
  /\ seen = [m \in Members |-> "absent"]
  /\ disturbances = 0 /\ calm = FALSE

-----------------------------------------------------------------------------
(* The host's page *)

(* (The storage option WaitForLoadding is on: off, nobody is ever held.)     *)

(* ScheduledTask of a master: by the timer, a video event or a message. *)
HostTick ==
  /\ page = None
  /\ page' = [type |-> "SyncMasterVideo", waitForLoadding |-> waitForLoadding]
  /\ UNCHANGED <<video, waitForLoadding, playAfterLoadding, wanted>>
  /\ UNCHANGED <<memberPages, network, server, env>>

(* The two branches of SyncMasterVideo on waitForLoadding. *)
HoldPaused ==  \* mutant: a video the user paused is held, too
  /\ video' = [video EXCEPT !.paused = TRUE]
  /\ playAfterLoadding' = TRUE
Hold ==
  /\ video' = [video EXCEPT !.paused = TRUE]
  /\ playAfterLoadding' = (playAfterLoadding \/ ~video.paused)
ReleaseWithoutPlay ==  \* mutant: videoDom.play() is forgotten
  /\ playAfterLoadding' = FALSE
  /\ UNCHANGED video
Release ==
  /\ video' = [video EXCEPT !.paused = @ /\ ~playAfterLoadding]
  /\ playAfterLoadding' = FALSE

(* UpdateRoom: over the websocket, and over HTTP unless a room was heard of *)
(* within five seconds.  Only the latter case sets waitForLoadding.         *)
UpdateRoom(request) ==
  /\ up[Host] = None /\ up[Http] = None
  /\ up' = [up EXCEPT ![Host] = IF Host \in open THEN request ELSE None,
                      ![Http] = IF heard[Host] = None THEN request ELSE None]
  /\ waitForLoadding' = IF heard[Host] = None THEN waitForLoadding
                                              ELSE heard[Host].waitForLoadding

(* SyncMasterVideo in the frame, and UpdateRoom in the top window with what *)
(* it reports: a held video as playing, one that is still loading as paused. *)
SyncMasterVideo ==
  /\ page # None
  /\ \/ page.waitForLoadding /\ Hold
     \/ ~page.waitForLoadding /\ Release
  /\ UpdateRoom([method |-> "update", atEnd |-> video.atEnd,
                 paused |-> ~playAfterLoadding' /\ (video'.paused \/ ~video.ready)])
  /\ page' = None
  /\ UNCHANGED <<wanted, memberPages, open, joined, joining, heard, server, env>>

-----------------------------------------------------------------------------
(* The members' pages *)

(* UpdateMemberData: WaitForLoadding follows from what members reported. *)
RecountedSticky(reports) ==  \* mutant: once set, it is not reset
  [room EXCEPT !.waitForLoadding = @ \/ ((\E m \in Members : reports[m] = "loading") /\ ~room.atEnd)]
Recounted(reports) ==
  [room EXCEPT !.waitForLoadding = (\E m \in Members : reports[m] = "loading") /\ ~room.atEnd]
PausedOnly(r) == [paused |-> r.paused]  \* mutant: a field has another name in JSON
SnapshotOf(r) == [paused |-> r.paused, waitForLoadding |-> r.waitForLoadding]

(* GetRoom asks to join unless it did, and takes the room heard of last, or *)
(* the answer to an HTTP request (one QueryRoom).                           *)
GetRoom(m, result) ==
  /\ joining' = IF m \in open \ joined THEN joining \cup {m} ELSE joining
  /\ \/ heard[m] # None /\ result = heard[m] /\ UNCHANGED room
     \/ heard[m] = None /\ room' = Recounted(seen) /\ result = SnapshotOf(room')

(* The wait pauses everybody but those who load. *)
Pauses(m, r) == r.paused \/ (r.waitForLoadding /\ m \notin loading)

(* The timer at the end: UpdateMemberStatus, WS.updateMember. *)
Report(m, isLoading) ==
  /\ up[m] = None
  /\ loading' = IF isLoading THEN loading \cup {m} ELSE loading \ {m}
  /\ up' = IF m \in open
           THEN [up EXCEPT ![m] = [method |-> "update_member", isLoadding |-> isLoading]]
           ELSE up

(* SyncMemberVideo where no play() is needed, or it succeeds at once.       *)
(* `still`: the position is that of the last seek; it takes a video that    *)
(* has not loaded (and has the host's duration) to be counted as loading.   *)
SyncAndReport(m, r) ==
  /\ Pauses(m, r) \/ m \in playing \/ player[m] = "ready"
  /\ \E still \in BOOLEAN : Report(m, still /\ m \in lastSeek /\ player[m] = "stalled")
  /\ playing' = IF Pauses(m, r) THEN playing \ {m} ELSE playing \cup {m}
  /\ lastSeek' = IF Pauses(m, r) THEN lastSeek \ {m} ELSE lastSeek \cup {m}
  /\ awaiting' = IF Pauses(m, r) THEN awaiting \ {m} ELSE awaiting

(* ... where play() waits for data (no report until it is settled), or is   *)
(* refused by the browser (no report).                                      *)
SyncWithoutReport(m, r) ==
  /\ ~Pauses(m, r) /\ m \notin playing /\ player[m] # "ready"
  /\ lastSeek' = lastSeek \cup {m}
  /\ \/ /\ player[m] = "stalled"
        /\ playing' = playing \cup {m} /\ awaiting' = awaiting \cup {m}
     \/ /\ player[m] = "refused"
        /\ UNCHANGED <<playing, awaiting>>
  /\ UNCHANGED <<loading, up>>

(* ScheduledTask of a member, and SyncMemberVideo with the room it got. *)
MemberTick(m) ==
  /\ m \in here
  /\ \E r \in Snapshot :
       /\ GetRoom(m, r)
       /\ SyncAndReport(m, r) \/ SyncWithoutReport(m, r)
  /\ UNCHANGED <<hostPage, here, player, open, joined, heard, listed, seen, env>>

PlaySettles(m) ==
  /\ m \in awaiting /\ player[m] = "ready"
  /\ awaiting' = awaiting \ {m}
  /\ Report(m, FALSE)
  /\ UNCHANGED <<hostPage, here, player, playing, lastSeek>>
  /\ UNCHANGED <<open, joined, joining, heard, server, env>>

-----------------------------------------------------------------------------
(* The server.  Requests overlap in reality; here one is handled at a time: *)
(* what a stale assignment of UpdateMemberData spoils, the next QueryRoom   *)
(* repairs.                                                                 *)

Handled(t) == up' = [up EXCEPT ![t] = None]

(* WS.onmessage.  It calls ScheduledTask, which is a step of its own here    *)
(* (HostTick, MemberTick); a master takes a report's word at once, unless    *)
(* isLimited says no.  (What the hub sends arrives at once: see the README.) *)
Tell(S, method) ==
  /\ heard' = [c \in Clients |-> IF c \in S THEN SnapshotOf(room') ELSE heard[c]]
  /\ \/ /\ Host \in S /\ method = "update_member"
        /\ waitForLoadding' = room'.waitForLoadding
     \/ UNCHANGED waitForLoadding
  /\ UNCHANGED <<video, playAfterLoadding, page, wanted>>

TellNobody == UNCHANGED <<hostPage, heard>>

(* An update: QueryRoom counts before the fields are assigned.  Only the    *)
(* websocket's update is told to everybody.                                 *)
HandleUpdate(t) ==
  /\ up[t] \in UpdateRequests
  /\ room' = [Recounted(seen) EXCEPT !.paused = up[t].paused, !.atEnd = up[t].atEnd]
  /\ IF t = Host
     THEN listed' = listed \cup {Host} /\ Tell(listed', "update")
     ELSE UNCHANGED listed /\ TellNobody
  /\ Handled(t)
  /\ UNCHANGED <<memberPages, open, joined, joining, seen, env>>

(* The reply to a join: WS.onmessage notes _joinedName. *)
HandleJoin(m) ==
  /\ m \in joining
  /\ joining' = joining \ {m} /\ joined' = joined \cup {m}
  /\ room' = Recounted(seen)
  /\ listed' = listed \cup {m}
  /\ Tell({m}, "join")
  /\ UNCHANGED <<memberPages, open, up, seen, env>>

(* Before and after the member's report is stored; a change, also one of    *)
(* MemberCount (which the model leaves out), is told to everybody.          *)
NeedNotification(countChanges) ==
  countChanges \/ Recounted(seen).waitForLoadding # Recounted(seen').waitForLoadding
HandleReport(m) ==
  /\ up[m] \in ReportRequests
  /\ seen' = [seen EXCEPT ![m] = IF up[m].isLoadding THEN "loading" ELSE "ok"]
  /\ room' = Recounted(seen')
  /\ \E countChanges \in BOOLEAN :
       IF m \in listed /\ NeedNotification(countChanges)
       THEN Tell(listed, "update_member")
       ELSE TellNobody
  /\ Handled(m)
  /\ UNCHANGED <<memberPages, open, joined, joining, listed, env>>

-----------------------------------------------------------------------------
(* Users, players, connections, time.  All but reconnecting and the ten     *)
(* seconds of those who left stop when it becomes calm.                     *)

Disturbs ==
  /\ ~calm /\ disturbances < MaxDisturbances
  /\ disturbances' = disturbances + 1
  /\ UNCHANGED calm

UserToggles ==
  /\ Disturbs
  /\ video' = [video EXCEPT !.paused = ~@]
  /\ wanted' = IF playAfterLoadding THEN wanted
               ELSE IF video.paused THEN "playing" ELSE "paused"
  /\ UNCHANGED <<waitForLoadding, playAfterLoadding, page>>
  /\ UNCHANGED <<memberPages, network, server>>

(* The host's video stalls or goes on, reaches its end or is wound back. *)
HostVideoChanges ==
  /\ Disturbs
  /\ \/ video' = [video EXCEPT !.ready = ~@]
     \/ video' = [video EXCEPT !.atEnd = ~@]
  /\ UNCHANGED <<waitForLoadding, playAfterLoadding, page, wanted>>
  /\ UNCHANGED <<memberPages, network, server>>

MemberVideoChanges(m) ==
  /\ Disturbs
  /\ m \in here
  /\ \E s \in {"ready", "stalled", "refused"} \ {player[m]} : player' = [player EXCEPT ![m] = s]
  /\ UNCHANGED <<hostPage, here, playing, lastSeek, loading, awaiting>>
  /\ UNCHANGED <<network, server>>

MemberEnters(m) ==
  /\ Disturbs
  /\ m \notin here
  /\ here' = here \cup {m}
  /\ UNCHANGED <<hostPage, player, playing, lastSeek, loading, awaiting>>
  /\ UNCHANGED <<network, server>>

(* The socket is gone, with what was under way. *)
Drop(c) ==
  /\ open' = open \ {c} /\ joining' = joining \ {c} /\ listed' = listed \ {c}
  /\ up' = [up EXCEPT ![c] = None]
  /\ UNCHANGED <<room, seen>>

LinkBreaks(c) ==
  /\ Disturbs
  /\ c \in open
  /\ Drop(c)
  /\ UNCHANGED <<hostPage, memberPages, joined, heard>>

(* The tab of a member is closed. *)
MemberLeaves(m) ==
  /\ Disturbs
  /\ m \in here
  /\ Drop(m)
  /\ here' = here \ {m} /\ joined' = joined \ {m}
  /\ player' = [player EXCEPT ![m] = "ready"]
  /\ playing' = playing \ {m} /\ lastSeek' = lastSeek \ {m}
  /\ loading' = loading \ {m} /\ awaiting' = awaiting \ {m}
  /\ heard' = [heard EXCEPT ![m] = None]
  /\ UNCHANGED <<hostPage>>

(* WS.connect, which every ScheduledTask calls, and the socket opens. *)
Connect(c) ==
  /\ c \in {Host} \cup here
  /\ c \notin open
  /\ open' = open \cup {c} /\ joined' = joined \ {c}
  /\ UNCHANGED <<hostPage, memberPages, joining, heard, up, server, env>>

(* Five seconds without a message: the last room is not used any more.  A   *)
(* client that is listed hears the host's updates, every two seconds, as    *)
(* long as the host sends them over its socket.                             *)
LastRoomExpires(c) ==
  /\ heard[c] # None /\ ~({c, Host} \subseteq listed)
  /\ heard' = [heard EXCEPT ![c] = None]
  /\ UNCHANGED <<hostPage, memberPages, open, joined, joining, up, server, env>>

(* Ten seconds without a report, or the member is on another page. *)
MemberExpires(m) ==
  /\ seen[m] # "absent" /\ (calm => m \notin here)
  /\ seen' = [seen EXCEPT ![m] = "absent"]
  /\ UNCHANGED <<hostPage, memberPages, network, listed, room, env>>

(* The videos have loaded at last. *)
BecomesCalm ==
  /\ ~calm /\ calm' = TRUE
  /\ video' = [video EXCEPT !.ready = TRUE]
  /\ player' = [m \in Members |-> "ready"]
  /\ UNCHANGED <<waitForLoadding, playAfterLoadding, page, wanted>>
  /\ UNCHANGED <<here, playing, lastSeek, loading, awaiting>>
  /\ UNCHANGED <<network, server, disturbances>>

-----------------------------------------------------------------------------
HostStep == HostTick \/ SyncMasterVideo
MemberStep(m) == MemberTick(m) \/ PlaySettles(m)
ServerStep ==
  \/ HandleUpdate(Host) \/ HandleUpdate(Http)
  \/ \E m \in Members : HandleJoin(m) \/ HandleReport(m)
Disturbance ==
  \/ UserToggles \/ HostVideoChanges \/ BecomesCalm
  \/ \E m \in Members : \/ MemberVideoChanges(m) \/ MemberEnters(m)
                        \/ MemberLeaves(m) \/ MemberExpires(m)
  \/ \E c \in Clients : LinkBreaks(c) \/ Connect(c) \/ LastRoomExpires(c)

Next == HostStep \/ (\E m \in Members : MemberStep(m)) \/ ServerStep \/ Disturbance

Spec == Init /\ [][Next]_vars

(* Timers go off, messages between windows and over an open socket arrive,  *)
(* requests are handled, sockets reconnect, ten seconds pass.               *)
FairSpec ==
  /\ Spec
  /\ WF_vars(HostTick) /\ WF_vars(SyncMasterVideo)
  /\ \A m \in Members :
       /\ WF_vars(MemberTick(m)) /\ WF_vars(PlaySettles(m))
       /\ WF_vars(MemberExpires(m)) /\ WF_vars(HandleJoin(m)) /\ WF_vars(HandleReport(m))
  /\ WF_vars(HandleUpdate(Host)) /\ WF_vars(HandleUpdate(Http))
  /\ \A c \in Clients : WF_vars(Connect(c))

-----------------------------------------------------------------------------
(* Properties *)

TypeOK ==
  /\ video \in [paused : BOOLEAN, ready : BOOLEAN, atEnd : BOOLEAN]
  /\ waitForLoadding \in BOOLEAN /\ playAfterLoadding \in BOOLEAN
  /\ page \in SyncMessages \cup {None}
  /\ wanted \in {"playing", "paused"}
  /\ here \subseteq Members
  /\ player \in [Members -> {"ready", "stalled", "refused"}]
  /\ playing \subseteq Members /\ lastSeek \subseteq Members
  /\ loading \subseteq Members /\ awaiting \subseteq Members
  /\ open \subseteq Clients /\ joined \subseteq Members /\ joining \subseteq Members /\ listed \subseteq Clients
  /\ heard \in [Clients -> Snapshot \cup {None}]
  /\ up \in [Threads -> UpdateRequests \cup ReportRequests \cup {None}]
  /\ room \in [paused : BOOLEAN, atEnd : BOOLEAN, waitForLoadding : BOOLEAN]
  /\ seen \in [Members -> {"absent", "ok", "loading"}]
  /\ disturbances \in 0 .. MaxDisturbances /\ calm \in BOOLEAN

(* Waiting for members never changes, in the end, what the host's user      *)
(* chose: it holds only a video the user had playing, and a video that is   *)
(* not held is paused if and only if the user paused it.                    *)
WaitRespectsUser ==
  IF playAfterLoadding THEN wanted = "playing"
                       ELSE video.paused <=> wanted = "paused"

(* When nobody stalls or leaves any more and connections last, the host is  *)
(* let go for good, whatever reports were lost, late or overtaken before.   *)
HostIsReleased == <>calm => <>[](~playAfterLoadding /\ ~waitForLoadding)

(* ... and everybody in the room plays if and only if the host's user does. *)
EveryoneFollows ==
  <>calm => <>[](\A m \in here : m \in playing <=> wanted = "playing")
=============================================================================
