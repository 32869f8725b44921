------------------------------- MODULE WsHub -------------------------------
(***************************************************************************)
(* The websocket hub of the Go server (ws.go).                             *)
(*                                                                         *)
(* Every connection has a reader goroutine (readPump, which runs the       *)
(* handlers), a writer goroutine (writePump) and now and then a goroutine  *)
(* for a text message.  One hub goroutine takes broadcasts and departures  *)
(* from unbuffered channels and puts messages into the bounded `send`      *)
(* channels; `roomClients` maps a room name to a RoomClients object, the   *)
(* set of connections that hear the room.  Readers and text goroutines     *)
(* touch that map, and the hub reads the plain fields of Client, with no   *)
(* lock.                                                                   *)
(*                                                                         *)
(* The registry behind the hub is kept to what the hub sees of it: which   *)
(* Room object a name has, its host, and how often it changed.  Module     *)
(* RoomService says when an update is admitted or refused; here either may *)
(* happen to a room that exists.                                           *)
(***************************************************************************)
EXTENDS Naturals, Sequences, FiniteSets

CONSTANTS
  Clients,    \* websocket connections
  Names,      \* room names
  NoName,     \* "": the roomName of a client that joined nothing
  Users,      \* tempUser ids
  Objects,    \* Room objects the registry may allocate (bounds creations)
  Entries,    \* RoomClients objects; an unreachable one is collected and reused
  Requests,   \* methods the peers use, a subset of Methods
  QueueCap,   \* capacity of a send channel (256 in the code)
  MaxVersion, \* bound on the changes of one Room object
  None        \* nil

Keys == Names \cup {NoName}
Methods == {"join", "update", "member", "request", "response", "text", "unknown"}

ASSUME RequestsAssumption == Requests \subseteq Methods
ASSUME NamesAssumption == NoName \notin Names
ASSUME TextAssumption == Names \cap {"none", "running"} = {}
ASSUME CapAssumption == QueueCap \in Nat \ {0} /\ MaxVersion \in Nat
(* Never short of a RoomClients: names, readers and the hub refer to one each. *)
ASSUME EntriesAssumption ==
  /\ IsFiniteSet(Names) /\ IsFiniteSet(Clients) /\ IsFiniteSet(Entries)
  /\ Cardinality(Names) + Cardinality(Clients) + 2 <= Cardinality(Entries)
ASSUME NilAssumption ==
  /\ None \notin Entries \cup {NoName}
  /\ None \notin Objects
  /\ None \notin Users

Versions == 0 .. MaxVersion
BroadcastTypes == {"ALL", "MEMBERS", "HOST"}

(* A message in a send channel: the room it is about and, when it carries  *)
(* the room's state, the object, the version of it that was marshalled, and *)
(* `stamp`, the version at the time in its TimestampResponse.               *)
Message == [type : BroadcastTypes \cup {"reply"}, name : Keys,
            obj : Objects \cup {None}, version : Versions, stamp : Versions]
Reply == [type |-> "reply", name |-> NoName, obj |-> None, version |-> 0, stamp |-> 0]

(* What a handler is at: its method, the broadcast it is about to send (a   *)
(* pointer to the Room, the time), and the RoomClients it has loaded.       *)
Job == [method : Methods, name : Keys, obj : Objects \cup {None},
        stamp : Versions, entry : Entries \cup {None}]
NoJob == [method |-> "unknown", name |-> NoName, obj |-> None, stamp |-> 0,
          entry |-> None]

VARIABLES
  room,      \* registry: name -> Room object or None
  host,      \* Room object -> hostId
  version,   \* Room object -> number of changes
  unmade,    \* Room objects not allocated yet
  conn,      \* connection: "open" or "closed"
  pc,        \* reader: where it is
  job,       \* reader: the request it handles
  pending,   \* reader: the reply it is about to put into the send channel
  text,      \* text goroutine: "none", "running", or the name it broadcasts to
  writer,    \* writer: "running" or "ended"
  queue,     \* the send channel
  roomName, lastUser, isHost,  \* fields of Client
  entry,     \* roomClients: name -> RoomClients or None
  members,   \* RoomClients -> connections
  hub,       \* the hub goroutine
  admitted,  \* history: connection -> names it was granted access to
  hosted     \* history: connection -> names it had an update admitted of

registry == <<room, host, version, unmade>>
fields == <<roomName, lastUser, isHost>>
directory == <<entry, members>>
history == <<admitted, hosted>>
vars == <<room, host, version, unmade, conn, pc, job, pending, text, writer,
          queue, roomName, lastUser, isHost, entry, members, hub, admitted,
          hosted>>

ReaderSteps == {"read", "entry", "store", "check", "send", "reply",
                "unregister", "gone"}
Select == [step |-> "select"]

Init ==
  /\ room = [n \in Keys |-> None]
  /\ host = [o \in Objects |-> None]
  /\ version = [o \in Objects |-> 0]
  /\ unmade = Objects
  /\ conn = [c \in Clients |-> "open"]
  /\ pc = [c \in Clients |-> "read"]
  /\ job = [c \in Clients |-> NoJob]
  /\ pending = [c \in Clients |-> Reply]
  /\ text = [c \in Clients |-> "none"]
  /\ writer = [c \in Clients |-> "running"]
  /\ queue = [c \in Clients |-> <<>>]
  /\ roomName = [c \in Clients |-> NoName]
  /\ lastUser = [c \in Clients |-> None]
  /\ isHost = [c \in Clients |-> FALSE]
  /\ entry = [n \in Keys |-> None]
  /\ members = [e \in Entries |-> {}]
  /\ hub = Select
  /\ admitted = [c \in Clients |-> {}]
  /\ hosted = [c \in Clients |-> {}]

Goto(c, label) == pc' = [pc EXCEPT ![c] = label]

(* c.reply(...): the message is marshalled here and sent in SendReply. *)
ReplyWith(c, m) ==
  /\ pending' = [pending EXCEPT ![c] = m]
  /\ job' = [job EXCEPT ![c] = NoJob]
  /\ Goto(c, "reply")

(* json.Marshal follows the pointer in the message to the Room of now. *)
MarshalledWhenStamped(type, n, o, stamp) ==  \* mutant: a copy of the Room
  [type |-> type, name |-> n, obj |-> o, version |-> stamp, stamp |-> stamp]
Marshalled(type, n, o, stamp) ==
  [type |-> type, name |-> n, obj |-> o,
   version |-> IF o = None THEN 0 ELSE version[o], stamp |-> stamp]

-----------------------------------------------------------------------------
(* roomClients *)

(* RoomClients objects nothing refers to any more, and the one that name n  *)
(* has or would get.  Which free object is taken is of no consequence.      *)
Unreferenced ==
  {e \in Entries : /\ \A n \in Keys : entry[n] # e
                   /\ \A c \in Clients : job[c].entry # e
                   /\ hub.step = "deliver" => hub.entry # e}
EntryOf(n) == IF entry[n] = None THEN CHOOSE e \in Unreferenced : TRUE ELSE entry[n]

(* getRoomClients(n): Load, else LoadOrStore of an empty object. *)
GetRoomClients(n) ==
  \/ entry[n] # None /\ UNCHANGED directory
  \/ /\ entry[n] = None
     /\ entry' = [entry EXCEPT ![n] = EntryOf(n)]
     /\ members' = [members EXCEPT ![EntryOf(n)] = {}]

RemoveNothing(n, c) == UNCHANGED directory  \* mutant: the Delete is forgotten
RemoveClientFromRoom(n, c) ==
  /\ entry' = [entry EXCEPT ![n] = EntryOf(n)]
  /\ members' = [members EXCEPT ![EntryOf(n)] = IF entry[n] = None THEN {} ELSE @ \ {c}]

-----------------------------------------------------------------------------
(* The reader *)

PasswordIgnored(ok) == TRUE  \* mutant: HasAccess is not asked
HasAccess(ok) == ok

(* joinRoom up to c.roomName = req.RoomName. *)
Join(c) ==
  /\ pc[c] = "read" /\ conn[c] = "open" /\ "join" \in Requests
  /\ \E n \in Names, ok \in BOOLEAN :
       \/ /\ room[n] = None \/ ~HasAccess(ok)
          /\ ReplyWith(c, Reply)
          /\ UNCHANGED <<conn, roomName, admitted>>
       \/ /\ room[n] # None /\ HasAccess(ok)
          /\ roomName[c] \notin {NoName, n}
          /\ conn' = [conn EXCEPT ![c] = "closed"]
          /\ UNCHANGED <<pc, job, pending, roomName, admitted>>
       \/ /\ room[n] # None /\ HasAccess(ok)
          /\ roomName[c] \in {NoName, n}
          /\ roomName' = [roomName EXCEPT ![c] = n]
          /\ job' = [job EXCEPT ![c] = [NoJob EXCEPT !.method = "join", !.name = n, !.obj = room[n]]]
          /\ admitted' = IF ok THEN [admitted EXCEPT ![c] = @ \cup {n}] ELSE admitted
          /\ Goto(c, "entry")
          /\ UNCHANGED <<conn, pending>>
  /\ UNCHANGED <<registry, text, writer, queue, lastUser, isHost, directory, hub, hosted>>

(* The registry admits user u as the host of name n, in a room that exists  *)
(* or that it creates, and the handler assigns the room's fields.           *)
Admit(n, u, o) ==
  /\ \/ room[n] = o /\ UNCHANGED <<room, unmade>>
     \/ /\ room[n] = None
        /\ o \in unmade
        /\ unmade' = unmade \ {o}
        /\ room' = [room EXCEPT ![n] = o]
  /\ version[o] < MaxVersion
  /\ version' = [version EXCEPT ![o] = @ + 1]
  /\ host' = [host EXCEPT ![o] = u]

SwitchesUnnoticed(c, n) == FALSE  \* mutant: no test of c.roomName
SwitchesRoom(c, n) == roomName[c] \notin {NoName, n}

(* updateRoom refuses to serve a second room: c.conn.Close(). *)
UpdateOtherRoom(c) ==
  /\ pc[c] = "read" /\ conn[c] = "open" /\ "update" \in Requests
  /\ \E n \in Names : SwitchesRoom(c, n)
  /\ conn' = [conn EXCEPT ![c] = "closed"]
  /\ UNCHANGED <<registry, pc, job, pending, text, writer, queue, fields, directory, hub, history>>

(* The permission test fails; c.roomName was assigned before it. *)
UpdateRefused(c) ==
  /\ pc[c] = "read" /\ conn[c] = "open" /\ "update" \in Requests
  /\ \E n \in Names :
       /\ ~SwitchesRoom(c, n)
       /\ room[n] # None
       /\ roomName' = [roomName EXCEPT ![c] = n]
  /\ ReplyWith(c, Reply)
  /\ UNCHANGED <<registry, conn, text, writer, queue, lastUser, isHost, directory, hub, history>>

UpdateAdmitted(c) ==
  /\ pc[c] = "read" /\ conn[c] = "open" /\ "update" \in Requests
  /\ \E n \in Names, u \in Users, o \in Objects :
       /\ ~SwitchesRoom(c, n)
       /\ Admit(n, u, o)
       /\ roomName' = [roomName EXCEPT ![c] = n]
       /\ lastUser' = [lastUser EXCEPT ![c] = u]
       /\ job' = [job EXCEPT ![c] = [NoJob EXCEPT !.method = "update", !.name = n, !.obj = o]]
       /\ admitted' = [admitted EXCEPT ![c] = @ \cup {n}]
       /\ hosted' = [hosted EXCEPT ![c] = @ \cup {n}]
  /\ isHost' = [isHost EXCEPT ![c] = TRUE]
  /\ Goto(c, "entry")
  /\ UNCHANGED <<conn, pending, text, writer, queue, directory, hub>>

(* addClientToRoom: getRoomClients ... *)
LoadEntry(c) ==
  /\ pc[c] = "entry"
  /\ GetRoomClients(job[c].name)
  /\ job' = [job EXCEPT ![c].entry = EntryOf(job[c].name)]
  /\ Goto(c, "store")
  /\ UNCHANGED <<registry, conn, pending, text, writer, queue, fields, hub, history>>

(* ... and rc.clients.Store(c, true), into whatever rc is by now.  A joiner  *)
(* marshals the room for its reply, a host goes on to its broadcast.         *)
StoreClient(c) ==
  /\ pc[c] = "store"
  /\ members' = [members EXCEPT ![job[c].entry] = @ \cup {c}]
  /\ \/ /\ job[c].method = "join"
        /\ ReplyWith(c, Marshalled("reply", job[c].name, job[c].obj, version[job[c].obj]))
     \/ /\ job[c].method = "update"
        /\ job' = [job EXCEPT ![c].entry = None, ![c].stamp = version[job[c].obj]]
        /\ Goto(c, "check")
        /\ UNCHANGED pending
  /\ UNCHANGED <<registry, conn, text, writer, queue, fields, entry, hub, history>>

(* updateMember: the room may be any room; a change is announced. *)
UpdateMember(c) ==
  /\ pc[c] = "read" /\ conn[c] = "open" /\ "member" \in Requests
  /\ \E n \in Names, ok \in BOOLEAN, needNotification \in BOOLEAN :
       \/ /\ room[n] = None \/ ~ok \/ ~needNotification
          /\ ReplyWith(c, Reply)
          /\ UNCHANGED version
       \/ /\ room[n] # None /\ ok /\ needNotification
          /\ version[room[n]] < MaxVersion
          /\ version' = [version EXCEPT ![room[n]] = @ + 1]
          /\ job' = [job EXCEPT ![c] = [NoJob EXCEPT !.method = "member", !.name = n, !.obj = room[n],
                                                   !.stamp = version'[room[n]]]]
          /\ Goto(c, "check")
          /\ UNCHANGED pending
  /\ UNCHANGED <<room, host, unmade, conn, text, writer, queue, fields, directory, hub, history>>

(* reqRealUrl, reqM3u8Content to the host; respRealUrl, respM3u8Content back. *)
Relay(c) ==
  /\ pc[c] = "read" /\ conn[c] = "open"
  /\ \E m \in {"request", "response"} \cap Requests :
       job' = [job EXCEPT ![c] = [NoJob EXCEPT !.method = m, !.name = roomName[c]]]
  /\ Goto(c, "check")
  /\ UNCHANGED <<registry, conn, pending, text, writer, queue, fields, directory, hub, history>>

(* An unknown method, or data that is no JSON. *)
BadRequest(c) ==
  /\ pc[c] = "read" /\ conn[c] = "open" /\ "unknown" \in Requests
  /\ ReplyWith(c, Reply)
  /\ UNCHANGED <<registry, conn, text, writer, queue, fields, directory, hub, history>>

(* sendTextMessage: a goroutine, and no reply.  (One at a time per client.) *)
SendTextMessage(c) ==
  /\ pc[c] = "read" /\ conn[c] = "open" /\ "text" \in Requests
  /\ text[c] = "none"
  /\ text' = [text EXCEPT ![c] = "running"]
  /\ UNCHANGED <<registry, conn, pc, job, pending, writer, queue, fields, directory, hub, history>>

(* The guards of sendBroadcast before isVaildClient. *)
MayBroadcast(c) ==
  /\ roomName[c] # NoName
  /\ room[roomName[c]] # None
  /\ isHost[c] => host[room[roomName[c]]] = lastUser[c]

IsVaildUnasked(c) == TRUE  \* mutant: whoever has a roomName may broadcast
(* isVaildClient, which stores a RoomClients if the name has none. *)
IsVaildClient(c) == entry[roomName[c]] # None /\ c \in members[entry[roomName[c]]]

Replying == {"update", "member"}  \* handlers that end with replyTimestamp
Done(c) ==
  IF job[c].method \in Replying
  THEN ReplyWith(c, Reply)
  ELSE Goto(c, "read") /\ job' = [job EXCEPT ![c] = NoJob] /\ UNCHANGED pending

SendBroadcast(c) ==
  /\ pc[c] = "check"
  /\ MayBroadcast(c) /\ IsVaildClient(c)
  /\ Goto(c, "send")
  /\ UNCHANGED <<registry, conn, job, pending, text, writer, queue, fields, directory, hub, history>>

DropBroadcast(c) ==
  /\ pc[c] = "check"
  /\ \/ ~MayBroadcast(c) /\ UNCHANGED directory
     \/ MayBroadcast(c) /\ ~IsVaildClient(c) /\ GetRoomClients(roomName[c])
  /\ Done(c)
  /\ UNCHANGED <<registry, conn, text, writer, queue, fields, hub, history>>

(* c.send <- b blocks while the channel is full. *)
SendReply(c) ==
  /\ pc[c] = "reply"
  /\ Len(queue[c]) < QueueCap
  /\ queue' = [queue EXCEPT ![c] = Append(@, pending[c])]
  /\ pending' = [pending EXCEPT ![c] = Reply]
  /\ Goto(c, "read")
  /\ UNCHANGED <<registry, conn, job, text, writer, fields, directory, hub, history>>

(* ReadMessage fails; the deferred function offers c on hub.unregister. *)
ReadFails(c) ==
  /\ pc[c] = "read" /\ conn[c] = "closed"
  /\ Goto(c, "unregister")
  /\ UNCHANGED <<registry, conn, job, pending, text, writer, queue, fields, directory, hub, history>>

-----------------------------------------------------------------------------
(* The text goroutine: Reecho answered, or ten seconds passed. *)

TextBroadcasts(c) ==
  /\ text[c] = "running"
  /\ MayBroadcast(c) /\ IsVaildClient(c)
  /\ text' = [text EXCEPT ![c] = roomName[c]]
  /\ UNCHANGED <<registry, conn, pc, job, pending, writer, queue, fields, directory, hub, history>>

TextDropped(c) ==
  /\ text[c] = "running"
  /\ \/ ~MayBroadcast(c) /\ UNCHANGED directory
     \/ MayBroadcast(c) /\ ~IsVaildClient(c) /\ GetRoomClients(roomName[c])
  /\ text' = [text EXCEPT ![c] = "none"]
  /\ UNCHANGED <<registry, conn, pc, job, pending, writer, queue, fields, hub, history>>

-----------------------------------------------------------------------------
(* The writer *)

(* A message and all that wait behind it make one frame. *)
WriteFrame(c) ==
  /\ writer[c] = "running" /\ conn[c] = "open"
  /\ queue[c] # <<>>
  /\ queue' = [queue EXCEPT ![c] = <<>>]
  /\ UNCHANGED <<registry, conn, pc, job, pending, text, writer, fields, directory, hub, history>>

(* NextWriter, or the ping, fails on a closed connection. *)
WriteFails(c) ==
  /\ writer[c] = "running" /\ conn[c] = "closed"
  /\ writer' = [writer EXCEPT ![c] = "ended"]
  /\ queue' = [queue EXCEPT ![c] = IF @ = <<>> THEN @ ELSE Tail(@)]
  /\ UNCHANGED <<registry, conn, pc, job, pending, text, fields, directory, hub, history>>

-----------------------------------------------------------------------------
(* The hub *)

MethodType(m) ==
  CASE m = "request" -> "HOST" [] m = "response" -> "MEMBERS" [] OTHER -> "ALL"

(* Mutant: room is not compared with nil. *)
DeliverUnchecked(type, n, o, stamp) ==
  /\ GetRoomClients(n)
  /\ hub' = [step |-> "deliver", msg |-> Marshalled(type, n, o, stamp),
             room |-> room[n], entry |-> EntryOf(n), todo |-> Clients]

(* case message := <-h.broadcast, up to the Range. *)
Deliver(type, n, o, stamp) ==
  \/ /\ room[n] = None
     /\ UNCHANGED <<directory, hub>>
  \/ /\ room[n] # None
     /\ GetRoomClients(n)
     /\ hub' = [step |-> "deliver", msg |-> Marshalled(type, n, o, stamp),
                room |-> room[n], entry |-> EntryOf(n), todo |-> Clients]

(* Mutant: a goroutine per broadcast delivers it. *)
TakeAnyTime(c) ==
  /\ pc[c] = "send"
  /\ Deliver(MethodType(job[c].method), job[c].name, job[c].obj, job[c].stamp)
  /\ Done(c)
  /\ UNCHANGED <<registry, conn, text, writer, queue, fields, history>>
TakeBroadcast(c) ==
  /\ hub = Select
  /\ pc[c] = "send"
  /\ Deliver(MethodType(job[c].method), job[c].name, job[c].obj, job[c].stamp)
  /\ Done(c)
  /\ UNCHANGED <<registry, conn, text, writer, queue, fields, history>>

TakeText(c) ==
  /\ hub = Select
  /\ text[c] \in Names
  /\ Deliver("ALL", text[c], None, 0)
  /\ text' = [text EXCEPT ![c] = "none"]
  /\ UNCHANGED <<registry, conn, pc, job, pending, writer, queue, fields, history>>

WantsIgnoringRole(c) == TRUE  \* mutant: the type of the broadcast is ignored
(* Whether a connection is meant: no host that is not the host any more.   *)
Wants(c) ==
  /\ isHost[c] => host[hub.room] = lastUser[c]
  /\ hub.msg.type = "MEMBERS" => ~isHost[c]
  /\ hub.msg.type = "HOST" => isHost[c]

Visited(c) == hub' = [hub EXCEPT !.todo = @ \ {c}]

(* The Range skips c: it is not in the map, or it is not meant. *)
HubSkips(c) ==
  /\ hub.step = "deliver" /\ c \in hub.todo
  /\ c \notin members[hub.entry] \/ ~Wants(c)
  /\ Visited(c)
  /\ UNCHANGED <<registry, conn, pc, job, pending, text, writer, queue, fields, directory, history>>

HubSends(c) ==
  /\ hub.step = "deliver" /\ c \in hub.todo
  /\ c \in members[hub.entry] /\ Wants(c)
  /\ Len(queue[c]) < QueueCap
  /\ queue' = [queue EXCEPT ![c] = Append(@, hub.msg)]
  /\ Visited(c)
  /\ UNCHANGED <<registry, conn, pc, job, pending, text, writer, fields, directory, history>>

HubBlocksOn(c) == FALSE  \* mutant: client.send <- b, no default
(* default: the channel is full, the client is not told and not closed. *)
HubDropsClient(c) ==
  /\ hub.step = "deliver" /\ c \in hub.todo
  /\ c \in members[hub.entry] /\ Wants(c)
  /\ Len(queue[c]) = QueueCap
  /\ RemoveClientFromRoom(hub.msg.name, c)
  /\ Visited(c)
  /\ UNCHANGED <<registry, conn, pc, job, pending, text, writer, queue, fields, history>>

HubDelivered ==
  /\ hub.step = "deliver" /\ hub.todo = {}
  /\ hub' = Select
  /\ UNCHANGED <<registry, conn, pc, job, pending, text, writer, queue, fields, directory, history>>

(* case client := <-h.unregister; the reader closes the connection and ends. *)
Unregister(c) ==
  /\ hub = Select
  /\ pc[c] = "unregister"
  /\ RemoveClientFromRoom(roomName[c], c)
  /\ conn' = [conn EXCEPT ![c] = "closed"]
  /\ Goto(c, "gone")
  /\ UNCHANGED <<registry, job, pending, text, writer, queue, fields, hub, history>>

(* The cleanup tick finds that a room with an entry is gone (the keys of    *)
(* one tick are taken as so many ticks) ...                                 *)
CleanupFinds ==
  /\ hub = Select
  /\ \E n \in Keys : /\ entry[n] # None
                     /\ room[n] = None
                     /\ hub' = [step |-> "forget", name |-> n]
  /\ UNCHANGED <<registry, conn, pc, job, pending, text, writer, queue, fields, directory, history>>

(* ... and deletes the entry, even if the room has been made anew since. *)
CleanupDeletes ==
  /\ hub.step = "forget"
  /\ entry' = [entry EXCEPT ![hub.name] = None]
  /\ hub' = Select
  /\ UNCHANGED <<registry, conn, pc, job, pending, text, writer, queue, fields, members, history>>

-----------------------------------------------------------------------------
(* The rest of the world *)

(* The peer goes away, or a pong or a write is overdue. *)
ConnectionBreaks(c) ==
  /\ conn[c] = "open"
  /\ conn' = [conn EXCEPT ![c] = "closed"]
  /\ UNCHANGED <<registry, pc, job, pending, text, writer, queue, fields, directory, hub, history>>

(* PUT /room/update from a browser without a websocket. *)
HttpUpdate ==
  /\ \E n \in Names, u \in Users, o \in Objects : Admit(n, u, o)
  /\ UNCHANGED <<conn, pc, job, pending, text, writer, queue, fields, directory, hub, history>>

(* GET /statistics drops the room. *)
RoomExpires(n) ==
  /\ room[n] # None
  /\ room' = [room EXCEPT ![n] = None]
  /\ UNCHANGED <<host, version, unmade, conn, pc, job, pending, text, writer, queue, fields, directory, hub, history>>

-----------------------------------------------------------------------------
Handle(c) ==  \* a request arrives
  \/ Join(c) \/ UpdateOtherRoom(c) \/ UpdateRefused(c) \/ UpdateAdmitted(c)
  \/ UpdateMember(c) \/ Relay(c) \/ BadRequest(c) \/ SendTextMessage(c)
ReaderStep(c) ==
  \/ LoadEntry(c) \/ StoreClient(c) \/ SendBroadcast(c) \/ DropBroadcast(c)
  \/ SendReply(c) \/ ReadFails(c)
TextStep(c) == TextBroadcasts(c) \/ TextDropped(c)
WriterStep(c) == WriteFrame(c) \/ WriteFails(c)
HubVisit == \E c \in Clients : HubSkips(c) \/ HubSends(c) \/ HubDropsClient(c)
HubStep == HubVisit \/ HubDelivered \/ CleanupDeletes

Next ==
  \/ \E c \in Clients :
       \/ Handle(c) \/ ReaderStep(c) \/ TextStep(c) \/ WriterStep(c)
       \/ TakeBroadcast(c) \/ TakeText(c) \/ Unregister(c) \/ ConnectionBreaks(c)
  \/ HubStep \/ CleanupFinds
  \/ HttpUpdate
  \/ \E n \in Names : RoomExpires(n)

Spec == Init /\ [][Next]_vars

(* Goroutines that can run do run.  A goroutine that waits to hand the hub  *)
(* something is served in its turn: Go queues the senders of a channel in   *)
(* order and select picks among the ready channels at random.               *)
Fairness ==
  /\ WF_vars(HubStep)
  /\ \A c \in Clients :
       /\ WF_vars(ReaderStep(c))
       /\ WF_vars(TextStep(c))
       /\ WF_vars(WriterStep(c))
       /\ SF_vars(TakeBroadcast(c))
       /\ SF_vars(TakeText(c))
       /\ SF_vars(Unregister(c))
FairSpec == Spec /\ Fairness

-----------------------------------------------------------------------------
(* Properties *)

HubStates ==
  {Select} \cup [step : {"forget"}, name : Keys]
    \cup [step : {"deliver"}, msg : Message, room : Objects, entry : Entries,
          todo : SUBSET Clients]

TypeOK ==
  /\ room \in [Keys -> Objects \cup {None}]
  /\ host \in [Objects -> Users \cup {None}]
  /\ version \in [Objects -> Versions]
  /\ unmade \subseteq Objects
  /\ conn \in [Clients -> {"open", "closed"}]
  /\ pc \in [Clients -> ReaderSteps]
  /\ job \in [Clients -> Job]
  /\ pending \in [Clients -> Message]
  /\ text \in [Clients -> {"none", "running"} \cup Names]
  /\ writer \in [Clients -> {"running", "ended"}]
  /\ queue \in [Clients -> Seq(Message)]
  /\ \A c \in Clients : Len(queue[c]) <= QueueCap
  /\ roomName \in [Clients -> Keys]
  /\ lastUser \in [Clients -> Users \cup {None}]
  /\ isHost \in [Clients -> BOOLEAN]
  /\ entry \in [Keys -> Entries \cup {None}]
  /\ members \in [Entries -> SUBSET Clients]
  /\ hub \in HubStates
  /\ admitted \in [Clients -> SUBSET Names]
  /\ hosted \in [Clients -> SUBSET Names]

Broadcasts(c) == {i \in 1 .. Len(queue[c]) : queue[c][i].type # "reply"}
Hears(n) == IF entry[n] = None THEN {} ELSE members[entry[n]]

(* A connection serves one room: it is listed under the name in its         *)
(* roomName alone, the one its departure will be looked up under.           *)
OneRoomPerConnection ==
  \A n \in Keys : \A c \in Hears(n) : roomName[c] = n

(* What is broadcast in a room is heard only by connections that were       *)
(* themselves granted access to a room of that name, by a join or by an     *)
(* admitted update.                                                         *)
OnlyAdmittedHear ==
  \A c \in Clients : \A i \in Broadcasts(c) : queue[c][i].name \in admitted[c]

(* A request for a video address, meant for the host, reaches only          *)
(* connections whose own update of that room name was admitted.             *)
HostTrafficToHosts ==
  \A c \in Clients : \A i \in Broadcasts(c) :
    queue[c][i].type = "HOST" => queue[c][i].name \in hosted[c]

(* The states of one Room object that a connection is sent by broadcast     *)
(* never go back in time, whatever the order in which the updates and the   *)
(* broadcasts they cause reach the hub (the timestamps beside them may):    *)
(* neither within its channel, nor between the channel and the broadcast    *)
(* the hub is about to put behind it.                                       *)
SnapshotsInOrder ==
  \A c \in Clients : \A i \in Broadcasts(c) :
    /\ \A j \in Broadcasts(c) :
         (i < j /\ queue[c][i].obj = queue[c][j].obj)
           => queue[c][i].version <= queue[c][j].version
    /\ (hub.step = "deliver" /\ c \in hub.todo /\ hub.msg.obj = queue[c][i].obj)
         => queue[c][i].version <= hub.msg.version

(* A connection whose reader has ended hears nothing any more. *)
GoneIsForgotten ==
  \A c \in Clients : pc[c] = "gone" => \A n \in Keys : c \notin Hears(n)

(* All of it together: what a room's connections hear is RoomBroadcast.    *)
(* They hear the broadcasts in one order, each at most once, the state of   *)
(* the room as of the moment the hub took the broadcast up, and nothing     *)
(* that was said by a connection that was granted no room.                  *)
Service == INSTANCE RoomBroadcast WITH
  granted <- admitted, hosts <- hosted, inbox <- queue, Messages <- Message,
  onAir <- IF hub.step = "deliver" THEN {hub.msg} ELSE {},
  listeners <- IF hub.step = "deliver" THEN hub.todo ELSE {}
ImplementsBroadcast == Service!Spec

(* Every broadcast somebody hands to the hub is taken. *)
BroadcastsAreTaken ==
  \A c \in Clients : /\ pc[c] = "send" ~> pc[c] # "send"
                     /\ text[c] \in Names ~> text[c] \notin Names

(* The reader of a closed connection ends, unless it waits for room in a    *)
(* send channel whose writer has ended: that goroutine is never freed, and  *)
(* its connection never unregistered.                                       *)
Stuck(c) == pc[c] = "reply" /\ Len(queue[c]) = QueueCap /\ writer[c] = "ended"
ClosedConnectionsEnd ==
  \A c \in Clients : conn[c] = "closed" ~> (pc[c] = "gone" \/ Stuck(c))
=============================================================================
