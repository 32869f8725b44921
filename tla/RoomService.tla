---------------------------- MODULE RoomService ----------------------------
(***************************************************************************)
(* The room registry of the Go server: who may drive a room, and which     *)
(* room objects the registry and the voice (Kraken) registry hold.         *)
(*                                                                         *)
(* Every "/room/update", over HTTP or over a websocket, runs               *)
(* GetAndCheckUpdatePermissionsOfRoom and then assigns the fields of the   *)
(* Room it returned; "/statistics" walks the registry and drops the rooms  *)
(* nobody refreshed.  Both run in goroutines of their own and share the    *)
(* registry (a sync.Map from names to *Room) and the Room objects, whose   *)
(* plain fields no lock protects.  A step of the model is one operation on *)
(* a sync.Map, or one group of plain field accesses.                       *)
(*                                                                         *)
(* The presence data of a room (members, MemberCount, WaitForLoadding,     *)
(* BeginLoaddingTimestamp), which QueryRoom refreshes on the way, is the   *)
(* subject of module WaitForLoading: no step of this module reads it.      *)
(***************************************************************************)
EXTENDS FiniteSets

CONSTANTS
  Workers,      \* goroutines that handle updates, one request at a time each
  Monitors,     \* goroutines that handle GET /statistics
  Names,        \* room names
  Users,        \* tempUser ids
  Passwords,    \* (hashed) room passwords
  Objects,      \* the Room objects the server may allocate (bounds creations)
  Inputs,       \* the update requests clients may send, a subset of Update
  SerialUsers,  \* users that never have two updates in flight (websocket only)
  None          \* nil: no object, no author, no request

(* What makes the HTTP handler panic: an IPv6 peer, whose To4() is nil when *)
(* a room is created for it; a number floatParam(req, ., nil) cannot read.  *)
Faults == {"nothing", "remoteIPv6", "currentTime", "lastUpdateClientTime"}

(* What an update carries.  `fresh`: its lastUpdateClientTime, which the   *)
(* client chose, is within roomExpireTime of the server's clock.           *)
Update == [user : Users, name : Names, password : Passwords,
           fresh : BOOLEAN, fault : Faults]

(* What the model keeps of a Room, and who assigned a group of its fields. *)
Room == [name : Names, password : Passwords, hostId : Users,
         fresh : BOOLEAN, userIds : SUBSET Users]
Author == [user : Users, password : Passwords]

ASSUME InputsAssumption == Inputs \subseteq Update
ASSUME SerialAssumption == SerialUsers \subseteq Users
ASSUME ThreadAssumption == Workers \cap Monitors = {}
ASSUME NoneAssumption ==
  /\ None \notin Objects
  /\ None \notin Names
  /\ None \notin Inputs
  /\ None \notin Room
  /\ None \notin Author

(* The fields an update assigns, grouped at the two places where the HTTP  *)
(* handler may panic: PlaybackRate | CurrentTime, Paused, Url, M3u8Url |   *)
(* LastUpdateClientTime, Duration, ..., Protected, VideoTitle.             *)
Groups == {"rate", "position", "tail"}

VARIABLES
  rooms,     \* registry: name -> stored object or None
  heap,      \* object -> [name, password, hostId, fresh, userIds]
  author,    \* object -> group of fields -> [user, password] that wrote it last
  kraken,    \* objects whose krakenRoomName the voice registry holds
  unused,    \* objects not allocated yet
  pc,        \* control of every worker and monitor
  job,       \* worker: the request it handles; monitor: the name it visits
  obj,       \* the *Room the goroutine holds
  isNewUser, \* worker: the local of that name
  todo,      \* monitor: names its Range has yet to visit
  reply,     \* the last answer of every goroutine
  everHost,  \* history: object -> users that have been its hostId
  answered,  \* history: object -> users that got an answer to an update of it
  raced      \* history: names at which a creator overwrote a stored room,
             \* or a walk deleted another room than the one it had examined

stores == <<rooms, kraken, unused>>
locals == <<job, obj, isNewUser>>
history == <<everHost, answered, raced>>
vars == <<rooms, heap, author, kraken, unused, pc, job, obj, isNewUser,
          todo, reply, everHost, answered, raced>>

Threads == Workers \cup Monitors

WorkerSteps == {"idle", "query", "create", "store", "lookup", "register",
                "check", "takeover", "rate", "position", "tail"}
MonitorSteps == {"idle", "scan", "visit", "unkraken", "delete"}
(* The steps of a worker between admission and its answer. *)
Writing == {"rate", "position", "tail"}
Replies == {"none", "ok", "hostWrongPassword", "otherHostSyncing", "panic"}

-----------------------------------------------------------------------------
Init ==
  /\ rooms = [n \in Names |-> None]
  /\ heap = [o \in Objects |-> None]
  /\ author = [o \in Objects |-> [g \in Groups |-> None]]
  /\ kraken = {}
  /\ unused = Objects
  /\ pc = [t \in Threads |-> "idle"]
  /\ job = [t \in Threads |-> None]
  /\ obj = [t \in Threads |-> None]
  /\ isNewUser = [w \in Workers |-> FALSE]
  /\ todo = [m \in Monitors |-> {}]
  /\ reply = [t \in Threads |-> "none"]
  /\ everHost = [o \in Objects |-> {}]
  /\ answered = [o \in Objects |-> {}]
  /\ raced = {}

Goto(t, label) == pc' = [pc EXCEPT ![t] = label]

(* A goroutine answers and drops its locals; it is free for another request. *)
Answer(t, what) ==
  /\ Goto(t, "idle")
  /\ reply' = [reply EXCEPT ![t] = what]
  /\ job' = [job EXCEPT ![t] = None]
  /\ obj' = [obj EXCEPT ![t] = None]

AnswerUpdate(w, what) ==
  /\ Answer(w, what)
  /\ answered' = [answered EXCEPT ![obj[w]] = @ \cup {job[w].user}]
  /\ isNewUser' = [isNewUser EXCEPT ![w] = FALSE]
  /\ UNCHANGED <<everHost, raced>>

-----------------------------------------------------------------------------
(* Updates *)

(* A request arrives.  A serial user waits for the answer to the last one. *)
Receive(w) ==
  /\ pc[w] = "idle"
  /\ \E req \in Inputs :
       /\ req.user \in SerialUsers =>
            \A v \in Workers : pc[v] # "idle" => job[v].user # req.user
       /\ job' = [job EXCEPT ![w] = req]
  /\ reply' = [reply EXCEPT ![w] = "none"]
  /\ Goto(w, "query")
  /\ UNCHANGED <<stores, heap, author, obj, isNewUser, todo, history>>

(* room := s.QueryRoom(roomName) *)
QueryRoom(w) ==
  /\ pc[w] = "query"
  /\ obj' = [obj EXCEPT ![w] = rooms[job[w].name]]
  /\ Goto(w, IF rooms[job[w].name] = None THEN "create" ELSE "lookup")
  /\ UNCHANGED <<stores, heap, author, job, isNewUser, todo, reply, history>>

(* The Room a creator fills in; members and userIds are empty. *)
NewRoomNoHost(req) ==  \* mutant: room.hostId is not assigned
  [name |-> req.name, password |-> req.password, hostId |-> None,
   fresh |-> TRUE, userIds |-> {}]
NewRoom(req) ==
  [name |-> req.name, password |-> req.password, hostId |-> req.user,
   fresh |-> TRUE, userIds |-> {}]

NewKrakenRoomSkipped(o) == UNCHANGED kraken  \* mutant: the call is forgotten
NewKrakenRoom(o) == kraken' = kraken \cup {o}

DeleteKrakenRoomSkipped(o) == UNCHANGED kraken  \* mutant: the call is forgotten
DeleteKrakenRoom(o) == kraken' = kraken \ {o}

(* CreateRoom up to and including NewKrakenRoom: the object is still private. *)
CreateRoom(w) ==
  /\ pc[w] = "create"
  /\ job[w].fault # "remoteIPv6"
  /\ \E o \in unused :
       /\ unused' = unused \ {o}
       /\ heap' = [heap EXCEPT ![o] = NewRoom(job[w])]
       /\ NewKrakenRoom(o)
       /\ obj' = [obj EXCEPT ![w] = o]
       /\ everHost' = [everHost EXCEPT ![o] = {job[w].user}]
  /\ Goto(w, "store")
  /\ UNCHANGED <<rooms, author, job, isNewUser, todo, reply, answered, raced>>

(* ChinaIPRanges.search reads four bytes of a nil slice; ServeHTTP recovers. *)
CreatePanics(w) ==
  /\ pc[w] = "create"
  /\ job[w].fault = "remoteIPv6"
  /\ Answer(w, "panic")
  /\ UNCHANGED <<stores, heap, author, isNewUser, todo, history>>

(* s.rooms.Store(name, room): overwrites what another creator stored. *)
StoreRoom(w) ==
  /\ pc[w] = "store"
  /\ rooms' = [rooms EXCEPT ![job[w].name] = obj[w]]
  /\ raced' = IF rooms[job[w].name] = None THEN raced ELSE raced \cup {job[w].name}
  /\ Goto(w, "lookup")
  /\ UNCHANGED <<heap, author, kraken, unused, locals, todo, reply, everHost, answered>>

(* isNewUser := !room.QueryUser(userId) *)
QueryUser(w) ==
  /\ pc[w] = "lookup"
  /\ isNewUser' = [isNewUser EXCEPT ![w] = job[w].user \notin heap[obj[w]].userIds]
  /\ Goto(w, IF job[w].user \in heap[obj[w]].userIds THEN "check" ELSE "register")
  /\ UNCHANGED <<stores, heap, author, job, obj, todo, reply, history>>

(* Mutant: the user is not registered. *)
ForgetUser(w) ==
  /\ pc[w] = "register"
  /\ Goto(w, "check")
  /\ UNCHANGED <<stores, heap, author, locals, todo, reply, history>>

(* room.NewUser(userId): before the password is looked at. *)
NewUser(w) ==
  /\ pc[w] = "register"
  /\ heap' = [heap EXCEPT ![obj[w]].userIds = @ \cup {job[w].user}]
  /\ Goto(w, "check")
  /\ UNCHANGED <<stores, author, locals, todo, reply, history>>

PasswordMatchesUnlessNew(w) ==  \* mutant: a first contact is not checked
  isNewUser[w] \/ heap[obj[w]].password = job[w].password
PasswordMatches(w) == heap[obj[w]].password = job[w].password

(* The password test and the IsHost test: room.password never changes, so  *)
(* reading it together with hostId loses no interleaving.                  *)
WrongPassword(w) ==
  /\ pc[w] = "check"
  /\ ~PasswordMatches(w)
  /\ AnswerUpdate(w, "hostWrongPassword")
  /\ UNCHANGED <<stores, heap, author, todo>>

OtherHost(w) ==
  /\ pc[w] = "check"
  /\ PasswordMatches(w)
  /\ heap[obj[w]].hostId # job[w].user
  /\ ~isNewUser[w]
  /\ AnswerUpdate(w, "otherHostSyncing")
  /\ UNCHANGED <<stores, heap, author, todo>>

(* Mutant: whoever knows the password takes over, new or not. *)
IsAnyHost(w) ==
  /\ pc[w] = "check"
  /\ PasswordMatches(w)
  /\ heap[obj[w]].hostId # job[w].user
  /\ Goto(w, "takeover")
  /\ UNCHANGED <<stores, heap, author, locals, todo, reply, history>>

IsNewHost(w) ==
  /\ pc[w] = "check"
  /\ PasswordMatches(w)
  /\ heap[obj[w]].hostId # job[w].user
  /\ isNewUser[w]
  /\ Goto(w, "takeover")
  /\ UNCHANGED <<stores, heap, author, locals, todo, reply, history>>

IsHost(w) ==
  /\ pc[w] = "check"
  /\ PasswordMatches(w)
  /\ heap[obj[w]].hostId = job[w].user
  /\ Goto(w, "rate")
  /\ UNCHANGED <<stores, heap, author, locals, todo, reply, history>>

(* room.setHost(userId) *)
SetHost(w) ==
  /\ pc[w] = "takeover"
  /\ heap' = [heap EXCEPT ![obj[w]].hostId = job[w].user]
  /\ everHost' = [everHost EXCEPT ![obj[w]] = @ \cup {job[w].user}]
  /\ Goto(w, "rate")
  /\ UNCHANGED <<stores, author, locals, todo, reply, answered, raced>>

Signature(w) == [user |-> job[w].user, password |-> job[w].password]

WriteRate(w) ==
  /\ pc[w] = "rate"
  /\ author' = [author EXCEPT ![obj[w]]["rate"] = Signature(w)]
  /\ Goto(w, "position")
  /\ UNCHANGED <<stores, heap, locals, todo, reply, history>>

WritePosition(w) ==
  /\ pc[w] = "position"
  /\ job[w].fault # "currentTime"
  /\ author' = [author EXCEPT ![obj[w]]["position"] = Signature(w)]
  /\ Goto(w, "tail")
  /\ UNCHANGED <<stores, heap, locals, todo, reply, history>>

WriteTail(w) ==
  /\ pc[w] = "tail"
  /\ job[w].fault # "lastUpdateClientTime"
  /\ author' = [author EXCEPT ![obj[w]]["tail"] = Signature(w)]
  /\ heap' = [heap EXCEPT ![obj[w]].fresh = job[w].fresh]
  /\ AnswerUpdate(w, "ok")
  /\ UNCHANGED <<stores, todo>>

(* floatParam panics; ServeHTTP recovers; what was assigned stays. *)
UpdatePanics(w) ==
  /\ \/ pc[w] = "position" /\ job[w].fault = "currentTime"
     \/ pc[w] = "tail" /\ job[w].fault = "lastUpdateClientTime"
  /\ AnswerUpdate(w, "panic")
  /\ UNCHANGED <<stores, heap, author, todo>>

-----------------------------------------------------------------------------
(* Time and statistics *)

(* roomExpireTime passes since the LastUpdateClientTime of o. *)
Age(o) ==
  /\ heap[o] # None
  /\ heap[o].fresh
  /\ heap' = [heap EXCEPT ![o].fresh = FALSE]
  /\ UNCHANGED <<stores, author, pc, locals, todo, reply, history>>

StatBegin(m) ==
  /\ pc[m] = "idle"
  /\ todo' = [todo EXCEPT ![m] = Names]
  /\ reply' = [reply EXCEPT ![m] = "none"]
  /\ Goto(m, "scan")
  /\ UNCHANGED <<stores, heap, author, locals, history>>

RangeSeesSnapshot(n) == TRUE  \* mutant: Range over a copy of the keys
RangeSees(n) == rooms[n] # None

(* s.rooms.Range visits a key it finds present, each at most once. *)
StatVisit(m) ==
  /\ pc[m] = "scan"
  /\ \E n \in todo[m] :
       /\ RangeSees(n)
       /\ todo' = [todo EXCEPT ![m] = @ \ {n}]
       /\ job' = [job EXCEPT ![m] = n]
  /\ Goto(m, "visit")
  /\ UNCHANGED <<stores, heap, author, obj, isNewUser, reply, history>>

StatSkip(m) ==
  /\ pc[m] = "scan"
  /\ \E n \in todo[m] :
       /\ ~RangeSees(n)
       /\ todo' = [todo EXCEPT ![m] = @ \ {n}]
  /\ UNCHANGED <<stores, heap, author, pc, locals, reply, history>>

(* Mutant: the callback returns false for a live room, which ends the Range. *)
StatKeepStops(m) ==
  /\ pc[m] = "visit"
  /\ rooms[job[m]] # None
  /\ heap[rooms[job[m]]].fresh
  /\ Answer(m, "ok")
  /\ todo' = [todo EXCEPT ![m] = {}]
  /\ UNCHANGED <<stores, heap, author, isNewUser, history>>

(* The second load of the key: QueryRoom(key) and the age test. *)
StatKeep(m) ==
  /\ pc[m] = "visit"
  /\ rooms[job[m]] # None
  /\ heap[rooms[job[m]]].fresh
  /\ Goto(m, "scan")
  /\ UNCHANGED <<stores, heap, author, locals, todo, reply, history>>

StatExpire(m) ==
  /\ pc[m] = "visit"
  /\ rooms[job[m]] # None
  /\ ~heap[rooms[job[m]]].fresh
  /\ obj' = [obj EXCEPT ![m] = rooms[job[m]]]
  /\ Goto(m, "unkraken")
  /\ UNCHANGED <<stores, heap, author, job, isNewUser, todo, reply, history>>

(* room == nil: room.krakenRoomName dereferences nil; ServeHTTP recovers. *)
StatPanics(m) ==
  /\ pc[m] = "visit"
  /\ rooms[job[m]] = None
  /\ Answer(m, "panic")
  /\ todo' = [todo EXCEPT ![m] = {}]
  /\ UNCHANGED <<stores, heap, author, isNewUser, history>>

StatUnkraken(m) ==
  /\ pc[m] = "unkraken"
  /\ DeleteKrakenRoom(obj[m])
  /\ Goto(m, "delete")
  /\ UNCHANGED <<rooms, heap, author, unused, locals, todo, reply, history>>

(* s.rooms.Delete(key): whatever the key holds by now. *)
StatDelete(m) ==
  /\ pc[m] = "delete"
  /\ rooms' = [rooms EXCEPT ![job[m]] = None]
  /\ raced' = IF rooms[job[m]] \in {None, obj[m]} THEN raced ELSE raced \cup {job[m]}
  /\ Goto(m, "scan")
  /\ UNCHANGED <<heap, author, kraken, unused, locals, todo, reply, everHost, answered>>

StatEnd(m) ==
  /\ pc[m] = "scan"
  /\ todo[m] = {}
  /\ Answer(m, "ok")
  /\ UNCHANGED <<stores, heap, author, isNewUser, todo, history>>

-----------------------------------------------------------------------------
WorkerStep(w) ==
  \/ Receive(w) \/ QueryRoom(w) \/ CreateRoom(w) \/ CreatePanics(w)
  \/ StoreRoom(w) \/ QueryUser(w) \/ NewUser(w)
  \/ WrongPassword(w) \/ OtherHost(w) \/ IsNewHost(w) \/ IsHost(w) \/ SetHost(w)
  \/ WriteRate(w) \/ WritePosition(w) \/ WriteTail(w) \/ UpdatePanics(w)

StatProgress(m) ==
  \/ StatVisit(m) \/ StatSkip(m) \/ StatKeep(m) \/ StatExpire(m)
  \/ StatPanics(m) \/ StatUnkraken(m) \/ StatDelete(m) \/ StatEnd(m)
MonitorStep(m) == StatBegin(m) \/ StatProgress(m)

Next ==
  \/ \E w \in Workers : WorkerStep(w)
  \/ \E m \in Monitors : MonitorStep(m)
  \/ \E o \in Objects : Age(o)

Spec == Init /\ [][Next]_vars

(* The Go scheduler runs every goroutine that can run; nothing obliges      *)
(* anybody to send a request, to update a room or to ask for statistics.    *)
FairSpec == Spec /\ \A m \in Monitors : WF_vars(StatProgress(m))
-----------------------------------------------------------------------------
(* Properties *)

TypeOK ==
  /\ rooms \in [Names -> Objects \cup {None}]
  /\ heap \in [Objects -> Room \cup {None}]
  /\ author \in [Objects -> [Groups -> Author \cup {None}]]
  /\ kraken \subseteq Objects
  /\ unused \subseteq Objects
  /\ pc \in [Threads -> WorkerSteps \cup MonitorSteps]
  /\ job \in [Threads -> Inputs \cup Names \cup {None}]
  /\ obj \in [Threads -> Objects \cup {None}]
  /\ isNewUser \in [Workers -> BOOLEAN]
  /\ todo \in [Monitors -> SUBSET Names]
  /\ reply \in [Threads -> Replies]
  /\ everHost \in [Objects -> SUBSET Users]
  /\ answered \in [Objects -> SUBSET Users]
  /\ raced \subseteq Names

(* Whatever the interleaving of updates, expiry and recreation, every      *)
(* playback field of a room was last assigned by an update that carried    *)
(* the password of that very room object, sent by a user who has been its  *)
(* host.  An update admitted before a takeover may still land after it, so *)
(* "who is its host now" would be too much to ask of this code.            *)
FieldsFromAdmittedHosts ==
  \A o \in Objects, g \in Groups :
    author[o][g] # None =>
      /\ heap[o] # None
      /\ author[o][g].password = heap[o].password
      /\ author[o][g].user \in everHost[o]

(* A user gets the host of a room by takeover on first contact only: once  *)
(* an update of his to this room object was answered, in whatever way (a   *)
(* wrong password included), he never becomes its host again.  It needs    *)
(* the user to have one update in flight at a time.                        *)
TakeoverOnFirstContact ==
  [][\A o \in Objects : \A u \in SerialUsers :
       (heap[o] # None /\ u \in answered[o] /\ heap[o].hostId # u)
         => heap'[o].hostId # u]_vars

(* A room clients can find has its voice endpoint registered, but for the  *)
(* window in which a statistics request has removed the endpoint and is    *)
(* about to remove the room.                                               *)
StoredRoomHasKraken ==
  \A n \in Names :
    (rooms[n] # None /\ rooms[n] \notin kraken) =>
      \E m \in Monitors : pc[m] = "delete" /\ job[m] = n

(* As long as statistics requests come one at a time, they do not fall     *)
(* over the nil room of line 282.                                          *)
OneMonitorNeverPanics ==
  (\A m1, m2 \in Monitors : m1 = m2) => \A m \in Monitors : reply[m] # "panic"

(* An endpoint stays registered for a room nobody can find (for ever:      *)
(* nothing deletes it) only at a name for which two creators raced, or at  *)
(* which a walk deleted another room than the one it had found stale.      *)
LeaksOnlyByRace ==
  \A o \in kraken :
    \/ rooms[heap[o].name] = o
    \/ \E w \in Workers : pc[w] = "store" /\ obj[w] = o
    \/ heap[o].name \in raced

(* If statistics are asked for again and again, one request at a time, no  *)
(* room stays findable for ever without its host refreshing it, however    *)
(* the updates of other rooms interleave with the walk.                    *)
Polled == \E m \in Monitors : pc[m] = "scan" /\ todo[m] = Names
StaleRoom(n) == rooms[n] # None /\ ~heap[rooms[n]].fresh
PolledRoomsExpire == []<>Polled => \A n \in Names : ~<>[]StaleRoom(n)

(* Refinement: whatever goroutines do with the maps and fields of a room,  *)
(* its host is a token that passes on first contact only, and only to      *)
(* those who know the password.  A claim is what a worker holds between    *)
(* reading isNewUser and being refused or let in.                          *)
Claims(w, o) == /\ pc[w] \in {"register", "check", "takeover"}
                /\ obj[w] = o /\ isNewUser[w]

Token == INSTANCE HostToken WITH
  Fields <- Groups,
  secret <- [o \in Objects |-> IF heap[o] = None THEN None ELSE heap[o].password],
  host <- [o \in Objects |-> IF heap[o] = None THEN None ELSE heap[o].hostId],
  pastHosts <- everHost,
  met <- [o \in Objects |-> IF heap[o] = None THEN {} ELSE heap[o].userIds],
  claims <- [o \in Objects |-> {<<job[w].user, job[w].password>> :
                                  w \in {v \in Workers : Claims(v, o)}}],
  written <- author
ImplementsToken == Token!Spec
=============================================================================
