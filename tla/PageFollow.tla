----------------------------- MODULE PageFollow -----------------------------
(***************************************************************************)
(* A tab that follows its room from page to page (vt.js, extension.js).    *)
(*                                                                         *)
(* A page that learns that its room's host is elsewhere saves its state    *)
(* with the new address in the tab (extension.js, background.js), waits    *)
(* until it reads that address back, and jumps when the next save is       *)
(* acknowledged.  The page it jumps to recovers the state from the tab, or *)
(* from what a host left in the session storage of the page's origin.      *)
(*                                                                         *)
(* One tab, with the extension; links outside it and rooms hosted by       *)
(* others are the environment.  A page's first storage message comes       *)
(* within a second, its first tick after two.                              *)
(***************************************************************************)
EXTENDS Naturals, Sequences, FiniteSets

CONSTANTS
  Rooms, Urls,
  Anchored,    \* the urls with a hash
  Document,    \* url -> the url without its hash
  Origin,      \* url -> its origin
  Home,        \* room -> where its host is at first
  Start,       \* where the tab may be opened
  None,        \* no room, no url, no state
  MaxSaves,    \* messages to the extension under way (a bound)
  MaxTasks,    \* answers awaited at once (a bound)
  MaxEvents    \* moves of hosts and deeds of the user (a bound)

ASSUME NoneAssumption == None \notin Rooms \cup Urls
ASSUME PlacesAssumption ==
  /\ Home \in [Rooms -> Urls] /\ Start \subseteq Urls
  /\ \A u, v \in Urls : Document[u] = Document[v] => Origin[u] = Origin[v]

Origins == {Origin[u] : u \in Urls}

(* What GetRoomState saves; url None is the code's "". *)
States == [url : Urls \cup {None}, room : Rooms, role : {"Master", "Member"}]
Answers == [room : Rooms, url : Urls]
UserChoices == [room : Rooms, role : {"Master", "Member"}] \cup {None}

VARIABLES
  (* elsewhere *)
  roomUrl,    \* room -> the page its host is on
  tab,        \* the state saved in the tab
  session,    \* origin -> the room its session storage says to be host of
  (* the page *)
  page,       \* its address
  nav,        \* where the tab is about to go, or None
  role, room, \* of the page
  url,        \* this.url: where the page believes to be
  tasks,      \* rooms as told to tasks that wait for GetRoom
  lastRoom,   \* the room of WS._lastRoom, younger than five seconds
  saves,      \* SetTabStorage messages under way
  acks,       \* SetTabStorageSuccess messages under way
  synced,     \* the page has had a storage message
  storage,    \* the tab state of the last storage message
  watched,    \* addresses the timers of earlier redirects wait for
  callback,   \* where SetTabStorageSuccessCallback jumps to, or None
  (* history *)
  events,
  chosen,     \* what the user did last: the room and role, or None
  raced,      \* a host or the user moved while a redirect was under way
  hasty       \* the user chose while the page was coming or going, ...

doc == <<role, room, url, tasks, lastRoom, synced, storage, watched>>
history == <<events, chosen, raced, hasty>>
vars == <<roomUrl, tab, session, page, nav, doc, saves, acks, callback, history>>

Init ==
  /\ roomUrl = Home /\ page \in Start
  /\ tab = None /\ session = [o \in Origins |-> None]
  /\ nav = None /\ role = "Null" /\ room = None /\ url = None
  /\ tasks = {} /\ lastRoom = None /\ saves = <<>> /\ acks = 0
  /\ synced = FALSE /\ storage = None /\ watched = {} /\ callback = None
  /\ events = 0 /\ chosen = None /\ raced = FALSE /\ hasty = FALSE

HasLink(s) == s # None /\ s.url # None

(* From the request whose answer names a new address to the new page. *)
Redirecting ==
  \/ nav # None \/ callback # None \/ tasks # {}
  \/ HasLink(tab) \/ HasLink(storage)
  \/ \E i \in 1 .. Len(saves) : HasLink(saves[i])

Event == events < MaxEvents /\ events' = events + 1

-----------------------------------------------------------------------------
(* The page's state *)

GetRoomState(link) ==
  IF role = "Null" THEN None ELSE [url |-> link, room |-> room, role |-> role]

SetTabStorage(s) == Len(saves) + acks < MaxSaves /\ saves' = Append(saves, s)

(* Session storage says who is host; a member's page does not use it. *)
SaveStateToSessionStorage(r) == session' = [session EXCEPT ![Origin[page]] = r]

(* The user chooses while nothing that could undo it is under way. *)
Choose(c) ==
  /\ chosen' = c
  /\ hasty' = (hasty \/ Redirecting \/ ~synced
                     \/ \E o \in Origins \ {Origin[page]} : session[o] # None)
  /\ UNCHANGED raced

JoinRoom(r) ==
  /\ Event /\ role = "Null"
  /\ role' = "Member" /\ room' = r
  /\ Choose([room |-> r, role |-> "Member"])
  /\ UNCHANGED <<roomUrl, tab, session, page, nav, url, tasks, lastRoom, saves,
                 acks, synced, storage, watched, callback>>

CreateRoom(r) ==
  /\ Event /\ role = "Null"
  /\ role' = "Master" /\ room' = r
  /\ roomUrl' = [roomUrl EXCEPT ![r] = page]
  /\ Choose([room |-> r, role |-> "Master"])
  /\ UNCHANGED <<tab, session, page, nav, url, tasks, lastRoom, saves, acks,
                 synced, storage, watched, callback>>

(* Mutant: the name of the room stays. *)
RoomStays ==
  /\ Event /\ role # "Null"
  /\ role' = "Null"
  /\ SetTabStorage(None) /\ SaveStateToSessionStorage(None) /\ Choose(None)
  /\ UNCHANGED <<roomUrl, tab, page, nav, room, url, tasks, lastRoom, acks, synced,
                 storage, watched, callback>>
(* Mutant: leaving is not saved in the tab. *)
ExitUnsaved ==
  /\ Event /\ role # "Null"
  /\ role' = "Null" /\ room' = None
  /\ SaveStateToSessionStorage(None)
  /\ Choose(None)
  /\ UNCHANGED <<roomUrl, tab, page, nav, url, tasks, lastRoom, saves, acks,
                 synced, storage, watched, callback>>
(* WS.disconnect forgets neither _lastRoom nor its time. *)
exitRoom ==
  /\ Event /\ role # "Null"
  /\ role' = "Null" /\ room' = None
  /\ SetTabStorage(None)
  /\ SaveStateToSessionStorage(None)
  /\ Choose(None)
  /\ UNCHANGED <<roomUrl, tab, page, nav, url, tasks, lastRoom, acks, synced,
                 storage, watched, callback>>

-----------------------------------------------------------------------------
(* ScheduledTask *)

MasterTask ==
  /\ role = "Master" /\ synced
  /\ SetTabStorage(GetRoomState(None))
  /\ SaveStateToSessionStorage(room)
  /\ roomUrl' = [roomUrl EXCEPT ![room] = page]
  /\ UNCHANGED <<tab, page, nav, doc, acks, callback, history>>

(* GetRoom: from the server, or, for five seconds, what the websocket said  *)
(* last, of whatever room that was.  A request that fails is none.         *)
Ask(r) ==
  /\ role = "Member" /\ synced
  /\ Cardinality(tasks) < MaxTasks
  /\ tasks' = tasks \cup {[room |-> r, url |-> roomUrl[r]]}
AskServer ==
  /\ Ask(room)
  /\ lastRoom' = room
  /\ UNCHANGED <<roomUrl, tab, session, page, nav, role, room, url, saves, acks,
                 synced, storage, watched, callback, history>>
AskLastRoom ==
  /\ lastRoom \notin {None, room}
  /\ Ask(lastRoom)
  /\ raced' = TRUE
  /\ UNCHANGED <<roomUrl, tab, session, page, nav, role, room, url, lastRoom,
                 saves, acks, synced, storage, watched, callback, events, chosen, hasty>>
LastRoomExpires ==
  /\ lastRoom \notin {None, room}
  /\ lastRoom' = None
  /\ UNCHANGED <<roomUrl, tab, session, page, nav, role, room, url, tasks, saves,
                 acks, synced, storage, watched, callback, history>>
(* Mutant: the page believes to be there as soon as it has saved the address. *)
BelievedAtOnce(t) ==
  /\ tasks' = tasks \ {t}
  /\ SetTabStorage(GetRoomState(IF t.url # url THEN t.url ELSE None))
  /\ watched' = IF t.url # url THEN watched \cup {t.url} ELSE watched
  /\ url' = t.url
  /\ UNCHANGED <<roomUrl, tab, session, page, nav, role, room, lastRoom, acks,
                 synced, storage, callback, history>>
(* The member's task, after GetRoom; role and room are those of now. *)
MemberTask(t) ==
  /\ tasks' = tasks \ {t}
  /\ \/ /\ t.url # url
        /\ SetTabStorage(GetRoomState(t.url))
        /\ watched' = watched \cup {t.url}
        /\ raced' = (raced \/ nav \notin {None, t.url})
     \/ /\ t.url = url
        /\ SetTabStorage(GetRoomState(None))
        /\ UNCHANGED <<watched, raced>>
  /\ UNCHANGED <<roomUrl, tab, session, page, nav, role, room, url, lastRoom,
                 acks, synced, storage, callback, events, chosen, hasty>>

(* Mutant: the address is not compared with the one that was saved. *)
WatchesAnything(u) ==
  /\ u \in watched /\ storage # None
  /\ callback' = u
  /\ UNCHANGED <<roomUrl, tab, session, page, nav, doc, saves, acks, history>>
(* Mutant: the comparison is turned round. *)
WatchesOthers(u) ==
  /\ u \in watched /\ storage # None /\ storage.url # u
  /\ callback' = u
  /\ UNCHANGED <<roomUrl, tab, session, page, nav, doc, saves, acks, history>>
(* The timer of a redirect, which nothing ever clears. *)
Watch(u) ==
  /\ u \in watched
  /\ storage # None /\ storage.url = u
  /\ callback' = u
  /\ UNCHANGED <<roomUrl, tab, session, page, nav, doc, saves, acks, history>>

-----------------------------------------------------------------------------
(* Messages between the page and the extension *)

SaveTab ==
  /\ saves # <<>>
  /\ tab' = Head(saves) /\ saves' = Tail(saves)
  /\ acks' = acks + 1
  /\ UNCHANGED <<roomUrl, session, page, nav, doc, callback, history>>

(* JumpToNewPage: with a new hash the page stays, and takes the new url. *)
JumpToNewPage(u) ==
  \/ /\ u \in Anchored /\ Document[u] = Document[page]
     /\ page' = u /\ url' = u /\ nav' = None
  \/ /\ ~(u \in Anchored /\ Document[u] = Document[page])
     /\ nav' = u
     /\ UNCHANGED <<page, url>>

SetTabStorageSuccess ==
  /\ acks > 0 /\ acks' = acks - 1
  /\ callback' = None
  /\ \/ callback # None /\ JumpToNewPage(callback)
     \/ callback = None /\ UNCHANGED <<page, nav, url>>
  /\ UNCHANGED <<roomUrl, tab, session, role, room, tasks, lastRoom, saves,
                 synced, storage, watched, history>>

(* RecoveryStateFrom the tab: a tab without a room changes nothing. *)
RecoveryState ==
  \/ /\ ~synced /\ tab # None
     /\ role' = tab.role /\ room' = tab.room /\ url' = tab.url
  \/ /\ synced \/ tab = None
     /\ UNCHANGED <<role, room, url>>
SyncStorageValue ==
  /\ storage' = tab /\ synced' = TRUE
  /\ RecoveryState
  /\ UNCHANGED <<roomUrl, tab, session, page, nav, tasks, lastRoom, saves, acks,
                 watched, callback, history>>

(* A new page.  Of the saves under way the extension still does the first n;*)
(* states older than a minute are nothing.                                 *)
Load(n, expired) ==
  /\ nav # None
  /\ page' = nav /\ nav' = None
  /\ tab' = IF expired THEN None ELSE IF n = 0 THEN tab ELSE saves[n]
  /\ session' = IF expired THEN [o \in Origins |-> None] ELSE session
  /\ room' = session'[Origin[nav]]
  /\ role' = IF room' # None THEN "Master" ELSE "Null"
  /\ chosen' = IF expired THEN None ELSE chosen
  /\ hasty' = (hasty \/ \E i \in n + 1 .. Len(saves) : saves[i] = None)
  /\ url' = None /\ tasks' = {} /\ lastRoom' = None
  /\ saves' = <<>> /\ acks' = 0
  /\ synced' = FALSE /\ storage' = None /\ watched' = {} /\ callback' = None
  /\ UNCHANGED <<roomUrl, events, raced>>

-----------------------------------------------------------------------------
(* Hosts elsewhere, and links *)

HostMoves(r, u) ==
  /\ Event /\ ~(role = "Master" /\ room = r)
  /\ roomUrl[r] # u /\ roomUrl' = [roomUrl EXCEPT ![r] = u]
  /\ raced' = (raced \/ Redirecting)
  /\ UNCHANGED <<tab, session, page, nav, doc, saves, acks, callback, chosen, hasty>>

UserNavigates(u) ==
  /\ Event /\ nav' = u
  /\ raced' = (raced \/ Redirecting)
  /\ UNCHANGED <<roomUrl, tab, session, page, doc, saves, acks, callback, chosen, hasty>>

LoadPage(expired) == \E n \in 0 .. Len(saves) : Load(n, expired)

Next ==
  \/ \E r \in Rooms : JoinRoom(r) \/ CreateRoom(r)
  \/ exitRoom
  \/ MasterTask \/ AskServer \/ AskLastRoom \/ LastRoomExpires
  \/ \E t \in tasks : MemberTask(t)
  \/ \E u \in Urls : Watch(u)
  \/ SaveTab \/ SetTabStorageSuccess \/ SyncStorageValue
  \/ LoadPage(FALSE) \/ (events < MaxEvents /\ LoadPage(TRUE))
  \/ \E r \in Rooms, u \in Urls : HostMoves(r, u)
  \/ \E u \in Urls : UserNavigates(u)

Spec == Init /\ [][Next]_vars

(* Timers tick, requests and messages get through, pages load. *)
Fairness ==
  /\ WF_vars(AskServer) /\ WF_vars(LastRoomExpires)
  /\ WF_vars(\E t \in tasks : MemberTask(t)) /\ WF_vars(\E u \in Urls : Watch(u))
  /\ WF_vars(SaveTab) /\ WF_vars(SetTabStorageSuccess)
  /\ WF_vars(SyncStorageValue)
  /\ WF_vars(LoadPage(FALSE))
FairSpec == Spec /\ Fairness

TypeOK ==
  /\ roomUrl \in [Rooms -> Urls] /\ page \in Urls /\ nav \in Urls \cup {None}
  /\ tab \in States \cup {None} /\ storage \in States \cup {None}
  /\ session \in [Origins -> Rooms \cup {None}]
  /\ role \in {"Null", "Master", "Member"} /\ (role = "Null") = (room = None)
  /\ room \in Rooms \cup {None} /\ lastRoom \in Rooms \cup {None}
  /\ url \in Urls \cup {None} /\ callback \in Urls \cup {None}
  /\ tasks \subseteq Answers /\ watched \subseteq Urls
  /\ saves \in Seq(States \cup {None}) /\ acks \in Nat
  /\ synced \in BOOLEAN /\ raced \in BOOLEAN /\ hasty \in BOOLEAN
  /\ events \in Nat /\ chosen \in UserChoices

(* A page believes to be where its host is, and is not, only if the host or *)
(* the user moved, or the user chose, while a redirect was under way: the   *)
(* jump goes to one address, the state saved meanwhile names another.       *)
StrandedOnlyByRace ==
  role = "Member" /\ synced /\ nav = None /\ url = roomUrl[room] /\ page # url
    => raced \/ hasty

(* A page is in no other room and in no other role than its user chose      *)
(* last: leaving is not undone by what tab and session storage recover.     *)
(* Unless the user chose during a redirect, on a page that had not heard of *)
(* its tab's state yet, or when another origin still names him a host.      *)
ChoiceIsKept == role # "Null" => chosen = [room |-> room, role |-> role] \/ hasty

(* Only a member's page is moved: no host and nobody who left jumps because *)
(* of a save acknowledged late, with the same exceptions.                   *)
OnlyMembersJump ==
  [][SetTabStorageSuccess /\ callback # None => role = "Member" \/ hasty]_vars

(* A member whose host is elsewhere gets there, whatever the user's tab     *)
(* navigates to, unless a race left it stranded.                            *)
MembersFollow ==
  (role = "Member" /\ page # roomUrl[room])
    ~> (role # "Member" \/ page = roomUrl[room] \/ raced \/ hasty)

=============================================================================
