-------------------------- MODULE PageFollowProofs --------------------------
(***************************************************************************)
(* What holds of PageFollow for any rooms, pages, origins and bounds.      *)
(***************************************************************************)
EXTENDS PageFollow, TLAPS

Saved == States \cup {None}

LEMMA SavedState ==
  ASSUME TypeOK, NEW link \in Urls \cup {None}
  PROVE  GetRoomState(link) \in Saved
  BY DEF TypeOK, GetRoomState, Saved, States

LEMMA SavesStaySaves ==
  ASSUME TypeOK, NEW s \in Saved
  PROVE  Append(saves, s) \in Seq(Saved)
  BY DEF TypeOK, Saved

LEMMA ChoiceType ==
  ASSUME TypeOK, NEW c \in UserChoices, Choose(c)
  PROVE  chosen' \in UserChoices /\ hasty' \in BOOLEAN /\ raced' \in BOOLEAN
<1>1. hasty' \in BOOLEAN
  BY Zenon DEF Choose
<1> QED
  BY <1>1 DEF Choose, TypeOK

LEMMA TypeStep == TypeOK /\ [Next]_vars => TypeOK'
<1> SUFFICES ASSUME TypeOK, [Next]_vars
             PROVE  TypeOK'
  OBVIOUS
<1> USE DEF vars, doc, history
<1>1. ASSUME NEW r \in Rooms, JoinRoom(r)
      PROVE  TypeOK'
  <2>1. [room |-> r, role |-> "Member"] \in UserChoices
    BY DEF UserChoices
  <2>2. chosen' \in UserChoices /\ hasty' \in BOOLEAN /\ raced' \in BOOLEAN
    BY <1>1, <2>1, ChoiceType DEF JoinRoom
  <2> QED
    BY <1>1, <2>2, NoneAssumption DEF JoinRoom, Event, TypeOK
<1>2. ASSUME NEW r \in Rooms, CreateRoom(r)
      PROVE  TypeOK'
  <2>1. [room |-> r, role |-> "Master"] \in UserChoices
    BY DEF UserChoices
  <2>2. chosen' \in UserChoices /\ hasty' \in BOOLEAN /\ raced' \in BOOLEAN
    BY <1>2, <2>1, ChoiceType DEF CreateRoom
  <2> QED
    BY <1>2, <2>2, NoneAssumption DEF CreateRoom, Event, TypeOK
<1>3. ASSUME exitRoom
      PROVE  TypeOK'
  <2>1. chosen' \in UserChoices /\ hasty' \in BOOLEAN /\ raced' \in BOOLEAN
    BY <1>3, ChoiceType DEF exitRoom, UserChoices
  <2>2. saves' \in Seq(Saved)
    BY <1>3, SavesStaySaves DEF exitRoom, SetTabStorage, Saved
  <2>3. session' \in [Origins -> Rooms \cup {None}]
    BY <1>3 DEF exitRoom, SaveStateToSessionStorage, TypeOK
  <2> QED
    BY <1>3, <2>1, <2>2, <2>3 DEF exitRoom, Event, TypeOK, Saved
<1>4. ASSUME MasterTask
      PROVE  TypeOK'
  <2>1. saves' \in Seq(Saved)
    BY <1>4, SavesStaySaves, SavedState DEF MasterTask, SetTabStorage
  <2>2. session' \in [Origins -> Rooms \cup {None}] /\ roomUrl' \in [Rooms -> Urls]
    BY <1>4 DEF MasterTask, SaveStateToSessionStorage, TypeOK
  <2> QED
    BY <1>4, <2>1, <2>2 DEF MasterTask, TypeOK, Saved
<1>5. ASSUME AskServer \/ AskLastRoom
      PROVE  TypeOK'
  <2>1. PICK r \in Rooms : Ask(r) /\ lastRoom' \in Rooms
    BY <1>5 DEF AskServer, AskLastRoom, Ask, TypeOK
  <2>2. tasks' \subseteq Answers
    BY <2>1 DEF Ask, Answers, TypeOK
  <2> QED
    BY <1>5, <2>1, <2>2 DEF AskServer, AskLastRoom, TypeOK
<1>6. ASSUME LastRoomExpires
      PROVE  TypeOK'
  BY <1>6 DEF LastRoomExpires, TypeOK
<1>7. ASSUME NEW t \in tasks, MemberTask(t)
      PROVE  TypeOK'
  <2>1. t.url \in Urls
    BY DEF TypeOK, Answers
  <2>2. saves' \in Seq(Saved)
    BY <1>7, <2>1, SavesStaySaves, SavedState DEF MemberTask, SetTabStorage
  <2>3. watched' \subseteq Urls /\ tasks' \subseteq Answers
    BY <1>7, <2>1 DEF MemberTask, TypeOK
  <2>4. raced' \in BOOLEAN
    <3>1. raced \in BOOLEAN
      BY DEF TypeOK
    <3> QED
      BY <1>7, <3>1, Zenon DEF MemberTask
  <2> QED
    BY <1>7, <2>2, <2>3, <2>4 DEF MemberTask, TypeOK, Saved
<1>8. ASSUME NEW u \in Urls, Watch(u)
      PROVE  TypeOK'
  BY <1>8 DEF Watch, TypeOK
<1>9. ASSUME SaveTab
      PROVE  TypeOK'
  <2>1. Head(saves) \in Saved /\ Tail(saves) \in Seq(Saved)
    BY <1>9 DEF SaveTab, TypeOK, Saved
  <2> QED
    BY <1>9, <2>1 DEF SaveTab, TypeOK, Saved
<1>10. ASSUME SetTabStorageSuccess
       PROVE  TypeOK'
  BY <1>10 DEF SetTabStorageSuccess, JumpToNewPage, TypeOK
<1>11. ASSUME SyncStorageValue
       PROVE  TypeOK'
  <2>1. tab # None => /\ tab.role \in {"Master", "Member"} /\ tab.room \in Rooms
                      /\ tab.url \in Urls \cup {None}
    BY DEF TypeOK, States
  <2> QED
    BY <1>11, <2>1, NoneAssumption DEF SyncStorageValue, RecoveryState, TypeOK
<1>12. ASSUME NEW n \in 0 .. Len(saves), NEW expired \in BOOLEAN, Load(n, expired)
       PROVE  TypeOK'
  <2>1. tab' \in Saved
    BY <1>12 DEF Load, TypeOK, Saved
  <2>2. session' \in [Origins -> Rooms \cup {None}]
    BY <1>12 DEF Load, TypeOK
  <2>3. Origin[nav] \in Origins
    BY <1>12 DEF Load, TypeOK, Origins
  <2>4. room' \in Rooms \cup {None}
    BY <1>12, <2>2, <2>3 DEF Load
  <2>5. chosen' \in UserChoices
    BY <1>12 DEF Load, TypeOK, UserChoices
  <2>6. hasty' \in BOOLEAN
    BY <1>12, Zenon DEF Load
  <2>7. /\ role' = IF room' # None THEN "Master" ELSE "Null"
        /\ page' = nav /\ nav # None /\ nav' = None
        /\ url' = None /\ tasks' = {} /\ lastRoom' = None
        /\ saves' = <<>> /\ acks' = 0
        /\ synced' = FALSE /\ storage' = None /\ watched' = {} /\ callback' = None
        /\ UNCHANGED <<roomUrl, events, raced>>
    BY <1>12 DEF Load
  <2>8. page' \in Urls
    BY <2>7 DEF TypeOK
  <2>9. role' \in {"Null", "Master", "Member"} /\ (role' = "Null") = (room' = None)
    BY <2>7
  <2>10. <<>> \in Seq(Saved)
    OBVIOUS
  <2>11. roomUrl' \in [Rooms -> Urls] /\ events' \in Nat /\ raced' \in BOOLEAN
    BY <2>7 DEF TypeOK
  <2> QED
    BY <2>1, <2>2, <2>4, <2>5, <2>6, <2>7, <2>8, <2>9, <2>10, <2>11 DEF TypeOK, Saved
<1>13. ASSUME NEW r \in Rooms, NEW u \in Urls, HostMoves(r, u)
       PROVE  TypeOK'
  <2>1. raced' \in BOOLEAN
    BY <1>13, Zenon DEF HostMoves
  <2> QED
    BY <1>13, <2>1 DEF HostMoves, Event, TypeOK
<1>14. ASSUME NEW u \in Urls, UserNavigates(u)
       PROVE  TypeOK'
  <2>1. raced' \in BOOLEAN
    BY <1>14, Zenon DEF UserNavigates
  <2> QED
    BY <1>14, <2>1 DEF UserNavigates, Event, TypeOK
<1>15. CASE UNCHANGED vars
  BY <1>15 DEF TypeOK
<1> QED
  BY <1>1, <1>2, <1>3, <1>4, <1>5, <1>6, <1>7, <1>8, <1>9, <1>10, <1>11, <1>12, <1>13,
     <1>14, <1>15 DEF Next, LoadPage

(* Every variable keeps its type. *)
THEOREM TypeCorrect == Spec => []TypeOK
<1>1. Init => TypeOK
  <2>1. Home \in [Rooms -> Urls] /\ Start \subseteq Urls
    BY PlacesAssumption
  <2>2. <<>> \in Seq(Saved)
    OBVIOUS
  <2> SUFFICES ASSUME Init
               PROVE  TypeOK
    OBVIOUS
  <2>3. (role = "Null") = (room = None) /\ role = "Null"
    BY DEF Init
  <2>4. roomUrl \in [Rooms -> Urls] /\ page \in Urls
    BY <2>1 DEF Init
  <2>5. session \in [Origins -> Rooms \cup {None}]
    BY DEF Init
  <2> QED
    BY <2>2, <2>3, <2>4, <2>5 DEF Init, TypeOK, UserChoices, Saved
<1> QED
  BY <1>1, TypeStep, PTL DEF Spec

-----------------------------------------------------------------------------
(* Links are a member's: a state saved with an address was saved by a       *)
(* member, and a page around which such a state, or an answer that may      *)
(* become one, is still on its way is a member's page.                      *)
MembersLinks ==
  /\ \A s \in {tab, storage} : HasLink(s) => s.role = "Member"
  /\ \A i \in 1 .. Len(saves) : HasLink(saves[i]) => saves[i].role = "Member"

Following ==
  \/ tasks # {} \/ callback # None \/ HasLink(tab) \/ HasLink(storage)
  \/ \E i \in 1 .. Len(saves) : HasLink(saves[i])

(* A page that has heard nothing yet has nothing under way. *)
Fresh == /\ storage = None /\ callback = None
         /\ tasks = {} /\ watched = {} /\ saves = <<>>

Links ==
  /\ MembersLinks
  /\ synced /\ Following => role = "Member"
  /\ ~synced => Fresh

LinkInv == ~hasty => Links

LEMMA NoLink == ~HasLink(None) /\ ~HasLink(GetRoomState(None))
  BY DEF HasLink, GetRoomState

LEMMA FollowingIsRedirecting == Following => Redirecting
  BY DEF Following, Redirecting

(* What a page appends to the saves under way. *)
LEMMA AppendedSave ==
  ASSUME TypeOK, NEW s \in Saved, saves' = Append(saves, s)
  PROVE  /\ Len(saves') = Len(saves) + 1
         /\ \A i \in 1 .. Len(saves) : saves'[i] = saves[i]
         /\ saves'[Len(saves) + 1] = s
  BY DEF TypeOK, Saved

LEMMA TakenSave ==
  ASSUME TypeOK, SaveTab
  PROVE  /\ Len(saves') = Len(saves) - 1 /\ Len(saves) \in Nat \ {0}
         /\ \A i \in 1 .. Len(saves') : saves'[i] = saves[i + 1]
         /\ tab' = saves[1]
  BY DEF TypeOK, SaveTab

LEMMA LinkStep == TypeOK /\ LinkInv /\ [Next]_vars => LinkInv'
<1> SUFFICES ASSUME TypeOK, LinkInv, [Next]_vars, ~hasty'
             PROVE  Links'
  BY DEF LinkInv
<1> USE DEF doc, history
<1>h. ~hasty
  BY DEF Next, vars, JoinRoom, CreateRoom, exitRoom, Choose, MasterTask, AskServer, AskLastRoom,
         LastRoomExpires, MemberTask, Watch, SaveTab, SetTabStorageSuccess, SyncStorageValue,
         LoadPage, Load, HostMoves, UserNavigates
<1>i. Links
  BY <1>h DEF LinkInv
<1> USE DEF Links
(* A choice, while nothing is under way. *)
<1>1. ASSUME NEW c, Choose(c),
             UNCHANGED <<tab, tasks, synced, storage, watched, callback>>,
             saves' = saves \/ saves' = Append(saves, None)
      PROVE  Links'
  <2>1. ~Following /\ synced
    BY <1>1, FollowingIsRedirecting DEF Choose
  <2>2. \A i \in 1 .. Len(saves') : ~HasLink(saves'[i])
    <3>1. CASE saves' = saves
      BY <2>1, <3>1 DEF Following
    <3>2. CASE saves' = Append(saves, None)
      BY <2>1, <3>2, AppendedSave, NoLink DEF Following, Saved, TypeOK
    <3> QED
      BY <1>1, <3>1, <3>2
  <2> QED
    BY <1>1, <2>1, <2>2 DEF Following, MembersLinks, HasLink
(* Steps that make no link and take nobody's role. *)
<1>2. ASSUME UNCHANGED <<tab, tasks, synced, storage, watched, role>>,
             saves' = saves \/ (synced /\ saves' = Append(saves, GetRoomState(None))),
             callback' \in {callback, None}
      PROVE  Links'
  <2>1. \A i \in 1 .. Len(saves') :
          HasLink(saves'[i]) => i \in 1 .. Len(saves) /\ saves'[i] = saves[i]
    <3>1. GetRoomState(None) \in Saved
      BY SavedState
    <3> QED
      BY <1>2, <3>1, AppendedSave, NoLink DEF TypeOK
  <2> QED
    BY <1>2, <1>i, <2>1 DEF MembersLinks, Following, Fresh, HasLink
<1>3. ASSUME NEW t \in tasks, MemberTask(t)
      PROVE  Links'
  <2>1. role = "Member" /\ synced
    BY <1>i DEF Following, Fresh
  <2>2. PICK link \in Urls \cup {None} : saves' = Append(saves, GetRoomState(link))
    BY <1>3 DEF MemberTask, SetTabStorage, TypeOK, Answers
  <2>3. GetRoomState(link).role = "Member" /\ GetRoomState(link) \in Saved
    BY <2>1, SavedState DEF GetRoomState
  <2>4. \A i \in 1 .. Len(saves') : HasLink(saves'[i]) => saves'[i].role = "Member"
    BY <1>i, <2>2, <2>3, AppendedSave DEF MembersLinks, TypeOK
  <2>5. UNCHANGED <<tab, storage, role, synced>>
    BY <1>3 DEF MemberTask
  <2> QED
    BY <1>i, <2>1, <2>4, <2>5 DEF MembersLinks
<1>4. ASSUME NEW u \in Urls, Watch(u)
      PROVE  Links'
  <2>1. synced /\ HasLink(storage)
    BY <1>4, <1>i, NoneAssumption DEF Watch, Fresh, HasLink
  <2> QED
    BY <1>4, <1>i, <2>1 DEF Watch, MembersLinks, Following
<1>5. ASSUME SaveTab
      PROVE  Links'
  <2>1. synced
    BY <1>5, <1>i DEF SaveTab, Fresh
  <2>2. UNCHANGED <<storage, tasks, callback, role, synced>>
    BY <1>5 DEF SaveTab
  <2>3. Following' => Following
    BY <1>5, <2>2, TakenSave DEF Following, TypeOK
  <2> QED
    BY <1>5, <1>i, <2>1, <2>2, <2>3, TakenSave DEF MembersLinks, TypeOK
<1>6. ASSUME SyncStorageValue
      PROVE  Links'
  <2>1. storage' = tab /\ synced' /\ UNCHANGED <<tab, tasks, callback, saves>>
    BY <1>6 DEF SyncStorageValue
  <2>2. MembersLinks'
    BY <1>i, <2>1 DEF MembersLinks
  <2>3. Following' => Following
    BY <2>1 DEF Following
  <2>4. ASSUME synced, Following PROVE role' = "Member"
    BY <1>6, <1>i, <2>4 DEF SyncStorageValue, RecoveryState
  <2>5. ASSUME ~synced, Following PROVE role' = "Member"
    <3>1. HasLink(tab)
      BY <1>i, <2>5 DEF Fresh, Following, HasLink
    <3> QED
      BY <1>6, <1>i, <2>5, <3>1 DEF SyncStorageValue, RecoveryState, MembersLinks, HasLink
  <2> QED
    BY <2>1, <2>2, <2>3, <2>4, <2>5
<1>7. ASSUME NEW n \in 0 .. Len(saves), NEW expired \in BOOLEAN, Load(n, expired)
      PROVE  Links'
  <2>1. ~synced' /\ Fresh'
    BY <1>7 DEF Load, Fresh
  <2>2. HasLink(tab') => tab'.role = "Member"
    BY <1>7, <1>i DEF Load, MembersLinks, HasLink, TypeOK
  <2> QED
    BY <2>1, <2>2 DEF MembersLinks, Fresh, HasLink
<1>8. ASSUME AskServer \/ AskLastRoom
      PROVE  Links'
  <2>1. role = "Member" /\ synced /\ UNCHANGED <<role, synced, tab, storage, saves>>
    BY <1>8 DEF AskServer, AskLastRoom, Ask
  <2> QED
    BY <1>i, <2>1 DEF MembersLinks
<1>9. ASSUME \E r \in Rooms : JoinRoom(r) \/ CreateRoom(r)
      PROVE  Links'
  BY <1>1, <1>9 DEF JoinRoom, CreateRoom
<1>10. ASSUME exitRoom
       PROVE  Links'
  BY <1>1, <1>10 DEF exitRoom, SetTabStorage
<1>11. ASSUME \/ MasterTask \/ LastRoomExpires \/ SetTabStorageSuccess
              \/ \E r \in Rooms, u \in Urls : HostMoves(r, u)
              \/ \E u \in Urls : UserNavigates(u)
              \/ UNCHANGED vars
       PROVE  Links'
  BY <1>2, <1>11 DEF MasterTask, SetTabStorage, LastRoomExpires, SetTabStorageSuccess,
                     HostMoves, UserNavigates, vars
<1> QED
  BY <1>3, <1>4, <1>5, <1>6, <1>7, <1>8, <1>9, <1>10, <1>11 DEF Next, LoadPage

(* Nobody who is not a member is carried off by a save that is acknowledged *)
(* late, for any number of rooms, pages and messages under way.             *)
THEOREM MembersJump == Spec => OnlyMembersJump
<1>1. Init => LinkInv
  BY DEF Init, LinkInv, Links, MembersLinks, Following, Fresh, HasLink
<1>2. LinkInv /\ [Next]_vars
        => [SetTabStorageSuccess /\ callback # None => role = "Member" \/ hasty]_vars
  BY DEF LinkInv, Links, Following, Fresh
<1> QED
  BY <1>1, <1>2, LinkStep, TypeCorrect, PTL DEF Spec, OnlyMembersJump

-----------------------------------------------------------------------------
(* What is saved is what the user chose last, or will be overwritten by a   *)
(* state without a room; a page without a room is about to be left with     *)
(* nothing to recover.                                                      *)
IsChoice(s) == chosen = [room |-> s.room, role |-> s.role]
Current(s) == s # None => IsChoice(s) /\ (synced => role # "Null")

Choices ==
  /\ Current(tab) \/ \E i \in 1 .. Len(saves) : saves[i] = None
  /\ \A i \in 1 .. Len(saves) :
       Current(saves[i]) \/ \E j \in i + 1 .. Len(saves) : saves[j] = None
  /\ \A o \in Origins :
       session[o] # None => chosen = [room |-> session[o], role |-> "Master"]
  /\ role = "Null" => session[Origin[page]] = None
  /\ role # "Null" => chosen = [room |-> room, role |-> role]

ChoiceInv == ~hasty => Choices

LEMMA OriginsOfUrls == \A u \in Urls : Origin[u] \in Origins
  BY DEF Origins

LEMMA ChoiceStep == TypeOK /\ LinkInv /\ ChoiceInv /\ [Next]_vars => ChoiceInv'
<1> SUFFICES ASSUME TypeOK, LinkInv, ChoiceInv, [Next]_vars, ~hasty'
             PROVE  Choices'
  BY DEF ChoiceInv
<1> USE DEF doc, history
<1>h. ~hasty
  BY DEF Next, vars, JoinRoom, CreateRoom, exitRoom, Choose, MasterTask, AskServer, AskLastRoom,
         LastRoomExpires, MemberTask, Watch, SaveTab, SetTabStorageSuccess, SyncStorageValue,
         LoadPage, Load, HostMoves, UserNavigates
<1>i. Choices /\ Links
  BY <1>h DEF LinkInv, ChoiceInv
<1>n. None \in Saved /\ GetRoomState(None) \in Saved
  BY SavedState DEF Saved
(* Steps that append what the page is, or nothing. *)
<1>1. ASSUME NEW s \in Saved, saves' = Append(saves, s), s = None \/ (IsChoice(s) /\ role # "Null"),
             UNCHANGED <<tab, synced, role, chosen>>
      PROVE  /\ (Current(tab) \/ \E i \in 1 .. Len(saves) : saves[i] = None)'
             /\ (\A i \in 1 .. Len(saves) :
                   Current(saves[i]) \/ \E j \in i + 1 .. Len(saves) : saves[j] = None)'
  <2>1. Len(saves) \in Nat
    BY DEF TypeOK
  <2>2. /\ Len(saves') = Len(saves) + 1 /\ saves'[Len(saves) + 1] = s
        /\ \A i \in 1 .. Len(saves) : saves'[i] = saves[i]
    BY <1>1, AppendedSave
  <2>3. Current(s)'
    BY <1>1 DEF Current, IsChoice
  <2>4. \A r : Current(r) => Current(r)'
    BY <1>1 DEF Current, IsChoice
  <2>5. (Current(tab) \/ \E i \in 1 .. Len(saves) : saves[i] = None)'
    BY <1>1, <1>i, <2>1, <2>2, <2>4 DEF Choices
  <2>6. ASSUME NEW i \in 1 .. Len(saves')
        PROVE  (Current(saves[i]) \/ \E j \in i + 1 .. Len(saves) : saves[j] = None)'
    <3>1. CASE i = Len(saves) + 1
      BY <2>2, <2>3, <3>1 DEF Current, IsChoice
    <3>2. CASE i \in 1 .. Len(saves)
      <4>1. saves'[i] = saves[i]
        BY <2>2, <3>2
      <4>2. CASE Current(saves[i])
        BY <2>4, <4>1, <4>2 DEF Current, IsChoice
      <4>3. CASE \E j \in i + 1 .. Len(saves) : saves[j] = None
        BY <2>1, <2>2, <3>2, <4>3
      <4> QED
        BY <1>i, <3>2, <4>2, <4>3 DEF Choices
    <3> QED
      BY <2>1, <2>2, <3>1, <3>2
  <2> QED
    BY <2>5, <2>6
(* Steps that leave all this alone. *)
<1>2. ASSUME UNCHANGED <<tab, saves, synced, role, room, chosen, session>>,
             page' \in Urls, Origin[page'] = Origin[page]
      PROVE  Choices'
  BY <1>2, <1>i DEF Choices, Current, IsChoice
<1>3. ASSUME NEW r \in Rooms, JoinRoom(r) \/ CreateRoom(r)
      PROVE  Choices'
  <2>1. PICK c \in {"Member", "Master"} :
          /\ Choose([room |-> r, role |-> c]) /\ role = "Null" /\ role' = c /\ room' = r
          /\ UNCHANGED <<tab, saves, session, page, synced>>
    BY <1>3 DEF JoinRoom, CreateRoom
  <2>2. synced /\ \A o \in Origins : session[o] = None
    BY <2>1, <1>i DEF Choose, Choices
  <2>3. \A s : Current(s) => s = None
    BY <2>1, <2>2 DEF Current
  <2>4. \A s : s = None => Current(s)'
    BY DEF Current
  <2>5. /\ (Current(tab) \/ \E i \in 1 .. Len(saves) : saves[i] = None)'
        /\ (\A i \in 1 .. Len(saves) :
              Current(saves[i]) \/ \E j \in i + 1 .. Len(saves) : saves[j] = None)'
    BY <2>1, <1>i, <2>3, <2>4 DEF Choices
  <2> QED
    BY <2>1, <1>i, <2>2, <2>5 DEF Choices, Choose
<1>4. ASSUME exitRoom
      PROVE  Choices'
  <2>1. /\ saves' = Append(saves, None) /\ Choose(None) /\ role' = "Null"
        /\ session' = [session EXCEPT ![Origin[page]] = None]
        /\ UNCHANGED <<tab, page, synced>>
    BY <1>4 DEF exitRoom, SetTabStorage, SaveStateToSessionStorage
  <2>2. \A o \in Origins : session'[o] = None
    BY <2>1, <1>h DEF Choose, TypeOK
  <2>3. /\ Len(saves') = Len(saves) + 1 /\ saves'[Len(saves) + 1] = None /\ Len(saves) \in Nat
    BY <2>1, <1>n, AppendedSave DEF TypeOK
  <2>4. \A s : s = None => Current(s)'
    BY DEF Current
  <2>5. Origin[page] \in Origins
    BY OriginsOfUrls DEF TypeOK
  <2> QED
    BY <2>1, <2>2, <2>3, <2>4, <2>5 DEF Choices
<1>5. ASSUME MasterTask
      PROVE  Choices'
  <2>1. /\ role = "Master" /\ saves' = Append(saves, GetRoomState(None))
        /\ session' = [session EXCEPT ![Origin[page]] = room]
        /\ UNCHANGED <<tab, page, synced, role, room, chosen>>
    BY <1>5 DEF MasterTask, SetTabStorage, SaveStateToSessionStorage
  <2>2. chosen = [room |-> room, role |-> "Master"]
    BY <2>1, <1>i DEF Choices
  <2>3. IsChoice(GetRoomState(None))
    BY <2>1, <2>2 DEF IsChoice, GetRoomState
  <2>4. \A o \in Origins :
          session'[o] # None => chosen = [room |-> session'[o], role |-> "Master"]
    BY <2>1, <2>2, <1>i DEF Choices, TypeOK
  <2> QED
    BY <1>1, <1>n, <1>i, <2>1, <2>3, <2>4 DEF Choices
<1>6. ASSUME NEW t \in tasks, MemberTask(t)
      PROVE  Choices'
  <2>1. PICK link \in Urls \cup {None} : saves' = Append(saves, GetRoomState(link))
    BY <1>6 DEF MemberTask, SetTabStorage, TypeOK, Answers
  <2>2. UNCHANGED <<tab, page, synced, role, room, chosen, session>>
    BY <1>6 DEF MemberTask
  <2>3. GetRoomState(link) \in Saved
    BY SavedState
  <2>4. GetRoomState(link) = None \/ (IsChoice(GetRoomState(link)) /\ role # "Null")
    BY <1>i DEF Choices, IsChoice, GetRoomState
  <2>5. /\ (Current(tab) \/ \E i \in 1 .. Len(saves) : saves[i] = None)'
        /\ (\A i \in 1 .. Len(saves) :
              Current(saves[i]) \/ \E j \in i + 1 .. Len(saves) : saves[j] = None)'
    <3> DEFINE s == GetRoomState(link)
    <3>1. s \in Saved /\ saves' = Append(saves, s) /\ (s = None \/ (IsChoice(s) /\ role # "Null"))
      BY <2>1, <2>3, <2>4
    <3> HIDE DEF s
    <3> QED
      BY <1>1, <2>2, <3>1
  <2> QED
    BY <1>i, <2>2, <2>5 DEF Choices
<1>7. ASSUME SaveTab
      PROVE  Choices'
  <2>1. /\ Len(saves') = Len(saves) - 1 /\ Len(saves) \in Nat \ {0} /\ tab' = saves[1]
        /\ \A i \in 1 .. Len(saves') : saves'[i] = saves[i + 1]
    BY <1>7, TakenSave
  <2>2. UNCHANGED <<page, synced, role, room, chosen, session>>
    BY <1>7 DEF SaveTab
  <2>3. \A s : Current(s) => Current(s)'
    BY <2>2 DEF Current, IsChoice
  <2>4. \A i \in 1 .. Len(saves) :
          (\E j \in i + 1 .. Len(saves) : saves[j] = None)
            => \E j \in i .. Len(saves') : saves'[j] = None
    <3> SUFFICES ASSUME NEW i \in 1 .. Len(saves), NEW j \in i + 1 .. Len(saves),
                        saves[j] = None
                 PROVE  \E k \in i .. Len(saves') : saves'[k] = None
      OBVIOUS
    <3>1. j - 1 \in i .. Len(saves') /\ j - 1 \in 1 .. Len(saves') /\ (j - 1) + 1 = j
      BY <2>1
    <3> QED
      BY <2>1, <3>1
  <2>5. Current(saves[1]) \/ \E j \in 2 .. Len(saves) : saves[j] = None
    BY <2>1, <1>i DEF Choices
  <2>6. (Current(tab) \/ \E i \in 1 .. Len(saves) : saves[i] = None)'
    <3>1. CASE Current(saves[1])
      BY <2>1, <2>3, <3>1 DEF Current, IsChoice
    <3>2. CASE \E j \in 2 .. Len(saves) : saves[j] = None
      <4>1. 1 \in 1 .. Len(saves) /\ 2 = 1 + 1
        BY <2>1
      <4>2. \E j \in 1 .. Len(saves') : saves'[j] = None
        BY <2>4, <3>2, <4>1
      <4> QED
        BY <4>2
    <3> QED
      BY <2>5, <3>1, <3>2
  <2>7. ASSUME NEW i \in 1 .. Len(saves')
        PROVE  (Current(saves[i]) \/ \E j \in i + 1 .. Len(saves) : saves[j] = None)'
    <3>1. i + 1 \in 1 .. Len(saves) /\ saves'[i] = saves[i + 1]
      BY <2>1
    <3>2. Current(saves[i + 1]) \/ \E j \in (i + 1) + 1 .. Len(saves) : saves[j] = None
      BY <1>i, <3>1 DEF Choices
    <3> QED
      BY <2>3, <2>4, <3>1, <3>2 DEF Current, IsChoice
  <2> QED
    BY <1>i, <2>2, <2>6, <2>7 DEF Choices
<1>8. ASSUME SyncStorageValue
      PROVE  Choices'
  <2>1. UNCHANGED <<tab, saves, session, page, chosen>> /\ synced'
    BY <1>8 DEF SyncStorageValue
  <2>2. CASE synced
    BY <1>8, <1>2, <2>1, <2>2 DEF SyncStorageValue, RecoveryState, TypeOK
  <2>3. CASE ~synced
    <3>1. saves = <<>> /\ Current(tab)
      BY <1>i, <2>3 DEF Links, Fresh, Choices
    <3>2. CASE tab = None
      BY <1>8, <1>i, <2>1, <3>1, <3>2 DEF SyncStorageValue, RecoveryState, Choices, Current
    <3>3. CASE tab # None
      <4>1. role' = tab.role /\ room' = tab.room /\ role' # "Null"
        BY <1>8, <2>3, <3>3 DEF SyncStorageValue, RecoveryState, TypeOK, States
      <4>2. chosen' = [room |-> room', role |-> role']
        BY <2>1, <3>1, <3>3, <4>1 DEF Current, IsChoice
      <4>3. Current(tab)'
        BY <2>1, <3>1, <4>1 DEF Current, IsChoice
      <4> QED
        BY <1>i, <2>1, <3>1, <4>1, <4>2, <4>3 DEF Choices
    <3> QED
      BY <3>2, <3>3
  <2> QED
    BY <2>2, <2>3
<1>9. ASSUME NEW n \in 0 .. Len(saves), NEW expired \in BOOLEAN, Load(n, expired)
      PROVE  Choices'
  <2>1. /\ saves' = <<>> /\ ~synced' /\ page' = nav /\ nav \in Urls
        /\ room' = session'[Origin[nav]]
        /\ role' = IF room' # None THEN "Master" ELSE "Null"
    BY <1>9 DEF Load, TypeOK
  <2>2. \A i \in n + 1 .. Len(saves) : saves[i] # None
    BY <1>9 DEF Load
  <2>3. Origin[nav] \in Origins
    BY <2>1, OriginsOfUrls
  <2>4. CASE expired
    <3>1. tab' = None /\ session' = [o \in Origins |-> None]
      BY <1>9, <2>4 DEF Load
    <3> QED
      BY <2>1, <2>3, <3>1 DEF Choices, Current
  <2>5. CASE ~expired
    <3>1. tab' = (IF n = 0 THEN tab ELSE saves[n]) /\ UNCHANGED <<session, chosen>>
      BY <1>9, <2>5 DEF Load
    <3>2. CASE n = 0
      BY <1>i, <2>1, <2>2, <2>3, <3>1, <3>2 DEF Choices, Current, IsChoice
    <3>3. CASE n # 0
      <4>1. n \in 1 .. Len(saves) /\ tab' = saves[n]
        BY <3>1, <3>3
      <4>2. Current(saves[n])
        BY <1>i, <2>2, <4>1 DEF Choices
      <4>3. Current(tab)'
        BY <2>1, <3>1, <4>1, <4>2 DEF Current, IsChoice
      <4> QED
        BY <1>i, <2>1, <2>3, <3>1, <4>3 DEF Choices
    <3> QED
      BY <3>2, <3>3
  <2> QED
    BY <2>4, <2>5
<1>10. ASSUME SetTabStorageSuccess
       PROVE  Choices'
  <2>1. page' \in Urls /\ Origin[page'] = Origin[page]
    BY <1>10, PlacesAssumption DEF SetTabStorageSuccess, JumpToNewPage, TypeOK
  <2> QED
    BY <1>10, <1>2, <2>1 DEF SetTabStorageSuccess
<1>11. ASSUME \/ AskServer \/ AskLastRoom \/ LastRoomExpires
              \/ \E u \in Urls : Watch(u) \/ UserNavigates(u)
              \/ \E r \in Rooms, u \in Urls : HostMoves(r, u)
              \/ UNCHANGED vars
       PROVE  Choices'
  BY <1>2, <1>11 DEF AskServer, AskLastRoom, LastRoomExpires, Watch, UserNavigates, HostMoves,
                     vars, TypeOK
<1> QED
  BY <1>3, <1>4, <1>5, <1>6, <1>7, <1>8, <1>9, <1>10, <1>11 DEF Next, LoadPage

(* No page is in another room or role than its user chose last, but for the *)
(* exceptions of the property; for any number of rooms, pages, origins and  *)
(* messages under way.                                                      *)
THEOREM ChoiceKept == Spec => []ChoiceIsKept
<1>1. Init => LinkInv
  BY DEF Init, LinkInv, Links, MembersLinks, Following, Fresh, HasLink
<1>2. Init => ChoiceInv
  <2> SUFFICES ASSUME Init
               PROVE  Choices
    BY DEF ChoiceInv
  <2>1. Origin[page] \in Origins
    BY OriginsOfUrls, PlacesAssumption DEF Init
  <2> QED
    BY <2>1 DEF Init, Choices, Current
<1>3. ChoiceInv => ChoiceIsKept
  BY DEF ChoiceInv, Choices, ChoiceIsKept
<1> QED
  BY <1>1, <1>2, <1>3, LinkStep, ChoiceStep, TypeCorrect, PTL DEF Spec

-----------------------------------------------------------------------------
(* As long as nobody moves or chooses during a redirect, everything of it   *)
(* leads to one address, that of the host whose room was chosen; the tab    *)
(* goes nowhere else, and the page is where it believes to be.              *)
Target == roomUrl[chosen.room]
Leads(s) == HasLink(s) => s.url = Target

Together ==
  /\ url # None => page = url
  /\ \A t \in tasks : t.url = Target
  /\ callback # None => callback = Target
  /\ Leads(tab) /\ Leads(storage) /\ \A i \in 1 .. Len(saves) : Leads(saves[i])
  /\ HasLink(tab) \/ (\E i \in 1 .. Len(saves) : HasLink(saves[i])) => nav \in {None, Target}
  /\ ~synced /\ HasLink(tab) => page = tab.url

TogetherInv == ~hasty /\ ~raced => Together

LEMMA TogetherStep ==
  TypeOK /\ LinkInv /\ ChoiceInv /\ TogetherInv /\ [Next]_vars => TogetherInv'
<1> SUFFICES ASSUME TypeOK, LinkInv, ChoiceInv, TogetherInv, [Next]_vars, ~hasty', ~raced'
             PROVE  Together'
  BY DEF TogetherInv
<1> USE DEF doc, history
<1>r. ~raced
  BY DEF Next, vars, JoinRoom, CreateRoom, exitRoom, Choose, MasterTask, AskServer, AskLastRoom,
         LastRoomExpires, MemberTask, Watch, SaveTab, SetTabStorageSuccess, SyncStorageValue,
         LoadPage, Load, HostMoves, UserNavigates
<1>h. ~hasty
  BY DEF Next, vars, JoinRoom, CreateRoom, exitRoom, Choose, MasterTask, AskServer, AskLastRoom,
         LastRoomExpires, MemberTask, Watch, SaveTab, SetTabStorageSuccess, SyncStorageValue,
         LoadPage, Load, HostMoves, UserNavigates
<1>i. Choices /\ Links /\ Together
  BY <1>h, <1>r DEF LinkInv, ChoiceInv, TogetherInv
(* Where no redirect is under way, what the host and the user do next       *)
(* cannot disturb one.                                                      *)
<1>1. ASSUME ~Following, UNCHANGED <<page, url, tab, tasks, storage, callback>>,
             saves' = saves \/ saves' = Append(saves, None)
                            \/ saves' = Append(saves, GetRoomState(None))
      PROVE  Together'
  <2>1. None \in Saved /\ GetRoomState(None) \in Saved
    BY SavedState DEF Saved
  <2>2. \A i \in 1 .. Len(saves') : ~HasLink(saves'[i])
    <3>1. CASE saves' = saves
      BY <1>1, <3>1 DEF Following
    <3>2. CASE \E s \in {None, GetRoomState(None)} : saves' = Append(saves, s)
      BY <1>1, <2>1, <3>2, AppendedSave, NoLink DEF Following, TypeOK
    <3> QED
      BY <1>1, <3>1, <3>2
  <2> QED
    BY <1>i, <1>1, <2>2 DEF Together, Following, Leads, HasLink
<1>2. ASSUME NEW r \in Rooms, JoinRoom(r) \/ CreateRoom(r)
      PROVE  Together'
  <2>1. PICK c : Choose(c) /\ UNCHANGED <<page, url, tab, tasks, storage, callback, saves>>
    BY <1>2 DEF JoinRoom, CreateRoom
  <2> QED
    BY <1>1, <2>1, FollowingIsRedirecting DEF Choose
<1>3. ASSUME exitRoom
      PROVE  Together'
  BY <1>1, <1>3, FollowingIsRedirecting DEF exitRoom, Choose, SetTabStorage
<1>4. ASSUME MasterTask
      PROVE  Together'
  <2>1. ~Following
    BY <1>4, <1>i DEF MasterTask, Links
  <2> QED
    BY <1>1, <1>4, <2>1 DEF MasterTask, SetTabStorage
<1>5. ASSUME \/ \E r \in Rooms, u \in Urls : HostMoves(r, u)
             \/ \E u \in Urls : UserNavigates(u)
      PROVE  Together'
  BY <1>1, <1>5, FollowingIsRedirecting DEF HostMoves, UserNavigates
<1>6. ASSUME AskServer
      PROVE  Together'
  <2>1. chosen.room = room
    BY <1>6, <1>i DEF AskServer, Ask, Choices
  <2>2. /\ tasks' = tasks \cup {[room |-> room, url |-> roomUrl[room]]}
        /\ UNCHANGED <<roomUrl, chosen, page, url, tab, nav, storage, callback, saves, synced>>
    BY <1>6 DEF AskServer, Ask
  <2> QED
    BY <1>i, <2>1, <2>2 DEF Together, Target, Leads, HasLink
<1>7. ASSUME NEW t \in tasks, MemberTask(t)
      PROVE  Together'
  <2>1. PICK link \in {None, t.url} :
          /\ saves' = Append(saves, GetRoomState(link))
          /\ link # None => nav \in {None, link}
    BY <1>7 DEF MemberTask, SetTabStorage
  <2>2. /\ tasks' \subseteq tasks
        /\ UNCHANGED <<roomUrl, chosen, page, url, tab, nav, storage, callback, synced>>
    BY <1>7 DEF MemberTask
  <2>3. t.url = Target /\ t.url \in Urls
    BY <1>i DEF Together, TypeOK, Answers
  <2>4. GetRoomState(link) \in Saved
    BY <2>3, SavedState
  <2>5. HasLink(GetRoomState(link)) => GetRoomState(link).url = Target /\ link = Target
    BY <2>3 DEF HasLink, GetRoomState
  <2>6. \A i \in 1 .. Len(saves') :
          HasLink(saves'[i]) => saves'[i].url = Target /\ nav \in {None, Target}
    <3> SUFFICES ASSUME NEW i \in 1 .. Len(saves'), HasLink(saves'[i])
                 PROVE  saves'[i].url = Target /\ nav \in {None, Target}
      OBVIOUS
    <3>1. CASE i \in 1 .. Len(saves)
      BY <1>i, <2>1, <2>4, <3>1, AppendedSave DEF Together, Leads
    <3>2. CASE i = Len(saves) + 1
      <4>1. saves'[i] = GetRoomState(link)
        BY <2>1, <2>4, <3>2, AppendedSave
      <4> QED
        BY <2>1, <2>3, <2>5, <4>1, NoneAssumption
    <3> QED
      BY <2>1, <2>4, <3>1, <3>2, AppendedSave DEF TypeOK
  <2> QED
    BY <1>i, <2>2, <2>6 DEF Together, Target, Leads, HasLink
<1>8. ASSUME NEW u \in Urls, Watch(u)
      PROVE  Together'
  <2>1. HasLink(storage) /\ storage.url = u
    BY <1>8, NoneAssumption DEF Watch, HasLink
  <2> QED
    BY <1>8, <1>i, <2>1 DEF Watch, Together, Target, Leads, HasLink
<1>9. ASSUME SaveTab
      PROVE  Together'
  <2>1. synced
    BY <1>9, <1>i DEF SaveTab, Links, Fresh
  <2>2. UNCHANGED <<roomUrl, chosen, page, url, tasks, nav, storage, callback, synced>>
    BY <1>9 DEF SaveTab
  <2>3. Leads(tab') /\ \A i \in 1 .. Len(saves') : Leads(saves'[i])
    BY <1>9, <1>i, TakenSave DEF Together
  <2>4. HasLink(tab') \/ (\E i \in 1 .. Len(saves') : HasLink(saves'[i]))
          => \E i \in 1 .. Len(saves) : HasLink(saves[i])
    BY <1>9, TakenSave
  <2> QED
    BY <1>i, <2>1, <2>2, <2>3, <2>4 DEF Together, Target, Leads, HasLink
<1>10. ASSUME SetTabStorageSuccess
       PROVE  Together'
  <2>1. callback' = None /\ UNCHANGED <<roomUrl, chosen, tasks, tab, storage, saves, synced>>
    BY <1>10 DEF SetTabStorageSuccess
  <2>2. CASE callback = None
    BY <1>10, <1>i, <2>1, <2>2 DEF SetTabStorageSuccess, Together, Target, Leads, HasLink
  <2>3. CASE callback # None
    <3>1. synced /\ callback = Target
      BY <1>i, <2>3 DEF Links, Fresh, Together
    <3>2. /\ url' # None => page' = url'
          /\ nav' \in {None, Target}
      BY <1>10, <1>i, <2>3, <3>1 DEF SetTabStorageSuccess, JumpToNewPage, Together
    <3> QED
      BY <1>i, <2>1, <3>1, <3>2 DEF Together, Target, Leads, HasLink
  <2> QED
    BY <2>2, <2>3
<1>11. ASSUME SyncStorageValue
       PROVE  Together'
  <2>1. /\ storage' = tab /\ synced'
        /\ UNCHANGED <<roomUrl, chosen, page, nav, tasks, tab, saves, callback>>
    BY <1>11 DEF SyncStorageValue
  <2>2. url' # None => page' = url'
    BY <1>11, <1>i DEF SyncStorageValue, RecoveryState, Together, HasLink
  <2> QED
    BY <1>i, <2>1, <2>2 DEF Together, Target, Leads, HasLink
<1>12. ASSUME NEW n \in 0 .. Len(saves), NEW expired \in BOOLEAN, Load(n, expired)
       PROVE  Together'
  <2>1. /\ url' = None /\ tasks' = {} /\ callback' = None /\ storage' = None
        /\ saves' = <<>> /\ nav' = None /\ page' = nav /\ nav # None
        /\ UNCHANGED roomUrl
    BY <1>12 DEF Load
  <2>2. ASSUME HasLink(tab') PROVE tab'.url = Target /\ chosen' = chosen /\ nav = Target
    <3>1. /\ ~expired /\ chosen' = chosen
          /\ tab' = (IF n = 0 THEN tab ELSE saves[n])
      BY <1>12, <2>2 DEF Load, HasLink
    <3>2. CASE n = 0
      BY <1>i, <2>1, <2>2, <3>1, <3>2 DEF Together, Leads
    <3>3. CASE n # 0
      BY <1>i, <2>1, <2>2, <3>1, <3>3 DEF Together, Leads
    <3> QED
      BY <3>1, <3>2, <3>3
  <2> QED
    BY <2>1, <2>2 DEF Together, Target, Leads, HasLink
<1>13. ASSUME LastRoomExpires \/ UNCHANGED vars
       PROVE  Together'
  BY <1>13, <1>i DEF LastRoomExpires, vars, Together, Target, Leads, HasLink
<1>14. ~AskLastRoom
  BY DEF AskLastRoom
<1> QED
  BY <1>2, <1>3, <1>4, <1>5, <1>6, <1>7, <1>8, <1>9, <1>10, <1>11, <1>12, <1>13, <1>14
     DEF Next, LoadPage

(* A page that takes itself to be where its host is, is there, unless the   *)
(* host or the user moved, or the user chose, during a redirect: however    *)
(* saves, answers, timers and loads interleave (vt.js, SetTabStorage and    *)
(* RecoveryState).                                                          *)
THEOREM StrandedNeedsRace == Spec => []StrandedOnlyByRace
<1>1. Init => LinkInv /\ TogetherInv
  BY DEF Init, LinkInv, Links, MembersLinks, Following, Fresh, HasLink, TogetherInv, Together, Leads
<1>2. Init => ChoiceInv
  <2> SUFFICES ASSUME Init
               PROVE  Choices
    BY DEF ChoiceInv
  <2>1. Origin[page] \in Origins
    BY OriginsOfUrls, PlacesAssumption DEF Init
  <2> QED
    BY <2>1 DEF Init, Choices, Current
<1>3. TypeOK /\ TogetherInv => StrandedOnlyByRace
  <2> SUFFICES ASSUME TypeOK, TogetherInv, role = "Member", url = roomUrl[room], ~raced, ~hasty
               PROVE  page = url
    BY DEF StrandedOnlyByRace
  <2>1. url \in Urls
    BY NoneAssumption DEF TypeOK
  <2> QED
    BY <2>1, NoneAssumption DEF TogetherInv, Together
<1> QED
  BY <1>1, <1>2, <1>3, LinkStep, ChoiceStep, TogetherStep, TypeCorrect, PTL DEF Spec
=============================================================================
