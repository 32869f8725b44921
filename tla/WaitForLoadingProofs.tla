------------------------ MODULE WaitForLoadingProofs ------------------------
(* What WaitForLoading promises the host's user, for any number of members  *)
(* and any number of disturbances.                                          *)
EXTENDS WaitForLoading, TLAPS

(* The part of TypeOK that the argument needs. *)
HostTypes ==
  /\ video \in [paused : BOOLEAN, ready : BOOLEAN, atEnd : BOOLEAN]
  /\ playAfterLoadding \in BOOLEAN
  /\ wanted \in {"playing", "paused"}

Choice == HostTypes /\ WaitRespectsUser

(* What only reads the three variables keeps the invariant. *)
LEMMA Untouched ==
  ASSUME Choice, UNCHANGED <<video, playAfterLoadding, wanted>>
  PROVE  Choice'
  BY DEF Choice, HostTypes, WaitRespectsUser

(* Holding takes a playing video only; releasing gives back what it took. *)
LEMMA HoldKeepsChoice ==
  ASSUME Choice, Hold, UNCHANGED wanted
  PROVE  Choice'
<1>1. HostTypes'
  BY DEF Choice, HostTypes, Hold
<1>2. video'.paused = TRUE /\ playAfterLoadding' = (playAfterLoadding \/ ~video.paused)
  BY DEF Choice, HostTypes, Hold
<1>3. WaitRespectsUser'
  BY <1>2 DEF Choice, HostTypes, WaitRespectsUser
<1> QED
  BY <1>1, <1>3 DEF Choice

LEMMA ReleaseKeepsChoice ==
  ASSUME Choice, Release, UNCHANGED wanted
  PROVE  Choice'
<1>1. HostTypes'
  BY DEF Choice, HostTypes, Release
<1>2. video'.paused = (video.paused /\ ~playAfterLoadding) /\ playAfterLoadding' = FALSE
  BY DEF Choice, HostTypes, Release
<1>3. WaitRespectsUser'
  BY <1>2 DEF Choice, HostTypes, WaitRespectsUser
<1> QED
  BY <1>1, <1>3 DEF Choice

LEMMA ToggleKeepsChoice ==
  ASSUME Choice, UserToggles
  PROVE  Choice'
<1>1. HostTypes'
  BY DEF Choice, HostTypes, UserToggles
<1>2. /\ video'.paused = ~video.paused
      /\ playAfterLoadding' = playAfterLoadding
      /\ wanted' = IF playAfterLoadding THEN wanted
                   ELSE IF video.paused THEN "playing" ELSE "paused"
  BY DEF Choice, HostTypes, UserToggles
<1>3. WaitRespectsUser'
  BY <1>2 DEF Choice, HostTypes, WaitRespectsUser
<1> QED
  BY <1>1, <1>3 DEF Choice

LEMMA VideoKeepsChoice ==
  ASSUME Choice, HostVideoChanges \/ BecomesCalm
  PROVE  Choice'
<1>1. /\ HostTypes' /\ video'.paused = video.paused
      /\ playAfterLoadding' = playAfterLoadding /\ wanted' = wanted
  BY DEF Choice, HostTypes, HostVideoChanges, BecomesCalm
<1> QED
  BY <1>1 DEF Choice, WaitRespectsUser

LEMMA ChoiceStep ==
  ASSUME Choice, [Next]_vars
  PROVE  Choice'
<1>1. CASE HostTick
  BY <1>1, Untouched DEF HostTick
<1>2. CASE SyncMasterVideo
  BY <1>2, HoldKeepsChoice, ReleaseKeepsChoice DEF SyncMasterVideo
<1>3. ASSUME NEW m \in Members, MemberStep(m) PROVE Choice'
  BY <1>3, Untouched DEF MemberStep, MemberTick, PlaySettles, hostPage
<1>4. CASE ServerStep
  BY <1>4, Untouched DEF ServerStep, HandleUpdate, HandleJoin, HandleReport, Tell,
                         TellNobody, hostPage
<1>5. CASE UserToggles
  BY <1>5, ToggleKeepsChoice
<1>6. CASE HostVideoChanges \/ BecomesCalm
  BY <1>6, VideoKeepsChoice
<1>7. ASSUME NEW m \in Members,
             MemberVideoChanges(m) \/ MemberEnters(m) \/ MemberLeaves(m) \/ MemberExpires(m)
      PROVE Choice'
  BY <1>7, Untouched DEF MemberVideoChanges, MemberEnters, MemberLeaves, MemberExpires, hostPage
<1>8. ASSUME NEW c \in Clients, LinkBreaks(c) \/ Connect(c) \/ LastRoomExpires(c)
      PROVE Choice'
  BY <1>8, Untouched DEF LinkBreaks, Connect, LastRoomExpires, hostPage
<1>9. CASE UNCHANGED vars
  BY <1>9, Untouched DEF vars, hostPage
<1> QED
  BY <1>1, <1>2, <1>3, <1>4, <1>5, <1>6, <1>7, <1>8, <1>9
     DEF Next, HostStep, Disturbance

(* However the reports of the members, the host's ticks and the user's      *)
(* clicks interleave (SyncMasterVideo, vt.js:3302-3312): the wait holds     *)
(* only a video the user had playing, and one that is not held is paused    *)
(* if and only if the user paused it.                                       *)
THEOREM WaitKeepsUsersChoice == Spec => []WaitRespectsUser
<1>1. ASSUME Init PROVE Choice
  <2>1. /\ video = [paused |-> TRUE, ready |-> TRUE, atEnd |-> FALSE]
        /\ playAfterLoadding = FALSE /\ wanted = "paused"
    BY <1>1 DEF Init
  <2>2. HostTypes /\ video.paused = TRUE
    BY <2>1 DEF HostTypes
  <2>3. WaitRespectsUser
    BY <2>1, <2>2 DEF WaitRespectsUser
  <2> QED
    BY <2>2, <2>3 DEF Choice
<1>2. Choice /\ [Next]_vars => Choice'
  BY ChoiceStep
<1>3. Choice => WaitRespectsUser
  BY DEF Choice
<1> QED
  BY <1>1, <1>2, <1>3, PTL DEF Spec

-----------------------------------------------------------------------------
(* Types. *)

USE NamesAssumption, BoundAssumption DEF Clients, Threads

LEMMA RecountedType ==
  ASSUME room \in [paused : BOOLEAN, atEnd : BOOLEAN, waitForLoadding : BOOLEAN], NEW reports
  PROVE  /\ Recounted(reports) \in [paused : BOOLEAN, atEnd : BOOLEAN, waitForLoadding : BOOLEAN]
         /\ SnapshotOf(Recounted(reports)) \in Snapshot
  BY DEF Recounted, SnapshotOf, Snapshot

(* Whom a message tells of the room hears one of its states. *)
LEMMA TellType ==
  ASSUME TypeOK, NEW S, NEW method, Tell(S, method),
         room' \in [paused : BOOLEAN, atEnd : BOOLEAN, waitForLoadding : BOOLEAN]
  PROVE  /\ heard' \in [Clients -> Snapshot \cup {None}]
         /\ waitForLoadding' \in BOOLEAN
         /\ UNCHANGED <<video, playAfterLoadding, page, wanted>>
<1>1. SnapshotOf(room') \in Snapshot
  BY DEF SnapshotOf, Snapshot
<1> QED BY <1>1 DEF Tell, TypeOK

LEMMA ReportType ==
  ASSUME TypeOK, NEW m \in Members, NEW b \in BOOLEAN, Report(m, b)
  PROVE  /\ loading' \subseteq Members
         /\ up' \in [Threads -> UpdateRequests \cup ReportRequests \cup {None}]
<1>1. [method |-> "update_member", isLoadding |-> b] \in ReportRequests
  BY DEF ReportRequests
<1> QED BY <1>1 DEF Report, TypeOK

LEMMA HostStepType == TypeOK /\ HostStep => TypeOK'
<1> SUFFICES ASSUME TypeOK, HostStep PROVE TypeOK'
  OBVIOUS
<1> USE DEF TypeOK
<1>1. CASE HostTick
  <2>1. page' \in SyncMessages
    BY <1>1 DEF HostTick, SyncMessages
  <2> QED BY <1>1, <2>1 DEF HostTick, memberPages, network, server, env
<1>2. CASE SyncMasterVideo
  <2> DEFINE request == [method |-> "update", atEnd |-> video.atEnd,
                         paused |-> ~playAfterLoadding' /\ (video'.paused \/ ~video.ready)]
  <2>1. /\ video' \in [paused : BOOLEAN, ready : BOOLEAN, atEnd : BOOLEAN]
        /\ playAfterLoadding' \in BOOLEAN
    BY <1>2 DEF SyncMasterVideo, Hold, Release
  <2>2. request \in UpdateRequests
    BY <2>1 DEF UpdateRequests
  <2>3. UpdateRoom(request)
    BY <1>2 DEF SyncMasterVideo
  <2> HIDE DEF request
  <2>4. /\ waitForLoadding' \in BOOLEAN
        /\ up' \in [Threads -> UpdateRequests \cup ReportRequests \cup {None}]
    BY <2>2, <2>3 DEF UpdateRoom, Snapshot
  <2> QED BY <1>2, <2>1, <2>4 DEF SyncMasterVideo, memberPages, server, env
<1> QED BY <1>1, <1>2 DEF HostStep

LEMMA MemberStepType == ASSUME TypeOK, NEW m \in Members, MemberStep(m) PROVE TypeOK'
<1> USE DEF TypeOK
<1>1. CASE MemberTick(m)
  <2>1. PICK r \in Snapshot : /\ GetRoom(m, r)
                              /\ SyncAndReport(m, r) \/ SyncWithoutReport(m, r)
    BY <1>1 DEF MemberTick
  <2>2. /\ joining' \subseteq Members
        /\ room' \in [paused : BOOLEAN, atEnd : BOOLEAN, waitForLoadding : BOOLEAN]
    BY <2>1, RecountedType DEF GetRoom
  <2>3. CASE SyncAndReport(m, r)
    <3>1. PICK still \in BOOLEAN : Report(m, still /\ m \in lastSeek /\ player[m] = "stalled")
      BY <2>3 DEF SyncAndReport
    <3>2. (still /\ m \in lastSeek /\ player[m] = "stalled") \in BOOLEAN
      OBVIOUS
    <3>3. /\ loading' \subseteq Members
          /\ up' \in [Threads -> UpdateRequests \cup ReportRequests \cup {None}]
      BY <3>1, <3>2, ReportType
    <3>4. playing' \subseteq Members /\ lastSeek' \subseteq Members /\ awaiting' \subseteq Members
      BY <2>3 DEF SyncAndReport
    <3> QED BY <1>1, <2>2, <3>3, <3>4 DEF MemberTick, hostPage, env
  <2>4. CASE SyncWithoutReport(m, r)
    BY <1>1, <2>2, <2>4 DEF MemberTick, SyncWithoutReport, hostPage, env
  <2> QED BY <2>1, <2>3, <2>4
<1>2. CASE PlaySettles(m)
  <2>1. Report(m, FALSE)
    BY <1>2 DEF PlaySettles
  <2>2. /\ loading' \subseteq Members
        /\ up' \in [Threads -> UpdateRequests \cup ReportRequests \cup {None}]
    BY <2>1, ReportType
  <2> QED BY <1>2, <2>2 DEF PlaySettles, hostPage, server, env
<1> QED BY <1>1, <1>2 DEF MemberStep

LEMMA ServerStepType == TypeOK /\ ServerStep => TypeOK'
<1> SUFFICES ASSUME TypeOK, ServerStep PROVE TypeOK'
  OBVIOUS
<1> USE DEF TypeOK
<1>1. ASSUME NEW t \in {Host, Http}, HandleUpdate(t) PROVE TypeOK'
  <2>1. up[t].paused \in BOOLEAN /\ up[t].atEnd \in BOOLEAN
    BY <1>1 DEF HandleUpdate, UpdateRequests
  <2>2. room' \in [paused : BOOLEAN, atEnd : BOOLEAN, waitForLoadding : BOOLEAN]
    BY <1>1, <2>1, RecountedType DEF HandleUpdate
  <2>3. up' \in [Threads -> UpdateRequests \cup ReportRequests \cup {None}]
    BY <1>1 DEF HandleUpdate, Handled
  <2>4. CASE t = Host
    <3>1. listed' = listed \cup {Host} /\ Tell(listed', "update")
      BY <1>1, <2>4 DEF HandleUpdate
    <3>2. listed' \subseteq Clients
      BY <3>1
    <3>3. /\ heard' \in [Clients -> Snapshot \cup {None}]
          /\ waitForLoadding' \in BOOLEAN
          /\ UNCHANGED <<video, playAfterLoadding, page, wanted>>
      BY <2>2, <3>1, TellType
    <3> QED BY <1>1, <2>2, <2>3, <3>2, <3>3 DEF HandleUpdate, memberPages, env
  <2>5. CASE t # Host
    BY <1>1, <2>2, <2>3, <2>5 DEF HandleUpdate, TellNobody, hostPage, memberPages, env
  <2> QED BY <2>4, <2>5
<1>2. ASSUME NEW m \in Members, HandleJoin(m) PROVE TypeOK'
  <2>1. room' \in [paused : BOOLEAN, atEnd : BOOLEAN, waitForLoadding : BOOLEAN]
    BY <1>2, RecountedType DEF HandleJoin
  <2>2. /\ heard' \in [Clients -> Snapshot \cup {None}]
        /\ waitForLoadding' \in BOOLEAN
        /\ UNCHANGED <<video, playAfterLoadding, page, wanted>>
    BY <1>2, <2>1, TellType DEF HandleJoin
  <2> QED BY <1>2, <2>1, <2>2 DEF HandleJoin, memberPages, env
<1>3. ASSUME NEW m \in Members, HandleReport(m) PROVE TypeOK'
  <2>1. room' \in [paused : BOOLEAN, atEnd : BOOLEAN, waitForLoadding : BOOLEAN]
    BY <1>3, RecountedType DEF HandleReport
  <2>2. Tell(listed, "update_member") \/ TellNobody
    BY <1>3 DEF HandleReport
  <2>3. /\ heard' \in [Clients -> Snapshot \cup {None}]
        /\ waitForLoadding' \in BOOLEAN
        /\ UNCHANGED <<video, playAfterLoadding, page, wanted>>
    BY <2>1, <2>2, TellType DEF TellNobody, hostPage
  <2> QED BY <1>3, <2>1, <2>3 DEF HandleReport, Handled, memberPages, env
<1> QED BY <1>1, <1>2, <1>3 DEF ServerStep

LEMMA DisturbanceType == TypeOK /\ Disturbance => TypeOK'
<1> SUFFICES ASSUME TypeOK, Disturbance PROVE TypeOK'
  OBVIOUS
<1> USE DEF TypeOK, hostPage, memberPages, network, server, env
<1>0. ASSUME Disturbs PROVE disturbances' \in 0 .. MaxDisturbances /\ calm' \in BOOLEAN
  BY <1>0 DEF Disturbs
<1>1. CASE UserToggles
  BY <1>0, <1>1 DEF UserToggles
<1>2. CASE HostVideoChanges
  BY <1>0, <1>2 DEF HostVideoChanges
<1>3. CASE BecomesCalm
  BY <1>3 DEF BecomesCalm
<1>4. ASSUME NEW m \in Members, MemberVideoChanges(m) \/ MemberEnters(m) PROVE TypeOK'
  BY <1>0, <1>4 DEF MemberVideoChanges, MemberEnters
<1>5. ASSUME NEW m \in Members, MemberLeaves(m) PROVE TypeOK'
  BY <1>0, <1>5 DEF MemberLeaves, Drop
<1>6. ASSUME NEW m \in Members, MemberExpires(m) PROVE TypeOK'
  BY <1>6 DEF MemberExpires
<1>7. ASSUME NEW c \in Clients, LinkBreaks(c) \/ Connect(c) \/ LastRoomExpires(c) PROVE TypeOK'
  BY <1>0, <1>7 DEF LinkBreaks, Drop, Connect, LastRoomExpires
<1> QED BY <1>1, <1>2, <1>3, <1>4, <1>5, <1>6, <1>7 DEF Disturbance

(* Every variable keeps its type: what a client heard, what is under way    *)
(* and what the room says are always well formed, and nil is never read.    *)
THEOREM TypeCorrect == Spec => []TypeOK
<1>1. ASSUME Init PROVE TypeOK
  <2>1. video \in [paused : BOOLEAN, ready : BOOLEAN, atEnd : BOOLEAN]
    BY <1>1 DEF Init
  <2>2. room \in [paused : BOOLEAN, atEnd : BOOLEAN, waitForLoadding : BOOLEAN]
    BY <1>1 DEF Init
  <2>3. disturbances \in 0 .. MaxDisturbances
    BY <1>1 DEF Init
  <2> QED BY <1>1, <2>1, <2>2, <2>3 DEF Init, TypeOK
<1>2. TypeOK /\ [Next]_vars => TypeOK'
  <2>1. TypeOK /\ UNCHANGED vars => TypeOK'
    BY DEF TypeOK, vars, hostPage, memberPages, network, server, env
  <2> QED BY <2>1, HostStepType, MemberStepType, ServerStepType, DisturbanceType DEF Next
<1> QED BY <1>1, <1>2, PTL DEF Spec
=============================================================================
