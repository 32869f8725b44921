----------------------------- MODULE WsHubProofs -----------------------------
(***************************************************************************)
(* Theorems about WsHub for every finite set of connections and names and  *)
(* every number of users, objects and queue places.                        *)
(***************************************************************************)
EXTENDS WsHub, FiniteSetTheorems, SequenceTheorems, TLAPS

USE RequestsAssumption, NamesAssumption, CapAssumption, NilAssumption

-----------------------------------------------------------------------------
(* A name without a RoomClients can always be given one that nothing refers *)
(* to: names, readers and the hub together refer to fewer than there are.   *)

(* A union is no larger than its parts together. *)
LEMMA UnionIsSmall ==
  ASSUME NEW S, IsFiniteSet(S), NEW T, IsFiniteSet(T)
  PROVE  /\ IsFiniteSet(S \cup T)
         /\ Cardinality(S \cup T) <= Cardinality(S) + Cardinality(T)
<1>1. IsFiniteSet(S \cap T) /\ Cardinality(S \cap T) \in Nat
  BY FS_Subset, FS_CardinalityType
<1> QED BY <1>1, FS_Union, FS_CardinalityType

LEMMA OneMoreIsSmall ==
  ASSUME NEW S, IsFiniteSet(S), NEW x, NEW m \in Nat, NEW n \in Nat, Cardinality(S) <= m + n
  PROVE  /\ IsFiniteSet(S \cup {x})
         /\ Cardinality(S \cup {x}) <= m + n + 1
<1>1. Cardinality(S) \in Nat
  BY FS_CardinalityType
<1>2. /\ IsFiniteSet(S \cup {x})
      /\ Cardinality(S \cup {x}) = IF x \in S THEN Cardinality(S) ELSE Cardinality(S) + 1
  BY FS_AddElement
<1> QED BY <1>1, <1>2

LEMMA FreeEntry ==
  ASSUME NEW n \in Keys, entry[n] = None, entry \in [Keys -> Entries \cup {None}],
         job \in [Clients -> Job]
  PROVE  EntryOf(n) \in Unreferenced
<1> DEFINE f == [k \in Keys \ {n} |-> entry[k]]
           g == [c \in Clients |-> job[c].entry]
           h == IF hub.step = "deliver" THEN hub.entry ELSE None
           F == {f[k] : k \in Keys \ {n}}
           G == {g[c] : c \in Clients}
<1>1. SUFFICES Unreferenced # {}
  BY DEF EntryOf
<1>2. IsFiniteSet(Keys \ {n}) /\ Cardinality(Keys \ {n}) = Cardinality(Names)
  <2>1. IsFiniteSet(Keys) /\ Cardinality(Keys) = Cardinality(Names) + 1
    BY EntriesAssumption, FS_AddElement DEF Keys
  <2> QED BY <2>1, EntriesAssumption, FS_RemoveElement, FS_CardinalityType
<1>3. IsFiniteSet(F) /\ Cardinality(F) <= Cardinality(Names)
  <2>1. f \in Surjection(Keys \ {n}, F)
    BY DEF Surjection
  <2> HIDE DEF f, F
  <2> QED BY <2>1, <1>2, FS_Surjection
<1>4. IsFiniteSet(G) /\ Cardinality(G) <= Cardinality(Clients)
  <2>1. g \in Surjection(Clients, G)
    BY DEF Surjection
  <2> HIDE DEF g, G
  <2> QED BY <2>1, EntriesAssumption, FS_Surjection
<1>5. /\ IsFiniteSet(F \cup G)
      /\ Cardinality(F \cup G) <= Cardinality(Names) + Cardinality(Clients)
  <2>1. Cardinality(F \cup G) <= Cardinality(F) + Cardinality(G) /\ IsFiniteSet(F \cup G)
    BY <1>3, <1>4, UnionIsSmall
  <2> QED BY <2>1, <1>3, <1>4, EntriesAssumption, FS_CardinalityType
<1>6. /\ IsFiniteSet(F \cup G \cup {h})
      /\ Cardinality(F \cup G \cup {h}) <= Cardinality(Names) + Cardinality(Clients) + 1
  <2>1. Cardinality(F \cup G) \in Nat /\ Cardinality(Names) \in Nat /\ Cardinality(Clients) \in Nat
    BY <1>5, EntriesAssumption, FS_CardinalityType
  <2> HIDE DEF F, G, h
  <2> QED BY <1>5, <2>1, OneMoreIsSmall
<1>7. PICK e \in Entries : e \notin F \cup G \cup {h}
  <2>1. SUFFICES ASSUME Entries \subseteq F \cup G \cup {h} PROVE FALSE
    OBVIOUS
  <2>2. Cardinality(Entries) <= Cardinality(F \cup G \cup {h})
    BY <2>1, <1>6, FS_Subset
  <2> HIDE DEF F, G, h
  <2> QED BY <2>2, <1>6, EntriesAssumption, FS_CardinalityType
<1>8. /\ \A k \in Keys : entry[k] # e
      /\ \A c \in Clients : job[c].entry # e
      /\ hub.step = "deliver" => hub.entry # e
  <2>1. \A k \in Keys \ {n} : entry[k] # e
    BY <1>7
  <2>2. entry[n] # e
    BY NilAssumption
  <2> QED BY <1>7, <2>1, <2>2
<1> QED BY <1>8 DEF Unreferenced

-----------------------------------------------------------------------------
(* The type invariant needs what a reader holds between its steps. *)

Control ==
  \A c \in Clients :
    /\ pc[c] \in {"entry", "store"} => /\ job[c].name \in Names
                                       /\ job[c].name = roomName[c]
                                       /\ job[c].name \in admitted[c]
                                       /\ job[c].obj \in Objects
    /\ pc[c] = "store" => job[c].entry \in Entries
    /\ isHost[c] => roomName[c] \in hosted[c]

Base == TypeOK /\ Control

LEMMA BaseInit == Init => Base
  BY DEF Init, Base, TypeOK, Control, Keys, Versions, Message, BroadcastTypes,
         Reply, Job, NoJob, Methods, HubStates, ReaderSteps

(* getRoomClients and RemoveClientFromRoom keep the type of the directory. *)
LEMMA EntryOfType ==
  ASSUME TypeOK, NEW n \in Keys
  PROVE  EntryOf(n) \in Entries
<1>1. CASE entry[n] = None
  <2>1. entry \in [Keys -> Entries \cup {None}] /\ job \in [Clients -> Job]
    BY DEF TypeOK
  <2> QED BY <1>1, <2>1, FreeEntry DEF Unreferenced
<1>2. CASE entry[n] # None
  BY <1>2 DEF EntryOf, TypeOK
<1> QED BY <1>1, <1>2

DirectoryType ==
  entry \in [Keys -> Entries \cup {None}] /\ members \in [Entries -> SUBSET Clients]

LEMMA DirectoryStays ==
  ASSUME TypeOK, NEW n \in Keys
  PROVE  /\ GetRoomClients(n) => DirectoryType'
         /\ UNCHANGED directory => DirectoryType'
         /\ \A c \in Clients : RemoveClientFromRoom(n, c) => DirectoryType'
<1>1. EntryOf(n) \in Entries
  BY EntryOfType
<1>2. GetRoomClients(n) => DirectoryType'
  BY <1>1 DEF GetRoomClients, DirectoryType, TypeOK, directory
<1>3. UNCHANGED directory => DirectoryType'
  BY DEF DirectoryType, TypeOK, directory
<1>4. ASSUME NEW c \in Clients, RemoveClientFromRoom(n, c) PROVE DirectoryType'
  <2> DEFINE S == IF entry[n] = None THEN {} ELSE members[EntryOf(n)] \ {c}
  <2>1. S \in SUBSET Clients
    BY <1>1 DEF TypeOK
  <2>2. members' = [members EXCEPT ![EntryOf(n)] = S] /\ entry' = [entry EXCEPT ![n] = EntryOf(n)]
    BY <1>4 DEF RemoveClientFromRoom
  <2> HIDE DEF S
  <2> QED BY <1>1, <2>1, <2>2 DEF DirectoryType, TypeOK
<1> QED BY <1>2, <1>3, <1>4

(* Messages and jobs have their types. *)
LEMMA MarshalledType ==
  ASSUME TypeOK, NEW type \in BroadcastTypes \cup {"reply"}, NEW n \in Keys,
         NEW o \in Objects \cup {None}, NEW s \in Versions
  PROVE  Marshalled(type, n, o, s) \in Message
  BY DEF Marshalled, Message, TypeOK, Versions

LEMMA ReplyType == Reply \in Message /\ NoJob \in Job
  BY DEF Reply, Message, NoJob, Job, Versions, Keys, Methods

LEMMA ReplyWithType ==
  ASSUME TypeOK, NEW c \in Clients, NEW m \in Message, ReplyWith(c, m)
  PROVE  /\ pending' \in [Clients -> Message]
         /\ job' \in [Clients -> Job]
         /\ pc' \in [Clients -> ReaderSteps]
         /\ job' = [job EXCEPT ![c] = NoJob]
         /\ pc' = [pc EXCEPT ![c] = "reply"]
  BY ReplyType DEF ReplyWith, Goto, TypeOK, ReaderSteps

LEMMA DoneType ==
  ASSUME TypeOK, NEW c \in Clients, Done(c)
  PROVE  /\ pending' \in [Clients -> Message]
         /\ job' \in [Clients -> Job]
         /\ job' = [job EXCEPT ![c] = NoJob]
         /\ pc' \in [Clients -> ReaderSteps]
         /\ pc'[c] \in {"reply", "read"}
         /\ \A d \in Clients \ {c} : pc'[d] = pc[d] /\ job'[d] = job[d]
<1>1. CASE job[c].method \in Replying
  <2>1. ReplyWith(c, Reply)
    BY <1>1 DEF Done
  <2> QED BY <2>1, ReplyType, ReplyWithType DEF TypeOK
<1>2. CASE job[c].method \notin Replying
  <2>1. /\ pc' = [pc EXCEPT ![c] = "read"]
        /\ job' = [job EXCEPT ![c] = NoJob]
        /\ pending' = pending
    BY <1>2 DEF Done, Goto
  <2>2. pending \in [Clients -> Message] /\ job \in [Clients -> Job] /\ pc \in [Clients -> ReaderSteps]
    BY DEF TypeOK
  <2>3. "read" \in ReaderSteps
    BY DEF ReaderSteps
  <2> QED BY <2>1, <2>2, <2>3, ReplyType
<1> QED BY <1>1, <1>2

LEMMA DeliverType ==
  ASSUME TypeOK, NEW type \in BroadcastTypes, NEW n \in Keys,
         NEW o \in Objects \cup {None}, NEW s \in Versions, Deliver(type, n, o, s),
         hub \in HubStates
  PROVE  hub' \in HubStates /\ DirectoryType'
<1>1. CASE room[n] = None
  BY <1>1, DirectoryStays DEF Deliver
<1>2. CASE room[n] # None
  <2>1. room[n] \in Objects /\ EntryOf(n) \in Entries /\ Marshalled(type, n, o, s) \in Message
    BY <1>2, EntryOfType, MarshalledType DEF TypeOK
  <2>2. hub' \in HubStates
    BY <1>2, <2>1 DEF Deliver, HubStates
  <2> QED BY <1>2, <2>2, DirectoryStays DEF Deliver
<1> QED BY <1>1, <1>2

-----------------------------------------------------------------------------
LEMMA JobType ==
  ASSUME NEW m \in Methods, NEW n \in Keys
  PROVE  /\ [NoJob EXCEPT !.method = m, !.name = n] \in Job
         /\ \A o \in Objects \cup {None} :
              /\ [NoJob EXCEPT !.method = m, !.name = n, !.obj = o] \in Job
              /\ \A s \in Versions :
                   [NoJob EXCEPT !.method = m, !.name = n, !.obj = o, !.stamp = s] \in Job
<1>1. NoJob \in Job
  BY ReplyType
<1>2. [NoJob EXCEPT !.method = m, !.name = n] \in Job
  BY <1>1 DEF Job
<1>3. ASSUME NEW o \in Objects \cup {None}
      PROVE  [NoJob EXCEPT !.method = m, !.name = n, !.obj = o] \in Job
  BY <1>1 DEF Job
<1>4. ASSUME NEW o \in Objects \cup {None}, NEW s \in Versions
      PROVE  [NoJob EXCEPT !.method = m, !.name = n, !.obj = o, !.stamp = s] \in Job
  BY <1>1 DEF Job
<1> QED BY <1>2, <1>3, <1>4

LEMMA LabelsAreSteps ==
  {"read", "entry", "store", "check", "send", "reply", "unregister", "gone"} = ReaderSteps
  BY DEF ReaderSteps

LEMMA AdmitType ==
  ASSUME TypeOK, NEW n \in Names, NEW u \in Users, NEW o \in Objects, Admit(n, u, o)
  PROVE  /\ room' \in [Keys -> Objects \cup {None}]
         /\ host' \in [Objects -> Users \cup {None}]
         /\ version' \in [Objects -> Versions]
         /\ unmade' \subseteq Objects
         /\ \A p \in Objects : version[p] <= version'[p]
<1>1. room' \in [Keys -> Objects \cup {None}] /\ unmade' \subseteq Objects
  BY DEF Admit, TypeOK, Keys
<1>2. host' \in [Objects -> Users \cup {None}]
  BY DEF Admit, TypeOK
<1>3. version' \in [Objects -> Versions] /\ \A p \in Objects : version[p] <= version'[p]
  <2>1. version \in [Objects -> Versions] /\ version[o] < MaxVersion
        /\ version' = [version EXCEPT ![o] = @ + 1]
    BY DEF Admit, TypeOK
  <2>2. version[o] + 1 \in Versions
    BY <2>1 DEF Versions
  <2> QED BY <2>1, <2>2 DEF Versions
<1> QED BY <1>1, <1>2, <1>3

LEMMA Appended ==
  ASSUME TypeOK, NEW c \in Clients, NEW m \in Message, Len(queue[c]) < QueueCap,
         queue' = [queue EXCEPT ![c] = Append(@, m)]
  PROVE  /\ queue' \in [Clients -> Seq(Message)]
         /\ \A d \in Clients : Len(queue'[d]) <= QueueCap
<1>1. queue[c] \in Seq(Message)
  BY DEF TypeOK
<1>2. Append(queue[c], m) \in Seq(Message) /\ Len(Append(queue[c], m)) = Len(queue[c]) + 1
  BY <1>1
<1>3. Len(Append(queue[c], m)) <= QueueCap
  BY <1>1, <1>2
<1> QED BY <1>2, <1>3 DEF TypeOK

LEMMA VisitedType ==
  ASSUME hub \in HubStates, hub.step = "deliver"
  PROVE  /\ hub.msg \in Message /\ hub.room \in Objects /\ hub.entry \in Entries
         /\ \A c \in Clients : Visited(c) => /\ hub' \in HubStates
                                             /\ hub'.step = "deliver"
                                             /\ hub'.msg = hub.msg
                                             /\ hub'.entry = hub.entry
                                             /\ hub'.room = hub.room
                                             /\ hub'.todo = hub.todo \ {c}
<1>1. hub \in [step : {"deliver"}, msg : Message, room : Objects, entry : Entries,
               todo : SUBSET Clients]
  BY DEF HubStates, Select
<1> QED BY <1>1 DEF Visited, HubStates

LEMMA TypeStep == Base /\ [Next]_vars => TypeOK'
<1> SUFFICES ASSUME Base, [Next]_vars PROVE TypeOK'
  OBVIOUS
<1> USE DEF registry, fields, directory, history, vars
<1>0. TypeOK /\ Control
  BY DEF Base
<1>1. ASSUME NEW c \in Clients, Join(c) PROVE TypeOK'
  <2>1. PICK n \in Names :
          \/ ReplyWith(c, Reply) /\ UNCHANGED <<conn, roomName, admitted>>
          \/ /\ conn' = [conn EXCEPT ![c] = "closed"]
             /\ UNCHANGED <<pc, job, pending, roomName, admitted>>
          \/ /\ room[n] # None
             /\ roomName' = [roomName EXCEPT ![c] = n]
             /\ job' = [job EXCEPT ![c] = [NoJob EXCEPT !.method = "join", !.name = n, !.obj = room[n]]]
             /\ admitted' = [admitted EXCEPT ![c] = @ \cup {n}] \/ admitted' = admitted
             /\ Goto(c, "entry")
             /\ UNCHANGED <<conn, pending>>
    BY <1>1 DEF Join
  <2>2. n \in Keys /\ room[n] \in Objects \cup {None}
    BY <1>0 DEF TypeOK, Keys
  <2>3. [NoJob EXCEPT !.method = "join", !.name = n, !.obj = room[n]] \in Job
    <3>1. "join" \in Methods
      BY DEF Methods
    <3> QED BY <2>2, <3>1, JobType
  <2>4. /\ conn' \in [Clients -> {"open", "closed"}]
        /\ roomName' \in [Clients -> Keys]
        /\ admitted' \in [Clients -> SUBSET Names]
    <3> USE DEF TypeOK
    <3>0. /\ conn' = conn \/ conn' = [conn EXCEPT ![c] = "closed"]
          /\ roomName' = roomName \/ roomName' = [roomName EXCEPT ![c] = n]
      BY <2>1
    <3>1. conn' \in [Clients -> {"open", "closed"}]
      BY <1>0, <3>0
    <3>3. roomName' \in [Clients -> Keys]
      BY <1>0, <2>2, <3>0
    <3>2. admitted' \in [Clients -> SUBSET Names]
      BY <1>0, <2>1
    <3> QED BY <3>1, <3>2, <3>3
  <2>5. /\ pc' \in [Clients -> ReaderSteps]
        /\ job' \in [Clients -> Job]
        /\ pending' \in [Clients -> Message]
    <3>1. CASE ReplyWith(c, Reply)
      BY <1>0, <3>1, ReplyType, ReplyWithType
    <3>2. CASE UNCHANGED <<pc, job, pending>>
      BY <1>0, <3>2 DEF TypeOK
    <3>3. CASE /\ job' = [job EXCEPT ![c] = [NoJob EXCEPT !.method = "join", !.name = n, !.obj = room[n]]]
               /\ Goto(c, "entry") /\ UNCHANGED pending
      BY <1>0, <2>3, <3>3, LabelsAreSteps DEF TypeOK, Goto
    <3> QED BY <2>1, <3>1, <3>2, <3>3
  <2> QED BY <1>0, <1>1, <2>4, <2>5 DEF TypeOK, Join
<1>2. ASSUME NEW c \in Clients, UpdateOtherRoom(c) PROVE TypeOK'
  BY <1>0, <1>2 DEF TypeOK, UpdateOtherRoom, Goto
<1>3. ASSUME NEW c \in Clients, UpdateRefused(c) PROVE TypeOK'
  <2>1. roomName' \in [Clients -> Keys]
    BY <1>0, <1>3 DEF UpdateRefused, TypeOK, Keys
  <2>2. ReplyWith(c, Reply)
    BY <1>3 DEF UpdateRefused
  <2> QED BY <1>0, <1>3, <2>1, <2>2, ReplyType, ReplyWithType DEF TypeOK, UpdateRefused
<1>4. ASSUME NEW c \in Clients, UpdateAdmitted(c) PROVE TypeOK'
  <2>1. PICK n \in Names, u \in Users, o \in Objects :
          /\ Admit(n, u, o)
          /\ roomName' = [roomName EXCEPT ![c] = n]
          /\ lastUser' = [lastUser EXCEPT ![c] = u]
          /\ job' = [job EXCEPT ![c] = [NoJob EXCEPT !.method = "update", !.name = n, !.obj = o]]
          /\ admitted' = [admitted EXCEPT ![c] = @ \cup {n}]
          /\ hosted' = [hosted EXCEPT ![c] = @ \cup {n}]
    BY <1>4 DEF UpdateAdmitted
  <2>2. [NoJob EXCEPT !.method = "update", !.name = n, !.obj = o] \in Job
    <3>1. "update" \in Methods /\ n \in Keys
      BY DEF Methods, Keys
    <3> QED BY <3>1, JobType
  <2>3. /\ roomName' \in [Clients -> Keys]
        /\ lastUser' \in [Clients -> Users \cup {None}]
        /\ admitted' \in [Clients -> SUBSET Names]
        /\ hosted' \in [Clients -> SUBSET Names]
        /\ job' \in [Clients -> Job]
    BY <1>0, <2>1, <2>2 DEF TypeOK, Keys
  <2>4. isHost' \in [Clients -> BOOLEAN] /\ pc' \in [Clients -> ReaderSteps]
    BY <1>0, <1>4, LabelsAreSteps DEF UpdateAdmitted, Goto, TypeOK
  <2>5. /\ room' \in [Keys -> Objects \cup {None}]
        /\ host' \in [Objects -> Users \cup {None}]
        /\ version' \in [Objects -> Versions]
        /\ unmade' \subseteq Objects
    BY <1>0, <2>1, AdmitType
  <2>6. UNCHANGED <<conn, pending, text, writer, queue, directory, hub>>
    BY <1>4 DEF UpdateAdmitted
  <2> QED BY <1>0, <2>3, <2>4, <2>5, <2>6 DEF TypeOK
<1>5. ASSUME NEW c \in Clients, UpdateMember(c) PROVE TypeOK'
  <2>1. PICK n \in Names :
          \/ ReplyWith(c, Reply) /\ UNCHANGED version
          \/ /\ room[n] # None
             /\ version[room[n]] < MaxVersion
             /\ version' = [version EXCEPT ![room[n]] = @ + 1]
             /\ job' = [job EXCEPT ![c] = [NoJob EXCEPT !.method = "member", !.name = n, !.obj = room[n],
                                                      !.stamp = version'[room[n]]]]
             /\ Goto(c, "check")
             /\ UNCHANGED pending
    BY <1>5 DEF UpdateMember
  <2>2. version' \in [Objects -> Versions]
    <3>1. CASE room[n] # None /\ version[room[n]] < MaxVersion
      <4>1. room[n] \in Objects
        BY <1>0, <3>1 DEF TypeOK, Keys
      <4>2. version[room[n]] + 1 \in Versions
        BY <1>0, <3>1, <4>1 DEF TypeOK, Versions
      <4> QED BY <1>0, <2>1, <4>2 DEF TypeOK
    <3> QED BY <1>0, <2>1, <3>1 DEF TypeOK
  <2>3. /\ pc' \in [Clients -> ReaderSteps]
        /\ job' \in [Clients -> Job]
        /\ pending' \in [Clients -> Message]
    <3>1. CASE ReplyWith(c, Reply)
      BY <1>0, <3>1, ReplyType, ReplyWithType
    <3>2. CASE ~ReplyWith(c, Reply)
      <4>1. room[n] \in Objects /\ n \in Keys
        BY <1>0, <2>1, <3>2 DEF TypeOK, Keys
      <4> DEFINE r == [NoJob EXCEPT !.method = "member", !.name = n, !.obj = room[n],
                                    !.stamp = version'[room[n]]]
      <4>2. r \in Job
        BY <4>1, <2>2, JobType DEF Methods
      <4>3. job' = [job EXCEPT ![c] = r] /\ Goto(c, "check") /\ UNCHANGED pending
        BY <2>1, <3>2
      <4> HIDE DEF r
      <4> QED BY <1>0, <4>2, <4>3, LabelsAreSteps DEF TypeOK, Goto
    <3> QED BY <3>1, <3>2
  <2> QED BY <1>0, <1>5, <2>2, <2>3 DEF TypeOK, UpdateMember
<1>6. ASSUME NEW c \in Clients, Relay(c) PROVE TypeOK'
  <2>1. PICK m \in Methods :
          job' = [job EXCEPT ![c] = [NoJob EXCEPT !.method = m, !.name = roomName[c]]]
    BY <1>6 DEF Relay, Methods
  <2>2. [NoJob EXCEPT !.method = m, !.name = roomName[c]] \in Job
    BY <1>0, JobType DEF TypeOK
  <2>3. job' \in [Clients -> Job]
    BY <1>0, <2>1, <2>2 DEF TypeOK
  <2> QED BY <1>0, <1>6, <2>3, LabelsAreSteps DEF TypeOK, Relay, Goto
<1>7. ASSUME NEW c \in Clients, BadRequest(c) PROVE TypeOK'
  BY <1>0, <1>7, ReplyType, ReplyWithType DEF TypeOK, BadRequest
<1>8. ASSUME NEW c \in Clients, SendTextMessage(c) PROVE TypeOK'
  BY <1>0, <1>8 DEF TypeOK, SendTextMessage, Goto
<1>9. ASSUME NEW c \in Clients, LoadEntry(c) PROVE TypeOK'
  <2>1. job[c].name \in Keys /\ job[c] \in Job
    BY <1>0 DEF TypeOK, Job
  <2>2. EntryOf(job[c].name) \in Entries
    BY <1>0, <2>1, EntryOfType
  <2>3. job' \in [Clients -> Job]
    BY <1>0, <1>9, <2>1, <2>2 DEF LoadEntry, TypeOK, Job
  <2>4. DirectoryType'
    BY <1>0, <1>9, <2>1, DirectoryStays DEF LoadEntry
  <2> QED BY <1>0, <1>9, <2>3, <2>4, LabelsAreSteps DEF TypeOK, LoadEntry, Goto, DirectoryType
<1>10. ASSUME NEW c \in Clients, StoreClient(c) PROVE TypeOK'
  <2>1. /\ job[c] \in Job /\ job[c].name \in Names /\ job[c].obj \in Objects
        /\ job[c].entry \in Entries
    BY <1>0, <1>10 DEF StoreClient, TypeOK, Control
  <2>2. version[job[c].obj] \in Versions
    BY <1>0, <2>1 DEF TypeOK
  <2>3. members' \in [Entries -> SUBSET Clients]
    BY <1>0, <1>10 DEF StoreClient, TypeOK
  <2>4. /\ pc' \in [Clients -> ReaderSteps]
        /\ job' \in [Clients -> Job]
        /\ pending' \in [Clients -> Message]
    <3> DEFINE m == Marshalled("reply", job[c].name, job[c].obj, version[job[c].obj])
    <3>1. CASE ReplyWith(c, m)
      <4>1. m \in Message
        BY <1>0, <2>1, <2>2, MarshalledType DEF Keys
      <4> HIDE DEF m
      <4> QED BY <1>0, <3>1, <4>1, ReplyWithType
    <3>2. CASE ~ReplyWith(c, m)
      <4>1. /\ job' = [job EXCEPT ![c].entry = None, ![c].stamp = version[job[c].obj]]
            /\ Goto(c, "check") /\ UNCHANGED pending
        BY <1>10, <3>2 DEF StoreClient
      <4>2. job' \in [Clients -> Job]
        BY <1>0, <2>1, <2>2, <4>1 DEF TypeOK, Job
      <4> QED BY <1>0, <4>1, <4>2, LabelsAreSteps DEF TypeOK, Goto
    <3> QED BY <3>1, <3>2
  <2> QED BY <1>0, <1>10, <2>3, <2>4 DEF TypeOK, StoreClient
<1>11. ASSUME NEW c \in Clients, SendBroadcast(c) PROVE TypeOK'
  BY <1>0, <1>11, LabelsAreSteps DEF TypeOK, SendBroadcast, Goto
<1>12. ASSUME NEW c \in Clients, DropBroadcast(c) PROVE TypeOK'
  <2>1. DirectoryType'
    BY <1>0, <1>12, DirectoryStays DEF DropBroadcast, TypeOK
  <2>2. Done(c)
    BY <1>12 DEF DropBroadcast
  <2> QED BY <1>0, <1>12, <2>1, <2>2, DoneType DEF TypeOK, DropBroadcast, DirectoryType
<1>13. ASSUME NEW c \in Clients, SendReply(c) PROVE TypeOK'
  <2>1. /\ queue' \in [Clients -> Seq(Message)]
        /\ \A d \in Clients : Len(queue'[d]) <= QueueCap
    BY <1>0, <1>13, Appended DEF SendReply, TypeOK
  <2>2. pending' \in [Clients -> Message] /\ pc' \in [Clients -> ReaderSteps]
    BY <1>0, <1>13, LabelsAreSteps, ReplyType DEF SendReply, Goto, TypeOK
  <2> QED BY <1>0, <1>13, <2>1, <2>2 DEF TypeOK, SendReply
<1>14. ASSUME NEW c \in Clients, ReadFails(c) PROVE TypeOK'
  BY <1>0, <1>14, LabelsAreSteps DEF TypeOK, ReadFails, Goto
<1>15. ASSUME NEW c \in Clients, TextBroadcasts(c) PROVE TypeOK'
  <2>1. text' \in [Clients -> {"none", "running"} \cup Names]
    BY <1>0, <1>15 DEF TextBroadcasts, MayBroadcast, TypeOK, Keys
  <2> QED BY <1>0, <1>15, <2>1 DEF TypeOK, TextBroadcasts
<1>16. ASSUME NEW c \in Clients, TextDropped(c) PROVE TypeOK'
  <2>1. DirectoryType'
    BY <1>0, <1>16, DirectoryStays DEF TextDropped, TypeOK
  <2>2. text' \in [Clients -> {"none", "running"} \cup Names]
    BY <1>0, <1>16 DEF TextDropped, TypeOK
  <2> QED BY <1>0, <1>16, <2>1, <2>2 DEF TypeOK, TextDropped, DirectoryType
<1>17. ASSUME NEW c \in Clients, WriteFrame(c) PROVE TypeOK'
  BY <1>0, <1>17 DEF TypeOK, WriteFrame, Goto
<1>18. ASSUME NEW c \in Clients, WriteFails(c) PROVE TypeOK'
  BY <1>0, <1>18 DEF TypeOK, WriteFails, Goto
<1>19. ASSUME NEW c \in Clients, TakeBroadcast(c) PROVE TypeOK'
  <2>1. /\ job[c].name \in Keys /\ job[c].obj \in Objects \cup {None} /\ job[c].stamp \in Versions
        /\ MethodType(job[c].method) \in BroadcastTypes
    BY <1>0 DEF TypeOK, Job, MethodType, BroadcastTypes
  <2>2. hub' \in HubStates /\ DirectoryType'
    BY <1>0, <1>19, <2>1, DeliverType DEF TakeBroadcast, TypeOK
  <2>3. Done(c)
    BY <1>19 DEF TakeBroadcast
  <2> QED BY <1>0, <1>19, <2>2, <2>3, DoneType DEF TypeOK, TakeBroadcast, DirectoryType
<1>20. ASSUME NEW c \in Clients, TakeText(c) PROVE TypeOK'
  <2>1. /\ text[c] \in Keys /\ "ALL" \in BroadcastTypes /\ 0 \in Versions
    BY <1>0, <1>20 DEF TakeText, Keys, BroadcastTypes, Versions
  <2>2. hub' \in HubStates /\ DirectoryType'
    BY <1>0, <1>20, <2>1, DeliverType DEF TakeText, TypeOK
  <2>3. text' \in [Clients -> {"none", "running"} \cup Names]
    BY <1>0, <1>20 DEF TakeText, TypeOK
  <2> QED BY <1>0, <1>20, <2>2, <2>3 DEF TypeOK, TakeText, DirectoryType
<1>21. ASSUME NEW c \in Clients, Unregister(c) PROVE TypeOK'
  <2>1. DirectoryType'
    BY <1>0, <1>21, DirectoryStays DEF Unregister, TypeOK
  <2>2. conn' \in [Clients -> {"open", "closed"}] /\ pc' \in [Clients -> ReaderSteps]
    BY <1>0, <1>21, LabelsAreSteps DEF Unregister, Goto, TypeOK
  <2> QED BY <1>0, <1>21, <2>1, <2>2 DEF TypeOK, Unregister, DirectoryType
<1>22. ASSUME NEW c \in Clients, ConnectionBreaks(c) PROVE TypeOK'
  BY <1>0, <1>22 DEF TypeOK, ConnectionBreaks, Goto
<1>23. ASSUME NEW c \in Clients, HubSkips(c) PROVE TypeOK'
  <2>1. hub' \in HubStates
    BY <1>0, <1>23, VisitedType DEF HubSkips, TypeOK
  <2> QED BY <1>0, <1>23, <2>1 DEF TypeOK, HubSkips
<1>24. ASSUME NEW c \in Clients, HubSends(c) PROVE TypeOK'
  <2>1. hub' \in HubStates /\ hub.msg \in Message
    BY <1>0, <1>24, VisitedType DEF HubSends, TypeOK
  <2>2. /\ queue' \in [Clients -> Seq(Message)]
        /\ \A d \in Clients : Len(queue'[d]) <= QueueCap
    BY <1>0, <1>24, <2>1, Appended DEF HubSends, TypeOK
  <2> QED BY <1>0, <1>24, <2>1, <2>2 DEF TypeOK, HubSends
<1>25. ASSUME NEW c \in Clients, HubDropsClient(c) PROVE TypeOK'
  <2>1. hub' \in HubStates /\ hub.msg \in Message
    BY <1>0, <1>25, VisitedType DEF HubDropsClient, TypeOK
  <2>2. DirectoryType'
    BY <1>0, <1>25, <2>1, DirectoryStays DEF HubDropsClient, Message
  <2> QED BY <1>0, <1>25, <2>1, <2>2 DEF TypeOK, HubDropsClient, DirectoryType
<1>26. CASE HubDelivered
  BY <1>0, <1>26 DEF TypeOK, HubDelivered, HubStates
<1>27. CASE CleanupDeletes
  BY <1>0, <1>27 DEF TypeOK, CleanupDeletes, HubStates
<1>28. CASE CleanupFinds
  <2>1. hub' \in HubStates
    BY <1>28 DEF CleanupFinds, HubStates
  <2> QED BY <1>0, <1>28, <2>1 DEF TypeOK, CleanupFinds
<1>29. CASE HttpUpdate
  <2>1. /\ room' \in [Keys -> Objects \cup {None}]
        /\ host' \in [Objects -> Users \cup {None}]
        /\ version' \in [Objects -> Versions]
        /\ unmade' \subseteq Objects
    BY <1>0, <1>29, AdmitType DEF HttpUpdate
  <2> QED BY <1>0, <1>29, <2>1 DEF TypeOK, HttpUpdate
<1>30. ASSUME NEW n \in Names, RoomExpires(n) PROVE TypeOK'
  BY <1>0, <1>30 DEF TypeOK, RoomExpires, Goto
<1>31. CASE UNCHANGED vars
  BY <1>0, <1>31 DEF TypeOK, Goto
<1> QED
  BY <1>1, <1>2, <1>3, <1>4, <1>5, <1>6, <1>7, <1>8, <1>9, <1>10, <1>11, <1>12, <1>13, <1>14, <1>15, <1>16, <1>17, <1>18, <1>19, <1>20, <1>21, <1>22, <1>23, <1>24, <1>25, <1>26, <1>27, <1>28, <1>29, <1>30, <1>31
  DEF Next, Handle, ReaderStep, TextStep, WriterStep, HubStep, HubVisit

-----------------------------------------------------------------------------
(* The reader's own steps keep Control; the others do not touch what it is  *)
(* about.                                                                   *)

LEMMA ReaderMoves ==
  ASSUME TypeOK, NEW c \in Clients, NEW l \in ReaderSteps, Goto(c, l)
  PROVE  pc'[c] = l /\ \A d \in Clients \ {c} : pc'[d] = pc[d]
  BY DEF TypeOK, Goto

LEMMA JobMoves ==
  ASSUME TypeOK, NEW c \in Clients, NEW j, job' = [job EXCEPT ![c] = j] \/ job' = job
  PROVE  \A d \in Clients \ {c} : job'[d] = job[d]
  BY DEF TypeOK

(* A step of c's reader that neither loads nor stores an entry. *)
LEMMA ControlKept ==
  ASSUME Base, NEW c \in Clients,
         pc'[c] \notin {"entry", "store"},
         \A d \in Clients \ {c} : pc'[d] = pc[d] /\ job'[d] = job[d],
         UNCHANGED fields, UNCHANGED history
  PROVE  Control'
  BY DEF Base, Control, fields, history

LEMMA ControlStep == Base /\ [Next]_vars => Control'
<1> SUFFICES ASSUME Base, [Next]_vars PROVE Control'
  OBVIOUS
<1>0. TypeOK /\ Control
  BY DEF Base
<1>1. ASSUME NEW c \in Clients, Join(c) PROVE Control'
  <2>1. PICK n \in Names :
          \/ ReplyWith(c, Reply) /\ UNCHANGED <<roomName, admitted>>
          \/ UNCHANGED <<pc, job, roomName, admitted>>
          \/ /\ room[n] # None
             /\ roomName[c] \in {NoName, n}
             /\ roomName' = [roomName EXCEPT ![c] = n]
             /\ job' = [job EXCEPT ![c] = [NoJob EXCEPT !.method = "join", !.name = n, !.obj = room[n]]]
             /\ admitted' = [admitted EXCEPT ![c] = @ \cup {n}]
             /\ pc' = [pc EXCEPT ![c] = "entry"]
    BY <1>1 DEF Join, HasAccess, Goto
  <2>2. UNCHANGED <<lastUser, isHost, hosted>>
    BY <1>1 DEF Join
  <2>3. CASE ReplyWith(c, Reply) /\ UNCHANGED <<roomName, admitted>>
    <3>1. /\ pc'[c] \notin {"entry", "store"}
          /\ \A d \in Clients \ {c} : pc'[d] = pc[d] /\ job'[d] = job[d]
      BY <1>0, <2>3, ReaderMoves, JobMoves, LabelsAreSteps DEF ReplyWith
    <3> QED BY <2>2, <2>3, <3>1, ControlKept DEF fields, history
  <2>4. CASE UNCHANGED <<pc, job, roomName, admitted>>
    BY <1>0, <2>2, <2>4 DEF Control
  <2>5. CASE /\ room[n] # None
             /\ roomName[c] \in {NoName, n}
             /\ roomName' = [roomName EXCEPT ![c] = n]
             /\ job' = [job EXCEPT ![c] = [NoJob EXCEPT !.method = "join", !.name = n, !.obj = room[n]]]
             /\ admitted' = [admitted EXCEPT ![c] = @ \cup {n}]
             /\ pc' = [pc EXCEPT ![c] = "entry"]
    <3>1. room[n] \in Objects
      BY <1>0, <2>5 DEF TypeOK, Keys
    <3>2. job'[c].name = n /\ job'[c].obj \in Objects
      BY <1>0, <2>5, <3>1 DEF TypeOK, NoJob
    <3>3. isHost[c] => roomName[c] = n
      BY <1>0, <2>5 DEF Control, TypeOK
    <3>4. \A d \in Clients \ {c} : /\ pc'[d] = pc[d] /\ job'[d] = job[d]
                                   /\ roomName'[d] = roomName[d] /\ admitted'[d] = admitted[d]
      BY <1>0, <2>5 DEF TypeOK
    <3>5. pc'[c] = "entry" /\ roomName'[c] = n /\ n \in admitted'[c]
      BY <1>0, <2>5 DEF TypeOK
    <3> QED BY <1>0, <2>2, <3>2, <3>3, <3>4, <3>5 DEF Control
  <2> QED BY <2>1, <2>3, <2>4, <2>5
<1>2. ASSUME NEW c \in Clients, UpdateRefused(c) PROVE Control'
  <2>1. PICK n \in Names : roomName[c] \in {NoName, n} /\ roomName' = [roomName EXCEPT ![c] = n]
    BY <1>2 DEF UpdateRefused, SwitchesRoom
  <2>2. isHost[c] => roomName[c] = n
    BY <1>0, <2>1 DEF Control, TypeOK
  <2>3. /\ pc' = [pc EXCEPT ![c] = "reply"] /\ job' = [job EXCEPT ![c] = NoJob]
        /\ UNCHANGED <<isHost, admitted, hosted>>
    BY <1>2 DEF UpdateRefused, ReplyWith, Goto, history
  <2> QED BY <1>0, <2>1, <2>2, <2>3 DEF Control, TypeOK
<1>3. ASSUME NEW c \in Clients, UpdateAdmitted(c) PROVE Control'
  <2>1. PICK n \in Names, o \in Objects :
          /\ roomName' = [roomName EXCEPT ![c] = n]
          /\ job' = [job EXCEPT ![c] = [NoJob EXCEPT !.method = "update", !.name = n, !.obj = o]]
          /\ admitted' = [admitted EXCEPT ![c] = @ \cup {n}]
          /\ hosted' = [hosted EXCEPT ![c] = @ \cup {n}]
    BY <1>3 DEF UpdateAdmitted
  <2>2. pc' = [pc EXCEPT ![c] = "entry"] /\ isHost' = [isHost EXCEPT ![c] = TRUE]
    BY <1>3 DEF UpdateAdmitted, Goto
  <2>3. job'[c].name = n /\ job'[c].obj = o
    BY <1>0, <2>1 DEF TypeOK, NoJob
  <2>4. \A d \in Clients \ {c} : /\ pc'[d] = pc[d] /\ job'[d] = job[d]
                                 /\ roomName'[d] = roomName[d] /\ admitted'[d] = admitted[d]
                                 /\ hosted'[d] = hosted[d] /\ isHost'[d] = isHost[d]
    BY <1>0, <2>1, <2>2 DEF TypeOK
  <2>5. pc'[c] = "entry" /\ roomName'[c] = n /\ n \in admitted'[c] /\ n \in hosted'[c]
    BY <1>0, <2>1, <2>2 DEF TypeOK
  <2> QED BY <1>0, <2>3, <2>4, <2>5 DEF Control
<1>4. ASSUME NEW c \in Clients, LoadEntry(c) PROVE Control'
  <2>1. job[c].name \in Keys /\ job[c] \in Job
    BY <1>0 DEF TypeOK, Job
  <2>2. EntryOf(job[c].name) \in Entries
    BY <1>0, <2>1, EntryOfType
  <2>3. /\ job'[c].entry = EntryOf(job[c].name)
        /\ job'[c].name = job[c].name /\ job'[c].obj = job[c].obj
        /\ \A d \in Clients \ {c} : pc'[d] = pc[d] /\ job'[d] = job[d]
    BY <1>0, <1>4, <2>1 DEF LoadEntry, TypeOK, Job, Goto
  <2>4. pc[c] = "entry" /\ UNCHANGED <<isHost, roomName, admitted, hosted>>
    BY <1>4 DEF LoadEntry, fields, history
  <2> QED BY <1>0, <2>2, <2>3, <2>4 DEF Control
<1>5. ASSUME NEW c \in Clients, UpdateMember(c) \/ BadRequest(c) \/ Relay(c) PROVE Control'
  <2>1. /\ pc'[c] \notin {"entry", "store"}
        /\ \A d \in Clients \ {c} : pc'[d] = pc[d] /\ job'[d] = job[d]
    <3>1. PICK l, j : l \in {"reply", "check"} /\ Goto(c, l) /\ job' = [job EXCEPT ![c] = j]
      BY <1>5 DEF UpdateMember, BadRequest, Relay, ReplyWith
    <3> QED BY <1>0, <3>1, ReaderMoves, JobMoves, LabelsAreSteps
  <2> QED BY <1>5, <2>1, ControlKept DEF UpdateMember, BadRequest, Relay, fields, history
<1>6. ASSUME NEW c \in Clients,
             StoreClient(c) \/ SendBroadcast(c) \/ SendReply(c) \/ ReadFails(c) \/ Unregister(c)
      PROVE  Control'
  <2>1. /\ pc'[c] \notin {"entry", "store"}
        /\ \A d \in Clients \ {c} : pc'[d] = pc[d] /\ job'[d] = job[d]
    <3>1. CASE StoreClient(c)
      <4>1. PICK l, j : l \in {"reply", "check"} /\ Goto(c, l) /\ job' = [job EXCEPT ![c] = j]
        <5>1. CASE \E m : ReplyWith(c, m)
          BY <5>1 DEF ReplyWith
        <5>2. CASE job' = [job EXCEPT ![c].entry = None, ![c].stamp = version[job[c].obj]]
                   /\ Goto(c, "check")
          BY <5>2
        <5> QED BY <3>1, <5>1, <5>2 DEF StoreClient
      <4> QED BY <1>0, <4>1, ReaderMoves, JobMoves, LabelsAreSteps
    <3>2. CASE ~StoreClient(c)
      <4>1. PICK l \in {"send", "read", "unregister", "gone"} : Goto(c, l) /\ job' = job
        BY <1>6, <3>2 DEF SendBroadcast, SendReply, ReadFails, Unregister
      <4> QED BY <1>0, <4>1, ReaderMoves, LabelsAreSteps
    <3> QED BY <3>1, <3>2
  <2> QED BY <1>6, <2>1, ControlKept
          DEF StoreClient, SendBroadcast, SendReply, ReadFails, Unregister, fields, history
<1>7. ASSUME NEW c \in Clients, DropBroadcast(c) \/ TakeBroadcast(c) PROVE Control'
  <2>1. Done(c) /\ UNCHANGED fields /\ UNCHANGED history
    BY <1>7 DEF DropBroadcast, TakeBroadcast
  <2>2. /\ pc'[c] \notin {"entry", "store"}
        /\ \A d \in Clients \ {c} : pc'[d] = pc[d] /\ job'[d] = job[d]
    BY <1>0, <2>1, DoneType
  <2> QED BY <2>1, <2>2, ControlKept
<1>8. ASSUME UNCHANGED <<pc, job, fields, history>> PROVE Control'
  BY <1>0, <1>8 DEF Control, fields, history
<1>9. ASSUME NEW c \in Clients,
             \/ UpdateOtherRoom(c) \/ SendTextMessage(c) \/ TextStep(c) \/ WriterStep(c)
             \/ TakeText(c) \/ ConnectionBreaks(c)
             \/ HubSkips(c) \/ HubSends(c) \/ HubDropsClient(c)
      PROVE  Control'
  BY <1>8, <1>9
  DEF UpdateOtherRoom, SendTextMessage, TextStep, TextBroadcasts, TextDropped, WriterStep, WriteFrame,
      WriteFails, TakeText, ConnectionBreaks, HubSkips, HubSends, HubDropsClient
<1>10. ASSUME HubDelivered \/ CleanupDeletes \/ CleanupFinds \/ HttpUpdate
              \/ (\E n \in Names : RoomExpires(n)) \/ UNCHANGED vars
       PROVE  Control'
  BY <1>8, <1>10
  DEF HubDelivered, CleanupDeletes, CleanupFinds, HttpUpdate, RoomExpires, vars, fields, history
<1> QED
  BY <1>1, <1>2, <1>3, <1>4, <1>5, <1>6, <1>7, <1>9, <1>10
  DEF Next, Handle, ReaderStep, HubStep, HubVisit

LEMMA BaseStep == Base /\ [Next]_vars => Base'
  BY TypeStep, ControlStep DEF Base

(* Every variable stays in the type the code gives it: no connection, name  *)
(* or room that is nil is ever followed, and no send channel overflows.     *)
THEOREM TypeCorrect == Spec => []TypeOK
<1>1. Base => TypeOK
  BY DEF Base
<1> QED BY <1>1, BaseInit, BaseStep, PTL DEF Spec

LEMMA BaseHolds == Spec => []Base
  BY BaseInit, BaseStep, PTL DEF Spec

-----------------------------------------------------------------------------
(* What a RoomClients object is referred to as: the name it is stored under, *)
(* the name a reader loaded it for, the name the hub delivers to.  An       *)
(* object keeps one name as long as anything refers to it, even after the   *)
(* cleanup took it out of the map, and lists only connections that serve    *)
(* that name and were granted access to it.                                 *)

Refers(e, n) ==
  \/ entry[n] = e
  \/ \E c \in Clients : job[c].entry = e /\ job[c].name = n
  \/ hub.step = "deliver" /\ hub.entry = e /\ hub.msg.name = n

Listed ==
  \A e \in Entries, n \in Keys : Refers(e, n) =>
    /\ \A m \in Keys : Refers(e, m) => m = n
    /\ \A c \in members[e] : roomName[c] = n /\ n \in admitted[c]

LEMMA ListedInit == Init => Listed
  BY NilAssumption DEF Init, Listed, Refers, NoJob, Select

(* A connection never leaves the name it serves, and access once granted is *)
(* remembered.                                                              *)
Loyal ==
  \A c \in Clients : /\ roomName'[c] = roomName[c] \/ roomName[c] = NoName
                     /\ admitted[c] \subseteq admitted'[c]
                     /\ hosted[c] \subseteq hosted'[c]

LEMMA LoyalStep == Base /\ [Next]_vars => Loyal
<1> SUFFICES ASSUME Base, [Next]_vars PROVE Loyal
  OBVIOUS
<1>0. TypeOK
  BY DEF Base
<1>1. ASSUME NEW c \in Clients, Join(c) PROVE Loyal
  <2>1. UNCHANGED hosted
    BY <1>1 DEF Join
  <2>2. PICK n \in Names : /\ \/ UNCHANGED roomName
                              \/ roomName[c] \in {NoName, n} /\ roomName' = [roomName EXCEPT ![c] = n]
                           /\ admitted' = admitted \/ admitted' = [admitted EXCEPT ![c] = @ \cup {n}]
    BY <1>1 DEF Join
  <2> QED BY <1>0, <2>1, <2>2 DEF Loyal, TypeOK
<1>2. ASSUME NEW c \in Clients, UpdateRefused(c) PROVE Loyal
  BY <1>0, <1>2 DEF UpdateRefused, SwitchesRoom, Loyal, TypeOK, history
<1>3. ASSUME NEW c \in Clients, UpdateAdmitted(c) PROVE Loyal
  <2>1. PICK n \in Names : /\ roomName[c] \in {NoName, n} /\ roomName' = [roomName EXCEPT ![c] = n]
                           /\ admitted' = [admitted EXCEPT ![c] = @ \cup {n}]
                           /\ hosted' = [hosted EXCEPT ![c] = @ \cup {n}]
    BY <1>3 DEF UpdateAdmitted, SwitchesRoom
  <2> QED BY <1>0, <2>1 DEF Loyal, TypeOK
<1>4. ASSUME UNCHANGED fields, UNCHANGED history PROVE Loyal
  BY <1>4 DEF Loyal, fields, history
<1>5. ASSUME NEW c \in Clients,
             \/ UpdateOtherRoom(c) \/ UpdateMember(c) \/ Relay(c) \/ BadRequest(c)
             \/ SendTextMessage(c) \/ ReaderStep(c) \/ TextStep(c) \/ WriterStep(c)
             \/ TakeBroadcast(c) \/ TakeText(c) \/ Unregister(c) \/ ConnectionBreaks(c)
             \/ HubSkips(c) \/ HubSends(c) \/ HubDropsClient(c)
      PROVE  Loyal
  <2> USE DEF UpdateOtherRoom, UpdateMember, Relay, BadRequest, SendTextMessage, ReaderStep, LoadEntry,
          StoreClient, SendBroadcast, DropBroadcast, SendReply, ReadFails, TextStep, TextBroadcasts,
          TextDropped, WriterStep, WriteFrame, WriteFails, TakeBroadcast, TakeText, Unregister,
          ConnectionBreaks, HubSkips, HubSends, HubDropsClient
  <2> QED BY <1>4, <1>5
<1>6. ASSUME HubDelivered \/ CleanupDeletes \/ CleanupFinds \/ HttpUpdate
              \/ (\E n \in Names : RoomExpires(n)) \/ UNCHANGED vars
       PROVE  Loyal
  BY <1>4, <1>6
  DEF HubDelivered, CleanupDeletes, CleanupFinds, HttpUpdate, RoomExpires, vars, fields, history
<1> QED
  BY <1>1, <1>2, <1>3, <1>5, <1>6 DEF Next, Handle, HubStep, HubVisit

(* What jobs and the hub refer to after a step that touches name n. *)
JobsRefer(n) ==
  \A d \in Clients : \/ job'[d].entry = None
                     \/ job'[d].entry = job[d].entry /\ job'[d].name = job[d].name
                     \/ job'[d].entry = EntryOf(n) /\ job'[d].name = n
HubRefers(n) ==
  hub'.step = "deliver" =>
    \/ hub.step = "deliver" /\ hub'.entry = hub.entry /\ hub'.msg.name = hub.msg.name
    \/ hub'.entry = EntryOf(n) /\ hub'.msg.name = n

(* What the directory is after it. *)
Touched(n) ==
  /\ \A k \in Keys : entry'[k] = IF k = n THEN EntryOf(n) ELSE entry[k]
  /\ \A e \in Entries : /\ e # EntryOf(n) => members'[e] = members[e]
                        /\ members'[e] \subseteq members[e]
  /\ entry[n] = None => members'[EntryOf(n)] = {}

LEMMA GetTouches ==
  ASSUME TypeOK, NEW n \in Keys
  PROVE  /\ GetRoomClients(n) => Touched(n)
         /\ \A c \in Clients : RemoveClientFromRoom(n, c) => Touched(n)
<1>1. EntryOf(n) \in Entries
  BY EntryOfType
<1>2. CASE entry[n] = None
  BY <1>1, <1>2 DEF GetRoomClients, RemoveClientFromRoom, Touched, TypeOK
<1>3. CASE entry[n] # None
  <2>1. EntryOf(n) = entry[n]
    BY <1>3 DEF EntryOf
  <2> QED BY <1>1, <1>3, <2>1 DEF GetRoomClients, RemoveClientFromRoom, Touched, TypeOK, directory
<1> QED BY <1>2, <1>3

LEMMA ListedTouched ==
  ASSUME Base, Base', Listed, Loyal, NEW n \in Keys, Touched(n), JobsRefer(n), HubRefers(n)
  PROVE  Listed'
<1>1. EntryOf(n) \in Entries
  BY EntryOfType DEF Base
<1> SUFFICES ASSUME NEW e \in Entries, NEW k \in Keys, Refers(e, k)'
             PROVE  /\ \A m \in Keys : Refers(e, m)' => m = k
                    /\ \A c \in members'[e] : roomName'[c] = k /\ k \in admitted'[c]
  BY DEF Listed
<1>2. \A m \in Keys : Refers(e, m)' => Refers(e, m) \/ (e = EntryOf(n) /\ m = n)
  BY NilAssumption DEF Refers, Touched, JobsRefer, HubRefers
<1>3. members'[e] \subseteq members[e] /\ members[e] \subseteq Clients
  <2>1. members'[e] \subseteq members[e]
    BY DEF Touched
  <2>2. members[e] \subseteq Clients
    BY DEF Base, TypeOK
  <2> QED BY <2>1, <2>2
<1>4. CASE Refers(e, k) /\ ~(e = EntryOf(n) /\ entry[n] = None)
  <2>1. \A m \in Keys : Refers(e, m)' => m = k
    <3>1. e = EntryOf(n) => Refers(e, n)
      BY <1>4 DEF Refers, EntryOf
    <3> QED BY <1>2, <1>4, <3>1 DEF Listed
  <2>2. \A c \in members[e] : roomName[c] = k /\ k \in admitted[c] /\ k # NoName
    BY <1>3, <1>4 DEF Listed, Base, TypeOK
  <2> QED BY <1>3, <2>1, <2>2 DEF Loyal
<1>5. CASE e = EntryOf(n) /\ entry[n] = None
  <2>1. e \in Unreferenced
    BY <1>5, FreeEntry DEF Base, TypeOK
  <2>2. \A m \in Keys : ~Refers(e, m)
    BY <2>1 DEF Unreferenced, Refers
  <2>3. members'[e] = {}
    BY <1>5 DEF Touched
  <2> QED BY <1>2, <2>2, <2>3
<1>6. CASE ~Refers(e, k) /\ e = EntryOf(n) /\ entry[n] # None
  BY <1>2, <1>6 DEF Refers, EntryOf
<1> QED BY <1>2, <1>4, <1>5, <1>6

(* Most steps refer to nothing new, and leave the directory alone or take a *)
(* name out of it.                                                          *)
LEMMA ListedKept ==
  ASSUME Base, Base', Listed, Loyal, UNCHANGED members,
         \A k \in Keys : entry'[k] \in {entry[k], None},
         \A d \in Clients : \/ job'[d].entry = None
                            \/ job'[d].entry = job[d].entry /\ job'[d].name = job[d].name,
         hub'.step = "deliver" =>
           hub.step = "deliver" /\ hub'.entry = hub.entry /\ hub'.msg.name = hub.msg.name
  PROVE  Listed'
<1> SUFFICES ASSUME NEW e \in Entries, NEW k \in Keys, Refers(e, k)'
             PROVE  /\ \A m \in Keys : Refers(e, m)' => m = k
                    /\ \A c \in members'[e] : roomName'[c] = k /\ k \in admitted'[c]
  BY DEF Listed
<1>1. \A m \in Keys : Refers(e, m)' => Refers(e, m)
  BY NilAssumption DEF Refers
<1>2. \A c \in members[e] : roomName[c] = k /\ k \in admitted[c] /\ k # NoName /\ c \in Clients
  BY <1>1 DEF Listed, Base, TypeOK
<1> QED BY <1>1, <1>2 DEF Listed, Loyal

(* The hub takes a message for name n. *)
LEMMA DeliverRefers ==
  ASSUME Base, NEW type, NEW n \in Keys, NEW o, NEW s, hub = Select, Deliver(type, n, o, s)
  PROVE  \/ UNCHANGED directory /\ UNCHANGED hub
         \/ Touched(n) /\ HubRefers(n)
<1>1. CASE room[n] = None
  BY <1>1 DEF Deliver
<1>2. CASE room[n] # None
  BY <1>2, GetTouches DEF Deliver, Base, HubRefers, Marshalled
<1> QED BY <1>1, <1>2

LEMMA ListedStep == Base /\ Listed /\ [Next]_vars => Listed'
<1> SUFFICES ASSUME Base, Listed, [Next]_vars PROVE Listed'
  OBVIOUS
<1>0. TypeOK /\ Control /\ Base' /\ Loyal
  BY BaseStep, LoyalStep DEF Base
<1> DEFINE JobsKept == \A d \in Clients : \/ job'[d].entry = None
                                          \/ job'[d].entry = job[d].entry /\ job'[d].name = job[d].name
<1>1. ASSUME NEW c \in Clients, NEW j, j.entry = None, job' = [job EXCEPT ![c] = j] PROVE JobsKept
  BY <1>0, <1>1 DEF TypeOK
<1>2. NoJob.entry = None
  BY DEF NoJob
<1>3. ASSUME UNCHANGED <<directory, hub>>, JobsKept PROVE Listed'
  <2>1. UNCHANGED <<entry, members, hub>>
    BY <1>3 DEF directory
  <2>2. \A k \in Keys : entry'[k] \in {entry[k], None}
    BY <2>1
  <2> QED BY <1>0, <1>3, <2>1, <2>2, ListedKept
<1>4. ASSUME NEW c \in Clients,
             Join(c) \/ UpdateRefused(c) \/ UpdateAdmitted(c) \/ UpdateMember(c) \/ Relay(c) \/ BadRequest(c)
      PROVE  Listed'
  <2>1. \E j : j.entry = None /\ (job' = job \/ job' = [job EXCEPT ![c] = j])
    <3>1. CASE Join(c)
      BY <1>2, <3>1 DEF Join, ReplyWith, NoJob
    <3>2. CASE UpdateAdmitted(c)
      BY <3>2 DEF UpdateAdmitted, NoJob
    <3>3. CASE UpdateMember(c)
      BY <1>2, <3>3 DEF UpdateMember, ReplyWith, NoJob
    <3>4. CASE Relay(c)
      BY <3>4 DEF Relay, NoJob
    <3>5. CASE UpdateRefused(c) \/ BadRequest(c)
      BY <1>2, <3>5 DEF UpdateRefused, BadRequest, ReplyWith
    <3> QED BY <1>4, <3>1, <3>2, <3>3, <3>4, <3>5
  <2>2. UNCHANGED <<directory, hub>>
    BY <1>4 DEF Join, UpdateRefused, UpdateAdmitted, UpdateMember, Relay, BadRequest
  <2> QED BY <1>1, <1>3, <2>1, <2>2
<1>5. ASSUME NEW c \in Clients, LoadEntry(c) PROVE Listed'
  <2> DEFINE n == job[c].name
  <2>1. n \in Keys /\ job[c] \in Job
    BY <1>0 DEF TypeOK, Job
  <2>2. Touched(n) /\ HubRefers(n)
    BY <1>0, <1>5, <2>1, GetTouches DEF LoadEntry, HubRefers
  <2>3. JobsRefer(n)
    BY <1>0, <1>5, <2>1 DEF LoadEntry, JobsRefer, TypeOK, Job
  <2> HIDE DEF n
  <2> QED BY <1>0, <2>1, <2>2, <2>3, ListedTouched
<1>6. ASSUME NEW c \in Clients, StoreClient(c) PROVE Listed'
  <2>1. /\ job[c].entry \in Entries /\ job[c].name \in Keys
        /\ roomName[c] = job[c].name /\ job[c].name \in admitted[c]
    BY <1>0, <1>6 DEF StoreClient, Control, Keys
  <2>2. JobsKept
    <3>1. CASE job' = [job EXCEPT ![c] = NoJob]
      BY <1>1, <1>2, <3>1
    <3>2. CASE job' = [job EXCEPT ![c].entry = None, ![c].stamp = version[job[c].obj]]
      BY <1>0, <3>2 DEF TypeOK, Job
    <3> QED BY <1>6, <3>1, <3>2 DEF StoreClient, ReplyWith
  <2>3. UNCHANGED <<entry, hub, roomName, admitted>>
    BY <1>6 DEF StoreClient, fields, history
  <2>4. members' = [members EXCEPT ![job[c].entry] = @ \cup {c}]
    BY <1>6 DEF StoreClient
  <2> SUFFICES ASSUME NEW e \in Entries, NEW k \in Keys, Refers(e, k)'
               PROVE  /\ \A m \in Keys : Refers(e, m)' => m = k
                      /\ \A d \in members'[e] : roomName'[d] = k /\ k \in admitted'[d]
    BY DEF Listed
  <2>5. \A m \in Keys : Refers(e, m)' => Refers(e, m)
    BY <2>2, <2>3, NilAssumption DEF Refers
  <2>6. members'[e] = IF e = job[c].entry THEN members[e] \cup {c} ELSE members[e]
    BY <1>0, <2>1, <2>4 DEF TypeOK
  <2>7. e = job[c].entry => k = job[c].name
    BY <2>1, <2>5 DEF Refers, Listed
  <2> QED BY <2>1, <2>3, <2>5, <2>6, <2>7 DEF Listed
<1>7. ASSUME NEW c \in Clients, DropBroadcast(c) \/ TextDropped(c) PROVE Listed'
  <2>1. JobsKept
    <3>1. CASE DropBroadcast(c)
      BY <1>0, <1>2, <3>1, DoneType DEF DropBroadcast, TypeOK
    <3>2. CASE TextDropped(c)
      BY <3>2 DEF TextDropped
    <3> QED BY <1>7, <3>1, <3>2
  <2>2. UNCHANGED hub
    BY <1>7 DEF DropBroadcast, TextDropped
  <2>3. UNCHANGED directory \/ GetRoomClients(roomName[c])
    BY <1>7 DEF DropBroadcast, TextDropped
  <2>4. roomName[c] \in Keys
    BY <1>0 DEF TypeOK
  <2>5. CASE GetRoomClients(roomName[c])
    BY <1>0, <2>1, <2>2, <2>4, <2>5, GetTouches, ListedTouched DEF JobsRefer, HubRefers
  <2> QED BY <1>3, <2>1, <2>2, <2>3, <2>5
<1>8. ASSUME NEW c \in Clients, TakeBroadcast(c) \/ TakeText(c) PROVE Listed'
  <2>1. JobsKept
    <3>1. CASE TakeBroadcast(c)
      BY <1>0, <1>2, <3>1, DoneType DEF TakeBroadcast, TypeOK
    <3>2. CASE TakeText(c)
      BY <3>2 DEF TakeText
    <3> QED BY <1>8, <3>1, <3>2
  <2>2. hub = Select /\ \E n \in Keys : \E type, o, s : Deliver(type, n, o, s)
    <3>1. CASE TakeBroadcast(c)
      <4>1. job[c].name \in Keys
        BY <1>0 DEF TypeOK, Job
      <4> QED BY <3>1, <4>1 DEF TakeBroadcast
    <3>2. CASE TakeText(c)
      <4>1. text[c] \in Keys
        BY <3>2 DEF TakeText, Keys
      <4> QED BY <3>2, <4>1 DEF TakeText
    <3> QED BY <1>8, <3>1, <3>2
  <2>3. PICK n \in Keys : \/ UNCHANGED directory /\ UNCHANGED hub
                          \/ Touched(n) /\ HubRefers(n)
    BY <2>2, DeliverRefers
  <2> QED BY <1>0, <1>3, <2>1, <2>3, ListedTouched DEF JobsRefer
<1>9. ASSUME NEW c \in Clients, HubSkips(c) \/ HubSends(c) PROVE Listed'
  <2>1. /\ hub'.step = "deliver" => hub.step = "deliver" /\ hub'.entry = hub.entry
                                    /\ hub'.msg.name = hub.msg.name
        /\ UNCHANGED <<entry, members, job>>
    BY <1>0, <1>9, VisitedType DEF HubSkips, HubSends, TypeOK, directory
  <2> QED BY <1>0, <2>1, ListedKept
<1>10. ASSUME NEW c \in Clients, HubDropsClient(c) PROVE Listed'
  <2>1. /\ hub.step = "deliver" /\ hub'.entry = hub.entry /\ hub'.msg.name = hub.msg.name
        /\ hub.msg.name \in Keys /\ UNCHANGED job
    BY <1>0, <1>10, VisitedType DEF HubDropsClient, TypeOK, Message
  <2>2. Touched(hub.msg.name)
    BY <1>0, <1>10, <2>1, GetTouches DEF HubDropsClient
  <2> QED BY <1>0, <2>1, <2>2, ListedTouched DEF JobsRefer, HubRefers
<1>11. ASSUME NEW c \in Clients, Unregister(c) PROVE Listed'
  <2>1. roomName[c] \in Keys /\ UNCHANGED <<job, hub>>
    BY <1>0, <1>11 DEF Unregister, TypeOK
  <2>2. Touched(roomName[c])
    BY <1>0, <1>11, <2>1, GetTouches DEF Unregister
  <2> QED BY <1>0, <2>1, <2>2, ListedTouched DEF JobsRefer, HubRefers
<1>12. ASSUME HubDelivered \/ CleanupFinds \/ CleanupDeletes PROVE Listed'
  <2>1. hub'.step # "deliver" /\ UNCHANGED <<members, job>>
    BY <1>12 DEF HubDelivered, CleanupFinds, CleanupDeletes, Select, directory
  <2>2. \A k \in Keys : entry'[k] \in {entry[k], None}
    BY <1>0, <1>12 DEF HubDelivered, CleanupFinds, CleanupDeletes, directory, TypeOK
  <2> QED BY <1>0, <2>1, <2>2, ListedKept
<1>13. ASSUME UNCHANGED <<directory, hub, job>> PROVE Listed'
  BY <1>3, <1>13
<1>14. ASSUME NEW c \in Clients,
              \/ UpdateOtherRoom(c) \/ SendTextMessage(c) \/ SendBroadcast(c) \/ SendReply(c)
              \/ ReadFails(c) \/ TextBroadcasts(c) \/ WriterStep(c) \/ ConnectionBreaks(c)
       PROVE  Listed'
  BY <1>13, <1>14
  DEF UpdateOtherRoom, SendTextMessage, SendBroadcast, SendReply, ReadFails, TextBroadcasts, WriterStep,
      WriteFrame, WriteFails, ConnectionBreaks
<1>15. ASSUME HttpUpdate \/ (\E n \in Names : RoomExpires(n)) \/ UNCHANGED vars PROVE Listed'
  BY <1>13, <1>15 DEF HttpUpdate, RoomExpires, vars, directory
<1> QED
  BY <1>4, <1>5, <1>6, <1>7, <1>8, <1>9, <1>10, <1>11, <1>12, <1>14, <1>15
  DEF Next, Handle, ReaderStep, TextStep, HubStep, HubVisit

LEMMA ListedHolds == Spec => [](Base /\ Listed)
  BY BaseInit, ListedInit, BaseStep, ListedStep, PTL DEF Spec

(* A connection is listed under no name but the one it serves, whatever the *)
(* readers, the hub and the cleanup tick do between the steps of            *)
(* addClientToRoom: its departure finds every list it is on.                *)
THEOREM OneRoom == Spec => []OneRoomPerConnection
<1>1. Base /\ Listed => OneRoomPerConnection
  <2> SUFFICES ASSUME Base, Listed, NEW n \in Keys, NEW c \in Hears(n) PROVE roomName[c] = n
    BY DEF OneRoomPerConnection
  <2>1. entry[n] # None /\ c \in members[entry[n]]
    BY DEF Hears
  <2>2. entry[n] \in Entries /\ Refers(entry[n], n)
    BY <2>1 DEF Base, TypeOK, Refers
  <2> QED BY <2>1, <2>2 DEF Listed
<1> QED BY <1>1, ListedHolds, PTL

-----------------------------------------------------------------------------
(* Who hears a broadcast.  Every message in a send channel is a reply, or   *)
(* fits the connection it waits for.                                        *)

Fits(c, m) ==
  m.type # "reply" => /\ m.name \in admitted[c]
                      /\ m.type = "HOST" => m.name \in hosted[c]

RepliesPend == \A c \in Clients : pending[c].type = "reply"
AllFit == \A c \in Clients : \A i \in 1 .. Len(queue[c]) : Fits(c, queue[c][i])

LEMMA RepliesStep == Base /\ RepliesPend /\ [Next]_vars => RepliesPend'
<1> SUFFICES ASSUME Base, RepliesPend, [Next]_vars PROVE RepliesPend'
  OBVIOUS
<1>0. TypeOK
  BY DEF Base
<1>1. ASSUME NEW c \in Clients, NEW m, m.type = "reply", ReplyWith(c, m) \/ pending' = [pending EXCEPT ![c] = m]
      PROVE  RepliesPend'
  BY <1>0, <1>1 DEF RepliesPend, ReplyWith, TypeOK
<1>2. ASSUME UNCHANGED pending PROVE RepliesPend'
  BY <1>2 DEF RepliesPend
<1>3. Reply.type = "reply"
  BY DEF Reply
<1>4. ASSUME NEW c \in Clients,
             \/ Join(c) \/ UpdateRefused(c) \/ UpdateMember(c) \/ BadRequest(c) \/ SendReply(c)
             \/ DropBroadcast(c) \/ TakeBroadcast(c)
      PROVE  RepliesPend'
  <2>1. \/ ReplyWith(c, Reply) \/ pending' = [pending EXCEPT ![c] = Reply] \/ UNCHANGED pending
    BY <1>4 DEF Join, UpdateRefused, UpdateMember, BadRequest, SendReply, DropBroadcast, TakeBroadcast, Done
  <2> QED BY <1>1, <1>2, <1>3, <2>1
<1>5. ASSUME NEW c \in Clients, StoreClient(c) PROVE RepliesPend'
  <2> DEFINE m == Marshalled("reply", job[c].name, job[c].obj, version[job[c].obj])
  <2>1. ReplyWith(c, m) \/ UNCHANGED pending
    BY <1>5 DEF StoreClient
  <2>2. m.type = "reply"
    BY DEF Marshalled
  <2> HIDE DEF m
  <2> QED BY <1>1, <1>2, <2>1, <2>2
<1>6. ASSUME NEW c \in Clients,
             \/ UpdateOtherRoom(c) \/ UpdateAdmitted(c) \/ Relay(c) \/ SendTextMessage(c)
             \/ LoadEntry(c) \/ SendBroadcast(c) \/ ReadFails(c) \/ TextStep(c) \/ WriterStep(c)
             \/ TakeText(c) \/ Unregister(c) \/ ConnectionBreaks(c)
             \/ HubSkips(c) \/ HubSends(c) \/ HubDropsClient(c)
      PROVE  RepliesPend'
  <2> USE DEF UpdateOtherRoom, UpdateAdmitted, Relay, SendTextMessage, LoadEntry, SendBroadcast, ReadFails,
          TextStep, TextBroadcasts, TextDropped, WriterStep, WriteFrame, WriteFails, TakeText, Unregister,
          ConnectionBreaks, HubSkips, HubSends, HubDropsClient
  <2> QED BY <1>2, <1>6
<1>7. ASSUME HubDelivered \/ CleanupDeletes \/ CleanupFinds \/ HttpUpdate
             \/ (\E n \in Names : RoomExpires(n)) \/ UNCHANGED vars
      PROVE  RepliesPend'
  BY <1>2, <1>7 DEF HubDelivered, CleanupDeletes, CleanupFinds, HttpUpdate, RoomExpires, vars
<1> QED
  BY <1>4, <1>5, <1>6, <1>7 DEF Next, Handle, ReaderStep, HubStep, HubVisit

(* What a step makes of a send channel: nothing, or the reply in front of   *)
(* it, the hub's message, or the writer's frame. *)
Put(c, m) == /\ Len(queue[c]) < QueueCap
             /\ queue' = [queue EXCEPT ![c] = Append(@, m)]

QueueStep ==
  \/ UNCHANGED queue
  \/ \E c \in Clients :
       \/ Put(c, pending[c])
       \/ HubSends(c)
       \/ queue' = [queue EXCEPT ![c] = <<>>]
       \/ queue[c] # <<>> /\ queue' = [queue EXCEPT ![c] = Tail(@)]

LEMMA QueueSteps == [Next]_vars => QueueStep
<1> SUFFICES ASSUME [Next]_vars PROVE QueueStep
  OBVIOUS
<1>1. ASSUME NEW c \in Clients, SendReply(c) \/ HubSends(c) \/ WriterStep(c) PROVE QueueStep
  <2>1. CASE SendReply(c)
    BY <2>1 DEF SendReply, QueueStep, Put
  <2>2. CASE HubSends(c)
    BY <2>2 DEF QueueStep
  <2>3. CASE WriteFrame(c)
    BY <2>3 DEF WriteFrame, QueueStep
  <2>4. CASE WriteFails(c)
    <3>1. CASE queue[c] = <<>>
      BY <2>4, <3>1 DEF WriteFails, QueueStep
    <3>2. CASE queue[c] # <<>>
      BY <2>4, <3>2 DEF WriteFails, QueueStep
    <3> QED BY <3>1, <3>2
  <2> QED BY <1>1, <2>1, <2>2, <2>3, <2>4 DEF WriterStep
<1>2. ASSUME NEW c \in Clients,
             \/ Handle(c) \/ LoadEntry(c) \/ StoreClient(c) \/ SendBroadcast(c) \/ DropBroadcast(c)
             \/ ReadFails(c) \/ TextStep(c) \/ TakeBroadcast(c) \/ TakeText(c) \/ Unregister(c)
             \/ ConnectionBreaks(c) \/ HubSkips(c) \/ HubDropsClient(c)
      PROVE  UNCHANGED queue
  <2> USE DEF Handle, Join, UpdateOtherRoom, UpdateRefused, UpdateAdmitted, UpdateMember, Relay, BadRequest,
          SendTextMessage, LoadEntry, StoreClient, SendBroadcast, DropBroadcast, ReadFails, TextStep,
          TextBroadcasts, TextDropped, TakeBroadcast, TakeText, Unregister, ConnectionBreaks, HubSkips,
          HubDropsClient
  <2> QED BY <1>2
<1>3. ASSUME HubDelivered \/ CleanupDeletes \/ CleanupFinds \/ HttpUpdate
             \/ (\E n \in Names : RoomExpires(n)) \/ UNCHANGED vars
      PROVE  UNCHANGED queue
  BY <1>3 DEF HubDelivered, CleanupDeletes, CleanupFinds, HttpUpdate, RoomExpires, vars
<1> QED
  BY <1>1, <1>2, <1>3 DEF Next, ReaderStep, HubStep, HubVisit, QueueStep

(* The messages in a channel after each of these. *)
LEMMA PutMessages ==
  ASSUME TypeOK, NEW c \in Clients, NEW m \in Message, queue' = [queue EXCEPT ![c] = Append(@, m)]
  PROVE  /\ Len(queue'[c]) = Len(queue[c]) + 1
         /\ \A i \in 1 .. Len(queue'[c]) :
              queue'[c][i] = IF i = Len(queue[c]) + 1 THEN m ELSE queue[c][i]
         /\ \A d \in Clients \ {c} : queue'[d] = queue[d]
<1>1. queue[c] \in Seq(Message) /\ queue'[c] = Append(queue[c], m)
  BY DEF TypeOK
<1>2. \A d \in Clients \ {c} : queue'[d] = queue[d]
  BY DEF TypeOK
<1> QED BY <1>1, <1>2

LEMMA DroppedMessages ==
  ASSUME TypeOK, NEW c \in Clients,
         \/ queue' = [queue EXCEPT ![c] = <<>>]
         \/ queue[c] # <<>> /\ queue' = [queue EXCEPT ![c] = Tail(@)]
  PROVE  /\ \E k \in 0 .. Len(queue[c]) :
              /\ Len(queue'[c]) = Len(queue[c]) - k
              /\ \A i \in 1 .. Len(queue'[c]) : queue'[c][i] = queue[c][i + k]
         /\ \A d \in Clients \ {c} : queue'[d] = queue[d]
<1>1. queue[c] \in Seq(Message) /\ Len(queue[c]) \in Nat
  BY DEF TypeOK
<1>2. \A d \in Clients \ {c} : queue'[d] = queue[d]
  BY DEF TypeOK
<1>3. CASE queue' = [queue EXCEPT ![c] = <<>>]
  <2>1. queue'[c] = <<>>
    BY <1>3 DEF TypeOK
  <2>2. /\ Len(queue'[c]) = Len(queue[c]) - Len(queue[c])
        /\ \A i \in 1 .. Len(queue'[c]) : queue'[c][i] = queue[c][i + Len(queue[c])]
    BY <1>1, <2>1
  <2>3. Len(queue[c]) \in 0 .. Len(queue[c])
    BY <1>1
  <2> QED BY <1>2, <2>2, <2>3
<1>4. CASE queue[c] # <<>> /\ queue' = [queue EXCEPT ![c] = Tail(@)]
  <2>1. queue'[c] = Tail(queue[c])
    BY <1>4 DEF TypeOK
  <2>2. Len(queue[c]) > 0 /\ Len(queue'[c]) = Len(queue[c]) - 1
    <3>1. Len(queue[c]) \in Nat \ {0}
      BY <1>1, <1>4, EmptySeq
    <3>2. Len(Tail(queue[c])) = Len(queue[c]) - 1
      BY <1>1, <1>4, HeadTailProperties
    <3> QED BY <2>1, <3>1, <3>2
  <2>3. \A i \in 1 .. Len(queue'[c]) : queue'[c][i] = queue[c][i + 1]
    BY <1>1, <1>4, <2>1, <2>2
  <2>4. 1 \in 0 .. Len(queue[c])
    BY <1>1, <2>2
  <2> QED BY <1>2, <2>2, <2>3, <2>4
<1> QED BY <1>3, <1>4

(* The same of a message after the step. *)
StillFits(c, m) ==
  m.type # "reply" => /\ m.name \in admitted'[c]
                      /\ m.type = "HOST" => m.name \in hosted'[c]

LEMMA FitsKept ==
  ASSUME Loyal, NEW c \in Clients, NEW m, Fits(c, m)
  PROVE  StillFits(c, m)
  BY DEF Fits, StillFits, Loyal

(* The hub means a host by its own admitted update, and finds only admitted *)
(* connections in a list.                                                   *)
LEMMA HubMessageFits ==
  ASSUME Base, Listed, NEW c \in Clients, HubSends(c)
  PROVE  Fits(c, hub.msg) /\ hub.msg \in Message
<1>1. /\ hub.step = "deliver" /\ hub.entry \in Entries /\ hub.msg \in Message /\ c \in members[hub.entry]
  BY VisitedType DEF HubSends, Base, TypeOK
<1>2. hub.msg.name \in Keys /\ Refers(hub.entry, hub.msg.name)
  BY <1>1 DEF Message, Refers
<1>3. roomName[c] = hub.msg.name /\ hub.msg.name \in admitted[c]
  BY <1>1, <1>2 DEF Listed
<1>4. hub.msg.type = "HOST" => hub.msg.name \in hosted[c]
  BY <1>3 DEF HubSends, Wants, Base, Control
<1> QED BY <1>1, <1>3, <1>4 DEF Fits

LEMMA FitStep == Base /\ Listed /\ RepliesPend /\ AllFit /\ [Next]_vars => AllFit'
<1> SUFFICES ASSUME Base, Listed, RepliesPend, AllFit, [Next]_vars PROVE AllFit'
  OBVIOUS
<1>0. TypeOK /\ Loyal /\ QueueStep
  BY LoyalStep, QueueSteps DEF Base
<1> SUFFICES \A c \in Clients : \A i \in 1 .. Len(queue'[c]) : StillFits(c, queue'[c][i])
  BY DEF AllFit, Fits, StillFits
<1>1. ASSUME NEW d \in Clients, queue'[d] = queue[d], NEW i \in 1 .. Len(queue'[d])
      PROVE  StillFits(d, queue'[d][i])
  BY <1>0, <1>1, FitsKept DEF AllFit
<1>2. CASE UNCHANGED queue
  BY <1>1, <1>2
<1>3. ASSUME NEW c \in Clients, NEW m \in Message, Fits(c, m), queue' = [queue EXCEPT ![c] = Append(@, m)]
      PROVE  \A d \in Clients : \A i \in 1 .. Len(queue'[d]) : StillFits(d, queue'[d][i])
  <2>1. \A i \in 1 .. Len(queue'[c]) : StillFits(c, queue'[c][i])
    <3> TAKE i \in 1 .. Len(queue'[c])
    <3>1. Len(queue[c]) \in Nat
      BY <1>0 DEF TypeOK
    <3>2. i \in 1 .. Len(queue[c]) \/ queue'[c][i] = m
      BY <1>0, <1>3, <3>1, PutMessages
    <3>3. i \in 1 .. Len(queue[c]) => queue'[c][i] = queue[c][i]
      BY <1>0, <1>3, <3>1, PutMessages
    <3>4. Fits(c, queue'[c][i])
      BY <1>3, <3>2, <3>3 DEF AllFit
    <3> QED BY <1>0, <3>4, FitsKept
  <2>2. \A d \in Clients \ {c} : queue'[d] = queue[d]
    BY <1>0, <1>3, PutMessages
  <2> QED BY <1>1, <2>1, <2>2
<1>4. ASSUME NEW c \in Clients, Put(c, pending[c])
      PROVE  \A d \in Clients : \A i \in 1 .. Len(queue'[d]) : StillFits(d, queue'[d][i])
  BY <1>0, <1>3, <1>4 DEF Put, Fits, RepliesPend, TypeOK
<1>5. ASSUME NEW c \in Clients, HubSends(c)
      PROVE  \A d \in Clients : \A i \in 1 .. Len(queue'[d]) : StillFits(d, queue'[d][i])
  <2>1. queue' = [queue EXCEPT ![c] = Append(@, hub.msg)]
    BY <1>5 DEF HubSends
  <2> QED BY <1>3, <1>5, <2>1, HubMessageFits
<1>6. ASSUME NEW c \in Clients,
             \/ queue' = [queue EXCEPT ![c] = <<>>]
             \/ queue[c] # <<>> /\ queue' = [queue EXCEPT ![c] = Tail(@)]
      PROVE  \A d \in Clients : \A i \in 1 .. Len(queue'[d]) : StillFits(d, queue'[d][i])
  <2>1. PICK k \in 0 .. Len(queue[c]) :
          /\ Len(queue'[c]) = Len(queue[c]) - k
          /\ \A i \in 1 .. Len(queue'[c]) : queue'[c][i] = queue[c][i + k]
    BY <1>0, <1>6, DroppedMessages
  <2>2. \A i \in 1 .. Len(queue'[c]) : StillFits(c, queue'[c][i])
    <3> TAKE i \in 1 .. Len(queue'[c])
    <3>1. Len(queue[c]) \in Nat
      BY <1>0 DEF TypeOK
    <3>2. i + k \in 1 .. Len(queue[c])
      BY <2>1, <3>1
    <3> QED BY <1>0, <2>1, <3>2, FitsKept DEF AllFit
  <2>3. \A d \in Clients \ {c} : queue'[d] = queue[d]
    BY <1>0, <1>6, DroppedMessages
  <2> QED BY <1>1, <2>2, <2>3
<1> QED BY <1>0, <1>2, <1>4, <1>5, <1>6 DEF QueueStep

LEMMA FitHolds == Spec => [](Base /\ Listed /\ AllFit)
<1>1. Init => RepliesPend /\ AllFit
  BY DEF Init, RepliesPend, AllFit, Reply
<1> QED BY <1>1, BaseInit, ListedInit, BaseStep, ListedStep, RepliesStep, FitStep, PTL DEF Spec

(* A broadcast of a room is heard only by connections that were themselves  *)
(* granted access to a room of that name, whatever becomes of the list they *)
(* are on between the check of a password and the delivery.                 *)
THEOREM AdmittedHear == Spec => []OnlyAdmittedHear
<1>1. AllFit => OnlyAdmittedHear
  BY DEF AllFit, OnlyAdmittedHear, Broadcasts, Fits
<1> QED BY <1>1, FitHolds, PTL

(* A request meant for the host reaches only connections whose own update   *)
(* of that name was admitted.                                               *)
THEOREM RequestsReachHosts == Spec => []HostTrafficToHosts
<1>1. AllFit => HostTrafficToHosts
  BY DEF AllFit, HostTrafficToHosts, Broadcasts, Fits
<1> QED BY <1>1, FitHolds, PTL

-----------------------------------------------------------------------------
(* A connection whose reader has ended is on no list, and gets on none.     *)

LEMMA GoneStep == Base /\ Listed /\ GoneIsForgotten /\ [Next]_vars => GoneIsForgotten'
<1> SUFFICES ASSUME Base, Listed, GoneIsForgotten, [Next]_vars PROVE GoneIsForgotten'
  OBVIOUS
<1>0. TypeOK /\ Control
  BY DEF Base
<1>1. ASSUME UNCHANGED directory, \A d \in Clients : pc'[d] = "gone" => pc[d] = "gone"
      PROVE  GoneIsForgotten'
  BY <1>1 DEF GoneIsForgotten, Hears, directory
<1>2. ASSUME NEW n \in Keys, Touched(n) PROVE \A k \in Keys : Hears(k)' \subseteq Hears(k)
  <2> TAKE k \in Keys
  <2>1. /\ EntryOf(n) \in Entries
        /\ entry[k] \in Entries \cup {None}
    BY <1>0, EntryOfType DEF TypeOK
  <2>2. CASE k = n /\ entry[n] = None
    BY <1>2, <2>1, <2>2, NilAssumption DEF Touched, Hears
  <2>3. CASE k = n /\ entry[n] # None
    <3>1. entry'[k] = entry[k] /\ entry[k] \in Entries
      BY <1>2, <2>1, <2>3 DEF Touched, EntryOf
    <3> QED BY <1>2, <2>3, <3>1 DEF Touched, Hears
  <2>4. CASE k # n
    <3>1. entry'[k] = entry[k]
      BY <1>2, <2>4 DEF Touched
    <3> QED BY <1>2, <2>1, <3>1 DEF Touched, Hears
  <2> QED BY <2>2, <2>3, <2>4
<1>3. ASSUME NEW n \in Keys, Touched(n), \A d \in Clients : pc'[d] = "gone" => pc[d] = "gone"
      PROVE  GoneIsForgotten'
  BY <1>2, <1>3 DEF GoneIsForgotten
<1>4. ASSUME NEW c \in Clients, NEW l \in ReaderSteps, l # "gone", Goto(c, l)
      PROVE  \A d \in Clients : pc'[d] = "gone" => pc[d] = "gone"
  BY <1>0, <1>4, ReaderMoves
<1>5. ASSUME NEW c \in Clients, Handle(c) PROVE GoneIsForgotten'
  <2>1. UNCHANGED directory
    BY <1>5 DEF Handle, Join, UpdateOtherRoom, UpdateRefused, UpdateAdmitted, UpdateMember, Relay, BadRequest,
                SendTextMessage
  <2>2. UNCHANGED pc \/ \E l \in {"entry", "check", "reply"} : Goto(c, l)
    BY <1>5 DEF Handle, Join, UpdateOtherRoom, UpdateRefused, UpdateAdmitted, UpdateMember, Relay, BadRequest,
                SendTextMessage, ReplyWith
  <2> QED BY <1>1, <1>4, <2>1, <2>2, LabelsAreSteps
<1>6. ASSUME NEW c \in Clients, LoadEntry(c) PROVE GoneIsForgotten'
  <2>1. job[c].name \in Keys
    BY <1>0 DEF TypeOK, Job
  <2>2. Touched(job[c].name)
    BY <1>0, <1>6, <2>1, GetTouches DEF LoadEntry
  <2>3. Goto(c, "store")
    BY <1>6 DEF LoadEntry
  <2> QED BY <1>3, <1>4, <2>1, <2>2, <2>3, LabelsAreSteps
<1>7. ASSUME NEW c \in Clients, StoreClient(c) PROVE GoneIsForgotten'
  <2>1. job[c].entry \in Entries /\ pc[c] = "store"
    BY <1>0, <1>7 DEF StoreClient, Control
  <2>2. \A e \in Entries : members'[e] \subseteq members[e] \cup {c}
    BY <1>0, <1>7, <2>1 DEF StoreClient, TypeOK
  <2>3. \A d \in Clients : pc'[d] = "gone" => pc[d] = "gone" /\ d # c
    <3>1. Goto(c, "reply") \/ Goto(c, "check")
      BY <1>7 DEF StoreClient, ReplyWith
    <3> QED BY <1>0, <3>1, ReaderMoves, LabelsAreSteps
  <2>4. UNCHANGED entry
    BY <1>7 DEF StoreClient
  <2>5. \A k \in Keys : Hears(k)' \subseteq Hears(k) \cup {c}
    BY <1>0, <2>2, <2>4 DEF Hears, TypeOK
  <2> QED BY <2>3, <2>5 DEF GoneIsForgotten
<1>8. ASSUME NEW c \in Clients, SendBroadcast(c) \/ SendReply(c) \/ ReadFails(c) PROVE GoneIsForgotten'
  <2>1. \E l \in {"send", "read", "unregister"} : Goto(c, l)
    BY <1>8 DEF SendBroadcast, SendReply, ReadFails
  <2>2. UNCHANGED directory
    BY <1>8 DEF SendBroadcast, SendReply, ReadFails
  <2> QED BY <1>1, <1>4, <2>1, <2>2, LabelsAreSteps
<1>9. ASSUME NEW c \in Clients, DropBroadcast(c) \/ TextDropped(c) PROVE GoneIsForgotten'
  <2>1. \A d \in Clients : pc'[d] = "gone" => pc[d] = "gone"
    <3>1. CASE DropBroadcast(c)
      BY <1>0, <3>1, DoneType DEF DropBroadcast
    <3>2. CASE TextDropped(c)
      BY <3>2 DEF TextDropped
    <3> QED BY <1>9, <3>1, <3>2
  <2>2. roomName[c] \in Keys
    BY <1>0 DEF TypeOK
  <2>3. UNCHANGED directory \/ Touched(roomName[c])
    BY <1>0, <1>9, <2>2, GetTouches DEF DropBroadcast, TextDropped
  <2> QED BY <1>1, <1>3, <2>1, <2>2, <2>3
<1>10. ASSUME NEW c \in Clients, TakeBroadcast(c) \/ TakeText(c) PROVE GoneIsForgotten'
  <2>1. \A d \in Clients : pc'[d] = "gone" => pc[d] = "gone"
    <3>1. CASE TakeBroadcast(c)
      BY <1>0, <3>1, DoneType DEF TakeBroadcast
    <3>2. CASE TakeText(c)
      BY <3>2 DEF TakeText
    <3> QED BY <1>10, <3>1, <3>2
  <2>2. PICK n \in Keys : UNCHANGED directory \/ Touched(n)
    <3>1. CASE TakeBroadcast(c)
      <4>1. job[c].name \in Keys
        BY <1>0 DEF TypeOK, Job
      <4> QED BY <3>1, <4>1, DeliverRefers DEF TakeBroadcast
    <3>2. CASE TakeText(c)
      <4>1. text[c] \in Keys
        BY <3>2 DEF TakeText, Keys
      <4> QED BY <3>2, <4>1, DeliverRefers DEF TakeText
    <3> QED BY <1>10, <3>1, <3>2
  <2> QED BY <1>1, <1>3, <2>1, <2>2
<1>11. ASSUME NEW c \in Clients, HubDropsClient(c) PROVE GoneIsForgotten'
  <2>1. hub.msg.name \in Keys /\ UNCHANGED pc
    BY <1>0, <1>11, VisitedType DEF HubDropsClient, TypeOK, Message
  <2>2. Touched(hub.msg.name)
    BY <1>0, <1>11, <2>1, GetTouches DEF HubDropsClient
  <2> QED BY <1>3, <2>1, <2>2
<1>12. ASSUME NEW c \in Clients, Unregister(c) PROVE GoneIsForgotten'
  <2>0. PICK n \in Keys : n = roomName[c]
    BY <1>0 DEF TypeOK
  <2>1. EntryOf(n) \in Entries
    BY <1>0, EntryOfType
  <2>2. RemoveClientFromRoom(n, c) /\ Touched(n)
    BY <1>0, <1>12, <2>0, GetTouches DEF Unregister
  <2>3. \A k \in Keys : Hears(k)' \subseteq Hears(k)
    BY <1>2, <2>1, <2>2
  <2>4. c \notin Hears(n)'
    <3>1. entry'[n] = EntryOf(n) /\ c \notin members'[EntryOf(n)]
      BY <1>0, <2>1, <2>2 DEF RemoveClientFromRoom, TypeOK
    <3> QED BY <2>1, <3>1 DEF Hears
  <2>5. \A k \in Keys : c \in Hears(k) => k = n
    <3> SUFFICES ASSUME NEW k \in Keys, c \in Hears(k) PROVE k = n
      OBVIOUS
    <3>1. entry[k] \in Entries /\ Refers(entry[k], k) /\ c \in members[entry[k]]
      BY <1>0 DEF Hears, TypeOK, Refers
    <3> QED BY <2>0, <3>1 DEF Listed
  <2>6. \A d \in Clients \ {c} : pc'[d] = pc[d]
    BY <1>0, <1>12, ReaderMoves, LabelsAreSteps DEF Unregister
  <2> QED BY <2>3, <2>4, <2>5, <2>6 DEF GoneIsForgotten
<1>13. ASSUME CleanupDeletes PROVE GoneIsForgotten'
  <2>1. \A k \in Keys : Hears(k)' \subseteq Hears(k)
    BY <1>0, <1>13 DEF CleanupDeletes, Hears, TypeOK
  <2> QED BY <1>13, <2>1 DEF GoneIsForgotten, CleanupDeletes
<1>14. ASSUME UNCHANGED <<pc, directory>> PROVE GoneIsForgotten'
  BY <1>1, <1>14
<1>15. ASSUME NEW c \in Clients,
              \/ TextBroadcasts(c) \/ WriterStep(c) \/ ConnectionBreaks(c) \/ HubSkips(c) \/ HubSends(c)
       PROVE  GoneIsForgotten'
  BY <1>14, <1>15
  DEF TextBroadcasts, WriterStep, WriteFrame, WriteFails, ConnectionBreaks, HubSkips, HubSends
<1>16. ASSUME HubDelivered \/ CleanupFinds \/ HttpUpdate \/ (\E n \in Names : RoomExpires(n)) \/ UNCHANGED vars
       PROVE  GoneIsForgotten'
  BY <1>14, <1>16 DEF HubDelivered, CleanupFinds, HttpUpdate, RoomExpires, vars, directory
<1> QED
  BY <1>5, <1>6, <1>7, <1>8, <1>9, <1>10, <1>11, <1>12, <1>13, <1>15, <1>16
  DEF Next, ReaderStep, TextStep, HubStep, HubVisit

(* A connection that has been unregistered is not listed again by a reader  *)
(* that is late, nor by a list taken over from the name's past.             *)
THEOREM GoneForgotten == Spec => []GoneIsForgotten
<1>1. Init => GoneIsForgotten
  BY DEF Init, GoneIsForgotten
<1> QED BY <1>1, BaseInit, ListedInit, BaseStep, ListedStep, GoneStep, PTL DEF Spec

-----------------------------------------------------------------------------
(* Snapshots.  What waits in a channel or is being delivered is no newer    *)
(* than its object, and what the hub takes up is as new as its object.      *)

NotNewer(m) == m.version <= IF m.obj = None THEN 0 ELSE version[m.obj]

InOrder(q) ==
  \A i, j \in 1 .. Len(q) :
    (i < j /\ q[i].type # "reply" /\ q[j].type # "reply" /\ q[i].obj = q[j].obj)
      => q[i].version <= q[j].version

Delivering == hub.step = "deliver"

(* A broadcast m in c's channel is behind what c will hear next. *)
Behind(c, m) ==
  m.type # "reply" =>
    /\ NotNewer(m)
    /\ (Delivering /\ c \in hub.todo /\ hub.msg.obj = m.obj) => m.version <= hub.msg.version

Snapshots ==
  /\ \A c \in Clients : InOrder(queue[c]) /\ \A i \in 1 .. Len(queue[c]) : Behind(c, queue[c][i])
  /\ Delivering => NotNewer(hub.msg)

LEMMA SnapshotsOrdered == Snapshots => SnapshotsInOrder
  BY DEF Snapshots, Behind, InOrder, Delivering, SnapshotsInOrder, Broadcasts

(* Versions only grow. *)
Grows == \A o \in Objects : version[o] <= version'[o]

LEMMA GrowsStep == Base /\ [Next]_vars => Grows
<1> SUFFICES ASSUME Base, [Next]_vars PROVE Grows
  OBVIOUS
<1>0. TypeOK
  BY DEF Base
<1>1. ASSUME UNCHANGED version PROVE Grows
  BY <1>0, <1>1 DEF Grows, TypeOK, Versions
<1>2. ASSUME NEW c \in Clients, UpdateAdmitted(c) PROVE Grows
  BY <1>0, <1>2, AdmitType DEF UpdateAdmitted, Grows
<1>3. CASE HttpUpdate
  BY <1>0, <1>3, AdmitType DEF HttpUpdate, Grows
<1>4. ASSUME NEW c \in Clients, UpdateMember(c) PROVE Grows
  <2>1. UNCHANGED version \/ \E o : version' = [version EXCEPT ![o] = @ + 1]
    BY <1>4 DEF UpdateMember
  <2>2. ASSUME NEW o, version' = [version EXCEPT ![o] = @ + 1] PROVE Grows
    <3>1. \A q \in Objects : version[q] \in Nat /\ version'[q] = IF q = o THEN version[q] + 1 ELSE version[q]
      BY <1>0, <2>2 DEF TypeOK, Versions
    <3> QED BY <3>1 DEF Grows
  <2> QED BY <1>1, <2>1, <2>2
<1>5. ASSUME NEW c \in Clients,
             \/ Join(c) \/ UpdateOtherRoom(c) \/ UpdateRefused(c) \/ Relay(c) \/ BadRequest(c)
             \/ SendTextMessage(c) \/ ReaderStep(c) \/ TextStep(c) \/ WriterStep(c)
             \/ TakeBroadcast(c) \/ TakeText(c) \/ Unregister(c) \/ ConnectionBreaks(c)
             \/ HubSkips(c) \/ HubSends(c) \/ HubDropsClient(c)
      PROVE  Grows
  <2> USE DEF Join, UpdateOtherRoom, UpdateRefused, Relay, BadRequest, SendTextMessage, ReaderStep, LoadEntry,
          StoreClient, SendBroadcast, DropBroadcast, SendReply, ReadFails, TextStep, TextBroadcasts,
          TextDropped, WriterStep, WriteFrame, WriteFails, TakeBroadcast, TakeText, Unregister,
          ConnectionBreaks, HubSkips, HubSends, HubDropsClient, registry
  <2> QED BY <1>1, <1>5
<1>6. ASSUME HubDelivered \/ CleanupDeletes \/ CleanupFinds
             \/ (\E n \in Names : RoomExpires(n)) \/ UNCHANGED vars
      PROVE  Grows
  BY <1>1, <1>6 DEF HubDelivered, CleanupDeletes, CleanupFinds, RoomExpires, vars, registry
<1> QED
  BY <1>2, <1>3, <1>4, <1>5, <1>6 DEF Next, Handle, HubStep, HubVisit

(* What a step makes of the hub. *)
HubStepped ==
  \/ UNCHANGED hub
  \/ hub'.step # "deliver"
  \/ \E c \in Clients : Delivering /\ Visited(c)
  \/ /\ ~Delivering /\ hub'.step = "deliver" /\ UNCHANGED <<queue, version>>
     /\ hub'.msg \in Message
     /\ hub'.msg.version = IF hub'.msg.obj = None THEN 0 ELSE version[hub'.msg.obj]

LEMMA HubSteps == Base /\ [Next]_vars => HubStepped
<1> SUFFICES ASSUME Base, [Next]_vars PROVE HubStepped
  OBVIOUS
<1>0. TypeOK
  BY DEF Base
<1>1. ASSUME NEW type \in BroadcastTypes, NEW n \in Keys, NEW o \in Objects \cup {None}, NEW s \in Versions,
             hub = Select, Deliver(type, n, o, s), UNCHANGED <<queue, version>>
      PROVE  HubStepped
  <2>1. CASE room[n] = None
    BY <1>1, <2>1 DEF Deliver, HubStepped
  <2>2. CASE room[n] # None
    <3> DEFINE m == Marshalled(type, n, o, s)
    <3>1. m \in Message /\ m.version = IF m.obj = None THEN 0 ELSE version[m.obj]
      BY <1>0, MarshalledType DEF Marshalled
    <3>2. hub'.step = "deliver" /\ hub'.msg = m
      BY <1>1, <2>2 DEF Deliver
    <3>3. hub.step # "deliver"
      BY <1>1 DEF Select
    <3> HIDE DEF m
    <3> QED BY <1>1, <3>1, <3>2, <3>3 DEF HubStepped, Delivering
  <2> QED BY <2>1, <2>2
<1>2. ASSUME NEW c \in Clients, TakeBroadcast(c) PROVE HubStepped
  <2>1. /\ job[c].name \in Keys /\ job[c].obj \in Objects \cup {None} /\ job[c].stamp \in Versions
        /\ MethodType(job[c].method) \in BroadcastTypes
    BY <1>0 DEF TypeOK, Job, MethodType, BroadcastTypes
  <2> QED BY <1>1, <1>2, <2>1 DEF TakeBroadcast, registry
<1>3. ASSUME NEW c \in Clients, TakeText(c) PROVE HubStepped
  <2>1. /\ text[c] \in Keys /\ "ALL" \in BroadcastTypes /\ 0 \in Versions
    BY <1>3 DEF TakeText, Keys, BroadcastTypes, Versions
  <2> QED BY <1>1, <1>3, <2>1 DEF TakeText, registry
<1>4. ASSUME NEW c \in Clients, HubSkips(c) \/ HubSends(c) \/ HubDropsClient(c) PROVE HubStepped
  BY <1>4 DEF HubSkips, HubSends, HubDropsClient, HubStepped, Delivering
<1>5. CASE HubDelivered \/ CleanupDeletes \/ CleanupFinds
  BY <1>5 DEF HubDelivered, CleanupDeletes, CleanupFinds, HubStepped, Select
<1>6. ASSUME NEW c \in Clients,
             \/ Handle(c) \/ ReaderStep(c) \/ TextStep(c) \/ WriterStep(c) \/ Unregister(c)
             \/ ConnectionBreaks(c)
      PROVE  HubStepped
  <2> USE DEF Handle, Join, UpdateOtherRoom, UpdateRefused, UpdateAdmitted, UpdateMember, Relay, BadRequest,
          SendTextMessage, ReaderStep, LoadEntry, StoreClient, SendBroadcast, DropBroadcast, SendReply,
          ReadFails, TextStep, TextBroadcasts, TextDropped, WriterStep, WriteFrame, WriteFails, Unregister,
          ConnectionBreaks
  <2>1. UNCHANGED hub
    BY <1>6
  <2> QED BY <2>1 DEF HubStepped
<1>7. CASE HttpUpdate \/ (\E n \in Names : RoomExpires(n)) \/ UNCHANGED vars
  BY <1>7 DEF HttpUpdate, RoomExpires, vars, HubStepped
<1> QED
  BY <1>2, <1>3, <1>4, <1>5, <1>6, <1>7 DEF Next, HubStep, HubVisit

(* The same of the message after the step. *)
StillNotNewer(m) == m.version <= IF m.obj = None THEN 0 ELSE version'[m.obj]
StillBehind(c, m) ==
  m.type # "reply" =>
    /\ StillNotNewer(m)
    /\ (Delivering' /\ c \in hub'.todo /\ hub'.msg.obj = m.obj) => m.version <= hub'.msg.version

LEMMA NotNewerKept ==
  ASSUME TypeOK, TypeOK', Grows, NEW m \in Message, NotNewer(m)
  PROVE  StillNotNewer(m)
<1>1. m.version \in Nat /\ m.obj \in Objects \cup {None}
  BY DEF Message, Versions
<1>2. CASE m.obj = None
  BY <1>1, <1>2 DEF NotNewer, StillNotNewer
<1>3. CASE m.obj \in Objects /\ m.obj # None
  <2>1. version[m.obj] \in Nat /\ version'[m.obj] \in Nat /\ version[m.obj] <= version'[m.obj]
    BY <1>3 DEF TypeOK, Versions, Grows
  <2> QED BY <1>1, <1>3, <2>1 DEF NotNewer, StillNotNewer
<1> QED BY <1>1, <1>2, <1>3

LEMMA BehindKept ==
  ASSUME TypeOK, TypeOK', Grows, HubStepped, NEW c \in Clients, NEW m \in Message, Behind(c, m)
  PROVE  StillBehind(c, m)
<1> SUFFICES ASSUME m.type # "reply" PROVE StillBehind(c, m)
  BY DEF StillBehind
<1>1. NotNewer(m) /\ StillNotNewer(m)
  BY NotNewerKept DEF Behind
<1>2. CASE UNCHANGED hub
  BY <1>1, <1>2 DEF Behind, StillBehind, Delivering
<1>3. CASE hub'.step # "deliver"
  BY <1>1, <1>3 DEF StillBehind, Delivering
<1>4. ASSUME NEW d \in Clients, Delivering, Visited(d) PROVE StillBehind(c, m)
  <2>1. hub'.msg = hub.msg /\ hub'.todo \subseteq hub.todo
    BY <1>4, VisitedType DEF Delivering, TypeOK
  <2> QED BY <1>1, <1>4, <2>1 DEF Behind, StillBehind
<1>5. CASE /\ UNCHANGED version
           /\ hub'.msg.version = IF hub'.msg.obj = None THEN 0 ELSE version[hub'.msg.obj]
  BY <1>1, <1>5 DEF NotNewer, StillBehind
<1> QED BY <1>2, <1>3, <1>4, <1>5 DEF HubStepped

LEMMA SnapshotsStep == Base /\ RepliesPend /\ Snapshots /\ [Next]_vars => Snapshots'
<1> SUFFICES ASSUME Base, RepliesPend, Snapshots, [Next]_vars PROVE Snapshots'
  OBVIOUS
<1>0. TypeOK /\ TypeOK' /\ QueueStep /\ Grows /\ HubStepped
  BY BaseStep, QueueSteps, GrowsStep, HubSteps DEF Base
<1>1. Delivering' => NotNewer(hub.msg)'
  <2> SUFFICES ASSUME Delivering' PROVE StillNotNewer(hub'.msg)
    BY DEF NotNewer, StillNotNewer
  <2>1. CASE Delivering /\ hub'.msg = hub.msg
    <3>1. hub.msg \in Message
      BY <1>0, <2>1, VisitedType DEF Delivering, TypeOK
    <3> QED BY <1>0, <2>1, <3>1, NotNewerKept DEF Snapshots
  <2>2. CASE /\ UNCHANGED version /\ hub'.msg \in Message
             /\ hub'.msg.version = IF hub'.msg.obj = None THEN 0 ELSE version[hub'.msg.obj]
    <3>1. hub'.msg.version \in Nat
      BY <2>2 DEF Message, Versions
    <3> QED BY <2>2, <3>1 DEF StillNotNewer
  <2>3. ASSUME NEW d \in Clients, Delivering, Visited(d) PROVE hub'.msg = hub.msg
    BY <1>0, <2>3, VisitedType DEF Delivering, TypeOK
  <2> QED BY <1>0, <2>1, <2>2, <2>3 DEF HubStepped, Delivering
<1> DEFINE Good(c) == InOrder(queue'[c]) /\ \A i \in 1 .. Len(queue'[c]) : StillBehind(c, queue'[c][i])
<1>2. \A c \in Clients : queue[c] \in Seq(Message) /\ Len(queue[c]) \in Nat
  BY <1>0 DEF TypeOK
<1>3. ASSUME NEW c \in Clients, NEW i \in 1 .. Len(queue[c]) PROVE StillBehind(c, queue[c][i])
  <2>1. queue[c][i] \in Message /\ Behind(c, queue[c][i])
    BY <1>2 DEF Snapshots
  <2> QED BY <1>0, <2>1, BehindKept
<1>4. ASSUME NEW c \in Clients, queue'[c] = queue[c] PROVE Good(c)
  BY <1>3, <1>4 DEF Snapshots
<1>5. ASSUME NEW c \in Clients, NEW m \in Message, queue' = [queue EXCEPT ![c] = Append(@, m)],
             StillBehind(c, m),
             m.type # "reply" => \A i \in 1 .. Len(queue[c]) :
                                  (queue[c][i].type # "reply" /\ queue[c][i].obj = m.obj)
                                     => queue[c][i].version <= m.version
      PROVE  \A d \in Clients : Good(d)
  <2>1. /\ Len(queue'[c]) = Len(queue[c]) + 1
        /\ \A i \in 1 .. Len(queue'[c]) :
             queue'[c][i] = IF i = Len(queue[c]) + 1 THEN m ELSE queue[c][i]
        /\ \A d \in Clients \ {c} : queue'[d] = queue[d]
    BY <1>0, <1>5, PutMessages
  <2>2. \A i \in 1 .. Len(queue'[c]) : StillBehind(c, queue'[c][i])
    <3> TAKE i \in 1 .. Len(queue'[c])
    <3>1. i = Len(queue[c]) + 1 \/ i \in 1 .. Len(queue[c])
      BY <1>2, <2>1
    <3>2. i \in 1 .. Len(queue[c]) => i # Len(queue[c]) + 1
      BY <1>2
    <3> QED BY <1>3, <1>5, <2>1, <3>1, <3>2
  <2>3. InOrder(queue'[c])
    <3> SUFFICES ASSUME NEW i \in 1 .. Len(queue'[c]), NEW j \in 1 .. Len(queue'[c]), i < j,
                        queue'[c][i].type # "reply", queue'[c][j].type # "reply",
                        queue'[c][i].obj = queue'[c][j].obj
                 PROVE  queue'[c][i].version <= queue'[c][j].version
      BY DEF InOrder
    <3>1. i \in 1 .. Len(queue[c]) /\ i # Len(queue[c]) + 1
      BY <1>2, <2>1
    <3>2. queue'[c][i] = queue[c][i]
      BY <2>1, <3>1
    <3>3. CASE j = Len(queue[c]) + 1
      <4>1. queue'[c][j] = m
        BY <2>1, <3>3
      <4> QED BY <1>5, <3>1, <3>2, <4>1
    <3>4. CASE j # Len(queue[c]) + 1
      <4>1. j \in 1 .. Len(queue[c]) /\ queue'[c][j] = queue[c][j]
        BY <1>2, <2>1, <3>4
      <4> QED BY <3>1, <3>2, <4>1 DEF Snapshots, InOrder
    <3> QED BY <3>3, <3>4
  <2> QED BY <1>4, <2>1, <2>2, <2>3
<1>6. ASSUME NEW c \in Clients, Put(c, pending[c]) PROVE \A d \in Clients : Good(d)
  <2>1. pending[c] \in Message /\ pending[c].type = "reply"
    BY <1>0 DEF TypeOK, RepliesPend
  <2> HIDE DEF Good
  <2> QED BY <1>5, <1>6, <2>1 DEF Put, StillBehind
<1>7. ASSUME NEW c \in Clients, HubSends(c) PROVE \A d \in Clients : Good(d)
  <2>1. Delivering /\ c \in hub.todo /\ Visited(c) /\ queue' = [queue EXCEPT ![c] = Append(@, hub.msg)]
    BY <1>7 DEF HubSends, Delivering
  <2>2. hub.msg \in Message /\ c \notin hub'.todo
    BY <1>0, <2>1, VisitedType DEF Delivering, TypeOK
  <2>3. StillBehind(c, hub.msg)
    BY <1>0, <2>1, <2>2, NotNewerKept DEF Snapshots, StillBehind
  <2>4. \A i \in 1 .. Len(queue[c]) :
          (queue[c][i].type # "reply" /\ queue[c][i].obj = hub.msg.obj)
            => queue[c][i].version <= hub.msg.version
    BY <2>1 DEF Snapshots, Behind
  <2> HIDE DEF Good
  <2> QED BY <1>5, <2>1, <2>2, <2>3, <2>4
<1>8. ASSUME NEW c \in Clients,
             \/ queue' = [queue EXCEPT ![c] = <<>>]
             \/ queue[c] # <<>> /\ queue' = [queue EXCEPT ![c] = Tail(@)]
      PROVE  \A d \in Clients : Good(d)
  <2>1. PICK k \in 0 .. Len(queue[c]) :
          /\ Len(queue'[c]) = Len(queue[c]) - k
          /\ \A i \in 1 .. Len(queue'[c]) : queue'[c][i] = queue[c][i + k]
    BY <1>0, <1>8, DroppedMessages
  <2>2. \A i \in 1 .. Len(queue'[c]) : i + k \in 1 .. Len(queue[c])
    BY <1>2, <2>1
  <2>3. \A i \in 1 .. Len(queue'[c]) : StillBehind(c, queue'[c][i])
    BY <1>3, <2>1, <2>2
  <2>4. InOrder(queue'[c])
    <3> SUFFICES ASSUME NEW i \in 1 .. Len(queue'[c]), NEW j \in 1 .. Len(queue'[c]), i < j,
                        queue'[c][i].type # "reply", queue'[c][j].type # "reply",
                        queue'[c][i].obj = queue'[c][j].obj
                 PROVE  queue'[c][i].version <= queue'[c][j].version
      BY DEF InOrder
    <3>1. i + k < j + k
      BY <2>1
    <3> QED BY <2>1, <2>2, <3>1 DEF Snapshots, InOrder
  <2>5. \A d \in Clients \ {c} : queue'[d] = queue[d]
    BY <1>0, <1>8, DroppedMessages
  <2> QED BY <1>4, <2>3, <2>4, <2>5
<1>9. \A c \in Clients : Good(c)
  <2> HIDE DEF Good
  <2> QED BY <1>0, <1>4, <1>6, <1>7, <1>8 DEF QueueStep
<1> QED BY <1>1, <1>9 DEF Snapshots, Behind, StillBehind, NotNewer, StillNotNewer

(* The states of a room that a connection is sent never go back in time,    *)
(* whatever the order in which readers hand their broadcasts to the hub.    *)
THEOREM SnapshotsOnward == Spec => []SnapshotsInOrder
<1>1. Init => RepliesPend /\ Snapshots
  BY DEF Init, RepliesPend, Snapshots, InOrder, Behind, Delivering, Select, Reply
<1> QED BY <1>1, BaseInit, BaseStep, RepliesStep, SnapshotsStep, SnapshotsOrdered, PTL DEF Spec
-----------------------------------------------------------------------------
(* The hub is the abstract broadcast service.  Who is about to speak was    *)
(* granted the room it speaks in, or speaks of a room whose state is no     *)
(* older than the stamp; and a connection knows that it hosted.             *)

Speaks(c) ==
  /\ pc[c] \in {"check", "send"} =>
       /\ job[c].obj = None => job[c].name = roomName[c]
       /\ job[c].obj # None => /\ job[c].method \in Replying
                               /\ job[c].stamp <= version[job[c].obj]
  /\ pc[c] = "send" => roomName[c] \in admitted[c]

Writes(c) == text[c] \in Names => text[c] \in admitted[c]
KnowsRole(c) == hosted[c] # {} => isHost[c]

Speakers == \A c \in Clients : Speaks(c) /\ Writes(c) /\ KnowsRole(c)

(* What a step leaves alone of a connection. *)
Stays(c) == pc'[c] = pc[c] /\ job'[c] = job[c] /\ roomName'[c] = roomName[c]

LEMMA SpeaksKept ==
  ASSUME Base, Base', Loyal, Grows, NEW c \in Clients, Speaks(c), Stays(c)
  PROVE  Speaks(c)'
<1>1. /\ job[c].obj \in Objects \cup {None} /\ job[c].stamp \in Nat
      /\ \A o \in Objects : version[o] \in Nat /\ version'[o] \in Nat /\ version[o] <= version'[o]
  BY DEF Base, TypeOK, Job, Versions, Grows
<1>2. roomName[c] \in admitted[c] => roomName'[c] \in admitted'[c]
  BY DEF Loyal, Stays
<1> QED BY <1>1, <1>2 DEF Speaks, Stays

(* Whoever the hub finds in the list of its own room was granted it. *)
LEMMA ListedIsGranted ==
  ASSUME Base, Listed, NEW c \in Clients, IsVaildClient(c)
  PROVE  roomName[c] \in admitted[c]
<1>1. /\ roomName[c] \in Keys /\ entry[roomName[c]] \in Entries
      /\ c \in members[entry[roomName[c]]]
  BY DEF IsVaildClient, Base, TypeOK
<1>2. Refers(entry[roomName[c]], roomName[c])
  BY DEF Refers
<1> QED BY <1>1, <1>2 DEF Listed

(* One connection moves, and the others stay. *)
LEMMA OneMoves ==
  ASSUME Base, Base', Loyal, Grows, Speakers, NEW c \in Clients,
         \A d \in Clients \ {c} : Stays(d),
         Stays(c) \/ Speaks(c)'
  PROVE  \A d \in Clients : Speaks(d)'
  BY SpeaksKept DEF Speakers

LEMMA SpeaksStep ==
  ASSUME Base, Listed, Speakers, [Next]_vars
  PROVE  \A d \in Clients : Speaks(d)'
<1> DEFINE Goal == \A d \in Clients : Speaks(d)'
<1>0. TypeOK /\ TypeOK' /\ Control /\ Base' /\ Loyal /\ Grows
  BY BaseStep, LoyalStep, GrowsStep DEF Base
<1>1. ASSUME NEW c \in Clients, NEW l \in ReaderSteps, Goto(c, l),
             NEW j, job' = [job EXCEPT ![c] = j] \/ job' = job,
             NEW n, roomName' = [roomName EXCEPT ![c] = n] \/ roomName' = roomName
      PROVE  pc'[c] = l /\ \A d \in Clients \ {c} : Stays(d)
  <2>1. \A d \in Clients \ {c} : roomName'[d] = roomName[d]
    BY <1>0, <1>1 DEF TypeOK
  <2> QED BY <1>0, <1>1, <2>1, ReaderMoves, JobMoves DEF Stays
<1>2. ASSUME NEW c \in Clients, pc'[c] \notin {"check", "send"} PROVE Speaks(c)'
  BY <1>2 DEF Speaks
<1>3. ASSUME UNCHANGED <<pc, job, roomName>> PROVE Goal
  BY <1>0, <1>3, SpeaksKept DEF Stays, Speakers
<1>4. ASSUME NEW c \in Clients, Join(c) PROVE Goal
  <2>1. CASE UNCHANGED <<pc, job, roomName>>
    BY <1>3, <2>1
  <2>2. CASE ~UNCHANGED <<pc, job, roomName>>
    <3>1. PICK l, j, n :
            /\ l \in {"reply", "entry"}
            /\ Goto(c, l)
            /\ job' = [job EXCEPT ![c] = j] \/ job' = job
            /\ roomName' = [roomName EXCEPT ![c] = n] \/ roomName' = roomName
      BY <1>4, <2>2 DEF Join, ReplyWith
    <3> QED BY <1>0, <1>1, <1>2, <3>1, OneMoves, LabelsAreSteps
  <2> QED BY <2>1, <2>2
<1>5. ASSUME NEW c \in Clients, UpdateRefused(c) \/ UpdateAdmitted(c) \/ LoadEntry(c) \/ BadRequest(c)
      PROVE  Goal
  <2>1. PICK l \in {"reply", "entry", "store"} : Goto(c, l)
    BY <1>5 DEF UpdateRefused, UpdateAdmitted, LoadEntry, BadRequest, ReplyWith
  <2>2. \E j : job' = [job EXCEPT ![c] = j] \/ job' = job
    <3>1. CASE LoadEntry(c)
      BY <3>1 DEF LoadEntry
    <3>2. CASE ~LoadEntry(c)
      BY <1>5, <3>2 DEF UpdateRefused, UpdateAdmitted, BadRequest, ReplyWith
    <3> QED BY <3>1, <3>2
  <2>3. \E n : roomName' = [roomName EXCEPT ![c] = n] \/ roomName' = roomName
    BY <1>5 DEF UpdateRefused, UpdateAdmitted, LoadEntry, BadRequest, fields
  <2> QED BY <1>0, <1>1, <1>2, <2>1, <2>2, <2>3, OneMoves, LabelsAreSteps
<1>6. ASSUME NEW c \in Clients, UpdateMember(c) PROVE Goal
  <2>1. roomName' = roomName
    BY <1>6 DEF UpdateMember, fields
  <2>2. CASE ReplyWith(c, Reply)
    BY <1>0, <1>1, <1>2, <2>1, <2>2, OneMoves, LabelsAreSteps DEF ReplyWith
  <2>3. CASE ~ReplyWith(c, Reply)
    <3>1. PICK n \in Names :
            /\ room[n] # None
            /\ job' = [job EXCEPT ![c] = [NoJob EXCEPT !.method = "member", !.name = n, !.obj = room[n],
                                                     !.stamp = version'[room[n]]]]
            /\ Goto(c, "check")
      BY <1>6, <2>3 DEF UpdateMember
    <3>2. room[n] \in Objects /\ version'[room[n]] \in Nat
      BY <1>0, <3>1 DEF TypeOK, Keys, Versions
    <3>3. /\ job'[c].obj = room[n] /\ job'[c].method = "member"
          /\ job'[c].stamp = version'[room[n]]
      BY <1>0, <3>1 DEF TypeOK, NoJob
    <3>4. pc'[c] = "check" /\ \A d \in Clients \ {c} : Stays(d)
      BY <1>1, <2>1, <3>1, LabelsAreSteps
    <3>5. Speaks(c)'
      BY <3>1, <3>2, <3>3, <3>4 DEF Speaks, Replying
    <3> QED BY <1>0, <3>4, <3>5, OneMoves
  <2> QED BY <2>2, <2>3
<1>7. ASSUME NEW c \in Clients, Relay(c) PROVE Goal
  <2>1. PICK m :
          job' = [job EXCEPT ![c] = [NoJob EXCEPT !.method = m, !.name = roomName[c]]]
    BY <1>7 DEF Relay
  <2>2. Goto(c, "check") /\ roomName' = roomName
    BY <1>7 DEF Relay, fields
  <2>3. job'[c].obj = None /\ job'[c].name = roomName[c]
    BY <1>0, <2>1 DEF TypeOK, NoJob
  <2>4. pc'[c] = "check" /\ \A d \in Clients \ {c} : Stays(d)
    BY <1>1, <2>1, <2>2, LabelsAreSteps
  <2>5. Speaks(c)'
    BY <2>2, <2>3, <2>4 DEF Speaks
  <2> QED BY <1>0, <2>4, <2>5, OneMoves
<1>8. ASSUME NEW c \in Clients, StoreClient(c) PROVE Goal
  <2>1. roomName' = roomName
    BY <1>8 DEF StoreClient, fields
  <2>2. ASSUME NEW m, ReplyWith(c, m) PROVE Goal
    BY <1>0, <1>1, <1>2, <2>1, <2>2, OneMoves, LabelsAreSteps DEF ReplyWith
  <2>3. CASE /\ job[c].method = "update"
             /\ job' = [job EXCEPT ![c].entry = None, ![c].stamp = version[job[c].obj]]
             /\ Goto(c, "check")
    <3>1. job[c] \in Job /\ job[c].obj \in Objects /\ version[job[c].obj] \in Nat
      BY <1>0, <1>8 DEF StoreClient, TypeOK, Control, Versions
    <3>2. /\ job'[c].obj = job[c].obj /\ job'[c].method = "update"
          /\ job'[c].stamp = version[job[c].obj]
      BY <1>0, <2>3, <3>1 DEF TypeOK, Job
    <3>3. pc'[c] = "check" /\ \A d \in Clients \ {c} : Stays(d)
      <4>1. job' = [job EXCEPT ![c] = [@ EXCEPT !.entry = None, !.stamp = version[job[c].obj]]]
        BY <2>3
      <4> QED BY <1>1, <2>1, <2>3, <4>1, LabelsAreSteps
    <3>4. version[job[c].obj] <= version'[job[c].obj]
      BY <1>0, <3>1 DEF Grows
    <3>5. Speaks(c)'
      BY <3>1, <3>2, <3>3, <3>4, NilAssumption DEF Speaks, Replying
    <3> QED BY <1>0, <3>3, <3>5, OneMoves
  <2> QED BY <1>8, <2>2, <2>3 DEF StoreClient
<1>9. ASSUME NEW c \in Clients, SendBroadcast(c) PROVE Goal
  <2>1. Goto(c, "send") /\ UNCHANGED <<job, roomName, admitted, version>> /\ pc[c] = "check"
    BY <1>9 DEF SendBroadcast, fields, history, registry
  <2>2. roomName[c] \in admitted[c]
    BY <1>9, ListedIsGranted DEF SendBroadcast
  <2>3. pc'[c] = "send" /\ \A d \in Clients \ {c} : Stays(d)
    BY <1>0, <2>1, ReaderMoves, LabelsAreSteps DEF Stays
  <2>4. Speaks(c)'
    BY <2>1, <2>2, <2>3 DEF Speaks, Speakers
  <2> QED BY <1>0, <2>3, <2>4, OneMoves
<1>10. ASSUME NEW c \in Clients, SendReply(c) \/ ReadFails(c) \/ Unregister(c) PROVE Goal
  <2>1. PICK l \in {"read", "unregister", "gone"} : Goto(c, l) /\ UNCHANGED <<job, roomName>>
    BY <1>10 DEF SendReply, ReadFails, Unregister, fields
  <2>2. pc'[c] = l /\ \A d \in Clients \ {c} : Stays(d)
    BY <1>0, <2>1, ReaderMoves, LabelsAreSteps DEF Stays
  <2> QED BY <1>0, <1>2, <2>2, OneMoves
<1>11. ASSUME NEW c \in Clients, DropBroadcast(c) \/ TakeBroadcast(c) PROVE Goal
  <2>1. Done(c) /\ UNCHANGED roomName
    BY <1>11 DEF DropBroadcast, TakeBroadcast, fields
  <2>2. pc'[c] \notin {"check", "send"} /\ \A d \in Clients \ {c} : Stays(d)
    BY <1>0, <2>1, DoneType DEF Stays
  <2> QED BY <1>0, <1>2, <2>2, OneMoves
<1>12. ASSUME NEW c \in Clients,
              \/ UpdateOtherRoom(c) \/ SendTextMessage(c) \/ TextStep(c) \/ WriterStep(c)
              \/ TakeText(c) \/ ConnectionBreaks(c)
              \/ HubSkips(c) \/ HubSends(c) \/ HubDropsClient(c)
       PROVE  Goal
  <2>1. UNCHANGED <<pc, job, roomName>>
    BY <1>12
    DEF UpdateOtherRoom, SendTextMessage, TextStep, TextBroadcasts, TextDropped, WriterStep, WriteFrame,
        WriteFails, TakeText, ConnectionBreaks, HubSkips, HubSends, HubDropsClient, fields
  <2> QED BY <1>3, <2>1
<1>13. ASSUME HubDelivered \/ CleanupDeletes \/ CleanupFinds \/ HttpUpdate
              \/ (\E n \in Names : RoomExpires(n)) \/ UNCHANGED vars
       PROVE  Goal
  <2>1. UNCHANGED <<pc, job, roomName>>
    BY <1>13 DEF HubDelivered, CleanupDeletes, CleanupFinds, HttpUpdate, RoomExpires, vars, fields
  <2> QED BY <1>3, <2>1
<1>14. Goal
  <2> HIDE DEF Goal
  <2> QED
    BY <1>4, <1>5, <1>6, <1>7, <1>8, <1>9, <1>10, <1>11, <1>12, <1>13
    DEF Next, Handle, ReaderStep, HubStep, HubVisit
<1> QED BY <1>14
LEMMA WritesStep ==
  ASSUME Base, Listed, Speakers, [Next]_vars
  PROVE  \A d \in Clients : Writes(d)'
<1>0. TypeOK /\ Loyal
  BY LoyalStep DEF Base
<1>1. ASSUME NEW d \in Clients, text'[d] = text[d] \/ text'[d] \in {"none", "running"} PROVE Writes(d)'
  BY <1>0, <1>1, TextAssumption DEF Writes, Speakers, Loyal
<1>2. ASSUME NEW c \in Clients, NEW t, text' = [text EXCEPT ![c] = t]
      PROVE  text'[c] = t /\ \A d \in Clients \ {c} : text'[d] = text[d]
  BY <1>0, <1>2 DEF TypeOK
<1>3. ASSUME UNCHANGED text PROVE \A d \in Clients : Writes(d)'
  BY <1>1, <1>3
<1>4. ASSUME NEW c \in Clients, SendTextMessage(c) \/ TextDropped(c) \/ TakeText(c)
      PROVE  \A d \in Clients : Writes(d)'
  <2>1. PICK t \in {"none", "running"} : text' = [text EXCEPT ![c] = t]
    BY <1>4 DEF SendTextMessage, TextDropped, TakeText
  <2> QED BY <1>1, <1>2, <2>1
<1>5. ASSUME NEW c \in Clients, TextBroadcasts(c) PROVE \A d \in Clients : Writes(d)'
  <2>1. text' = [text EXCEPT ![c] = roomName[c]] /\ UNCHANGED admitted
    BY <1>5 DEF TextBroadcasts, history
  <2>2. roomName[c] \in admitted[c]
    BY <1>5, ListedIsGranted DEF TextBroadcasts
  <2>3. Writes(c)'
    BY <1>2, <2>1, <2>2 DEF Writes
  <2> QED BY <1>1, <1>2, <2>1, <2>3
<1>6. ASSUME NEW c \in Clients,
             \/ Join(c) \/ UpdateOtherRoom(c) \/ UpdateRefused(c) \/ UpdateAdmitted(c)
             \/ UpdateMember(c) \/ Relay(c) \/ BadRequest(c) \/ ReaderStep(c) \/ WriterStep(c)
             \/ TakeBroadcast(c) \/ Unregister(c) \/ ConnectionBreaks(c)
             \/ HubSkips(c) \/ HubSends(c) \/ HubDropsClient(c)
      PROVE  UNCHANGED text
  BY <1>6
  DEF Join, UpdateOtherRoom, UpdateRefused, UpdateAdmitted, UpdateMember, Relay, BadRequest, ReaderStep,
      LoadEntry, StoreClient, SendBroadcast, DropBroadcast, SendReply, ReadFails, WriterStep, WriteFrame,
      WriteFails, TakeBroadcast, Unregister, ConnectionBreaks, HubSkips, HubSends, HubDropsClient
<1>7. ASSUME HubDelivered \/ CleanupDeletes \/ CleanupFinds \/ HttpUpdate
             \/ (\E n \in Names : RoomExpires(n)) \/ UNCHANGED vars
      PROVE  UNCHANGED text
  BY <1>7 DEF HubDelivered, CleanupDeletes, CleanupFinds, HttpUpdate, RoomExpires, vars
<1> QED
  BY <1>3, <1>4, <1>5, <1>6, <1>7 DEF Next, Handle, TextStep, HubStep, HubVisit

LEMMA RoleStep ==
  ASSUME Base, Speakers, [Next]_vars
  PROVE  \A d \in Clients : KnowsRole(d)'
<1>0. TypeOK
  BY DEF Base
<1>1. ASSUME UNCHANGED <<isHost, hosted>> PROVE \A d \in Clients : KnowsRole(d)'
  BY <1>1 DEF KnowsRole, Speakers
<1>2. ASSUME NEW c \in Clients, UpdateAdmitted(c) PROVE \A d \in Clients : KnowsRole(d)'
  <2>1. /\ isHost' = [isHost EXCEPT ![c] = TRUE]
        /\ \A d \in Clients \ {c} : hosted'[d] = hosted[d]
    BY <1>0, <1>2 DEF UpdateAdmitted, TypeOK
  <2>2. isHost'[c] /\ \A d \in Clients \ {c} : isHost'[d] = isHost[d]
    BY <1>0, <2>1 DEF TypeOK
  <2> QED BY <2>1, <2>2 DEF KnowsRole, Speakers
<1>3. ASSUME NEW c \in Clients, Join(c) \/ UpdateRefused(c) PROVE UNCHANGED <<isHost, hosted>>
  BY <1>3 DEF Join, UpdateRefused, history
<1>4. ASSUME NEW c \in Clients,
             \/ UpdateOtherRoom(c) \/ UpdateMember(c) \/ Relay(c) \/ BadRequest(c)
             \/ SendTextMessage(c) \/ ReaderStep(c) \/ TextStep(c) \/ WriterStep(c)
             \/ TakeBroadcast(c) \/ TakeText(c) \/ Unregister(c) \/ ConnectionBreaks(c)
             \/ HubSkips(c) \/ HubSends(c) \/ HubDropsClient(c)
      PROVE  UNCHANGED <<isHost, hosted>>
  <2> USE DEF UpdateOtherRoom, UpdateMember, Relay, BadRequest, SendTextMessage, ReaderStep, LoadEntry,
          StoreClient, SendBroadcast, DropBroadcast, SendReply, ReadFails, TextStep, TextBroadcasts,
          TextDropped, WriterStep, WriteFrame, WriteFails, TakeBroadcast, TakeText, Unregister,
          ConnectionBreaks, HubSkips, HubSends, HubDropsClient
  <2> QED BY <1>4 DEF fields, history
<1>5. ASSUME HubDelivered \/ CleanupDeletes \/ CleanupFinds \/ HttpUpdate
             \/ (\E n \in Names : RoomExpires(n)) \/ UNCHANGED vars
      PROVE  UNCHANGED <<isHost, hosted>>
  BY <1>5
  DEF HubDelivered, CleanupDeletes, CleanupFinds, HttpUpdate, RoomExpires, vars, fields, history
<1> QED
  BY <1>1, <1>2, <1>3, <1>4, <1>5 DEF Next, Handle, HubStep, HubVisit

LEMMA SpeakersHold == Spec => [](Base /\ Listed /\ RepliesPend /\ Speakers)
<1>1. Init => RepliesPend /\ Speakers
  BY TextAssumption DEF Init, RepliesPend, Reply, Speakers, Speaks, Writes, KnowsRole
<1>2. Base /\ Listed /\ Speakers /\ [Next]_vars => Speakers'
  BY SpeaksStep, WritesStep, RoleStep DEF Speakers
<1> QED BY <1>1, <1>2, BaseInit, ListedInit, BaseStep, ListedStep, RepliesStep, PTL DEF Spec

-----------------------------------------------------------------------------
(* Step by step.  Most steps show nothing of themselves to the service; the *)
(* others are the step of the service that the lemma names.                 *)

OnAir == IF hub.step = "deliver" THEN {hub.msg} ELSE {}
Listeners == IF hub.step = "deliver" THEN hub.todo ELSE {}
Unseen == UNCHANGED <<admitted, hosted, version, OnAir, Listeners, queue>>

LEMMA UnseenStutters == Unseen => UNCHANGED Service!vars
  BY DEF Unseen, OnAir, Listeners, Service!vars

LEMMA GrantSteps ==
  ASSUME Base, NEW c \in Clients, Join(c) \/ UpdateAdmitted(c)
  PROVE  [Service!Next]_(Service!vars)
<1>1. ASSUME NEW n \in Names, admitted' = [admitted EXCEPT ![c] = @ \cup {n}],
             UNCHANGED <<hosted, version, hub, queue>>
      PROVE  Service!Next
  <2>1. Service!Grant(c, n)
    BY <1>1 DEF Service!Grant
  <2> QED BY <2>1 DEF Service!Next
<1>2. CASE Join(c)
  <2>1. UNCHANGED <<hosted, version, hub, queue>>
    BY <1>2 DEF Join, registry
  <2>2. CASE UNCHANGED admitted
    BY <2>1, <2>2, UnseenStutters DEF Unseen, OnAir, Listeners
  <2>3. \/ UNCHANGED admitted
        \/ \E n \in Names : admitted' = [admitted EXCEPT ![c] = @ \cup {n}]
    BY <1>2 DEF Join
  <2> QED BY <1>1, <2>1, <2>2, <2>3
<1>3. CASE UpdateAdmitted(c)
  <2>1. PICK n \in Names, o \in Objects :
          /\ admitted' = [admitted EXCEPT ![c] = @ \cup {n}]
          /\ hosted' = [hosted EXCEPT ![c] = @ \cup {n}]
          /\ version' = [version EXCEPT ![o] = @ + 1]
    BY <1>3 DEF UpdateAdmitted, Admit
  <2>2. UNCHANGED <<hub, queue>>
    BY <1>3 DEF UpdateAdmitted
  <2>3. Service!HostUpdate(c, n, o)
    BY <2>1, <2>2 DEF Service!HostUpdate
  <2> QED BY <2>3 DEF Service!Next
<1> QED BY <1>2, <1>3

LEMMA ChangeSteps ==
  ASSUME Base, HttpUpdate \/ \E c \in Clients : UpdateMember(c)
  PROVE  [Service!Next]_(Service!vars)
<1>1. UNCHANGED <<admitted, hosted, hub, queue>>
  BY DEF HttpUpdate, UpdateMember, history
<1>2. CASE UNCHANGED version
  BY <1>1, <1>2, UnseenStutters DEF Unseen, OnAir, Listeners
<1>3. ASSUME NEW o \in Objects, version' = [version EXCEPT ![o] = @ + 1]
      PROVE  Service!Next
  <2>1. Service!Change(o)
    BY <1>1, <1>3 DEF Service!Change
  <2> QED BY <2>1 DEF Service!Next
<1>4. CASE HttpUpdate
  BY <1>3, <1>4 DEF HttpUpdate, Admit
<1>5. ASSUME NEW c \in Clients, UpdateMember(c)
      PROVE  UNCHANGED version \/ \E o \in Objects : version' = [version EXCEPT ![o] = @ + 1]
  <2>1. UNCHANGED version
        \/ \E n \in Names : room[n] # None /\ version' = [version EXCEPT ![room[n]] = @ + 1]
    BY <1>5 DEF UpdateMember
  <2> QED BY <2>1 DEF Base, TypeOK, Keys
<1> QED BY <1>2, <1>3, <1>4, <1>5

(* The hub takes a broadcast up: it goes on air, or its room is gone. *)
LEMMA DeliverSteps ==
  ASSUME Base, NEW c \in Clients, NEW type \in BroadcastTypes, NEW n \in Keys,
         NEW o \in Objects \cup {None}, NEW s \in Versions,
         hub = Select, Deliver(type, n, o, s), UNCHANGED <<admitted, hosted, version, queue>>,
         admitted[c] # {},
         o = None => n \in admitted[c],
         o # None => type = "ALL" /\ s <= version[o]
  PROVE  [Service!Next]_(Service!vars)
<1>1. CASE room[n] = None
  BY <1>1, UnseenStutters DEF Deliver, Unseen, OnAir, Listeners
<1>2. CASE room[n] # None
  <2> DEFINE m == Marshalled(type, n, o, s)
  <2>1. m \in Message
    BY MarshalledType DEF Base
  <2>2. m.type = type /\ m.name = n /\ m.obj = o /\ m.stamp = s /\ (o # None => m.version = version[o])
    BY DEF Marshalled
  <2>3. hub'.step = "deliver" /\ hub'.msg = m /\ hub'.todo = Clients
    BY <1>2 DEF Deliver
  <2>4. hub.step # "deliver" /\ type # "reply"
    BY DEF Select, BroadcastTypes
  <2> HIDE DEF m
  <2>5. Service!MaySpeak(c, m)
    BY <2>2 DEF Service!MaySpeak
  <2>6. Service!Publish(c)
    BY <2>1, <2>2, <2>3, <2>4, <2>5 DEF Service!Publish
  <2> QED BY <2>6 DEF Service!Next
<1> QED BY <1>1, <1>2

LEMMA TakeSteps ==
  ASSUME Base, Speakers, NEW c \in Clients, TakeBroadcast(c) \/ TakeText(c)
  PROVE  [Service!Next]_(Service!vars)
<1>1. CASE TakeBroadcast(c)
  <2>1. /\ job[c].name \in Keys /\ job[c].obj \in Objects \cup {None} /\ job[c].stamp \in Versions
        /\ MethodType(job[c].method) \in BroadcastTypes
    BY DEF Base, TypeOK, Job, MethodType, BroadcastTypes
  <2>2. Speaks(c) /\ pc[c] = "send"
    BY <1>1 DEF Speakers, TakeBroadcast
  <2>3. /\ admitted[c] # {}
        /\ job[c].obj = None => job[c].name \in admitted[c]
        /\ job[c].obj # None => /\ MethodType(job[c].method) = "ALL"
                                /\ job[c].stamp <= version[job[c].obj]
    BY <2>2 DEF Speaks, MethodType, Replying
  <2>4. UNCHANGED <<admitted, hosted, version, queue>> /\ hub = Select
    BY <1>1 DEF TakeBroadcast, registry, history
  <2>5. Deliver(MethodType(job[c].method), job[c].name, job[c].obj, job[c].stamp)
    BY <1>1 DEF TakeBroadcast
  <2> QED BY <2>1, <2>3, <2>4, <2>5, DeliverSteps
<1>2. CASE TakeText(c)
  <2>1. text[c] \in Keys /\ "ALL" \in BroadcastTypes /\ 0 \in Versions
    BY <1>2 DEF TakeText, Keys, BroadcastTypes, Versions
  <2>2. text[c] \in admitted[c]
    BY <1>2 DEF TakeText, Speakers, Writes
  <2>3. UNCHANGED <<admitted, hosted, version, queue>> /\ hub = Select
    BY <1>2 DEF TakeText, registry, history
  <2>4. Deliver("ALL", text[c], None, 0)
    BY <1>2 DEF TakeText
  <2> QED BY <2>1, <2>2, <2>3, <2>4, DeliverSteps
<1> QED BY <1>1, <1>2

(* Every visit of the Range is one listener's: it hears, or misses. *)
LEMMA VisitSteps ==
  ASSUME Base, Listed, Speakers, NEW c \in Clients,
         HubSkips(c) \/ HubSends(c) \/ HubDropsClient(c)
  PROVE  Service!Next
<1>1. /\ hub.step = "deliver" /\ c \in hub.todo /\ Visited(c)
      /\ UNCHANGED <<admitted, hosted, version>>
  BY DEF HubSkips, HubSends, HubDropsClient, history, registry
<1>2. hub'.step = "deliver" /\ hub'.msg = hub.msg /\ hub'.todo = hub.todo \ {c}
  BY <1>1, VisitedType DEF Base, TypeOK
<1>3. CASE HubSkips(c) \/ HubDropsClient(c)
  <2>1. UNCHANGED queue
    BY <1>3 DEF HubSkips, HubDropsClient
  <2>2. Service!Miss(c)
    BY <1>1, <1>2, <2>1 DEF Service!Miss
  <2> QED BY <2>2 DEF Service!Next
<1>4. CASE HubSends(c)
  <2>1. hub.msg.name \in admitted[c] /\ (hub.msg.type = "HOST" => hub.msg.name \in hosted[c])
    <3>1. hub.entry \in Entries /\ hub.msg \in Message /\ c \in members[hub.entry]
      BY <1>4, VisitedType DEF HubSends, Base, TypeOK
    <3>2. hub.msg.name \in Keys /\ Refers(hub.entry, hub.msg.name)
      BY <1>1, <3>1 DEF Message, Refers
    <3>3. roomName[c] = hub.msg.name /\ hub.msg.name \in admitted[c]
      BY <3>1, <3>2 DEF Listed
    <3> QED BY <1>4, <3>3 DEF HubSends, Wants, Base, Control
  <2>2. hub.msg.type = "MEMBERS" => hosted[c] = {}
    BY <1>4 DEF HubSends, Wants, Speakers, KnowsRole
  <2>3. Service!MayHear(c, hub.msg)
    BY <2>1, <2>2 DEF Service!MayHear
  <2>4. Service!Put(c, hub.msg)
    BY <1>4 DEF HubSends, Service!Put
  <2>5. Service!Hear(c)
    BY <1>1, <1>2, <2>3, <2>4 DEF Service!Hear
  <2> QED BY <2>5 DEF Service!Next
<1> QED BY <1>3, <1>4

LEMMA ChannelSteps ==
  ASSUME Base, RepliesPend, NEW c \in Clients, SendReply(c) \/ WriterStep(c)
  PROVE  [Service!Next]_(Service!vars)
<1>1. UNCHANGED <<admitted, hosted, version, hub>>
  BY DEF SendReply, WriterStep, WriteFrame, WriteFails, history, registry
<1>2. CASE SendReply(c)
  <2>1. pending[c] \in Message /\ pending[c].type = "reply"
    BY DEF Base, TypeOK, RepliesPend
  <2>2. Service!Put(c, pending[c])
    BY <1>2 DEF SendReply, Service!Put
  <2>3. queue' # queue
    <3>1. Len(queue'[c]) = Len(queue[c]) + 1 /\ Len(queue[c]) \in Nat
      BY <1>2, <2>1, PutMessages DEF SendReply, Base, TypeOK
    <3> QED BY <3>1
  <2>4. Service!Answer(c)
    BY <1>1, <2>1, <2>2, <2>3 DEF Service!Answer
  <2> QED BY <2>4 DEF Service!Next
<1>3. CASE WriterStep(c) /\ UNCHANGED queue
  BY <1>1, <1>3, UnseenStutters DEF Unseen, OnAir, Listeners
<1>4. CASE WriterStep(c) /\ ~UNCHANGED queue
  <2>1. \/ queue[c] # <<>> /\ queue' = [queue EXCEPT ![c] = <<>>]
        \/ queue[c] # <<>> /\ queue' = [queue EXCEPT ![c] = Tail(@)]
    <3>1. CASE WriteFrame(c)
      BY <3>1 DEF WriteFrame
    <3>2. CASE WriteFails(c)
      <4>1. queue[c] # <<>>
        <5>1. queue[c] = <<>> => queue' = [queue EXCEPT ![c] = queue[c]]
          BY <3>2 DEF WriteFails
        <5> QED BY <1>4, <5>1 DEF Base, TypeOK
      <4> QED BY <3>2, <4>1 DEF WriteFails
    <3> QED BY <1>4, <3>1, <3>2 DEF WriterStep
  <2>2. Service!Take(c)
    BY <1>1, <2>1 DEF Service!Take
  <2> QED BY <2>2 DEF Service!Next
<1> QED BY <1>2, <1>3, <1>4

LEMMA ServiceStep ==
  ASSUME Base, Listed, RepliesPend, Speakers, [Next]_vars
  PROVE  [Service!Next]_(Service!vars)
<1>1. ASSUME UNCHANGED <<admitted, hosted, version, hub, queue>> PROVE UNCHANGED Service!vars
  BY <1>1, UnseenStutters DEF Unseen, OnAir, Listeners
<1>2. ASSUME NEW c \in Clients,
             \/ UpdateOtherRoom(c) \/ UpdateRefused(c) \/ Relay(c) \/ BadRequest(c)
             \/ SendTextMessage(c) \/ LoadEntry(c) \/ StoreClient(c) \/ SendBroadcast(c)
             \/ DropBroadcast(c) \/ ReadFails(c) \/ TextStep(c) \/ Unregister(c) \/ ConnectionBreaks(c)
      PROVE  UNCHANGED <<admitted, hosted, version, hub, queue>>
  BY <1>2
  DEF UpdateOtherRoom, UpdateRefused, Relay, BadRequest, SendTextMessage, LoadEntry, StoreClient,
      SendBroadcast, DropBroadcast, ReadFails, TextStep, TextBroadcasts, TextDropped, Unregister,
      ConnectionBreaks, history, registry
<1>3. CASE (\E n \in Names : RoomExpires(n)) \/ UNCHANGED vars
  <2>1. UNCHANGED <<admitted, hosted, version, hub, queue>>
    BY <1>3 DEF RoomExpires, vars, history
  <2> QED BY <1>1, <2>1
<1>4. CASE CleanupFinds \/ CleanupDeletes
  <2>1. UNCHANGED <<admitted, hosted, version, queue>> /\ hub.step # "deliver" /\ hub'.step # "deliver"
    BY <1>4 DEF CleanupFinds, CleanupDeletes, Select, history, registry
  <2> QED BY <2>1, UnseenStutters DEF Unseen, OnAir, Listeners
<1>5. CASE HubDelivered
  <2>1. /\ UNCHANGED <<admitted, hosted, version, queue>>
        /\ hub.step = "deliver" /\ hub.todo = {} /\ hub'.step # "deliver"
    BY <1>5 DEF HubDelivered, Select, history, registry
  <2>2. Service!End
    BY <2>1 DEF Service!End
  <2> QED BY <2>2 DEF Service!Next
<1> QED
  BY <1>1, <1>2, <1>3, <1>4, <1>5, GrantSteps, ChangeSteps, TakeSteps, VisitSteps, ChannelSteps
  DEF Next, Handle, ReaderStep, HubStep, HubVisit

(* The goroutines, the channels and the map of ws.go together are the       *)
(* broadcast service: for any number of connections and any interleaving,   *)
(* one order of broadcasts for all, each heard at most once, by those       *)
(* admitted in the role it is meant for, with the state of the moment.      *)
THEOREM HubIsBroadcast == Spec => ImplementsBroadcast
<1>1. Init => Service!Init
  BY DEF Init, Select, Service!Init
<1> QED BY <1>1, SpeakersHold, ServiceStep, PTL DEF Spec, ImplementsBroadcast, Service!Spec
=============================================================================
