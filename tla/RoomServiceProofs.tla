-------------------------- MODULE RoomServiceProofs --------------------------
(***************************************************************************)
(* Theorems about RoomService for every set of workers, monitors, users,   *)
(* names, passwords, objects and requests.                                 *)
(*                                                                         *)
(* The inductive invariant is built in layers: Control says what every     *)
(* goroutine holds at each of its steps, Registry ties the name a room is  *)
(* stored under to the name in the object; on them rest the layers of the  *)
(* single theorems.                                                        *)
(***************************************************************************)
EXTENDS RoomService, TLAPS

HoldsRoom == {"store", "lookup", "register", "check", "takeover"} \cup Writing

(* What a goroutine holds at each step. *)
WorkerControl ==
  \A w \in Workers :
    /\ pc[w] \in WorkerSteps
    /\ pc[w] # "idle" => job[w] \in Inputs
    /\ pc[w] \in HoldsRoom => /\ obj[w] \in Objects
                              /\ heap[obj[w]] # None
                              /\ heap[obj[w]].name = job[w].name

MonitorControl ==
  \A m \in Monitors :
    /\ pc[m] \in MonitorSteps
    /\ pc[m] \in {"visit", "unkraken", "delete"} => job[m] \in Names
    /\ pc[m] \in {"unkraken", "delete"} => /\ obj[m] \in Objects
                                           /\ heap[obj[m]] # None
                                           /\ heap[obj[m]].name = job[m]

(* Allocated objects are those with contents; stored rooms are allocated    *)
(* and carry the name they are stored under.                                *)
Registry ==
  /\ \A o \in Objects : heap[o] = None <=> o \in unused
  /\ \A n \in Names : rooms[n] # None => /\ heap[rooms[n]] # None
                                         /\ heap[rooms[n]].name = n
  /\ \A o \in kraken : heap[o] # None

Base == TypeOK /\ WorkerControl /\ MonitorControl /\ Registry

USE ThreadAssumption, InputsAssumption, NoneAssumption

LEMMA BaseInit == Init => Base
  BY DEF Init, Base, TypeOK, WorkerControl, MonitorControl, Registry, Threads,
         WorkerSteps, MonitorSteps, Replies, HoldsRoom, Writing

-----------------------------------------------------------------------------
(* A step changes the object o alone, and neither frees nor renames it. *)
Touches(o) ==
  /\ heap' \in [Objects -> Room \cup {None}]
  /\ \A p \in Objects \ {o} : heap'[p] = heap[p]
  /\ heap'[o] # None
  /\ heap'[o].name = heap[o].name
  /\ heap'[o].password = heap[o].password

LEMMA TouchesByRecord ==
  ASSUME TypeOK, NEW o \in Objects, heap[o] # None, NEW r \in Room,
         r.name = heap[o].name, r.password = heap[o].password,
         heap' = [heap EXCEPT ![o] = r]
  PROVE  Touches(o)
  BY DEF TypeOK, Touches

LEMMA NewUserTouches ==
  ASSUME Base, NEW w \in Workers, NewUser(w)
  PROVE  /\ Touches(obj[w])
         /\ heap'[obj[w]].hostId = heap[obj[w]].hostId
         /\ heap'[obj[w]].userIds = heap[obj[w]].userIds \cup {job[w].user}
<1> DEFINE r == [heap[obj[w]] EXCEPT !.userIds = @ \cup {job[w].user}]
<1>0. job[w] \in Update /\ obj[w] \in Objects /\ heap[obj[w]] # None
  BY DEF Base, WorkerControl, HoldsRoom, Writing, NewUser
<1>1. heap[obj[w]] \in Room
  BY <1>0 DEF Base, TypeOK
<1>2. /\ r \in Room /\ r.name = heap[obj[w]].name /\ r.password = heap[obj[w]].password
      /\ r.hostId = heap[obj[w]].hostId
      /\ r.userIds = heap[obj[w]].userIds \cup {job[w].user}
  BY <1>0, <1>1 DEF Room, Update
<1>3. heap' = [heap EXCEPT ![obj[w]] = r]
  BY <1>0 DEF NewUser, Base, TypeOK
<1> HIDE DEF r
<1>4. heap'[obj[w]] = r
  BY <1>0, <1>3 DEF Base, TypeOK
<1> QED BY <1>0, <1>2, <1>3, <1>4, TouchesByRecord DEF Base

LEMMA SetHostTouches ==
  ASSUME Base, NEW w \in Workers, SetHost(w)
  PROVE  /\ Touches(obj[w])
         /\ heap'[obj[w]].hostId = job[w].user
         /\ heap'[obj[w]].userIds = heap[obj[w]].userIds
<1> DEFINE r == [heap[obj[w]] EXCEPT !.hostId = job[w].user]
<1>0. job[w] \in Update /\ obj[w] \in Objects /\ heap[obj[w]] # None
  BY DEF Base, WorkerControl, HoldsRoom, Writing, SetHost
<1>1. heap[obj[w]] \in Room
  BY <1>0 DEF Base, TypeOK
<1>2. /\ r \in Room /\ r.name = heap[obj[w]].name /\ r.password = heap[obj[w]].password
      /\ r.hostId = job[w].user
      /\ r.userIds = heap[obj[w]].userIds
  BY <1>0, <1>1 DEF Room, Update
<1>3. heap' = [heap EXCEPT ![obj[w]] = r]
  BY <1>0 DEF SetHost, Base, TypeOK
<1> HIDE DEF r
<1>4. heap'[obj[w]] = r
  BY <1>0, <1>3 DEF Base, TypeOK
<1> QED BY <1>0, <1>2, <1>3, <1>4, TouchesByRecord DEF Base

LEMMA WriteTailTouches ==
  ASSUME Base, NEW w \in Workers, WriteTail(w)
  PROVE  /\ Touches(obj[w])
         /\ heap'[obj[w]].hostId = heap[obj[w]].hostId
         /\ heap'[obj[w]].userIds = heap[obj[w]].userIds
<1> DEFINE r == [heap[obj[w]] EXCEPT !.fresh = job[w].fresh]
<1>0. job[w] \in Update /\ obj[w] \in Objects /\ heap[obj[w]] # None
  BY DEF Base, WorkerControl, HoldsRoom, Writing, WriteTail
<1>1. heap[obj[w]] \in Room
  BY <1>0 DEF Base, TypeOK
<1>2. /\ r \in Room /\ r.name = heap[obj[w]].name /\ r.password = heap[obj[w]].password
      /\ r.hostId = heap[obj[w]].hostId
      /\ r.userIds = heap[obj[w]].userIds
  BY <1>0, <1>1 DEF Room, Update
<1>3. heap' = [heap EXCEPT ![obj[w]] = r]
  BY <1>0 DEF WriteTail, Base, TypeOK
<1> HIDE DEF r
<1>4. heap'[obj[w]] = r
  BY <1>0, <1>3 DEF Base, TypeOK
<1> QED BY <1>0, <1>2, <1>3, <1>4, TouchesByRecord DEF Base

LEMMA AgeTouches ==
  ASSUME Base, NEW o \in Objects, Age(o)
  PROVE  /\ Touches(o)
         /\ heap'[o].hostId = heap[o].hostId
         /\ heap'[o].userIds = heap[o].userIds
<1> DEFINE r == [heap[o] EXCEPT !.fresh = FALSE]
<1>0. heap[o] # None
  BY DEF Age
<1>1. heap[o] \in Room
  BY <1>0 DEF Base, TypeOK
<1>2. /\ r \in Room /\ r.name = heap[o].name /\ r.password = heap[o].password
      /\ r.hostId = heap[o].hostId
      /\ r.userIds = heap[o].userIds
  BY <1>0, <1>1 DEF Room, Update
<1>3. heap' = [heap EXCEPT ![o] = r]
  BY <1>0 DEF Age, Base, TypeOK
<1> HIDE DEF r
<1>4. heap'[o] = r
  BY <1>0, <1>3 DEF Base, TypeOK
<1> QED BY <1>0, <1>2, <1>3, <1>4, TouchesByRecord DEF Base

LEMMA BaseStep == ASSUME Base, [Next]_vars PROVE Base'
<1> USE DEF Threads, WorkerSteps, MonitorSteps, HoldsRoom, Writing, Replies,
            stores, locals, history, Goto
<1>. SUFFICES ASSUME Next PROVE Base'
  <2>1. CASE UNCHANGED vars
    BY <2>1 DEF Base, TypeOK, WorkerControl, MonitorControl, Registry, vars
  <2> QED BY <2>1
<1>1. ASSUME NEW w \in Workers, Receive(w) PROVE Base'
  BY <1>1 DEF Base, TypeOK, WorkerControl, MonitorControl, Registry, Receive
<1>2. ASSUME NEW w \in Workers, QueryRoom(w) PROVE Base'
  <2>0. job[w] \in Update
    BY <1>2 DEF Base, WorkerControl, QueryRoom
  <2>1. TypeOK'
    BY <1>2, <2>0 DEF Base, TypeOK, WorkerControl, QueryRoom, Update
  <2>2. WorkerControl'
    BY <1>2, <2>0 DEF Base, TypeOK, WorkerControl, Registry, QueryRoom, Update
  <2>3. MonitorControl'
    BY <1>2, <2>0 DEF Base, TypeOK, MonitorControl, WorkerControl, Registry, QueryRoom, Update
  <2>4. Registry'
    BY <1>2, <2>0 DEF Base, TypeOK, WorkerControl, Registry, QueryRoom, Update
  <2> QED BY <2>1, <2>2, <2>3, <2>4 DEF Base
<1>3. ASSUME NEW w \in Workers, CreateRoom(w) PROVE Base'
  <2>0. job[w] \in Update
    BY <1>3 DEF Base, WorkerControl, CreateRoom
  <2>1. PICK o \in unused :
          /\ unused' = unused \ {o}
          /\ heap' = [heap EXCEPT ![o] = NewRoom(job[w])]
          /\ kraken' = kraken \cup {o}
          /\ obj' = [obj EXCEPT ![w] = o]
          /\ everHost' = [everHost EXCEPT ![o] = {job[w].user}]
    BY <1>3 DEF CreateRoom, NewKrakenRoom
  <2>2. /\ o \in Objects /\ heap[o] = None
        /\ NewRoom(job[w]) \in Room /\ NewRoom(job[w]).name = job[w].name
        /\ job[w].user \in Users
    BY <2>0, <2>1 DEF Base, TypeOK, Registry, NewRoom, Room, Update
  <2>3. /\ heap' \in [Objects -> Room \cup {None}]
        /\ heap'[o] # None /\ heap'[o].name = job[w].name
        /\ \A q \in Objects \ {o} : heap'[q] = heap[q]
    BY <2>1, <2>2 DEF Base, TypeOK
  <2>4. /\ pc' = [pc EXCEPT ![w] = "store"]
        /\ UNCHANGED <<rooms, author, job, isNewUser, todo, reply, answered, raced>>
    BY <1>3 DEF CreateRoom
  <2>5. TypeOK'
    BY <2>1, <2>2, <2>3, <2>4 DEF Base, TypeOK
  <2>6. WorkerControl'
    BY <2>1, <2>2, <2>3, <2>4, <1>3 DEF Base, TypeOK, WorkerControl, CreateRoom
  <2>7. MonitorControl'
    BY <2>1, <2>2, <2>3, <2>4 DEF Base, TypeOK, MonitorControl
  <2>8. Registry'
    BY <2>1, <2>2, <2>3, <2>4 DEF Base, TypeOK, Registry
  <2> QED BY <2>5, <2>6, <2>7, <2>8 DEF Base
<1>4. ASSUME NEW w \in Workers, CreatePanics(w) PROVE Base'
  BY <1>4 DEF Base, TypeOK, WorkerControl, MonitorControl, Registry, CreatePanics, Answer
<1>5. ASSUME NEW w \in Workers, StoreRoom(w) PROVE Base'
  <2>0. job[w] \in Update
    BY <1>5 DEF Base, WorkerControl, StoreRoom
  <2>1. TypeOK'
    BY <1>5, <2>0 DEF Base, TypeOK, WorkerControl, StoreRoom, Update
  <2>2. WorkerControl'
    BY <1>5, <2>0 DEF Base, TypeOK, WorkerControl, Registry, StoreRoom, Update
  <2>3. MonitorControl'
    BY <1>5, <2>0 DEF Base, TypeOK, MonitorControl, WorkerControl, Registry, StoreRoom, Update
  <2>4. Registry'
    BY <1>5, <2>0 DEF Base, TypeOK, WorkerControl, Registry, StoreRoom, Update
  <2> QED BY <2>1, <2>2, <2>3, <2>4 DEF Base
<1>6. ASSUME NEW w \in Workers, QueryUser(w) PROVE Base'
  BY <1>6 DEF Base, TypeOK, WorkerControl, MonitorControl, Registry, QueryUser
<1>7. ASSUME NEW w \in Workers, NewUser(w) PROVE Base'
  <2>0. job[w] \in Update /\ obj[w] \in Objects /\ heap[obj[w]] # None
    BY <1>7 DEF Base, WorkerControl, NewUser
  <2>1. Touches(obj[w])
    BY <1>7, NewUserTouches
  <2>2. TypeOK'
    <3>1. heap' \in [Objects -> Room \cup {None}]
      BY <2>1 DEF Touches
    <3> QED BY <1>7, <2>0, <3>1 DEF Base, TypeOK, NewUser
  <2>3. WorkerControl'
    BY <1>7, <2>0, <2>1 DEF Base, TypeOK, WorkerControl, Touches, NewUser
  <2>4. MonitorControl'
    BY <1>7, <2>0, <2>1 DEF Base, TypeOK, MonitorControl, Touches, NewUser
  <2>5. Registry'
    BY <1>7, <2>0, <2>1 DEF Base, TypeOK, Registry, Touches, NewUser
  <2> QED BY <2>2, <2>3, <2>4, <2>5 DEF Base
<1>8. ASSUME NEW w \in Workers, WrongPassword(w) PROVE Base'
  BY <1>8 DEF Base, TypeOK, WorkerControl, MonitorControl, Registry, WrongPassword, AnswerUpdate, Answer, Update
<1>9. ASSUME NEW w \in Workers, OtherHost(w) PROVE Base'
  BY <1>9 DEF Base, TypeOK, WorkerControl, MonitorControl, Registry, OtherHost, AnswerUpdate, Answer, Update
<1>10. ASSUME NEW w \in Workers, IsNewHost(w) PROVE Base'
  BY <1>10 DEF Base, TypeOK, WorkerControl, MonitorControl, Registry, IsNewHost
<1>11. ASSUME NEW w \in Workers, IsHost(w) PROVE Base'
  BY <1>11 DEF Base, TypeOK, WorkerControl, MonitorControl, Registry, IsHost
<1>12. ASSUME NEW w \in Workers, SetHost(w) PROVE Base'
  <2>0. job[w] \in Update /\ obj[w] \in Objects /\ heap[obj[w]] # None
    BY <1>12 DEF Base, WorkerControl, SetHost
  <2>1. Touches(obj[w])
    BY <1>12, SetHostTouches
  <2>2. TypeOK'
    <3>1. heap' \in [Objects -> Room \cup {None}]
      BY <2>1 DEF Touches
    <3> QED BY <1>12, <2>0, <3>1 DEF Base, TypeOK, SetHost, Update
  <2>3. WorkerControl'
    BY <1>12, <2>0, <2>1 DEF Base, TypeOK, WorkerControl, Touches, SetHost
  <2>4. MonitorControl'
    BY <1>12, <2>0, <2>1 DEF Base, TypeOK, MonitorControl, Touches, SetHost
  <2>5. Registry'
    BY <1>12, <2>0, <2>1 DEF Base, TypeOK, Registry, Touches, SetHost
  <2> QED BY <2>2, <2>3, <2>4, <2>5 DEF Base
<1>13. ASSUME NEW w \in Workers, WriteRate(w) PROVE Base'
  BY <1>13 DEF Base, TypeOK, WorkerControl, MonitorControl, Registry, WriteRate, Signature, Author, Groups, Update
<1>14. ASSUME NEW w \in Workers, WritePosition(w) PROVE Base'
  BY <1>14 DEF Base, TypeOK, WorkerControl, MonitorControl, Registry, WritePosition, Signature, Author, Groups, Update
<1>15. ASSUME NEW w \in Workers, WriteTail(w) PROVE Base'
  <2>0. job[w] \in Update /\ obj[w] \in Objects /\ heap[obj[w]] # None
    BY <1>15 DEF Base, WorkerControl, WriteTail
  <2>1. Touches(obj[w])
    BY <1>15, WriteTailTouches
  <2>2. TypeOK'
    <3>1. heap' \in [Objects -> Room \cup {None}]
      BY <2>1 DEF Touches
    <3> QED BY <1>15, <2>0, <3>1 DEF Base, TypeOK, WriteTail, AnswerUpdate, Answer, Signature, Author, Groups, Update
  <2>3. WorkerControl'
    BY <1>15, <2>0, <2>1 DEF Base, TypeOK, WorkerControl, Touches, WriteTail, AnswerUpdate, Answer
  <2>4. MonitorControl'
    BY <1>15, <2>0, <2>1 DEF Base, TypeOK, MonitorControl, Touches, WriteTail, AnswerUpdate, Answer
  <2>5. Registry'
    BY <1>15, <2>0, <2>1 DEF Base, TypeOK, Registry, Touches, WriteTail, AnswerUpdate, Answer
  <2> QED BY <2>2, <2>3, <2>4, <2>5 DEF Base
<1>16. ASSUME NEW w \in Workers, UpdatePanics(w) PROVE Base'
  BY <1>16 DEF Base, TypeOK, WorkerControl, MonitorControl, Registry, UpdatePanics, AnswerUpdate, Answer, Update
<1>17. ASSUME NEW m \in Monitors, StatBegin(m) PROVE Base'
  BY <1>17 DEF Base, TypeOK, WorkerControl, MonitorControl, Registry, StatBegin
<1>18. ASSUME NEW m \in Monitors, StatVisit(m) PROVE Base'
  BY <1>18 DEF Base, TypeOK, WorkerControl, MonitorControl, Registry, StatVisit, RangeSees
<1>19. ASSUME NEW m \in Monitors, StatSkip(m) PROVE Base'
  BY <1>19 DEF Base, TypeOK, WorkerControl, MonitorControl, Registry, StatSkip
<1>20. ASSUME NEW m \in Monitors, StatKeep(m) PROVE Base'
  BY <1>20 DEF Base, TypeOK, WorkerControl, MonitorControl, Registry, StatKeep
<1>21. ASSUME NEW m \in Monitors, StatExpire(m) PROVE Base'
  BY <1>21 DEF Base, TypeOK, WorkerControl, MonitorControl, Registry, StatExpire
<1>22. ASSUME NEW m \in Monitors, StatPanics(m) PROVE Base'
  BY <1>22 DEF Base, TypeOK, WorkerControl, MonitorControl, Registry, StatPanics, Answer
<1>23. ASSUME NEW m \in Monitors, StatUnkraken(m) PROVE Base'
  BY <1>23 DEF Base, TypeOK, WorkerControl, MonitorControl, Registry, StatUnkraken, DeleteKrakenRoom
<1>24. ASSUME NEW m \in Monitors, StatDelete(m) PROVE Base'
  BY <1>24 DEF Base, TypeOK, WorkerControl, MonitorControl, Registry, StatDelete
<1>25. ASSUME NEW m \in Monitors, StatEnd(m) PROVE Base'
  BY <1>25 DEF Base, TypeOK, WorkerControl, MonitorControl, Registry, StatEnd, Answer
<1>26. ASSUME NEW o \in Objects, Age(o) PROVE Base'
  <2>0. heap[o] # None
    BY <1>26 DEF Age
  <2>1. Touches(o)
    BY <1>26, AgeTouches
  <2>2. TypeOK'
    <3>1. heap' \in [Objects -> Room \cup {None}]
      BY <2>1 DEF Touches
    <3> QED BY <1>26, <2>0, <3>1 DEF Base, TypeOK, Age
  <2>3. WorkerControl'
    BY <1>26, <2>0, <2>1 DEF Base, TypeOK, WorkerControl, Touches, Age
  <2>4. MonitorControl'
    BY <1>26, <2>0, <2>1 DEF Base, TypeOK, MonitorControl, Touches, Age
  <2>5. Registry'
    BY <1>26, <2>0, <2>1 DEF Base, TypeOK, Registry, Touches, Age
  <2> QED BY <2>2, <2>3, <2>4, <2>5 DEF Base
<1> QED
  BY <1>1, <1>2, <1>3, <1>4, <1>5, <1>6, <1>7, <1>8, <1>9, <1>10, <1>11, <1>12, <1>13, <1>14, <1>15, <1>16, <1>17, <1>18, <1>19, <1>20, <1>21, <1>22, <1>23, <1>24, <1>25, <1>26 DEF Next, WorkerStep, MonitorStep, StatProgress

(* Every variable keeps its type, whoever runs against whom. *)
THEOREM TypeCorrect == Spec => []TypeOK
<1>1. Init => Base
  BY BaseInit
<1>2. Base /\ [Next]_vars => Base'
  BY BaseStep
<1>3. Base => TypeOK
  BY DEF Base
<1> QED BY <1>1, <1>2, <1>3, PTL DEF Spec

-----------------------------------------------------------------------------
(* Admission: what a worker between the password test and its answer knows, *)
(* and keeps knowing whatever the others do, because neither the password   *)
(* of an object nor its past hosts are ever forgotten.                      *)
Admission ==
  /\ \A o \in Objects :
       IF heap[o] = None THEN \A g \in Groups : author[o][g] = None
                         ELSE heap[o].hostId \in everHost[o]
  /\ \A w \in Workers :
       /\ pc[w] \in {"takeover"} \cup Writing =>
            heap[obj[w]].password = job[w].password
       /\ pc[w] \in Writing => job[w].user \in everHost[obj[w]]

AdmissionInv == Admission /\ FieldsFromAdmittedHosts

LEMMA AdmissionInit == Init => AdmissionInv
  BY DEF Init, AdmissionInv, Admission, FieldsFromAdmittedHosts, Writing, Threads

(* A worker's signature under a group of fields of the room it holds keeps  *)
(* the invariant; every other step that leaves the fields alone has to keep *)
(* passwords and past hosts.                                                *)
LEMMA SignedByWriter ==
  ASSUME Base, AdmissionInv, NEW w \in Workers, pc[w] \in Writing,
         NEW g \in Groups,
         author' = [author EXCEPT ![obj[w]][g] = Signature(w)],
         \A o \in Objects : heap[o] # None =>
           heap'[o] # None /\ heap'[o].password = heap[o].password,
         everHost' = everHost
  PROVE  FieldsFromAdmittedHosts'
<1>0. obj[w] \in Objects /\ heap[obj[w]] # None /\ job[w] \in Update
  BY DEF Base, WorkerControl, HoldsRoom, Writing
<1>1. /\ Signature(w).user \in everHost[obj[w]]
      /\ Signature(w).password = heap[obj[w]].password
  BY DEF AdmissionInv, Admission, Signature
<1> SUFFICES ASSUME NEW o \in Objects, NEW h \in Groups, author'[o][h] # None
             PROVE  /\ heap'[o] # None
                    /\ author'[o][h].password = heap'[o].password
                    /\ author'[o][h].user \in everHost[o]
  BY DEF FieldsFromAdmittedHosts
<1>2. CASE o = obj[w] /\ h = g
  <2>1. author'[o][h] = Signature(w)
    BY <1>0, <1>2 DEF Base, TypeOK
  <2> QED BY <1>0, <1>1, <1>2, <2>1
<1>3. CASE ~(o = obj[w] /\ h = g)
  <2>1. author'[o][h] = author[o][h]
    BY <1>0, <1>3 DEF Base, TypeOK
  <2> QED BY <2>1 DEF AdmissionInv, FieldsFromAdmittedHosts
<1> QED BY <1>2, <1>3

LEMMA AdmissionStep == ASSUME Base, AdmissionInv, [Next]_vars PROVE AdmissionInv'
<1> USE DEF Threads, WorkerSteps, MonitorSteps, HoldsRoom, Writing,
            stores, locals, history, Goto
<1>. SUFFICES ASSUME Next PROVE AdmissionInv'
  <2>1. CASE UNCHANGED vars
    BY <2>1 DEF AdmissionInv, Admission, FieldsFromAdmittedHosts, vars
  <2> QED BY <2>1
<1>1. ASSUME NEW w \in Workers, Receive(w) PROVE AdmissionInv'
  BY <1>1 DEF Base, TypeOK, WorkerControl, AdmissionInv, Admission, FieldsFromAdmittedHosts, Receive
<1>2. ASSUME NEW w \in Workers, QueryRoom(w) PROVE AdmissionInv'
  BY <1>2 DEF Base, TypeOK, WorkerControl, AdmissionInv, Admission, FieldsFromAdmittedHosts, QueryRoom
<1>3. ASSUME NEW w \in Workers, CreatePanics(w) PROVE AdmissionInv'
  BY <1>3 DEF Base, TypeOK, WorkerControl, AdmissionInv, Admission, FieldsFromAdmittedHosts, CreatePanics, Answer
<1>4. ASSUME NEW w \in Workers, StoreRoom(w) PROVE AdmissionInv'
  BY <1>4 DEF Base, TypeOK, WorkerControl, AdmissionInv, Admission, FieldsFromAdmittedHosts, StoreRoom
<1>5. ASSUME NEW w \in Workers, QueryUser(w) PROVE AdmissionInv'
  BY <1>5 DEF Base, TypeOK, WorkerControl, AdmissionInv, Admission, FieldsFromAdmittedHosts, QueryUser
<1>6. ASSUME NEW w \in Workers, WrongPassword(w) PROVE AdmissionInv'
  BY <1>6 DEF Base, TypeOK, WorkerControl, AdmissionInv, Admission, FieldsFromAdmittedHosts, WrongPassword, AnswerUpdate, Answer
<1>7. ASSUME NEW w \in Workers, OtherHost(w) PROVE AdmissionInv'
  BY <1>7 DEF Base, TypeOK, WorkerControl, AdmissionInv, Admission, FieldsFromAdmittedHosts, OtherHost, AnswerUpdate, Answer
<1>8. ASSUME NEW w \in Workers, IsNewHost(w) PROVE AdmissionInv'
  BY <1>8 DEF Base, TypeOK, WorkerControl, AdmissionInv, Admission, FieldsFromAdmittedHosts, IsNewHost, PasswordMatches
<1>9. ASSUME NEW w \in Workers, IsHost(w) PROVE AdmissionInv'
  BY <1>9 DEF Base, TypeOK, WorkerControl, AdmissionInv, Admission, FieldsFromAdmittedHosts, IsHost, PasswordMatches
<1>10. ASSUME NEW w \in Workers, UpdatePanics(w) PROVE AdmissionInv'
  BY <1>10 DEF Base, TypeOK, WorkerControl, AdmissionInv, Admission, FieldsFromAdmittedHosts, UpdatePanics, AnswerUpdate, Answer
<1>11. ASSUME NEW w \in Workers, WriteRate(w) PROVE AdmissionInv'
  <2>0. obj[w] \in Objects /\ heap[obj[w]] # None
    BY <1>11 DEF Base, WorkerControl, WriteRate
  <2>1. Admission'
    BY <1>11, <2>0 DEF Base, TypeOK, WorkerControl, AdmissionInv, Admission, WriteRate, Signature, Author, Groups, Update
  <2>2. FieldsFromAdmittedHosts'
    BY <1>11, SignedByWriter DEF Groups, WriteRate
  <2> QED BY <2>1, <2>2 DEF AdmissionInv
<1>12. ASSUME NEW w \in Workers, WritePosition(w) PROVE AdmissionInv'
  <2>0. obj[w] \in Objects /\ heap[obj[w]] # None
    BY <1>12 DEF Base, WorkerControl, WritePosition
  <2>1. Admission'
    BY <1>12, <2>0 DEF Base, TypeOK, WorkerControl, AdmissionInv, Admission, WritePosition, Signature, Author, Groups, Update
  <2>2. FieldsFromAdmittedHosts'
    BY <1>12, SignedByWriter DEF Groups, WritePosition
  <2> QED BY <2>1, <2>2 DEF AdmissionInv
<1>13. ASSUME NEW m \in Monitors, StatBegin(m) PROVE AdmissionInv'
  BY <1>13 DEF Base, TypeOK, MonitorControl, AdmissionInv, Admission, FieldsFromAdmittedHosts, StatBegin
<1>14. ASSUME NEW m \in Monitors, StatVisit(m) PROVE AdmissionInv'
  BY <1>14 DEF Base, TypeOK, MonitorControl, AdmissionInv, Admission, FieldsFromAdmittedHosts, StatVisit
<1>15. ASSUME NEW m \in Monitors, StatSkip(m) PROVE AdmissionInv'
  BY <1>15 DEF Base, TypeOK, MonitorControl, AdmissionInv, Admission, FieldsFromAdmittedHosts, StatSkip
<1>16. ASSUME NEW m \in Monitors, StatKeep(m) PROVE AdmissionInv'
  BY <1>16 DEF Base, TypeOK, MonitorControl, AdmissionInv, Admission, FieldsFromAdmittedHosts, StatKeep
<1>17. ASSUME NEW m \in Monitors, StatExpire(m) PROVE AdmissionInv'
  BY <1>17 DEF Base, TypeOK, MonitorControl, AdmissionInv, Admission, FieldsFromAdmittedHosts, StatExpire
<1>18. ASSUME NEW m \in Monitors, StatPanics(m) PROVE AdmissionInv'
  BY <1>18 DEF Base, TypeOK, MonitorControl, AdmissionInv, Admission, FieldsFromAdmittedHosts, StatPanics, Answer
<1>19. ASSUME NEW m \in Monitors, StatUnkraken(m) PROVE AdmissionInv'
  BY <1>19 DEF Base, TypeOK, MonitorControl, AdmissionInv, Admission, FieldsFromAdmittedHosts, StatUnkraken
<1>20. ASSUME NEW m \in Monitors, StatDelete(m) PROVE AdmissionInv'
  BY <1>20 DEF Base, TypeOK, MonitorControl, AdmissionInv, Admission, FieldsFromAdmittedHosts, StatDelete
<1>21. ASSUME NEW m \in Monitors, StatEnd(m) PROVE AdmissionInv'
  BY <1>21 DEF Base, TypeOK, MonitorControl, AdmissionInv, Admission, FieldsFromAdmittedHosts, StatEnd, Answer
<1>22. ASSUME NEW w \in Workers, CreateRoom(w) PROVE AdmissionInv'
  <2>0. job[w] \in Update
    BY <1>22 DEF Base, WorkerControl, CreateRoom
  <2>1. PICK o \in unused :
          /\ heap' = [heap EXCEPT ![o] = NewRoom(job[w])]
          /\ obj' = [obj EXCEPT ![w] = o]
          /\ everHost' = [everHost EXCEPT ![o] = {job[w].user}]
    BY <1>22 DEF CreateRoom
  <2>2. /\ o \in Objects /\ heap[o] = None
        /\ NewRoom(job[w]) \in Room /\ NewRoom(job[w]).hostId = job[w].user
    BY <2>0, <2>1 DEF Base, TypeOK, Registry, NewRoom, Room, Update
  <2>3. /\ heap'[o] # None /\ heap'[o].hostId \in everHost'[o]
        /\ \A q \in Objects \ {o} : heap'[q] = heap[q] /\ everHost'[q] = everHost[q]
    BY <2>1, <2>2 DEF Base, TypeOK
  <2>4. /\ \A v \in Workers \ {w} : pc'[v] = pc[v] /\ obj'[v] = obj[v]
        /\ pc'[w] = "store"
        /\ UNCHANGED <<job, author>>
    BY <1>22, <2>1 DEF Base, TypeOK, CreateRoom
  <2>5. Admission'
    <3>1. ASSUME NEW q \in Objects
          PROVE  IF heap'[q] = None THEN \A g \in Groups : author'[q][g] = None
                                    ELSE heap'[q].hostId \in everHost'[q]
      BY <2>3, <2>4 DEF AdmissionInv, Admission
    <3>2. ASSUME NEW v \in Workers, pc'[v] \in {"takeover"} \cup Writing
          PROVE  /\ heap'[obj'[v]].password = job'[v].password
                 /\ pc'[v] \in Writing => job'[v].user \in everHost'[obj'[v]]
      <4>1. v # w /\ obj[v] # o /\ obj[v] \in Objects
        BY <2>2, <2>4, <3>2 DEF Base, WorkerControl
      <4> QED BY <2>3, <2>4, <3>2, <4>1 DEF AdmissionInv, Admission
    <3> QED BY <3>1, <3>2 DEF Admission
  <2>6. FieldsFromAdmittedHosts'
    BY <2>2, <2>3, <2>4 DEF AdmissionInv, FieldsFromAdmittedHosts
  <2> QED BY <2>5, <2>6 DEF AdmissionInv
<1>23. ASSUME NEW w \in Workers, NewUser(w) PROVE AdmissionInv'
  <2>0. obj[w] \in Objects /\ heap[obj[w]] # None /\ job[w] \in Update
    BY <1>23 DEF Base, WorkerControl, NewUser
  <2>1. /\ Touches(obj[w])
        /\ heap'[obj[w]].hostId = heap[obj[w]].hostId
    BY <1>23, NewUserTouches
  <2>2. Admission'
    BY <1>23, <2>0, <2>1 DEF Base, TypeOK, WorkerControl, Touches, AdmissionInv, Admission, NewUser
  <2>3. FieldsFromAdmittedHosts'
    BY <1>23, <2>0, <2>1 DEF Base, TypeOK, Touches, AdmissionInv, FieldsFromAdmittedHosts, NewUser
  <2> QED BY <2>2, <2>3 DEF AdmissionInv
<1>24. ASSUME NEW w \in Workers, SetHost(w) PROVE AdmissionInv'
  <2>0. obj[w] \in Objects /\ heap[obj[w]] # None /\ job[w] \in Update
    BY <1>24 DEF Base, WorkerControl, SetHost
  <2>1. /\ Touches(obj[w])
        /\ heap'[obj[w]].hostId = job[w].user
    BY <1>24, SetHostTouches
  <2>2. Admission'
    BY <1>24, <2>0, <2>1 DEF Base, TypeOK, WorkerControl, Touches, AdmissionInv, Admission, SetHost, Update
  <2>3. FieldsFromAdmittedHosts'
    BY <1>24, <2>0, <2>1 DEF Base, TypeOK, Touches, AdmissionInv, FieldsFromAdmittedHosts, SetHost, Update
  <2> QED BY <2>2, <2>3 DEF AdmissionInv
<1>25. ASSUME NEW w \in Workers, WriteTail(w) PROVE AdmissionInv'
  <2>0. obj[w] \in Objects /\ heap[obj[w]] # None /\ job[w] \in Update
    BY <1>25 DEF Base, WorkerControl, WriteTail
  <2>1. /\ Touches(obj[w])
        /\ heap'[obj[w]].hostId = heap[obj[w]].hostId
    BY <1>25, WriteTailTouches
  <2>2. Admission'
    BY <1>25, <2>0, <2>1 DEF Base, TypeOK, WorkerControl, Touches, AdmissionInv, Admission, WriteTail, AnswerUpdate, Answer
  <2>3. FieldsFromAdmittedHosts'
    BY <1>25, <2>0, <2>1, SignedByWriter DEF Groups, Touches, WriteTail, AnswerUpdate
  <2> QED BY <2>2, <2>3 DEF AdmissionInv
<1>26. ASSUME NEW o \in Objects, Age(o) PROVE AdmissionInv'
  <2>1. /\ Touches(o) /\ heap'[o].hostId = heap[o].hostId
    BY <1>26, AgeTouches
  <2>2. heap[o] # None
    BY <1>26 DEF Age
  <2> QED BY <1>26, <2>1, <2>2 DEF Base, WorkerControl, Touches, AdmissionInv, Admission,
                               FieldsFromAdmittedHosts, Age
<1> QED
  BY <1>1, <1>2, <1>3, <1>4, <1>5, <1>6, <1>7, <1>8, <1>9,
     <1>10, <1>11, <1>12, <1>13, <1>14, <1>15, <1>16, <1>17, <1>18,
     <1>19, <1>20, <1>21, <1>22, <1>23, <1>24, <1>25, <1>26
     DEF Next, WorkerStep, MonitorStep, StatProgress

(* Every playback field of a room was last assigned by an update that       *)
(* carried the room's password, sent by a user who has been its host.       *)
THEOREM OnlyAdmittedHostsWrite == Spec => []FieldsFromAdmittedHosts
<1>1. Init => Base /\ AdmissionInv
  BY BaseInit, AdmissionInit
<1>2. Base /\ AdmissionInv /\ [Next]_vars => Base' /\ AdmissionInv'
  BY BaseStep, AdmissionStep
<1>3. AdmissionInv => FieldsFromAdmittedHosts
  BY DEF AdmissionInv
<1> QED BY <1>1, <1>2, <1>3, PTL DEF Spec

-----------------------------------------------------------------------------
(* First contact: who was answered is registered, and a serial user a       *)
(* worker takes for new was not answered yet, because no other worker       *)
(* handles an update of his.                                                *)
Serial ==
  \A v, w \in Workers :
    (v # w /\ pc[v] # "idle" /\ pc[w] # "idle" /\ job[v].user \in SerialUsers)
      => job[w].user # job[v].user

Contact ==
  /\ \A o \in Objects : IF heap[o] = None THEN answered[o] = {}
                                          ELSE answered[o] \subseteq heap[o].userIds
  /\ \A w \in Workers :
       /\ pc[w] \in {"check", "takeover"} \cup Writing =>
            job[w].user \in heap[obj[w]].userIds
       /\ pc[w] \in {"register", "takeover"} => isNewUser[w]
       /\ (/\ pc[w] \in {"register", "check", "takeover"}
           /\ isNewUser[w]
           /\ job[w].user \in SerialUsers) => job[w].user \notin answered[obj[w]]

ContactInv == Serial /\ Contact

LEMMA ContactInit == Init => ContactInv
  BY DEF Init, ContactInv, Serial, Contact, Writing, Threads

LEMMA SerialStep == ASSUME Base, Serial, [Next]_vars PROVE Serial'
<1> USE DEF Threads, WorkerSteps, Goto
<1>1. CASE UNCHANGED vars
  BY <1>1 DEF Serial, vars
<1>2. ASSUME NEW w \in Workers, Receive(w) PROVE Serial'
  BY <1>2 DEF Base, TypeOK, Serial, Receive
<1>3. ASSUME NEW w \in Workers, WorkerStep(w), ~Receive(w) PROVE Serial'
  <2>1. /\ pc[w] # "idle"
        /\ \A v \in Workers \ {w} : pc'[v] = pc[v] /\ job'[v] = job[v]
        /\ pc'[w] = "idle" \/ job'[w] = job[w]
    BY <1>3 DEF Base, TypeOK, WorkerStep, QueryRoom, CreateRoom, CreatePanics, StoreRoom,
         QueryUser, NewUser, WrongPassword, OtherHost, IsNewHost, IsHost, SetHost,
         WriteRate, WritePosition, WriteTail, UpdatePanics, AnswerUpdate, Answer, locals
  <2> QED BY <2>1 DEF Serial
<1>4. ASSUME NEW m \in Monitors, MonitorStep(m) PROVE Serial'
  <2>1. \A v \in Workers : pc'[v] = pc[v] /\ job'[v] = job[v]
    BY <1>4 DEF Base, TypeOK, MonitorStep, StatProgress, StatBegin, StatVisit, StatSkip,
         StatKeep, StatExpire, StatPanics, StatUnkraken, StatDelete, StatEnd, Answer, locals
  <2> QED BY <2>1 DEF Serial
<1>5. ASSUME NEW o \in Objects, Age(o) PROVE Serial'
  BY <1>5 DEF Serial, Age, locals
<1> QED BY <1>1, <1>2, <1>3, <1>4, <1>5 DEF Next

(* The answer to an update: the user is registered by then. *)
LEMMA AnsweredIsRegistered ==
  ASSUME Base, ContactInv, NEW w \in Workers, pc[w] \in {"check"} \cup Writing,
         AnswerUpdate(w, "ok") \/ AnswerUpdate(w, "panic")
           \/ AnswerUpdate(w, "hostWrongPassword") \/ AnswerUpdate(w, "otherHostSyncing"),
         \A o \in Objects : heap[o] # None =>
           heap'[o] # None /\ heap'[o].userIds = heap[o].userIds,
         \A o \in Objects : heap[o] = None => heap'[o] = None
  PROVE  Contact'
<1> USE DEF Threads, HoldsRoom, Writing, Goto
<1>0. /\ obj[w] \in Objects /\ heap[obj[w]] # None
      /\ job[w].user \in heap[obj[w]].userIds
  BY DEF Base, WorkerControl, ContactInv, Contact
<1>1. /\ \A v \in Workers \ {w} : /\ pc'[v] = pc[v] /\ job'[v] = job[v]
                                  /\ obj'[v] = obj[v] /\ isNewUser'[v] = isNewUser[v]
      /\ pc'[w] = "idle"
  BY DEF Base, TypeOK, AnswerUpdate, Answer
<1>2. /\ answered'[obj[w]] = answered[obj[w]] \cup {job[w].user}
      /\ \A o \in Objects \ {obj[w]} : answered'[o] = answered[o]
  BY <1>0 DEF Base, TypeOK, AnswerUpdate
<1>3. ASSUME NEW o \in Objects
      PROVE  IF heap'[o] = None THEN answered'[o] = {}
                                ELSE answered'[o] \subseteq heap'[o].userIds
  <2>1. CASE o = obj[w]
    BY <2>1, <1>0, <1>2 DEF ContactInv, Contact
  <2>2. CASE o # obj[w]
    BY <2>2, <1>2 DEF ContactInv, Contact
  <2> QED BY <2>1, <2>2
<1>4. ASSUME NEW v \in Workers
      PROVE  /\ pc'[v] \in {"check", "takeover"} \cup Writing =>
                  job'[v].user \in heap'[obj'[v]].userIds
             /\ pc'[v] \in {"register", "takeover"} => isNewUser'[v]
             /\ (/\ pc'[v] \in {"register", "check", "takeover"}
                 /\ isNewUser'[v]
                 /\ job'[v].user \in SerialUsers) => job'[v].user \notin answered'[obj'[v]]
  <2>1. CASE v = w
    BY <2>1, <1>1
  <2>2. CASE v # w /\ pc[v] \in HoldsRoom
    <3>1. obj[v] \in Objects /\ heap[obj[v]] # None
      BY <2>2 DEF Base, WorkerControl
    <3>2. job[v].user \in SerialUsers => job[v].user # job[w].user
      BY <2>2 DEF ContactInv, Serial
    <3> QED BY <2>2, <1>1, <1>2, <3>1, <3>2 DEF ContactInv, Contact
  <2>3. CASE v # w /\ pc[v] \notin HoldsRoom
    BY <2>3, <1>1
  <2> QED BY <2>1, <2>2, <2>3
<1> QED BY <1>3, <1>4 DEF Contact

LEMMA ContactStep == ASSUME Base, ContactInv, [Next]_vars PROVE Contact'
<1> USE DEF Threads, WorkerSteps, MonitorSteps, HoldsRoom, Writing,
            stores, locals, history, Goto
<1>. SUFFICES ASSUME Next PROVE Contact'
  <2>1. CASE UNCHANGED vars
    BY <2>1 DEF ContactInv, Contact, vars
  <2> QED BY <2>1
<1>1. ASSUME NEW w \in Workers, Receive(w) PROVE Contact'
  BY <1>1 DEF Base, TypeOK, WorkerControl, ContactInv, Contact, Receive
<1>2. ASSUME NEW w \in Workers, QueryRoom(w) PROVE Contact'
  BY <1>2 DEF Base, TypeOK, WorkerControl, ContactInv, Contact, QueryRoom
<1>3. ASSUME NEW w \in Workers, CreatePanics(w) PROVE Contact'
  BY <1>3 DEF Base, TypeOK, WorkerControl, ContactInv, Contact, CreatePanics, Answer
<1>4. ASSUME NEW w \in Workers, StoreRoom(w) PROVE Contact'
  BY <1>4 DEF Base, TypeOK, WorkerControl, ContactInv, Contact, StoreRoom
<1>5. ASSUME NEW w \in Workers, IsNewHost(w) PROVE Contact'
  BY <1>5 DEF Base, TypeOK, WorkerControl, ContactInv, Contact, IsNewHost
<1>6. ASSUME NEW w \in Workers, IsHost(w) PROVE Contact'
  BY <1>6 DEF Base, TypeOK, WorkerControl, ContactInv, Contact, IsHost
<1>7. ASSUME NEW w \in Workers, WriteRate(w) PROVE Contact'
  BY <1>7 DEF Base, TypeOK, WorkerControl, ContactInv, Contact, WriteRate
<1>8. ASSUME NEW w \in Workers, WritePosition(w) PROVE Contact'
  BY <1>8 DEF Base, TypeOK, WorkerControl, ContactInv, Contact, WritePosition
<1>9. ASSUME NEW w \in Workers, QueryUser(w) PROVE Contact'
  BY <1>9 DEF Base, TypeOK, WorkerControl, ContactInv, Contact, QueryUser
<1>10. ASSUME NEW w \in Workers, WrongPassword(w) PROVE Contact'
  BY <1>10, AnsweredIsRegistered DEF WrongPassword
<1>11. ASSUME NEW w \in Workers, OtherHost(w) PROVE Contact'
  BY <1>11, AnsweredIsRegistered DEF OtherHost
<1>12. ASSUME NEW w \in Workers, UpdatePanics(w) PROVE Contact'
  BY <1>12, AnsweredIsRegistered DEF UpdatePanics
<1>13. ASSUME NEW m \in Monitors, StatBegin(m) PROVE Contact'
  BY <1>13 DEF Base, TypeOK, MonitorControl, ContactInv, Contact, StatBegin
<1>14. ASSUME NEW m \in Monitors, StatVisit(m) PROVE Contact'
  BY <1>14 DEF Base, TypeOK, MonitorControl, ContactInv, Contact, StatVisit
<1>15. ASSUME NEW m \in Monitors, StatSkip(m) PROVE Contact'
  BY <1>15 DEF Base, TypeOK, MonitorControl, ContactInv, Contact, StatSkip
<1>16. ASSUME NEW m \in Monitors, StatKeep(m) PROVE Contact'
  BY <1>16 DEF Base, TypeOK, MonitorControl, ContactInv, Contact, StatKeep
<1>17. ASSUME NEW m \in Monitors, StatExpire(m) PROVE Contact'
  BY <1>17 DEF Base, TypeOK, MonitorControl, ContactInv, Contact, StatExpire
<1>18. ASSUME NEW m \in Monitors, StatPanics(m) PROVE Contact'
  BY <1>18 DEF Base, TypeOK, MonitorControl, ContactInv, Contact, StatPanics, Answer
<1>19. ASSUME NEW m \in Monitors, StatUnkraken(m) PROVE Contact'
  BY <1>19 DEF Base, TypeOK, MonitorControl, ContactInv, Contact, StatUnkraken
<1>20. ASSUME NEW m \in Monitors, StatDelete(m) PROVE Contact'
  BY <1>20 DEF Base, TypeOK, MonitorControl, ContactInv, Contact, StatDelete
<1>21. ASSUME NEW m \in Monitors, StatEnd(m) PROVE Contact'
  BY <1>21 DEF Base, TypeOK, MonitorControl, ContactInv, Contact, StatEnd, Answer
<1>22. ASSUME NEW w \in Workers, CreateRoom(w) PROVE Contact'
  <2>0. job[w] \in Update
    BY <1>22 DEF Base, WorkerControl, CreateRoom
  <2>1. PICK o \in unused :
          /\ heap' = [heap EXCEPT ![o] = NewRoom(job[w])]
          /\ obj' = [obj EXCEPT ![w] = o]
    BY <1>22 DEF CreateRoom
  <2>2. /\ o \in Objects /\ heap[o] = None
        /\ NewRoom(job[w]) \in Room
    BY <2>0, <2>1 DEF Base, TypeOK, Registry, NewRoom, Room, Update
  <2>3. /\ heap'[o] # None
        /\ \A q \in Objects \ {o} : heap'[q] = heap[q]
    BY <2>1, <2>2 DEF Base, TypeOK
  <2>4. /\ \A v \in Workers \ {w} : pc'[v] = pc[v] /\ obj'[v] = obj[v]
        /\ pc'[w] = "store"
        /\ UNCHANGED <<job, isNewUser, answered>>
    BY <1>22, <2>1 DEF Base, TypeOK, CreateRoom
  <2>5. ASSUME NEW v \in Workers, pc'[v] \in {"register", "check", "takeover"} \cup Writing
        PROVE  v # w /\ obj[v] # o /\ obj[v] \in Objects
    BY <2>2, <2>4, <2>5 DEF Base, WorkerControl
  <2> QED BY <2>2, <2>3, <2>4, <2>5 DEF ContactInv, Contact
<1>23. ASSUME NEW w \in Workers, NewUser(w) PROVE Contact'
  <2>0. obj[w] \in Objects /\ heap[obj[w]] # None
    BY <1>23 DEF Base, WorkerControl, NewUser
  <2>1. /\ Touches(obj[w])
        /\ heap'[obj[w]].userIds = heap[obj[w]].userIds \cup {job[w].user}
    BY <1>23, NewUserTouches
  <2> QED BY <1>23, <2>0, <2>1 DEF Base, TypeOK, WorkerControl, Touches, ContactInv, Contact, NewUser
<1>24. ASSUME NEW w \in Workers, SetHost(w) PROVE Contact'
  <2>0. obj[w] \in Objects /\ heap[obj[w]] # None
    BY <1>24 DEF Base, WorkerControl, SetHost
  <2>1. /\ Touches(obj[w])
        /\ heap'[obj[w]].userIds = heap[obj[w]].userIds
    BY <1>24, SetHostTouches
  <2> QED BY <1>24, <2>0, <2>1 DEF Base, TypeOK, WorkerControl, Touches, ContactInv, Contact, SetHost
<1>25. ASSUME NEW w \in Workers, WriteTail(w) PROVE Contact'
  <2>0. obj[w] \in Objects /\ heap[obj[w]] # None
    BY <1>25 DEF Base, WorkerControl, WriteTail
  <2>1. /\ Touches(obj[w])
        /\ heap'[obj[w]].userIds = heap[obj[w]].userIds
    BY <1>25, WriteTailTouches
  <2> QED BY <1>25, <2>0, <2>1, AnsweredIsRegistered DEF Touches, WriteTail
<1>26. ASSUME NEW o \in Objects, Age(o) PROVE Contact'
  <2>1. Touches(o) /\ heap'[o].userIds = heap[o].userIds
    BY <1>26, AgeTouches
  <2>2. heap[o] # None
    BY <1>26 DEF Age
  <2> QED BY <1>26, <2>1, <2>2 DEF Base, WorkerControl, Touches, ContactInv, Contact, Age
<1> QED
  BY <1>1, <1>2, <1>3, <1>4, <1>5, <1>6, <1>7, <1>8, <1>9,
     <1>10, <1>11, <1>12, <1>13, <1>14, <1>15, <1>16, <1>17, <1>18,
     <1>19, <1>20, <1>21, <1>22, <1>23, <1>24, <1>25, <1>26
     DEF Next, WorkerStep, MonitorStep, StatProgress

(* A takeover is the only step that gives an existing room a host. *)
LEMMA HostChangesByTakeover ==
  ASSUME Base, [Next]_vars, NEW o \in Objects, heap[o] # None,
         heap'[o].hostId # heap[o].hostId
  PROVE  \E w \in Workers : /\ pc[w] = "takeover" /\ obj[w] = o
                            /\ heap'[o].hostId = job[w].user
<1> USE DEF stores
<1>1. CASE heap' = heap
  BY <1>1
<1>2. ASSUME NEW w \in Workers, CreateRoom(w) PROVE FALSE
  BY <1>2 DEF Base, TypeOK, Registry, CreateRoom
<1>3. ASSUME NEW w \in Workers, NewUser(w) PROVE FALSE
  BY <1>3, NewUserTouches DEF Touches
<1>4. ASSUME NEW w \in Workers, WriteTail(w) PROVE FALSE
  BY <1>4, WriteTailTouches DEF Touches
<1>5. ASSUME NEW p \in Objects, Age(p) PROVE FALSE
  BY <1>5, AgeTouches DEF Touches
<1>6. ASSUME NEW w \in Workers, SetHost(w)
      PROVE  pc[w] = "takeover" /\ obj[w] = o /\ heap'[o].hostId = job[w].user
  BY <1>6, SetHostTouches DEF Touches, SetHost
<1>7. \/ heap' = heap
      \/ \E w \in Workers : CreateRoom(w) \/ NewUser(w) \/ WriteTail(w) \/ SetHost(w)
      \/ \E p \in Objects : Age(p)
  BY DEF Next, WorkerStep, MonitorStep, StatProgress, vars, Receive, QueryRoom,
         CreatePanics, StoreRoom, QueryUser, WrongPassword, OtherHost, IsNewHost, IsHost,
         WriteRate, WritePosition, UpdatePanics, StatBegin, StatVisit, StatSkip, StatKeep,
         StatExpire, StatPanics, StatUnkraken, StatDelete, StatEnd
<1> QED BY <1>1, <1>2, <1>3, <1>4, <1>5, <1>6, <1>7

(* A user whose requests come one at a time becomes the host of a room on   *)
(* his first contact with it or never, however the requests of the others   *)
(* interleave with his.                                                     *)
THEOREM FirstContactOnly == Spec => TakeoverOnFirstContact
<1>1. Init => Base /\ ContactInv
  BY BaseInit, ContactInit
<1>2. Base /\ ContactInv /\ [Next]_vars => Base' /\ ContactInv'
  BY BaseStep, SerialStep, ContactStep DEF ContactInv
<1>3. Base /\ ContactInv /\ [Next]_vars =>
        [\A o \in Objects : \A u \in SerialUsers :
           (heap[o] # None /\ u \in answered[o] /\ heap[o].hostId # u)
             => heap'[o].hostId # u]_vars
  <2> SUFFICES ASSUME Base, ContactInv, [Next]_vars,
                      NEW o \in Objects, NEW u \in SerialUsers, heap[o] # None,
                      u \in answered[o], heap[o].hostId # u, heap'[o].hostId = u
               PROVE  FALSE
    OBVIOUS
  <2>1. PICK w \in Workers : pc[w] = "takeover" /\ obj[w] = o /\ job[w].user = u
    BY HostChangesByTakeover
  <2> QED BY <2>1 DEF ContactInv, Contact
<1> QED BY <1>1, <1>2, <1>3, PTL DEF Spec, TakeoverOnFirstContact
-----------------------------------------------------------------------------
(* The token.  A step of one worker changes at most its own claim; who has  *)
(* one request at a time has no other claim.                                *)
Pair(w) == <<job[w].user, job[w].password>>
ClaimsOf(o) == {Pair(w) : w \in {v \in Workers : Claims(v, o)}}
AllClaims == [o \in Objects |-> ClaimsOf(o)]
OthersStay(w) == \A v \in Workers \ {w} : /\ pc'[v] = pc[v] /\ job'[v] = job[v]
                                          /\ obj'[v] = obj[v] /\ isNewUser'[v] = isNewUser[v]
KeepsClaims(w) == \A o \in Objects : /\ Claims(w, o)' <=> Claims(w, o)
                                     /\ Claims(w, o) => Pair(w)' = Pair(w)

LEMMA ClaimsSame ==
  ASSUME \A v \in Workers : KeepsClaims(v)
  PROVE  AllClaims' = AllClaims
<1>1. ASSUME NEW o \in Objects PROVE ClaimsOf(o)' = ClaimsOf(o)
  BY DEF KeepsClaims, ClaimsOf
<1> QED BY <1>1 DEF AllClaims

LEMMA ClaimsStay ==
  ASSUME NEW w \in Workers, OthersStay(w), KeepsClaims(w)
  PROVE  AllClaims' = AllClaims
<1>1. \A v \in Workers \ {w} : KeepsClaims(v)
  BY DEF OthersStay, KeepsClaims, Claims, Pair
<1> QED BY <1>1, ClaimsSame

LEMMA ClaimsOfStep ==
  ASSUME NEW w \in Workers, OthersStay(w), NEW o \in Objects
  PROVE  /\ Claims(w, o) => Pair(w) \in ClaimsOf(o)
         /\ ~Claims(w, o) /\ ~Claims(w, o)' => ClaimsOf(o)' = ClaimsOf(o)
         /\ ~Claims(w, o) /\ Claims(w, o)' => ClaimsOf(o)' = ClaimsOf(o) \cup {Pair(w)'}
         /\ Claims(w, o) /\ Claims(w, o)' /\ Pair(w)' = Pair(w) => ClaimsOf(o)' = ClaimsOf(o)
         /\ Claims(w, o) /\ ~Claims(w, o)' =>
              ClaimsOf(o)' = ClaimsOf(o) \/ ClaimsOf(o)' = ClaimsOf(o) \ {Pair(w)}
<1> DEFINE Others == {Pair(v) : v \in {x \in Workers \ {w} : Claims(x, o)}}
<1>1. ClaimsOf(o) = IF Claims(w, o) THEN Others \cup {Pair(w)} ELSE Others
  BY DEF ClaimsOf
<1>2. ClaimsOf(o)' = IF Claims(w, o)' THEN Others \cup {Pair(w)'} ELSE Others
  <2>1. \A v \in Workers \ {w} : /\ Claims(v, o)' <=> Claims(v, o)
                                 /\ Claims(v, o) => Pair(v)' = Pair(v)
    BY DEF OthersStay, Claims, Pair
  <2> QED BY <2>1 DEF ClaimsOf
<1> HIDE DEF Others
<1> QED BY <1>1, <1>2

(* A worker's user has no claim but this worker's, if he is serial. *)
LEMMA SerialClaim ==
  ASSUME Base, Serial, NEW w \in Workers, pc[w] # "idle", job[w].user \in SerialUsers,
         NEW o \in Objects, NEW q
  PROVE  <<job[w].user, q>> \in ClaimsOf(o) => Claims(w, o) /\ <<job[w].user, q>> = Pair(w)
<1> SUFFICES ASSUME NEW v \in Workers, Claims(v, o), <<job[w].user, q>> = Pair(v), v # w
             PROVE  FALSE
  BY DEF ClaimsOf
<1>1. pc[v] # "idle" /\ job[v].user = job[w].user
  BY DEF Claims, Pair
<1> QED BY <1>1 DEF Serial

(* What the token's specification sees of a Room. *)
Secret == [o \in Objects |-> IF heap[o] = None THEN None ELSE heap[o].password]
Host == [o \in Objects |-> IF heap[o] = None THEN None ELSE heap[o].hostId]
Met == [o \in Objects |-> IF heap[o] = None THEN {} ELSE heap[o].userIds]

LEMMA TokenStutters ==
  ASSUME UNCHANGED <<heap, everHost, author, AllClaims>>
  PROVE  UNCHANGED Token!vars
<1>1. UNCHANGED <<Secret, Host, Met>>
  BY DEF Secret, Host, Met
<1> QED BY <1>1 DEF Token!vars, Secret, Host, Met, AllClaims, ClaimsOf, Pair

(* A step touches a room: only its host and its users may have changed. *)
LEMMA FacesTouched ==
  ASSUME Base, NEW o \in Objects, heap[o] # None, Touches(o)
  PROVE  /\ Secret' = Secret /\ Secret[o] = heap[o].password
         /\ Host' = [Host EXCEPT ![o] = heap'[o].hostId]
         /\ Met' = [Met EXCEPT ![o] = heap'[o].userIds]
         /\ Host[o] = heap[o].hostId /\ Met[o] = heap[o].userIds
<1>1. \A p \in Objects \ {o} : heap'[p] = heap[p]
  BY DEF Touches
<1>2. heap'[o] # None /\ heap'[o].password = heap[o].password
  BY DEF Touches
<1> QED BY <1>1, <1>2 DEF Secret, Host, Met

LEMMA WorkersMoveAlone ==
  ASSUME Base, NEW w \in Workers, WorkerStep(w)
  PROVE  OthersStay(w)
  BY DEF Base, TypeOK, OthersStay, Threads, Goto, locals, WorkerStep, Receive, QueryRoom,
         CreateRoom, CreatePanics, StoreRoom, QueryUser, NewUser, WrongPassword, OtherHost,
         IsNewHost, IsHost, SetHost, WriteRate, WritePosition, WriteTail, UpdatePanics,
         AnswerUpdate, Answer

(* No claim begins or ends but where isNewUser is read and used. *)
LEMMA QuietSteps ==
  ASSUME Base, NEW w \in Workers,
         \/ Receive(w) \/ QueryRoom(w) \/ CreatePanics(w) \/ StoreRoom(w)
         \/ IsNewHost(w) \/ UpdatePanics(w)
  PROVE  UNCHANGED Token!vars
<1>1. OthersStay(w)
  BY WorkersMoveAlone DEF WorkerStep
<1>2. UNCHANGED <<heap, everHost, author>>
  BY DEF Receive, QueryRoom, CreatePanics, StoreRoom, IsNewHost, UpdatePanics,
         AnswerUpdate, history
<1>3. CASE IsNewHost(w)
  <2>1. KeepsClaims(w)
    BY <1>3 DEF KeepsClaims, IsNewHost, Claims, Pair, Base, TypeOK, Threads, Goto, locals
  <2> QED BY <1>1, <1>2, <2>1, ClaimsStay, TokenStutters
<1>4. CASE ~IsNewHost(w)
  <2>1. /\ pc[w] \notin {"register", "check", "takeover"}
        /\ pc'[w] \notin {"register", "check", "takeover"}
    BY <1>4 DEF Receive, QueryRoom, CreatePanics, StoreRoom, UpdatePanics, AnswerUpdate,
                Answer, Base, TypeOK, Threads, Goto
  <2>2. KeepsClaims(w)
    BY <2>1 DEF KeepsClaims, Claims
  <2> QED BY <1>1, <1>2, <2>2, ClaimsStay, TokenStutters
<1> QED BY <1>3, <1>4

LEMMA OpenSteps ==
  ASSUME Base, NEW w \in Workers, CreateRoom(w)
  PROVE  Token!Next
<1>1. job[w] \in Update /\ pc[w] = "create"
  BY DEF CreateRoom, Base, WorkerControl
<1>0. PICK u \in Users, p \in Passwords : u = job[w].user /\ p = job[w].password
  BY <1>1 DEF Update
<1>2. PICK o \in unused : /\ heap' = [heap EXCEPT ![o] = NewRoom(job[w])]
                          /\ everHost' = [everHost EXCEPT ![o] = {job[w].user}]
  BY DEF CreateRoom
<1>3. o \in Objects /\ heap[o] = None
  BY <1>2 DEF Base, TypeOK, Registry
<1>4. /\ heap'[o] = NewRoom(job[w]) /\ NewRoom(job[w]) \in Room
      /\ \A q \in Objects \ {o} : heap'[q] = heap[q]
  BY <1>1, <1>2, <1>3 DEF Base, TypeOK, NewRoom, Room, Update
<1>5. /\ Secret' = [Secret EXCEPT ![o] = job[w].password] /\ Secret[o] = None
      /\ Host' = [Host EXCEPT ![o] = job[w].user]
      /\ Met' = Met
  <2>1. heap'[o] # None
    BY <1>4
  <2>2. /\ heap'[o].password = job[w].password /\ heap'[o].hostId = job[w].user
        /\ heap'[o].userIds = {}
    BY <1>4 DEF NewRoom
  <2> QED BY <1>3, <1>4, <2>1, <2>2 DEF Secret, Host, Met
<1>6. AllClaims' = AllClaims
  <2>1. pc'[w] = "store"
    BY DEF CreateRoom, Base, TypeOK, Threads, Goto
  <2>2. KeepsClaims(w)
    BY <1>1, <2>1 DEF KeepsClaims, Claims
  <2> QED BY <2>2, WorkersMoveAlone, ClaimsStay DEF WorkerStep
<1>7. AllClaims[o] = {}
  <2>1. \A v \in Workers : ~Claims(v, o)
    BY <1>3 DEF Claims, Base, WorkerControl, HoldsRoom
  <2> QED BY <1>3, <2>1 DEF AllClaims, ClaimsOf
<1>8. author' = author
  BY DEF CreateRoom
<1>9. Token!Open(o, u, p)
  BY <1>0, <1>2, <1>5, <1>6, <1>7, <1>8
  DEF Token!Open, Secret, Host, Met, AllClaims, ClaimsOf, Pair
<1> QED BY <1>3, <1>9 DEF Token!Next

(* isNewUser is read: a first contact is claimed. *)
LEMMA ClaimSteps ==
  ASSUME Base, Serial, NEW w \in Workers, QueryUser(w)
  PROVE  [Token!Next]_(Token!vars)
<1>0. PICK o \in Objects, u \in Users, p \in Passwords :
        o = obj[w] /\ u = job[w].user /\ p = job[w].password
  BY DEF QueryUser, Base, WorkerControl, HoldsRoom, Update
<1>1. job[w] \in Update /\ pc[w] = "lookup" /\ heap[o] # None
  BY <1>0 DEF QueryUser, Base, WorkerControl, HoldsRoom
<1>3. UNCHANGED <<heap, everHost, author, job, obj>> /\ OthersStay(w)
  BY WorkersMoveAlone DEF QueryUser, history, WorkerStep
<1>4. UNCHANGED <<Secret, Host, Met>> /\ Met[o] = heap[o].userIds
  BY <1>0, <1>1, <1>3 DEF Secret, Host, Met
<1>5. \A q \in Objects : ~Claims(w, q)
  BY <1>0, <1>1 DEF Claims
<1>6. CASE u \in heap[o].userIds
  <2>1. pc'[w] = "check" /\ isNewUser'[w] = FALSE
    BY <1>0, <1>6 DEF QueryUser, Base, TypeOK, Threads, Goto
  <2>2. KeepsClaims(w)
    BY <1>5, <2>1 DEF KeepsClaims, Claims
  <2> QED BY <1>3, <2>2, ClaimsStay, TokenStutters
<1>7. CASE u \notin heap[o].userIds
  <2>1. pc'[w] = "register" /\ isNewUser'[w] = TRUE
    BY <1>0, <1>7 DEF QueryUser, Base, TypeOK, Threads, Goto
  <2>2. Claims(w, o)' /\ \A q \in Objects \ {o} : ~Claims(w, q)'
    BY <1>0, <1>3, <2>1 DEF Claims
  <2>3. Pair(w)' = <<u, p>>
    BY <1>0, <1>3 DEF Pair
  <2>4. AllClaims' = [AllClaims EXCEPT ![o] = @ \cup {<<u, p>>}]
    BY <1>0, <1>1, <1>3, <1>5, <2>2, <2>3, ClaimsOfStep DEF AllClaims
  <2>5. u \in SerialUsers => \A q \in Passwords : <<u, q>> \notin AllClaims[o]
    BY <1>0, <1>1, <1>5, SerialClaim DEF AllClaims
  <2>6. Token!Claim(o, u, p)
    BY <1>3, <1>4, <1>7, <2>4, <2>5
    DEF Token!Claim, Secret, Host, Met, AllClaims, ClaimsOf, Pair
  <2> QED BY <1>0, <1>1, <2>6 DEF Token!Next
<1> QED BY <1>6, <1>7

(* The user is registered: he is new no more, whatever comes of his claim. *)
LEMMA MeetSteps ==
  ASSUME Base, Contact, NEW w \in Workers, NewUser(w)
  PROVE  [Token!Next]_(Token!vars)
<1>0. PICK o \in Objects, u \in Users, p \in Passwords :
        o = obj[w] /\ u = job[w].user /\ p = job[w].password
  BY DEF NewUser, Base, WorkerControl, HoldsRoom, Update
<1>1. job[w] \in Update /\ pc[w] = "register" /\ heap[o] # None
  BY <1>0 DEF NewUser, Base, WorkerControl, HoldsRoom
<1>3. UNCHANGED <<everHost, author, job, obj, isNewUser>> /\ OthersStay(w)
  BY WorkersMoveAlone DEF NewUser, history, locals, WorkerStep
<1>4. /\ Secret' = Secret /\ Host' = [Host EXCEPT ![o] = Host[o]]
      /\ Met' = [Met EXCEPT ![o] = Met[o] \cup {u}]
  <2>1. Touches(o) /\ heap'[o].hostId = heap[o].hostId
                   /\ heap'[o].userIds = heap[o].userIds \cup {u}
    BY <1>0, NewUserTouches DEF Touches
  <2> QED BY <1>1, <2>1, FacesTouched
<1>5. Host' = Host
  BY <1>4 DEF Host
<1>6. isNewUser[w] /\ Claims(w, o)
  BY <1>0, <1>1 DEF Contact, Claims
<1>7. AllClaims' = AllClaims
  <2>1. pc'[w] = "check"
    BY DEF NewUser, Base, TypeOK, Threads, Goto
  <2>2. KeepsClaims(w)
    BY <1>0, <1>1, <1>3, <2>1 DEF KeepsClaims, Claims, Pair
  <2> QED BY <1>3, <2>2, ClaimsStay
<1>8. <<u, p>> \in AllClaims[o]
  BY <1>0, <1>1, <1>3, <1>6, ClaimsOfStep DEF AllClaims, Pair
<1>9. Token!Meet(o, u)
  BY <1>3, <1>4, <1>5, <1>7, <1>8
  DEF Token!Meet, Secret, Host, Met, AllClaims, ClaimsOf, Pair
<1> QED BY <1>0, <1>1, <1>9 DEF Token!Next

(* A claim ends: another worker may hold the same one.  *)
LEMMA ClaimEnds ==
  ASSUME NEW w \in Workers, OthersStay(w), NEW o \in Objects, Claims(w, o),
         pc'[w] \notin {"register", "check", "takeover"}
  PROVE  \/ AllClaims' = AllClaims
         \/ AllClaims' = [AllClaims EXCEPT ![o] = @ \ {Pair(w)}]
<1>1. \A q \in Objects \ {o} : ClaimsOf(q)' = ClaimsOf(q)
  <2>1. \A q \in Objects \ {o} : ~Claims(w, q) /\ ~Claims(w, q)'
    BY DEF Claims
  <2> QED BY <2>1, ClaimsOfStep
<1>2. ClaimsOf(o)' = ClaimsOf(o) \/ ClaimsOf(o)' = ClaimsOf(o) \ {Pair(w)}
  <2>1. ~Claims(w, o)'
    BY DEF Claims
  <2> QED BY <2>1, ClaimsOfStep
<1> QED BY <1>1, <1>2 DEF AllClaims

(* A request is refused, or let in because its user is the host already. *)
LEMMA ForgoSteps ==
  ASSUME Base, Contact, NEW w \in Workers, WrongPassword(w) \/ OtherHost(w) \/ IsHost(w)
  PROVE  [Token!Next]_(Token!vars)
<1>0. PICK o \in Objects, u \in Users, p \in Passwords :
        o = obj[w] /\ u = job[w].user /\ p = job[w].password
  BY DEF WrongPassword, OtherHost, IsHost, Base, WorkerControl, HoldsRoom, Update
<1>1. pc[w] = "check" /\ heap[o] # None
  BY <1>0 DEF WrongPassword, OtherHost, IsHost, Base, WorkerControl, HoldsRoom
<1>2. UNCHANGED <<heap, everHost, author>> /\ OthersStay(w)
  BY WorkersMoveAlone DEF WrongPassword, OtherHost, IsHost, AnswerUpdate, history, WorkerStep
<1>3. pc'[w] \notin {"register", "check", "takeover"}
  BY DEF WrongPassword, OtherHost, IsHost, AnswerUpdate, Answer, Base, TypeOK, Threads, Goto
<1>4. CASE AllClaims' = AllClaims
  BY <1>2, <1>4, TokenStutters
<1>5. CASE AllClaims' # AllClaims
  <2>1. Claims(w, o)
    <3> SUFFICES ASSUME ~Claims(w, o) PROVE KeepsClaims(w)
      BY <1>2, <1>5, ClaimsStay
    <3> QED BY <1>0, <1>3 DEF KeepsClaims, Claims
  <2>2. AllClaims' = [AllClaims EXCEPT ![o] = @ \ {<<u, p>>}]
    BY <1>0, <1>2, <1>3, <1>5, <2>1, ClaimEnds DEF Pair
  <2>3. u \in Met[o]
    BY <1>0, <1>1 DEF Contact, Met
  <2>4. UNCHANGED <<Secret, Host, Met>>
    BY <1>2 DEF Secret, Host, Met
  <2>5. Token!Forgo(o, u, p)
    BY <1>2, <2>2, <2>3, <2>4
    DEF Token!Forgo, Token!Drop, Secret, Host, Met, AllClaims, ClaimsOf, Pair
  <2> QED BY <2>5 DEF Token!Next
<1> QED BY <1>4, <1>5

(* The takeover: it uses the claim of a first contact. *)
LEMMA TakeOverSteps ==
  ASSUME Base, Admission, ContactInv, NEW w \in Workers, SetHost(w)
  PROVE  [Token!Next]_(Token!vars)
<1>0. PICK o \in Objects, u \in Users, p \in Passwords :
        o = obj[w] /\ u = job[w].user /\ p = job[w].password
  BY DEF SetHost, Base, WorkerControl, HoldsRoom, Update
<1>1. /\ pc[w] = "takeover" /\ heap[o] # None /\ isNewUser[w]
      /\ heap[o].password = p /\ u \in heap[o].userIds
  BY <1>0 DEF SetHost, Base, WorkerControl, HoldsRoom, Admission, ContactInv, Contact
<1>2. UNCHANGED <<author, job, obj, isNewUser>> /\ OthersStay(w)
  BY WorkersMoveAlone DEF SetHost, locals, WorkerStep
<1>3. Touches(o) /\ heap'[o].hostId = u /\ heap'[o].userIds = heap[o].userIds
  BY <1>0, SetHostTouches DEF Touches
<1>4. /\ Secret' = Secret /\ Secret[o] = p
      /\ Host' = [Host EXCEPT ![o] = u]
      /\ Met' = Met /\ u \in Met[o]
  <2>1. /\ Secret' = Secret /\ Secret[o] = p /\ Host' = [Host EXCEPT ![o] = u]
        /\ Met' = [Met EXCEPT ![o] = Met[o]] /\ u \in Met[o]
    BY <1>1, <1>3, FacesTouched
  <2> QED BY <2>1 DEF Met
<1>5. everHost' = [everHost EXCEPT ![o] = @ \cup {u}]
  BY <1>0 DEF SetHost
<1>6. Claims(w, o) /\ Pair(w) = <<u, p>> /\ <<u, p>> \in AllClaims[o]
  <2>1. Claims(w, o) /\ Pair(w) = <<u, p>>
    BY <1>0, <1>1 DEF Claims, Pair
  <2> QED BY <1>2, <2>1, ClaimsOfStep DEF AllClaims
<1>7. pc'[w] = "rate"
  BY DEF SetHost, Base, TypeOK, Threads, Goto
<1>8. \/ AllClaims' = [AllClaims EXCEPT ![o] = @ \ {<<u, p>>}]
      \/ u \notin SerialUsers /\ AllClaims' = AllClaims
  <2>1. ASSUME u \in SerialUsers, AllClaims' = AllClaims PROVE FALSE
    <3>1. PICK v \in Workers : Claims(v, o)' /\ Pair(v)' = <<u, p>>
      <4>1. <<u, p>> \in ClaimsOf(o)'
        BY <1>6, <2>1 DEF AllClaims
      <4> QED BY <4>1 DEF ClaimsOf
    <3>2. v # w
      BY <1>7, <3>1 DEF Claims
    <3>3. Claims(v, o) /\ Pair(v) = <<u, p>>
      BY <1>2, <3>1, <3>2 DEF OthersStay, Claims, Pair
    <3>4. pc[v] # "idle" /\ job[v].user = u
      BY <3>3 DEF Claims, Pair
    <3> QED BY <1>0, <1>1, <2>1, <3>2, <3>4 DEF ContactInv, Serial
  <2> QED BY <1>2, <1>6, <1>7, <2>1, ClaimEnds
<1>9. Token!TakeOver(o, u)
  BY <1>2, <1>4, <1>5, <1>6, <1>8
  DEF Token!TakeOver, Token!Drop, Secret, Host, Met, AllClaims, ClaimsOf, Pair
<1> QED BY <1>9 DEF Token!Next

(* Fields are assigned: by somebody who has been host, with the password. *)
LEMMA WriteSteps ==
  ASSUME Base, Admission, NEW w \in Workers, WriteRate(w) \/ WritePosition(w) \/ WriteTail(w)
  PROVE  [Token!Next]_(Token!vars)
<1>0. PICK o \in Objects, u \in Users, p \in Passwords :
        o = obj[w] /\ u = job[w].user /\ p = job[w].password
  BY DEF WriteRate, WritePosition, WriteTail, Base, WorkerControl, HoldsRoom, Writing, Update
<1>1. /\ pc[w] \in Writing /\ heap[o] # None
      /\ heap[o].password = p /\ u \in everHost[o]
  BY <1>0 DEF WriteRate, WritePosition, WriteTail, Writing, Base, WorkerControl, HoldsRoom, Admission
<1>2. PICK f \in Groups : author' = [author EXCEPT ![o][f] = [user |-> u, password |-> p]]
  BY <1>0 DEF WriteRate, WritePosition, WriteTail, Signature, Groups
<1>3. everHost' = everHost /\ OthersStay(w)
  BY WorkersMoveAlone DEF WriteRate, WritePosition, WriteTail, AnswerUpdate, history, WorkerStep
<1>4. AllClaims' = AllClaims
  <2>1. pc'[w] \notin {"register", "check", "takeover"}
    BY DEF WriteRate, WritePosition, WriteTail, AnswerUpdate, Answer, Base, TypeOK, Threads, Goto
  <2>2. KeepsClaims(w)
    BY <1>1, <2>1 DEF KeepsClaims, Claims, Writing
  <2> QED BY <1>3, <2>2, ClaimsStay
<1>5. UNCHANGED <<Secret, Host, Met>> /\ Secret[o] = p
  <2>1. CASE WriteTail(w)
    <3>1. /\ Touches(o) /\ heap'[o].hostId = heap[o].hostId
          /\ heap'[o].userIds = heap[o].userIds
      BY <1>0, <2>1, WriteTailTouches DEF Touches
    <3>2. /\ Secret' = Secret /\ Secret[o] = p
          /\ Host' = [Host EXCEPT ![o] = Host[o]] /\ Met' = [Met EXCEPT ![o] = Met[o]]
      BY <1>1, <3>1, FacesTouched
    <3> QED BY <3>2 DEF Host, Met
  <2>2. CASE ~WriteTail(w)
    <3>1. heap' = heap
      BY <2>2 DEF WriteRate, WritePosition
    <3> QED BY <1>1, <3>1 DEF Secret, Host, Met
  <2> QED BY <2>1, <2>2
<1>6. Token!Write(o, u, f)
  BY <1>1, <1>2, <1>3, <1>4, <1>5
  DEF Token!Write, Secret, Host, Met, AllClaims, ClaimsOf, Pair
<1> QED BY <1>6 DEF Token!Next

(* Statistics and time do not see the token. *)
LEMMA OtherSteps ==
  ASSUME Base, \/ \E m \in Monitors : MonitorStep(m)
               \/ \E o \in Objects : Age(o)
               \/ UNCHANGED vars
  PROVE  UNCHANGED Token!vars
<1>1. UNCHANGED <<everHost, author>>
  BY DEF MonitorStep, StatProgress, StatBegin, StatVisit, StatSkip, StatKeep, StatExpire,
         StatPanics, StatUnkraken, StatDelete, StatEnd, Age, vars, history
<1>2. AllClaims' = AllClaims
  <2>1. \A v \in Workers : /\ pc'[v] = pc[v] /\ job'[v] = job[v]
                           /\ obj'[v] = obj[v] /\ isNewUser'[v] = isNewUser[v]
    BY DEF Base, TypeOK, Threads, Goto, locals, MonitorStep, StatProgress, StatBegin, StatVisit,
           StatSkip, StatKeep, StatExpire, StatPanics, StatUnkraken, StatDelete, StatEnd, Answer,
           Age, vars
  <2> QED BY <2>1, ClaimsSame DEF KeepsClaims, Claims, Pair
<1>3. CASE heap' = heap
  BY <1>1, <1>2, <1>3, TokenStutters
<1>4. ASSUME NEW o \in Objects, Age(o) PROVE UNCHANGED Token!vars
  <2>1. Touches(o) /\ heap'[o].hostId = heap[o].hostId /\ heap'[o].userIds = heap[o].userIds
    BY <1>4, AgeTouches
  <2>2. /\ Secret' = Secret
        /\ Host' = [Host EXCEPT ![o] = Host[o]] /\ Met' = [Met EXCEPT ![o] = Met[o]]
    BY <1>4, <2>1, FacesTouched DEF Age
  <2>3. UNCHANGED <<Secret, Host, Met>>
    BY <2>2 DEF Host, Met
  <2> QED BY <1>1, <1>2, <2>3 DEF Token!vars, Secret, Host, Met, AllClaims, ClaimsOf, Pair
<1>5. heap' = heap \/ \E o \in Objects : Age(o)
  BY DEF MonitorStep, StatProgress, StatBegin, StatVisit, StatSkip, StatKeep, StatExpire,
         StatPanics, StatUnkraken, StatDelete, StatEnd, vars
<1> QED BY <1>3, <1>4, <1>5

(* For any number of workers, users, passwords and rooms: the host of a     *)
(* room is a token that passes on a first contact with the right password   *)
(* and in no other way, and whoever writes the room has held it.            *)
THEOREM HostIsToken == Spec => ImplementsToken
<1>1. Init => Base /\ AdmissionInv /\ ContactInv
  BY BaseInit, AdmissionInit, ContactInit
<1>2. Base /\ AdmissionInv /\ ContactInv /\ [Next]_vars =>
        Base' /\ AdmissionInv' /\ ContactInv'
  BY BaseStep, AdmissionStep, SerialStep, ContactStep DEF ContactInv
<1>3. Init => Token!Init
  BY DEF Init, Token!Init, Claims, Threads
<1>4. Base /\ AdmissionInv /\ ContactInv /\ [Next]_vars => [Token!Next]_(Token!vars)
  BY QuietSteps, OpenSteps, ClaimSteps, MeetSteps, ForgoSteps, TakeOverSteps, WriteSteps,
     OtherSteps DEF AdmissionInv, ContactInv, Next, WorkerStep
<1> QED BY <1>1, <1>2, <1>3, <1>4, PTL DEF Spec, ImplementsToken, Token!Spec
-----------------------------------------------------------------------------
(* Voice endpoints.  A room that is being created is private to its worker  *)
(* and has its endpoint; a monitor about to delete a room has removed the   *)
(* endpoint of the one it found stale.                                      *)
Endpoints ==
  /\ \A w \in Workers : pc[w] = "store" =>
       /\ obj[w] \in kraken
       /\ \A n \in Names : rooms[n] # obj[w]
       /\ \A m \in Monitors : pc[m] \in {"unkraken", "delete"} => obj[m] # obj[w]
       /\ \A v \in Workers : pc[v] = "store" /\ obj[v] = obj[w] => v = w
  /\ \A m \in Monitors : pc[m] = "delete" => obj[m] \notin kraken

KrakenInv == Endpoints /\ StoredRoomHasKraken /\ LeaksOnlyByRace

LEMMA KrakenInit == Init => KrakenInv
  BY DEF Init, KrakenInv, Endpoints, StoredRoomHasKraken, LeaksOnlyByRace, Threads

(* No object is freed or renamed. *)
NamesStay ==
  \A o \in Objects : heap[o] # None => heap'[o] # None /\ heap'[o].name = heap[o].name

(* All but four operations leave both registries alone and neither begin   *)
(* nor end what the invariant speaks of, except that a monitor may find a   *)
(* stored room stale.                                                       *)
Elsewhere ==
  /\ UNCHANGED <<rooms, kraken, raced>>
  /\ \A w \in Workers : /\ pc'[w] = "store" <=> pc[w] = "store"
                        /\ pc[w] = "store" => obj'[w] = obj[w]
  /\ \A m \in Monitors :
       /\ pc[m] = "delete" <=> pc'[m] = "delete"
       /\ pc[m] = "delete" => obj'[m] = obj[m] /\ job'[m] = job[m]
       /\ pc'[m] = "unkraken" => \/ pc[m] = "unkraken" /\ obj'[m] = obj[m]
                                 \/ \E n \in Names : rooms[n] = obj'[m]

LEMMA NamesStayStep == ASSUME Base, [Next]_vars PROVE NamesStay
<1> USE DEF NamesStay, stores
<1>1. CASE heap' = heap
  BY <1>1
<1>2. ASSUME NEW w \in Workers, CreateRoom(w) PROVE NamesStay
  BY <1>2 DEF Base, TypeOK, Registry, CreateRoom
<1>3. ASSUME NEW w \in Workers, NewUser(w) PROVE NamesStay
  BY <1>3, NewUserTouches DEF Touches
<1>4. ASSUME NEW w \in Workers, WriteTail(w) PROVE NamesStay
  BY <1>4, WriteTailTouches DEF Touches
<1>5. ASSUME NEW p \in Objects, Age(p) PROVE NamesStay
  BY <1>5, AgeTouches DEF Touches
<1>6. ASSUME NEW w \in Workers, SetHost(w) PROVE NamesStay
  BY <1>6, SetHostTouches DEF Touches
<1>7. \/ heap' = heap
      \/ \E w \in Workers : CreateRoom(w) \/ NewUser(w) \/ WriteTail(w) \/ SetHost(w)
      \/ \E p \in Objects : Age(p)
  BY DEF Next, WorkerStep, MonitorStep, StatProgress, vars, Receive, QueryRoom,
         CreatePanics, StoreRoom, QueryUser, WrongPassword, OtherHost, IsNewHost, IsHost,
         WriteRate, WritePosition, UpdatePanics, StatBegin, StatVisit, StatSkip, StatKeep,
         StatExpire, StatPanics, StatUnkraken, StatDelete, StatEnd
<1> QED BY <1>1, <1>2, <1>3, <1>4, <1>5, <1>6, <1>7

LEMMA RegistrySteps ==
  ASSUME Base, [Next]_vars
  PROVE  \/ Elsewhere
         \/ \E w \in Workers : CreateRoom(w) \/ StoreRoom(w)
         \/ \E m \in Monitors : StatUnkraken(m) \/ StatDelete(m)
<1> USE DEF Elsewhere, Threads, Base, TypeOK, stores, locals, history, Goto
<1>1. ASSUME NEW w \in Workers, WorkerStep(w), ~CreateRoom(w), ~StoreRoom(w) PROVE Elsewhere
  <2>1. CASE Receive(w) \/ QueryRoom(w) \/ CreatePanics(w) \/ QueryUser(w) \/ NewUser(w)
    BY <2>1 DEF Receive, QueryRoom, CreatePanics, QueryUser, NewUser, Answer
  <2>2. CASE WrongPassword(w) \/ OtherHost(w) \/ IsNewHost(w) \/ IsHost(w) \/ SetHost(w)
    BY <2>2 DEF WrongPassword, OtherHost, IsNewHost, IsHost, SetHost, AnswerUpdate, Answer
  <2>3. CASE WriteRate(w) \/ WritePosition(w)
    BY <2>3 DEF WriteRate, WritePosition
  <2>4. CASE WriteTail(w) \/ UpdatePanics(w)
    BY <2>4 DEF WriteTail, UpdatePanics, AnswerUpdate, Answer
  <2> QED BY <1>1, <2>1, <2>2, <2>3, <2>4 DEF WorkerStep
<1>2. ASSUME NEW m \in Monitors, MonitorStep(m), ~StatUnkraken(m), ~StatDelete(m) PROVE Elsewhere
  <2>1. CASE StatBegin(m) \/ StatVisit(m) \/ StatSkip(m) \/ StatKeep(m)
    BY <2>1 DEF StatBegin, StatVisit, StatSkip, StatKeep
  <2>2. CASE StatExpire(m)
    BY <2>2 DEF StatExpire, MonitorControl
  <2>3. CASE StatPanics(m) \/ StatEnd(m)
    BY <2>3 DEF StatPanics, StatEnd, Answer
  <2> QED BY <1>2, <2>1, <2>2, <2>3 DEF MonitorStep, StatProgress
<1>3. ASSUME NEW o \in Objects, Age(o) PROVE Elsewhere
  BY <1>3 DEF Age
<1>4. CASE UNCHANGED vars
  BY <1>4 DEF vars
<1> QED BY <1>1, <1>2, <1>3, <1>4 DEF Next

LEMMA KrakenStep == ASSUME Base, KrakenInv, [Next]_vars PROVE KrakenInv'
<1> USE DEF Threads, Goto, KrakenInv
<1>0. /\ NamesStay /\ Base'
      /\ \A o \in kraken : heap[o] # None
      /\ \A n \in Names : rooms[n] # None => rooms[n] \in Objects /\ heap[rooms[n]].name = n
  BY NamesStayStep, BaseStep DEF Base, TypeOK, Registry
<1>1. CASE Elsewhere
  <2>1. Endpoints'
    BY <1>1 DEF Elsewhere, Endpoints
  <2>2. StoredRoomHasKraken'
    BY <1>1 DEF Elsewhere, StoredRoomHasKraken
  <2>3. LeaksOnlyByRace'
    <3> SUFFICES ASSUME NEW p \in kraken
                 PROVE  \/ rooms[heap'[p].name] = p
                        \/ \E v \in Workers : pc'[v] = "store" /\ obj'[v] = p
                        \/ heap'[p].name \in raced
      BY <1>1 DEF Elsewhere, LeaksOnlyByRace
    <3>1. heap'[p].name = heap[p].name
      BY <1>0 DEF NamesStay, Base, TypeOK
    <3>2. ASSUME NEW v \in Workers, pc[v] = "store", obj[v] = p
          PROVE  pc'[v] = "store" /\ obj'[v] = p
      BY <1>1, <3>2 DEF Elsewhere
    <3> QED BY <3>1, <3>2 DEF LeaksOnlyByRace
  <2> QED BY <2>1, <2>2, <2>3
<1>2. ASSUME NEW w \in Workers, CreateRoom(w) PROVE KrakenInv'
  <2>1. PICK o \in unused : kraken' = kraken \cup {o} /\ obj' = [obj EXCEPT ![w] = o]
    BY <1>2 DEF CreateRoom, NewKrakenRoom
  <2>2. /\ pc[w] = "create" /\ pc' = [pc EXCEPT ![w] = "store"]
        /\ UNCHANGED <<rooms, raced, job>>
    BY <1>2 DEF CreateRoom
  <2>3. o \in Objects /\ heap[o] = None
    BY <2>1 DEF Base, TypeOK, Registry
  <2>4. /\ obj'[w] = o /\ pc'[w] = "store"
        /\ \A t \in Threads \ {w} : obj'[t] = obj[t] /\ pc'[t] = pc[t]
    BY <2>1, <2>2 DEF Base, TypeOK
  <2>5. /\ \A n \in Names : rooms[n] # o
        /\ \A v \in Workers : pc[v] = "store" => obj[v] # o
        /\ \A m \in Monitors : pc[m] \in {"unkraken", "delete"} => obj[m] # o
    BY <1>0, <2>3 DEF Base, Registry, WorkerControl, MonitorControl, HoldsRoom
  <2>6. Endpoints'
    BY <2>1, <2>2, <2>4, <2>5 DEF Endpoints
  <2>7. StoredRoomHasKraken'
    BY <2>1, <2>2, <2>4 DEF StoredRoomHasKraken
  <2>8. LeaksOnlyByRace'
    <3> SUFFICES ASSUME NEW p \in kraken \cup {o}
                 PROVE  \/ rooms[heap'[p].name] = p
                        \/ \E v \in Workers : pc'[v] = "store" /\ obj'[v] = p
                        \/ heap'[p].name \in raced
      BY <2>1, <2>2 DEF LeaksOnlyByRace
    <3>1. CASE p = o
      BY <2>4, <3>1
    <3>2. CASE p \in kraken
      <4>1. heap'[p].name = heap[p].name
        BY <1>0, <3>2 DEF NamesStay, Base, TypeOK
      <4>2. ASSUME NEW v \in Workers, pc[v] = "store", obj[v] = p
            PROVE  pc'[v] = "store" /\ obj'[v] = p
        BY <2>2, <2>4, <4>2
      <4> QED BY <3>2, <4>1, <4>2 DEF LeaksOnlyByRace
    <3> QED BY <3>1, <3>2
  <2> QED BY <2>6, <2>7, <2>8
<1>3. ASSUME NEW w \in Workers, StoreRoom(w) PROVE KrakenInv'
  <2>1. /\ pc[w] = "store" /\ pc' = [pc EXCEPT ![w] = "lookup"]
        /\ rooms' = [rooms EXCEPT ![job[w].name] = obj[w]]
        /\ raced' = IF rooms[job[w].name] = None THEN raced ELSE raced \cup {job[w].name}
        /\ UNCHANGED <<heap, kraken, job, obj>>
    BY <1>3 DEF StoreRoom, stores, locals
  <2>2. /\ obj[w] \in Objects /\ job[w].name \in Names /\ heap[obj[w]].name = job[w].name
    BY <2>1 DEF Base, WorkerControl, HoldsRoom, Update
  <2>3. /\ rooms'[job[w].name] = obj[w]
        /\ \A n \in Names \ {job[w].name} : rooms'[n] = rooms[n]
        /\ pc'[w] = "lookup" /\ \A t \in Threads \ {w} : pc'[t] = pc[t]
    BY <2>1, <2>2 DEF Base, TypeOK
  <2>4. Endpoints'
    BY <2>1, <2>2, <2>3, ThreadAssumption DEF Endpoints
  <2>5. StoredRoomHasKraken'
    BY <2>1, <2>2, <2>3, ThreadAssumption DEF StoredRoomHasKraken, Endpoints
  <2>6. LeaksOnlyByRace'
    <3> SUFFICES ASSUME NEW p \in kraken
                 PROVE  \/ rooms'[heap[p].name] = p
                        \/ \E v \in Workers : pc'[v] = "store" /\ obj[v] = p
                        \/ heap[p].name \in raced'
      BY <2>1 DEF LeaksOnlyByRace
    <3>0. p # None /\ heap[p].name \in Names
      BY <1>0 DEF Base, TypeOK, Room
    <3>1. CASE p = obj[w]
      BY <2>2, <2>3, <3>1
    <3>2. CASE p # obj[w] /\ rooms[heap[p].name] = p /\ heap[p].name = job[w].name
      BY <2>1, <3>0, <3>2
    <3>3. CASE p # obj[w] /\ rooms[heap[p].name] = p /\ heap[p].name # job[w].name
      BY <2>3, <3>0, <3>3
    <3>4. CASE p # obj[w] /\ rooms[heap[p].name] # p
      BY <2>1, <2>3, <3>4 DEF LeaksOnlyByRace
    <3> QED BY <3>1, <3>2, <3>3, <3>4
  <2> QED BY <2>4, <2>5, <2>6
<1>4. ASSUME NEW m \in Monitors, StatUnkraken(m) PROVE KrakenInv'
  <2>1. /\ pc[m] = "unkraken" /\ pc' = [pc EXCEPT ![m] = "delete"]
        /\ kraken' = kraken \ {obj[m]}
        /\ UNCHANGED <<rooms, heap, raced, job, obj>>
    BY <1>4 DEF StatUnkraken, DeleteKrakenRoom, locals, history
  <2>2. /\ obj[m] \in Objects /\ job[m] \in Names /\ heap[obj[m]].name = job[m]
    BY <2>1 DEF Base, MonitorControl
  <2>3. pc'[m] = "delete" /\ \A t \in Threads \ {m} : pc'[t] = pc[t]
    BY <2>1 DEF Base, TypeOK
  <2>4. Endpoints'
    BY <2>1, <2>3 DEF Endpoints
  <2>5. StoredRoomHasKraken'
    <3> SUFFICES ASSUME NEW n \in Names, rooms[n] # None, rooms[n] \notin kraken'
                 PROVE  \E d \in Monitors : pc'[d] = "delete" /\ job[d] = n
      BY <2>1 DEF StoredRoomHasKraken
    <3>1. CASE rooms[n] = obj[m]
      BY <1>0, <2>2, <2>3, <3>1
    <3>2. CASE rooms[n] # obj[m]
      BY <2>1, <2>3, <3>2 DEF StoredRoomHasKraken
    <3> QED BY <3>1, <3>2
  <2>6. LeaksOnlyByRace'
    BY <2>1, <2>3 DEF LeaksOnlyByRace
  <2> QED BY <2>4, <2>5, <2>6
<1>5. ASSUME NEW m \in Monitors, StatDelete(m) PROVE KrakenInv'
  <2>1. /\ pc[m] = "delete" /\ pc' = [pc EXCEPT ![m] = "scan"]
        /\ rooms' = [rooms EXCEPT ![job[m]] = None]
        /\ raced' = IF rooms[job[m]] \in {None, obj[m]} THEN raced ELSE raced \cup {job[m]}
        /\ UNCHANGED <<heap, kraken, job, obj>>
    BY <1>5 DEF StatDelete, locals
  <2>2. /\ obj[m] \in Objects /\ job[m] \in Names
        /\ obj[m] \notin kraken
    BY <2>1 DEF Base, MonitorControl, Endpoints
  <2>3. /\ rooms'[job[m]] = None
        /\ \A n \in Names \ {job[m]} : rooms'[n] = rooms[n]
        /\ pc'[m] = "scan" /\ \A t \in Threads \ {m} : pc'[t] = pc[t]
    BY <2>1, <2>2 DEF Base, TypeOK
  <2>4. Endpoints'
    <3>1. \A w \in Workers : pc[w] = "store" => obj[w] # None
      BY NoneAssumption DEF Base, WorkerControl, HoldsRoom
    <3> QED BY <2>1, <2>2, <2>3, <3>1 DEF Endpoints
  <2>5. StoredRoomHasKraken'
    BY <2>1, <2>2, <2>3 DEF StoredRoomHasKraken
  <2>6. LeaksOnlyByRace'
    <3> SUFFICES ASSUME NEW p \in kraken
                 PROVE  \/ rooms'[heap[p].name] = p
                        \/ \E v \in Workers : pc'[v] = "store" /\ obj[v] = p
                        \/ heap[p].name \in raced'
      BY <2>1 DEF LeaksOnlyByRace
    <3>1. p # None /\ p # obj[m] /\ heap[p].name \in Names
      BY <1>0, <2>2 DEF Base, TypeOK, Room
    <3>2. CASE heap[p].name = job[m] /\ rooms[heap[p].name] = p
      BY <2>1, <3>1, <3>2
    <3>3. CASE heap[p].name # job[m] /\ rooms[heap[p].name] = p
      BY <2>3, <3>1, <3>3
    <3>4. CASE rooms[heap[p].name] # p
      BY <2>1, <2>3, <3>4, ThreadAssumption DEF LeaksOnlyByRace
    <3> QED BY <3>2, <3>3, <3>4
  <2> QED BY <2>4, <2>5, <2>6
<1> QED BY <1>1, <1>2, <1>3, <1>4, <1>5, RegistrySteps

LEMMA KrakenHolds == Spec => []KrakenInv
  BY BaseInit, BaseStep, KrakenInit, KrakenStep, PTL DEF Spec

(* However creation, statistics and recreation interleave, the voice        *)
(* endpoint of a room clients can find is missing only while a monitor is   *)
(* between DeleteKrakenRoom and rooms.Delete.                               *)
THEOREM StoredHaveEndpoints == Spec => []StoredRoomHasKraken
  BY KrakenHolds, PTL DEF KrakenInv

(* An endpoint outlives its room only at a name where two creators raced or *)
(* a walk deleted another room than the stale one.                          *)
THEOREM LeaksNeedRace == Spec => []LeaksOnlyByRace
  BY KrakenHolds, PTL DEF KrakenInv

-----------------------------------------------------------------------------
(* What a lone walk has seen stored is still stored at its second load.     *)
Alone == \A m1, m2 \in Monitors : m1 = m2

Walking == Alone => \A m \in Monitors : /\ pc[m] = "visit" => rooms[job[m]] # None
                                        /\ reply[m] # "panic"

LEMMA WalkingStep == ASSUME Base, Walking, [Next]_vars PROVE Walking'
<1> USE DEF Walking, Threads, Base, TypeOK, stores, locals, history, Goto
<1> SUFFICES ASSUME Alone, NEW m \in Monitors
             PROVE  /\ pc'[m] = "visit" => rooms'[job'[m]] # None
                    /\ reply'[m] # "panic"
  OBVIOUS
<1>0. pc[m] = "visit" => job[m] \in Names
  BY DEF MonitorControl
<1>1. ASSUME NEW w \in Workers, StoreRoom(w)
      PROVE  /\ pc'[m] = "visit" => rooms'[job'[m]] # None
             /\ reply'[m] # "panic"
  <2>1. obj[w] # None /\ job[w].name \in Names /\ m # w
    BY <1>1, NoneAssumption, ThreadAssumption DEF StoreRoom, WorkerControl, HoldsRoom, Update
  <2> QED BY <1>0, <1>1, <2>1 DEF StoreRoom
<1>2. ASSUME NEW w \in Workers, WorkerStep(w), ~StoreRoom(w)
      PROVE  /\ pc'[m] = "visit" => rooms'[job'[m]] # None
             /\ reply'[m] # "panic"
  <2>0. m # w
    BY ThreadAssumption
  <2>1. rooms' = rooms /\ pc'[m] = pc[m] /\ job'[m] = job[m] /\ reply'[m] = reply[m]
    <3>1. CASE Receive(w) \/ QueryRoom(w) \/ CreateRoom(w) \/ CreatePanics(w)
      BY <2>0, <3>1 DEF Receive, QueryRoom, CreateRoom, CreatePanics, Answer
    <3>2. CASE QueryUser(w) \/ NewUser(w) \/ IsNewHost(w) \/ IsHost(w) \/ SetHost(w)
      BY <2>0, <3>2 DEF QueryUser, NewUser, IsNewHost, IsHost, SetHost
    <3>3. CASE WrongPassword(w) \/ OtherHost(w) \/ UpdatePanics(w) \/ WriteTail(w)
      BY <2>0, <3>3 DEF WrongPassword, OtherHost, UpdatePanics, WriteTail, AnswerUpdate, Answer
    <3>4. CASE WriteRate(w) \/ WritePosition(w)
      BY <2>0, <3>4 DEF WriteRate, WritePosition
    <3> QED BY <1>2, <3>1, <3>2, <3>3, <3>4 DEF WorkerStep
  <2> QED BY <2>1
<1>3. ASSUME NEW k \in Monitors, MonitorStep(k)
      PROVE  /\ pc'[m] = "visit" => rooms'[job'[m]] # None
             /\ reply'[m] # "panic"
  <2>0. k = m
    BY DEF Alone
  <2>1. CASE StatBegin(m) \/ StatSkip(m) \/ StatKeep(m)
    BY <2>1 DEF StatBegin, StatSkip, StatKeep
  <2>2. CASE StatVisit(m)
    BY <2>2 DEF StatVisit, RangeSees
  <2>3. CASE StatExpire(m) \/ StatUnkraken(m) \/ StatDelete(m)
    BY <2>3 DEF StatExpire, StatUnkraken, StatDelete
  <2>4. CASE StatPanics(m)
    BY <2>4 DEF StatPanics
  <2>5. CASE StatEnd(m)
    BY <2>5 DEF StatEnd, Answer
  <2> QED BY <1>3, <2>0, <2>1, <2>2, <2>3, <2>4, <2>5 DEF MonitorStep, StatProgress
<1>4. ASSUME NEW o \in Objects, Age(o)
      PROVE  /\ pc'[m] = "visit" => rooms'[job'[m]] # None
             /\ reply'[m] # "panic"
  BY <1>4 DEF Age
<1>5. CASE UNCHANGED vars
  BY <1>5 DEF vars
<1> QED BY <1>1, <1>2, <1>3, <1>4, <1>5 DEF Next

(* Only another statistics request can take away the room a walk is about   *)
(* to load for the second time: one at a time, they do not panic, whatever  *)
(* the updates do meanwhile.                                                *)
THEOREM LoneWalkNeverPanics == Spec => []OneMonitorNeverPanics
<1>1. Init => Walking
  BY DEF Init, Walking, Threads
<1>2. Walking => OneMonitorNeverPanics
  BY DEF Walking, Alone, OneMonitorNeverPanics
<1> QED BY <1>1, <1>2, BaseInit, BaseStep, WalkingStep, PTL DEF Spec
=============================================================================
