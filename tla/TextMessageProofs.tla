------------------------- MODULE TextMessageProofs -------------------------
(***************************************************************************)
(* What holds of TextMessage for any texts, keys, quotas and lengths.      *)
(***************************************************************************)
EXTENDS TextMessage, TLAPS

Who == {"worker", "timer"}

(* The steps that only a text's goroutine takes, and only for itself. *)
Alone(t) ==
  \/ LoadCache(t) \/ CheckQuota(t) \/ UseQuota(t) \/ StoreQuota(t)
  \/ Answered(t) \/ NotAnswered(t) \/ AssignBegins(t) \/ AssignEnds(t)

LEMMA TypeStep == TypeOK /\ Next => TypeOK'
<1> SUFFICES ASSUME TypeOK, NEW t \in Texts,
                    \/ sendTextMessage(t) \/ TimerFires(t) \/ Alone(t)
                    \/ \E who \in Who :
                         \/ EnterOnce(t, who) \/ SendBroadcast(t, who)
                         \/ DropBroadcast(t, who) \/ PassOnce(t, who)
             PROVE  TypeOK'
  BY DEF Next, Alone, Who
<1> USE DEF TypeOK, local, shared, Goto, Workers
<1>k. Key[t] \in Keys
  BY DEF Keys
<1>1. CASE sendTextMessage(t)
  BY <1>1 DEF sendTextMessage
<1>2. CASE TimerFires(t)
  BY <1>2 DEF TimerFires
<1>3. CASE LoadCache(t)
  BY <1>3, <1>k DEF LoadCache
<1>4. CASE CheckQuota(t)
  BY <1>4, QuotaAssumption DEF CheckQuota
<1>5. CASE UseQuota(t)
  <2>1. used[Account[t]] \in Nat
    BY QuotaAssumption
  <2> QED
    BY <1>5, <2>1 DEF UseQuota
<1>6. CASE StoreQuota(t)
  <2>1. read[t] + Credit[t] \in Nat /\ spent[Account[t]] + Credit[t] \in Nat
    BY QuotaAssumption
  <2> QED
    BY <1>6, <2>1 DEF StoreQuota
<1>7. CASE Answered(t)
  BY <1>7, <1>k DEF Answered
<1>8. CASE NotAnswered(t)
  BY <1>8 DEF NotAnswered
<1>9. CASE AssignBegins(t)
  BY <1>9 DEF AssignBegins, Audio
<1>10. CASE AssignEnds(t)
  BY <1>10 DEF AssignEnds, Audio
<1>11. ASSUME NEW who \in Who, EnterOnce(t, who)
       PROVE  TypeOK'
  BY <1>11 DEF EnterOnce, GotoAs, At, Who, Audio
<1>12. ASSUME NEW who \in Who, NEW r \in Audio \cup {Dropped}, Send(t, who, r)
       PROVE  TypeOK'
  <2>1. results' \in [Texts -> Seq(Audio \cup {Dropped})]
    <3>1. Append(results[t], r) \in Seq(Audio \cup {Dropped})
      OBVIOUS
    <3> QED
      BY <1>12, <3>1 DEF Send
  <2> QED
    BY <1>12, <2>1 DEF Send, GotoAs, At, Who, Audio
<1>13. ASSUME NEW who \in Who, PassOnce(t, who)
       PROVE  TypeOK'
  BY <1>13 DEF PassOnce, GotoAs, At, Who
<1> QED
  BY <1>1, <1>2, <1>3, <1>4, <1>5, <1>6, <1>7, <1>8, <1>9, <1>10, <1>11, <1>12, <1>13
     DEF SendBroadcast, DropBroadcast, Alone

(* Every variable keeps its type. *)
THEOREM TypeCorrect == Spec => []TypeOK
<1>1. Init => TypeOK
  BY QuotaAssumption DEF Init, TypeOK, Workers, Audio, Keys
<1>2. TypeOK /\ [Next]_vars => TypeOK'
  <2>1. TypeOK /\ UNCHANGED vars => TypeOK'
    BY DEF TypeOK, vars, local, shared
  <2> QED
    BY TypeStep, <2>1
<1> QED
  BY <1>1, <1>2, PTL DEF Spec

-----------------------------------------------------------------------------
(* Who runs the function of the Once, and what has come of it. *)
Control ==
  \A t \in Texts :
    /\ worker[t] = "idle" <=> timer[t] = "none"
    /\ worker[t] = "idle" => once[t] = "free"
    /\ once[t] = "worker" <=> worker[t] = "send"
    /\ once[t] = "timer" <=> timer[t] = "send"
    /\ "done" \in {worker[t], timer[t]} => once[t] = "done"
    /\ once[t] # "done" => results[t] = <<>>
    /\ once[t] = "done" => \E r \in Audio \cup {Dropped} : results[t] = <<r>>

LEMMA ControlStep == TypeOK /\ Control /\ Next => Control'
<1> SUFFICES ASSUME TypeOK, Control, NEW t \in Texts,
                    \/ sendTextMessage(t) \/ TimerFires(t) \/ Alone(t)
                    \/ \E who \in Who :
                         \/ EnterOnce(t, who) \/ SendBroadcast(t, who)
                         \/ DropBroadcast(t, who) \/ PassOnce(t, who)
             PROVE  Control'
  BY DEF Next, Alone, Who
<1> USE DEF TypeOK, Control, Goto
<1>1. CASE sendTextMessage(t)
  BY <1>1 DEF sendTextMessage
<1>2. CASE TimerFires(t)
  BY <1>2 DEF TimerFires
<1>3. CASE Alone(t)
  <2>1. /\ worker[t] \notin {"idle", "send", "done"}
        /\ \E w \in Workers \ {"idle", "send", "done"} : worker' = [worker EXCEPT ![t] = w]
        /\ UNCHANGED <<timer, once, results>>
    BY <1>3 DEF Alone, LoadCache, CheckQuota, UseQuota, StoreQuota, Answered, NotAnswered,
                AssignBegins, AssignEnds, Workers
  <2> QED
    BY <2>1
<1>4. ASSUME NEW who \in Who, EnterOnce(t, who)
      PROVE  Control'
  BY <1>4 DEF EnterOnce, GotoAs, At, Who
<1>5. ASSUME NEW who \in Who, NEW r \in Audio \cup {Dropped}, Send(t, who, r)
      PROVE  Control'
  <2>1. once[t] # "done" /\ results[t] = <<>>
    BY <1>5 DEF Send, At, Who
  <2>2. results' = [results EXCEPT ![t] = <<r>>]
    BY <1>5, <2>1 DEF Send
  <2> QED
    BY <1>5, <2>1, <2>2 DEF Send, GotoAs, At, Who
<1>6. ASSUME NEW who \in Who, PassOnce(t, who)
      PROVE  Control'
  BY <1>6 DEF PassOnce, GotoAs, At, Who
<1>7. message[t] \in Audio
  OBVIOUS
<1> QED
  BY <1>1, <1>2, <1>3, <1>4, <1>5, <1>6, <1>7 DEF SendBroadcast, DropBroadcast

LEMMA Controlled == Spec => []Control
<1>1. Init => Control
  BY DEF Init, Control
<1>2. TypeOK /\ Control /\ [Next]_vars => Control'
  <2>1. Control /\ UNCHANGED vars => Control'
    BY DEF Control, vars
  <2> QED
    BY ControlStep, <2>1
<1> QED
  BY <1>1, <1>2, TypeCorrect, PTL DEF Spec

(* Whatever the voice service, the timer and the goroutine do, and in       *)
(* whatever order, a text has one result at most and never before it was    *)
(* asked for: TextMessage implements the safety part of OnceDelivery.       *)
THEOREM DeliversAtMostOnce == Spec => Delivery!Spec
<1> USE DEF Delivery!Init, Delivery!Next, Delivery!vars
<1>1. Init => Delivery!Init
  BY DEF Init
<1>2. TypeOK /\ Control /\ [Next]_vars => [Delivery!Next]_(Delivery!vars)
  <2> SUFFICES ASSUME TypeOK, Control, [Next]_vars
               PROVE  [Delivery!Next]_(Delivery!vars)
    OBVIOUS
  <2>1. CASE UNCHANGED vars
    BY <2>1 DEF vars
  <2>2. ASSUME NEW t \in Texts, sendTextMessage(t)
        PROVE  Delivery!Ask(t)
    BY <2>2 DEF sendTextMessage, Delivery!Ask, Goto, TypeOK
  <2>3. ASSUME NEW t \in Texts, TimerFires(t)
        PROVE  UNCHANGED Delivery!vars
    BY <2>3 DEF TimerFires
  <2>4. ASSUME NEW t \in Texts, Alone(t)
        PROVE  UNCHANGED Delivery!vars
    <3>1. /\ worker[t] # "idle"
          /\ \E w \in Workers \ {"idle"} : worker' = [worker EXCEPT ![t] = w]
          /\ UNCHANGED results
      BY <2>4 DEF Alone, LoadCache, CheckQuota, UseQuota, StoreQuota, Answered, NotAnswered,
                  AssignBegins, AssignEnds, Workers, Goto
    <3> QED
      BY <3>1 DEF TypeOK
  <2>5. ASSUME NEW t \in Texts, NEW who \in Who, EnterOnce(t, who) \/ PassOnce(t, who)
        PROVE  UNCHANGED Delivery!vars
    BY <2>5 DEF EnterOnce, PassOnce, GotoAs, Goto, At, Who, TypeOK, Control
  <2>6. ASSUME NEW t \in Texts, NEW who \in Who, NEW r \in Audio \cup {Dropped},
               Send(t, who, r)
        PROVE  Delivery!Resolve(t)
    <3>1. worker[t] # "idle" /\ results[t] = <<>>
      BY <2>6 DEF Send, At, Who, Control
    <3>2. results' = [results EXCEPT ![t] = <<r>>]
      BY <2>6, <3>1 DEF Send
    <3>3. {s \in Texts : worker'[s] # "idle"} = {s \in Texts : worker[s] # "idle"}
      BY <2>6, <3>1 DEF Send, GotoAs, Goto, TypeOK
    <3> QED
      BY <3>1, <3>2, <3>3 DEF Delivery!Resolve
  <2>7. \A t \in Texts : message[t] \in Audio
    BY DEF TypeOK
  <2> QED
    BY <2>1, <2>2, <2>3, <2>4, <2>5, <2>6, <2>7
       DEF Next, Alone, Who, SendBroadcast, DropBroadcast
<1> QED
  BY <1>1, <1>2, TypeCorrect, Controlled, PTL DEF Spec, Delivery!Spec

-----------------------------------------------------------------------------
Looking(t) == worker[t] \in {"use", "store"}

(* As long as nobody was looked over the shoulder: what the comparison      *)
(* allowed still fits, what was read still holds, and everything used up is *)
(* accounted for.                                                           *)
QuotaInv ==
  /\ \A t \in Texts : (Looking(t) /\ Account[t] \notin contended) =>
       /\ used[Account[t]] + Credit[t] <= Quota[Account[t]]
       /\ worker[t] = "store" => read[t] = used[Account[t]]
       /\ \A s \in Texts \ {t} : Account[s] = Account[t] => ~Looking(s)
  /\ \A a \in Accounts \ contended : spent[a] = used[a] /\ used[a] <= Quota[a]

LEMMA QuotaStep == TypeOK /\ QuotaInv /\ [Next]_vars => QuotaInv'
<1> SUFFICES ASSUME TypeOK, QuotaInv, [Next]_vars
             PROVE  QuotaInv'
  OBVIOUS
<1> USE DEF TypeOK, Looking, Goto
<1>q. /\ \A t \in Texts : Account[t] \in Accounts /\ Credit[t] \in Nat
      /\ \A a \in Accounts : Quota[a] \in Nat /\ used[a] \in Nat /\ spent[a] \in Nat
  BY QuotaAssumption
(* The steps that touch no quota and do not come near one. *)
<1>1. ASSUME NEW w \in [Texts -> Workers], worker' = w,
             \A s \in Texts : w[s] \in {"use", "store"} => w[s] = worker[s],
             UNCHANGED <<used, spent, contended, read>>
      PROVE  QuotaInv'
  BY <1>1, <1>q DEF QuotaInv
<1>2. ASSUME NEW t \in Texts, CheckQuota(t)
      PROVE  QuotaInv'
  <2>1. CASE Quota[Account[t]] - used[Account[t]] >= Credit[t]
    <3>1. /\ used[Account[t]] + Credit[t] <= Quota[Account[t]]
          /\ worker' = [worker EXCEPT ![t] = "use"]
          /\ UNCHANGED <<used, spent, read>>
          /\ contended \subseteq contended'
      BY <1>2, <1>q, <2>1 DEF CheckQuota, local
    <3>2. Contends(t) => Account[t] \in contended'
      BY <1>2 DEF CheckQuota
    <3>3. \A s \in Texts \ {t} :
            (Account[s] = Account[t] /\ Looking(s)) => Account[t] \in contended'
      BY <3>2 DEF Contends
    <3> QED
      BY <1>q, <3>1, <3>3 DEF QuotaInv
  <2>2. CASE ~(Quota[Account[t]] - used[Account[t]] >= Credit[t])
    <3>1. /\ worker' = [worker EXCEPT ![t] = "assign"]
          /\ UNCHANGED <<used, spent, read>>
          /\ contended \subseteq contended'
      BY <1>2, <2>2 DEF CheckQuota, local
    <3> QED
      BY <1>q, <3>1 DEF QuotaInv
  <2> QED
    BY <2>1, <2>2
<1>3. ASSUME NEW t \in Texts, UseQuota(t)
      PROVE  QuotaInv'
  BY <1>3, <1>q DEF UseQuota, QuotaInv, shared
<1>4. ASSUME NEW t \in Texts, StoreQuota(t)
      PROVE  QuotaInv'
  <2> DEFINE a == Account[t]
  <2>1. /\ worker' = [worker EXCEPT ![t] = "post"]
        /\ used' = [used EXCEPT ![a] = read[t] + Credit[t]]
        /\ spent' = [spent EXCEPT ![a] = spent[a] + Credit[t]]
        /\ UNCHANGED <<read, contended>>
    BY <1>4 DEF StoreQuota, local
  <2>2. a \notin contended =>
          used'[a] <= Quota[a] /\ used'[a] = used[a] + Credit[t] /\ spent'[a] = used'[a]
    BY <1>4, <1>q, <2>1 DEF StoreQuota, QuotaInv
  <2>3. a \notin contended => \A s \in Texts : Account[s] = a => ~Looking(s)'
    BY <1>4, <2>1 DEF StoreQuota, QuotaInv
  <2>4. \A b \in Accounts \ {a} : used'[b] = used[b] /\ spent'[b] = spent[b]
    BY <2>1
  <2>5. \A s \in Texts : Looking(s)' => Looking(s) /\ s # t /\ worker'[s] = worker[s]
    BY <2>1
  <2> QED
    BY <1>q, <2>1, <2>2, <2>3, <2>4, <2>5 DEF QuotaInv
<1>5. CASE UNCHANGED vars
  BY <1>5, <1>1 DEF vars, local, shared
<1>6. ASSUME NEW t \in Texts, NEW w \in Workers \ {"use", "store"},
             worker' = [worker EXCEPT ![t] = w] \/ worker' = worker,
             UNCHANGED <<used, spent, contended, read>>
      PROVE  QuotaInv'
  BY <1>6, <1>1
<1>7. ASSUME NEW t \in Texts,
             sendTextMessage(t) \/ TimerFires(t) \/ LoadCache(t) \/ Answered(t)
               \/ NotAnswered(t) \/ AssignBegins(t) \/ AssignEnds(t)
      PROVE  QuotaInv'
  BY <1>6, <1>7 DEF sendTextMessage, TimerFires, LoadCache, Answered, NotAnswered,
                    AssignBegins, AssignEnds, local, shared, Workers
<1>8. ASSUME NEW t \in Texts, NEW who \in Who,
             EnterOnce(t, who) \/ SendBroadcast(t, who) \/ DropBroadcast(t, who)
               \/ PassOnce(t, who)
      PROVE  QuotaInv'
  BY <1>6, <1>8 DEF EnterOnce, SendBroadcast, DropBroadcast, Send, PassOnce, GotoAs,
                    local, shared, Workers
<1> QED
  BY <1>2, <1>3, <1>4, <1>5, <1>7, <1>8 DEF Next, Who

(* Whatever the number of texts, their lengths and the quotas: an account   *)
(* overdraws only if two texts looked at it together.                       *)
THEOREM QuotaHeld == Spec => []QuotaHolds
<1>1. Init => QuotaInv
  BY QuotaAssumption DEF Init, QuotaInv, Looking
<1>2. TypeOK /\ QuotaInv => QuotaHolds
  BY QuotaAssumption DEF TypeOK, QuotaInv, QuotaHolds
<1> QED
  BY <1>1, <1>2, QuotaStep, TypeCorrect, PTL DEF Spec

-----------------------------------------------------------------------------
(* Who may see the address half-written. *)
AudioInv ==
  \A t \in Texts :
    /\ answer[t] \in {Key[t], None}
    /\ audioUrl[t] \in {Key[t], None, Torn}
    /\ message[t] \in {Key[t], None, Torn}
    /\ audioUrl[t] = Torn => worker[t] = "assigning"
    /\ worker[t] = "assigning" => answer[t] # None
    /\ message[t] = Torn => answer[t] # None /\ timer[t] \in {"send", "done"}

AudioIInv == AudioInv /\ AudioIsOwn

LEMMA KeysAreKeys ==
  \A t \in Texts : Key[t] # None /\ Key[t] # Torn /\ Key[t] # Dropped
<1> SUFFICES ASSUME NEW t \in Texts
             PROVE  Key[t] \notin {None, Torn, Dropped}
  OBVIOUS
<1>1. Key[t] \in Keys
  BY DEF Keys
<1> QED
  BY <1>1, DistinctAssumption

LEMMA AudioStep == TypeOK /\ Control /\ AudioIInv /\ [Next]_vars => AudioIInv'
<1> SUFFICES ASSUME TypeOK, Control, AudioIInv, [Next]_vars
             PROVE  AudioIInv'
  OBVIOUS
<1> USE DEF TypeOK, Goto, AudioIInv, AudioInv
<1>k. \A t \in Texts : Key[t] # None /\ Key[t] # Torn /\ Key[t] # Dropped
  BY KeysAreKeys
<1>d. None # Torn /\ None # Dropped /\ Torn # Dropped
  BY DistinctAssumption
(* Steps that send nothing. *)
<1>1. ASSUME AudioInv', UNCHANGED results,
             \A t \in Texts : (timer[t] = "done" => timer'[t] = "done")
                               /\ (answer[t] # None => answer'[t] # None)
      PROVE  AudioIInv'
  BY <1>1 DEF AudioIsOwn
<1>2. ASSUME NEW t \in Texts, sendTextMessage(t) \/ TimerFires(t)
      PROVE  AudioIInv'
  BY <1>1, <1>2, <1>k, <1>d DEF sendTextMessage, TimerFires, local, Control
<1>3. ASSUME NEW t \in Texts, LoadCache(t) \/ Answered(t)
      PROVE  AudioIInv'
  BY <1>1, <1>3, <1>k, <1>d DEF LoadCache, Answered, shared
<1>4. ASSUME NEW t \in Texts, CheckQuota(t) \/ UseQuota(t) \/ StoreQuota(t) \/ NotAnswered(t)
      PROVE  AudioIInv'
  BY <1>1, <1>4 DEF CheckQuota, UseQuota, StoreQuota, NotAnswered, local, shared
<1>5. ASSUME NEW t \in Texts, AssignBegins(t) \/ AssignEnds(t)
      PROVE  AudioIInv'
  BY <1>1, <1>5, <1>k, <1>d DEF AssignBegins, AssignEnds, shared
<1>6. ASSUME NEW t \in Texts, NEW who \in Who, EnterOnce(t, who)
      PROVE  AudioIInv'
  BY <1>1, <1>6, <1>k, <1>d DEF EnterOnce, GotoAs, At, Who, shared
<1>7. ASSUME NEW t \in Texts, NEW who \in Who, NEW r \in {message[t], Dropped},
             Send(t, who, r)
      PROVE  AudioIInv'
  <2>0. results[t] = <<>>
    BY <1>7 DEF Send, At, Who, Control
  <2>1. results' = [results EXCEPT ![t] = <<r>>]
    BY <1>7, <2>0 DEF Send
  <2>2. UNCHANGED <<answer, audioUrl, message>>
    BY <1>7 DEF Send, local
  <2>3. AudioInv'
    BY <1>7, <2>2, <1>d DEF Send, GotoAs, At, Who
  <2>4. \A s \in Texts : timer[s] = "done" => timer'[s] = "done"
    BY <1>7 DEF Send, GotoAs, At, Who
  <2>5. r = Torn => timer'[t] = "done" /\ answer'[t] # None
    <3>1. r = Torn => message[t] = Torn
      BY <1>d
    <3>2. message[t] = Torn /\ who = "worker" => FALSE
      BY <1>7 DEF Send, At, Control
    <3> QED
      BY <1>7, <2>2, <3>1, <3>2 DEF Send, GotoAs, Who
  <2> QED
    BY <2>1, <2>2, <2>3, <2>4, <2>5 DEF AudioIsOwn
<1>8. ASSUME NEW t \in Texts, NEW who \in Who, PassOnce(t, who)
      PROVE  AudioIInv'
  BY <1>1, <1>8 DEF PassOnce, GotoAs, At, Who, local
<1>9. CASE UNCHANGED vars
  BY <1>1, <1>9 DEF vars, local
<1> QED
  BY <1>2, <1>3, <1>4, <1>5, <1>6, <1>7, <1>8, <1>9
     DEF Next, Who, SendBroadcast, DropBroadcast

(* A room hears a text with its own audio, or none, or a torn address that  *)
(* the timer copied; for any texts and keys.                                *)
THEOREM AudioOwned == Spec => []AudioIsOwn
<1>1. Init => AudioIInv
  BY DistinctAssumption DEF Init, AudioIInv, AudioInv, AudioIsOwn
<1>2. AudioIInv => AudioIsOwn
  BY DEF AudioIInv
<1> QED
  BY <1>1, <1>2, AudioStep, TypeCorrect, Controlled, PTL DEF Spec
=============================================================================
