---------------------------- MODULE TextMessage ----------------------------
(***************************************************************************)
(* Text messages and their spoken audio (ws.go sendTextMessage, reecho.go).*)
(*                                                                         *)
(* For every text a goroutine asks the voice service for its audio, within *)
(* the quota of the voice, and a timer of ten seconds runs against it: who *)
(* comes first broadcasts the text, under a sync.Once, and cancels the     *)
(* request; the other waits in the Once until that broadcast is done.      *)
(*                                                                         *)
(* The texts' goroutines share the quota and the cache of audio without a  *)
(* lock over both; "AudioUrl = ..." in one goroutine is not synchronised   *)
(* with the timer's reading it, and a string takes two writes.             *)
(***************************************************************************)
EXTENDS Integers, Sequences

CONSTANTS
  Texts,     \* the texts sent
  Key,       \* text -> voiceId + text, the key of the cache
  Silent,    \* texts without a voice, or too long
  Accounts,  \* entries of the quota: voices of their own, and "*"
  Account,   \* text -> the entry its voice uses
  Quota,     \* entry -> its quota
  Credit,    \* text -> its length
  None, Torn, Dropped

Keys == {Key[t] : t \in Texts}

ASSUME DistinctAssumption ==
  /\ {None, Torn, Dropped} \cap Keys = {} /\ None # Torn
  /\ None # Dropped /\ Torn # Dropped
ASSUME QuotaAssumption ==
  /\ Account \in [Texts -> Accounts]
  /\ Quota \in [Accounts -> Nat] /\ Credit \in [Texts -> Nat]

VARIABLES
  worker,     \* text -> where its goroutine is
  timer,      \* text -> where the function of its timer is
  once,       \* text -> "free", who runs the function of the Once, or "done"
  cancelled,  \* texts whose context is cancelled
  audioUrl,   \* text -> data.AudioUrl: None, Torn, or the key it speaks
  answer,     \* text -> what GetTextAudioUrl will return
  message,    \* text -> the broadcast handed to the hub
  cache,      \* ReechoVoiceCache: the keys that have their audio
  used,       \* entry -> quotaItem.Used
  read,       \* text -> the value of Used its goroutine has read
  results,    \* history: text -> its broadcasts, in order
  spent,      \* history: entry -> credit of the requests let through
  contended   \* history: entries that two texts looked at together

local == <<audioUrl, answer, message, read>>
shared == <<cache, used, spent, contended>>
vars == <<worker, timer, once, cancelled, local, shared, results>>

Init ==
  /\ worker = [t \in Texts |-> "idle"] /\ timer = [t \in Texts |-> "none"]
  /\ once = [t \in Texts |-> "free"] /\ cancelled = {}
  /\ audioUrl = [t \in Texts |-> None] /\ answer = [t \in Texts |-> None]
  /\ message = [t \in Texts |-> None]
  /\ cache = {} /\ used = [a \in Accounts |-> 0] /\ read = [t \in Texts |-> 0]
  /\ results = [t \in Texts |-> <<>>]
  /\ spent = [a \in Accounts |-> 0] /\ contended = {}

Goto(t, label) == worker' = [worker EXCEPT ![t] = label]

-----------------------------------------------------------------------------
(* sendTextMessage and its goroutine *)

sendTextMessage(t) ==
  /\ worker[t] = "idle"
  /\ Goto(t, IF t \in Silent THEN "once" ELSE "load")
  /\ timer' = [timer EXCEPT ![t] = "armed"]
  /\ UNCHANGED <<once, cancelled, local, shared, results>>

(* GetTextAudioUrl: the cache *)
LoadCache(t) ==
  /\ worker[t] = "load"
  /\ \/ /\ Key[t] \in cache
        /\ answer' = [answer EXCEPT ![t] = Key[t]]
        /\ Goto(t, "assign")
     \/ /\ Key[t] \notin cache
        /\ Goto(t, "check")
        /\ UNCHANGED answer
  /\ UNCHANGED <<timer, once, cancelled, audioUrl, message, read, shared, results>>

(* Another text looks at the same entry. *)
Contends(t) ==
  \E s \in Texts \ {t} : Account[s] = Account[t] /\ worker[s] \in {"use", "store"}

(* Mutant: the credit is not compared. *)
CheckNothingLeft(t) ==
  /\ worker[t] = "check"
  /\ contended' = IF Contends(t) THEN contended \cup {Account[t]} ELSE contended
  /\ Goto(t, IF used[Account[t]] <= Quota[Account[t]] THEN "use" ELSE "assign")
  /\ UNCHANGED <<timer, once, cancelled, local, cache, used, spent, results>>
(* CheckAndUseQuota reads Used to compare, and once more to add; the sum is *)
(* a write of its own.                                                      *)
CheckQuota(t) ==
  /\ worker[t] = "check"
  /\ contended' = IF Contends(t) THEN contended \cup {Account[t]} ELSE contended
  /\ Goto(t, IF Quota[Account[t]] - used[Account[t]] >= Credit[t] THEN "use" ELSE "assign")
  /\ UNCHANGED <<timer, once, cancelled, local, cache, used, spent, results>>
UseQuota(t) ==
  /\ worker[t] = "use"
  /\ read' = [read EXCEPT ![t] = used[Account[t]]]
  /\ Goto(t, "store")
  /\ UNCHANGED <<timer, once, cancelled, audioUrl, answer, message, shared, results>>
(* Mutant: the credit is taken off what was used. *)
StoreLess(t) ==
  /\ worker[t] = "store"
  /\ used' = [used EXCEPT ![Account[t]] = read[t] - Credit[t]]
  /\ spent' = [spent EXCEPT ![Account[t]] = @ + Credit[t]]
  /\ Goto(t, "post")
  /\ UNCHANGED <<timer, once, cancelled, local, cache, contended, results>>
StoreQuota(t) ==
  /\ worker[t] = "store"
  /\ used' = [used EXCEPT ![Account[t]] = read[t] + Credit[t]]
  /\ spent' = [spent EXCEPT ![Account[t]] = @ + Credit[t]]
  /\ Goto(t, "post")
  /\ UNCHANGED <<timer, once, cancelled, local, cache, contended, results>>

(* post, and the cache again *)
Answered(t) ==
  /\ worker[t] = "post" /\ t \notin cancelled
  /\ answer' = [answer EXCEPT ![t] = Key[t]] /\ cache' = cache \cup {Key[t]}
  /\ Goto(t, "assign")
  /\ UNCHANGED <<timer, once, cancelled, audioUrl, message, read, used, spent,
                 contended, results>>
(* An error, an answer without audio (a panic, recovered), or the context.  *)
NotAnswered(t) ==
  /\ worker[t] = "post"
  /\ Goto(t, "assign")
  /\ UNCHANGED <<timer, once, cancelled, local, shared, results>>

(* Mutant: the goroutine goes on to send before the address is all there. *)
AssignLater(t) ==
  /\ worker[t] = "assign"
  /\ Goto(t, "once")
  /\ audioUrl' = [audioUrl EXCEPT ![t] = IF answer[t] = None THEN @ ELSE Torn]
  /\ UNCHANGED <<timer, once, cancelled, answer, message, read, shared, results>>
(* data.AudioUrl = ..., in two writes unless there is nothing to write *)
AssignBegins(t) ==
  /\ worker[t] = "assign"
  /\ \/ answer[t] = None /\ Goto(t, "once") /\ UNCHANGED audioUrl
     \/ /\ answer[t] # None /\ Goto(t, "assigning")
        /\ audioUrl' = [audioUrl EXCEPT ![t] = Torn]
  /\ UNCHANGED <<timer, once, cancelled, answer, message, read, shared, results>>
AssignEnds(t) ==
  /\ worker[t] = "assigning"
  /\ audioUrl' = [audioUrl EXCEPT ![t] = answer[t]]
  /\ Goto(t, "once")
  /\ UNCHANGED <<timer, once, cancelled, answer, message, read, shared, results>>

-----------------------------------------------------------------------------
(* sendBroadcast, called by the goroutine ("worker") and by the timer *)

At(t, who) == IF who = "worker" THEN worker[t] ELSE timer[t]
GotoAs(t, who, label) ==
  \/ who = "worker" /\ Goto(t, label) /\ UNCHANGED timer
  \/ who = "timer" /\ timer' = [timer EXCEPT ![t] = label] /\ UNCHANGED worker

TimerFires(t) ==
  /\ timer[t] = "armed"
  /\ timer' = [timer EXCEPT ![t] = "once"]
  /\ UNCHANGED <<worker, once, cancelled, local, shared, results>>

(* Mutant: the message is copied and nobody asks whether it was sent. *)
EnterAlways(t, who) ==
  /\ At(t, who) = "once"
  /\ once' = [once EXCEPT ![t] = who]
  /\ cancelled' = cancelled \cup {t}
  /\ message' = [message EXCEPT ![t] = audioUrl[t]]
  /\ GotoAs(t, who, "send")
  /\ UNCHANGED <<audioUrl, answer, read, shared, results>>
(* Mutant: the request is left alone. *)
EnterUncancelled(t, who) ==
  /\ At(t, who) = "once" /\ once[t] = "free"
  /\ once' = [once EXCEPT ![t] = who]
  /\ message' = [message EXCEPT ![t] = audioUrl[t]]
  /\ GotoAs(t, who, "send")
  /\ UNCHANGED <<cancelled, audioUrl, answer, read, shared, results>>
(* The Once is entered: cancel, and copy the message. *)
EnterOnce(t, who) ==
  /\ At(t, who) = "once" /\ once[t] = "free"
  /\ once' = [once EXCEPT ![t] = who]
  /\ cancelled' = cancelled \cup {t}
  /\ message' = [message EXCEPT ![t] = audioUrl[t]]
  /\ GotoAs(t, who, "send")
  /\ UNCHANGED <<audioUrl, answer, read, shared, results>>
(* c.sendBroadcast: the hub takes it, or the client is in no such room.     *)
Send(t, who, r) ==
  /\ At(t, who) = "send"
  /\ results' = [results EXCEPT ![t] = Append(@, r)]
  /\ once' = [once EXCEPT ![t] = "done"]
  /\ GotoAs(t, who, "done")
  /\ UNCHANGED <<cancelled, local, shared>>
SendBroadcast(t, who) == Send(t, who, message[t])
DropBroadcast(t, who) == Send(t, who, Dropped)
(* Who comes second waits until the function has returned; a goroutine that *)
(* ends cancels.                                                            *)
PassOnce(t, who) ==
  /\ At(t, who) = "once" /\ once[t] = "done"
  /\ cancelled' = cancelled \cup {t}
  /\ GotoAs(t, who, "done")
  /\ UNCHANGED <<once, local, shared, results>>

-----------------------------------------------------------------------------
Asks(t) ==
  \/ LoadCache(t) \/ CheckQuota(t) \/ UseQuota(t) \/ StoreQuota(t)
  \/ AssignBegins(t) \/ AssignEnds(t)
Ends(t, who) ==
  \/ EnterOnce(t, who) \/ SendBroadcast(t, who) \/ DropBroadcast(t, who) \/ PassOnce(t, who)

Next ==
  \E t \in Texts :
    \/ sendTextMessage(t) \/ TimerFires(t)
    \/ LoadCache(t) \/ CheckQuota(t) \/ UseQuota(t) \/ StoreQuota(t)
    \/ Answered(t) \/ NotAnswered(t) \/ AssignBegins(t) \/ AssignEnds(t)
    \/ \E who \in {"worker", "timer"} :
         EnterOnce(t, who) \/ SendBroadcast(t, who) \/ DropBroadcast(t, who) \/ PassOnce(t, who)

Spec == Init /\ [][Next]_vars

(* Goroutines run, timers fire, the hub takes broadcasts (WsHub), and a     *)
(* request returns once its context is cancelled; the service owes nothing. *)
Fairness ==
  \A t \in Texts :
    /\ WF_vars(Asks(t)) /\ WF_vars(TimerFires(t))
    /\ \A who \in {"worker", "timer"} : WF_vars(Ends(t, who))
    /\ WF_vars(t \in cancelled /\ NotAnswered(t))
FairSpec == Spec /\ Fairness

-----------------------------------------------------------------------------
Workers == {"idle", "load", "check", "use", "store", "post", "assign", "assigning",
            "once", "send", "done"}
Audio == Keys \cup {None, Torn}

TypeOK ==
  /\ worker \in [Texts -> Workers]
  /\ timer \in [Texts -> {"none", "armed", "once", "send", "done"}]
  /\ once \in [Texts -> {"free", "worker", "timer", "done"}]
  /\ cancelled \subseteq Texts /\ cache \subseteq Keys
  /\ audioUrl \in [Texts -> Audio] /\ message \in [Texts -> Audio]
  /\ answer \in [Texts -> Keys \cup {None}]
  /\ used \in [Accounts -> Nat] /\ read \in [Texts -> Nat]
  /\ spent \in [Accounts -> Nat] /\ contended \subseteq Accounts
  /\ results \in [Texts -> Seq(Audio \cup {Dropped})]

(* What a room hears of the texts, and when: OnceDelivery.  Each text has   *)
(* one result, the timer's or the answer's, and has it even if the voice    *)
(* service never answers.                                                   *)
Delivery == INSTANCE OnceDelivery WITH
  asked <- {t \in Texts : worker[t] # "idle"}, Results <- Audio \cup {Dropped}
DeliversOnce == Delivery!FairSpec

(* A text is broadcast with audio of its own key, or with none; with a torn *)
(* address only if the timer's function copied it between the two writes.   *)
AudioIsOwn ==
  \A t \in Texts : \A i \in 1 .. Len(results[t]) :
    \/ results[t][i] \in {Key[t], None, Dropped}
    \/ results[t][i] = Torn /\ timer[t] = "done" /\ answer[t] # None

(* An account pays for no more than its quota, unless two texts looked at   *)
(* it together (reecho.go 60: no lock from the comparison to the sum).      *)
QuotaHolds ==
  \A a \in Accounts : spent[a] <= Quota[a] \/ a \in contended

(* Nothing is left behind of a text: its goroutine ends, too. *)
GoroutinesEnd == \A t \in Texts : worker[t] = "load" ~> worker[t] = "done"
=============================================================================
