--------------------------- MODULE RoomBroadcast ---------------------------
(***************************************************************************)
(* What the websocket hub promises to the connections of a room: one       *)
(* broadcast at a time, in one order for all; each connection hears it     *)
(* once or misses it; it hears only names it was granted access to, in the *)
(* role it has; and a broadcast that carries a room shows its state as it  *)
(* was when the broadcast went on air.                                     *)
(***************************************************************************)
EXTENDS Naturals, Sequences

CONSTANTS Clients, Names, Objects, Messages, QueueCap, None

VARIABLES
  granted,    \* connection -> names it was granted access to
  hosts,      \* connection -> names it had an update admitted of
  version,    \* Room object -> number of changes
  onAir,      \* the broadcast being delivered, in a set of its own
  listeners,  \* connections it has not come to yet
  inbox       \* connection -> messages not written to its peer yet
vars == <<granted, hosts, version, onAir, listeners, inbox>>

Init ==
  /\ granted = [c \in Clients |-> {}] /\ hosts = [c \in Clients |-> {}]
  /\ version = [o \in Objects |-> 0]
  /\ onAir = {} /\ listeners = {}
  /\ inbox = [c \in Clients |-> <<>>]

Grant(c, n) ==
  /\ granted' = [granted EXCEPT ![c] = @ \cup {n}]
  /\ UNCHANGED <<hosts, version, onAir, listeners, inbox>>

Change(o) ==
  /\ version' = [version EXCEPT ![o] = @ + 1]
  /\ UNCHANGED <<granted, hosts, onAir, listeners, inbox>>

HostUpdate(c, n, o) ==
  /\ granted' = [granted EXCEPT ![c] = @ \cup {n}]
  /\ hosts' = [hosts EXCEPT ![c] = @ \cup {n}]
  /\ version' = [version EXCEPT ![o] = @ + 1]
  /\ UNCHANGED <<onAir, listeners, inbox>>

(* Whoever speaks was granted a room; what is no room's state goes to a    *)
(* room the speaker was granted, and a request or an answer is no state.   *)
MaySpeak(c, m) ==
  /\ granted[c] # {}
  /\ m.obj = None => m.name \in granted[c]
  /\ m.obj # None => /\ m.type = "ALL"
                     /\ m.version = version[m.obj] /\ m.stamp <= m.version

Publish(c) ==
  /\ onAir = {} /\ listeners' = Clients
  /\ UNCHANGED <<granted, hosts, version, inbox>>
  /\ \E m \in Messages : /\ onAir' = {m}
                         /\ m.type # "reply" /\ MaySpeak(c, m)

MayHear(c, m) ==
  /\ m.name \in granted[c]
  /\ m.type = "HOST" => m.name \in hosts[c]
  /\ m.type = "MEMBERS" => hosts[c] = {}

Put(c, m) ==
  /\ Len(inbox[c]) < QueueCap
  /\ inbox' = [inbox EXCEPT ![c] = Append(@, m)]

Hear(c) ==
  /\ c \in listeners
  /\ \E m \in onAir : MayHear(c, m) /\ Put(c, m)
  /\ listeners' = listeners \ {c}
  /\ UNCHANGED <<granted, hosts, version, onAir>>

Miss(c) ==
  /\ c \in listeners
  /\ listeners' = listeners \ {c}
  /\ UNCHANGED <<granted, hosts, version, onAir, inbox>>

End ==
  /\ listeners = {} /\ onAir' = {}
  /\ UNCHANGED <<granted, hosts, version, listeners, inbox>>

Answer(c) ==
  /\ inbox' # inbox
  /\ UNCHANGED <<granted, hosts, version, onAir, listeners>>
  /\ \E m \in Messages : m.type = "reply" /\ Put(c, m)

(* One message, or all of them, leave for the peer, or are lost with it. *)
Take(c) ==
  /\ inbox[c] # <<>>
  /\ \/ inbox' = [inbox EXCEPT ![c] = Tail(@)]
     \/ inbox' = [inbox EXCEPT ![c] = <<>>]
  /\ UNCHANGED <<granted, hosts, version, onAir, listeners>>

Next ==
  \/ \E c \in Clients, n \in Names : Grant(c, n)
  \/ \E o \in Objects : Change(o)
  \/ \E c \in Clients, n \in Names, o \in Objects : HostUpdate(c, n, o)
  \/ \E c \in Clients : Publish(c) \/ Hear(c) \/ Miss(c) \/ Answer(c) \/ Take(c)
  \/ End

Spec == Init /\ [][Next]_vars
=============================================================================
