----------------------------- MODULE HostToken -----------------------------
(***************************************************************************)
(* Who may drive a room, as the server means it: the host of a room is a   *)
(* token.  Whoever opens the room has it; somebody else gets it by the     *)
(* claim of his first contact, if he knew the password, and by nothing     *)
(* else; and only those who have held it write the room.                   *)
(***************************************************************************)
CONSTANTS Objects, Users, Passwords, Fields, SerialUsers, None

VARIABLES
  secret,     \* room -> its password, None before it is opened
  host,       \* room -> who holds the token
  pastHosts,  \* room -> users that have held it
  met,        \* room -> users that are not new to it
  claims,     \* room -> <<user, password>> of first contacts in progress
  written     \* room -> field -> [user, password] that wrote it last
vars == <<secret, host, pastHosts, met, claims, written>>

Init ==
  /\ secret = [o \in Objects |-> None] /\ host = [o \in Objects |-> None]
  /\ pastHosts = [o \in Objects |-> {}] /\ met = [o \in Objects |-> {}]
  /\ claims = [o \in Objects |-> {}]
  /\ written = [o \in Objects |-> [f \in Fields |-> None]]

Open(o, u, p) ==
  /\ secret[o] = None /\ claims[o] = {}
  /\ secret' = [secret EXCEPT ![o] = p]
  /\ host' = [host EXCEPT ![o] = u]
  /\ pastHosts' = [pastHosts EXCEPT ![o] = {u}]
  /\ UNCHANGED <<met, claims, written>>

(* Who has one request at a time claims a room once in his life. *)
Claim(o, u, p) ==
  /\ u \notin met[o]
  /\ u \in SerialUsers => \A q \in Passwords : <<u, q>> \notin claims[o]
  /\ claims' = [claims EXCEPT ![o] = @ \cup {<<u, p>>}]
  /\ UNCHANGED <<secret, host, pastHosts, met, written>>

Meet(o, u) ==
  /\ \E p \in Passwords : <<u, p>> \in claims[o]
  /\ met' = [met EXCEPT ![o] = @ \cup {u}]
  /\ UNCHANGED <<secret, host, pastHosts, claims, written>>

Drop(o, u, p) == claims' = [claims EXCEPT ![o] = @ \ {<<u, p>>}]

Forgo(o, u, p) ==
  /\ u \in met[o]
  /\ Drop(o, u, p)
  /\ UNCHANGED <<secret, host, pastHosts, met, written>>

(* Another request of the same user may go on claiming what this one got. *)
TakeOver(o, u) ==
  /\ u \in met[o] /\ <<u, secret[o]>> \in claims[o]
  /\ host' = [host EXCEPT ![o] = u]
  /\ pastHosts' = [pastHosts EXCEPT ![o] = @ \cup {u}]
  /\ Drop(o, u, secret[o]) \/ (u \notin SerialUsers /\ UNCHANGED claims)
  /\ UNCHANGED <<secret, met, written>>

Write(o, u, f) ==
  /\ u \in pastHosts[o]
  /\ written' = [written EXCEPT ![o][f] = [user |-> u, password |-> secret[o]]]
  /\ UNCHANGED <<secret, host, pastHosts, met, claims>>

Next ==
  \/ \E o \in Objects, u \in Users, p \in Passwords :
       Open(o, u, p) \/ Claim(o, u, p) \/ Forgo(o, u, p)
  \/ \E o \in Objects, u \in Users : Meet(o, u) \/ TakeOver(o, u)
  \/ \E o \in Objects, u \in Users, f \in Fields : Write(o, u, f)

Spec == Init /\ [][Next]_vars
=============================================================================
