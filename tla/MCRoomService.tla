--------------------------- MODULE MCRoomService ---------------------------
(* Small instances of RoomService for TLC. *)
EXTENDS RoomService, TLC

CONSTANTS ann, bob, n1, n2, right, wrong

req(u, p, f, fault) ==
  [user |-> u, name |-> n1, password |-> p, fresh |-> f, fault |-> fault]

(* Authority: ann sends one request at a time and mistypes the password at  *)
(* times; bob comes over IPv6 and lacks a number in his other requests.     *)
AuthorityInputs == { req(ann, right, TRUE, "nothing"), req(ann, wrong, TRUE, "nothing"),
                     req(bob, right, TRUE, "remoteIPv6"),
                     req(bob, right, TRUE, "lastUpdateClientTime"),
                     req(bob, right, TRUE, "currentTime") }

(* Registry: one user whose clock is right or too far behind. *)
RegistryInputs == { req(ann, right, TRUE, "nothing"), req(ann, right, FALSE, "nothing") }

(* Expiry: ann refreshes two rooms, or lets them go. *)
ExpiryInputs == { [req(ann, right, TRUE, "nothing") EXCEPT !.name = n] : n \in Names }

Symmetry == Permutations(Workers) \cup Permutations(Objects)
=============================================================================
