------------------------------ MODULE MCWsHub ------------------------------
(* Small instances of WsHub for TLC. *)
EXTENDS WsHub, TLC

Symmetry == Permutations(Clients) \cup Permutations(Objects)
=============================================================================
