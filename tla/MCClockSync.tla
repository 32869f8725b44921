---------------------------- MODULE MCClockSync ----------------------------
(* A small instance of ClockSync for TLC. *)
EXTENDS ClockSync, TLC

MCSkews == {-3, 0, 4}
Symmetry == Permutations(Requests)
=============================================================================
