---------------------------- MODULE MCSpaceView ----------------------------
(* An instance of SpaceView for TLC. *)
EXTENDS SpaceView, TLC

Slots == Permutations(Request)
=============================================================================
