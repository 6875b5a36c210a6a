---------------------------- MODULE MCSpaceKeys ----------------------------
(* Instances of SpaceKeys for TLC; removals are interchangeable.            *)
EXTENDS SpaceKeys, TLC

SameRemovals == Permutations(Removals)
=============================================================================
