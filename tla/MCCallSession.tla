--------------------------- MODULE MCCallSession ---------------------------
(* Two calls of joinCall, two of startBroadcast. *)
EXTENDS CallSession, TLC

Symmetry == Permutations(Manager) \cup Permutations(Stream) \cup Permutations(User)
=============================================================================
