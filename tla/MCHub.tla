------------------------------- MODULE MCHub -------------------------------
(* Two users, two connections and two channels: a user with an old and a   *)
(* new connection, or two users with one each; a user in both calls.       *)
EXTENDS Hub

AllMembers == Users \X Channels
=============================================================================
