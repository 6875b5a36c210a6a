------------------------------ MODULE MCCalls ------------------------------
(* Two callers of one channel and one connection more than they need: one  *)
(* of them reconnects, or the server restarts before the second connects.  *)
EXTENDS Calls, TLC

AllMembers == Users \X Channels
(* Both invariants speak of histories without a race of the hub; nothing   *)
(* is lost by not exploring past one.                                      *)
NoRace == Sound

(* No client reads what is queued for a broken connection. *)
Seen == <<next_conn, conns, calls, task, clientVars, races, joins, signals,
          [c \in ConnId |-> IF c \in broken THEN <<>> ELSE rx[c]]>>

Swap == Permutations(Users)
=============================================================================
