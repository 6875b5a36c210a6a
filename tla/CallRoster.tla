---------------------------- MODULE CallRoster ----------------------------
(***************************************************************************)
(* What the hub of server/src/ws.rs promises about calls, with every       *)
(* operation in one step: a user is online while it has a connection, may  *)
(* join and leave channel rosters while online, and going offline takes it *)
(* out of every roster at once.  Hub is shown to implement this.           *)
(***************************************************************************)
CONSTANTS Users, Channels

VARIABLES online, roster
vars == <<online, roster>>

Init == /\ online = {}
        /\ roster = [ch \in Channels |-> {}]

Connect(u) == /\ online' = online \cup {u}
              /\ UNCHANGED roster

Join(u, ch) == /\ u \in online
               /\ roster' = [roster EXCEPT ![ch] = @ \cup {u}]
               /\ UNCHANGED online

Leave(u, ch) == /\ roster' = [roster EXCEPT ![ch] = @ \ {u}]
                /\ UNCHANGED online

Disconnect(u) == /\ online' = online \ {u}
                 /\ roster' = [ch \in Channels |-> roster[ch] \ {u}]

Restart == /\ online' = {}
           /\ roster' = [ch \in Channels |-> {}]

Next == \/ \E u \in Users : Connect(u) \/ Disconnect(u)
        \/ \E u \in Users, ch \in Channels : Join(u, ch) \/ Leave(u, ch)
        \/ Restart

Spec == Init /\ [][Next]_vars
=============================================================================
