-------------------------------- MODULE Hub --------------------------------
(***************************************************************************)
(* The signalling hub of server/src/ws.rs: the live connections of every   *)
(* user, the call roster of every channel, and one handler task per        *)
(* connection.  A step is one critical section of the hub's mutex (or one  *)
(* database lock), so that tasks interleave exactly where the code lets    *)
(* go of a lock.                                                           *)
(*                                                                         *)
(* Connection ids name TCP connections.  They are not reused after a       *)
(* restart of the server (the code counts from 1 again), which only        *)
(* keeps a client's old socket distinct from its new one.  The `hello' and *)
(* `pong' events have no reader and are left out.                          *)
(***************************************************************************)
EXTENDS Naturals, FiniteSets, Sequences

CONSTANTS Users,      \* user ids
          Channels,   \* channel ids
          Nil,        \* no channel, no user
          Member,     \* <<user, channel>>: user belongs to the channel's space
          MaxConns,   \* bound: connections ever accepted
          MaxQueue    \* bound: a task reads no message while a queue is longer

ASSUME NilIsNew == Nil \notin Users \cup Channels
ASSUME MemberIsRelation == Member \subseteq Users \X Channels
ASSUME BoundsAreNat == MaxConns \in Nat /\ MaxQueue \in Nat

VARIABLES next_conn,  \* ids handed out so far
          conns,      \* user -> its registered connections
          calls,      \* channel -> users in the call
          rx,         \* connection -> events queued for its writer
          task        \* connection -> its handler task

hubVars == <<next_conn, conns, calls, rx, task>>

ConnId == 1 .. MaxConns

Event == [type : {"call_roster"}, channel : Channels, participants : SUBSET Users]
         \cup [type : {"call_peer_joined", "call_peer_left", "signal"},
               channel : Channels, user : Users]

RosterEvent(ch, S) == [type |-> "call_roster", channel |-> ch, participants |-> S]
UserEvent(ty, ch, u) == [type |-> ty, channel |-> ch, user |-> u]

(* Where a task stands: the lock it takes next. *)
Pc == {"off", "read", "join", "roster", "peer_joined", "signal",
       "leave_all", "broadcast", "left_roster", "done"}

Task == [pc : Pc, user : Users \cup {Nil}, ch : Channels \cup {Nil},
         roster : SUBSET Users, to : Users \cup {Nil}, checks : 0 .. 4,
         todo : SUBSET (Channels \X SUBSET Users)]

At(pc, u) == [pc |-> pc, user |-> u, ch |-> Nil, roster |-> {}, to |-> Nil,
              checks |-> 0, todo |-> {}]

HubTypeOK ==
  /\ next_conn \in 0 .. MaxConns
  /\ conns \in [Users -> SUBSET ConnId]
  /\ calls \in [Channels -> SUBSET Users]
  /\ rx \in [ConnId -> Seq(Event)]
  /\ task \in [ConnId -> Task]

HubInit ==
  /\ next_conn = 0
  /\ conns = [u \in Users |-> {}]
  /\ calls = [ch \in Channels |-> {}]
  /\ rx = [c \in ConnId |-> <<>>]
  /\ task = [c \in ConnId |-> At("off", Nil)]

-----------------------------------------------------------------------------
(* Hub methods *)

Registered(c) == c \in conns[task[c].user]

(* Every live connection of every listed user gets the event, in one section. *)
send_many(S, ev) ==
  rx' = [c \in ConnId |-> IF \E u \in S : c \in conns[u] THEN Append(rx[c], ev) ELSE rx[c]]

(* handle_socket, up to its read loop. *)
Connect(u) ==
  /\ next_conn < MaxConns
  /\ next_conn' = next_conn + 1
  /\ conns' = [conns EXCEPT ![u] = @ \cup {next_conn'}]
  /\ task' = [task EXCEPT ![next_conn'] = At("read", u)]
  /\ UNCHANGED <<calls, rx>>

(* CallJoin: the membership check, the roster insert, the two broadcasts. *)
ReadJoin(c, ch) ==
  /\ task[c].pc = "read"
  /\ IF <<task[c].user, ch>> \in Member
     THEN task' = [task EXCEPT ![c].pc = "join", ![c].ch = ch]
     ELSE UNCHANGED task
  /\ UNCHANGED <<next_conn, conns, calls, rx>>

CallJoin(c) ==
  LET ch == task[c].ch
      roster == calls[ch] \cup {task[c].user}
  IN /\ task[c].pc = "join"
     /\ calls' = [calls EXCEPT ![ch] = roster]
     /\ task' = [task EXCEPT ![c].pc = "roster", ![c].roster = roster]
     /\ UNCHANGED <<next_conn, conns, rx>>

SendJoinRoster(c) ==
  /\ task[c].pc = "roster"
  /\ send_many(task[c].roster, RosterEvent(task[c].ch, task[c].roster))
  /\ task' = [task EXCEPT ![c].pc = "peer_joined"]
  /\ UNCHANGED <<next_conn, conns, calls>>

SendPeerJoined(c) ==
  LET u == task[c].user
  IN /\ task[c].pc = "peer_joined"
     /\ send_many(task[c].roster \ {u}, UserEvent("call_peer_joined", task[c].ch, u))
     /\ task' = [task EXCEPT ![c] = At("read", u)]
     /\ UNCHANGED <<next_conn, conns, calls>>

(* CallLeave: nothing happens unless the user is in the roster. *)
ReadLeave(c, ch) ==
  LET u == task[c].user
      remaining == calls[ch] \ {u}
  IN /\ task[c].pc = "read"
     /\ IF u \in calls[ch]
        THEN /\ calls' = [calls EXCEPT ![ch] = remaining]
             /\ task' = [task EXCEPT ![c].pc = "broadcast", ![c].todo = {<<ch, remaining>>}]
        ELSE UNCHANGED <<calls, task>>
     /\ UNCHANGED <<next_conn, conns, rx>>

(* Signal: four checks, each under its own lock, and then the relay. *)
ReadSignal(c, ch, to) ==
  /\ task[c].pc = "read"
  /\ task' = [task EXCEPT ![c].pc = "signal", ![c].ch = ch, ![c].to = to]
  /\ UNCHANGED <<next_conn, conns, calls, rx>>

SignalCheck(c) ==
  LET t == task[c]
      holds == << <<t.user, t.ch>> \in Member, <<t.to, t.ch>> \in Member,
                  t.user \in calls[t.ch], t.to \in calls[t.ch] >>
  IN /\ t.pc = "signal"
     /\ t.checks < 4
     /\ task' = [task EXCEPT ![c] = IF holds[t.checks + 1]
                                    THEN [t EXCEPT !.checks = @ + 1]
                                    ELSE At("read", t.user)]
     /\ UNCHANGED <<next_conn, conns, calls, rx>>

SignalRelay(c) ==
  LET t == task[c]
  IN /\ t.pc = "signal"
     /\ t.checks = 4
     /\ send_many({t.to}, UserEvent("signal", t.ch, t.user))
     /\ task' = [task EXCEPT ![c] = At("read", t.user)]
     /\ UNCHANGED <<next_conn, conns, calls>>

(* Mutant: tests for the last connection before it takes this one out.     *)
UnregisterTestsFirst(c) ==
  LET u == task[c].user
  IN /\ task[c].pc = "read"
     /\ conns' = [conns EXCEPT ![u] = @ \ {c}]
     /\ rx' = [rx EXCEPT ![c] = <<>>]
     /\ task' = [task EXCEPT ![c].pc = IF conns[u] = {} THEN "leave_all" ELSE "done"]
     /\ UNCHANGED <<next_conn, calls>>

(* Mutant: leaves every call although other connections remain.            *)
UnregisterIgnoresOthers(c) ==
  /\ task[c].pc = "read"
  /\ conns' = [conns EXCEPT ![task[c].user] = @ \ {c}]
  /\ rx' = [rx EXCEPT ![c] = <<>>]
  /\ task' = [task EXCEPT ![c].pc = "leave_all"]
  /\ UNCHANGED <<next_conn, calls>>

(* The read loop ended.  unregister tells whether this was the last        *)
(* connection; only then does the task go on to leave_all, in a critical   *)
(* section of its own.  What the writer had not sent is dropped.           *)
Unregister(c) ==
  LET u == task[c].user
      left == conns[u] \ {c}
  IN /\ task[c].pc = "read"
     /\ conns' = [conns EXCEPT ![u] = left]
     /\ rx' = [rx EXCEPT ![c] = <<>>]
     /\ task' = [task EXCEPT ![c].pc = IF left = {} THEN "leave_all" ELSE "done"]
     /\ UNCHANGED <<next_conn, calls>>

(* Mutant: stops at the first channel the user is in.                      *)
LeaveAllStopsEarly(c) ==
  LET u == task[c].user
      in == {ch \in Channels : u \in calls[ch]}
      out == IF in = {} THEN {} ELSE {CHOOSE ch \in in : TRUE}
  IN /\ task[c].pc = "leave_all"
     /\ calls' = [ch \in Channels |-> IF ch \in out THEN calls[ch] \ {u} ELSE calls[ch]]
     /\ task' = [task EXCEPT ![c].pc = IF in = {} THEN "done" ELSE "broadcast",
                             ![c].todo = {<<ch, calls[ch] \ {u}>> : ch \in out}]
     /\ UNCHANGED <<next_conn, conns, rx>>

LeaveAll(c) ==
  LET u == task[c].user
      in == {ch \in Channels : u \in calls[ch]}
  IN /\ task[c].pc = "leave_all"
     /\ calls' = [ch \in Channels |-> calls[ch] \ {u}]
     /\ task' = [task EXCEPT ![c].pc = IF in = {} THEN "done" ELSE "broadcast",
                             ![c].todo = {<<ch, calls[ch] \ {u}>> : ch \in in}]
     /\ UNCHANGED <<next_conn, conns, rx>>

(* broadcast_leave for one channel (leave_all lists them in no set order):  *)
(* call_peer_left, then the roster that was read when the user left.        *)
BroadcastLeft(c) ==
  /\ task[c].pc = "broadcast"
  /\ \E p \in task[c].todo :
       /\ send_many(p[2], UserEvent("call_peer_left", p[1], task[c].user))
       /\ task' = [task EXCEPT ![c].pc = "left_roster", ![c].ch = p[1],
                               ![c].roster = p[2], ![c].todo = @ \ {p}]
  /\ UNCHANGED <<next_conn, conns, calls>>

BroadcastRoster(c) ==
  LET t == task[c]
  IN /\ t.pc = "left_roster"
     /\ send_many(t.roster, RosterEvent(t.ch, t.roster))
     /\ task' = [task EXCEPT ![c] =
                   IF t.todo # {} THEN [At("broadcast", t.user) EXCEPT !.todo = t.todo]
                   ELSE At(IF Registered(c) THEN "read" ELSE "done", t.user)]
     /\ UNCHANGED <<next_conn, conns, calls>>

(* The writer task hands the oldest event to the socket. *)
Deliver(c) ==
  /\ rx[c] # <<>>
  /\ rx' = [rx EXCEPT ![c] = Tail(@)]
  /\ UNCHANGED <<next_conn, conns, calls, task>>

(* The process restarts: everything in memory is gone. *)
Restart ==
  /\ conns' = [u \in Users |-> {}]
  /\ calls' = [ch \in Channels |-> {}]
  /\ rx' = [c \in ConnId |-> <<>>]
  /\ task' = [c \in ConnId |-> IF task[c].pc = "off" THEN task[c] ELSE At("done", task[c].user)]
  /\ UNCHANGED next_conn

-----------------------------------------------------------------------------
(* What a task does once it holds a message, without waiting for anyone. *)
TaskStep(c) ==
  \/ CallJoin(c) \/ SendJoinRoster(c) \/ SendPeerJoined(c)
  \/ SignalCheck(c) \/ SignalRelay(c)
  \/ LeaveAll(c) \/ BroadcastLeft(c) \/ BroadcastRoster(c)

(* Anything a client may send. *)
TakeMsg(c) ==
  \/ \E ch \in Channels : ReadJoin(c, ch) \/ ReadLeave(c, ch)
  \/ \E ch \in Channels, to \in Users : ReadSignal(c, ch, to)

(* It waits while a queue is at the bound. *)
ReadMsg(c) == (\A d \in ConnId : Len(rx[d]) <= MaxQueue) /\ TakeMsg(c)

HubNext ==
  \/ \E u \in Users : Connect(u)
  \/ \E c \in ConnId : ReadMsg(c) \/ TaskStep(c) \/ Unregister(c) \/ Deliver(c)
  \/ Restart

HubSpec == HubInit /\ [][HubNext]_hubVars

(* The runtime keeps running tasks that can run; clients owe nothing. *)
HubLiveSpec == HubSpec /\ \A c \in ConnId : WF_hubVars(TaskStep(c))

-----------------------------------------------------------------------------
(* Properties *)

(* u's last connection has gone and its task has yet to call leave_all. *)
Leaving(u) == \E c \in ConnId : task[c].pc = "leave_all" /\ task[c].user = u

(* A roster never keeps a user whose connections are all gone, except      *)
(* between unregister and the leave_all that follows it.                   *)
NoGhostInRoster ==
  \A ch \in Channels : \A u \in calls[ch] : conns[u] # {} \/ Leaving(u)

(* The hub implements the one-step rosters: a user with a leave_all        *)
(* pending counts as out of every call already.                            *)
Online == {u \in Users : conns[u] # {}}
Listed == [ch \in Channels |-> {u \in calls[ch] : ~ Leaving(u)}]

Rosters == INSTANCE CallRoster WITH online <- Online, roster <- Listed
ImplementsRosters == Rosters!Spec

(* A user who stays offline leaves every roster. *)
OfflineLeaves ==
  \A u \in Users : conns[u] = {} ~> conns[u] # {} \/ \A ch \in Channels : u \notin calls[ch]
=============================================================================
