----------------------------- MODULE HubProofs -----------------------------
(***************************************************************************)
(* For any sets of users and channels and any number of connections: the   *)
(* hub is well typed, no roster keeps a user who has gone for good, and    *)
(* the hub implements CallRoster.                                          *)
(***************************************************************************)
EXTENDS Hub, TLAPS

(* Ids not handed out yet name nothing. *)
FreshIds == \A c \in ConnId : c > next_conn => task[c].pc = "off"

(* A task that reads or answers messages holds a registered connection. *)
ServedIsRegistered ==
  \A c \in ConnId :
    task[c].pc \in {"read", "join", "roster", "peer_joined", "signal"} =>
      task[c].user \in Users /\ c \in conns[task[c].user]

(* Every task that has started belongs to a user, and knows the channel    *)
(* (and, for a signal, the addressee) of the message it is answering.      *)
LocalsSet ==
  \A c \in ConnId :
    /\ task[c].pc # "off" => task[c].user \in Users
    /\ task[c].pc \in {"join", "roster", "peer_joined", "signal", "left_roster"} =>
         task[c].ch \in Channels
    /\ task[c].pc = "signal" => task[c].to \in Users

(* The steps of the hub without the bound on the queues. *)
AnyStep ==
  \/ \E u \in Users : Connect(u)
  \/ \E c \in ConnId : TakeMsg(c) \/ TaskStep(c) \/ Unregister(c) \/ Deliver(c)
  \/ Restart

IInv == HubTypeOK /\ FreshIds /\ ServedIsRegistered /\ LocalsSet /\ NoGhostInRoster

-----------------------------------------------------------------------------
(* What At and send_many return. *)

LEMMA AtType ==
  ASSUME NEW pc \in Pc, NEW u \in Users \cup {Nil}
  PROVE  At(pc, u) \in Task /\ At(pc, u).pc = pc /\ At(pc, u).user = u
BY DEF At, Task

LEMMA SendManyType ==
  ASSUME HubTypeOK, NEW S, NEW ev \in Event, send_many(S, ev)
  PROVE  rx' \in [ConnId -> Seq(Event)]
BY DEF HubTypeOK, send_many

LEMMA EventTypes ==
  ASSUME NEW ch \in Channels
  PROVE  /\ \A S \in SUBSET Users : RosterEvent(ch, S) \in Event
         /\ \A u \in Users, ty \in {"call_peer_joined", "call_peer_left", "signal"} :
              UserEvent(ty, ch, u) \in Event
BY DEF RosterEvent, UserEvent, Event

(* The step of one task that neither enters nor ends leave_all changes     *)
(* nobody's Leaving.                                                       *)
LEMMA LeavingFrame ==
  ASSUME NEW c \in ConnId,
         \A d \in ConnId \ {c} : task'[d] = task[d],
         task[c].pc # "leave_all", task'[c].pc # "leave_all"
  PROVE  \A u : Leaving(u)' <=> Leaving(u)
BY DEF Leaving

-----------------------------------------------------------------------------
LEMMA InitInv == HubInit => IInv
<1> SUFFICES ASSUME HubInit PROVE IInv
  OBVIOUS
<1> USE DEF HubInit, At
<1>1. HubTypeOK
  BY BoundsAreNat DEF HubTypeOK, ConnId, Task, Pc
<1>2. FreshIds /\ ServedIsRegistered /\ LocalsSet /\ NoGhostInRoster
  BY DEF FreshIds, ServedIsRegistered, LocalsSet, NoGhostInRoster
<1>3. QED
  BY <1>1, <1>2 DEF IInv

(* Writing one task. *)
LEMMA SetTask ==
  ASSUME NEW c \in ConnId, NEW v \in Task, task \in [ConnId -> Task],
         task' = [task EXCEPT ![c] = v]
  PROVE  /\ task' \in [ConnId -> Task]
         /\ \A d \in ConnId \ {c} : task'[d] = task[d]
         /\ task'[c] = v
OBVIOUS

(* Every task moves within Task, one task per step. *)
LEMMA TaskStepType ==
  ASSUME HubTypeOK, LocalsSet, NEW c \in ConnId, TaskStep(c)
  PROVE  /\ task' \in [ConnId -> Task]
         /\ \A d \in ConnId \ {c} : task'[d] = task[d]
         /\ task'[c].user = task[c].user
         /\ task'[c].pc # "off"
         /\ calls' \in [Channels -> SUBSET Users]
         /\ conns' = conns /\ next_conn' = next_conn
<1> DEFINE t == task[c]
<1>1. /\ t \in Task
      /\ task \in [ConnId -> Task]
      /\ calls \in [Channels -> SUBSET Users]
      /\ t.pc # "off" => t.user \in Users
      /\ t.pc = "join" => t.ch \in Channels
  BY DEF HubTypeOK, LocalsSet
<1> HIDE DEF t
<1>2. ASSUME NEW v \in Task, v.user = t.user, v.pc # "off",
             task' = [task EXCEPT ![c] = v]
      PROVE  /\ task' \in [ConnId -> Task]
             /\ \A d \in ConnId \ {c} : task'[d] = task[d]
             /\ task'[c].user = task[c].user
             /\ task'[c].pc # "off"
  BY <1>1, <1>2, SetTask DEF t
<1>3. CASE CallJoin(c)
  <2> DEFINE v == [t EXCEPT !.pc = "roster", !.roster = calls[t.ch] \cup {t.user}]
  <2>1. t.ch \in Channels /\ t.user \in Users
    BY <1>1, <1>3 DEF CallJoin, t
  <2>2. v \in Task /\ v.user = t.user /\ v.pc # "off"
    BY <1>1, <2>1 DEF Task, Pc
  <2>3. /\ task' = [task EXCEPT ![c] = v]
        /\ calls' \in [Channels -> SUBSET Users]
        /\ conns' = conns /\ next_conn' = next_conn
    BY <1>1, <1>3, <2>1 DEF CallJoin, t
  <2> HIDE DEF v
  <2>4. QED
    BY <1>2, <2>2, <2>3
<1>4. CASE SendJoinRoster(c)
  <2>1. [t EXCEPT !.pc = "peer_joined"] \in Task
    BY <1>1 DEF Task, Pc
  <2>2. QED
    BY <1>1, <1>2, <1>4, <2>1 DEF SendJoinRoster, t, Task
<1>5. CASE SendPeerJoined(c) \/ SignalRelay(c)
  <2>1. t.user \in Users
    BY <1>1, <1>5 DEF SendPeerJoined, SignalRelay, t
  <2>2. /\ At("read", t.user) \in Task
        /\ At("read", t.user).pc = "read" /\ At("read", t.user).user = t.user
    BY <2>1, AtType DEF Pc
  <2>3. QED
    BY <1>1, <1>2, <1>5, <2>2 DEF SendPeerJoined, SignalRelay, t
<1>6. CASE SignalCheck(c)
  <2>1. t.user \in Users /\ t.checks < 4 /\ t.pc = "signal"
    BY <1>1, <1>6 DEF SignalCheck, t
  <2>2. /\ At("read", t.user) \in Task
        /\ At("read", t.user).pc = "read" /\ At("read", t.user).user = t.user
    BY <2>1, AtType DEF Pc
  <2>3. /\ [t EXCEPT !.checks = @ + 1] \in Task
        /\ [t EXCEPT !.checks = @ + 1].user = t.user
        /\ [t EXCEPT !.checks = @ + 1].pc = "signal"
    BY <1>1, <2>1 DEF Task
  <2>4. \/ task' = [task EXCEPT ![c] = [t EXCEPT !.checks = @ + 1]]
        \/ task' = [task EXCEPT ![c] = At("read", t.user)]
    BY <1>6 DEF SignalCheck, t
  <2>5. calls' = calls /\ conns' = conns /\ next_conn' = next_conn
    BY <1>6 DEF SignalCheck
  <2>6. QED
    BY <1>1, <1>2, <2>2, <2>3, <2>4, <2>5
<1>7. CASE LeaveAll(c)
  <2> DEFINE in == {ch \in Channels : t.user \in calls[ch]}
             out == {<<ch, calls[ch] \ {t.user}>> : ch \in in}
             v == [t EXCEPT !.pc = IF in = {} THEN "done" ELSE "broadcast", !.todo = out]
  <2>0. out \in SUBSET (Channels \X SUBSET Users)
    BY <1>1
  <2>1. v \in Task /\ v.user = t.user /\ v.pc # "off"
    <3> HIDE DEF out, in
    <3> QED  BY <1>1, <2>0 DEF Task, Pc
  <2>2. task' = [task EXCEPT ![c] = v] /\ calls' \in [Channels -> SUBSET Users]
        /\ conns' = conns /\ next_conn' = next_conn
    BY <1>1, <1>7 DEF LeaveAll, t
  <2> HIDE DEF v
  <2>3. QED
    BY <1>2, <2>1, <2>2
<1>8. CASE BroadcastLeft(c)
  <2>1. PICK p \in t.todo :
          /\ task' = [task EXCEPT ![c] =
                        [t EXCEPT !.pc = "left_roster", !.ch = p[1],
                                  !.roster = p[2], !.todo = @ \ {p}]]
          /\ calls' = calls /\ conns' = conns /\ next_conn' = next_conn
    BY <1>8 DEF BroadcastLeft, t
  <2> DEFINE v == [t EXCEPT !.pc = "left_roster", !.ch = p[1],
                            !.roster = p[2], !.todo = @ \ {p}]
  <2>2. p[1] \in Channels /\ p[2] \in SUBSET Users
    BY <1>1 DEF Task
  <2>3. v \in Task /\ v.user = t.user /\ v.pc # "off"
    BY <1>1, <2>2 DEF Task, Pc
  <2> HIDE DEF v
  <2>4. QED
    BY <1>1, <1>2, <2>1, <2>3 DEF v
<1>9. CASE BroadcastRoster(c)
  <2>1. t.user \in Users
    BY <1>1, <1>9 DEF BroadcastRoster, t
  <2> DEFINE rest == [At("broadcast", t.user) EXCEPT !.todo = t.todo]
             fin == At(IF Registered(c) THEN "read" ELSE "done", t.user)
  <2>2. rest \in Task /\ rest.user = t.user /\ rest.pc # "off"
    BY <1>1, <2>1 DEF Task, Pc, At
  <2>3. fin \in Task /\ fin.user = t.user /\ fin.pc # "off"
    BY <2>1 DEF Task, Pc, At
  <2>4. /\ \/ task' = [task EXCEPT ![c] = rest]
           \/ task' = [task EXCEPT ![c] = fin]
        /\ calls' = calls /\ conns' = conns /\ next_conn' = next_conn
    BY <1>9 DEF BroadcastRoster, t
  <2> HIDE DEF rest, fin
  <2>5. QED
    BY <1>1, <1>2, <2>2, <2>3, <2>4
<1>10. QED
  BY <1>3, <1>4, <1>5, <1>6, <1>7, <1>8, <1>9 DEF TaskStep

LEMMA TaskStepRx ==
  ASSUME HubTypeOK, LocalsSet, NEW c \in ConnId, TaskStep(c)
  PROVE  rx' \in [ConnId -> Seq(Event)]
<1>1. /\ task[c] \in Task
      /\ rx \in [ConnId -> Seq(Event)]
      /\ task[c].pc # "off" => task[c].user \in Users
      /\ task[c].pc \in {"roster", "peer_joined", "signal", "left_roster"} =>
           task[c].ch \in Channels
  BY DEF HubTypeOK, LocalsSet
<1>2. task[c].roster \in SUBSET Users
  BY <1>1 DEF Task
<1>3. CASE SendJoinRoster(c)
  <2>1. task[c].ch \in Channels
    BY <1>1, <1>3 DEF SendJoinRoster
  <2>2. RosterEvent(task[c].ch, task[c].roster) \in Event
    BY <1>2, <2>1, EventTypes
  <2>3. QED
    BY <1>3, <2>2, SendManyType DEF SendJoinRoster
<1>4. CASE SendPeerJoined(c)
  <2>1. task[c].ch \in Channels /\ task[c].user \in Users
    BY <1>1, <1>4 DEF SendPeerJoined
  <2>2. UserEvent("call_peer_joined", task[c].ch, task[c].user) \in Event
    BY <2>1, EventTypes
  <2>3. QED
    BY <1>4, <2>2, SendManyType DEF SendPeerJoined
<1>5. CASE SignalRelay(c)
  <2>1. task[c].ch \in Channels /\ task[c].user \in Users
    BY <1>1, <1>5 DEF SignalRelay
  <2>2. UserEvent("signal", task[c].ch, task[c].user) \in Event
    BY <2>1, EventTypes
  <2>3. QED
    BY <1>5, <2>2, SendManyType DEF SignalRelay
<1>6. CASE BroadcastLeft(c)
  <2>1. PICK p \in task[c].todo :
          send_many(p[2], UserEvent("call_peer_left", p[1], task[c].user))
    BY <1>6 DEF BroadcastLeft
  <2>2. p[1] \in Channels /\ task[c].user \in Users
    BY <1>1, <1>6 DEF BroadcastLeft, Task
  <2>3. UserEvent("call_peer_left", p[1], task[c].user) \in Event
    BY <2>2, EventTypes
  <2>4. QED
    BY <2>1, <2>3, SendManyType
<1>7. CASE BroadcastRoster(c)
  <2>1. task[c].ch \in Channels
    BY <1>1, <1>7 DEF BroadcastRoster
  <2>2. RosterEvent(task[c].ch, task[c].roster) \in Event
    BY <1>2, <2>1, EventTypes
  <2>3. QED
    BY <1>7, <2>2, SendManyType DEF BroadcastRoster
<1>8. CASE CallJoin(c) \/ SignalCheck(c) \/ LeaveAll(c)
  BY <1>1, <1>8 DEF CallJoin, SignalCheck, LeaveAll
<1>9. QED
  BY <1>3, <1>4, <1>5, <1>6, <1>7, <1>8 DEF TaskStep

(* The control invariants over a task step. *)
LEMMA TaskStepControl ==
  ASSUME HubTypeOK, LocalsSet, ServedIsRegistered, NEW c \in ConnId, TaskStep(c)
  PROVE  LocalsSet' /\ ServedIsRegistered'
<1>1. /\ task[c] \in Task /\ task \in [ConnId -> Task]
      /\ task' \in [ConnId -> Task]
      /\ \A d \in ConnId \ {c} : task'[d] = task[d]
      /\ task'[c].user = task[c].user
      /\ conns' = conns
  BY TaskStepType DEF HubTypeOK
<1>2. task[c].pc # "off"
  BY DEF TaskStep, CallJoin, SendJoinRoster, SendPeerJoined, SignalCheck, SignalRelay,
         LeaveAll, BroadcastLeft, BroadcastRoster
<1> DEFINE Ok(v) ==
      /\ v.pc \in {"read", "join", "roster", "peer_joined", "signal"} =>
           c \in conns[task[c].user]
      /\ v.pc \in {"join", "roster", "peer_joined", "signal", "left_roster"} =>
           v.ch \in Channels
      /\ v.pc = "signal" => v.to \in Users
<1>3. SUFFICES Ok(task'[c])
  BY <1>1, <1>2, <1>3 DEF LocalsSet, ServedIsRegistered
<1>4. Ok(task[c])
  BY <1>2 DEF LocalsSet, ServedIsRegistered
<1>5. CASE CallJoin(c)
  BY <1>1, <1>4, <1>5 DEF CallJoin, Task
<1>6. CASE SendJoinRoster(c)
  BY <1>1, <1>4, <1>6 DEF SendJoinRoster, Task
<1>7. CASE SendPeerJoined(c) \/ SignalRelay(c)
  BY <1>1, <1>4, <1>7 DEF SendPeerJoined, SignalRelay, At
<1>8. CASE SignalCheck(c)
  BY <1>1, <1>4, <1>8 DEF SignalCheck, At, Task
<1>9. CASE LeaveAll(c)
  BY <1>1, <1>9 DEF LeaveAll, Task
<1>10. CASE BroadcastLeft(c)
  <2>1. PICK p \in task[c].todo :
          task' = [task EXCEPT ![c].pc = "left_roster", ![c].ch = p[1],
                               ![c].roster = p[2], ![c].todo = @ \ {p}]
    BY <1>10 DEF BroadcastLeft
  <2>2. p[1] \in Channels
    BY <1>1 DEF Task
  <2>3. task'[c].pc = "left_roster" /\ task'[c].ch = p[1]
    BY <1>1, <2>1 DEF Task
  <2>4. QED
    BY <2>2, <2>3
<1>11. CASE BroadcastRoster(c)
  BY <1>1, <1>11 DEF BroadcastRoster, At, Registered
<1>12. QED
  BY <1>5, <1>6, <1>7, <1>8, <1>9, <1>10, <1>11 DEF TaskStep

(* Which task steps touch the rosters, and how. *)
LEMMA TaskStepRosters ==
  ASSUME HubTypeOK, NEW c \in ConnId, TaskStep(c)
  PROVE  \/ /\ task[c].pc = "join" /\ task'[c].pc # "leave_all"
            /\ calls' = [calls EXCEPT ![task[c].ch] = @ \cup {task[c].user}]
         \/ /\ task[c].pc = "leave_all" /\ task'[c].pc # "leave_all"
            /\ calls' = [ch \in Channels |-> calls[ch] \ {task[c].user}]
         \/ /\ task[c].pc # "leave_all" /\ task'[c].pc # "leave_all"
            /\ calls' = calls
<1>1. task[c] \in Task /\ task \in [ConnId -> Task]
  BY DEF HubTypeOK
<1>2. CASE CallJoin(c)
  BY <1>1, <1>2 DEF CallJoin, Task
<1>3. CASE LeaveAll(c)
  BY <1>1, <1>3 DEF LeaveAll, Task
<1>4. CASE SendJoinRoster(c) \/ SignalCheck(c)
  BY <1>1, <1>4 DEF SendJoinRoster, SignalCheck, At, Task
<1>5. CASE SendPeerJoined(c) \/ SignalRelay(c)
  BY <1>1, <1>5 DEF SendPeerJoined, SignalRelay, At
<1>6. CASE BroadcastLeft(c)
  BY <1>1, <1>6 DEF BroadcastLeft, Task
<1>7. CASE BroadcastRoster(c)
  BY <1>1, <1>7 DEF BroadcastRoster, At
<1>8. QED
  BY <1>2, <1>3, <1>4, <1>5, <1>6, <1>7 DEF TaskStep

LEMMA TaskStepInv ==
  ASSUME IInv, NEW c \in ConnId, TaskStep(c)
  PROVE  IInv'
<1> USE DEF IInv
<1>1. /\ task' \in [ConnId -> Task]
      /\ \A d \in ConnId \ {c} : task'[d] = task[d]
      /\ task'[c].user = task[c].user
      /\ task'[c].pc # "off"
      /\ calls' \in [Channels -> SUBSET Users]
      /\ conns' = conns /\ next_conn' = next_conn
  BY TaskStepType
<1>2. HubTypeOK'
  BY <1>1, TaskStepRx DEF HubTypeOK
<1>3. LocalsSet' /\ ServedIsRegistered'
  BY TaskStepControl
<1>4. task[c].pc # "off"
  BY DEF TaskStep, CallJoin, SendJoinRoster, SendPeerJoined, SignalCheck, SignalRelay,
         LeaveAll, BroadcastLeft, BroadcastRoster
<1>5. FreshIds'
  BY <1>1, <1>4 DEF FreshIds
<1>6. NoGhostInRoster'
  <2>1. CASE /\ task[c].pc = "join" /\ task'[c].pc # "leave_all"
             /\ calls' = [calls EXCEPT ![task[c].ch] = @ \cup {task[c].user}]
    <3>1. c \in conns[task[c].user] /\ task[c].ch \in Channels
      BY <2>1 DEF ServedIsRegistered, LocalsSet
    <3>2. \A u : Leaving(u)' <=> Leaving(u)
      BY <1>1, <2>1, LeavingFrame
    <3>3. QED
      BY <1>1, <2>1, <3>1, <3>2 DEF NoGhostInRoster, HubTypeOK
  <2>2. CASE /\ task[c].pc = "leave_all" /\ task'[c].pc # "leave_all"
             /\ calls' = [ch \in Channels |-> calls[ch] \ {task[c].user}]
    <3>1. \A u : u # task[c].user => (Leaving(u)' <=> Leaving(u))
      BY <1>1, <2>2 DEF Leaving
    <3>2. QED
      BY <1>1, <2>2, <3>1 DEF NoGhostInRoster
  <2>3. CASE /\ task[c].pc # "leave_all" /\ task'[c].pc # "leave_all"
             /\ calls' = calls
    BY <1>1, <2>3, LeavingFrame DEF NoGhostInRoster
  <2>4. QED
    BY <2>1, <2>2, <2>3, TaskStepRosters
<1>7. QED
  BY <1>2, <1>3, <1>5, <1>6

LEMMA ConnectInv ==
  ASSUME IInv, NEW u \in Users, Connect(u)
  PROVE  IInv'
<1> DEFINE n == next_conn + 1
<1>1. /\ n \in ConnId /\ n > next_conn /\ n \in 0 .. MaxConns
      /\ next_conn' = n
      /\ conns' = [conns EXCEPT ![u] = @ \cup {n}]
      /\ task' = [task EXCEPT ![n] = At("read", u)]
      /\ calls' = calls /\ rx' = rx
      /\ next_conn \in Nat
  BY BoundsAreNat DEF IInv, HubTypeOK, Connect, ConnId
<1>2. /\ At("read", u) \in Task
      /\ At("read", u).pc = "read" /\ At("read", u).user = u
  BY AtType DEF Pc
<1>3. task[n].pc = "off"
  BY <1>1 DEF IInv, FreshIds
<1>4. /\ task \in [ConnId -> Task] /\ conns \in [Users -> SUBSET ConnId]
      /\ calls \in [Channels -> SUBSET Users]
  BY DEF IInv, HubTypeOK
<1> HIDE DEF n
<1>5. task'[n] = At("read", u) /\ \A d \in ConnId \ {n} : task'[d] = task[d]
  BY <1>1, <1>4
<1>6. HubTypeOK'
  BY <1>1, <1>2, <1>4 DEF IInv, HubTypeOK
<1>7. FreshIds'
  BY <1>1, <1>5 DEF IInv, FreshIds, ConnId, n
<1>8. ServedIsRegistered'
  BY <1>1, <1>2, <1>4, <1>5 DEF IInv, ServedIsRegistered
<1>9. LocalsSet'
  BY <1>2, <1>5 DEF IInv, LocalsSet
<1>10. NoGhostInRoster'
  <2>1. \A v : Leaving(v)' <=> Leaving(v)
    BY <1>1, <1>2, <1>3, <1>5, LeavingFrame
  <2>2. QED
    BY <1>1, <1>4, <2>1 DEF IInv, NoGhostInRoster
<1>11. QED
  BY <1>6, <1>7, <1>8, <1>9, <1>10 DEF IInv

(* Reading a message: the task takes it up, or drops it and reads on.       *)
LEMMA TakeMsgStep ==
  ASSUME IInv, NEW c \in ConnId, TakeMsg(c)
  PROVE  /\ task[c].pc = "read"
         /\ conns' = conns /\ rx' = rx /\ next_conn' = next_conn
         /\ task' \in [ConnId -> Task]
         /\ \A d \in ConnId \ {c} : task'[d] = task[d]
         /\ task'[c].user = task[c].user
         /\ task'[c].pc \in {"read", "join", "signal", "broadcast"}
         /\ task'[c].pc \in {"join", "signal"} => task'[c].ch \in Channels
         /\ task'[c].pc = "signal" => task'[c].to \in Users
         /\ calls' \in [Channels -> SUBSET Users]
         /\ \/ calls' = calls
            \/ \E ch \in Channels :
                 calls' = [calls EXCEPT ![ch] = @ \ {task[c].user}]
<1> DEFINE t == task[c]
<1>1. /\ t \in Task /\ task \in [ConnId -> Task]
      /\ calls \in [Channels -> SUBSET Users]
  BY DEF IInv, HubTypeOK
<1> HIDE DEF t
<1>2. ASSUME NEW ch \in Channels, ReadJoin(c, ch)
      PROVE  /\ t.pc = "read" /\ calls' = calls
             /\ conns' = conns /\ rx' = rx /\ next_conn' = next_conn
             /\ \/ task' = task
                \/ task' = [task EXCEPT ![c] = [t EXCEPT !.pc = "join", !.ch = ch]]
  BY <1>2 DEF ReadJoin, t
<1>3. ASSUME NEW ch \in Channels, ReadLeave(c, ch)
      PROVE  /\ t.pc = "read"
             /\ conns' = conns /\ rx' = rx /\ next_conn' = next_conn
             /\ \/ task' = task /\ calls' = calls
                \/ /\ task' = [task EXCEPT ![c] =
                        [t EXCEPT !.pc = "broadcast", !.todo = {<<ch, calls[ch] \ {t.user}>>}]]
                   /\ calls' = [calls EXCEPT ![ch] = @ \ {t.user}]
  BY <1>1, <1>3 DEF ReadLeave, t
<1>4. ASSUME NEW ch \in Channels, NEW to \in Users, ReadSignal(c, ch, to)
      PROVE  /\ t.pc = "read" /\ calls' = calls
             /\ conns' = conns /\ rx' = rx /\ next_conn' = next_conn
             /\ task' = [task EXCEPT ![c] = [t EXCEPT !.pc = "signal", !.ch = ch, !.to = to]]
  BY <1>4 DEF ReadSignal, t
<1>5. CASE \E ch \in Channels : ReadJoin(c, ch)
  <2>1. PICK ch \in Channels : ReadJoin(c, ch)
    BY <1>5
  <2> DEFINE v == [t EXCEPT !.pc = "join", !.ch = ch]
  <2>2. v \in Task /\ v.pc = "join" /\ v.ch = ch /\ v.user = t.user
    BY <1>1 DEF Task, Pc
  <2>3. task' = task \/ task' = [task EXCEPT ![c] = v]
    BY <1>2, <2>1
  <2> HIDE DEF v
  <2>4. CASE task' = task
    BY <1>1, <1>2, <2>1, <2>4 DEF t
  <2>5. CASE task' = [task EXCEPT ![c] = v]
    BY <1>1, <1>2, <2>1, <2>2, <2>5, SetTask DEF t
  <2>6. QED
    BY <2>3, <2>4, <2>5
<1>6. CASE \E ch \in Channels : ReadLeave(c, ch)
  <2>1. PICK ch \in Channels : ReadLeave(c, ch)
    BY <1>6
  <2> DEFINE v == [t EXCEPT !.pc = "broadcast", !.todo = {<<ch, calls[ch] \ {t.user}>>}]
  <2>2. v \in Task /\ v.pc = "broadcast" /\ v.user = t.user
    <3>1. {<<ch, calls[ch] \ {t.user}>>} \in SUBSET (Channels \X SUBSET Users)
      BY <1>1
    <3>2. QED
      BY <1>1, <3>1 DEF Task, Pc
  <2>3. \/ task' = task /\ calls' = calls
        \/ task' = [task EXCEPT ![c] = v] /\ calls' = [calls EXCEPT ![ch] = @ \ {t.user}]
    BY <1>3, <2>1
  <2> HIDE DEF v
  <2>4. CASE task' = task /\ calls' = calls
    BY <1>1, <1>3, <2>1, <2>4 DEF t
  <2>5. CASE task' = [task EXCEPT ![c] = v] /\ calls' = [calls EXCEPT ![ch] = @ \ {t.user}]
    BY <1>1, <1>3, <2>1, <2>2, <2>5, SetTask DEF t
  <2>6. QED
    BY <2>3, <2>4, <2>5
<1>7. CASE \E ch \in Channels, to \in Users : ReadSignal(c, ch, to)
  <2>1. PICK ch \in Channels, to \in Users : ReadSignal(c, ch, to)
    BY <1>7
  <2> DEFINE v == [t EXCEPT !.pc = "signal", !.ch = ch, !.to = to]
  <2>2. v \in Task /\ v.pc = "signal" /\ v.ch = ch /\ v.to = to /\ v.user = t.user
    BY <1>1 DEF Task, Pc
  <2>3. task' = [task EXCEPT ![c] = v]
    BY <1>4, <2>1
  <2> HIDE DEF v
  <2>4. QED
    BY <1>1, <1>4, <2>1, <2>2, <2>3, SetTask DEF t
<1>8. QED
  BY <1>5, <1>6, <1>7 DEF TakeMsg

LEMMA TakeMsgInv ==
  ASSUME IInv, NEW c \in ConnId, TakeMsg(c)
  PROVE  IInv'
<1>1. /\ \A d \in ConnId \ {c} : task'[d] = task[d]
      /\ task[c].pc = "read" /\ task'[c].user = task[c].user
      /\ task'[c].pc \in {"read", "join", "signal", "broadcast"}
      /\ conns' = conns /\ next_conn' = next_conn
  BY TakeMsgStep
<1>2. HubTypeOK'
  BY <1>1, TakeMsgStep DEF IInv, HubTypeOK
<1>3. FreshIds'
  BY <1>1 DEF IInv, FreshIds
<1>4. ServedIsRegistered'
  BY <1>1 DEF IInv, ServedIsRegistered
<1>5. LocalsSet'
  BY <1>1, TakeMsgStep DEF IInv, LocalsSet
<1>6. NoGhostInRoster'
  <2>1. \A u : Leaving(u)' <=> Leaving(u)
    BY <1>1, LeavingFrame
  <2>2. \A ch \in Channels : calls'[ch] \subseteq calls[ch]
    <3>1. \/ calls' = calls
          \/ \E ch \in Channels : calls' = [calls EXCEPT ![ch] = @ \ {task[c].user}]
      BY TakeMsgStep
    <3>2. QED
      BY <3>1 DEF IInv, HubTypeOK
  <2>3. QED
    BY <1>1, <2>1, <2>2 DEF IInv, NoGhostInRoster
<1>7. QED
  BY <1>2, <1>3, <1>4, <1>5, <1>6 DEF IInv

(* unregister: the last connection to go starts leave_all. *)
AfterUnregister(c) ==
  IF conns[task[c].user] \ {c} = {} THEN "leave_all" ELSE "done"

LEMMA UnregisterStep ==
  ASSUME IInv, NEW c \in ConnId, Unregister(c)
  PROVE  /\ task[c].user \in Users /\ task[c].pc = "read"
         /\ conns' = [conns EXCEPT ![task[c].user] = @ \ {c}]
         /\ rx' = [rx EXCEPT ![c] = <<>>]
         /\ next_conn' = next_conn /\ calls' = calls
         /\ task' \in [ConnId -> Task]
         /\ \A d \in ConnId \ {c} : task'[d] = task[d]
         /\ task'[c].pc = AfterUnregister(c)
         /\ task'[c].user = task[c].user
<1> DEFINE v == [task[c] EXCEPT !.pc = AfterUnregister(c)]
<1>1. task[c] \in Task /\ task \in [ConnId -> Task]
  BY DEF IInv, HubTypeOK
<1>2. v \in Task /\ v.pc = AfterUnregister(c) /\ v.user = task[c].user
  BY <1>1 DEF Task, Pc, AfterUnregister
<1>3. task' = [task EXCEPT ![c] = v]
  BY DEF Unregister, AfterUnregister
<1>4. task[c].user \in Users /\ task[c].pc = "read"
  BY DEF Unregister, IInv, LocalsSet
<1>5. /\ conns' = [conns EXCEPT ![task[c].user] = @ \ {c}]
      /\ rx' = [rx EXCEPT ![c] = <<>>]
      /\ next_conn' = next_conn /\ calls' = calls
  BY DEF Unregister
<1> HIDE DEF v
<1>6. /\ task' \in [ConnId -> Task]
      /\ \A d \in ConnId \ {c} : task'[d] = task[d]
      /\ task'[c] = v
  BY <1>1, <1>2, <1>3, SetTask
<1>7. QED
  BY <1>2, <1>4, <1>5, <1>6

LEMMA UnregisterInv ==
  ASSUME IInv, NEW c \in ConnId, Unregister(c)
  PROVE  IInv'
<1> DEFINE u == task[c].user
<1>1. /\ u \in Users /\ task[c].pc = "read"
      /\ conns' = [conns EXCEPT ![u] = @ \ {c}]
      /\ rx' = [rx EXCEPT ![c] = <<>>]
      /\ next_conn' = next_conn /\ calls' = calls
      /\ task' \in [ConnId -> Task]
      /\ \A d \in ConnId \ {c} : task'[d] = task[d]
      /\ task'[c].user = u
      /\ task'[c].pc \in {"leave_all", "done"}
      /\ conns[u] \ {c} = {} => task'[c].pc = "leave_all"
  BY UnregisterStep DEF AfterUnregister
<1>2. conns \in [Users -> SUBSET ConnId] /\ rx \in [ConnId -> Seq(Event)]
  BY DEF IInv, HubTypeOK
<1> HIDE DEF u
<1>3. HubTypeOK'
  <2>1. rx' \in [ConnId -> Seq(Event)]
    BY <1>1, <1>2
  <2>2. QED
    BY <1>1, <1>2, <2>1 DEF IInv, HubTypeOK
<1>4. FreshIds'
  BY <1>1 DEF IInv, FreshIds
<1>5. ServedIsRegistered'
  BY <1>1, <1>2 DEF IInv, ServedIsRegistered
<1>6. LocalsSet'
  BY <1>1 DEF IInv, LocalsSet
<1>7. NoGhostInRoster'
  <2>1. \A w : Leaving(w) => Leaving(w)'
    BY <1>1 DEF Leaving
  <2>2. \A w : w = u /\ conns[u] \ {c} = {} => Leaving(w)'
    BY <1>1 DEF Leaving
  <2>3. ASSUME NEW ch \in Channels, NEW w \in calls[ch]
        PROVE  conns'[w] # {} \/ Leaving(w)'
    <3>1. w \in Users /\ (conns[w] # {} \/ Leaving(w))
      BY <2>3 DEF IInv, NoGhostInRoster, HubTypeOK
    <3>2. CASE w = u
      BY <1>1, <1>2, <2>1, <2>2, <3>1, <3>2
    <3>3. CASE w # u
      BY <1>1, <1>2, <2>1, <3>1, <3>3
    <3>4. QED
      BY <3>2, <3>3
  <2>4. QED
    BY <1>1, <2>3 DEF NoGhostInRoster
<1>8. QED
  BY <1>3, <1>4, <1>5, <1>6, <1>7 DEF IInv

LEMMA RestartInv ==
  ASSUME IInv, Restart
  PROVE  IInv'
<1>1. \A c \in ConnId :
        /\ task'[c] \in Task
        /\ task[c].pc = "off" => task'[c].pc = "off"
        /\ task[c].pc # "off" => task'[c].pc = "done" /\ task'[c].user = task[c].user
        /\ task'[c].pc \in {"off", "done"}
  BY AtType DEF IInv, HubTypeOK, LocalsSet, Restart, Pc
<1>2. HubTypeOK'
  BY <1>1 DEF IInv, HubTypeOK, Restart
<1>3. FreshIds' /\ ServedIsRegistered' /\ LocalsSet'
  BY <1>1 DEF IInv, FreshIds, ServedIsRegistered, LocalsSet, Restart
<1>4. NoGhostInRoster'
  BY DEF NoGhostInRoster, Restart
<1>5. QED
  BY <1>2, <1>3, <1>4 DEF IInv

LEMMA HubNextIsAny == [HubNext]_hubVars => [AnyStep]_hubVars
BY DEF HubNext, AnyStep, ReadMsg

LEMMA NextInv == IInv /\ [AnyStep]_hubVars => IInv'
<1> SUFFICES ASSUME IInv, [AnyStep]_hubVars PROVE IInv'
  OBVIOUS
<1>1. CASE \E u \in Users : Connect(u)
  BY <1>1, ConnectInv
<1>2. CASE \E c \in ConnId : TakeMsg(c)
  BY <1>2, TakeMsgInv
<1>3. CASE \E c \in ConnId : TaskStep(c)
  BY <1>3, TaskStepInv
<1>4. CASE \E c \in ConnId : Unregister(c)
  BY <1>4, UnregisterInv
<1>5. CASE \E c \in ConnId : Deliver(c)
  <2>1. HubTypeOK'
    BY <1>5 DEF IInv, HubTypeOK, Deliver
  <2>2. QED
    BY <1>5, <2>1 DEF IInv, Deliver, FreshIds, ServedIsRegistered, LocalsSet,
                      NoGhostInRoster, Leaving
<1>6. CASE Restart
  BY <1>6, RestartInv
<1>7. CASE UNCHANGED hubVars
  BY <1>7 DEF hubVars, IInv, HubTypeOK, FreshIds, ServedIsRegistered, LocalsSet,
              NoGhostInRoster, Leaving
<1>8. QED
  BY <1>1, <1>2, <1>3, <1>4, <1>5, <1>6, <1>7 DEF AnyStep

(* The inductive invariant holds of every behaviour of the hub. *)
LEMMA InvCorrect == HubSpec => []IInv
BY InitInv, HubNextIsAny, NextInv, PTL DEF HubSpec

-----------------------------------------------------------------------------
(* Every queue, roster and task stays within its type (ws.rs, struct Hub    *)
(* and the handler's locals).                                               *)
THEOREM HubTypeCorrect == HubSpec => []HubTypeOK
BY InvCorrect, PTL DEF IInv

(* A user in a roster (Hub::calls) has a live connection (Hub::conns), or   *)
(* the task of its last one is about to call leave_all.                     *)
THEOREM NoGhosts == HubSpec => []NoGhostInRoster
BY InvCorrect, PTL DEF IInv

-----------------------------------------------------------------------------
(* Refinement: each step of the hub is a step of CallRoster or a stutter.   *)

LEMMA RosterInit == HubInit => Rosters!Init
BY DEF HubInit, Rosters!Init, Online, Listed

LEMMA StutterStep ==
  ASSUME conns' = conns, calls' = calls, \A u : Leaving(u)' <=> Leaving(u)
  PROVE  UNCHANGED Rosters!vars
BY DEF Rosters!vars, Online, Listed

LEMMA ConnectRefines ==
  ASSUME IInv, NEW u \in Users, Connect(u)
  PROVE  Rosters!Connect(u)
<1> DEFINE n == next_conn + 1
<1>1. /\ n \in ConnId /\ n > next_conn
      /\ conns' = [conns EXCEPT ![u] = @ \cup {n}]
      /\ task' = [task EXCEPT ![n] = At("read", u)]
      /\ calls' = calls
      /\ conns \in [Users -> SUBSET ConnId] /\ task \in [ConnId -> Task]
  BY BoundsAreNat DEF IInv, HubTypeOK, Connect, ConnId
<1>2. At("read", u).pc = "read" /\ task[n].pc = "off"
  BY <1>1 DEF At, IInv, FreshIds
<1> HIDE DEF n
<1>3. \A v : Leaving(v)' <=> Leaving(v)
  BY <1>1, <1>2, LeavingFrame
<1>4. Online' = Online \cup {u}
  BY <1>1 DEF Online
<1>5. Listed' = Listed
  BY <1>1, <1>3 DEF Listed
<1>6. QED
  BY <1>4, <1>5 DEF Rosters!Connect

LEMMA TaskStepRefines ==
  ASSUME IInv, NEW c \in ConnId, TaskStep(c)
  PROVE  Rosters!Next \/ UNCHANGED Rosters!vars
<1> DEFINE u == task[c].user
           ch == task[c].ch
<1>1. /\ \A d \in ConnId \ {c} : task'[d] = task[d]
      /\ task'[c].user = u
      /\ conns' = conns /\ conns \in [Users -> SUBSET ConnId]
      /\ calls \in [Channels -> SUBSET Users]
  BY TaskStepType DEF IInv, HubTypeOK
<1>2. Online' = Online
  BY <1>1 DEF Online
<1>3. CASE /\ task[c].pc = "join" /\ task'[c].pc # "leave_all"
           /\ calls' = [calls EXCEPT ![ch] = @ \cup {u}]
  <2>1. \A v : Leaving(v)' <=> Leaving(v)
    BY <1>1, <1>3, LeavingFrame
  <2>2. u \in Online /\ u \in Users /\ ch \in Channels
    BY <1>3 DEF Online, IInv, ServedIsRegistered, LocalsSet
  <2> HIDE DEF u, ch
  <2>3. CASE Leaving(u)
    <3>1. Listed' = Listed
      BY <1>1, <1>3, <2>1, <2>3 DEF Listed
    <3>2. QED
      BY <1>2, <3>1 DEF Rosters!vars
  <2>4. CASE ~ Leaving(u)
    <3>1. Listed' = [Listed EXCEPT ![ch] = @ \cup {u}]
      BY <1>1, <1>3, <2>1, <2>2, <2>4 DEF Listed
    <3>2. Rosters!Join(u, ch)
      BY <1>2, <2>2, <3>1 DEF Rosters!Join
    <3>3. QED
      BY <2>2, <3>2 DEF Rosters!Next
  <2>5. QED
    BY <2>3, <2>4
<1>4. CASE /\ task[c].pc = "leave_all" /\ task'[c].pc # "leave_all"
           /\ calls' = [d \in Channels |-> calls[d] \ {u}]
  <2>1. \A v : v # u => (Leaving(v)' <=> Leaving(v))
    BY <1>1, <1>4 DEF Leaving
  <2>2. Leaving(u)
    BY <1>4 DEF Leaving
  <2> HIDE DEF u
  <2>3. Listed' = Listed
    BY <1>1, <1>4, <2>1, <2>2 DEF Listed
  <2>4. QED
    BY <1>2, <2>3 DEF Rosters!vars
<1>5. CASE /\ task[c].pc # "leave_all" /\ task'[c].pc # "leave_all"
           /\ calls' = calls
  BY <1>1, <1>5, LeavingFrame, StutterStep
<1>6. QED
  BY <1>3, <1>4, <1>5, TaskStepRosters DEF IInv

LEMMA TakeMsgRefines ==
  ASSUME IInv, NEW c \in ConnId, TakeMsg(c)
  PROVE  Rosters!Next \/ UNCHANGED Rosters!vars
<1> DEFINE u == task[c].user
<1>1. /\ \A d \in ConnId \ {c} : task'[d] = task[d]
      /\ task[c].pc # "leave_all" /\ task'[c].pc # "leave_all"
      /\ conns' = conns /\ calls \in [Channels -> SUBSET Users]
      /\ \/ calls' = calls
         \/ \E ch \in Channels : calls' = [calls EXCEPT ![ch] = @ \ {u}]
  BY TakeMsgStep DEF IInv, HubTypeOK
<1>2. u \in Users
  BY TakeMsgStep DEF IInv, ServedIsRegistered
<1>3. \A v : Leaving(v)' <=> Leaving(v)
  BY <1>1, LeavingFrame
<1> HIDE DEF u
<1>4. CASE calls' = calls
  BY <1>1, <1>3, <1>4, StutterStep
<1>5. ASSUME NEW ch \in Channels, calls' = [calls EXCEPT ![ch] = @ \ {u}]
      PROVE  Rosters!Leave(u, ch)
  <2>1. Listed' = [Listed EXCEPT ![ch] = @ \ {u}]
    BY <1>1, <1>3, <1>5 DEF Listed
  <2>2. Online' = Online
    BY <1>1 DEF Online
  <2>3. QED
    BY <2>1, <2>2 DEF Rosters!Leave
<1>6. QED
  BY <1>1, <1>2, <1>4, <1>5 DEF Rosters!Next

LEMMA UnregisterRefines ==
  ASSUME IInv, NEW c \in ConnId, Unregister(c)
  PROVE  Rosters!Next \/ UNCHANGED Rosters!vars
<1> DEFINE u == task[c].user
<1>1. /\ u \in Users /\ task[c].pc = "read"
      /\ conns' = [conns EXCEPT ![u] = @ \ {c}]
      /\ calls' = calls
      /\ \A d \in ConnId \ {c} : task'[d] = task[d]
      /\ task'[c].user = u
      /\ task'[c].pc = IF conns[u] \ {c} = {} THEN "leave_all" ELSE "done"
      /\ conns \in [Users -> SUBSET ConnId] /\ calls \in [Channels -> SUBSET Users]
  BY UnregisterStep DEF AfterUnregister, IInv, HubTypeOK
<1>2. c \in conns[u]
  BY <1>1 DEF IInv, ServedIsRegistered
<1> HIDE DEF u
<1>3. CASE conns[u] \ {c} = {}
  <2>1. \A v : Leaving(v)' <=> (Leaving(v) \/ v = u)
    BY <1>1, <1>3 DEF Leaving
  <2>2. Online' = Online \ {u}
    BY <1>1, <1>3 DEF Online
  <2>3. Listed' = [ch \in Channels |-> Listed[ch] \ {u}]
    BY <1>1, <2>1 DEF Listed
  <2>4. Rosters!Disconnect(u)
    BY <2>2, <2>3 DEF Rosters!Disconnect
  <2>5. QED
    BY <1>1, <2>4 DEF Rosters!Next
<1>4. CASE conns[u] \ {c} # {}
  <2>1. \A v : Leaving(v)' <=> Leaving(v)
    BY <1>1, <1>4, LeavingFrame
  <2>2. Online' = Online
    BY <1>1, <1>4 DEF Online
  <2>3. Listed' = Listed
    BY <1>1, <2>1 DEF Listed
  <2>4. QED
    BY <2>2, <2>3 DEF Rosters!vars
<1>5. QED
  BY <1>3, <1>4

LEMMA RosterStep == IInv /\ [AnyStep]_hubVars => [Rosters!Next]_(Rosters!vars)
<1> SUFFICES ASSUME IInv, [AnyStep]_hubVars
             PROVE  Rosters!Next \/ UNCHANGED Rosters!vars
  OBVIOUS
<1>1. CASE \E u \in Users : Connect(u)
  BY <1>1, ConnectRefines DEF Rosters!Next
<1>2. CASE \E c \in ConnId : TakeMsg(c)
  BY <1>2, TakeMsgRefines
<1>3. CASE \E c \in ConnId : TaskStep(c)
  BY <1>3, TaskStepRefines
<1>4. CASE \E c \in ConnId : Unregister(c)
  BY <1>4, UnregisterRefines
<1>5. CASE \E c \in ConnId : Deliver(c)
  BY <1>5, StutterStep DEF Deliver, Leaving
<1>6. CASE Restart
  <2>1. Online' = {} /\ Listed' = [ch \in Channels |-> {}]
    BY <1>6 DEF Restart, Online, Listed
  <2>2. QED
    BY <2>1 DEF Rosters!Next, Rosters!Restart
<1>7. CASE UNCHANGED hubVars
  BY <1>7, StutterStep DEF hubVars, Leaving
<1>8. QED
  BY <1>1, <1>2, <1>3, <1>4, <1>5, <1>6, <1>7 DEF AnyStep

(* With a user whose leave_all is pending counted as gone, the hub's        *)
(* several critical sections per operation implement the one-step rosters.  *)
THEOREM HubImplementsRosters == HubSpec => ImplementsRosters
<1>1. HubSpec => []IInv
  BY InvCorrect
<1>2. QED
  BY <1>1, RosterInit, HubNextIsAny, RosterStep, PTL DEF HubSpec, ImplementsRosters, Rosters!Spec

=============================================================================
