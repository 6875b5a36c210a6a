---------------------------- MODULE CallsProofs ----------------------------
(***************************************************************************)
(* For any users, channels and members, and any number of connections,     *)
(* calls and signals: clients and hub are well typed, the hub keeps what   *)
(* it promises with these clients on it, its rosters are the callers, and  *)
(* the mesh is the roster.                                                 *)
(***************************************************************************)
EXTENDS Calls, HubProofs, SequenceTheorems

(* The client's socket is open, and nothing has broken it. *)
Live(u) == link[u] # 0 /\ link[u] \notin broken

ClientTypeOK ==
  /\ link \in [Users -> ConnId \cup {0}]
  /\ up \in [ConnId -> Seq(ClientMsg)]
  /\ broken \subseteq ConnId
  /\ incall \in [Users -> Channels \cup {Nil}]
  /\ view \in [Users -> SUBSET Users]
  /\ peers \in [Users -> SUBSET Users]
  /\ races \subseteq Race
  /\ joins \in 0 .. MaxJoins
  /\ signals \in 0 .. MaxSignals

(* Ids not handed out yet are nobody's, and carry nothing. *)
FreshIdsUnused ==
  \A c \in ConnId : c > next_conn => task[c].user = Nil /\ up[c] = <<>> /\ c \notin broken

BrokenWereServed == \A c \in broken : task[c].pc # "off"

(* The server serves what the client believes open, until it breaks. *)
LiveIsServed ==
  \A u \in Users : Live(u) =>
    /\ task[link[u]].user = u /\ link[u] \in conns[u]
    /\ task[link[u]].pc \notin {"off", "leave_all", "done"}

(* A client has its newest connection open, if any. *)
LinkIsNewest ==
  \A u \in Users : link[u] # 0 =>
    link[u] <= next_conn /\ \A c \in ConnId : task[c].user = u => c <= link[u]

CallersAreMembers == \A u \in Users : incall[u] # Nil => <<u, incall[u]>> \in Member

IdleHasNobody == \A u \in Users : incall[u] = Nil => view[u] = {} /\ peers[u] = {}

Base ==
  /\ IInv /\ ClientTypeOK
  /\ FreshIdsUnused /\ BrokenWereServed /\ LiveIsServed /\ LinkIsNewest
  /\ CallersAreMembers /\ IdleHasNobody

-----------------------------------------------------------------------------
(* What single steps do. *)

LEMMA TypesGive ==
  ASSUME Base
  PROVE  /\ HubTypeOK /\ IInv /\ ClientTypeOK
         /\ next_conn \in Nat /\ next_conn \in 0 .. MaxConns
         /\ conns \in [Users -> SUBSET ConnId] /\ calls \in [Channels -> SUBSET Users]
         /\ rx \in [ConnId -> Seq(Event)] /\ task \in [ConnId -> Task]
         /\ ConnId \subseteq Nat \ {0} /\ 0 \notin ConnId
         /\ \A u \in Users : u # Nil
         /\ \A ch \in Channels : ch # Nil
BY BoundsAreNat, NilIsNew DEF Base, IInv, HubTypeOK, ConnId

LEMMA MessageTypes ==
  ASSUME NEW ch \in Channels
  PROVE  /\ ChannelMsg("call_join", ch) \in ClientMsg
         /\ ChannelMsg("call_leave", ch) \in ClientMsg
         /\ \A v \in Users : [type |-> "signal", channel |-> ch, to |-> v] \in ClientMsg
BY DEF ChannelMsg, ClientMsg

LEMMA SentTypes ==
  ASSUME Base, NEW u \in Users, NEW m \in ClientMsg
  PROVE  /\ Sent(u, m) \in [ConnId -> Seq(ClientMsg)]
         /\ \A c \in ConnId : Sent(u, m)[c] = up[c] \/ (c = link[u] /\ Live(u))
         /\ Live(u) => link[u] \in ConnId /\ Sent(u, m)[link[u]] = Append(up[link[u]], m)
         /\ ~ Live(u) => Sent(u, m) = up
<1>1. up \in [ConnId -> Seq(ClientMsg)] /\ link[u] \in ConnId \cup {0} /\ 0 \notin ConnId
  BY TypesGive DEF ClientTypeOK
<1>2. CASE ~ Live(u)
  BY <1>1, <1>2 DEF Sent, Live
<1>3. CASE Live(u)
  <2>1. Sent(u, m) = [up EXCEPT ![link[u]] = Append(@, m)] /\ link[u] \in ConnId
    BY <1>1, <1>3 DEF Sent, Live
  <2>2. Append(up[link[u]], m) \in Seq(ClientMsg)
    BY <1>1, <2>1
  <2>3. QED
    BY <1>1, <1>3, <2>1, <2>2
<1>4. QED
  BY <1>2, <1>3

(* The server reads one of the messages. *)
LEMMA ServerReadStep ==
  ASSUME Base, NEW c \in ConnId, ServerRead(c)
  PROVE  /\ up[c] # <<>> /\ Head(up[c]) \in ClientMsg /\ TakeMsg(c)
         /\ up' = [up EXCEPT ![c] = Tail(@)]
         /\ Tail(up[c]) \in Seq(ClientMsg)
         /\ \/ Head(up[c]).type = "call_join" /\ ReadJoin(c, Head(up[c]).channel)
            \/ Head(up[c]).type = "call_leave" /\ ReadLeave(c, Head(up[c]).channel)
            \/ Head(up[c]).type = "signal" /\ ReadSignal(c, Head(up[c]).channel, Head(up[c]).to)
<1> DEFINE m == Head(up[c])
<1>1. up[c] \in Seq(ClientMsg) /\ up[c] # <<>>
  BY TypesGive DEF ClientTypeOK, ServerRead
<1>2. m \in ClientMsg /\ Tail(up[c]) \in Seq(ClientMsg)
  BY <1>1
<1> HIDE DEF m
<1>3. \/ m.type = "call_join" /\ ReadJoin(c, m.channel)
      \/ m.type = "call_leave" /\ ReadLeave(c, m.channel)
      \/ m.type = "signal" /\ ReadSignal(c, m.channel, m.to)
  BY DEF ServerRead, m
<1>4. m.channel \in Channels /\ (m.type = "signal" => m.to \in Users)
  BY <1>2 DEF ClientMsg
<1>5. TakeMsg(c)
  BY <1>3, <1>4 DEF TakeMsg
<1>6. QED
  BY <1>1, <1>2, <1>3, <1>5 DEF ServerRead, m

(* With the clients on it, the hub does what it does for any clients. *)
LEMMA NextIsHub ==
  ASSUME Base, [Next]_vars
  PROVE  [AnyStep]_hubVars
<1>1. ASSUME NEW u \in Users, SocketOpen(u) \/ Receive(u)
      PROVE  AnyStep
  BY <1>1, TypesGive DEF SocketOpen, Receive, AnyStep, ClientTypeOK
<1>2. ASSUME NEW c \in ConnId, ServerRead(c)
      PROVE  AnyStep
  BY <1>2, ServerReadStep DEF AnyStep
<1>3. ASSUME NEW c \in ConnId, ServerStep(c) \/ ServerNotices(c)
      PROVE  AnyStep
  BY <1>3 DEF ServerStep, ServerNotices, AnyStep
<1>4. ServerRestart => AnyStep
  BY DEF ServerRestart, AnyStep
<1>5. QED
  BY <1>1, <1>2, <1>3, <1>4
     DEF Next, Client, System, vars, SocketClose, Leave, Join, SendSignal, Break

LEMMA ConnectStep ==
  ASSUME Base, NEW u \in Users, Connect(u)
  PROVE  /\ next_conn' \in ConnId /\ next_conn' = next_conn + 1 /\ calls' = calls /\ rx' = rx
         /\ conns' = [conns EXCEPT ![u] = @ \cup {next_conn'}]
         /\ \A c \in ConnId \ {next_conn'} : task'[c] = task[c]
         /\ task'[next_conn'].user = u /\ task'[next_conn'].pc = "read"
<1>1. next_conn' = next_conn + 1 /\ next_conn < MaxConns /\ next_conn \in Nat /\ MaxConns \in Nat
  BY TypesGive, BoundsAreNat DEF Connect
<1>2. next_conn' \in ConnId
  BY <1>1 DEF ConnId
<1>3. QED
  BY <1>1, <1>2, TypesGive DEF Connect, At

(* Only a new connection gets a user. *)
LEMMA OwnersKept ==
  ASSUME Base, [Next]_vars, \A u \in Users : ~ SocketOpen(u)
  PROVE  /\ next_conn' = next_conn
         /\ \A c \in ConnId : task'[c].user = task[c].user /\ (task'[c].pc = "off" <=> task[c].pc = "off")
<1> DEFINE Goal == /\ next_conn' = next_conn
                   /\ \A c \in ConnId : /\ task'[c].user = task[c].user
                                        /\ task'[c].pc = "off" <=> task[c].pc = "off"
<1>1. ASSUME NEW c \in ConnId, ServerRead(c)
      PROVE  Goal
  <2>1. TakeMsg(c) /\ IInv
    BY <1>1, ServerReadStep, TypesGive
  <2>2. QED
    BY <2>1, TakeMsgStep
<1>2. ASSUME NEW c \in ConnId, ServerStep(c)
      PROVE  Goal
  <2>1. task[c].pc # "off"
    BY <1>2 DEF ServerStep, TaskStep, CallJoin, SendJoinRoster, SendPeerJoined, SignalCheck,
                SignalRelay, LeaveAll, BroadcastLeft, BroadcastRoster
  <2>2. QED
    BY <1>2, <2>1, TaskStepType, TypesGive DEF ServerStep, IInv
<1>3. ASSUME NEW c \in ConnId, ServerNotices(c)
      PROVE  Goal
  <2>1. Unregister(c) /\ IInv
    BY <1>3, TypesGive DEF ServerNotices
  <2>2. QED
    BY <2>1, UnregisterStep DEF AfterUnregister
<1>4. CASE ServerRestart
  <2>1. Restart /\ IInv
    BY <1>4, TypesGive DEF ServerRestart
  <2>2. \A c \in ConnId : task'[c] = IF task[c].pc = "off" THEN task[c] ELSE At("done", task[c].user)
    BY <2>1 DEF Restart
  <2>3. QED
    BY <2>1, <2>2 DEF Restart, At
<1>5. CASE UNCHANGED <<next_conn, task>>
  BY <1>5
<1>6. QED
  BY <1>1, <1>2, <1>3, <1>4, <1>5
     DEF Next, Client, System, vars, hubVars, SocketClose, Leave, Join, SendSignal, Break, Receive, Deliver

(* handleEvent, by the type of the event. *)
LEMMA HandleStep ==
  ASSUME Base, NEW u \in Users, Receive(u), NEW ev, ev = Head(rx[link[u]])
  PROVE  /\ ev \in Event /\ link[u] \in ConnId /\ Live(u) /\ rx[link[u]] # <<>>
         /\ \/ ev.channel # incall[u] /\ UNCHANGED <<view, peers>>
            \/ /\ ev.channel = incall[u] /\ ev.type = "call_roster"
               /\ ev.participants \in SUBSET Users
               /\ view' = [view EXCEPT ![u] = ev.participants]
               /\ peers' = [peers EXCEPT ![u] = ev.participants \ {u}]
            \/ /\ ev.channel = incall[u] /\ ev.type = "call_peer_left"
               /\ view' = view /\ peers' = [peers EXCEPT ![u] = @ \ {ev.user}]
            \/ /\ ev.channel = incall[u] /\ ev.type = "signal" /\ ev.user \in Users
               /\ view' = view /\ peers' = [peers EXCEPT ![u] = @ \cup {ev.user}]
            \/ /\ ev.channel = incall[u] /\ ev.type = "call_peer_joined"
               /\ UNCHANGED <<view, peers>>
<1>1. /\ link[u] \in ConnId /\ Live(u) /\ rx[link[u]] # <<>> /\ rx[link[u]] \in Seq(Event)
      /\ HandleEvent(u, ev)
  BY TypesGive DEF Receive, Live, Deliver, ClientTypeOK
<1>2. ev \in Event
  BY <1>1
<1>3. /\ ev.type \in {"call_roster", "call_peer_joined", "call_peer_left", "signal"}
      /\ ev.type = "call_roster" => ev.participants \in SUBSET Users
      /\ ev.type # "call_roster" => ev.user \in Users
  BY <1>2 DEF Event
<1>4. CASE ev.channel # incall[u]
  BY <1>1, <1>2, <1>4 DEF HandleEvent
<1>5. CASE ev.channel = incall[u] /\ ev.type = "call_roster"
  BY <1>1, <1>2, <1>3, <1>5 DEF HandleEvent
<1>6. CASE ev.channel = incall[u] /\ ev.type = "call_peer_left"
  BY <1>1, <1>2, <1>3, <1>6 DEF HandleEvent
<1>7. CASE ev.channel = incall[u] /\ ev.type = "signal"
  BY <1>1, <1>2, <1>3, <1>7 DEF HandleEvent
<1>8. CASE ev.channel = incall[u] /\ ev.type = "call_peer_joined"
  BY <1>1, <1>2, <1>3, <1>8 DEF HandleEvent
<1>9. QED
  BY <1>3, <1>4, <1>5, <1>6, <1>7, <1>8

(* A connection breaks with a prefix of what it carries. *)
LEMMA BreakStep ==
  ASSUME Base, NEW c \in ConnId, Break(c)
  PROVE  /\ broken' = broken \cup {c} /\ task[c].pc \notin {"off", "done"} /\ c \notin broken
         /\ \E n \in 0 .. Len(up[c]) :
              /\ up' = [up EXCEPT ![c] = SubSeq(@, 1, n)]
              /\ up'[c] \in Seq(ClientMsg) /\ Len(up'[c]) = n
              /\ \A k \in 1 .. n : up'[c][k] = up[c][k]
<1>1. PICK n \in 0 .. Len(up[c]) : up' = [up EXCEPT ![c] = SubSeq(@, 1, n)]
  BY DEF Break
<1>2. up \in [ConnId -> Seq(ClientMsg)] /\ up[c] \in Seq(ClientMsg)
  BY TypesGive DEF ClientTypeOK
<1>3. PICK q \in Seq(ClientMsg) : q = up[c]
  BY <1>2
<1>4. /\ SubSeq(q, 1, n) \in Seq(ClientMsg) /\ Len(SubSeq(q, 1, n)) = n
      /\ \A k \in 1 .. n : SubSeq(q, 1, n)[k] = q[k]
  <2>1. Len(q) \in Nat /\ n \in Nat /\ n <= Len(q) /\ DOMAIN q = 1 .. Len(q)
    BY <1>1, <1>3
  <2>2. \A i \in 1 .. n : q[i] \in ClientMsg
    BY <2>1
  <2>3. SubSeq(q, 1, n) = [i \in 1 .. n |-> q[i]]
    BY <2>1
  <2>4. QED
    BY <2>1, <2>2, <2>3
<1>5. up'[c] = SubSeq(q, 1, n)
  BY <1>1, <1>2, <1>3
<1>6. QED
  BY <1>1, <1>3, <1>4, <1>5 DEF Break

LEMMA UpTypeStep ==
  ASSUME Base, [Next]_vars
  PROVE  up' \in [ConnId -> Seq(ClientMsg)]
<1>1. up \in [ConnId -> Seq(ClientMsg)] /\ incall \in [Users -> Channels \cup {Nil}]
  BY TypesGive DEF ClientTypeOK
<1>2. ASSUME NEW u \in Users, SocketOpen(u)
      PROVE  up' \in [ConnId -> Seq(ClientMsg)]
  <2>1. next_conn' \in ConnId
    BY <1>2, ConnectStep DEF SocketOpen
  <2>2. incall[u] # Nil => <<ChannelMsg("call_join", incall[u])>> \in Seq(ClientMsg)
    BY <1>1, MessageTypes
  <2>3. QED
    BY <1>1, <1>2, <2>1, <2>2 DEF SocketOpen
<1>3. ASSUME NEW u \in Users, NEW ch \in Channels, Join(u, ch)
      PROVE  up' \in [ConnId -> Seq(ClientMsg)]
  BY <1>3, MessageTypes, SentTypes DEF Join
<1>4. ASSUME NEW u \in Users, Leave(u)
      PROVE  up' \in [ConnId -> Seq(ClientMsg)]
  <2>1. incall[u] \in Channels
    BY <1>1, <1>4 DEF Leave
  <2>2. QED
    BY <1>4, <2>1, MessageTypes, SentTypes DEF Leave
<1>5. ASSUME NEW u \in Users, NEW v \in Users, SendSignal(u, v)
      PROVE  up' \in [ConnId -> Seq(ClientMsg)]
  <2>1. incall[u] \in Channels
    BY <1>1, <1>5 DEF SendSignal, Base, IdleHasNobody
  <2>2. QED
    BY <1>5, <2>1, MessageTypes, SentTypes DEF SendSignal
<1>6. ASSUME NEW c \in ConnId, Break(c)
      PROVE  up' \in [ConnId -> Seq(ClientMsg)]
  BY <1>1, <1>6, BreakStep
<1>7. ASSUME NEW c \in ConnId, ServerRead(c)
      PROVE  up' \in [ConnId -> Seq(ClientMsg)]
  BY <1>1, <1>7, ServerReadStep
<1>8. ServerRestart => up' \in [ConnId -> Seq(ClientMsg)]
  BY DEF ServerRestart
<1>9. QED
  BY <1>1, <1>2, <1>3, <1>4, <1>5, <1>6, <1>7, <1>8
     DEF Next, Client, System, vars, clientVars, SocketClose, Receive, ServerStep, ServerNotices

LEMMA ViewTypesStep ==
  ASSUME Base, [Next]_vars
  PROVE  view' \in [Users -> SUBSET Users] /\ peers' \in [Users -> SUBSET Users] /\ IdleHasNobody'
<1>1. /\ view \in [Users -> SUBSET Users] /\ peers \in [Users -> SUBSET Users] /\ IdleHasNobody
      /\ incall \in [Users -> Channels \cup {Nil}]
  BY TypesGive DEF ClientTypeOK, Base
<1>2. ASSUME NEW u \in Users, Receive(u)
      PROVE  view' \in [Users -> SUBSET Users] /\ peers' \in [Users -> SUBSET Users] /\ IdleHasNobody'
  <2>1. PICK ev : ev = Head(rx[link[u]])
    OBVIOUS
  <2>2. ev.channel \in Channels /\ incall' = incall
    BY <1>2, <2>1, HandleStep DEF Event, Receive
  <2>3. QED
    BY <1>1, <1>2, <2>1, <2>2, TypesGive, HandleStep DEF IdleHasNobody
<1>3. ASSUME NEW u \in Users, Leave(u)
      PROVE  view' \in [Users -> SUBSET Users] /\ peers' \in [Users -> SUBSET Users] /\ IdleHasNobody'
  BY <1>1, <1>3 DEF Leave, IdleHasNobody
<1>4. ASSUME NEW u \in Users, NEW ch \in Channels, Join(u, ch)
      PROVE  view' \in [Users -> SUBSET Users] /\ peers' \in [Users -> SUBSET Users] /\ IdleHasNobody'
  BY <1>1, <1>4 DEF Join, IdleHasNobody
<1>5. CASE UNCHANGED <<view, peers, incall>>
  BY <1>1, <1>5 DEF IdleHasNobody
<1>6. QED
  BY <1>2, <1>3, <1>4, <1>5
     DEF Next, Client, System, vars, clientVars, SocketOpen, SocketClose, SendSignal, Break, ServerRead,
         ServerStep, ServerNotices, ServerRestart

LEMMA ClientTypesStep ==
  ASSUME Base, [Next]_vars
  PROVE  ClientTypeOK'
<1>1. ClientTypeOK /\ joins \in Nat /\ signals \in Nat /\ MaxJoins \in Nat /\ MaxSignals \in Nat
  BY TypesGive, ClientBoundsAreNat DEF ClientTypeOK
<1>2. link' \in [Users -> ConnId \cup {0}]
  <2>1. ASSUME NEW u \in Users, SocketOpen(u)
        PROVE  link' \in [Users -> ConnId \cup {0}]
    <3>1. next_conn' \in ConnId
      BY <2>1, ConnectStep DEF SocketOpen
    <3>2. QED
      BY <1>1, <2>1, <3>1 DEF SocketOpen, ClientTypeOK
  <2>2. ASSUME NEW u \in Users, SocketClose(u)
        PROVE  link' \in [Users -> ConnId \cup {0}]
    BY <1>1, <2>2 DEF SocketClose, ClientTypeOK
  <2>3. CASE link' = link
    BY <1>1, <2>3 DEF ClientTypeOK
  <2>4. QED
    BY <2>1, <2>2, <2>3
       DEF Next, Client, System, vars, clientVars, Receive, Leave, Join, SendSignal, Break, ServerRead,
           ServerStep, ServerNotices, ServerRestart
<1>3. broken' \subseteq ConnId
  BY <1>1 DEF Next, Client, System, vars, clientVars, SocketOpen, SocketClose, Receive, Leave, Join,
              SendSignal, Break, ServerRead, ServerStep, ServerNotices, ServerRestart, ClientTypeOK
<1>4. incall' \in [Users -> Channels \cup {Nil}]
  BY <1>1 DEF Next, Client, System, vars, clientVars, SocketOpen, SocketClose, Receive, Leave, Join,
              SendSignal, Break, ServerRead, ServerStep, ServerNotices, ServerRestart, ClientTypeOK
<1>5. races' \subseteq Race
  <2>1. RacesOf \subseteq Race
    BY DEF RacesOf, Race
  <2>2. QED
    BY <1>1, <2>1 DEF Next, vars, ClientTypeOK
<1>6. joins' \in 0 .. MaxJoins /\ signals' \in 0 .. MaxSignals
  <2>1. ASSUME NEW u \in Users, NEW ch \in Channels, Join(u, ch)
        PROVE  joins + 1 \in 0 .. MaxJoins
    BY <1>1, <2>1 DEF Join
  <2>2. ASSUME NEW u \in Users, NEW v \in Users, SendSignal(u, v)
        PROVE  signals + 1 \in 0 .. MaxSignals
    BY <1>1, <2>2 DEF SendSignal
  <2>3. QED
    BY <1>1, <2>1, <2>2 DEF Next, Client, vars, ClientTypeOK
<1>7. QED
  BY <1>2, <1>3, <1>4, <1>5, <1>6, UpTypeStep, ViewTypesStep DEF ClientTypeOK

LEMMA OpenedIsFresh ==
  ASSUME Base, NEW u \in Users, SocketOpen(u)
  PROVE  /\ next_conn' \in ConnId /\ next_conn' > next_conn /\ next_conn' \notin broken
         /\ task[next_conn'].pc = "off" /\ task[next_conn'].user = Nil /\ up[next_conn'] = <<>>
<1>1. next_conn' \in ConnId /\ next_conn' > next_conn
  BY ConnectStep, TypesGive DEF SocketOpen
<1>2. QED
  BY <1>1 DEF Base, IInv, FreshIds, FreshIdsUnused

-----------------------------------------------------------------------------
(* How each critical section leaves its task. *)

LEMMA CallJoinMoves ==
  ASSUME Base, NEW c \in ConnId, CallJoin(c)
  PROVE  /\ task[c].pc = "join" /\ task[c].ch \in Channels
         /\ task'[c].pc = "roster" /\ task'[c].ch = task[c].ch
         /\ task'[c].roster = calls[task[c].ch] \cup {task[c].user}
         /\ calls' = [calls EXCEPT ![task[c].ch] = @ \cup {task[c].user}] /\ rx' = rx
<1> DEFINE t == task[c]
<1>1. /\ t \in Task /\ task \in [ConnId -> Task] /\ calls \in [Channels -> SUBSET Users]
      /\ t.pc = "join" /\ t.ch \in Channels
  BY TypesGive DEF IInv, LocalsSet, CallJoin
<1>2. /\ task' = [task EXCEPT ![c] = [t EXCEPT !.pc = "roster", !.roster = calls[t.ch] \cup {t.user}]]
      /\ calls' = [calls EXCEPT ![t.ch] = @ \cup {t.user}] /\ rx' = rx
  BY <1>1 DEF CallJoin
<1> HIDE DEF t
<1>3. task'[c] = [t EXCEPT !.pc = "roster", !.roster = calls[t.ch] \cup {t.user}]
  BY <1>1, <1>2
<1>4. task'[c].pc = "roster" /\ task'[c].ch = t.ch /\ task'[c].roster = calls[t.ch] \cup {t.user}
  BY <1>1, <1>3 DEF Task
<1>5. QED
  BY <1>1, <1>2, <1>4 DEF t

LEMMA SendJoinRosterMoves ==
  ASSUME Base, NEW c \in ConnId, SendJoinRoster(c)
  PROVE  /\ task[c].pc = "roster" /\ task[c].ch \in Channels /\ task[c].roster \in SUBSET Users
         /\ task'[c].pc = "peer_joined" /\ calls' = calls
         /\ send_many(task[c].roster, RosterEvent(task[c].ch, task[c].roster))
BY TypesGive DEF SendJoinRoster, IInv, LocalsSet, Task

LEMMA SendPeerJoinedMoves ==
  ASSUME Base, NEW c \in ConnId, SendPeerJoined(c)
  PROVE  /\ task[c].pc = "peer_joined" /\ task[c].ch \in Channels /\ task[c].user \in Users
         /\ task'[c].pc = "read" /\ calls' = calls
         /\ send_many(task[c].roster \ {task[c].user},
                      UserEvent("call_peer_joined", task[c].ch, task[c].user))
BY TypesGive DEF SendPeerJoined, IInv, LocalsSet, Task, At

LEMMA SignalCheckMoves ==
  ASSUME Base, NEW c \in ConnId, SignalCheck(c)
  PROVE  /\ task[c].pc = "signal" /\ task'[c].pc \in {"signal", "read"}
         /\ task'[c].pc = "signal" => task'[c].ch = task[c].ch /\ task'[c].to = task[c].to
         /\ calls' = calls /\ rx' = rx
<1> DEFINE t == task[c]
           ok == [t EXCEPT !.checks = @ + 1]
<1>1. t \in Task /\ task \in [ConnId -> Task] /\ t.pc = "signal"
  BY TypesGive DEF SignalCheck
<1>2. ok.pc = "signal" /\ ok.ch = t.ch /\ ok.to = t.to
  BY <1>1 DEF Task
<1>3. task'[c] = ok \/ task'[c] = At("read", t.user)
  BY <1>1 DEF SignalCheck
<1> HIDE DEF t, ok
<1>4. task'[c].pc = "read" \/ task'[c] = ok
  BY <1>3 DEF At
<1>5. QED
  BY <1>1, <1>2, <1>4 DEF SignalCheck, t

LEMMA SignalRelayMoves ==
  ASSUME Base, NEW c \in ConnId, SignalRelay(c)
  PROVE  /\ task[c].pc = "signal" /\ task[c].checks = 4 /\ task[c].ch \in Channels
         /\ task[c].to \in Users /\ task[c].user \in Users
         /\ task'[c].pc = "read" /\ calls' = calls
         /\ send_many({task[c].to}, UserEvent("signal", task[c].ch, task[c].user))
BY TypesGive DEF SignalRelay, IInv, LocalsSet, At

LEMMA LeaveAllMoves ==
  ASSUME Base, NEW c \in ConnId, LeaveAll(c)
  PROVE  LET in == {ch \in Channels : task[c].user \in calls[ch]}
         IN /\ task[c].pc = "leave_all" /\ task'[c].pc = IF in = {} THEN "done" ELSE "broadcast"
            /\ task'[c].todo = {<<ch, calls[ch] \ {task[c].user}>> : ch \in in}
            /\ calls' = [ch \in Channels |-> calls[ch] \ {task[c].user}] /\ rx' = rx
<1> DEFINE t == task[c]
           in == {ch \in Channels : t.user \in calls[ch]}
           out == {<<ch, calls[ch] \ {t.user}>> : ch \in in}
           pc == IF in = {} THEN "done" ELSE "broadcast"
<1>1. t \in Task /\ task \in [ConnId -> Task] /\ t.pc = "leave_all"
  BY TypesGive DEF LeaveAll
<1>2. /\ task' = [task EXCEPT ![c] = [t EXCEPT !.pc = pc, !.todo = out]]
      /\ calls' = [ch \in Channels |-> calls[ch] \ {t.user}] /\ rx' = rx
  BY <1>1 DEF LeaveAll
<1> HIDE DEF t, in, out, pc
<1>3. task'[c] = [t EXCEPT !.pc = pc, !.todo = out]
  BY <1>1, <1>2
<1>4. task'[c].pc = pc /\ task'[c].todo = out
  BY <1>1, <1>3 DEF Task
<1>5. QED
  BY <1>1, <1>2, <1>4 DEF t, in, out, pc

LEMMA BroadcastLeftMoves ==
  ASSUME Base, NEW c \in ConnId, BroadcastLeft(c)
  PROVE  \E p \in task[c].todo :
           /\ task[c].pc = "broadcast" /\ task[c].user \in Users
           /\ p[1] \in Channels /\ p[2] \in SUBSET Users /\ p = <<p[1], p[2]>>
           /\ send_many(p[2], UserEvent("call_peer_left", p[1], task[c].user)) /\ calls' = calls
           /\ task'[c].pc = "left_roster" /\ task'[c].ch = p[1] /\ task'[c].roster = p[2]
           /\ task'[c].todo = task[c].todo \ {p}
<1> DEFINE t == task[c]
<1>1. /\ t \in Task /\ task \in [ConnId -> Task] /\ t.pc = "broadcast" /\ t.user \in Users
  BY TypesGive DEF BroadcastLeft, IInv, LocalsSet
<1>2. PICK p \in t.todo :
        /\ task' = [task EXCEPT ![c] = [t EXCEPT !.pc = "left_roster", !.ch = p[1],
                                                 !.roster = p[2], !.todo = @ \ {p}]]
        /\ send_many(p[2], UserEvent("call_peer_left", p[1], t.user)) /\ calls' = calls
  BY DEF BroadcastLeft
<1> HIDE DEF t
<1>3. p \in Channels \X SUBSET Users
  BY <1>1, <1>2 DEF Task
<1>4. task'[c] = [t EXCEPT !.pc = "left_roster", !.ch = p[1], !.roster = p[2], !.todo = @ \ {p}]
  BY <1>1, <1>2
<1>5. /\ task'[c].pc = "left_roster" /\ task'[c].ch = p[1] /\ task'[c].roster = p[2]
      /\ task'[c].todo = t.todo \ {p}
  BY <1>1, <1>4 DEF Task
<1>6. QED
  BY <1>1, <1>2, <1>3, <1>5 DEF t

LEMMA BroadcastRosterMoves ==
  ASSUME Base, NEW c \in ConnId, BroadcastRoster(c)
  PROVE  /\ task[c].pc = "left_roster" /\ task[c].ch \in Channels /\ task[c].roster \in SUBSET Users
         /\ send_many(task[c].roster, RosterEvent(task[c].ch, task[c].roster)) /\ calls' = calls
         /\ task'[c].todo = task[c].todo
         /\ task'[c].pc = IF task[c].todo # {} THEN "broadcast"
                          ELSE IF Registered(c) THEN "read" ELSE "done"
<1> DEFINE t == task[c]
           more == [At("broadcast", t.user) EXCEPT !.todo = t.todo]
           pc == IF Registered(c) THEN "read" ELSE "done"
<1>1. /\ t \in Task /\ task \in [ConnId -> Task] /\ t.pc = "left_roster"
      /\ t.ch \in Channels /\ t.roster \in SUBSET Users
  BY TypesGive DEF BroadcastRoster, IInv, LocalsSet, Task
<1>2. more.pc = "broadcast" /\ more.todo = t.todo
  BY DEF At
<1>3. At(pc, t.user).pc = pc /\ At(pc, t.user).todo = {}
  BY DEF At
<1>4. /\ task'[c] = IF t.todo # {} THEN more ELSE At(pc, t.user)
      /\ send_many(t.roster, RosterEvent(t.ch, t.roster)) /\ calls' = calls
  BY <1>1 DEF BroadcastRoster
<1> HIDE DEF t, more, pc
<1>5. /\ task'[c].todo = t.todo
      /\ task'[c].pc = IF t.todo # {} THEN "broadcast" ELSE pc
  BY <1>2, <1>3, <1>4
<1>6. QED
  BY <1>1, <1>4, <1>5 DEF t, pc

LEMMA FreshStep ==
  ASSUME Base, [Next]_vars
  PROVE  FreshIdsUnused' /\ BrokenWereServed'
<1>1. /\ FreshIdsUnused /\ BrokenWereServed /\ FreshIds /\ next_conn \in Nat
      /\ up \in [ConnId -> Seq(ClientMsg)] /\ broken \subseteq ConnId /\ ConnId \subseteq Nat
  BY TypesGive DEF Base, IInv, ClientTypeOK
<1>2. ASSUME NEW u \in Users, SocketOpen(u)
      PROVE  FreshIdsUnused' /\ BrokenWereServed'
  <2>1. /\ next_conn' \in ConnId /\ next_conn' = next_conn + 1 /\ broken' = broken
        /\ \A c \in ConnId \ {next_conn'} : task'[c] = task[c] /\ up'[c] = up[c]
        /\ task'[next_conn'].pc = "read"
    BY <1>1, <1>2, ConnectStep DEF SocketOpen
  <2>2. FreshIdsUnused'
    <3>1. ASSUME NEW c \in ConnId, c > next_conn'
          PROVE  c > next_conn /\ c # next_conn'
      BY <1>1, <2>1, <3>1
    <3>2. QED
      BY <1>1, <2>1, <3>1 DEF FreshIdsUnused
  <2>3. BrokenWereServed'
    BY <1>1, <2>1 DEF BrokenWereServed
  <2>4. QED
    BY <2>2, <2>3
<1>3. CASE \A u \in Users : ~ SocketOpen(u)
  <2>1. /\ next_conn' = next_conn
        /\ \A c \in ConnId : task'[c].user = task[c].user /\ (task'[c].pc = "off" <=> task[c].pc = "off")
    BY <1>3, OwnersKept
  <2>2. ASSUME NEW c \in ConnId, c \in broken'
        PROVE  task[c].pc # "off"
    <3>1. ASSUME NEW d \in ConnId, Break(d)
          PROVE  task[c].pc # "off"
      BY <1>1, <2>2, <3>1, BreakStep DEF BrokenWereServed
    <3>2. CASE broken' = broken
      BY <1>1, <2>2, <3>2 DEF BrokenWereServed
    <3>3. CASE ServerRestart
      BY <2>2, <3>3 DEF ServerRestart
    <3>4. QED
      BY <1>3, <3>1, <3>2, <3>3
         DEF Next, Client, System, vars, clientVars, SocketClose, Receive, Leave, Join,
             SendSignal, ServerRead, ServerStep, ServerNotices
  <2>3. ASSUME NEW c \in ConnId, c > next_conn
        PROVE  up'[c] = <<>>
    <3>1. up[c] = <<>> /\ task[c].pc = "off"
      BY <1>1, <2>3 DEF FreshIdsUnused, FreshIds
    <3>2. ASSUME NEW u \in Users, NEW m \in ClientMsg, up' = Sent(u, m)
          PROVE  up'[c] = <<>>
      <4>1. Live(u) => link[u] # c
        <5>1. Live(u) => task[link[u]].pc # "off"
          BY DEF Base, LiveIsServed
        <5>2. QED
          BY <3>1, <5>1
      <4>2. QED
        BY <3>1, <3>2, <4>1, SentTypes
    <3>3. ASSUME NEW u \in Users, Leave(u)
          PROVE  up'[c] = <<>>
      <4>1. incall[u] \in Channels
        BY <3>3, TypesGive DEF Leave, ClientTypeOK
      <4>2. QED
        BY <3>2, <3>3, <4>1, MessageTypes DEF Leave
    <3>4. ASSUME NEW u \in Users, NEW v \in Users, SendSignal(u, v)
          PROVE  up'[c] = <<>>
      <4>1. incall[u] \in Channels
        BY <3>4, TypesGive DEF SendSignal, ClientTypeOK, Base, IdleHasNobody
      <4>2. QED
        BY <3>2, <3>4, <4>1, MessageTypes DEF SendSignal
    <3>5. ASSUME NEW u \in Users, NEW ch \in Channels, Join(u, ch)
          PROVE  up'[c] = <<>>
      BY <3>2, <3>5, MessageTypes DEF Join
    <3>6. ASSUME NEW d \in ConnId, Break(d)
          PROVE  up'[c] = <<>>
      <4>1. d # c /\ \E n : up' = [up EXCEPT ![d] = SubSeq(@, 1, n)]
        BY <3>1, <3>6, BreakStep DEF Break
      <4>2. QED
        BY <1>1, <3>1, <4>1
    <3>7. ASSUME NEW d \in ConnId, ServerRead(d)
          PROVE  up'[c] = <<>>
      BY <1>1, <3>1, <3>7, ServerReadStep
    <3>8. ServerRestart => up'[c] = <<>>
      BY DEF ServerRestart
    <3>9. QED
      BY <1>3, <3>1, <3>3, <3>4, <3>5, <3>6, <3>7, <3>8
         DEF Next, Client, System, vars, clientVars, SocketClose, Receive, ServerStep, ServerNotices
  <2>4. FreshIdsUnused'
    BY <1>1, <2>1, <2>2, <2>3 DEF FreshIdsUnused, FreshIds
  <2>5. BrokenWereServed'
    <3>1. broken' \subseteq ConnId
      BY ClientTypesStep DEF ClientTypeOK
    <3>2. QED
      BY <2>1, <2>2, <3>1 DEF BrokenWereServed
  <2>6. QED
    BY <2>4, <2>5
<1>4. QED
  BY <1>2, <1>3

(* Nothing that was broken mends, save that the server forgets the broken  *)
(* connections of an earlier start that it has never had.                  *)
LEMMA BrokenStays ==
  ASSUME Base, [Next]_vars
  PROVE  broken \subseteq broken'
<1>1. BrokenWereServed /\ broken \subseteq ConnId
  BY DEF Base, ClientTypeOK
<1>2. ServerRestart => broken \subseteq broken'
  BY <1>1 DEF ServerRestart, BrokenWereServed
<1>3. QED
  BY <1>2 DEF Next, Client, System, vars, clientVars, SocketOpen, SocketClose, Receive, Leave, Join,
              SendSignal, Break, ServerRead, ServerStep, ServerNotices

(* A live socket is one that was live before, or one just opened.          *)
LEMMA LiveBefore ==
  ASSUME Base, [Next]_vars, NEW u \in Users, Live(u)', ~ SocketOpen(u)
  PROVE  Live(u) /\ link'[u] = link[u] /\ link[u] \in ConnId /\ ~ ServerRestart
<1>1. link \in [Users -> ConnId \cup {0}]
  BY DEF Base, ClientTypeOK
<1>2. link'[u] = link[u]
  <2>1. ASSUME NEW v \in Users, SocketOpen(v)
        PROVE  link'[u] = link[u]
    BY <1>1, <2>1 DEF SocketOpen
  <2>2. ASSUME NEW v \in Users, SocketClose(v)
        PROVE  link'[u] = link[u]
    BY <1>1, <2>2 DEF SocketClose, Live
  <2>3. QED
    BY <2>1, <2>2 DEF Next, Client, System, vars, clientVars, Receive, Leave, Join,
                      SendSignal, Break, ServerRead, ServerStep, ServerNotices, ServerRestart
<1>3. Live(u)
  BY <1>2, BrokenStays DEF Live
<1>4. ~ ServerRestart
  BY <1>2, <1>3, <1>1 DEF ServerRestart, Live, Base, LiveIsServed
<1>5. QED
  BY <1>1, <1>2, <1>3, <1>4 DEF Live

LEMMA LiveServedStep ==
  ASSUME Base, [Next]_vars
  PROVE  LiveIsServed'
<1> SUFFICES ASSUME NEW u \in Users, Live(u)'
             PROVE  /\ task'[link'[u]].user = u /\ link'[u] \in conns'[u]
                    /\ task'[link'[u]].pc \notin {"off", "leave_all", "done"}
  BY DEF LiveIsServed
<1> DEFINE c == link[u]
           Goal == /\ task'[c].user = u /\ c \in conns'[u]
                   /\ task'[c].pc \notin {"off", "leave_all", "done"}
<1>1. CASE SocketOpen(u)
  <2>1. link'[u] = next_conn'
    BY <1>1 DEF SocketOpen, Base, ClientTypeOK
  <2>2. QED
    BY <1>1, <2>1, ConnectStep, TypesGive DEF SocketOpen
<1>2. CASE ~ SocketOpen(u)
  <2>1. /\ Live(u) /\ link'[u] = c /\ c \in ConnId /\ ~ ServerRestart
        /\ task[c].user = u /\ c \in conns[u] /\ task[c].pc \notin {"off", "leave_all", "done"}
    BY <1>2, LiveBefore DEF Base, LiveIsServed
  <2> HIDE DEF c
  <2>2. CASE task'[c] = task[c] /\ conns' = conns
    BY <2>1, <2>2
  <2>3. ASSUME NEW v \in Users, SocketOpen(v)
        PROVE  Goal
    <3>1. v # u /\ c # next_conn'
      BY <1>2, <2>1, <2>3, ConnectStep, TypesGive DEF SocketOpen, Base, IInv, FreshIds
    <3>2. QED
      BY <2>1, <2>3, <3>1, ConnectStep, TypesGive DEF SocketOpen
  <2>4. ASSUME NEW d \in ConnId, ServerRead(d)
        PROVE  Goal
    <3>1. /\ conns' = conns /\ \A e \in ConnId \ {d} : task'[e] = task[e]
          /\ task'[d].user = task[d].user /\ task'[d].pc \in {"read", "join", "signal", "broadcast"}
      BY <2>4, ServerReadStep, TypesGive, TakeMsgStep
    <3>2. QED
      BY <2>1, <3>1
  <2>5. ASSUME NEW d \in ConnId, ServerStep(d)
        PROVE  Goal
    <3>1. TaskStep(d)
      BY <2>5 DEF ServerStep
    <3>2. /\ conns' = conns /\ \A e \in ConnId \ {d} : task'[e] = task[e]
          /\ task'[d].user = task[d].user /\ task'[d].pc # "off"
      BY <3>1, TaskStepType, TypesGive DEF IInv
    <3>3. CASE d # c
      BY <2>1, <3>2, <3>3
    <3>4. CASE d = c
      <4>1. task'[c].pc \notin {"leave_all", "done"}
        BY <2>1, <3>1, <3>4, CallJoinMoves, SendJoinRosterMoves, SendPeerJoinedMoves, SignalCheckMoves,
           SignalRelayMoves, BroadcastLeftMoves, BroadcastRosterMoves DEF TaskStep, LeaveAll, Registered
      <4>2. QED
        BY <2>1, <3>2, <3>4, <4>1
    <3>5. QED
      BY <3>3, <3>4
  <2>6. ASSUME NEW d \in ConnId, ServerNotices(d)
        PROVE  Goal
    <3>1. d # c /\ Unregister(d)
      BY <2>1, <2>6 DEF ServerNotices, Live, c
    <3>2. QED
      <4>1. /\ conns' = [conns EXCEPT ![task[d].user] = @ \ {d}]
            /\ \A e \in ConnId \ {d} : task'[e] = task[e]
        BY <3>1, UnregisterStep, TypesGive
      <4>2. conns'[u] = conns[u] \/ conns'[u] = conns[u] \ {d}
        BY <4>1, TypesGive
      <4>3. task'[c] = task[c] /\ c \in conns'[u]
        BY <2>1, <3>1, <4>1, <4>2
      <4>4. QED
        BY <2>1, <4>3
  <2>7. QED
    BY <2>1, <2>2, <2>3, <2>4, <2>5, <2>6
       DEF Next, Client, System, vars, hubVars, SocketClose, Receive, Deliver, Leave, Join, SendSignal, Break
<1>3. QED
  BY <1>1, <1>2

LEMMA NewestStep ==
  ASSUME Base, [Next]_vars
  PROVE  LinkIsNewest'
<1> SUFFICES ASSUME NEW u \in Users, link'[u] # 0
             PROVE  /\ link'[u] <= next_conn'
                    /\ \A c \in ConnId : task'[c].user = u => c <= link'[u]
  BY DEF LinkIsNewest
<1>1. /\ link \in [Users -> ConnId \cup {0}] /\ LinkIsNewest /\ FreshIdsUnused
      /\ next_conn \in Nat /\ ConnId \subseteq Nat /\ u # Nil
  BY TypesGive DEF Base, ClientTypeOK
<1>2. CASE SocketOpen(u)
  <2>1. link'[u] = next_conn'
    BY <1>1, <1>2 DEF SocketOpen
  <2>2. /\ next_conn' = next_conn + 1 /\ next_conn' \in ConnId
        /\ \A c \in ConnId \ {next_conn'} : task'[c] = task[c]
    BY <1>2, ConnectStep DEF SocketOpen
  <2>3. \A c \in ConnId \ {next_conn'} : task[c].user = u => c <= next_conn'
    BY <1>1, <2>2 DEF FreshIdsUnused
  <2>4. QED
    BY <1>1, <2>1, <2>2, <2>3
<1>3. ASSUME NEW v \in Users, SocketOpen(v), v # u
      PROVE  /\ link'[u] <= next_conn'
             /\ \A c \in ConnId : task'[c].user = u => c <= link'[u]
  <2>1. link'[u] = link[u]
    BY <1>1, <1>3 DEF SocketOpen
  <2>2. /\ next_conn' = next_conn + 1 /\ next_conn' \in ConnId /\ task'[next_conn'].user = v
        /\ \A c \in ConnId \ {next_conn'} : task'[c] = task[c]
    BY <1>3, ConnectStep DEF SocketOpen
  <2>3. link[u] \in Nat /\ link[u] <= next_conn /\ \A c \in ConnId : task[c].user = u => c <= link[u]
    BY <1>1, <2>1 DEF LinkIsNewest
  <2>4. ASSUME NEW c \in ConnId, task'[c].user = u
        PROVE  c <= link[u]
    BY <1>3, <2>2, <2>3, <2>4
  <2>5. link[u] <= next_conn'
    BY <1>1, <2>2, <2>3
  <2>6. QED
    BY <2>1, <2>4, <2>5
<1>4. CASE \A v \in Users : ~ SocketOpen(v)
  <2>1. link'[u] = link[u]
    BY <1>1, <1>4 DEF Next, Client, System, vars, clientVars, SocketClose, Receive, Leave, Join,
                      SendSignal, Break, ServerRead, ServerStep, ServerNotices, ServerRestart
  <2>2. QED
    BY <1>1, <1>4, <2>1, OwnersKept DEF LinkIsNewest
<1>5. QED
  BY <1>2, <1>3, <1>4

LEMMA MembersStep ==
  ASSUME Base, [Next]_vars
  PROVE  CallersAreMembers'
BY DEF Base, CallersAreMembers, ClientTypeOK, Next, Client, System, vars, clientVars, SocketOpen,
       SocketClose, Receive, Leave, Join, SendSignal, Break, ServerRead, ServerStep, ServerNotices,
       ServerRestart

LEMMA BaseHolds == Spec => []Base
<1>1. Init => Base
  <2> SUFFICES ASSUME Init PROVE Base
    OBVIOUS
  <2>1. IInv
    BY InitInv DEF Init
  <2>2. ClientTypeOK
    BY ClientBoundsAreNat DEF Init, ClientTypeOK
  <2>3. QED
    BY <2>1, <2>2 DEF Init, HubInit, At, Base, Live, FreshIdsUnused, BrokenWereServed, LiveIsServed,
                      LinkIsNewest, CallersAreMembers, IdleHasNobody
<1>2. Base /\ [Next]_vars => Base'
  <2> SUFFICES ASSUME Base, [Next]_vars PROVE Base'
    OBVIOUS
  <2>1. IInv'
    BY NextIsHub, NextInv, TypesGive
  <2>2. QED
    BY <2>1, ClientTypesStep, FreshStep, LiveServedStep, NewestStep, MembersStep, ViewTypesStep DEF Base
<1>3. QED
  BY <1>1, <1>2, PTL DEF Spec

(* Clients, connections and hub are well typed (call.ts, ws.ts and ws.rs). *)
THEOREM CallsTypeCorrect == Spec => []TypeOK
<1>1. Base => TypeOK
  BY DEF Base, IInv, ClientTypeOK, TypeOK
<1>2. QED
  BY <1>1, BaseHolds, PTL

(* Clients that reconnect and connections that break do not keep the hub   *)
(* from implementing the one-step rosters.                                 *)
THEOREM CallsImplementRosters == Spec => ImplementsRosters
<1>1. Init => HubInit
  BY DEF Init
<1>2. Base /\ [Next]_vars => IInv /\ [AnyStep]_hubVars
  BY NextIsHub, TypesGive
<1>3. QED
  BY <1>1, <1>2, BaseHolds, RosterInit, RosterStep, PTL DEF Spec, ImplementsRosters, Rosters!Spec

-----------------------------------------------------------------------------
(* Callers are listed. *)

JoinOf(ch) == ChannelMsg("call_join", ch)
LeaveOf(ch) == ChannelMsg("call_leave", ch)

(* A call_leave of ch that the server has not read from c. *)
HasLeave(c, ch) == \E k \in DOMAIN up[c] : up[c][k] = LeaveOf(ch)

(* The last word on ch in what the server has not read from c is to join.  *)
AsksToJoin(c, ch) ==
  \E n \in DOMAIN up[c] : /\ up[c][n] = JoinOf(ch)
                          /\ \A k \in DOMAIN up[c] : k > n => up[c][k] # LeaveOf(ch)

(* u is in the call, or what it takes is under way. *)
ListedOrJoining(u, c, ch) ==
  \/ AsksToJoin(c, ch)
  \/ ~ HasLeave(c, ch) /\ (u \in calls[ch] \/ (task[c].pc = "join" /\ task[c].ch = ch))

CallersListed ==
  \A u \in Users : Live(u) /\ incall[u] # Nil => ListedOrJoining(u, link[u], incall[u])

(* The races that do not count have not happened on a step. *)
LEMMA SoundStep ==
  ASSUME Base, [Next]_vars, Sound'
  PROVE  /\ Sound
         /\ \A c \in ConnId : task'[c].pc # task[c].pc =>
              /\ task[c].pc \in {"roster", "left_roster"} => task[c].roster = calls[task[c].ch]
              /\ task[c].pc = "signal" /\ task[c].checks = 4 => task[c].user \in calls[task[c].ch]
              /\ task[c].pc = "leave_all" => conns[task[c].user] = {}
              /\ task[c].pc = "read" /\ task'[c].pc = "broadcast" =>
                   \A d \in conns[task[c].user] : ~ (d > c)
<1>1. Sound /\ (UNCHANGED vars \/ RacesOf \subseteq races')
  BY DEF Sound, Next, vars
<1>2. CASE UNCHANGED vars
  BY <1>1, <1>2 DEF vars, hubVars
<1>3. CASE RacesOf \subseteq races'
  <2>1. \A r \in {"stale_roster", "late_signal", "late_leave_all", "old_leave"} :
          r \in Race /\ r \notin RacesOf
    BY <1>3 DEF Sound, Race
  <2>2. QED
    BY <1>1, <2>1 DEF RacesOf
<1>4. QED
  BY <1>1, <1>2, <1>3

(* Which channels a user leaves in the hub. *)
LEMMA CallsStep ==
  ASSUME Base, [Next]_vars, NEW u \in Users, NEW ch \in Channels, u \in calls[ch], u \notin calls'[ch]
  PROVE  \/ ServerRestart
         \/ \E c \in ConnId : LeaveAll(c) /\ ServerStep(c) /\ task[c].user = u
         \/ \E c \in ConnId : /\ ServerRead(c) /\ task[c].user = u /\ Head(up[c]) = LeaveOf(ch)
                              /\ task[c].pc = "read" /\ task'[c].pc = "broadcast"
<1>1. calls \in [Channels -> SUBSET Users] /\ task \in [ConnId -> Task]
  BY TypesGive
<1>2. ASSUME NEW c \in ConnId, ServerRead(c)
      PROVE  /\ task[c].user = u /\ Head(up[c]) = LeaveOf(ch)
             /\ task[c].pc = "read" /\ task'[c].pc = "broadcast"
  <2>1. calls' # calls
    OBVIOUS
  <2>2. /\ Head(up[c]).type = "call_leave" /\ ReadLeave(c, Head(up[c]).channel)
        /\ Head(up[c]) \in ClientMsg
    BY <1>2, <2>1, ServerReadStep DEF ReadJoin, ReadSignal
  <2>3. PICK m \in ClientMsg : m = Head(up[c])
    BY <2>2
  <2>4. m.channel = ch /\ task[c].user = u
    BY <1>1, <2>2, <2>3 DEF ReadLeave
  <2>5. m = LeaveOf(ch)
    BY <2>2, <2>3, <2>4 DEF ClientMsg, LeaveOf, ChannelMsg
  <2>6. task' = [task EXCEPT ![c].pc = "broadcast", ![c].todo = {<<ch, calls[ch] \ {u}>>}]
    BY <2>1, <2>2, <2>3, <2>4 DEF ReadLeave
  <2>7. task'[c].pc = "broadcast" /\ task[c].pc = "read"
    BY <1>1, <2>2, <2>6 DEF ReadLeave, Task
  <2>8. QED
    BY <2>3, <2>4, <2>5, <2>7
<1>3. ASSUME NEW c \in ConnId, ServerStep(c)
      PROVE  LeaveAll(c) /\ task[c].user = u
  <2>1. CASE CallJoin(c)
    BY <1>1, <2>1, CallJoinMoves
  <2>2. CASE LeaveAll(c)
    BY <1>1, <2>2, LeaveAllMoves
  <2>3. CASE calls' = calls
    BY <2>3
  <2>4. QED
    BY <1>3, <2>1, <2>2, <2>3
       DEF ServerStep, TaskStep, SendJoinRoster, SendPeerJoined, SignalCheck, SignalRelay, BroadcastLeft,
           BroadcastRoster
<1>4. CASE calls' = calls
  BY <1>4
<1>5. QED
  BY <1>2, <1>3, <1>4
     DEF Next, Client, System, vars, hubVars, SocketOpen, Connect, SocketClose, Receive, Deliver, Leave,
         Join, SendSignal, Break, ServerNotices, Unregister

(* What the server has not read of a connection. *)
LEMMA UpStep ==
  ASSUME Base, [Next]_vars, NEW c \in ConnId
  PROVE  \/ up'[c] = up[c]
         \/ ServerRead(c) /\ up[c] # <<>> /\ up'[c] = Tail(up[c])
         \/ Break(c)
         \/ ServerRestart /\ up'[c] = <<>>
         \/ \E u \in Users : /\ SocketOpen(u) /\ c = next_conn' /\ incall[u] \in Channels
                             /\ up'[c] = <<JoinOf(incall[u])>>
         \/ \E u \in Users : /\ Live(u) /\ c = link[u]
                             /\ \/ \E ch \in Channels : Join(u, ch) /\ up'[c] = Append(up[c], JoinOf(ch))
                                \/ /\ Leave(u) /\ incall[u] \in Channels
                                   /\ up'[c] = Append(up[c], LeaveOf(incall[u]))
                                \/ \E v \in Users, m \in ClientMsg :
                                     /\ SendSignal(u, v) /\ m.type = "signal" /\ m.to = v
                                     /\ incall' = incall /\ up'[c] = Append(up[c], m)
<1>1. up \in [ConnId -> Seq(ClientMsg)] /\ incall \in [Users -> Channels \cup {Nil}]
  BY DEF Base, ClientTypeOK
<1>2. ASSUME NEW v \in Users, NEW m \in ClientMsg, up' = Sent(v, m)
      PROVE  up'[c] = up[c] \/ (Live(v) /\ c = link[v] /\ up'[c] = Append(up[c], m))
  <2>1. Sent(v, m)[c] = up[c] \/ (c = link[v] /\ Live(v))
    BY SentTypes
  <2>2. Live(v) => Sent(v, m)[link[v]] = Append(up[link[v]], m)
    BY SentTypes
  <2>3. QED
    BY <1>2, <2>1, <2>2
<1>3. ASSUME NEW v \in Users, Leave(v)
      PROVE  \/ up'[c] = up[c]
             \/ /\ Live(v) /\ c = link[v] /\ incall[v] \in Channels
                /\ up'[c] = Append(up[c], LeaveOf(incall[v]))
  <2>1. incall[v] \in Channels
    BY <1>1, <1>3 DEF Leave
  <2>2. QED
    BY <1>2, <1>3, <2>1, MessageTypes DEF Leave, LeaveOf
<1>4. ASSUME NEW v \in Users, NEW ch \in Channels, Join(v, ch)
      PROVE  up'[c] = up[c] \/ (Live(v) /\ c = link[v] /\ up'[c] = Append(up[c], JoinOf(ch)))
  BY <1>2, <1>4, MessageTypes DEF Join, JoinOf
<1>5. ASSUME NEW v \in Users, NEW w \in Users, SendSignal(v, w)
      PROVE  \/ up'[c] = up[c]
             \/ /\ Live(v) /\ c = link[v]
                /\ \E m \in ClientMsg : /\ m.type = "signal" /\ m.to = w /\ incall' = incall
                                        /\ up'[c] = Append(up[c], m)
  <2>1. incall[v] \in Channels
    BY <1>1, <1>5 DEF SendSignal, Base, IdleHasNobody
  <2>2. PICK m \in ClientMsg : m.type = "signal" /\ m.to = w /\ up' = Sent(v, m)
    BY <1>5, <2>1, MessageTypes DEF SendSignal
  <2>3. QED
    BY <1>2, <1>5, <2>2 DEF SendSignal
<1>6. ASSUME NEW d \in ConnId, ServerRead(d)
      PROVE  up'[c] = up[c] \/ (d = c /\ up[c] # <<>> /\ up'[c] = Tail(up[c]))
  BY <1>1, <1>6, ServerReadStep
<1>7. ASSUME NEW d \in ConnId, Break(d)
      PROVE  up'[c] = up[c] \/ d = c
  <2>1. \E n : up' = [up EXCEPT ![d] = SubSeq(@, 1, n)]
    BY <1>7 DEF Break
  <2>2. QED
    BY <1>1, <2>1
<1>8. ASSUME NEW v \in Users, SocketOpen(v)
      PROVE  \/ up'[c] = up[c]
             \/ c = next_conn' /\ incall[v] \in Channels /\ up'[c] = <<JoinOf(incall[v])>>
  BY <1>1, <1>8 DEF SocketOpen, JoinOf
<1>9. QED
  BY <1>1, <1>3, <1>4, <1>5, <1>6, <1>7, <1>8
     DEF Next, Client, System, vars, clientVars, SocketClose, Receive, ServerStep, ServerNotices,
         ServerRestart

LEMMA LiveUpStep ==
  ASSUME Base, [Next]_vars, NEW u \in Users, Live(u), Live(u)', NEW c, c = link[u], ~ SocketOpen(u)
  PROVE  \/ up'[c] = up[c]
         \/ ServerRead(c) /\ up[c] # <<>> /\ up'[c] = Tail(up[c])
         \/ \E ch \in Channels : Join(u, ch) /\ up'[c] = Append(up[c], JoinOf(ch))
         \/ Leave(u) /\ up'[c] = Append(up[c], LeaveOf(incall[u])) /\ incall[u] \in Channels
         \/ \E m \in ClientMsg : /\ m.type = "signal" /\ up'[c] = Append(up[c], m)
                                 /\ incall' = incall
<1>1. /\ c \in ConnId /\ c \notin broken' /\ ~ ServerRestart /\ task[c].pc # "off"
  BY LiveBefore DEF Live, Base, LiveIsServed
<1>2. \A v \in Users : Live(v) /\ link[v] = c => v = u
  BY DEF Base, LiveIsServed
<1>3. ~ Break(c)
  BY <1>1 DEF Break
<1>4. \A v \in Users : SocketOpen(v) => c # next_conn'
  BY <1>1, OpenedIsFresh
<1>5. QED
  BY <1>1, <1>2, <1>3, <1>4, UpStep

LEMMA AppendGives ==
  ASSUME NEW S, NEW q \in Seq(S), NEW m \in S
  PROVE  /\ DOMAIN Append(q, m) = DOMAIN q \cup {Len(q) + 1}
         /\ \A k \in DOMAIN q : Append(q, m)[k] = q[k] /\ k \in Nat /\ k < Len(q) + 1
         /\ Append(q, m)[Len(q) + 1] = m /\ Len(q) + 1 \in Nat
OBVIOUS

LEMMA TailGives ==
  ASSUME NEW S, NEW q \in Seq(S), q # <<>>
  PROVE  /\ 1 \in DOMAIN q /\ Head(q) = q[1] /\ DOMAIN q \subseteq Nat
         /\ \A k \in DOMAIN Tail(q) : k \in Nat /\ k + 1 \in DOMAIN q /\ Tail(q)[k] = q[k + 1]
         /\ \A k \in DOMAIN q : k # 1 => /\ k - 1 \in DOMAIN Tail(q) /\ Tail(q)[k - 1] = q[k]
                                         /\ k > 1
<1>1. /\ DOMAIN q = 1 .. Len(q) /\ Len(q) \in Nat \ {0} /\ DOMAIN Tail(q) = 1 .. Len(q) - 1
      /\ \A k \in 1 .. Len(q) - 1 : Tail(q)[k] = q[k + 1]
      /\ Head(q) = q[1]
  OBVIOUS
<1>2. QED
  BY <1>1

(* Only a call_leave of the user or a join changes the user's channel. *)
LEMMA IncallStep ==
  ASSUME Base, [Next]_vars, NEW u \in Users
  PROVE  \/ incall'[u] = incall[u]
         \/ Leave(u) /\ incall'[u] = Nil
         \/ \E ch \in Channels : Join(u, ch) /\ incall[u] = Nil /\ incall'[u] = ch
BY DEF Base, ClientTypeOK, Next, Client, System, vars, clientVars, SocketOpen, SocketClose, Receive,
       Leave, Join, SendSignal, Break, ServerRead, ServerStep, ServerNotices, ServerRestart

LEMMA OpenAsks ==
  ASSUME Base, NEW u \in Users, SocketOpen(u), incall'[u] # Nil
  PROVE  AsksToJoin(link[u], incall[u])'
<1>1. /\ next_conn' \in ConnId /\ link'[u] = next_conn' /\ incall' = incall
      /\ up'[next_conn'] = <<JoinOf(incall'[u])>>
  BY ConnectStep DEF SocketOpen, JoinOf, Base, ClientTypeOK
<1>2. QED
  BY <1>1 DEF AsksToJoin, JoinOf, LeaveOf, ChannelMsg

LEMMA JoinAsks ==
  ASSUME Base, NEW u \in Users, NEW ch \in Channels, Join(u, ch), Live(u)
  PROVE  AsksToJoin(link[u], incall[u])'
<1>1. /\ link' = link /\ incall'[u] = ch /\ link[u] \in ConnId
      /\ up'[link[u]] = Append(up[link[u]], JoinOf(ch))
  <2>1. up' = Sent(u, JoinOf(ch)) /\ incall'[u] = ch /\ link' = link
    BY DEF Join, JoinOf, Base, ClientTypeOK
  <2>2. QED
    BY <2>1, MessageTypes, SentTypes DEF JoinOf
<1>2. PICK q \in Seq(ClientMsg) : q = up[link[u]]
  BY <1>1 DEF Base, ClientTypeOK
<1>3. PICK r : r = up'[link[u]]
  OBVIOUS
<1>4. /\ DOMAIN r = DOMAIN q \cup {Len(q) + 1} /\ r[Len(q) + 1] = JoinOf(ch)
      /\ \A k \in DOMAIN q : k \in Nat /\ k < Len(q) + 1
      /\ Len(q) + 1 \in Nat
  BY <1>1, <1>2, <1>3, AppendGives, MessageTypes DEF JoinOf
<1>5. \A k \in DOMAIN r : ~ (k > Len(q) + 1)
  BY <1>4
<1>6. QED
  BY <1>1, <1>3, <1>4, <1>5 DEF AsksToJoin

(* A client that stays connected and in its call. *)
Stays(u) == Live(u) /\ Live(u)' /\ ~ SocketOpen(u) /\ incall'[u] = incall[u] /\ incall[u] # Nil

LEMMA StaysGives ==
  ASSUME Base, [Next]_vars, NEW u \in Users, Stays(u)
  PROVE  /\ link[u] \in ConnId /\ link'[u] = link[u] /\ incall[u] \in Channels /\ ~ ServerRestart
         /\ task[link[u]].user = u /\ link[u] \in conns[u] /\ task[link[u]].pc # "off"
         /\ \A d \in ConnId : task[d].user = u => d <= link[u]
         /\ <<u, incall[u]>> \in Member
         /\ ~ Leave(u) /\ \A ch \in Channels : ~ Join(u, ch)
<1>1. link[u] \in ConnId /\ link'[u] = link[u] /\ ~ ServerRestart
  BY LiveBefore DEF Stays
<1>2. incall \in [Users -> Channels \cup {Nil}]
  BY DEF Base, ClientTypeOK
<1>3. QED
  BY <1>1, <1>2 DEF Stays, Live, Base, LiveIsServed, LinkIsNewest, CallersAreMembers, Leave, Join

LEMMA StaysUp ==
  ASSUME Base, [Next]_vars, NEW u \in Users, Stays(u), NEW c, c = link[u]
  PROVE  \/ up'[c] = up[c]
         \/ ServerRead(c) /\ up[c] # <<>> /\ up'[c] = Tail(up[c])
         \/ \E m \in ClientMsg : m.type = "signal" /\ up'[c] = Append(up[c], m)
<1>1. Live(u) /\ Live(u)' /\ ~ SocketOpen(u)
  BY DEF Stays
<1>2. ~ Leave(u) /\ \A x \in Channels : ~ Join(u, x)
  BY StaysGives
<1>3. QED
  BY <1>1, <1>2, LiveUpStep

LEMMA NoLeaveKept ==
  ASSUME Base, [Next]_vars, NEW u \in Users, Stays(u), HasLeave(link[u], incall[u])'
  PROVE  HasLeave(link[u], incall[u])
<1> DEFINE c == link[u]
           ch == incall[u]
<1>1. c \in ConnId /\ link'[u] = c /\ incall'[u] = ch /\ ch \in Channels
  BY StaysGives DEF Stays
<1>2. PICK k \in DOMAIN up'[c] : up'[c][k] = LeaveOf(ch)
  BY <1>1 DEF HasLeave
<1>3. PICK q \in Seq(ClientMsg) : q = up[c]
  BY <1>1 DEF Base, ClientTypeOK
<1>4. CASE up'[c] = up[c]
  BY <1>2, <1>4 DEF HasLeave
<1>5. CASE up[c] # <<>> /\ up'[c] = Tail(up[c])
  BY <1>2, <1>3, <1>5, TailGives DEF HasLeave
<1>6. ASSUME NEW m \in ClientMsg, m.type = "signal", up'[c] = Append(up[c], m)
      PROVE  HasLeave(c, ch)
  <2>1. m # LeaveOf(ch)
    BY <1>6 DEF LeaveOf, ChannelMsg
  <2>2. k \in DOMAIN q /\ q[k] = LeaveOf(ch)
    BY <1>2, <1>3, <1>6, <2>1, AppendGives
  <2>3. QED
    BY <1>3, <2>2 DEF HasLeave
<1>7. QED
  BY <1>4, <1>5, <1>6, StaysUp

(* A call_join in the queue stays the last word, or is taken up. *)
LEMMA AsksKept ==
  ASSUME Base, [Next]_vars, NEW u \in Users, Stays(u), AsksToJoin(link[u], incall[u])
  PROVE  \/ AsksToJoin(link[u], incall[u])'
         \/ /\ ~ HasLeave(link[u], incall[u])'
            /\ task'[link[u]].pc = "join" /\ task'[link[u]].ch = incall[u]
<1>1. PICK c \in ConnId : c = link[u] /\ link'[u] = c
  BY StaysGives
<1>2. PICK ch \in Channels : ch = incall[u] /\ incall'[u] = ch
  BY StaysGives DEF Stays
<1>3. PICK q \in Seq(ClientMsg) : q = up[c]
  BY DEF Base, ClientTypeOK
<1>4. PICK n \in DOMAIN q : q[n] = JoinOf(ch) /\ \A k \in DOMAIN q : k > n => q[k] # LeaveOf(ch)
  BY <1>1, <1>2, <1>3 DEF AsksToJoin
<1>5. CASE up'[c] = up[c]
  BY <1>1, <1>2, <1>3, <1>4, <1>5 DEF AsksToJoin
<1>6. ASSUME NEW m \in ClientMsg, m.type = "signal", up'[c] = Append(up[c], m)
      PROVE  AsksToJoin(link[u], incall[u])'
  <2>1. m # LeaveOf(ch)
    BY <1>6 DEF LeaveOf, ChannelMsg
  <2>2. PICK r : r = up'[c]
    OBVIOUS
  <2>3. /\ DOMAIN r = DOMAIN q \cup {Len(q) + 1} /\ r[Len(q) + 1] = m
        /\ \A k \in DOMAIN q : r[k] = q[k]
    BY <1>3, <1>6, <2>2, AppendGives
  <2>4. n \in DOMAIN r /\ r[n] = JoinOf(ch) /\ \A k \in DOMAIN r : k > n => r[k] # LeaveOf(ch)
    BY <1>4, <2>1, <2>3
  <2>5. QED
    BY <1>1, <1>2, <2>2, <2>4 DEF AsksToJoin
<1>7. CASE ServerRead(c) /\ up[c] # <<>> /\ up'[c] = Tail(up[c])
  <2>1. /\ 1 \in DOMAIN q /\ Head(q) = q[1] /\ DOMAIN q \subseteq Nat /\ up'[c] = Tail(q)
        /\ \A k \in DOMAIN Tail(q) : k \in Nat /\ k + 1 \in DOMAIN q /\ Tail(q)[k] = q[k + 1]
        /\ \A k \in DOMAIN q : k # 1 => k - 1 \in DOMAIN Tail(q) /\ Tail(q)[k - 1] = q[k]
    BY <1>3, <1>7, TailGives
  <2>2. \A k \in DOMAIN Tail(q) : k > n - 1 => Tail(q)[k] # LeaveOf(ch)
    <3>1. ASSUME NEW k \in DOMAIN Tail(q), k > n - 1
          PROVE  k + 1 > n
      BY <1>4, <2>1, <3>1
    <3>2. QED
      BY <1>4, <2>1, <3>1
  <2>3. CASE n # 1
    BY <1>1, <1>2, <1>4, <2>1, <2>2, <2>3 DEF AsksToJoin
  <2>4. CASE n = 1
    <3>1. ReadJoin(c, ch) /\ task[c].pc = "read"
      <4>1. Head(up[c]) = JoinOf(ch) /\ JoinOf(ch).type = "call_join" /\ JoinOf(ch).channel = ch
        BY <1>3, <1>4, <2>1, <2>4 DEF JoinOf, ChannelMsg
      <4>2. ReadJoin(c, Head(up[c]).channel)
        BY <1>7, <4>1, ServerReadStep
      <4>3. QED
        BY <4>1, <4>2 DEF ReadJoin
    <3>2. task'[c].pc = "join" /\ task'[c].ch = ch
      <4>1. task' = [task EXCEPT ![c] = [task[c] EXCEPT !.pc = "join", !.ch = ch]]
        BY <1>1, <1>2, <3>1, StaysGives DEF ReadJoin
      <4>2. task[c] \in Task /\ task \in [ConnId -> Task]
        BY TypesGive
      <4>3. QED
        BY <4>1, <4>2 DEF Task
    <3>3. \A k \in DOMAIN Tail(q) : Tail(q)[k] # LeaveOf(ch)
      <4>1. ASSUME NEW k \in DOMAIN Tail(q)
            PROVE  k > n - 1
        <5>1. k \in 1 .. Len(q) - 1 /\ Len(q) \in Nat
          BY <1>3, <1>7
        <5>2. QED
          BY <2>4, <5>1
      <4>2. QED
        BY <2>2, <4>1
    <3>4. QED
      BY <1>1, <1>2, <2>1, <3>2, <3>3 DEF HasLeave
  <2>5. QED
    BY <2>3, <2>4
<1>8. QED
  BY <1>1, <1>5, <1>6, <1>7, StaysUp

(* A call_join that was taken up is carried out. *)
LEMMA JoinTaken ==
  ASSUME Base, [Next]_vars, NEW u \in Users, Stays(u), task[link[u]].pc = "join"
  PROVE  task'[link[u]] = task[link[u]] \/ CallJoin(link[u])
<1>1. PICK c \in ConnId : c = link[u] /\ link'[u] = c /\ ~ ServerRestart
  BY StaysGives
<1>2. ASSUME NEW d \in ConnId, ServerRead(d)
      PROVE  task'[c] = task[c]
  BY <1>1, <1>2, ServerReadStep, TakeMsgStep, TypesGive
<1>3. ASSUME NEW d \in ConnId, ServerStep(d)
      PROVE  task'[c] = task[c] \/ CallJoin(c)
  <2>1. CASE d # c
    BY <1>3, <2>1, TaskStepType, TypesGive DEF ServerStep, IInv
  <2>2. CASE d = c
    BY <1>1, <1>3, <2>2 DEF ServerStep, TaskStep, SendJoinRoster, SendPeerJoined, SignalCheck,
       SignalRelay, LeaveAll, BroadcastLeft, BroadcastRoster
  <2>3. QED
    BY <2>1, <2>2
<1>4. ASSUME NEW d \in ConnId, ServerNotices(d)
      PROVE  task'[c] = task[c]
  <2>1. d # c /\ Unregister(d)
    BY <1>1, <1>4 DEF ServerNotices, Stays, Live
  <2>2. QED
    BY <2>1, UnregisterStep, TypesGive
<1>5. ASSUME NEW v \in Users, SocketOpen(v)
      PROVE  task'[c] = task[c]
  <2>1. c # next_conn'
    BY <1>1, <1>5, OpenedIsFresh
  <2>2. QED
    BY <1>5, <2>1, ConnectStep DEF SocketOpen
<1>6. CASE UNCHANGED hubVars
  BY <1>1, <1>6 DEF hubVars
<1>7. QED
  BY <1>1, <1>2, <1>3, <1>4, <1>5, <1>6
     DEF Next, Client, System, vars, hubVars, SocketClose, Receive, Deliver, Leave, Join, SendSignal, Break

(* While no call_leave is to be read, a caller is not taken off the list. *)
LEMMA CallerKept ==
  ASSUME Base, [Next]_vars, Sound', NEW u \in Users, Stays(u),
         u \in calls[incall[u]], ~ HasLeave(link[u], incall[u])
  PROVE  u \in calls'[incall[u]]
<1> SUFFICES ASSUME u \notin calls'[incall[u]] PROVE FALSE
  OBVIOUS
<1>1. PICK c \in ConnId : c = link[u]
  BY StaysGives
<1>2. PICK ch \in Channels : ch = incall[u]
  BY StaysGives
<1>3. /\ ~ ServerRestart /\ c \in conns[u] /\ \A d \in ConnId : task[d].user = u => d <= c
  BY <1>1, StaysGives
<1>4. ASSUME NEW d \in ConnId, LeaveAll(d), task[d].user = u
      PROVE  FALSE
  <2>1. task[d].pc = "leave_all" /\ task'[d].pc # "leave_all"
    BY <1>4, LeaveAllMoves
  <2>2. QED
    BY <1>3, <1>4, <2>1, SoundStep
<1>5. ASSUME NEW d \in ConnId, ServerRead(d), task[d].user = u, Head(up[d]) = LeaveOf(ch),
             task[d].pc = "read", task'[d].pc = "broadcast"
      PROVE  FALSE
  <2>1. PICK q \in Seq(ClientMsg) : q = up[d] /\ q # <<>>
    BY <1>5, ServerReadStep DEF Base, ClientTypeOK
  <2>2. 1 \in DOMAIN q /\ q[1] = LeaveOf(ch)
    BY <1>5, <2>1, TailGives
  <2>3. d # c
    BY <1>1, <1>2, <2>1, <2>2 DEF HasLeave
  <2>4. d < c
    BY <1>3, <1>5, <2>3, TypesGive
  <2>5. QED
    BY <1>3, <1>5, <2>4, SoundStep
<1>6. QED
  BY <1>2, <1>3, <1>4, <1>5, CallsStep

LEMMA CallersListedStep ==
  ASSUME Base, CallersListed, [Next]_vars, Sound'
  PROVE  CallersListed'
<1> SUFFICES ASSUME NEW u \in Users, Live(u)', incall'[u] # Nil
             PROVE  ListedOrJoining(u, link[u], incall[u])'
  BY DEF CallersListed
<1>1. CASE SocketOpen(u)
  BY <1>1, OpenAsks DEF ListedOrJoining
<1>2. CASE ~ SocketOpen(u) /\ \E ch \in Channels : Join(u, ch)
  BY <1>2, LiveBefore, JoinAsks DEF ListedOrJoining
<1>3. CASE ~ SocketOpen(u) /\ \A ch \in Channels : ~ Join(u, ch)
  <2>1. Stays(u)
    BY <1>3, LiveBefore, IncallStep DEF Stays
  <2>2. /\ link'[u] = link[u] /\ incall'[u] = incall[u] /\ incall[u] \in Channels
        /\ ListedOrJoining(u, link[u], incall[u])
    BY <2>1, StaysGives DEF CallersListed, Stays
  <2>3. CASE AsksToJoin(link[u], incall[u])
    BY <2>1, <2>2, <2>3, AsksKept DEF ListedOrJoining
  <2>4. CASE ~ HasLeave(link[u], incall[u]) /\ u \in calls[incall[u]]
    <3>1. ~ HasLeave(link[u], incall[u])'
      BY <2>1, <2>4, NoLeaveKept
    <3>2. QED
      BY <2>1, <2>2, <2>4, <3>1, CallerKept DEF ListedOrJoining
  <2>5. CASE /\ ~ HasLeave(link[u], incall[u])
             /\ task[link[u]].pc = "join" /\ task[link[u]].ch = incall[u]
    <3>1. ~ HasLeave(link[u], incall[u])'
      BY <2>1, <2>5, NoLeaveKept
    <3>2. CallJoin(link[u]) => u \in calls'[incall[u]]
      <4>1. PICK c \in ConnId : c = link[u] /\ task[c].user = u
        BY <2>1, StaysGives
      <4>2. PICK ch \in Channels : ch = incall[u]
        BY <2>2
      <4>3. CASE CallJoin(c)
        <5>1. calls' = [calls EXCEPT ![ch] = @ \cup {u}]
          BY <2>5, <4>1, <4>2, <4>3, CallJoinMoves
        <5>2. QED
          BY <4>2, <5>1, TypesGive
      <4>4. QED
        BY <4>1, <4>3
    <3>3. QED
      BY <2>1, <2>2, <2>5, <3>1, <3>2, JoinTaken DEF ListedOrJoining
  <2>6. QED
    BY <2>2, <2>3, <2>4, <2>5 DEF ListedOrJoining
<1>4. QED
  BY <1>1, <1>2, <1>3

-----------------------------------------------------------------------------
(* Nobody else is listed. *)

(* What an ex-caller's newest connection still asks for, it takes back.    *)
JoinsUndone ==
  \A c \in ConnId, u \in Users, ch \in Channels :
    task[c].user = u /\ incall[u] # ch /\ (\A d \in ConnId : task[d].user = u => d <= c) =>
      /\ task[c].pc = "join" /\ task[c].ch = ch => HasLeave(c, ch)
      /\ \A n \in DOMAIN up[c] : up[c][n] = JoinOf(ch) =>
           \E k \in DOMAIN up[c] : k > n /\ up[c][k] = LeaveOf(ch)

(* Who is listed and in the call no more has sent a call_leave. *)
ListedUndone ==
  \A u \in Users, ch \in Channels : incall[u] # ch /\ u \in calls[ch] =>
    \E c \in ConnId : task[c].user = u /\ HasLeave(c, ch)

LEMMA NoRaceStep ==
  ASSUME Base, [Next]_vars, races' = {}
  PROVE  /\ races = {}
         /\ \A c \in ConnId : task[c].pc = "join" /\ task'[c].pc # "join" =>
              \A d \in ConnId : task[d].user = task[c].user => ~ (d > c)
         /\ \A u \in Users : Leave(u) => up' # up
         /\ \A c \in ConnId : Break(c) =>
              \A n \in Len(up'[c]) + 1 .. Len(up[c]) : up[c][n].type # "call_leave"
<1>1. races = {} /\ (UNCHANGED vars \/ RacesOf = {})
  BY DEF Next, vars
<1>2. CASE UNCHANGED vars
  <2>1. /\ \A u \in Users : ~ Leave(u)
        /\ \A c \in ConnId : ~ Break(c)
    BY <1>2 DEF vars, clientVars, Leave, Break, Base, ClientTypeOK
  <2>2. QED
    BY <1>1, <1>2, <2>1 DEF vars, hubVars
<1>3. CASE RacesOf = {}
  <2>1. "old_join" \in Race
    BY DEF Race
  <2>2. \A c \in ConnId : task[c].pc = "join" /\ task'[c].pc # "join" =>
              \A d \in ConnId : task[d].user = task[c].user => ~ (d > c)
    BY <1>3, <2>1 DEF RacesOf
  <2>3. ASSUME NEW u \in Users, Leave(u)
        PROVE  up' # up
    <3>1. incall[u] # Nil /\ incall'[u] = Nil
      BY <2>3 DEF Leave, Base, ClientTypeOK
    <3>2. QED
      BY <1>3, <3>1 DEF RacesOf
  <2>4. ASSUME NEW c \in ConnId, Break(c)
        PROVE  \A n \in Len(up'[c]) + 1 .. Len(up[c]) : up[c][n].type # "call_leave"
    <3>1. c \in broken' \ broken
      BY <2>4, BreakStep
    <3>2. QED
      BY <1>3, <3>1 DEF RacesOf
  <2>5. QED
    BY <1>1, <2>2, <2>3, <2>4
<1>4. QED
  BY <1>1, <1>2, <1>3

(* Without a race no call_leave is lost while a connection breaks. *)
LEMMA BreakKeeps ==
  ASSUME Base, [Next]_vars, races' = {}, NEW c \in ConnId, Break(c), NEW ch \in Channels,
         NEW k \in DOMAIN up[c], up[c][k] = LeaveOf(ch)
  PROVE  k \in DOMAIN up'[c] /\ up'[c][k] = LeaveOf(ch)
<1>1. PICK n \in 0 .. Len(up[c]) : /\ up'[c] \in Seq(ClientMsg) /\ Len(up'[c]) = n
                                   /\ \A i \in 1 .. n : up'[c][i] = up[c][i]
  BY BreakStep
<1>2. PICK q \in Seq(ClientMsg) : q = up[c]
  BY DEF Base, ClientTypeOK
<1>3. k \in 1 .. Len(q) /\ Len(q) \in Nat /\ n \in Nat
  BY <1>1, <1>2
<1>4. ~ (k > n)
  <2>1. up[c][k].type = "call_leave"
    BY DEF LeaveOf, ChannelMsg
  <2>2. \A i \in n + 1 .. Len(q) : up[c][i].type # "call_leave"
    BY <1>1, <1>2, NoRaceStep
  <2>3. k > n => k \in n + 1 .. Len(q)
    BY <1>3
  <2>4. QED
    BY <2>1, <2>2, <2>3
<1>5. k \in 1 .. n /\ DOMAIN up'[c] = 1 .. n
  BY <1>1, <1>3, <1>4
<1>6. QED
  BY <1>1, <1>5

LEMMA LeaveKept ==
  ASSUME Base, [Next]_vars, races' = {}, NEW c \in ConnId, NEW ch \in Channels, HasLeave(c, ch)
  PROVE  HasLeave(c, ch)' \/ ServerRestart \/ (ServerRead(c) /\ Head(up[c]) = LeaveOf(ch))
<1>1. PICK k \in DOMAIN up[c] : up[c][k] = LeaveOf(ch)
  BY DEF HasLeave
<1>2. PICK q \in Seq(ClientMsg) : q = up[c]
  BY DEF Base, ClientTypeOK
<1>3. CASE up'[c] = up[c]
  BY <1>1, <1>3 DEF HasLeave
<1>4. CASE ServerRead(c) /\ up[c] # <<>> /\ up'[c] = Tail(up[c])
  <2>1. Head(q) = q[1] /\ (k # 1 => k - 1 \in DOMAIN Tail(q) /\ Tail(q)[k - 1] = q[k])
    BY <1>1, <1>2, <1>4, TailGives
  <2>2. k # 1 => \E i \in DOMAIN up'[c] : up'[c][i] = LeaveOf(ch)
    BY <1>1, <1>2, <1>4, <2>1
  <2>3. QED
    BY <1>1, <1>2, <1>4, <2>1, <2>2 DEF HasLeave
<1>5. CASE Break(c)
  BY <1>1, <1>5, BreakKeeps DEF HasLeave
<1>6. ASSUME NEW m \in ClientMsg, up'[c] = Append(up[c], m)
      PROVE  HasLeave(c, ch)'
  BY <1>1, <1>2, <1>6, AppendGives DEF HasLeave
<1>7. ASSUME NEW u \in Users, SocketOpen(u), c = next_conn'
      PROVE  FALSE
  <2>1. up[c] = <<>>
    BY <1>7, OpenedIsFresh
  <2>2. QED
    BY <1>1, <2>1
<1>8. QED
  BY <1>3, <1>4, <1>5, <1>6, <1>7, UpStep, MessageTypes DEF JoinOf, LeaveOf

(* A call_leave that is sent without a race goes over the newest connection. *)
LEMMA LeaveSent ==
  ASSUME Base, [Next]_vars, races' = {}, NEW u \in Users, Leave(u)
  PROVE  /\ Live(u) /\ link[u] \in ConnId /\ task[link[u]].user = u /\ incall[u] \in Channels
         /\ up'[link[u]] = Append(up[link[u]], LeaveOf(incall[u]))
         /\ \A c \in ConnId : task[c].user = u => c <= link[u]
<1>1. incall[u] \in Channels /\ up' = Sent(u, LeaveOf(incall[u])) /\ up' # up
  BY NoRaceStep DEF Leave, LeaveOf, Base, ClientTypeOK
<1>2. LeaveOf(incall[u]) \in ClientMsg
  BY <1>1, MessageTypes DEF LeaveOf
<1>3. Live(u) /\ link[u] \in ConnId /\ up'[link[u]] = Append(up[link[u]], LeaveOf(incall[u]))
  BY <1>1, <1>2, SentTypes
<1>4. QED
  BY <1>1, <1>3 DEF Base, LiveIsServed, LinkIsNewest, Live

LEMMA ListedUndoneStep ==
  ASSUME Base, [Next]_vars, races' = {}, JoinsUndone, ListedUndone
  PROVE  ListedUndone'
<1> SUFFICES ASSUME NEW u \in Users, NEW ch \in Channels, incall'[u] # ch, u \in calls'[ch]
             PROVE  \E c \in ConnId : task'[c].user = u /\ HasLeave(c, ch)'
  BY DEF ListedUndone
<1>1. /\ up \in [ConnId -> Seq(ClientMsg)] /\ u # Nil /\ ch # Nil
      /\ calls \in [Channels -> SUBSET Users] /\ task \in [ConnId -> Task]
  BY TypesGive DEF Base, ClientTypeOK
<1>2. ~ ServerRestart
  BY DEF ServerRestart, Restart
<1>3. \A c \in ConnId : task[c].user = u => task'[c].user = u
  <2>1. ASSUME NEW v \in Users, SocketOpen(v), NEW c \in ConnId, task[c].user = u
        PROVE  task'[c].user = u
    BY <1>1, <2>1, OpenedIsFresh, ConnectStep DEF SocketOpen
  <2>2. QED
    BY <2>1, OwnersKept
<1>4. CASE u \in calls[ch] /\ incall[u] = ch
  <2>1. Leave(u)
    BY <1>1, <1>4, IncallStep
  <2>2. /\ link[u] \in ConnId /\ task[link[u]].user = u
        /\ up'[link[u]] = Append(up[link[u]], LeaveOf(ch))
    BY <1>4, <2>1, LeaveSent
  <2>3. PICK q \in Seq(ClientMsg) : q = up[link[u]]
    BY <1>1, <2>2
  <2>4. HasLeave(link[u], ch)' \/ \E k \in DOMAIN up'[link[u]] : up'[link[u]][k] = LeaveOf(ch)
    BY <2>2, <2>3, AppendGives, MessageTypes DEF LeaveOf
  <2>5. \E c \in ConnId : c = link[u] /\ task'[c].user = u /\ \E k \in DOMAIN up'[c] : up'[c][k] = LeaveOf(ch)
    BY <1>3, <2>2, <2>3, AppendGives, MessageTypes DEF LeaveOf
  <2>6. QED
    BY <2>5 DEF HasLeave
<1>5. CASE u \in calls[ch] /\ incall[u] # ch
  <2>1. PICK c \in ConnId : task[c].user = u /\ HasLeave(c, ch)
    BY <1>5 DEF ListedUndone
  <2>2. ~ (ServerRead(c) /\ Head(up[c]) = LeaveOf(ch))
    <3> SUFFICES ASSUME ServerRead(c), Head(up[c]) = LeaveOf(ch) PROVE FALSE
      OBVIOUS
    <3>1. LeaveOf(ch).type = "call_leave" /\ LeaveOf(ch).channel = ch
      BY DEF LeaveOf, ChannelMsg
    <3>2. ReadLeave(c, ch)
      BY <3>1, ServerReadStep
    <3>3. QED
      BY <1>1, <1>5, <2>1, <3>2 DEF ReadLeave
  <2>3. QED
    BY <1>2, <1>3, <2>1, <2>2, LeaveKept
<1>6. CASE u \notin calls[ch]
  <2>1. ASSUME NEW c \in ConnId, ServerStep(c)
        PROVE  CallJoin(c) /\ task[c].user = u /\ task[c].ch = ch
    <3>1. CASE CallJoin(c)
      BY <1>1, <1>6, <3>1, CallJoinMoves
    <3>2. CASE LeaveAll(c)
      BY <1>1, <1>6, <3>2, LeaveAllMoves
    <3>3. CASE calls' = calls
      BY <1>6, <3>3
    <3>4. QED
      BY <2>1, <3>1, <3>2, <3>3 DEF ServerStep, TaskStep, SendJoinRoster, SendPeerJoined, SignalCheck,
         SignalRelay, BroadcastLeft, BroadcastRoster
  <2>2. ASSUME NEW c \in ConnId, ServerRead(c)
        PROVE  FALSE
    <3>1. calls' = calls \/ \E d \in Channels : calls' = [calls EXCEPT ![d] = @ \ {task[c].user}]
      BY <2>2, ServerReadStep, TakeMsgStep, TypesGive
    <3>2. QED
      BY <1>1, <1>6, <3>1
  <2>3. CASE calls' = calls
    BY <1>6, <2>3
  <2>4. CASE \E c \in ConnId : ServerStep(c)
    <3>1. PICK c \in ConnId : ServerStep(c)
      BY <2>4
    <3>2. /\ task[c].user = u /\ task[c].pc = "join" /\ task[c].ch = ch /\ task'[c].pc = "roster"
          /\ up' = up /\ incall' = incall
      BY <2>1, <3>1, CallJoinMoves DEF ServerStep, clientVars
    <3>3. \A d \in ConnId : task[d].user = u => d <= c
      <4>1. \A d \in ConnId : task[d].user = u => ~ (d > c)
        BY <3>2, NoRaceStep
      <4>2. QED
        BY <4>1, TypesGive
    <3>4. HasLeave(c, ch)
      BY <3>2, <3>3 DEF JoinsUndone
    <3>5. QED
      BY <1>3, <3>2, <3>4 DEF HasLeave
  <2>5. QED
    BY <1>2, <2>2, <2>3, <2>4
       DEF Next, Client, System, vars, hubVars, SocketOpen, Connect, SocketClose, Receive, Deliver, Leave,
           Join, SendSignal, Break, ServerNotices, Unregister
<1>7. QED
  BY <1>4, <1>5, <1>6

LEMMA JoinsUndoneStep ==
  ASSUME Base, [Next]_vars, races' = {}, JoinsUndone
  PROVE  JoinsUndone'
<1> SUFFICES ASSUME NEW c \in ConnId, NEW u \in Users, NEW ch \in Channels,
                    task'[c].user = u, incall'[u] # ch,
                    \A d \in ConnId : task'[d].user = u => d <= c
             PROVE  /\ task'[c].pc = "join" /\ task'[c].ch = ch => HasLeave(c, ch)'
                    /\ \A n \in DOMAIN up'[c] : up'[c][n] = JoinOf(ch) =>
                         \E k \in DOMAIN up'[c] : k > n /\ up'[c][k] = LeaveOf(ch)
  BY DEF JoinsUndone
<1> DEFINE Undone(q) == \A n \in DOMAIN q : q[n] = JoinOf(ch) => \E k \in DOMAIN q : k > n /\ q[k] = LeaveOf(ch)
<1>1. /\ up \in [ConnId -> Seq(ClientMsg)] /\ u # Nil /\ ch # Nil /\ ConnId \subseteq Nat
      /\ next_conn \in Nat /\ task \in [ConnId -> Task] /\ incall \in [Users -> Channels \cup {Nil}]
  BY TypesGive DEF Base, ClientTypeOK
<1>2. PICK q \in Seq(ClientMsg) : q = up[c]
  BY <1>1
<1>3. JoinOf(ch) # LeaveOf(ch) /\ \A d : JoinOf(d) = JoinOf(ch) => d = ch
  BY DEF JoinOf, LeaveOf, ChannelMsg
<1>4. ASSUME NEW v \in Users, SocketOpen(v), c = next_conn'
      PROVE  task'[c].pc # "join" /\ Undone(up'[c])
  <2>1. task'[c].pc = "read" /\ v = u /\ up[c] = <<>> /\ incall' = incall
    BY <1>4, ConnectStep, OpenedIsFresh DEF SocketOpen
  <2>2. up'[c] = <<>> \/ up'[c] = <<JoinOf(incall[u])>>
    BY <1>1, <1>4, <2>1 DEF SocketOpen, JoinOf
  <2>3. JoinOf(incall[u]) # JoinOf(ch)
    BY <1>3, <2>1
  <2>4. QED
    BY <2>1, <2>2, <2>3
<1>5. CASE \A v \in Users : ~ (SocketOpen(v) /\ c = next_conn')
  <2>1. task[c].user = u /\ \A d \in ConnId : task[d].user = u => d <= c
    <3>1. ASSUME NEW v \in Users, SocketOpen(v)
          PROVE  task[c].user = u /\ \A d \in ConnId : task[d].user = u => d <= c
      <4>1. \A d \in ConnId : task[d].user = u => d # next_conn'
        BY <1>1, <3>1, OpenedIsFresh
      <4>2. \A d \in ConnId \ {next_conn'} : task'[d] = task[d]
        BY <3>1, ConnectStep DEF SocketOpen
      <4>3. QED
        BY <1>5, <3>1, <4>1, <4>2
    <3>2. QED
      BY <3>1, OwnersKept
  <2>2. CASE Leave(u) /\ incall[u] = ch
    <3>1. link[u] = c
      <4>1. link[u] \in ConnId /\ task[link[u]].user = u /\ c <= link[u]
        BY <2>1, <2>2, LeaveSent
      <4>2. link[u] <= c
        BY <2>1, <4>1
      <4>3. QED
        BY <1>1, <4>1, <4>2
    <3>2. up'[c] = Append(q, LeaveOf(ch))
      BY <1>2, <2>2, <3>1, LeaveSent
    <3>3. /\ DOMAIN up'[c] = DOMAIN q \cup {Len(q) + 1}
          /\ \A k \in DOMAIN q : k < Len(q) + 1
          /\ up'[c][Len(q) + 1] = LeaveOf(ch)
      BY <3>2, AppendGives, MessageTypes DEF LeaveOf
    <3>4. HasLeave(c, ch)'
      BY <3>3 DEF HasLeave
    <3> HIDE DEF HasLeave
    <3>5. Undone(up'[c])
      BY <1>3, <3>3
    <3>6. QED
      BY <3>4, <3>5
  <2>3. CASE ~ (Leave(u) /\ incall[u] = ch)
    <3>1. incall[u] # ch
      BY <1>1, <2>3, IncallStep
    <3>2. /\ task[c].pc = "join" /\ task[c].ch = ch => HasLeave(c, ch)
          /\ Undone(q)
      BY <1>2, <2>1, <3>1 DEF JoinsUndone
    <3>3. Undone(up'[c])
      <4>1. CASE up'[c] = up[c]
        BY <1>2, <3>2, <4>1
      <4>2. CASE ServerRead(c) /\ up[c] # <<>> /\ up'[c] = Tail(up[c])
        <5>1. ASSUME NEW n \in DOMAIN Tail(q), Tail(q)[n] = JoinOf(ch)
              PROVE  \E k \in DOMAIN Tail(q) : k > n /\ Tail(q)[k] = LeaveOf(ch)
          <6>1. n \in Nat /\ n + 1 \in DOMAIN q /\ q[n + 1] = JoinOf(ch)
            BY <1>2, <4>2, <5>1, TailGives
          <6>2. PICK k \in DOMAIN q : k > n + 1 /\ q[k] = LeaveOf(ch)
            BY <3>2, <6>1
          <6>3. k \in Nat /\ k # 1 /\ k - 1 > n
            BY <1>2, <6>1, <6>2
          <6>4. k - 1 \in DOMAIN Tail(q) /\ Tail(q)[k - 1] = LeaveOf(ch)
            BY <1>2, <4>2, <6>2, <6>3, TailGives
          <6>5. QED
            BY <6>3, <6>4
        <5>2. QED
          BY <1>2, <4>2, <5>1
      <4>3. CASE Break(c)
        <5>1. ASSUME NEW n \in DOMAIN up'[c], up'[c][n] = JoinOf(ch)
              PROVE  \E k \in DOMAIN up'[c] : k > n /\ up'[c][k] = LeaveOf(ch)
          <6>1. n \in DOMAIN q /\ q[n] = JoinOf(ch)
            <7>1. PICK m \in 0 .. Len(q) : /\ up'[c] \in Seq(ClientMsg) /\ Len(up'[c]) = m
                                           /\ \A k \in 1 .. m : up'[c][k] = q[k]
              BY <1>2, <4>3, BreakStep
            <7>2. n \in 1 .. m /\ 1 .. m \subseteq DOMAIN q
              BY <5>1, <7>1
            <7>3. QED
              BY <5>1, <7>1, <7>2
          <6>2. PICK k \in DOMAIN q : k > n /\ q[k] = LeaveOf(ch)
            BY <3>2, <6>1
          <6>3. k \in DOMAIN up'[c] /\ up'[c][k] = LeaveOf(ch)
            BY <1>2, <4>3, <6>2, BreakKeeps
          <6>4. QED
            BY <6>2, <6>3
        <5>2. QED
          BY <5>1
      <4>4. CASE up'[c] = <<>>
        BY <4>4
      <4>5. ASSUME NEW m \in ClientMsg, m # JoinOf(ch), up'[c] = Append(up[c], m)
            PROVE  Undone(up'[c])
        <5>1. /\ DOMAIN up'[c] = DOMAIN q \cup {Len(q) + 1}
              /\ \A k \in DOMAIN q : up'[c][k] = q[k]
              /\ up'[c][Len(q) + 1] = m
          BY <1>2, <4>5, AppendGives
        <5>2. QED
          BY <3>2, <4>5, <5>1
      <4>6. ASSUME NEW v \in Users, Live(v), c = link[v]
            PROVE  v = u
        BY <2>1, <4>6 DEF Base, LiveIsServed
      <4>7. ASSUME NEW d \in Channels, Join(u, d)
            PROVE  JoinOf(d) # JoinOf(ch) /\ JoinOf(d) \in ClientMsg
        BY <1>1, <1>3, <4>7, MessageTypes DEF Join, JoinOf
      <4>8. ASSUME NEW m \in ClientMsg, m.type = "signal"
            PROVE  m # JoinOf(ch)
        BY <4>8 DEF JoinOf, ChannelMsg
      <4>9. \A d \in Channels : LeaveOf(d) # JoinOf(ch) /\ LeaveOf(d) \in ClientMsg
        BY MessageTypes DEF JoinOf, LeaveOf, ChannelMsg
      <4>10. QED
        BY <1>5, <4>1, <4>2, <4>3, <4>4, <4>5, <4>6, <4>7, <4>8, <4>9, UpStep
    <3>4. ASSUME task'[c].pc = "join", task'[c].ch = ch
          PROVE  HasLeave(c, ch)'
      <4>1. CASE task'[c] = task[c]
        <5>1. HasLeave(c, ch) /\ task[c].pc = "join"
          BY <3>2, <3>4, <4>1
        <5>2. ~ ServerRead(c)
          BY <5>1, ServerReadStep, TakeMsgStep, TypesGive
        <5>3. ~ ServerRestart
          BY <3>4, <5>1 DEF ServerRestart, Restart, At
        <5>4. QED
          BY <5>1, <5>2, <5>3, LeaveKept
      <4>2. CASE ServerRead(c)
        <5>1. /\ Head(q) \in ClientMsg /\ q # <<>> /\ up'[c] = Tail(q) /\ TakeMsg(c)
              /\ Head(q).type = "call_join" /\ ReadJoin(c, Head(q).channel)
          <6>1. /\ Head(q) \in ClientMsg /\ q # <<>> /\ up'[c] = Tail(q) /\ TakeMsg(c)
                /\ \/ Head(q).type = "call_join" /\ ReadJoin(c, Head(q).channel)
                   \/ Head(q).type = "call_leave" /\ ReadLeave(c, Head(q).channel)
                   \/ Head(q).type = "signal" /\ ReadSignal(c, Head(q).channel, Head(q).to)
            BY <1>1, <1>2, <4>2, ServerReadStep
          <6>2. \A d : ReadLeave(c, d) => task'[c].pc # "join"
            BY <1>1, <3>4 DEF ReadLeave, Task
          <6>3. \A d, to : ReadSignal(c, d, to) => task'[c].pc # "join"
            BY <1>1, <3>4 DEF ReadSignal, Task
          <6>4. QED
            BY <3>4, <6>1, <6>2, <6>3
        <5>2. Head(q).channel = ch
          BY <1>1, <3>4, <5>1 DEF ReadJoin, Task
        <5>3. Head(q) = JoinOf(ch) /\ Head(q) = q[1] /\ 1 \in DOMAIN q
          BY <5>1, <5>2, TailGives DEF ClientMsg, JoinOf, ChannelMsg
        <5>4. PICK k \in DOMAIN q : k > 1 /\ q[k] = LeaveOf(ch)
          BY <3>2, <5>3
        <5>5. k - 1 \in DOMAIN Tail(q) /\ Tail(q)[k - 1] = LeaveOf(ch)
          BY <5>1, <5>4, TailGives
        <5>6. QED
          BY <5>1, <5>5 DEF HasLeave
      <4>3. ASSUME NEW d \in ConnId, ServerRead(d), d # c
            PROVE  task'[c] = task[c]
        BY <4>3, ServerReadStep, TakeMsgStep, TypesGive
      <4>4. ASSUME NEW d \in ConnId, ServerStep(d)
            PROVE  task'[c] = task[c]
        <5>1. CASE d # c
          BY <4>4, <5>1, TaskStepType, TypesGive DEF ServerStep, IInv
        <5>2. CASE d = c
          <6>1. task'[c].pc # "join"
            BY <4>4, <5>2, CallJoinMoves, SendJoinRosterMoves, SendPeerJoinedMoves, SignalCheckMoves,
               SignalRelayMoves, LeaveAllMoves, BroadcastLeftMoves, BroadcastRosterMoves
               DEF ServerStep, TaskStep
          <6>2. QED
            BY <3>4, <6>1
        <5>3. QED
          BY <5>1, <5>2
      <4>5. ASSUME NEW d \in ConnId, ServerNotices(d)
            PROVE  task'[c] = task[c]
        <5>1. Unregister(d)
          BY <4>5 DEF ServerNotices
        <5>2. task'[d].pc # "join" /\ \A e \in ConnId \ {d} : task'[e] = task[e]
          BY <5>1, UnregisterStep, TypesGive DEF AfterUnregister
        <5>3. QED
          BY <3>4, <5>2
      <4>6. ASSUME NEW v \in Users, SocketOpen(v)
            PROVE  task'[c] = task[c]
        BY <1>5, <4>6, ConnectStep DEF SocketOpen
      <4>7. CASE ServerRestart
        <5>1. task'[c] = task[c]
          BY <3>4, <4>7 DEF ServerRestart, Restart, At
        <5>2. QED
          BY <4>1, <5>1
      <4>8. QED
        BY <4>1, <4>2, <4>3, <4>4, <4>5, <4>6, <4>7
           DEF Next, Client, System, vars, hubVars, SocketClose, Receive, Deliver, Leave, Join,
               SendSignal, Break
    <3>5. QED
      BY <3>3, <3>4
  <2>4. QED
    BY <2>2, <2>3
<1>6. QED
  BY <1>4, <1>5

(* What relates who is in a call to who is listed. *)
RosterInv ==
  /\ Sound => CallersListed
  /\ races = {} => JoinsUndone /\ ListedUndone

LEMMA RosterHolds == Spec => [](Base /\ RosterInv)
<1>1. Init => RosterInv
  BY NilIsNew DEF Init, HubInit, At, RosterInv, CallersListed, JoinsUndone, ListedUndone
<1>2. Base /\ RosterInv /\ [Next]_vars => RosterInv'
  <2> SUFFICES ASSUME Base, RosterInv, [Next]_vars
               PROVE  RosterInv'
    OBVIOUS
  <2>1. ASSUME Sound'
        PROVE  CallersListed'
    BY <2>1, SoundStep, CallersListedStep DEF RosterInv
  <2>2. ASSUME races' = {}
        PROVE  JoinsUndone' /\ ListedUndone'
    BY <2>2, NoRaceStep, JoinsUndoneStep, ListedUndoneStep DEF RosterInv
  <2>3. QED
    BY <2>1, <2>2 DEF RosterInv
<1>3. QED
  BY <1>1, <1>2, BaseHolds, PTL DEF Spec

(* Once all is quiet the hub lists who is in a call, whatever broke in     *)
(* between, and nobody else, but for the named races: the call_join that   *)
(* follows each reopened socket (CallManager's open listener) is enough.   *)
THEOREM ListedAreCallers == Spec => []RosterIsOfCallers
<1>1. Base /\ RosterInv => RosterIsOfCallers
  <2> SUFFICES ASSUME Base, RosterInv, Quiet, Sound, NEW u \in Users, NEW ch \in Channels
               PROVE  /\ incall[u] = ch => u \in calls[ch]
                      /\ incall[u] # ch /\ races = {} => u \notin calls[ch]
    BY DEF RosterIsOfCallers
  <2>1. \A c \in ConnId : up[c] = <<>> /\ ~ HasLeave(c, ch) /\ ~ AsksToJoin(c, ch)
    BY DEF Quiet, HasLeave, AsksToJoin
  <2>2. ASSUME incall[u] = ch
        PROVE  u \in calls[ch]
    <3>1. Live(u) /\ link[u] \in ConnId /\ ch # Nil
      BY TypesGive DEF Quiet, Live, Base, ClientTypeOK
    <3>2. task[link[u]].pc # "join"
      BY <3>1 DEF Quiet
    <3>3. QED
      BY <2>1, <2>2, <3>1, <3>2 DEF RosterInv, CallersListed, ListedOrJoining
  <2>3. ASSUME incall[u] # ch, races = {}
        PROVE  u \notin calls[ch]
    BY <2>1, <2>3 DEF RosterInv, ListedUndone
  <2>4. QED
    BY <2>2, <2>3
<1>2. QED
  BY <1>1, RosterHolds, PTL

-----------------------------------------------------------------------------
(* Nobody has a peer connection to itself. *)

ConnsAreOwned ==
  \A u \in Users : \A c \in conns[u] : task[c].user = u /\ task[c].pc # "off"

OffIsEmpty == \A c \in ConnId : task[c].pc = "off" => rx[c] = <<>>

NoSelfPeer == \A u \in Users : u \notin peers[u]

NoSelfSent ==
  \A c \in ConnId : \A k \in DOMAIN up[c] : up[c][k].type = "signal" => up[c][k].to # task[c].user

NoSelfSignal == \A c \in ConnId : task[c].pc = "signal" => task[c].to # task[c].user

NoSelfEvent ==
  \A c \in ConnId : \A k \in DOMAIN rx[c] : rx[c][k].type = "signal" => rx[c][k].user # task[c].user

NoSelf ==
  /\ ConnsAreOwned /\ OffIsEmpty
  /\ NoSelfPeer /\ NoSelfSent /\ NoSelfSignal /\ NoSelfEvent

(* Which steps move the task of d. *)
LEMMA TaskChange ==
  ASSUME Base, [Next]_vars, NEW d \in ConnId
  PROVE  \/ task'[d] = task[d]
         \/ ServerRestart /\ task'[d] = At("done", task[d].user)
         \/ ServerRead(d)
         \/ ServerStep(d)
         \/ ServerNotices(d)
         \/ \E u \in Users : SocketOpen(u) /\ d = next_conn' /\ task'[d] = At("read", u)
<1>1. ASSUME NEW c \in ConnId, ServerRead(c)
      PROVE  task'[d] = task[d] \/ c = d
  BY <1>1, ServerReadStep, TakeMsgStep, TypesGive
<1>2. ASSUME NEW c \in ConnId, ServerStep(c)
      PROVE  task'[d] = task[d] \/ c = d
  BY <1>2, TaskStepType, TypesGive DEF ServerStep, IInv
<1>3. ASSUME NEW c \in ConnId, ServerNotices(c)
      PROVE  task'[d] = task[d] \/ c = d
  BY <1>3, UnregisterStep, TypesGive DEF ServerNotices
<1>4. ASSUME NEW u \in Users, SocketOpen(u)
      PROVE  task'[d] = task[d] \/ (d = next_conn' /\ task'[d] = At("read", u))
  BY <1>4, TypesGive DEF SocketOpen, Connect
<1>5. ASSUME ServerRestart
      PROVE  task'[d] = task[d] \/ task'[d] = At("done", task[d].user)
  BY <1>5 DEF ServerRestart, Restart
<1>6. CASE UNCHANGED hubVars
  BY <1>6 DEF hubVars
<1>7. QED
  BY <1>1, <1>2, <1>3, <1>4, <1>5, <1>6
     DEF Next, Client, System, vars, hubVars, SocketClose, Receive, Deliver, Leave, Join, SendSignal, Break

(* What task d sends to v. *)
Sends(d, ev, v) ==
  \/ /\ SendJoinRoster(d) /\ ev = RosterEvent(task[d].ch, task[d].roster)
  \/ /\ SendPeerJoined(d) /\ ev = UserEvent("call_peer_joined", task[d].ch, task[d].user)
  \/ /\ SignalRelay(d) /\ ev = UserEvent("signal", task[d].ch, task[d].user) /\ v = task[d].to
  \/ /\ BroadcastLeft(d)
     /\ \E ch \in Channels : /\ ev = UserEvent("call_peer_left", ch, task[d].user)
                             /\ task'[d].pc = "left_roster" /\ task'[d].ch = ch
  \/ /\ BroadcastRoster(d) /\ ev = RosterEvent(task[d].ch, task[d].roster)

(* What happens to the events queued for c. *)
LEMMA RxStep ==
  ASSUME Base, [Next]_vars, NEW c \in ConnId
  PROVE  \/ rx'[c] = rx[c]
         \/ (ServerRestart \/ ServerNotices(c)) /\ rx'[c] = <<>>
         \/ \E u \in Users : Receive(u) /\ link[u] = c /\ rx[c] # <<>> /\ rx'[c] = Tail(rx[c])
         \/ \E ev \in Event, v \in Users, d \in ConnId :
              /\ ServerStep(d) /\ Sends(d, ev, v) /\ calls' = calls
              /\ c \in conns[v] /\ rx'[c] = Append(rx[c], ev)
<1> DEFINE Sent4 == \E ev \in Event, v \in Users, d \in ConnId :
                     /\ ServerStep(d) /\ Sends(d, ev, v) /\ calls' = calls
                     /\ c \in conns[v] /\ rx'[c] = Append(rx[c], ev)
<1>1. rx \in [ConnId -> Seq(Event)]
  BY TypesGive
<1>2. ASSUME NEW d \in ConnId, ServerStep(d)
      PROVE  rx'[c] = rx[c] \/ Sent4
  <2>1. ASSUME NEW ev \in Event, NEW S \in SUBSET Users, send_many(S, ev),
               \A v \in S : Sends(d, ev, v), calls' = calls
        PROVE  rx'[c] = rx[c] \/ Sent4
    BY <1>2, <2>1 DEF send_many
  <2>2. CASE SendJoinRoster(d)
    <3>1. PICK ev \in Event : ev = RosterEvent(task[d].ch, task[d].roster)
      BY <2>2, SendJoinRosterMoves, EventTypes
    <3>2. QED
      BY <2>1, <2>2, <3>1, SendJoinRosterMoves DEF Sends
  <2>3. CASE SendPeerJoined(d)
    <3>1. PICK ev \in Event : ev = UserEvent("call_peer_joined", task[d].ch, task[d].user)
      BY <2>3, SendPeerJoinedMoves, EventTypes
    <3>2. task[d].roster \ {task[d].user} \in SUBSET Users
      BY TypesGive DEF Task
    <3>3. QED
      BY <2>1, <2>3, <3>1, <3>2, SendPeerJoinedMoves DEF Sends
  <2>4. CASE SignalRelay(d)
    <3>1. PICK ev \in Event : ev = UserEvent("signal", task[d].ch, task[d].user)
      BY <2>4, SignalRelayMoves, EventTypes
    <3>2. {task[d].to} \in SUBSET Users
      BY <2>4, SignalRelayMoves
    <3>3. QED
      BY <2>1, <2>4, <3>1, <3>2, SignalRelayMoves DEF Sends
  <2>5. CASE BroadcastLeft(d)
    <3>1. PICK p \in task[d].todo :
            /\ task[d].user \in Users /\ p[1] \in Channels /\ p[2] \in SUBSET Users
            /\ send_many(p[2], UserEvent("call_peer_left", p[1], task[d].user)) /\ calls' = calls
            /\ task'[d].pc = "left_roster" /\ task'[d].ch = p[1]
      BY <2>5, BroadcastLeftMoves
    <3>2. PICK ev \in Event : ev = UserEvent("call_peer_left", p[1], task[d].user)
      BY <3>1, EventTypes
    <3>3. QED
      BY <2>1, <2>5, <3>1, <3>2 DEF Sends
  <2>6. CASE BroadcastRoster(d)
    <3>1. PICK ev \in Event : ev = RosterEvent(task[d].ch, task[d].roster)
      BY <2>6, BroadcastRosterMoves, EventTypes
    <3>2. QED
      BY <2>1, <2>6, <3>1, BroadcastRosterMoves DEF Sends
  <2>7. CASE rx' = rx
    BY <2>7
  <2>8. QED
    BY <1>2, <2>2, <2>3, <2>4, <2>5, <2>6, <2>7
       DEF ServerStep, TaskStep, CallJoin, SignalCheck, LeaveAll
<1>3. ASSUME NEW u \in Users, Receive(u)
      PROVE  rx'[c] = rx[c] \/ (link[u] = c /\ rx[c] # <<>> /\ rx'[c] = Tail(rx[c]))
  BY <1>1, <1>3 DEF Receive, Deliver
<1>4. ASSUME NEW d \in ConnId, ServerNotices(d)
      PROVE  rx'[c] = rx[c] \/ (d = c /\ rx'[c] = <<>>)
  BY <1>1, <1>4 DEF ServerNotices, Unregister
<1>5. ServerRestart => rx'[c] = <<>>
  BY DEF ServerRestart, Restart
<1>6. CASE rx' = rx
  BY <1>6
<1> HIDE DEF Sent4
<1>7. \/ rx'[c] = rx[c]
      \/ Sent4
      \/ (ServerRestart \/ ServerNotices(c)) /\ rx'[c] = <<>>
      \/ \E u \in Users : Receive(u) /\ link[u] = c /\ rx[c] # <<>> /\ rx'[c] = Tail(rx[c])
  BY <1>2, <1>3, <1>4, <1>5, <1>6
     DEF Next, Client, System, vars, hubVars, SocketOpen, Connect, SocketClose, Leave, Join, SendSignal,
         Break, ServerRead, ReadJoin, ReadLeave, ReadSignal
<1>8. QED
  BY <1>7 DEF Sent4

LEMMA ConnsOwnedStep ==
  ASSUME Base, ConnsAreOwned, OffIsEmpty, [Next]_vars
  PROVE  ConnsAreOwned' /\ OffIsEmpty'
<1>1. conns \in [Users -> SUBSET ConnId] /\ rx \in [ConnId -> Seq(Event)]
  BY TypesGive
<1>2. ASSUME NEW u \in Users, SocketOpen(u)
      PROVE  ConnsAreOwned' /\ OffIsEmpty'
  <2>1. /\ conns' = [conns EXCEPT ![u] = @ \cup {next_conn'}] /\ rx' = rx
        /\ \A c \in ConnId \ {next_conn'} : task'[c] = task[c]
        /\ task'[next_conn'].user = u /\ task'[next_conn'].pc = "read" /\ task[next_conn'].pc = "off"
    BY <1>2, ConnectStep, OpenedIsFresh DEF SocketOpen
  <2>2. OffIsEmpty'
    BY <2>1 DEF OffIsEmpty
  <2>3. ASSUME NEW v \in Users, NEW c \in conns'[v]
        PROVE  task'[c].user = v /\ task'[c].pc # "off"
    <3>1. c \in ConnId /\ (c \in conns[v] \/ (v = u /\ c = next_conn'))
      BY <1>1, <1>2, <2>1, OpenedIsFresh
    <3>2. CASE c = next_conn'
      BY <2>1, <3>1, <3>2 DEF ConnsAreOwned
    <3>3. CASE c # next_conn'
      BY <2>1, <3>1, <3>3 DEF ConnsAreOwned
    <3>4. QED
      BY <3>2, <3>3
  <2>4. QED
    BY <2>2, <2>3 DEF ConnsAreOwned
<1>3. CASE \A u \in Users : ~ SocketOpen(u)
  <2>1. \A c \in ConnId : task'[c].user = task[c].user /\ (task'[c].pc = "off" <=> task[c].pc = "off")
    BY <1>3, OwnersKept
  <2>2. \A u \in Users : conns'[u] \subseteq conns[u]
    <3>1. ASSUME NEW c \in ConnId, ServerRead(c) \/ ServerStep(c)
          PROVE  conns' = conns
      BY <3>1, ServerReadStep, TakeMsgStep, TaskStepType, TypesGive DEF ServerStep, IInv
    <3>2. ASSUME NEW c \in ConnId, ServerNotices(c)
          PROVE  \A u \in Users : conns'[u] \subseteq conns[u]
      <4>1. conns' = [conns EXCEPT ![task[c].user] = @ \ {c}]
        BY <3>2, UnregisterStep, TypesGive DEF ServerNotices
      <4>2. QED
        BY <1>1, <4>1
    <3>3. ServerRestart => \A u \in Users : conns'[u] \subseteq conns[u]
      BY DEF ServerRestart, Restart
    <3>4. CASE conns' = conns
      BY <3>4
    <3>5. QED
      BY <1>3, <3>1, <3>2, <3>3, <3>4
         DEF Next, Client, System, vars, hubVars, SocketClose, Receive, Deliver, Leave, Join,
             SendSignal, Break
  <2>3. ConnsAreOwned'
    BY <1>1, <2>1, <2>2 DEF ConnsAreOwned
  <2>4. ASSUME NEW c \in ConnId, task'[c].pc = "off"
        PROVE  rx'[c] = <<>>
    <3>1. rx[c] = <<>> /\ task[c].pc = "off"
      BY <2>1, <2>4 DEF OffIsEmpty
    <3>2. \A v \in Users : c \notin conns[v]
      BY <3>1 DEF ConnsAreOwned
    <3>3. QED
      BY <3>1, <3>2, RxStep
  <2>5. QED
    BY <2>3, <2>4 DEF OffIsEmpty
<1>4. QED
  BY <1>2, <1>3

(* A task that starts, and no other, gets a user. *)
LEMMA UserKept ==
  ASSUME Base, [Next]_vars, NEW c \in ConnId
  PROVE  \/ task'[c].user = task[c].user
         \/ /\ task[c].pc = "off" /\ up[c] = <<>> /\ task'[c].pc = "read"
            /\ \E u \in Users : SocketOpen(u) /\ c = next_conn'
<1>1. CASE \A u \in Users : ~ SocketOpen(u)
  BY <1>1, OwnersKept
<1>2. ASSUME NEW u \in Users, SocketOpen(u)
      PROVE  c = next_conn' \/ task'[c].user = task[c].user
  BY <1>2, ConnectStep DEF SocketOpen
<1>3. ASSUME NEW u \in Users, SocketOpen(u), c = next_conn'
      PROVE  task[c].pc = "off" /\ up[c] = <<>> /\ task'[c].pc = "read"
  BY <1>3, OpenedIsFresh, ConnectStep DEF SocketOpen
<1>4. QED
  BY <1>1, <1>2, <1>3

LEMMA NoSelfPeerStep ==
  ASSUME Base, NoSelf, [Next]_vars
  PROVE  NoSelfPeer'
<1>1. peers \in [Users -> SUBSET Users] /\ NoSelfPeer
  BY TypesGive DEF ClientTypeOK, NoSelf
<1>2. ASSUME NEW u \in Users, Receive(u)
      PROVE  NoSelfPeer'
  <2>1. PICK ev : ev = Head(rx[link[u]])
    OBVIOUS
  <2>2. PICK c \in ConnId : c = link[u] /\ task[c].user = u
    BY <1>2, <2>1, HandleStep DEF Base, LiveIsServed
  <2>3. ev.type = "signal" => ev.user # u
    <3>1. PICK q \in Seq(Event) : q = rx[c] /\ q # <<>>
      BY <1>2, <2>1, <2>2, HandleStep, TypesGive
    <3>2. 1 \in DOMAIN q /\ ev = q[1]
      BY <2>1, <2>2, <3>1, TailGives
    <3>3. QED
      BY <2>2, <3>1, <3>2 DEF NoSelf, NoSelfEvent
  <2>4. QED
    BY <1>1, <1>2, <2>1, <2>3, HandleStep DEF NoSelfPeer
<1>3. ASSUME NEW u \in Users, Leave(u)
      PROVE  NoSelfPeer'
  BY <1>1, <1>3 DEF Leave, NoSelfPeer
<1>4. CASE peers' = peers
  BY <1>1, <1>4 DEF NoSelfPeer
<1>5. QED
  BY <1>2, <1>3, <1>4
     DEF Next, Client, System, vars, clientVars, SocketOpen, SocketClose, Join, SendSignal, Break,
         ServerRead, ServerStep, ServerNotices, ServerRestart

LEMMA NoSelfSentStep ==
  ASSUME Base, NoSelf, [Next]_vars
  PROVE  NoSelfSent'
<1> SUFFICES ASSUME NEW c \in ConnId, NEW k \in DOMAIN up'[c], up'[c][k].type = "signal"
             PROVE  up'[c][k].to # task'[c].user
  BY DEF NoSelfSent
<1>1. PICK q \in Seq(ClientMsg) : q = up[c]
  BY DEF Base, ClientTypeOK
<1>2. \A n \in DOMAIN q : q[n].type = "signal" => q[n].to # task[c].user
  BY <1>1 DEF NoSelf, NoSelfSent
<1>3. PICK r : r = up'[c]
  OBVIOUS
<1>4. k \in DOMAIN r /\ r[k].type = "signal"
  BY <1>3
<1>5. CASE r = q \/ (q # <<>> /\ r = Tail(q))
  <2>1. q # <<>> /\ \E n \in DOMAIN q : r[k] = q[n]
    <3>1. CASE r = q
      BY <1>4, <3>1
    <3>2. CASE q # <<>> /\ r = Tail(q)
      BY <1>1, <1>4, <3>2, TailGives
    <3>3. QED
      BY <1>5, <3>1, <3>2
  <2>2. r[k].to # task[c].user
    BY <1>2, <1>4, <2>1
  <2>3. task'[c].user = task[c].user
    BY <1>1, <2>1, UserKept
  <2>4. QED
    BY <1>3, <2>2, <2>3
<1>6. CASE Break(c)
  <2>1. r[k] = q[k] /\ k \in DOMAIN q
    <3>1. PICK n \in 0 .. Len(q) : /\ r \in Seq(ClientMsg) /\ Len(r) = n
                                   /\ \A i \in 1 .. n : r[i] = q[i]
      BY <1>1, <1>3, <1>6, BreakStep
    <3>2. k \in 1 .. n /\ DOMAIN q = 1 .. Len(q) /\ n \in Nat /\ Len(q) \in Nat
      BY <1>1, <1>4, <3>1
    <3>3. QED
      BY <3>1, <3>2
  <2>2. r[k].to # task[c].user /\ task'[c] = task[c]
    BY <1>2, <1>4, <1>6, <2>1 DEF Break, hubVars
  <2>3. QED
    BY <1>3, <2>2
<1>7. CASE r = <<>>
  BY <1>4, <1>7
<1>8. ASSUME NEW m \in ClientMsg, r = <<m>>, m.type # "signal"
      PROVE  FALSE
  BY <1>4, <1>8
<1>9. ASSUME NEW m \in ClientMsg, r = Append(q, m), NEW u \in Users, Live(u), c = link[u],
             m.type = "signal" => m.to # u, UNCHANGED hubVars
      PROVE  r[k].to # task'[c].user
  <2>1. task[c].user = u /\ task' = task
    BY <1>9 DEF Base, LiveIsServed, hubVars
  <2>2. (k \in DOMAIN q /\ r[k] = q[k]) \/ r[k] = m
    BY <1>1, <1>4, <1>9, AppendGives
  <2>3. QED
    BY <1>2, <1>4, <1>9, <2>1, <2>2
<1>10. ASSUME NEW u \in Users, Live(u), c = link[u], NEW ch \in Channels, Join(u, ch), r = Append(q, JoinOf(ch))
       PROVE  r[k].to # task'[c].user
  BY <1>9, <1>10, MessageTypes DEF Join, JoinOf, ChannelMsg
<1>11. ASSUME NEW u \in Users, Live(u), c = link[u], Leave(u), incall[u] \in Channels,
              r = Append(q, LeaveOf(incall[u]))
       PROVE  r[k].to # task'[c].user
  BY <1>9, <1>11, MessageTypes DEF Leave, LeaveOf, ChannelMsg
<1>12. ASSUME NEW u \in Users, Live(u), c = link[u], NEW v \in Users, NEW m \in ClientMsg,
              SendSignal(u, v), m.to = v, r = Append(q, m)
       PROVE  r[k].to # task'[c].user
  BY <1>9, <1>12 DEF SendSignal, NoSelf, NoSelfPeer
<1>13. QED
  BY <1>1, <1>3, <1>5, <1>6, <1>7, <1>8, <1>10, <1>11, <1>12, UpStep, MessageTypes DEF JoinOf, ChannelMsg

LEMMA NoSelfSignalStep ==
  ASSUME Base, NoSelf, [Next]_vars
  PROVE  NoSelfSignal'
<1> SUFFICES ASSUME NEW c \in ConnId, task'[c].pc = "signal"
             PROVE  task'[c].to # task'[c].user
  BY DEF NoSelfSignal
<1>1. task \in [ConnId -> Task] /\ task[c] \in Task /\ NoSelfSignal
  BY TypesGive DEF NoSelf
<1>2. CASE task'[c] = task[c]
  BY <1>1, <1>2 DEF NoSelfSignal
<1>3. CASE ServerRead(c)
  <2>1. PICK q \in Seq(ClientMsg) : q = up[c] /\ q # <<>>
    BY <1>3, ServerReadStep DEF Base, ClientTypeOK
  <2>2. 1 \in DOMAIN q /\ Head(q) = q[1]
    BY <2>1, TailGives
  <2>3. PICK m \in ClientMsg : m = Head(up[c])
    BY <1>3, ServerReadStep
  <2>4. m.type = "signal" => m.to # task[c].user
    BY <2>1, <2>2, <2>3 DEF NoSelf, NoSelfSent
  <2>5. CASE m.type = "signal" /\ ReadSignal(c, m.channel, m.to)
    <3>1. /\ task[c].pc = "read"
          /\ task'[c] = [task[c] EXCEPT !.pc = "signal", !.ch = m.channel, !.to = m.to]
      BY <1>1, <2>5 DEF ReadSignal
    <3>2. task'[c].to = m.to /\ task'[c].user = task[c].user
      BY <1>1, <3>1 DEF Task
    <3>3. QED
      BY <2>4, <2>5, <3>2
  <2>6. CASE ReadJoin(c, m.channel)
    <3>1. /\ task[c].pc = "read"
          /\ \/ task'[c] = task[c]
             \/ task'[c] = [task[c] EXCEPT !.pc = "join", !.ch = m.channel]
      BY <1>1, <2>6 DEF ReadJoin
    <3>2. QED
      BY <1>1, <3>1 DEF Task
  <2>7. CASE ReadLeave(c, m.channel)
    <3>1. /\ task[c].pc = "read"
          /\ \/ task'[c] = task[c]
             \/ \E out : task'[c] = [task[c] EXCEPT !.pc = "broadcast", !.todo = out]
      BY <1>1, <2>7 DEF ReadLeave
    <3>2. QED
      BY <1>1, <3>1 DEF Task
  <2>8. QED
    BY <1>3, <2>3, <2>5, <2>6, <2>7, ServerReadStep
<1>4. CASE ServerStep(c)
  <2>1. CASE SignalCheck(c)
    <3>1. /\ task[c].pc = "signal"
          /\ \/ task'[c] = [task[c] EXCEPT !.checks = @ + 1]
             \/ task'[c] = At("read", task[c].user)
      BY <1>1, <2>1 DEF SignalCheck
    <3>2. task'[c] # At("read", task[c].user)
      BY DEF At
    <3>3. task'[c].to = task[c].to /\ task'[c].user = task[c].user
      BY <1>1, <3>1, <3>2 DEF Task
    <3>4. QED
      BY <1>1, <3>1, <3>3 DEF NoSelfSignal
  <2>2. QED
    BY <1>4, <2>1, CallJoinMoves, SendJoinRosterMoves, SendPeerJoinedMoves, SignalRelayMoves,
       LeaveAllMoves, BroadcastLeftMoves, BroadcastRosterMoves DEF ServerStep, TaskStep
<1>5. CASE ServerNotices(c)
  BY <1>5, UnregisterStep, TypesGive DEF ServerNotices, AfterUnregister
<1>6. \A u : task'[c] # At("done", u) /\ task'[c] # At("read", u)
  BY DEF At
<1>7. QED
  BY <1>2, <1>3, <1>4, <1>5, <1>6, TaskChange

LEMMA NoSelfEventStep ==
  ASSUME Base, NoSelf, [Next]_vars
  PROVE  NoSelfEvent'
<1> SUFFICES ASSUME NEW c \in ConnId, NEW k \in DOMAIN rx'[c], rx'[c][k].type = "signal"
             PROVE  rx'[c][k].user # task'[c].user
  BY DEF NoSelfEvent
<1>1. PICK q \in Seq(Event) : q = rx[c]
  BY TypesGive
<1>2. \A n \in DOMAIN q : q[n].type = "signal" => q[n].user # task[c].user
  BY <1>1 DEF NoSelf, NoSelfEvent
<1>3. PICK r : r = rx'[c]
  OBVIOUS
<1>4. k \in DOMAIN r /\ r[k].type = "signal"
  BY <1>3
<1>5. task'[c].user = task[c].user
  <2>1. CASE task[c].pc # "off"
    BY <2>1, UserKept
  <2>2. CASE task[c].pc = "off" /\ task'[c].pc = "off"
    BY <2>2, UserKept
  <2>3. CASE task[c].pc = "off" /\ task'[c].pc # "off"
    <3>1. q = <<>> /\ \A v \in Users : c \notin conns[v]
      BY <1>1, <2>3 DEF NoSelf, OffIsEmpty, ConnsAreOwned
    <3>2. r = <<>>
      BY <1>1, <1>3, <3>1, RxStep
    <3>3. QED
      BY <1>4, <3>2
  <2>4. QED
    BY <2>1, <2>2, <2>3
<1>6. CASE r = q
  BY <1>2, <1>3, <1>4, <1>5, <1>6
<1>7. CASE q # <<>> /\ r = Tail(q)
  <2>1. k + 1 \in DOMAIN q /\ r[k] = q[k + 1]
    BY <1>1, <1>4, <1>7, TailGives
  <2>2. QED
    BY <1>2, <1>3, <1>4, <1>5, <2>1
<1>8. CASE r = <<>>
  BY <1>4, <1>8
<1>9. ASSUME NEW ev \in Event, NEW v \in Users, NEW d \in ConnId, Sends(d, ev, v),
             c \in conns[v], r = Append(q, ev)
      PROVE  r[k].user # task[c].user
  <2>1. ev.type = "signal" => ev.user # v
    <3>1. CASE SignalRelay(d) /\ ev = UserEvent("signal", task[d].ch, task[d].user) /\ v = task[d].to
      BY <3>1, SignalRelayMoves DEF UserEvent, NoSelf, NoSelfSignal
    <3>2. QED
      BY <1>9, <3>1 DEF Sends, RosterEvent, UserEvent
  <2>2. task[c].user = v
    BY <1>9 DEF NoSelf, ConnsAreOwned
  <2>3. (k \in DOMAIN q /\ r[k] = q[k]) \/ r[k] = ev
    BY <1>1, <1>4, <1>9, AppendGives
  <2>4. QED
    BY <1>2, <1>4, <2>1, <2>2, <2>3
<1>10. QED
  BY <1>1, <1>3, <1>5, <1>6, <1>7, <1>8, <1>9, RxStep

LEMMA NoSelfHolds == Spec => [](Base /\ NoSelf)
<1>1. Init => NoSelf
  BY DEF Init, HubInit, At, NoSelf, ConnsAreOwned, OffIsEmpty, NoSelfPeer, NoSelfSent, NoSelfSignal,
         NoSelfEvent
<1>2. Base /\ NoSelf /\ [Next]_vars => NoSelf'
  <2> SUFFICES ASSUME Base, NoSelf, [Next]_vars
               PROVE  NoSelf'
    OBVIOUS
  <2>1. ConnsAreOwned /\ OffIsEmpty
    BY DEF NoSelf
  <2>2. QED
    BY <2>1, ConnsOwnedStep, NoSelfPeerStep, NoSelfSentStep, NoSelfSignalStep, NoSelfEventStep DEF NoSelf
<1>3. QED
  BY <1>1, <1>2, BaseHolds, PTL DEF Spec

-----------------------------------------------------------------------------
(* The mesh is the roster. *)

(* A task has yet to send the roster of ch. *)
Pending(ch) ==
  \E d \in ConnId :
    \/ task[d].pc \in {"roster", "left_roster"} /\ task[d].ch = ch
    \/ task[d].pc \in {"broadcast", "left_roster"} /\ \E p \in task[d].todo : p[1] = ch

(* An event that changes nothing for a client u that is up to date with ch. *)
Keeps(ev, u, ch) ==
  \/ ev.channel # ch
  \/ ev.type = "call_peer_joined"
  \/ ev = RosterEvent(ch, calls[ch])
  \/ ev.type = "signal" /\ ev.user \in calls[ch] \ {u}

(* What u has is what the hub has, ... *)
UpToDate(u, ch, q) ==
  /\ view[u] = calls[ch] /\ peers[u] = calls[ch] \ {u}
  /\ \A k \in DOMAIN q : Keeps(q[k], u, ch)

(* ... or will be when it has handled the events q. *)
WillBe(u, ch, q) ==
  \E n \in DOMAIN q : /\ q[n] = RosterEvent(ch, calls[ch])
                      /\ \A k \in DOMAIN q : k > n => Keeps(q[k], u, ch)

Settled(u, ch, q) == UpToDate(u, ch, q) \/ WillBe(u, ch, q)

(* A caller's client follows the hub, or what makes it do so is under way. *)
Follows(u, c, ch) ==
  \/ AsksToJoin(c, ch)
  \/ task[c].pc = "join" /\ task[c].ch = ch
  \/ Pending(ch)
  \/ Settled(u, ch, rx[c])

CallersFollow ==
  \A u \in Users : Live(u) /\ incall[u] # Nil => Follows(u, link[u], incall[u])

(* Whoever changes a roster has it to send. *)
LEMMA ChangeIsPending ==
  ASSUME Base, [Next]_vars, ~ ServerRestart, NEW ch \in Channels
  PROVE  calls'[ch] = calls[ch] \/ Pending(ch)'
<1>1. calls \in [Channels -> SUBSET Users] /\ task \in [ConnId -> Task]
  BY TypesGive
<1>2. ASSUME NEW d \in ConnId, ServerRead(d)
      PROVE  calls'[ch] = calls[ch] \/ Pending(ch)'
  <2>1. PICK m \in ClientMsg : m = Head(up[d])
    BY <1>2, ServerReadStep
  <2>2. CASE ReadLeave(d, m.channel) /\ m.channel = ch /\ calls' # calls
    <3>1. task[d] \in Task
      BY <1>1
    <3>2. \E S : task'[d] = [task[d] EXCEPT !.pc = "broadcast", !.todo = {<<ch, S>>}]
      BY <1>1, <2>2 DEF ReadLeave
    <3>3. task'[d].pc = "broadcast" /\ \E S : task'[d].todo = {<<ch, S>>}
      BY <3>1, <3>2 DEF Task
    <3>4. PICK S : task'[d].todo = {<<ch, S>>}
      BY <3>3
    <3>5. <<ch, S>> \in task'[d].todo /\ <<ch, S>>[1] = ch
      BY <3>4
    <3>6. QED
      BY <3>3, <3>5 DEF Pending
  <2>3. CASE ReadLeave(d, m.channel) /\ m.channel # ch
    BY <1>1, <2>3 DEF ReadLeave
  <2>4. CASE calls' = calls
    BY <2>4
  <2>5. QED
    BY <1>2, <2>1, <2>2, <2>3, <2>4, ServerReadStep DEF ReadJoin, ReadSignal
<1>3. ASSUME NEW d \in ConnId, ServerStep(d)
      PROVE  calls'[ch] = calls[ch] \/ Pending(ch)'
  <2>1. CASE CallJoin(d)
    <3>1. CASE task[d].ch = ch
      BY <2>1, <3>1, CallJoinMoves DEF Pending
    <3>2. CASE task[d].ch # ch
      BY <1>1, <2>1, <3>2, CallJoinMoves
    <3>3. QED
      BY <3>1, <3>2
  <2>2. CASE LeaveAll(d)
    <3>1. calls'[ch] = calls[ch] \ {task[d].user}
      BY <2>2, LeaveAllMoves
    <3>2. CASE task[d].user \in calls[ch]
      <4>1. task'[d].pc = "broadcast" /\ <<ch, calls[ch] \ {task[d].user}>> \in task'[d].todo
        BY <2>2, <3>2, LeaveAllMoves
      <4>2. QED
        BY <4>1 DEF Pending
    <3>3. CASE task[d].user \notin calls[ch]
      BY <1>1, <3>1, <3>3
    <3>4. QED
      BY <3>2, <3>3
  <2>3. CASE calls' = calls
    BY <2>3
  <2>4. QED
    BY <1>3, <2>1, <2>2, <2>3
       DEF ServerStep, TaskStep, SendJoinRoster, SendPeerJoined, SignalCheck, SignalRelay, BroadcastLeft,
           BroadcastRoster
<1>4. CASE calls' = calls
  BY <1>4
<1>5. QED
  BY <1>2, <1>3, <1>4
     DEF Next, Client, System, vars, hubVars, SocketOpen, Connect, SocketClose, Receive, Deliver, Leave,
         Join, SendSignal, Break, ServerNotices, Unregister

(* What is to be sent is, and is the roster that there is then. *)
LEMMA PendingEnds ==
  ASSUME Base, [Next]_vars, Sound', ~ ServerRestart, NEW ch \in Channels, Pending(ch)
  PROVE  Pending(ch)' \/ (calls' = calls /\ send_many(calls[ch], RosterEvent(ch, calls[ch])))
<1>1. PICK d \in ConnId :
        \/ task[d].pc \in {"roster", "left_roster"} /\ task[d].ch = ch
        \/ task[d].pc \in {"broadcast", "left_roster"} /\ \E p \in task[d].todo : p[1] = ch
  BY DEF Pending
<1>2. CASE task'[d] = task[d]
  BY <1>1, <1>2 DEF Pending
<1>3. CASE ServerStep(d)
  <2>1. CASE SendJoinRoster(d)
    <3>1. task[d].ch = ch /\ task[d].roster = calls[ch]
      BY <1>1, <2>1, SendJoinRosterMoves, SoundStep
    <3>2. QED
      BY <2>1, <3>1, SendJoinRosterMoves
  <2>2. CASE BroadcastLeft(d)
    <3>1. PICK p \in task[d].todo : /\ task[d].pc = "broadcast" /\ task'[d].pc = "left_roster"
                                    /\ task'[d].ch = p[1] /\ task'[d].todo = task[d].todo \ {p}
      BY <2>2, BroadcastLeftMoves
    <3>2. PICK o \in task[d].todo : o[1] = ch
      BY <1>1, <3>1
    <3>3. CASE o = p
      BY <3>1, <3>2, <3>3 DEF Pending
    <3>4. CASE o # p
      BY <3>1, <3>2, <3>4 DEF Pending
    <3>5. QED
      BY <3>3, <3>4
  <2>3. CASE BroadcastRoster(d)
    <3>1. CASE \E p \in task[d].todo : p[1] = ch
      <4>1. task'[d].pc = "broadcast" /\ task'[d].todo = task[d].todo
        BY <2>3, <3>1, BroadcastRosterMoves
      <4>2. QED
        BY <3>1, <4>1 DEF Pending
    <3>2. CASE task[d].ch = ch
      <4>1. task[d].pc = "left_roster" /\ task'[d].pc # "left_roster"
        BY <2>3, BroadcastRosterMoves
      <4>2. task[d].roster = calls[ch]
        BY <3>2, <4>1, SoundStep
      <4>3. QED
        BY <2>3, <3>2, <4>2, BroadcastRosterMoves
    <3>3. QED
      BY <1>1, <3>1, <3>2, <2>3, BroadcastRosterMoves
  <2>4. QED
    BY <1>1, <1>3, <2>1, <2>2, <2>3
       DEF ServerStep, TaskStep, CallJoin, SendPeerJoined, SignalCheck, SignalRelay, LeaveAll
<1>4. CASE ServerRead(d)
  BY <1>1, <1>4, ServerReadStep, TakeMsgStep, TypesGive
<1>5. CASE ServerNotices(d)
  BY <1>1, <1>5, UnregisterStep, TypesGive DEF ServerNotices
<1>6. ASSUME NEW u \in Users, SocketOpen(u), d = next_conn'
      PROVE  FALSE
  BY <1>1, <1>6, OpenedIsFresh
<1>7. QED
  BY <1>2, <1>3, <1>4, <1>5, <1>6, TaskChange

(* What a client that stays in its call has changes when it takes an event. *)
LEMMA ViewKept ==
  ASSUME Base, [Next]_vars, NEW u \in Users, Stays(u)
  PROVE  Receive(u) \/ (view'[u] = view[u] /\ peers'[u] = peers[u])
<1>1. view \in [Users -> SUBSET Users] /\ peers \in [Users -> SUBSET Users]
  BY TypesGive DEF ClientTypeOK
<1>2. ASSUME NEW v \in Users, Receive(v)
      PROVE  v = u \/ (view'[u] = view[u] /\ peers'[u] = peers[u])
  BY <1>1, <1>2, HandleStep
<1>3. ASSUME NEW v \in Users, Leave(v)
      PROVE  view'[u] = view[u] /\ peers'[u] = peers[u]
  <2>1. v # u
    BY <1>3, StaysGives
  <2>2. QED
    BY <1>1, <1>3, <2>1 DEF Leave
<1>4. CASE view' = view /\ peers' = peers
  BY <1>4
<1>5. QED
  BY <1>2, <1>3, <1>4
     DEF Next, Client, System, vars, clientVars, SocketOpen, SocketClose, Join, SendSignal, Break,
         ServerRead, ServerStep, ServerNotices, ServerRestart

(* The events queued for a client that stays in its call. *)
LEMMA RxKept ==
  ASSUME Base, NoSelf, [Next]_vars, Sound', NEW u \in Users, Stays(u),
         NEW c \in ConnId, c = link[u], NEW ch \in Channels
  PROVE  \/ rx'[c] = rx[c] /\ ~ Receive(u)
         \/ Receive(u) /\ rx[c] # <<>> /\ rx'[c] = Tail(rx[c]) /\ calls' = calls
         \/ /\ calls' = calls /\ ~ Receive(u)
            /\ \E ev \in Event : rx'[c] = Append(rx[c], ev) /\ (Keeps(ev, u, ch) \/ Pending(ch)')
<1>1. task[c].user = u /\ ~ ServerRestart /\ c \notin broken
  BY StaysGives DEF Stays, Live
<1>2. rx \in [ConnId -> Seq(Event)]
  BY TypesGive
<1>3. Receive(u) => rx[c] # <<>> /\ rx'[c] = Tail(rx[c]) /\ calls' = calls /\ rx'[c] # rx[c] /\ task' = task
  <2>1. ASSUME Receive(u)
        PROVE  rx[c] # <<>> /\ rx'[c] = Tail(rx[c]) /\ calls' = calls /\ task' = task
    BY <1>2, <2>1 DEF Receive, Deliver
  <2>2. PICK q \in Seq(Event) : q = rx[c]
    BY <1>2
  <2>3. q # <<>> => Tail(q) # q
    <3>1. q # <<>> => Len(Tail(q)) = Len(q) - 1 /\ Len(q) \in Nat
      OBVIOUS
    <3>2. QED
      BY <3>1
  <2>4. QED
    BY <2>1, <2>2, <2>3
<1>4. ASSUME NEW v \in Users, Receive(v), link[v] = c
      PROVE  v = u
  BY <1>1, <1>4, HandleStep DEF Base, LiveIsServed
<1>5. ASSUME NEW ev \in Event, NEW v \in Users, NEW d \in ConnId, ServerStep(d), Sends(d, ev, v),
             c \in conns[v]
      PROVE  (Keeps(ev, u, ch) \/ Pending(ch)') /\ ~ Receive(u)
  <2> DEFINE Fits == Keeps(ev, u, ch) \/ Pending(ch)'
  <2>1. v = u
    BY <1>1, <1>5 DEF NoSelf, ConnsAreOwned
  <2>2. task'[d].pc # task[d].pc
    BY <1>5, SendJoinRosterMoves, SendPeerJoinedMoves, SignalRelayMoves, BroadcastLeftMoves,
       BroadcastRosterMoves DEF Sends
  <2>3. Fits
    <3>1. CASE SendJoinRoster(d) /\ ev = RosterEvent(task[d].ch, task[d].roster)
      <4>1. task[d].roster = calls[task[d].ch]
        BY <2>2, <3>1, SendJoinRosterMoves, SoundStep
      <4>2. QED
        BY <3>1, <4>1 DEF Keeps, RosterEvent
    <3>2. CASE BroadcastRoster(d) /\ ev = RosterEvent(task[d].ch, task[d].roster)
      <4>1. task[d].roster = calls[task[d].ch]
        BY <2>2, <3>2, BroadcastRosterMoves, SoundStep
      <4>2. QED
        BY <3>2, <4>1 DEF Keeps, RosterEvent
    <3>3. CASE SendPeerJoined(d) /\ ev = UserEvent("call_peer_joined", task[d].ch, task[d].user)
      BY <3>3 DEF Keeps, UserEvent
    <3>4. CASE SignalRelay(d) /\ ev = UserEvent("signal", task[d].ch, task[d].user) /\ v = task[d].to
      <4>1. task[d].pc = "signal" /\ task[d].user # u /\ task[d].user \in calls[task[d].ch]
        BY <2>1, <2>2, <3>4, SignalRelayMoves, SoundStep DEF NoSelf, NoSelfSignal
      <4>2. QED
        BY <3>4, <4>1 DEF Keeps, UserEvent
    <3>5. CASE \E x \in Channels : /\ ev = UserEvent("call_peer_left", x, task[d].user)
                                   /\ task'[d].pc = "left_roster" /\ task'[d].ch = x
      BY <3>5 DEF Keeps, UserEvent, Pending
    <3>6. QED
      BY <1>5, <3>1, <3>2, <3>3, <3>4, <3>5 DEF Sends
  <2>4. QED
    BY <1>3, <2>2, <2>3
<1>6. ~ ServerNotices(c)
  BY <1>1 DEF ServerNotices
<1>7. QED
  BY <1>1, <1>3, <1>4, <1>5, <1>6, RxStep

(* A client that is up to date, or will be, stays so until a roster is to  *)
(* be sent.                                                                *)
LEMMA SettledKept ==
  ASSUME Base, NoSelf, [Next]_vars, Sound', NEW u \in Users, Stays(u),
         NEW c \in ConnId, c = link[u], NEW ch \in Channels, ch = incall[u], Settled(u, ch, rx[c])
  PROVE  Pending(ch)' \/ Settled(u, ch, rx[c])'
<1> SUFFICES ASSUME ~ Pending(ch)'
             PROVE  Settled(u, ch, rx[c])'
  OBVIOUS
<1>1. calls'[ch] = calls[ch]
  BY ChangeIsPending, StaysGives
<1>2. PICK q \in Seq(Event) : q = rx[c]
  BY TypesGive
<1>3. PICK r : r = rx'[c]
  OBVIOUS
<1>4. \A ev : Keeps(ev, u, ch)' <=> Keeps(ev, u, ch)
  BY <1>1 DEF Keeps
<1> DEFINE Same == view'[u] = calls[ch] /\ peers'[u] = calls[ch] \ {u}
           AllKeep(s) == \A k \in DOMAIN s : Keeps(s[k], u, ch)
           Comes(s) == \E n \in DOMAIN s : /\ s[n] = RosterEvent(ch, calls[ch])
                                           /\ \A k \in DOMAIN s : k > n => Keeps(s[k], u, ch)
<1>5. ASSUME (Same /\ AllKeep(r)) \/ Comes(r)
      PROVE  Settled(u, ch, rx[c])'
  BY <1>1, <1>3, <1>4, <1>5 DEF Settled, UpToDate, WillBe
<1>6. (view[u] = calls[ch] /\ peers[u] = calls[ch] \ {u} /\ AllKeep(q)) \/ Comes(q)
  BY <1>2 DEF Settled, UpToDate, WillBe
<1>7. ASSUME ~ Receive(u)
      PROVE  Same \/ Comes(q)
  BY <1>6, <1>7, ViewKept
<1>8. CASE r = q /\ ~ Receive(u)
  BY <1>5, <1>6, <1>7, <1>8
<1>9. ASSUME NEW ev \in Event, r = Append(q, ev), Keeps(ev, u, ch), ~ Receive(u)
      PROVE  Settled(u, ch, rx[c])'
  <2>1. /\ DOMAIN r = DOMAIN q \cup {Len(q) + 1} /\ r[Len(q) + 1] = ev
        /\ \A k \in DOMAIN q : r[k] = q[k]
    BY <1>9, AppendGives
  <2>2. AllKeep(q) => AllKeep(r)
    BY <1>9, <2>1
  <2>3. Comes(q) => Comes(r)
    BY <1>9, <2>1
  <2>4. QED
    BY <1>5, <1>6, <1>7, <1>9, <2>2, <2>3
<1>10. CASE Receive(u) /\ q # <<>> /\ r = Tail(q)
  <2>1. /\ 1 \in DOMAIN q /\ Head(q) = q[1] /\ DOMAIN q \subseteq Nat
        /\ \A k \in DOMAIN r : k \in Nat /\ k + 1 \in DOMAIN q /\ r[k] = q[k + 1]
        /\ \A k \in DOMAIN q : k # 1 => k - 1 \in DOMAIN r /\ r[k - 1] = q[k] /\ k > 1
    BY <1>2, <1>10, TailGives
  <2>2. PICK ev \in Event : ev = q[1] /\ ev = Head(rx[link[u]])
    BY <1>2, <1>10, <2>1, HandleStep
  <2>3. view \in [Users -> SUBSET Users] /\ peers \in [Users -> SUBSET Users]
    BY TypesGive DEF ClientTypeOK
  <2>4. CASE view[u] = calls[ch] /\ peers[u] = calls[ch] \ {u} /\ AllKeep(q)
    <3>1. Keeps(ev, u, ch)
      BY <2>1, <2>2, <2>4
    <3>2. Same
      <4>1. CASE ev.channel # ch \/ ev.type = "call_peer_joined"
        BY <1>10, <2>2, <2>3, <2>4, <4>1, HandleStep
      <4>2. CASE ev = RosterEvent(ch, calls[ch])
        <5>1. ev.channel = ch /\ ev.type = "call_roster" /\ ev.participants = calls[ch]
          BY <4>2 DEF RosterEvent
        <5>2. QED
          BY <1>10, <2>2, <2>3, <5>1, HandleStep
      <4>3. CASE ev.channel = ch /\ ev.type = "signal" /\ ev.user \in calls[ch] \ {u}
        <5>1. view' = view /\ peers' = [peers EXCEPT ![u] = @ \cup {ev.user}]
          BY <1>10, <2>2, <4>3, HandleStep
        <5>2. QED
          BY <2>3, <2>4, <4>3, <5>1
      <4>4. QED
        BY <3>1, <4>1, <4>2, <4>3 DEF Keeps
    <3>3. AllKeep(r)
      BY <2>1, <2>4
    <3>4. QED
      BY <1>5, <3>2, <3>3
  <2>5. ASSUME NEW n \in DOMAIN q, q[n] = RosterEvent(ch, calls[ch]),
               \A k \in DOMAIN q : k > n => Keeps(q[k], u, ch)
        PROVE  Settled(u, ch, rx[c])'
    <3>1. CASE n = 1
      <4>1. ev.channel = ch /\ ev.type = "call_roster" /\ ev.participants = calls[ch]
        <5>1. ev = RosterEvent(ch, calls[ch])
          BY <2>2, <2>5, <3>1
        <5>2. QED
          BY <5>1 DEF RosterEvent
      <4>2. Same
        BY <1>10, <2>2, <2>3, <4>1, HandleStep
      <4>3. AllKeep(r)
        <5>1. \A k \in DOMAIN r : k + 1 \in DOMAIN q /\ r[k] = q[k + 1] /\ (k + 1 > 1 \/ k = 0)
          BY <2>1
        <5>2. 0 \notin DOMAIN r
          <6>1. Len(q) \in Nat /\ DOMAIN Tail(q) = 1 .. Len(q) - 1
            BY <1>2, <1>10
          <6>2. QED
            BY <1>10, <6>1
        <5>3. QED
          BY <2>5, <3>1, <5>1, <5>2
      <4>4. QED
        BY <1>5, <4>2, <4>3
    <3>2. CASE n # 1
      <4>1. n - 1 \in DOMAIN r /\ r[n - 1] = RosterEvent(ch, calls[ch]) /\ n \in Nat
        BY <2>1, <2>5, <3>2
      <4>2. ASSUME NEW k \in DOMAIN r, k > n - 1
            PROVE  Keeps(r[k], u, ch)
        <5>1. k + 1 > n /\ k + 1 \in DOMAIN q /\ r[k] = q[k + 1]
          BY <2>1, <4>1, <4>2
        <5>2. QED
          BY <2>5, <5>1
      <4>3. Comes(r)
        BY <4>1, <4>2
      <4>4. QED
        BY <1>5, <4>3
    <3>3. QED
      BY <3>1, <3>2
  <2>6. QED
    BY <1>6, <2>4, <2>5
<1>11. QED
  BY <1>2, <1>3, <1>8, <1>9, <1>10, RxKept

(* The roster that a task sends reaches a caller that is listed.           *)
LEMMA SentSettles ==
  ASSUME Base, [Next]_vars, NEW u \in Users, NEW c \in ConnId, c \in conns[u],
         NEW ch \in Channels, u \in calls[ch], calls' = calls,
         send_many(calls[ch], RosterEvent(ch, calls[ch]))
  PROVE  Settled(u, ch, rx[c])'
<1>1. PICK q \in Seq(Event) : q = rx[c]
  BY TypesGive
<1>2. PICK ev \in Event : ev = RosterEvent(ch, calls[ch])
  BY TypesGive, EventTypes
<1>3. PICK r : r = rx'[c] /\ r = Append(q, ev)
  BY <1>1, <1>2 DEF send_many
<1>4. /\ DOMAIN r = DOMAIN q \cup {Len(q) + 1} /\ r[Len(q) + 1] = ev
      /\ \A k \in DOMAIN q : k \in Nat /\ k < Len(q) + 1
      /\ Len(q) + 1 \in Nat
  BY <1>3, AppendGives
<1>5. \A k \in DOMAIN r : ~ (k > Len(q) + 1)
  BY <1>4
<1>6. Len(q) + 1 \in DOMAIN r /\ r[Len(q) + 1] = RosterEvent(ch, calls'[ch])
  BY <1>2, <1>4
<1>7. QED
  BY <1>3, <1>5, <1>6 DEF Settled, WillBe

LEMMA CallersFollowStep ==
  ASSUME Base, NoSelf, CallersListed, CallersFollow, [Next]_vars, Sound'
  PROVE  CallersFollow'
<1> SUFFICES ASSUME NEW u \in Users, Live(u)', incall'[u] # Nil
             PROVE  Follows(u, link[u], incall[u])'
  BY DEF CallersFollow
<1>1. CASE SocketOpen(u)
  BY <1>1, OpenAsks DEF Follows
<1>2. CASE ~ SocketOpen(u) /\ \E ch \in Channels : Join(u, ch)
  BY <1>2, LiveBefore, JoinAsks DEF Follows
<1>3. CASE ~ SocketOpen(u) /\ \A ch \in Channels : ~ Join(u, ch)
  <2>1. Stays(u)
    BY <1>3, LiveBefore, IncallStep DEF Stays
  <2>2. PICK c \in ConnId : c = link[u] /\ link'[u] = c /\ c \in conns[u] /\ ~ ServerRestart
    BY <2>1, StaysGives
  <2>3. PICK ch \in Channels : ch = incall[u] /\ incall'[u] = ch
    BY <2>1, StaysGives DEF Stays
  <2>4. Follows(u, c, ch) /\ ListedOrJoining(u, c, ch)
    BY <2>1, <2>2, <2>3 DEF CallersFollow, CallersListed, Stays
  <2>5. SUFFICES Follows(u, c, ch)'
    BY <2>2, <2>3
  <2>6. CASE AsksToJoin(c, ch)
    BY <2>1, <2>2, <2>3, <2>6, AsksKept DEF Follows
  <2>7. CASE task[c].pc = "join" /\ task[c].ch = ch
    <3>1. task'[c] = task[c] \/ CallJoin(c)
      BY <2>1, <2>2, <2>7, JoinTaken
    <3>2. CASE task'[c] = task[c]
      BY <2>7, <3>2 DEF Follows
    <3>3. CASE CallJoin(c)
      BY <2>7, <3>3, CallJoinMoves DEF Follows, Pending
    <3>4. QED
      BY <3>1, <3>2, <3>3
  <2>8. CASE Pending(ch) /\ u \in calls[ch]
    <3>1. CASE Pending(ch)'
      BY <3>1 DEF Follows
    <3>2. CASE calls' = calls /\ send_many(calls[ch], RosterEvent(ch, calls[ch]))
      BY <2>2, <2>8, <3>2, SentSettles DEF Follows
    <3>3. QED
      BY <2>2, <2>8, <3>1, <3>2, PendingEnds
  <2>9. CASE Settled(u, ch, rx[c])
    BY <2>1, <2>2, <2>3, <2>9, SettledKept DEF Follows
  <2>10. QED
    BY <2>4, <2>6, <2>7, <2>8, <2>9 DEF Follows, ListedOrJoining
<1>4. QED
  BY <1>1, <1>2, <1>3

(* Once all is quiet, what a caller shows, and whom it has a connection    *)
(* to, is the hub's roster (CallManager.handleEvent), whatever broke in    *)
(* between and however rosters and signals overtook each other, but for    *)
(* the named races.                                                        *)
THEOREM MeshIsRoster == Spec => []MeshFollowsRoster
<1>1. Init => CallersFollow
  BY NilIsNew DEF Init, CallersFollow
<1>2. Base /\ RosterInv /\ NoSelf /\ (Sound => CallersFollow) /\ [Next]_vars => (Sound => CallersFollow)'
  BY SoundStep, CallersFollowStep DEF RosterInv
<1>3. Base /\ RosterInv /\ (Sound => CallersFollow) => MeshFollowsRoster
  <2> SUFFICES ASSUME Base, CallersFollow, Quiet, Sound, NEW u \in Users, incall[u] # Nil
               PROVE  view[u] = calls[incall[u]] /\ peers[u] = calls[incall[u]] \ {u}
    BY DEF MeshFollowsRoster
  <2>1. Live(u) /\ link[u] \in ConnId /\ incall[u] \in Channels
    BY TypesGive DEF Quiet, Live, Base, ClientTypeOK
  <2>2. PICK c \in ConnId : c = link[u] /\ rx[c] = <<>> /\ up[c] = <<>>
    BY <2>1 DEF Quiet
  <2>3. ~ AsksToJoin(c, incall[u]) /\ task[c].pc # "join"
    BY <2>2 DEF Quiet, AsksToJoin
  <2>4. ~ Pending(incall[u])
    BY DEF Quiet, Pending
  <2>5. Settled(u, incall[u], rx[c])
    BY <2>1, <2>2, <2>3, <2>4 DEF CallersFollow, Follows
  <2>6. QED
    BY <2>2, <2>5 DEF Settled, UpToDate, WillBe
<1>4. QED
  BY <1>1, <1>2, <1>3, RosterHolds, NoSelfHolds, PTL DEF Spec
=============================================================================
