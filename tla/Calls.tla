------------------------------- MODULE Calls -------------------------------
(***************************************************************************)
(* Clients in a call, composed with the Hub: per user one event socket     *)
(* that reconnects (client/src/lib/ws.ts) and at most one CallManager      *)
(* (client/src/lib/call.ts), over TCP connections that may break with      *)
(* messages in flight.  Each end notices a broken connection on its own,   *)
(* so a client can be back on a new connection while the server still      *)
(* holds the old one.                                                      *)
(*                                                                         *)
(* Media negotiation is abstracted to: a peer may send signals at any time *)
(* while its RTCPeerConnection is there (offers, answers and candidates),  *)
(* and a signal from an unknown sender creates a peer.                     *)
(***************************************************************************)
EXTENDS Hub

CONSTANTS MaxJoins,   \* bound: times a call is joined
          MaxSignals  \* bound: signals sent

ASSUME ClientBoundsAreNat == MaxJoins \in Nat /\ MaxSignals \in Nat

VARIABLES link,    \* user -> the connection its EventSocket has open, 0 for none
          up,      \* connection -> client messages the server has not read
          broken,  \* connections that carry nothing any more
          incall,  \* user -> channel of its CallManager, or Nil
          view,    \* user -> participants of the last roster it handled
          peers,   \* user -> users it has an RTCPeerConnection for
          races,   \* history: which races have happened
          joins,   \* calls joined so far
          signals  \* signals sent so far

clientVars == <<link, up, broken, incall, view, peers>>
vars == <<hubVars, clientVars, races, joins, signals>>

ClientMsg == [type : {"call_join", "call_leave"}, channel : Channels]
             \cup [type : {"signal"}, channel : Channels, to : Users]

ChannelMsg(ty, ch) == [type |-> ty, channel |-> ch]

Race == {"stale_roster", "late_signal", "late_leave_all", "old_leave", "old_join", "lost_leave"}

TypeOK ==
  /\ HubTypeOK
  /\ link \in [Users -> ConnId \cup {0}]
  /\ up \in [ConnId -> Seq(ClientMsg)]
  /\ broken \subseteq ConnId
  /\ incall \in [Users -> Channels \cup {Nil}]
  /\ view \in [Users -> SUBSET Users]
  /\ peers \in [Users -> SUBSET Users]
  /\ races \subseteq Race
  /\ joins \in 0 .. MaxJoins
  /\ signals \in 0 .. MaxSignals

Init ==
  /\ HubInit
  /\ link = [u \in Users |-> 0]
  /\ up = [c \in ConnId |-> <<>>]
  /\ broken = {}
  /\ incall = [u \in Users |-> Nil]
  /\ view = [u \in Users |-> {}]
  /\ peers = [u \in Users |-> {}]
  /\ races = {}
  /\ joins = 0
  /\ signals = 0

-----------------------------------------------------------------------------
(* EventSocket *)

(* send: silently dropped unless the socket is open; a socket whose        *)
(* connection is broken still looks open, and what it takes is lost.       *)
Sent(u, m) ==
  IF link[u] = 0 \/ link[u] \in broken THEN up ELSE [up EXCEPT ![link[u]] = Append(@, m)]

(* Mutant: the open listener is missing. *)
SocketOpenForgetsCall(u) ==
  /\ link[u] = 0
  /\ Connect(u)
  /\ link' = [link EXCEPT ![u] = next_conn']
  /\ UNCHANGED <<up, broken, incall, view, peers>>

(* A connection opens: the server registers it, and onopen runs the open   *)
(* listener of a CallManager, which sends call_join again.                 *)
SocketOpen(u) ==
  /\ link[u] = 0
  /\ Connect(u)
  /\ link' = [link EXCEPT ![u] = next_conn']
  /\ up' = IF incall[u] = Nil THEN up
           ELSE [up EXCEPT ![next_conn'] = <<ChannelMsg("call_join", incall[u])>>]
  /\ UNCHANGED <<broken, incall, view, peers>>

(* onclose: the timer that connects again is SocketOpen. *)
SocketClose(u) ==
  /\ link[u] \in broken
  /\ link' = [link EXCEPT ![u] = 0]
  /\ UNCHANGED <<hubVars, up, broken, incall, view, peers>>

(* Bound: an id is left for every client that will need a new connection.  *)
CanReconnect(lost) ==
  Cardinality({u \in Users : link[u] \in {0} \cup lost}) + next_conn <= MaxConns

(* The network drops a connection: a prefix of what was under way still    *)
(* reaches the server, which may read it long after.                       *)
Break(c) ==
  /\ task[c].pc \notin {"off", "done"}
  /\ c \notin broken
  /\ CanReconnect(broken \cup {c})
  /\ broken' = broken \cup {c}
  /\ \E n \in 0 .. Len(up[c]) : up' = [up EXCEPT ![c] = SubSeq(@, 1, n)]
  /\ UNCHANGED <<hubVars, link, incall, view, peers>>

-----------------------------------------------------------------------------
(* CallManager *)

(* join, once the microphone is there; the client lists the channels of its *)
(* spaces, and no others.                                                   *)
Join(u, ch) ==
  /\ incall[u] = Nil
  /\ <<u, ch>> \in Member
  /\ joins < MaxJoins
  /\ incall' = [incall EXCEPT ![u] = ch]
  /\ up' = Sent(u, ChannelMsg("call_join", ch))
  /\ UNCHANGED <<hubVars, link, broken, view, peers>>

Leave(u) ==
  /\ incall[u] # Nil
  /\ incall' = [incall EXCEPT ![u] = Nil]
  /\ up' = Sent(u, ChannelMsg("call_leave", incall[u]))
  /\ view' = [view EXCEPT ![u] = {}]
  /\ peers' = [peers EXCEPT ![u] = {}]
  /\ UNCHANGED <<hubVars, link, broken>>

(* onnegotiationneeded, onicecandidate, or the answer in handleSignal. *)
SendSignal(u, v) ==
  /\ v \in peers[u]
  /\ signals < MaxSignals
  /\ up' = Sent(u, [type |-> "signal", channel |-> incall[u], to |-> v])
  /\ UNCHANGED <<hubVars, link, broken, incall, view, peers>>

(* Mutant: a roster only adds peers. *)
HandleEventKeepsPeers(u, ev) ==
  IF ev.channel # incall[u] THEN UNCHANGED <<view, peers>>
  ELSE /\ view' = IF ev.type = "call_roster" THEN [view EXCEPT ![u] = ev.participants]
                  ELSE view
       /\ peers' = CASE ev.type = "call_roster" ->
                          [peers EXCEPT ![u] = @ \cup (ev.participants \ {u})]
                     [] ev.type = "call_peer_left" -> [peers EXCEPT ![u] = @ \ {ev.user}]
                     [] ev.type = "signal" -> [peers EXCEPT ![u] = @ \cup {ev.user}]
                     [] OTHER -> peers

(* handleEvent.  A roster replaces the view, creates the missing peers and *)
(* drops the absent ones.                                                  *)
HandleEvent(u, ev) ==
  IF ev.channel # incall[u] THEN UNCHANGED <<view, peers>>
  ELSE CASE ev.type = "call_roster" ->
              /\ view' = [view EXCEPT ![u] = ev.participants]
              /\ peers' = [peers EXCEPT ![u] = ev.participants \ {u}]
         [] ev.type = "call_peer_left" ->
              /\ peers' = [peers EXCEPT ![u] = @ \ {ev.user}]
              /\ UNCHANGED view
         [] ev.type = "signal" ->
              /\ peers' = [peers EXCEPT ![u] = @ \cup {ev.user}]
              /\ UNCHANGED view
         [] OTHER -> UNCHANGED <<view, peers>>

Receive(u) ==
  /\ link[u] # 0
  /\ link[u] \notin broken
  /\ Deliver(link[u])
  /\ HandleEvent(u, Head(rx[link[u]]))
  /\ UNCHANGED <<link, up, broken, incall>>

-----------------------------------------------------------------------------
(* The server's ends of the connections *)

(* The read loop takes the next message of its connection. *)
ServerRead(c) ==
  /\ up[c] # <<>>
  /\ \A u \in Users : link[u] # 0 => Len(rx[link[u]]) <= MaxQueue
  /\ LET m == Head(up[c])
     IN \/ m.type = "call_join" /\ ReadJoin(c, m.channel)
        \/ m.type = "call_leave" /\ ReadLeave(c, m.channel)
        \/ m.type = "signal" /\ ReadSignal(c, m.channel, m.to)
  /\ up' = [up EXCEPT ![c] = Tail(@)]
  /\ UNCHANGED <<link, broken, incall, view, peers>>

ServerStep(c) == TaskStep(c) /\ UNCHANGED clientVars

ServerNotices(c) ==
  /\ c \in broken
  /\ up[c] = <<>>
  /\ Unregister(c)
  /\ UNCHANGED clientVars

ServerRestart ==
  /\ CanReconnect(ConnId)
  /\ Restart
  /\ broken' = {c \in ConnId : task[c].pc # "off"}
  /\ up' = [c \in ConnId |-> <<>>]
  /\ UNCHANGED <<link, incall, view, peers>>

-----------------------------------------------------------------------------
(* The races of the hub, as seen on the step that completes one:           *)
(* a roster is sent that is no longer the channel's, a signal is relayed   *)
(* for a user no longer in the call, leave_all takes out a user who has    *)
(* connected again, and so does a call_leave read from an old connection;  *)
(* a call_join read from an old connection lists a user; and a call_leave  *)
(* goes to no open connection, or is lost on its way.                      *)
RacesOf ==
  {r \in {"lost_leave"} :
     \/ up' = up /\ \E u \in Users : incall[u] # Nil /\ incall'[u] = Nil
     \/ \E c \in broken' \ broken : \E n \in Len(up'[c]) + 1 .. Len(up[c]) :
          up[c][n].type = "call_leave"}
  \cup {r \in Race : \E c \in ConnId :
     LET t == task[c]
     IN /\ t.pc # task'[c].pc
        /\ \/ /\ r = "stale_roster"
              /\ t.pc \in {"roster", "left_roster"}
              /\ t.roster # calls[t.ch]
           \/ /\ r = "late_signal"
              /\ t.pc = "signal"
              /\ t.checks = 4
              /\ t.user \notin calls[t.ch]
           \/ /\ r = "late_leave_all"
              /\ t.pc = "leave_all"
              /\ conns[t.user] # {}
           \/ /\ r = "old_leave"
              /\ t.pc = "read" /\ task'[c].pc = "broadcast"
              /\ \E d \in conns[t.user] : d > c
           \/ /\ r = "old_join"
              /\ t.pc = "join"
              /\ \E d \in ConnId : d > c /\ task[d].user = t.user}

System == \E c \in ConnId : ServerRead(c) \/ ServerStep(c) \/ ServerNotices(c)

Client ==
  \/ /\ \E u \in Users : SocketOpen(u) \/ SocketClose(u) \/ Receive(u) \/ Leave(u)
     /\ UNCHANGED <<joins, signals>>
  \/ /\ \E u \in Users, ch \in Channels : Join(u, ch)
     /\ joins' = joins + 1
     /\ UNCHANGED signals
  \/ /\ \E u, v \in Users : SendSignal(u, v)
     /\ signals' = signals + 1
     /\ UNCHANGED joins

Next ==
  /\ \/ Client
     \/ /\ (\E c \in ConnId : Break(c)) \/ System \/ ServerRestart
        /\ UNCHANGED <<joins, signals>>
  /\ races' = races \cup RacesOf

Spec == Init /\ [][Next]_vars

-----------------------------------------------------------------------------
(* Properties *)

(* Nothing is under way: no message, no task in the middle of one, and no  *)
(* broken connection that an end has yet to notice.                        *)
Quiet ==
  /\ \A c \in ConnId : /\ task[c].pc \in {"off", "read", "done"}
                       /\ task[c].pc = "read" => c \notin broken
                       /\ up[c] = <<>>
  /\ \A u \in Users : link[u] # 0 /\ link[u] \notin broken /\ rx[link[u]] = <<>>

(* No race has put a caller and the hub at odds; the two others can only   *)
(* leave someone listed who is no caller any more.                         *)
Sound == races \subseteq {"lost_leave", "old_join"}

(* Once all is quiet, every caller's participants and peer connections are *)
(* the hub's roster, unless one of the races has happened.                 *)
MeshFollowsRoster ==
  Quiet /\ Sound =>
    \A u \in Users : LET ch == incall[u]
                     IN ch # Nil => view[u] = calls[ch] /\ peers[u] = calls[ch] \ {u}

(* "A reconnect drops us from the server-side roster; re-join on reopen":  *)
(* whatever broke in between, a caller is in the hub's roster once all is  *)
(* quiet, unless one of the races has happened; and whoever has left is in *)
(* none, unless the call_leave was lost with the socket, or a call_join    *)
(* was read after it: the server makes up for those only when the user's   *)
(* last connection closes.                                                 *)
RosterIsOfCallers ==
  Quiet /\ Sound =>
    \A u \in Users, ch \in Channels :
      /\ incall[u] = ch => u \in calls[ch]
      /\ incall[u] # ch /\ races = {} => u \notin calls[ch]
=============================================================================
