------------------------------ MODULE Messages ------------------------------
(***************************************************************************)
(* The messages of one channel: the table and the handlers post_message    *)
(* and fetch_messages (server/src/spaces.rs), and the list each client     *)
(* shows (client/src/lib/store.svelte.ts), which is filled once from the   *)
(* history and then by message_new events.                                 *)
(*                                                                         *)
(* Messages are numbered by their ULIDs.  A client can read a message when *)
(* it holds the key of its epoch; which keys a client gets, and when, is   *)
(* the business of SpaceKeys, and here they just arrive.                   *)
(***************************************************************************)
EXTENDS Naturals, Sequences, FiniteSets

CONSTANTS Client,      \* the clients looked at, of some of the members
          Epoch,       \* epochs of the space key
          MaxId,       \* bound: the ULIDs that may be drawn
          PageSize,    \* messages in a page of history
          Slot,        \* bound: fetches of a client that overlap
          MaxLosses    \* bound: sockets lost and server restarts

ASSUME BoundsAreNat == MaxId \in Nat /\ MaxLosses \in Nat
ASSUME PageSizeIsPositive == PageSize \in Nat \ {0}

Message == [id : 1 .. MaxId, epoch : Epoch]
Shown == [msg : Message, ok : BOOLEAN]          \* a ChatMessage
Fetch == [st : {"none", "asked", "read"}, page : SUBSET Message]
NoFetch == [st |-> "none", page |-> {}]

VARIABLES
  (* server *)
  log,       \* the rows of the channel
  posting,   \* messages of post_message calls ahead of the insert
  fanning,   \* messages inserted and not yet sent to the members
  (* between *)
  online,    \* clients with an event socket
  queue,     \* client -> message_new events on their way to it
  fetch,     \* client -> slot -> loadHistory call
  (* clients *)
  held,      \* client -> epochs whose key it holds
  opened,    \* clients that have a list for the channel
  shown,     \* client -> the list
  (* history *)
  missed,    \* client -> messages that passed it by, see Skipped and BeyondPage
  overtaken, \* messages went out in another order than their ids
  losses

server == <<log, posting, fanning>>
client == <<held, opened, shown>>
vars   == <<server, online, queue, fetch, client, missed, overtaken, losses>>

TypeOK ==
  /\ log \subseteq Message /\ posting \subseteq Message /\ fanning \subseteq log
  /\ online \subseteq Client /\ opened \subseteq Client
  /\ queue \in [Client -> Seq(Message)]
  /\ fetch \in [Client -> [Slot -> Fetch]]
  /\ held \in [Client -> SUBSET Epoch]
  /\ shown \in [Client -> Seq(Shown)]
  /\ missed \in [Client -> SUBSET Message]
  /\ overtaken \in BOOLEAN
  /\ losses \in 0 .. MaxLosses

Init ==
  /\ log = {} /\ posting = {} /\ fanning = {}
  /\ online = Client /\ opened = {}
  /\ queue = [c \in Client |-> <<>>]
  /\ fetch = [c \in Client |-> [s \in Slot |-> NoFetch]]
  /\ held \in [Client -> SUBSET Epoch]
  /\ shown = [c \in Client |-> <<>>]
  /\ missed = [c \in Client |-> {}]
  /\ overtaken = FALSE
  /\ losses = 0

-----------------------------------------------------------------------------
Messages(list) == {list[i].msg : i \in DOMAIN list}
Ids(list) == {list[i].msg.id : i \in DOMAIN list}
Waiting(c) == {queue[c][i] : i \in DOMAIN queue[c]}

(* Mutant: ORDER BY id without DESC.                                       *)
OldestPage(before, limit) ==
  LET older == {m \in log : m.id < before}
  IN {m \in older : Cardinality({n \in older : n.id < m.id}) < limit}

(* Mutant: id <= before.                                                   *)
PageWithCursor(before, limit) ==
  LET older == {m \in log : m.id <= before}
  IN {m \in older : Cardinality({n \in older : n.id > m.id}) < limit}

(* The page before an id: the newest of the older messages.                *)
Page(before, limit) ==
  LET older == {m \in log : m.id < before}
  IN {m \in older : Cardinality({n \in older : n.id > m.id}) < limit}
LastPage == Page(MaxId + 1, PageSize)

Oldest(S) == CHOOSE m \in S : \A n \in S : m.id <= n.id

(* The listings of a set: all of it, in order of the ids.                  *)
Listings(S) ==
  {s \in [1 .. Cardinality(S) -> S] :
     /\ \A i, j \in DOMAIN s : i < j => s[i].id < s[j].id
     /\ \A m \in S : \E i \in DOMAIN s : s[i] = m}

(* decryptWire, once for each message when it is listed.                   *)
Decrypted(c, m) == [msg |-> m, ok |-> m.epoch \in held[c]]

(* A message that does not reach c now will not be shown: the list is      *)
(* there, or on its way without it.                                        *)
Skipped(c, m) ==
  \/ c \in opened
  \/ \E s \in Slot : fetch[c][s].st = "read" /\ m \notin fetch[c][s].page

(* m is older than all of a full page.                                     *)
BeyondPage(m, page) == Cardinality(page) >= PageSize /\ \A n \in page : m.id < n.id

Miss(lost) == missed' = [c \in Client |-> missed[c] \cup {m \in lost[c] : Skipped(c, m)}]

-----------------------------------------------------------------------------
(* post_message *)

(* sendMessage of a member who holds the key of epoch e, whether or not it *)
(* is one of Client; the handler draws the ULID ahead of the insert.  ULIDs *)
(* of one millisecond, or drawn about when the clock is set back, come in  *)
(* any order.                                                              *)
Post(e) ==
  /\ \E i \in 1 .. MaxId :
       /\ \A m \in log \cup posting : m.id # i
       /\ posting' = posting \cup {[id |-> i, epoch |-> e]}
  /\ UNCHANGED <<log, fanning, online, queue, fetch, client, missed, overtaken, losses>>

(* post_message: the row, whose event is sent after the lock is given up. *)
Insert(m) ==
  /\ m \in posting
  /\ posting' = posting \ {m}
  /\ log' = log \cup {m}
  /\ fanning' = fanning \cup {m}
  /\ overtaken' = (overtaken \/ \E n \in log : n.id > m.id)
  /\ UNCHANGED <<online, queue, fetch, client, missed, losses>>

(* fanout: to every member who is connected.                               *)
Fanout(m) ==
  /\ m \in fanning
  /\ fanning' = fanning \ {m}
  /\ queue' = [c \in Client |-> IF c \in online THEN Append(queue[c], m) ELSE queue[c]]
  /\ Miss([c \in Client |-> IF c \in online THEN {} ELSE {m}])
  /\ overtaken' = (overtaken \/ \E n \in log \ fanning : n.id > m.id)
  /\ UNCHANGED <<log, posting, online, fetch, client, losses>>

-----------------------------------------------------------------------------
(* The client's list *)

(* Mutant: handleEvent without the check of the ids.                       *)
MessageNewUnchecked(c) ==
  /\ queue[c] # <<>>
  /\ shown' = IF c \in opened THEN [shown EXCEPT ![c] = Append(@, Decrypted(c, Head(queue[c])))]
                              ELSE shown
  /\ queue' = [queue EXCEPT ![c] = Tail(@)]
  /\ UNCHANGED <<server, online, fetch, held, opened, missed, overtaken, losses>>

(* Mutant: handleEvent leaves out what it cannot decrypt.                  *)
MessageNewIfReadable(c) ==
  /\ queue[c] # <<>>
  /\ LET m == Head(queue[c]) IN
       /\ shown' = IF c \in opened /\ m.id \notin Ids(shown[c]) /\ m.epoch \in held[c]
                     THEN [shown EXCEPT ![c] = Append(@, Decrypted(c, m))]
                     ELSE shown
       /\ missed' = IF c \notin opened /\ Skipped(c, m)
                      THEN [missed EXCEPT ![c] = @ \cup {m}]
                      ELSE missed
  /\ queue' = [queue EXCEPT ![c] = Tail(@)]
  /\ UNCHANGED <<server, online, fetch, held, opened, overtaken, losses>>

(* handleEvent, case message_new.                                          *)
MessageNew(c) ==
  /\ queue[c] # <<>>
  /\ LET m == Head(queue[c]) IN
       /\ shown' = IF c \in opened /\ m.id \notin Ids(shown[c])
                     THEN [shown EXCEPT ![c] = Append(@, Decrypted(c, m))]
                     ELSE shown
       /\ missed' = IF c \notin opened /\ Skipped(c, m)
                      THEN [missed EXCEPT ![c] = @ \cup {m}]
                      ELSE missed
  /\ queue' = [queue EXCEPT ![c] = Tail(@)]
  /\ UNCHANGED <<server, online, fetch, held, opened, overtaken, losses>>

(* selectChannel fetches the history when there is no list.                *)
SelectChannel(c, s) ==
  /\ c \notin opened
  /\ fetch[c][s].st = "none"
  /\ fetch' = [fetch EXCEPT ![c][s] = [st |-> "asked", page |-> {}]]
  /\ UNCHANGED <<server, online, queue, client, missed, overtaken, losses>>

(* fetch_messages.                                                         *)
FetchMessages(c, s) ==
  /\ fetch[c][s].st = "asked"
  /\ fetch' = [fetch EXCEPT ![c][s] = [st |-> "read", page |-> LastPage]]
  /\ missed' = [missed EXCEPT ![c] = @ \cup {m \in log : BeyondPage(m, LastPage)}]
  /\ overtaken' = (overtaken \/ (fanning \cup Waiting(c)) \ LastPage # {})
  /\ UNCHANGED <<server, online, queue, client, losses>>

(* Mutant: loadHistory without the reverse().                              *)
LoadNewestFirst(c, s) ==
  LET page == fetch[c][s].page
      n == Cardinality(page) IN
  /\ fetch[c][s].st = "read"
  /\ \E list \in Listings(page) :
       shown' = [shown EXCEPT ![c] = [i \in DOMAIN list |-> Decrypted(c, list[n + 1 - i])]]
  /\ opened' = opened \cup {c}
  /\ fetch' = [fetch EXCEPT ![c][s] = NoFetch]
  /\ missed' = [missed EXCEPT ![c] = @ \cup (Messages(shown[c]) \ page)]
  /\ UNCHANGED <<server, online, queue, held, overtaken, losses>>

(* loadHistory, when the answer comes: the page becomes the list.          *)
LoadHistory(c, s) ==
  LET page == fetch[c][s].page IN
  /\ fetch[c][s].st = "read"
  /\ \E list \in Listings(page) :
       shown' = [shown EXCEPT ![c] = [i \in DOMAIN list |-> Decrypted(c, list[i])]]
  /\ opened' = opened \cup {c}
  /\ fetch' = [fetch EXCEPT ![c][s] = NoFetch]
  /\ missed' = [missed EXCEPT ![c] = @ \cup (Messages(shown[c]) \ page)]
  /\ UNCHANGED <<server, online, queue, held, overtaken, losses>>

(* The request fails: the next selectChannel asks again.                   *)
LoadFails(c, s) ==
  /\ fetch[c][s].st # "none"
  /\ fetch' = [fetch EXCEPT ![c][s] = NoFetch]
  /\ UNCHANGED <<server, online, queue, client, missed, overtaken, losses>>

(* loadSpaceKeys: only the keys change, not what is shown.                 *)
KeyArrives(c, e) ==
  /\ e \notin held[c]
  /\ held' = [held EXCEPT ![c] = @ \cup {e}]
  /\ UNCHANGED <<server, online, queue, fetch, opened, shown, missed, overtaken, losses>>

-----------------------------------------------------------------------------
(* The socket is lost with what it carries.                                *)
SocketClose(c) ==
  /\ c \in online /\ losses < MaxLosses
  /\ online' = online \ {c}
  /\ queue' = [queue EXCEPT ![c] = <<>>]
  /\ Miss([d \in Client |-> IF d = c THEN Waiting(c) ELSE {}])
  /\ losses' = losses + 1
  /\ UNCHANGED <<server, fetch, client, overtaken>>

SocketOpen(c) ==
  /\ c \notin online
  /\ online' = online \cup {c}
  /\ UNCHANGED <<server, queue, fetch, client, missed, overtaken, losses>>

(* The rows survive; handlers, connections and requests do not.            *)
Restart ==
  /\ losses < MaxLosses
  /\ posting' = {} /\ fanning' = {} /\ online' = {}
  /\ queue' = [c \in Client |-> <<>>]
  /\ fetch' = [c \in Client |-> [s \in Slot |->
                 IF fetch[c][s].st = "asked" THEN NoFetch ELSE fetch[c][s]]]
  /\ Miss([c \in Client |-> fanning \cup Waiting(c)])
  /\ losses' = losses + 1
  /\ UNCHANGED <<log, client, overtaken>>

Next ==
  \/ \E m \in Message : Insert(m) \/ Fanout(m)
  \/ \E e \in Epoch : Post(e)
  \/ \E c \in Client : MessageNew(c) \/ SocketClose(c) \/ SocketOpen(c)
  \/ \E c \in Client, s \in Slot :
       SelectChannel(c, s) \/ FetchMessages(c, s) \/ LoadHistory(c, s) \/ LoadFails(c, s)
  \/ \E c \in Client, e \in Epoch : KeyArrives(c, e)
  \/ Restart

Spec == Init /\ [][Next]_vars

(* A handler runs to its end and what is sent arrives, if the socket stays *)
(* up.  Nobody has to post or to open the channel.                         *)
Fairness ==
  /\ \A m \in Message : WF_vars(Insert(m)) /\ WF_vars(Fanout(m))
  /\ \A c \in Client : WF_vars(MessageNew(c)) /\ WF_vars(SocketOpen(c))
  /\ \A c \in Client, s \in Slot : WF_vars(FetchMessages(c, s)) /\ WF_vars(LoadHistory(c, s))

LiveSpec == Spec /\ Fairness

-----------------------------------------------------------------------------
(* Properties *)

(* No message is listed twice, whether the history, the events or both     *)
(* bring it (the check in case message_new of handleEvent).                *)
ShownOnce ==
  \A c \in Client : \A i, j \in DOMAIN shown[c] :
    shown[c][i].msg.id = shown[c][j].msg.id => i = j

(* An opened list holds every row of the channel, save what is still on    *)
(* its way, what the page had no room for, and what was sent while the     *)
(* client was offline, or between the server's reading of a page and the   *)
(* client's listing it: nothing else gets lost between loadHistory and     *)
(* message_new.                                                            *)
NothingElseMissed ==
  \A c \in opened : \A m \in log :
    \/ m \in Messages(shown[c]) \cup missed[c]
    \/ m \in fanning \cup Waiting(c)

(* The list is in the order of the ids, which is the order in which the    *)
(* history will show it to others and after the next start, unless         *)
(* messages have overtaken each other between the drawing of their ids and *)
(* their sending.                                                          *)
ShownInOrder ==
  overtaken \/ \A c \in Client : \A i, j \in DOMAIN shown[c] :
                 i < j => shown[c][i].msg.id < shown[c][j].msg.id

(* Reading on before the oldest message of a page neither skips nor        *)
(* repeats a message (the cursor of fetch_messages).                       *)
PagesTile ==
  \A before \in 1 .. MaxId + 1, limit \in 1 .. MaxId :
    LET page == Page(before, limit)
    IN page # {} =>
         LET next == Page(Oldest(page).id, MaxId)
         IN page \cap next = {} /\ page \cup next = Page(before, MaxId)

(* Once the channel is opened, what is posted is shown to a client that    *)
(* stays connected, or was among the exceptions above.                     *)
PostedIsShown ==
  \A c \in Client, m \in Message :
    (c \in opened /\ m \in log) ~> (m \in Messages(shown[c]) \cup missed[c])

(* "Offline members catch up on history; new members read full history":   *)
(* a member who has the key of a message on the list comes to read it.     *)
NewMembersReadHistory ==
  \A c \in Client, m \in Message :
    (m \in Messages(shown[c]) /\ m.epoch \in held[c]) ~>
      [msg |-> m, ok |-> TRUE] \in {shown[c][i] : i \in DOMAIN shown[c]}
=============================================================================
