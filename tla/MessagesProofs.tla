--------------------------- MODULE MessagesProofs ---------------------------
(***************************************************************************)
(* For any clients, epochs, number of messages, size of page, overlapping  *)
(* fetches and losses: the state is well typed, no message is listed       *)
(* twice, an opened list misses nothing but what it is excused from and is *)
(* in order unless messages overtook each other, and pages tile the        *)
(* history.                                                                *)
(***************************************************************************)
EXTENDS Messages, FiniteSetTheorems, SequenceTheorems, WellFoundedInduction, TLAPS

(* The primary key of the table, for what is about to be inserted too.     *)
IdsUnique == \A m, n \in log \cup posting : m.id = n.id => m = n

(* Whatever travels or is shown is in the table.                           *)
QueuesFromLog == \A c \in Client : Waiting(c) \subseteq log
PagesFromLog == \A c \in Client, s \in Slot : fetch[c][s].page \subseteq log
ListsFromLog == \A c \in Client : Messages(shown[c]) \subseteq log
FromLog == QueuesFromLog /\ PagesFromLog /\ ListsFromLog

(* Where a row may be that c is not yet shown, or will not be.             *)
Elsewhere(c) == missed[c] \cup fanning \cup Waiting(c)

(* A page that was read and is not yet listed accounts for every row, but  *)
(* for those on the list it will replace.                                  *)
PagesAccount ==
  \A c \in Client, s \in Slot : fetch[c][s].st = "read" =>
    log \subseteq fetch[c][s].page \cup Messages(shown[c]) \cup Elsewhere(c)

ListsAccount == \A c \in opened : log \subseteq Messages(shown[c]) \cup Elsewhere(c)

Inv == TypeOK /\ IdsUnique /\ FromLog /\ ShownOnce /\ PagesAccount /\ ListsAccount

-----------------------------------------------------------------------------
(* Pages *)

LEMMA LogIsFinite ==
  ASSUME TypeOK, IdsUnique
  PROVE  IsFiniteSet(log)
<1> DEFINE f == [m \in log |-> m.id]
<1>1. f \in Injection(log, 1 .. MaxId)
  BY DEF TypeOK, IdsUnique, Message, Injection, IsInjective
<1>2. IsFiniteSet(1 .. MaxId)
  BY FS_Interval, BoundsAreNat
<1>3. QED
  BY <1>1, <1>2, FS_Injection

(* What a page leaves out is older than all of it, and then it is full.    *)
LEMMA PageOrBeyond ==
  ASSUME TypeOK, IdsUnique, NEW m \in log, m \notin LastPage
  PROVE  BeyondPage(m, LastPage)
<1> DEFINE Newer(n) == {k \in log : k.id > n.id}
<1> USE BoundsAreNat, PageSizeIsPositive
<1>1. \A n \in log : n \in Message /\ n.id \in 1 .. MaxId
  BY DEF TypeOK, Message
<1>2. IsFiniteSet(log)
  BY LogIsFinite
<1>3. LastPage = {n \in log : Cardinality(Newer(n)) < PageSize}
  <2>1. {n \in log : n.id < MaxId + 1} = log
    BY <1>1
  <2>2. QED
    BY <2>1 DEF LastPage, Page
<1>4. \A n \in log : IsFiniteSet(Newer(n)) /\ Cardinality(Newer(n)) \in Nat
  <2> TAKE n \in log
  <2>1. Newer(n) \in SUBSET log
    OBVIOUS
  <2>2. IsFiniteSet(Newer(n))
    BY <1>2, <2>1, FS_Subset
  <2>3. QED
    BY <2>2, FS_CardinalityType
<1>5. ASSUME NEW n \in LastPage PROVE m.id < n.id
  <2>1. n \in log
    BY <1>3
  <2>2. m.id # n.id
    BY <2>1 DEF IdsUnique
  <2>3. ASSUME n.id < m.id PROVE FALSE
    <3>1. Newer(m) \in SUBSET Newer(n)
      BY <1>1, <2>1, <2>3
    <3>2. Cardinality(Newer(m)) <= Cardinality(Newer(n))
      BY <1>4, <2>1, <3>1, FS_Subset
    <3>3. Cardinality(Newer(n)) < PageSize /\ ~ (Cardinality(Newer(m)) < PageSize)
      BY <1>3
    <3>4. QED
      BY <1>4, <2>1, <3>2, <3>3
  <2>4. QED
    BY <1>1, <2>1, <2>2, <2>3
<1>6. Cardinality(LastPage) >= PageSize
  <2> DEFINE T == {Newer(n) : n \in log \ LastPage}
  <2>1. PICK p \in log \ LastPage :
          \A q \in log \ LastPage : <<Newer(q), Newer(p)>> \notin StrictSubsetOrdering(log)
    <3>1. T \subseteq FiniteSubsetsOf(log) /\ T # {}
      BY <1>4 DEF FiniteSubsetsOf
    <3>2. \E x \in T : \A y \in T : ~ (<<y, x>> \in StrictSubsetOrdering(log))
      <4> HIDE DEF T
      <4> QED
        BY <3>1, FS_StrictSubsetOrderingWellFounded, WFMin
    <3>3. QED
      BY <3>2
  <2>2. Newer(p) \in SUBSET LastPage
    <3> SUFFICES ASSUME NEW q \in Newer(p), q \notin LastPage PROVE FALSE
      OBVIOUS
    <3>1. Newer(q) \subseteq Newer(p) /\ q \in Newer(p) /\ q \notin Newer(q)
      BY <1>1, <2>1
    <3>2. <<Newer(q), Newer(p)>> \in StrictSubsetOrdering(log)
      BY <3>1 DEF StrictSubsetOrdering
    <3>3. QED
      BY <2>1, <3>2
  <2>3. IsFiniteSet(LastPage) /\ Cardinality(LastPage) \in Nat
    <3>1. LastPage \in SUBSET log
      BY <1>3
    <3>2. QED
      BY <1>2, <3>1, FS_Subset, FS_CardinalityType
  <2>4. Cardinality(Newer(p)) <= Cardinality(LastPage)
    BY <2>2, <2>3, FS_Subset
  <2>5. ~ (Cardinality(Newer(p)) < PageSize)
    BY <1>3, <2>1
  <2>6. QED
    BY <1>4, <2>1, <2>3, <2>4, <2>5
<1>7. QED
  BY <1>5, <1>6 DEF BeyondPage

-----------------------------------------------------------------------------
(* Queues and lists *)

Elements(q) == {q[i] : i \in DOMAIN q}

LEMMA ElementsOfAppend ==
  ASSUME NEW S, NEW q \in Seq(S), NEW x \in S
  PROVE  /\ Append(q, x) \in Seq(S)
         /\ Elements(Append(q, x)) = Elements(q) \cup {x}
<1>1. Append(q, x) \in Seq(S) /\ Len(Append(q, x)) = Len(q) + 1
  OBVIOUS
<1>2. \A i \in 1 .. Len(q) : Append(q, x)[i] = q[i]
  OBVIOUS
<1>3. Append(q, x)[Len(q) + 1] = x
  OBVIOUS
<1>4. DOMAIN q = 1 .. Len(q) /\ DOMAIN Append(q, x) = 1 .. (Len(q) + 1) /\ Len(q) \in Nat
  BY <1>1
<1>5. DOMAIN Append(q, x) = DOMAIN q \cup {Len(q) + 1}
  BY <1>4
<1>6. QED
  BY <1>1, <1>2, <1>3, <1>4, <1>5, Zenon DEF Elements

LEMMA ElementsOfTail ==
  ASSUME NEW S, NEW q \in Seq(S), q # <<>>
  PROVE  /\ Head(q) \in S /\ Tail(q) \in Seq(S)
         /\ Elements(q) = Elements(Tail(q)) \cup {Head(q)}
<1>1. Head(q) \in S /\ Tail(q) \in Seq(S) /\ Len(Tail(q)) = Len(q) - 1 /\ Len(q) \in Nat \ {0}
  OBVIOUS
<1>2. DOMAIN q = 1 .. Len(q) /\ DOMAIN Tail(q) = 1 .. Len(q) - 1
  BY <1>1
<1>3. q[1] = Head(q) /\ \A i \in 1 .. Len(q) - 1 : Tail(q)[i] = q[i + 1]
  BY <1>1
<1>4. \A x \in Elements(q) : x \in Elements(Tail(q)) \cup {Head(q)}
  <2> SUFFICES ASSUME NEW i \in 1 .. Len(q) PROVE q[i] \in Elements(Tail(q)) \cup {Head(q)}
    BY <1>2 DEF Elements
  <2>1. CASE i = 1
    BY <1>3, <2>1
  <2>2. CASE i # 1
    <3>1. i - 1 \in 1 .. Len(q) - 1 /\ (i - 1) + 1 = i
      BY <1>1, <2>2
    <3>2. Tail(q)[i - 1] = q[i]
      BY <1>3, <3>1
    <3>3. QED
      BY <1>2, <3>1, <3>2 DEF Elements
  <2>3. QED
    BY <2>1, <2>2
<1>5. \A x \in Elements(Tail(q)) : x \in Elements(q)
  <2> SUFFICES ASSUME NEW i \in 1 .. Len(q) - 1 PROVE Tail(q)[i] \in Elements(q)
    BY <1>2 DEF Elements
  <2>1. i + 1 \in 1 .. Len(q) /\ Tail(q)[i] = q[i + 1]
    BY <1>1, <1>3
  <2>2. QED
    BY <1>2, <2>1 DEF Elements
<1>6. Head(q) \in Elements(q)
  <2>1. 1 \in DOMAIN q
    BY <1>1, <1>2
  <2>2. QED
    BY <1>3, <2>1 DEF Elements
<1>7. QED
  BY <1>1, <1>4, <1>5, <1>6

LEMMA ElementsOfEmpty == Elements(<<>>) = {}
BY DEF Elements

LEMMA WaitingIsElements == \A c : Waiting(c) = Elements(queue[c]) /\ Waiting(c)' = Elements(queue'[c])
BY DEF Waiting, Elements

LEMMA MessagesOfAppend ==
  ASSUME NEW list \in Seq(Shown), NEW x \in Shown
  PROVE  /\ Append(list, x) \in Seq(Shown)
         /\ Messages(Append(list, x)) = Messages(list) \cup {x.msg}
         /\ Ids(Append(list, x)) = Ids(list) \cup {x.msg.id}
<1>1. Elements(Append(list, x)) = Elements(list) \cup {x} /\ Append(list, x) \in Seq(Shown)
  BY ElementsOfAppend
<1>2. \A l : /\ Messages(l) = {e.msg : e \in Elements(l)}
             /\ Ids(l) = {e.msg.id : e \in Elements(l)}
  BY DEF Messages, Ids, Elements
<1>3. QED
  BY <1>1, <1>2

(* What loadHistory makes of a page.                                       *)
LEMMA ListingProperties ==
  ASSUME NEW c \in Client, NEW S \in SUBSET Message, IsFiniteSet(S), NEW list \in Listings(S),
         NEW new, new = [i \in DOMAIN list |-> Decrypted(c, list[i])]
  PROVE  /\ new \in Seq(Shown)
         /\ Messages(new) = S
         /\ \A i, j \in DOMAIN new : new[i].msg.id = new[j].msg.id => i = j
<1>1. /\ Cardinality(S) \in Nat
      /\ list \in [1 .. Cardinality(S) -> S]
      /\ \A i, j \in DOMAIN list : i < j => list[i].id < list[j].id
      /\ \A m \in S : \E i \in DOMAIN list : list[i] = m
  BY FS_CardinalityType DEF Listings
<1>2. \A m \in Message : Decrypted(c, m) \in Shown /\ Decrypted(c, m).msg = m
  BY DEF Decrypted, Shown
<1>3. new \in [1 .. Cardinality(S) -> Shown]
  BY <1>1, <1>2
<1>4. \A i \in DOMAIN list : new[i].msg = list[i]
  BY <1>1, <1>2
<1>5. new \in Seq(Shown)
  BY <1>1, <1>3
<1>6. Messages(new) = S
  BY <1>1, <1>4 DEF Messages
<1>7. ASSUME NEW i \in DOMAIN new, NEW j \in DOMAIN new, new[i].msg.id = new[j].msg.id
      PROVE  i = j
  <2>1. list[i].id = list[j].id /\ list[i].id \in Nat
    BY <1>1, <1>4, <1>7 DEF Message
  <2>2. ~ (i < j) /\ ~ (j < i) /\ i \in Nat /\ j \in Nat
    BY <1>1, <2>1
  <2>3. QED
    BY <2>2
<1>8. QED
  BY <1>5, <1>6, <1>7
-----------------------------------------------------------------------------
LEMMA InitInv == Init => Inv
<1> SUFFICES ASSUME Init PROVE Inv
  OBVIOUS
<1> USE DEF Init
<1>1. TypeOK
  <2>1. queue \in [Client -> Seq(Message)] /\ shown \in [Client -> Seq(Shown)]
    OBVIOUS
  <2>2. fetch \in [Client -> [Slot -> Fetch]]
    <3>1. NoFetch \in Fetch
      BY DEF NoFetch, Fetch
    <3>2. QED
      BY <3>1
  <2>3. losses \in 0 .. MaxLosses /\ missed \in [Client -> SUBSET Message]
    BY BoundsAreNat
  <2>4. QED
    BY <2>1, <2>2, <2>3 DEF TypeOK
<1>2. IdsUnique /\ FromLog /\ ShownOnce /\ PagesAccount /\ ListsAccount
  BY DEF IdsUnique, FromLog, QueuesFromLog, PagesFromLog, ListsFromLog, ShownOnce, PagesAccount, ListsAccount, Elsewhere, Waiting, Messages,
         NoFetch
<1>3. QED
  BY <1>1, <1>2 DEF Inv

(* What Miss writes, in every step that takes something from a client.     *)
LEMMA MissAccounts ==
  ASSUME Inv, NEW lost \in [Client -> SUBSET Message], Miss(lost)
  PROVE  /\ missed' \in [Client -> SUBSET Message]
         /\ \A c \in Client : missed[c] \subseteq missed'[c]
         /\ \A c \in opened : lost[c] \subseteq missed'[c]
         /\ \A c \in Client, s \in Slot :
              fetch[c][s].st = "read" => lost[c] \subseteq fetch[c][s].page \cup missed'[c]
<1>1. missed \in [Client -> SUBSET Message] /\ opened \subseteq Client
  BY DEF Inv, TypeOK
<1>2. missed' = [c \in Client |-> missed[c] \cup {m \in lost[c] : Skipped(c, m)}]
  BY DEF Miss
<1>3. QED
  BY <1>1, <1>2 DEF Skipped

(* Every step keeps the types.                                             *)
LEMMA TypeStep ==
  ASSUME Inv, [Next]_vars
  PROVE  TypeOK'
<1> USE DEF Inv
<1>1. ASSUME NEW e \in Epoch, Post(e) PROVE TypeOK'
  <2>1. posting' \subseteq Message
    BY <1>1 DEF Post, TypeOK, Message
  <2>2. QED
    BY <1>1, <2>1 DEF Post, TypeOK, client
<1>2. ASSUME NEW m \in Message, Insert(m) PROVE TypeOK'
  BY <1>2 DEF Insert, TypeOK, client
<1>3. ASSUME NEW m \in Message, Fanout(m) PROVE TypeOK'
  <2> DEFINE lost == [c \in Client |-> IF c \in online THEN {} ELSE {m}]
  <2>1. missed' \in [Client -> SUBSET Message]
    <3>1. Miss(lost) /\ lost \in [Client -> SUBSET Message]
      BY <1>3 DEF Fanout
    <3>2. QED
      BY <3>1, MissAccounts
  <2>2. queue' \in [Client -> Seq(Message)]
    BY <1>3 DEF Fanout, TypeOK
  <2>3. QED
    BY <1>3, <2>1, <2>2 DEF Fanout, TypeOK, client
<1>4. ASSUME NEW c \in Client, MessageNew(c) PROVE TypeOK'
  <2> DEFINE m == Head(queue[c])
  <2>1. m \in Message /\ Tail(queue[c]) \in Seq(Message)
    BY <1>4, ElementsOfTail DEF MessageNew, TypeOK
  <2>2. Decrypted(c, m) \in Shown
    BY <2>1 DEF Decrypted, Shown
  <2>3. Append(shown[c], Decrypted(c, m)) \in Seq(Shown)
    BY <2>2, MessagesOfAppend DEF TypeOK
  <2> HIDE DEF m
  <2>4. shown' \in [Client -> Seq(Shown)]
    BY <1>4, <2>3 DEF MessageNew, TypeOK, m
  <2>5. missed' \in [Client -> SUBSET Message]
    BY <1>4, <2>1 DEF MessageNew, TypeOK, m
  <2>6. queue' \in [Client -> Seq(Message)]
    BY <1>4, <2>1 DEF MessageNew, TypeOK, m
  <2>7. QED
    BY <1>4, <2>4, <2>5, <2>6 DEF MessageNew, TypeOK, server
<1>5. ASSUME NEW c \in Client, NEW s \in Slot, SelectChannel(c, s) \/ LoadFails(c, s) PROVE TypeOK'
  <2>1. [st |-> "asked", page |-> {}] \in Fetch /\ NoFetch \in Fetch
    BY DEF Fetch, NoFetch
  <2>2. fetch' \in [Client -> [Slot -> Fetch]]
    <3>1. \E x \in Fetch : fetch' = [fetch EXCEPT ![c][s] = x]
      BY <1>5, <2>1 DEF SelectChannel, LoadFails
    <3>2. QED
      BY <3>1 DEF TypeOK
  <2>3. QED
    BY <1>5, <2>2 DEF SelectChannel, LoadFails, TypeOK, server, client
<1>6. ASSUME NEW c \in Client, NEW s \in Slot, FetchMessages(c, s) PROVE TypeOK'
  <2>1. LastPage \in SUBSET Message /\ {m \in log : BeyondPage(m, LastPage)} \in SUBSET Message
    BY DEF LastPage, Page, TypeOK
  <2>2. fetch' \in [Client -> [Slot -> Fetch]]
    BY <1>6, <2>1 DEF FetchMessages, TypeOK, Fetch
  <2>3. missed' \in [Client -> SUBSET Message]
    BY <1>6, <2>1 DEF FetchMessages, TypeOK
  <2>4. overtaken' \in BOOLEAN
    BY <1>6 DEF FetchMessages
  <2>5. QED
    BY <1>6, <2>2, <2>3, <2>4 DEF FetchMessages, TypeOK, server, client
<1>7. ASSUME NEW c \in Client, NEW s \in Slot, LoadHistory(c, s) PROVE TypeOK'
  <2> DEFINE page == fetch[c][s].page
  <2>1. page \in SUBSET Message /\ IsFiniteSet(page)
    <3>1. page \in SUBSET log /\ page \in SUBSET Message
      BY DEF FromLog, QueuesFromLog, PagesFromLog, ListsFromLog, TypeOK, Fetch
    <3>2. QED
      BY <3>1, LogIsFinite, FS_Subset
  <2>2. PICK list \in Listings(page) :
          shown' = [shown EXCEPT ![c] = [i \in DOMAIN list |-> Decrypted(c, list[i])]]
    BY <1>7 DEF LoadHistory
  <2>3. [i \in DOMAIN list |-> Decrypted(c, list[i])] \in Seq(Shown)
    BY <2>1, ListingProperties
  <2>4. shown' \in [Client -> Seq(Shown)]
    BY <2>2, <2>3 DEF TypeOK
  <2>5. Messages(shown[c]) \in SUBSET Message
    BY DEF FromLog, QueuesFromLog, PagesFromLog, ListsFromLog, TypeOK
  <2>6. missed' \in [Client -> SUBSET Message]
    BY <1>7, <2>5 DEF LoadHistory, TypeOK
  <2>7. fetch' \in [Client -> [Slot -> Fetch]]
    BY <1>7 DEF LoadHistory, TypeOK, Fetch, NoFetch
  <2>8. QED
    BY <1>7, <2>4, <2>6, <2>7 DEF LoadHistory, TypeOK, server
<1>8. ASSUME NEW c \in Client, NEW e \in Epoch, KeyArrives(c, e) PROVE TypeOK'
  BY <1>8 DEF KeyArrives, TypeOK, server
<1>9. ASSUME NEW c \in Client, SocketClose(c) PROVE TypeOK'
  <2> DEFINE lost == [d \in Client |-> IF d = c THEN Waiting(c) ELSE {}]
  <2>1. missed' \in [Client -> SUBSET Message]
    <3>1. Miss(lost) /\ lost \in [Client -> SUBSET Message]
      BY <1>9 DEF SocketClose, FromLog, QueuesFromLog, TypeOK
    <3>2. QED
      BY <3>1, MissAccounts
  <2>2. queue' \in [Client -> Seq(Message)]
    BY <1>9 DEF SocketClose, TypeOK
  <2>3. losses' \in 0 .. MaxLosses
    BY <1>9, BoundsAreNat DEF SocketClose, TypeOK
  <2>4. QED
    BY <1>9, <2>1, <2>2, <2>3 DEF SocketClose, TypeOK, server, client
<1>10. ASSUME NEW c \in Client, SocketOpen(c) PROVE TypeOK'
  BY <1>10 DEF SocketOpen, TypeOK, server, client
<1>11. ASSUME Restart PROVE TypeOK'
  <2> DEFINE lost == [c \in Client |-> fanning \cup Waiting(c)]
  <2>1. missed' \in [Client -> SUBSET Message]
    <3>1. Miss(lost) /\ lost \in [Client -> SUBSET Message]
      BY <1>11 DEF Restart, FromLog, QueuesFromLog, TypeOK
    <3>2. QED
      BY <3>1, MissAccounts
  <2>2. queue' \in [Client -> Seq(Message)] /\ fetch' \in [Client -> [Slot -> Fetch]]
    BY <1>11 DEF Restart, TypeOK, Fetch, NoFetch
  <2>3. losses' \in 0 .. MaxLosses
    BY <1>11, BoundsAreNat DEF Restart, TypeOK
  <2>4. QED
    BY <1>11, <2>1, <2>2, <2>3 DEF Restart, TypeOK, client
<1>12. CASE UNCHANGED vars
  BY <1>12 DEF vars, server, client, TypeOK
<1>13. QED
  BY <1>1, <1>2, <1>3, <1>4, <1>5, <1>6, <1>7, <1>8, <1>9, <1>10, <1>11, <1>12 DEF Next
-----------------------------------------------------------------------------
(* Every step keeps the other parts.  Who writes what: posts and inserts   *)
(* write the table, fanouts and losses take messages to or from the        *)
(* queues, and only message_new and loadHistory write lists.               *)

LEMMA IdsUniqueStep ==
  ASSUME Inv, [Next]_vars
  PROVE  IdsUnique' /\ log \subseteq log'
<1> USE DEF Inv, IdsUnique
<1>1. ASSUME NEW e \in Epoch, Post(e) PROVE IdsUnique' /\ log \subseteq log'
  BY <1>1 DEF Post
<1>2. ASSUME NEW m \in Message, Insert(m) PROVE IdsUnique' /\ log \subseteq log'
  BY <1>2 DEF Insert
<1>3. CASE UNCHANGED <<log, posting>>
  BY <1>3
<1>4. CASE Restart
  BY <1>4 DEF Restart
<1>5. QED
  BY <1>1, <1>2, <1>3, <1>4
     DEF Next, vars, server, Fanout, MessageNew, SelectChannel, FetchMessages, LoadHistory,
         LoadFails, KeyArrives, SocketClose, SocketOpen

(* A list and its queue, for the client a step writes and for the others.  *)
LEMMA MessageNewStep ==
  ASSUME Inv, NEW c \in Client, MessageNew(c)
  PROVE  \E m \in log :
           /\ Waiting(c) = Waiting(c)' \cup {m}
           /\ \/ c \in opened /\ m \in Messages(shown[c]) /\ shown' = shown
              \/ c \notin opened /\ shown' = shown
              \/ /\ c \in opened /\ m.id \notin Ids(shown[c])
                 /\ shown' = [shown EXCEPT ![c] = Append(@, Decrypted(c, m))]
           /\ c \notin opened => missed' = IF Skipped(c, m)
                                             THEN [missed EXCEPT ![c] = @ \cup {m}] ELSE missed
           /\ c \in opened => missed' = missed
<1> DEFINE m == Head(queue[c])
<1>1. queue[c] \in Seq(Message) /\ queue[c] # <<>> /\ queue \in [Client -> Seq(Message)]
  BY DEF MessageNew, Inv, TypeOK
<1>2. Elements(queue[c]) = Elements(Tail(queue[c])) \cup {m}
  BY <1>1, ElementsOfTail
<1>3. queue'[c] = Tail(queue[c])
  BY <1>1 DEF MessageNew
<1>4. Waiting(c) = Waiting(c)' \cup {m}
  BY <1>2, <1>3, WaitingIsElements
<1>5. m \in log
  BY <1>4 DEF Inv, FromLog, QueuesFromLog, ListsFromLog
<1>6. m.id \in Ids(shown[c]) => m \in Messages(shown[c])
  <2> SUFFICES ASSUME m.id \in Ids(shown[c]) PROVE m \in Messages(shown[c])
    OBVIOUS
  <2>1. PICK i \in DOMAIN shown[c] : shown[c][i].msg.id = m.id
    BY DEF Ids
  <2>2. shown[c][i].msg \in Messages(shown[c])
    BY <2>1 DEF Messages
  <2>3. shown[c][i].msg \in log
    BY <2>2 DEF Inv, FromLog, QueuesFromLog, ListsFromLog
  <2>4. shown[c][i].msg = m
    BY <1>5, <2>1, <2>3 DEF Inv, IdsUnique
  <2>5. QED
    BY <2>2, <2>4
<1>7. /\ shown' = IF c \in opened /\ m.id \notin Ids(shown[c])
                    THEN [shown EXCEPT ![c] = Append(@, Decrypted(c, m))] ELSE shown
      /\ missed' = IF c \notin opened /\ Skipped(c, m)
                     THEN [missed EXCEPT ![c] = @ \cup {m}] ELSE missed
  BY DEF MessageNew
<1> HIDE DEF m
<1>8. QED
  BY <1>4, <1>5, <1>6, <1>7

LEMMA LoadHistoryStep ==
  ASSUME Inv, NEW c \in Client, NEW s \in Slot, LoadHistory(c, s)
  PROVE  /\ Messages(shown'[c]) = fetch[c][s].page
         /\ \A i, j \in DOMAIN shown'[c] : shown'[c][i].msg.id = shown'[c][j].msg.id => i = j
         /\ \A d \in Client \ {c} : shown'[d] = shown[d]
<1> DEFINE page == fetch[c][s].page
<1>1. page \in SUBSET log /\ page \in SUBSET Message
  BY DEF Inv, TypeOK, FromLog, PagesFromLog
<1>2. IsFiniteSet(page)
  BY <1>1, LogIsFinite, FS_Subset DEF Inv
<1>3. PICK list \in Listings(page) :
        shown' = [shown EXCEPT ![c] = [i \in DOMAIN list |-> Decrypted(c, list[i])]]
  BY DEF LoadHistory
<1>4. /\ shown'[c] = [i \in DOMAIN list |-> Decrypted(c, list[i])]
      /\ \A d \in Client \ {c} : shown'[d] = shown[d]
  BY <1>3 DEF Inv, TypeOK
<1> HIDE DEF page
<1>5. /\ Messages(shown'[c]) = page
      /\ \A i, j \in DOMAIN shown'[c] : shown'[c][i].msg.id = shown'[c][j].msg.id => i = j
  BY <1>1, <1>2, <1>4, ListingProperties
<1>6. QED
  BY <1>4, <1>5 DEF page

LEMMA FromLogStep ==
  ASSUME Inv, [Next]_vars
  PROVE  FromLog'
<1> USE DEF Inv, FromLog, QueuesFromLog, PagesFromLog, ListsFromLog
<1>0. log \subseteq log' /\ queue \in [Client -> Seq(Message)] /\ fetch \in [Client -> [Slot -> Fetch]]
      /\ shown \in [Client -> Seq(Shown)] /\ fanning \subseteq log /\ log \subseteq Message
  BY IdsUniqueStep DEF TypeOK
<1>1. QueuesFromLog'
  <2>1. CASE UNCHANGED queue
    BY <1>0, <2>1 DEF Waiting
  <2>2. ASSUME NEW m \in Message, Fanout(m) PROVE QueuesFromLog'
    <3>1. m \in log /\ queue' = [c \in Client |-> IF c \in online THEN Append(queue[c], m) ELSE queue[c]]
      BY <1>0, <2>2 DEF Fanout
    <3>2. \A c \in Client : Elements(queue'[c]) \subseteq Elements(queue[c]) \cup {m}
      BY <1>0, <3>1, ElementsOfAppend
    <3>3. QED
      BY <1>0, <3>1, <3>2, WaitingIsElements
  <2>3. ASSUME NEW c \in Client, MessageNew(c) PROVE QueuesFromLog'
    <3>1. \A d \in Client \ {c} : queue'[d] = queue[d]
      BY <1>0, <2>3 DEF MessageNew
    <3>2. Waiting(c)' \subseteq Waiting(c)
      BY <2>3, MessageNewStep
    <3>3. QED
      BY <1>0, <3>1, <3>2 DEF Waiting
  <2>4. ASSUME NEW c \in Client, SocketClose(c) PROVE QueuesFromLog'
    <3>1. \A d \in Client : queue'[d] = queue[d] \/ queue'[d] = <<>>
      BY <1>0, <2>4 DEF SocketClose
    <3>2. QED
      BY <1>0, <3>1, ElementsOfEmpty, WaitingIsElements
  <2>5. CASE Restart
    <3>1. \A d \in Client : queue'[d] = <<>>
      BY <2>5 DEF Restart
    <3>2. QED
      BY <3>1, ElementsOfEmpty, WaitingIsElements
  <2>6. QED
    BY <2>1, <2>2, <2>3, <2>4, <2>5
       DEF Next, vars, Post, Insert, SelectChannel, FetchMessages, LoadHistory, LoadFails,
           KeyArrives, SocketOpen
<1>2. PagesFromLog'
  <2>1. CASE UNCHANGED fetch
    BY <1>0, <2>1
  <2>2. ASSUME NEW c \in Client, NEW s \in Slot, NEW x, x.page \subseteq log,
               fetch' = [fetch EXCEPT ![c][s] = x]
        PROVE  PagesFromLog'
    BY <1>0, <2>2
  <2>3. NoFetch.page \subseteq log /\ [st |-> "asked", page |-> {}].page \subseteq log
        /\ [st |-> "read", page |-> LastPage].page \subseteq log
    BY DEF NoFetch, LastPage, Page
  <2>4. CASE Restart
    BY <1>0, <2>3, <2>4 DEF Restart
  <2>5. QED
    BY <2>1, <2>2, <2>3, <2>4
       DEF Next, vars, Post, Insert, Fanout, MessageNew, SelectChannel, FetchMessages, LoadHistory,
           LoadFails, KeyArrives, SocketClose, SocketOpen
<1>3. ListsFromLog'
  <2>1. CASE UNCHANGED shown
    BY <1>0, <2>1
  <2>2. ASSUME NEW c \in Client, MessageNew(c) PROVE ListsFromLog'
    <3>1. PICK m \in log :
            shown' = shown \/ shown' = [shown EXCEPT ![c] = Append(@, Decrypted(c, m))]
      BY <2>2, MessageNewStep
    <3>2. Decrypted(c, m) \in Shown /\ Decrypted(c, m).msg = m
      BY <1>0 DEF Decrypted, Shown
    <3>3. Messages(Append(shown[c], Decrypted(c, m))) = Messages(shown[c]) \cup {m}
      BY <1>0, <3>2, MessagesOfAppend
    <3>4. QED
      BY <1>0, <3>1, <3>3
  <2>3. ASSUME NEW c \in Client, NEW s \in Slot, LoadHistory(c, s) PROVE ListsFromLog'
    <3>1. Messages(shown'[c]) = fetch[c][s].page /\ \A d \in Client \ {c} : shown'[d] = shown[d]
      BY <2>3, LoadHistoryStep
    <3>2. QED
      BY <1>0, <3>1
  <2>4. QED
    BY <2>1, <2>2, <2>3
       DEF Next, vars, client, Post, Insert, Fanout, SelectChannel, FetchMessages, LoadFails,
           KeyArrives, SocketClose, SocketOpen, Restart
<1>4. QED
  BY <1>1, <1>2, <1>3

(* The dedup of message_new, and the strict order of a listing.            *)
LEMMA ShownOnceStep ==
  ASSUME Inv, [Next]_vars
  PROVE  ShownOnce'
<1>0. shown \in [Client -> Seq(Shown)] /\ log \subseteq Message /\ ShownOnce
  BY DEF Inv, TypeOK
<1>1. CASE UNCHANGED shown
  BY <1>0, <1>1 DEF ShownOnce
<1>2. ASSUME NEW c \in Client, MessageNew(c) PROVE ShownOnce'
  <2>1. PICK m \in log :
          \/ shown' = shown
          \/ /\ m.id \notin Ids(shown[c])
             /\ shown' = [shown EXCEPT ![c] = Append(@, Decrypted(c, m))]
    BY <1>2, MessageNewStep
  <2>2. CASE shown' = shown
    BY <1>1, <2>2
  <2>3. CASE /\ m.id \notin Ids(shown[c])
             /\ shown' = [shown EXCEPT ![c] = Append(@, Decrypted(c, m))]
    <3> DEFINE old == shown[c]
               x == Decrypted(c, m)
    <3>1. old \in Seq(Shown) /\ x \in Shown /\ x.msg = m
      <4>1. old \in Seq(Shown) /\ m \in Message
        BY <1>0
      <4>2. x \in Shown /\ x.msg = m
        BY <4>1 DEF Decrypted, Shown
      <4>3. QED
        BY <4>1, <4>2
    <3>2. shown'[c] = Append(old, x) /\ \A d \in Client \ {c} : shown'[d] = shown[d]
      BY <1>0, <2>3
    <3>3. \A i \in 1 .. Len(old) : old[i].msg.id # m.id
      BY <2>3, <3>1 DEF Ids
    <3>4. \A i, j \in 1 .. Len(old) : old[i].msg.id = old[j].msg.id => i = j
      BY <1>0, <3>1 DEF ShownOnce
    <3> HIDE DEF old, x
    <3>5. /\ DOMAIN Append(old, x) = 1 .. Len(old) + 1
          /\ Len(old) \in Nat
          /\ \A i \in 1 .. Len(old) : Append(old, x)[i] = old[i]
          /\ Append(old, x)[Len(old) + 1] = x
      BY <3>1
    <3>6. ASSUME NEW i \in 1 .. Len(old) + 1, NEW j \in 1 .. Len(old) + 1,
                 Append(old, x)[i].msg.id = Append(old, x)[j].msg.id
          PROVE  i = j
      <4>1. CASE i \in 1 .. Len(old) /\ j \in 1 .. Len(old)
        BY <3>4, <3>5, <3>6, <4>1
      <4>2. CASE i = Len(old) + 1 /\ j \in 1 .. Len(old)
        BY <3>1, <3>3, <3>5, <3>6, <4>2
      <4>3. CASE j = Len(old) + 1 /\ i \in 1 .. Len(old)
        BY <3>1, <3>3, <3>5, <3>6, <4>3
      <4>4. QED
        BY <3>5, <4>1, <4>2, <4>3
    <3>7. QED
      BY <1>0, <3>2, <3>5, <3>6 DEF ShownOnce
  <2>4. QED
    BY <2>1, <2>2, <2>3
<1>3. ASSUME NEW c \in Client, NEW s \in Slot, LoadHistory(c, s) PROVE ShownOnce'
  BY <1>0, <1>3, LoadHistoryStep DEF Inv, ShownOnce
<1>4. QED
  BY <1>1, <1>2, <1>3
     DEF Next, vars, client, Post, Insert, Fanout, SelectChannel, FetchMessages, LoadFails,
         KeyArrives, SocketClose, SocketOpen, Restart

-----------------------------------------------------------------------------
(* What leaves the queues and handlers on its way to a client enters its   *)
(* list, or what it is excused from.                                       *)
Accounts(c, page) == log \subseteq page \cup Messages(shown[c]) \cup Elsewhere(c)

LEMMA AccountStep ==
  ASSUME Inv, [Next]_vars
  PROVE  PagesAccount' /\ ListsAccount'
<1> DEFINE Goal(c) == /\ \A s \in Slot : fetch'[c][s].st = "read" => Accounts(c, fetch[c][s].page)'
                      /\ c \in opened' => Accounts(c, {})'
<1> SUFFICES ASSUME NEW c \in Client PROVE Goal(c)
  <2>1. opened' \subseteq Client
    BY TypeStep DEF TypeOK
  <2>2. QED
    BY <2>1 DEF PagesAccount, ListsAccount, Accounts
<1>0. /\ \A s \in Slot : fetch[c][s].st = "read" => Accounts(c, fetch[c][s].page)
      /\ c \in opened => Accounts(c, {})
  BY DEF Inv, PagesAccount, ListsAccount, Accounts
<1> USE DEF Accounts, Elsewhere
<1>1. ASSUME UNCHANGED <<opened, shown, fetch>>, missed[c] \subseteq missed'[c],
             log \subseteq log', (log' \ log) \subseteq fanning',
             NEW lost, fanning \cup Waiting(c) \subseteq fanning' \cup Waiting(c)' \cup lost,
             c \in opened => lost \subseteq missed'[c],
             \A s \in Slot : fetch[c][s].st = "read" => lost \subseteq fetch[c][s].page \cup missed'[c]
      PROVE  Goal(c)
  BY <1>0, <1>1
<1>2. /\ queue \in [Client -> Seq(Message)] /\ fetch \in [Client -> [Slot -> Fetch]]
      /\ shown \in [Client -> Seq(Shown)] /\ missed \in [Client -> SUBSET Message]
      /\ fanning \subseteq log /\ log \subseteq Message /\ opened \subseteq Client
  BY DEF Inv, TypeOK
<1> HIDE DEF Goal
<1>3. CASE UNCHANGED <<log, fanning, queue, fetch, opened, shown, missed>>
  BY <1>0, <1>3 DEF Waiting, Goal
<1>4. ASSUME NEW m \in Message, Insert(m) PROVE Goal(c)
  <2>1. UNCHANGED <<queue, fetch, opened, shown, missed>> /\ log' = log \cup {m}
        /\ fanning' = fanning \cup {m}
    BY <1>4 DEF Insert, client
  <2>2. Waiting(c)' = Waiting(c)
    BY <2>1 DEF Waiting
  <2>3. QED
    BY <1>0, <2>1, <2>2 DEF Goal
<1>5. ASSUME NEW m \in Message, Fanout(m) PROVE Goal(c)
  <2> DEFINE lost == [d \in Client |-> IF d \in online THEN {} ELSE {m}]
  <2>1. /\ UNCHANGED <<log, fetch, opened, shown>> /\ fanning' = fanning \ {m} /\ Miss(lost)
        /\ queue' = [d \in Client |-> IF d \in online THEN Append(queue[d], m) ELSE queue[d]]
    BY <1>5 DEF Fanout, client
  <2>2. lost \in [Client -> SUBSET Message]
    OBVIOUS
  <2> HIDE DEF lost
  <2>3. /\ missed[c] \subseteq missed'[c]
        /\ c \in opened => lost[c] \subseteq missed'[c]
        /\ \A s \in Slot : fetch[c][s].st = "read" => lost[c] \subseteq fetch[c][s].page \cup missed'[c]
    BY <2>1, <2>2, MissAccounts
  <2>4. Waiting(c)' = Waiting(c) \cup ({m} \ lost[c])
    <3>1. CASE c \in online
      <4>1. queue'[c] = Append(queue[c], m) /\ lost[c] = {}
        BY <2>1, <3>1 DEF lost
      <4>2. Elements(queue'[c]) = Elements(queue[c]) \cup {m}
        BY <1>2, <4>1, ElementsOfAppend
      <4>3. QED
        BY <4>1, <4>2, WaitingIsElements
    <3>2. CASE c \notin online
      <4>1. queue'[c] = queue[c] /\ lost[c] = {m}
        BY <2>1, <3>2 DEF lost
      <4>2. QED
        BY <4>1, WaitingIsElements
    <3>3. QED
      BY <3>1, <3>2
  <2>5. QED
    BY <1>1, <2>1, <2>3, <2>4
<1>6. ASSUME NEW d \in Client, MessageNew(d) PROVE Goal(c)
  <2>1. UNCHANGED <<log, fanning, fetch, opened>>
    BY <1>6 DEF MessageNew, server
  <2>2. CASE d # c
    <3>1. shown'[c] = shown[c] /\ missed'[c] = missed[c] /\ queue'[c] = queue[c]
      BY <1>2, <1>6, <2>2 DEF MessageNew
    <3>2. QED
      BY <1>0, <2>1, <3>1 DEF Waiting, Goal
  <2>3. CASE d = c
    <3>1. PICK m \in log :
           /\ Waiting(c) = Waiting(c)' \cup {m}
           /\ \/ c \in opened /\ m \in Messages(shown[c]) /\ shown' = shown
              \/ c \notin opened /\ shown' = shown
              \/ /\ c \in opened /\ m.id \notin Ids(shown[c])
                 /\ shown' = [shown EXCEPT ![c] = Append(@, Decrypted(c, m))]
           /\ c \notin opened => missed' = IF Skipped(c, m)
                                             THEN [missed EXCEPT ![c] = @ \cup {m}] ELSE missed
           /\ c \in opened => missed' = missed
      BY <1>6, <2>3, MessageNewStep
    <3>2. CASE c \notin opened
      <4>1. shown' = shown /\ missed[c] \subseteq missed'[c] /\ (Skipped(c, m) => m \in missed'[c])
        BY <1>2, <3>1, <3>2
      <4>2. \A s \in Slot : fetch[c][s].st = "read" => {m} \subseteq fetch[c][s].page \cup missed'[c]
        BY <4>1 DEF Skipped
      <4>3. fanning \cup Waiting(c) \subseteq fanning' \cup Waiting(c)' \cup {m}
        BY <2>1, <3>1
      <4>4. QED
        BY <1>0, <2>1, <3>2, <4>1, <4>2, <4>3 DEF Goal
    <3>3. CASE c \in opened
      <4>1. Messages(shown[c]) \cup {m} \subseteq Messages(shown'[c])
        <5>1. Decrypted(c, m) \in Shown /\ Decrypted(c, m).msg = m
          BY <1>2 DEF Decrypted, Shown
        <5>2. Messages(Append(shown[c], Decrypted(c, m))) = Messages(shown[c]) \cup {m}
          BY <1>2, <5>1, MessagesOfAppend
        <5>3. QED
          BY <1>2, <3>1, <3>3, <5>2
      <4>2. fanning \cup Waiting(c) \subseteq fanning' \cup Waiting(c)' \cup {m}
        BY <2>1, <3>1
      <4>3. missed' = missed
        BY <3>1, <3>3
      <4>4. QED
        BY <1>0, <2>1, <4>1, <4>2, <4>3 DEF Goal
    <3>4. QED
      BY <3>2, <3>3
  <2>4. QED
    BY <2>2, <2>3
<1>7. ASSUME NEW d \in Client, NEW s \in Slot, SelectChannel(d, s) \/ LoadFails(d, s) PROVE Goal(c)
  <2>1. UNCHANGED <<log, fanning, queue, opened, shown, missed>>
    BY <1>7 DEF SelectChannel, LoadFails, server, client
  <2>2. \A t \in Slot : fetch'[c][t] = fetch[c][t] \/ fetch'[c][t].st # "read"
    BY <1>2, <1>7 DEF SelectChannel, LoadFails, NoFetch
  <2>3. QED
    BY <1>0, <2>1, <2>2 DEF Waiting, Goal
<1>8. ASSUME NEW d \in Client, NEW s \in Slot, FetchMessages(d, s) PROVE Goal(c)
  <2>1. /\ UNCHANGED <<log, fanning, queue, opened, shown>>
        /\ missed' = [missed EXCEPT ![d] = @ \cup {m \in log : BeyondPage(m, LastPage)}]
        /\ fetch' = [fetch EXCEPT ![d][s] = [st |-> "read", page |-> LastPage]]
    BY <1>8 DEF FetchMessages, server, client
  <2>2. missed[c] \subseteq missed'[c]
    BY <1>2, <2>1
  <2>3. log \subseteq LastPage \cup {m \in log : BeyondPage(m, LastPage)}
    BY PageOrBeyond DEF Inv
  <2>4. ASSUME NEW t \in Slot, fetch'[c][t].st = "read" PROVE Accounts(c, fetch[c][t].page)'
    <3>1. CASE d = c /\ t = s
      <4>1. /\ fetch'[c][t].page = LastPage
            /\ missed'[c] = missed[c] \cup {m \in log : BeyondPage(m, LastPage)}
        BY <1>2, <2>1, <3>1
      <4>2. QED
        BY <2>1, <2>3, <4>1
    <3>2. CASE ~ (d = c /\ t = s)
      <4>1. fetch'[c][t] = fetch[c][t]
        BY <1>2, <2>1, <3>2
      <4>2. QED
        BY <1>0, <2>1, <2>2, <2>4, <4>1 DEF Waiting
    <3>3. QED
      BY <3>1, <3>2
  <2>5. c \in opened' => Accounts(c, {})'
    BY <1>0, <2>1, <2>2 DEF Waiting
  <2>6. QED
    BY <2>4, <2>5 DEF Goal
<1>9. ASSUME NEW d \in Client, NEW s \in Slot, LoadHistory(d, s) PROVE Goal(c)
  <2>1. /\ UNCHANGED <<log, fanning, queue>> /\ opened' = opened \cup {d}
        /\ fetch[d][s].st = "read" /\ fetch' = [fetch EXCEPT ![d][s] = NoFetch]
        /\ missed' = [missed EXCEPT ![d] = @ \cup (Messages(shown[d]) \ fetch[d][s].page)]
    BY <1>9 DEF LoadHistory, server
  <2>2. \A t \in Slot : fetch'[c][t] = fetch[c][t] \/ fetch'[c][t].st # "read"
    BY <1>2, <2>1 DEF NoFetch
  <2>3. CASE d # c
    <3>1. shown'[c] = shown[c] /\ missed'[c] = missed[c]
      BY <1>2, <1>9, <2>1, <2>3, LoadHistoryStep
    <3>2. QED
      BY <1>0, <2>1, <2>2, <2>3, <3>1 DEF Waiting, Goal
  <2>4. CASE d = c
    <3>1. /\ Messages(shown'[c]) = fetch[c][s].page
          /\ missed'[c] = missed[c] \cup (Messages(shown[c]) \ fetch[c][s].page)
      BY <1>2, <1>9, <2>1, <2>4, LoadHistoryStep
    <3>2. Messages(shown[c]) \subseteq Messages(shown'[c]) \cup missed'[c]
      BY <3>1
    <3>3. Accounts(c, {})'
      BY <1>0, <2>1, <2>4, <3>1, <3>2 DEF Waiting
    <3>4. QED
      BY <3>3 DEF Goal
  <2>5. QED
    BY <2>3, <2>4
<1>10. ASSUME NEW d \in Client, SocketClose(d) PROVE Goal(c)
  <2> DEFINE lost == [e \in Client |-> IF e = d THEN Waiting(d) ELSE {}]
  <2>1. /\ UNCHANGED <<log, fanning, fetch, opened, shown>> /\ Miss(lost)
        /\ queue' = [queue EXCEPT ![d] = <<>>]
    BY <1>10 DEF SocketClose, server, client
  <2>2. lost \in [Client -> SUBSET Message]
    BY <1>2 DEF Inv, FromLog, QueuesFromLog
  <2>3. Waiting(c) \subseteq Waiting(c)' \cup lost[c]
    BY <1>2, <2>1 DEF Waiting
  <2> HIDE DEF lost
  <2>4. /\ missed[c] \subseteq missed'[c]
        /\ c \in opened => lost[c] \subseteq missed'[c]
        /\ \A s \in Slot : fetch[c][s].st = "read" => lost[c] \subseteq fetch[c][s].page \cup missed'[c]
    BY <2>1, <2>2, MissAccounts
  <2>5. QED
    BY <1>1, <2>1, <2>3, <2>4
<1>11. CASE Restart
  <2> DEFINE lost == [e \in Client |-> fanning \cup Waiting(e)]
  <2>1. /\ UNCHANGED <<log, opened, shown>> /\ Miss(lost)
        /\ \A t \in Slot : fetch'[c][t] = fetch[c][t] \/ fetch'[c][t].st # "read"
    BY <1>2, <1>11 DEF Restart, client, NoFetch
  <2>2. lost \in [Client -> SUBSET Message] /\ lost[c] = fanning \cup Waiting(c)
    BY <1>2 DEF Inv, FromLog, QueuesFromLog
  <2> HIDE DEF lost
  <2>3. /\ missed[c] \subseteq missed'[c]
        /\ c \in opened => lost[c] \subseteq missed'[c]
        /\ \A s \in Slot : fetch[c][s].st = "read" => lost[c] \subseteq fetch[c][s].page \cup missed'[c]
    BY <2>1, <2>2, MissAccounts
  <2>4. QED
    BY <1>0, <2>1, <2>2, <2>3 DEF Goal
<1>12. QED
  BY <1>3, <1>4, <1>5, <1>6, <1>7, <1>8, <1>9, <1>10, <1>11
     DEF Next, vars, server, client, Post, KeyArrives, SocketOpen

-----------------------------------------------------------------------------
LEMMA Invariance == Spec => []Inv
<1>1. Init => Inv
  BY InitInv
<1>2. Inv /\ [Next]_vars => Inv'
  BY TypeStep, IdsUniqueStep, FromLogStep, ShownOnceStep, AccountStep DEF Inv
<1>3. QED
  BY <1>1, <1>2, PTL DEF Spec

(* The state is well typed: what is sent is in the table, and pages, lists *)
(* and queues hold messages (post_message, fetch_messages, loadHistory).   *)
THEOREM MessagesTypeCorrect == Spec => []TypeOK
<1>1. Inv => TypeOK
  BY DEF Inv
<1>2. QED
  BY <1>1, Invariance, PTL

(* No message is listed twice, however the history and message_new events  *)
(* overlap (handleEvent, loadHistory).                                     *)
THEOREM NoMessageTwice == Spec => []ShownOnce
<1>1. Inv => ShownOnce
  BY DEF Inv
<1>2. QED
  BY <1>1, Invariance, PTL

(* An opened list holds every row of the channel that is not on its way to *)
(* it or excused (selectChannel, loadHistory, handleEvent, fanout).        *)
THEOREM ListsAreComplete == Spec => []NothingElseMissed
<1>1. Inv => NothingElseMissed
  BY DEF Inv, ListsAccount, Elsewhere, NothingElseMissed
<1>2. QED
  BY <1>1, Invariance, PTL

-----------------------------------------------------------------------------
(* The cursor *)

(* A set of messages that is not empty has an oldest one. *)
LEMMA OldestExists ==
  ASSUME TypeOK, IdsUnique, NEW S \in SUBSET log, S # {}
  PROVE  Oldest(S) \in S /\ \A n \in S : Oldest(S).id <= n.id
<1> DEFINE Older(n) == {k \in log : k.id < n.id}
           T == {Older(n) : n \in S}
<1>1. \A n \in log : n \in Message /\ n.id \in 1 .. MaxId /\ n.id \in Nat
  BY BoundsAreNat DEF TypeOK, Message
<1>2. IsFiniteSet(log)
  BY LogIsFinite
<1>3. \A n \in log : IsFiniteSet(Older(n))
  <2> TAKE n \in log
  <2>1. Older(n) \in SUBSET log
    OBVIOUS
  <2>2. QED
    BY <1>2, <2>1, FS_Subset
<1>4. T \subseteq FiniteSubsetsOf(log) /\ T # {}
  BY <1>3 DEF FiniteSubsetsOf
<1>5. \E x \in T : \A y \in T : ~ (<<y, x>> \in StrictSubsetOrdering(log))
  <2> HIDE DEF T
  <2> QED
    BY <1>2, <1>4, FS_StrictSubsetOrderingWellFounded, WFMin
<1>6. PICK m \in S : \A n \in S : <<Older(n), Older(m)>> \notin StrictSubsetOrdering(log)
  BY <1>5
<1>7. ASSUME NEW n \in S, ~ (m.id <= n.id)
      PROVE  FALSE
  <2>1. n.id < m.id
    BY <1>1, <1>7
  <2>2. Older(n) \subseteq Older(m) /\ n \in Older(m) /\ n \notin Older(n)
    BY <1>1, <2>1
  <2>3. <<Older(n), Older(m)>> \in StrictSubsetOrdering(log)
    BY <2>2 DEF StrictSubsetOrdering
  <2>4. QED
    BY <1>6, <2>3
<1>8. \E x \in S : \A n \in S : x.id <= n.id
  BY <1>7
<1>9. QED
  BY <1>8 DEF Oldest

(* No page of all ids leaves anything out. *)
LEMMA PageOfAll ==
  ASSUME TypeOK, IdsUnique, NEW before \in Nat
  PROVE  Page(before, MaxId) = {m \in log : m.id < before}
<1> DEFINE older == {m \in log : m.id < before}
           Newer(m) == {n \in older : n.id > m.id}
           f(m) == [n \in Newer(m) |-> n.id]
<1>1. ASSUME NEW m \in older
      PROVE  Cardinality(Newer(m)) < MaxId
  <2>1. \A n \in log : n \in Message /\ n.id \in 1 .. MaxId
    BY DEF TypeOK, Message
  <2>2. f(m) \in Injection(Newer(m), (1 .. MaxId) \ {m.id})
    BY <2>1, BoundsAreNat DEF IdsUnique, Injection, IsInjective
  <2>3. /\ IsFiniteSet(1 .. MaxId) /\ Cardinality(1 .. MaxId) = MaxId
        /\ m.id \in 1 .. MaxId
    BY <2>1, FS_Interval, BoundsAreNat
  <2>4. /\ IsFiniteSet((1 .. MaxId) \ {m.id})
        /\ Cardinality((1 .. MaxId) \ {m.id}) = MaxId - 1
    BY <2>3, FS_RemoveElement
  <2>5. /\ IsFiniteSet(Newer(m))
        /\ Cardinality(Newer(m)) <= Cardinality((1 .. MaxId) \ {m.id})
    <3> HIDE DEF f, Newer
    <3> QED
      BY <2>2, <2>4, FS_Injection
  <2>6. Cardinality(Newer(m)) \in Nat
    BY <2>5, FS_CardinalityType
  <2>7. QED
    BY <2>4, <2>5, <2>6, BoundsAreNat
<1>2. QED
  BY <1>1 DEF Page

(* However many rows there are and whatever page is asked for, reading on  *)
(* before its oldest message neither skips nor repeats one (the cursor of  *)
(* fetch_messages).                                                        *)
THEOREM CursorTiles == Spec => []PagesTile
<1>1. Inv => PagesTile
  <2> SUFFICES ASSUME Inv, NEW before \in 1 .. MaxId + 1, NEW limit \in 1 .. MaxId,
                      Page(before, limit) # {}
               PROVE  LET next == Page(Oldest(Page(before, limit)).id, MaxId)
                      IN /\ Page(before, limit) \cap next = {}
                         /\ Page(before, limit) \cup next = Page(before, MaxId)
    BY DEF PagesTile
  <2> DEFINE page == Page(before, limit)
             o == Oldest(page)
             older == {m \in log : m.id < before}
             Newer(m) == {n \in older : n.id > m.id}
  <2>1. /\ TypeOK /\ IdsUnique /\ before \in Nat /\ limit \in Nat
        /\ \A m \in log : m.id \in Nat
    <3>1. before \in Nat /\ limit \in Nat /\ TypeOK /\ IdsUnique
      BY BoundsAreNat DEF Inv
    <3>2. \A m \in Message : m.id \in Nat
      BY BoundsAreNat DEF Message
    <3>3. QED
      BY <3>1, <3>2 DEF TypeOK
  <2>2. page = {m \in older : Cardinality(Newer(m)) < limit} /\ page \in SUBSET log
    BY DEF Page
  <2>3. o \in page /\ \A n \in page : o.id <= n.id
    BY <2>1, <2>2, OldestExists
  <2>4. o \in older /\ o.id \in Nat /\ o.id < before
    BY <2>1, <2>2, <2>3
  <2>5. /\ Page(o.id, MaxId) = {m \in log : m.id < o.id}
        /\ Page(before, MaxId) = older
    BY <2>1, <2>4, PageOfAll
  <2>6. page \cap {m \in log : m.id < o.id} = {}
    <3> SUFFICES ASSUME NEW m \in page, m.id < o.id PROVE FALSE
      OBVIOUS
    <3>1. m.id \in Nat /\ o.id <= m.id
      BY <2>1, <2>2, <2>3
    <3> HIDE DEF page, o
    <3>2. QED
      BY <2>4, <3>1
  <2>7. ASSUME NEW m \in older, m \notin page
        PROVE  m.id < o.id
    <3>1. ~ (Cardinality(Newer(m)) < limit) /\ Cardinality(Newer(o)) < limit
      BY <2>2, <2>3, <2>7
    <3>2. ASSUME o.id <= m.id
          PROVE  FALSE
      <4>1. Newer(m) \in SUBSET Newer(o) /\ Newer(o) \in SUBSET log
        BY <2>1, <2>4, <3>2
      <4>2. IsFiniteSet(Newer(o)) /\ Cardinality(Newer(o)) \in Nat
        BY <2>1, <4>1, LogIsFinite, FS_Subset, FS_CardinalityType
      <4>3. Cardinality(Newer(m)) <= Cardinality(Newer(o)) /\ Cardinality(Newer(m)) \in Nat
        BY <4>1, <4>2, FS_Subset, FS_CardinalityType
      <4>4. QED
        BY <2>1, <3>1, <4>2, <4>3
    <3>3. QED
      BY <2>1, <2>4, <3>2
  <2>8. page \cup {m \in log : m.id < o.id} = older
    <3>1. page \subseteq older /\ o.id < before
      BY <2>2, <2>4
    <3> HIDE DEF page, o
    <3>2. \A m \in log : m.id < o.id => m.id < before
      BY <2>1, <2>4, <3>1
    <3>3. QED
      BY <2>7, <3>1, <3>2
  <2>9. QED
    BY <2>5, <2>6, <2>8
<1>2. QED
  BY <1>1, Invariance, PTL

-----------------------------------------------------------------------------
(* The order of the list.  It follows from the order in which what is yet  *)
(* to come goes out: as long as nothing has overtaken, each message on its *)
(* way is on the list already or newer than all of it, unless it is Late,  *)
(* and a Late one overtakes when it is sent.                               *)

Late(m) == \E n \in log \ fanning : n.id > m.id

Follows(m, S) == m \in S \/ \A n \in S : n.id < m.id

(* What is on its way to c can be put behind the messages of S. *)
Followed(c, S) ==
  /\ \A m \in Waiting(c) : Follows(m, S)
  /\ \A m \in fanning : Late(m) \/ Follows(m, S)

(* A message is drawn, then inserted, then sent, each once. *)
SentOnce ==
  /\ posting \cap log = {}
  /\ \A c \in Client : Waiting(c) \cap fanning = {}

QueuesAscend ==
  \A c \in Client : \A i, j \in DOMAIN queue[c] : i < j => queue[c][i].id < queue[c][j].id

ListsAscend ==
  \A c \in Client : \A i, j \in DOMAIN shown[c] : i < j => shown[c][i].msg.id < shown[c][j].msg.id

ListsFollowed == \A c \in Client : Followed(c, Messages(shown[c]))
PagesFollowed ==
  \A c \in Client, s \in Slot : fetch[c][s].st = "read" => Followed(c, fetch[c][s].page)

OrderInv ==
  /\ Inv /\ SentOnce
  /\ overtaken \/ (QueuesAscend /\ ListsAscend /\ ListsFollowed /\ PagesFollowed)

(* What is used of the types throughout. *)
LEMMA OrderGives ==
  ASSUME OrderInv
  PROVE  /\ Inv /\ TypeOK /\ log \subseteq Message /\ fanning \subseteq log
         /\ queue \in [Client -> Seq(Message)] /\ shown \in [Client -> Seq(Shown)]
         /\ fetch \in [Client -> [Slot -> Fetch]] /\ overtaken \in BOOLEAN
         /\ \A m \in Message : m.id \in Nat
         /\ \A c \in Client : Waiting(c) \subseteq log /\ Messages(shown[c]) \subseteq log
         /\ \A c \in Client, s \in Slot : fetch[c][s].page \subseteq log
<1>1. \A m \in Message : m.id \in Nat
  BY BoundsAreNat DEF Message
<1>2. QED
  BY <1>1 DEF OrderInv, Inv, TypeOK, FromLog, QueuesFromLog, PagesFromLog, ListsFromLog

(* How the queue of c and the messages to be sent change: Fanout moves one *)
(* from these to that, Insert adds one to be sent, and all else only takes *)
(* away.                                                                   *)
LEMMA WaitingStep ==
  ASSUME OrderInv, [Next]_vars, NEW c \in Client
  PROVE  \/ Waiting(c)' \subseteq Waiting(c) /\ fanning' \subseteq fanning
         \/ \E m \in posting : /\ Insert(m) /\ Waiting(c)' = Waiting(c)
                               /\ fanning' = fanning \cup {m}
         \/ \E m \in fanning : /\ Fanout(m) /\ fanning' = fanning \ {m}
                               /\ Waiting(c)' \subseteq Waiting(c) \cup {m}
<1> DEFINE Less == Waiting(c)' \subseteq Waiting(c) /\ fanning' \subseteq fanning
<1>1. Inv /\ queue \in [Client -> Seq(Message)]
  BY OrderGives
<1>2. CASE UNCHANGED <<queue, fanning>>
  BY <1>2 DEF Waiting
<1>3. ASSUME NEW m \in Message, Insert(m)
      PROVE  m \in posting /\ Waiting(c)' = Waiting(c) /\ fanning' = fanning \cup {m}
  BY <1>3 DEF Insert, Waiting
<1>4. ASSUME NEW m \in Message, Fanout(m)
      PROVE  m \in fanning /\ fanning' = fanning \ {m} /\ Waiting(c)' \subseteq Waiting(c) \cup {m}
  <2>1. queue'[c] = queue[c] \/ queue'[c] = Append(queue[c], m)
    BY <1>4 DEF Fanout
  <2>2. Elements(queue'[c]) \subseteq Elements(queue[c]) \cup {m}
    <3>1. PICK q \in Seq(Message) : q = queue[c]
      BY <1>1
    <3>2. Elements(Append(q, m)) = Elements(q) \cup {m}
      BY <1>4, ElementsOfAppend
    <3>3. QED
      BY <2>1, <3>1, <3>2
  <2>3. QED
    BY <1>4, <2>2, WaitingIsElements DEF Fanout
<1>5. ASSUME NEW d \in Client, MessageNew(d)
      PROVE  Less
  <2>1. fanning' = fanning
    BY <1>5 DEF MessageNew, server
  <2>2. CASE d = c
    BY <1>1, <1>5, <2>1, <2>2, MessageNewStep
  <2>3. CASE d # c
    <3>1. queue'[c] = queue[c]
      BY <1>1, <1>5, <2>3 DEF MessageNew
    <3>2. QED
      BY <2>1, <3>1, WaitingIsElements
  <2>4. QED
    BY <2>2, <2>3
<1>6. ASSUME NEW d \in Client, SocketClose(d)
      PROVE  Less
  <2>1. fanning' = fanning /\ (queue'[c] = queue[c] \/ queue'[c] = <<>>)
    BY <1>1, <1>6 DEF SocketClose, server
  <2>2. QED
    BY <2>1, WaitingIsElements, ElementsOfEmpty
<1>7. CASE Restart
  <2>1. fanning' = {} /\ queue'[c] = <<>>
    BY <1>7 DEF Restart
  <2>2. QED
    BY <2>1, WaitingIsElements, ElementsOfEmpty
<1>8. QED
  BY <1>2, <1>3, <1>4, <1>5, <1>6, <1>7
     DEF Next, vars, server, client, Post, SelectChannel, FetchMessages, LoadHistory, LoadFails,
         KeyArrives, SocketOpen

(* What has been sent stays so, and overtaken is never taken back. *)
LEMMA SentStays ==
  ASSUME OrderInv, [Next]_vars
  PROVE  log \ fanning \subseteq log' \ fanning' /\ (overtaken => overtaken')
<1>1. SentOnce /\ log \subseteq log' /\ overtaken \in BOOLEAN
  BY OrderGives, IdsUniqueStep DEF OrderInv
<1>2. ASSUME NEW m \in Message, Insert(m)
      PROVE  log \ fanning \subseteq log' \ fanning' /\ (overtaken => overtaken')
  BY <1>1, <1>2 DEF Insert, SentOnce
<1>3. ASSUME NEW m \in Message, Fanout(m)
      PROVE  log \ fanning \subseteq log' \ fanning' /\ (overtaken => overtaken')
  BY <1>1, <1>3 DEF Fanout
<1>4. ASSUME NEW c \in Client, NEW s \in Slot, FetchMessages(c, s)
      PROVE  log \ fanning \subseteq log' \ fanning' /\ (overtaken => overtaken')
  BY <1>1, <1>4 DEF FetchMessages, server
<1>5. CASE UNCHANGED overtaken /\ fanning' \subseteq fanning
  BY <1>1, <1>5
<1>6. QED
  BY <1>2, <1>3, <1>4, <1>5
     DEF Next, vars, server, client, Post, MessageNew, SelectChannel, LoadHistory, LoadFails,
         KeyArrives, SocketClose, SocketOpen, Restart

LEMMA SentOnceStep ==
  ASSUME OrderInv, [Next]_vars
  PROVE  SentOnce'
<1>1. SentOnce
  BY DEF OrderInv
<1>2. posting' \cap log' = {}
  <2>1. ASSUME NEW e \in Epoch, Post(e)
        PROVE  posting' \cap log' = {}
    BY <1>1, <2>1 DEF Post, SentOnce
  <2>2. ASSUME NEW m \in Message, Insert(m)
        PROVE  posting' \cap log' = {}
    BY <1>1, <2>2 DEF Insert, SentOnce
  <2>3. CASE posting' \subseteq posting /\ log' = log
    BY <1>1, <2>3 DEF SentOnce
  <2>4. QED
    BY <2>1, <2>2, <2>3
       DEF Next, vars, server, client, Fanout, MessageNew, SelectChannel, FetchMessages,
           LoadHistory, LoadFails, KeyArrives, SocketClose, SocketOpen, Restart
<1>3. ASSUME NEW c \in Client
      PROVE  Waiting(c)' \cap fanning' = {}
  <2>1. Waiting(c) \cap fanning = {} /\ Waiting(c) \subseteq log
    BY <1>1, OrderGives DEF SentOnce
  <2>2. ASSUME NEW m \in posting, Waiting(c)' = Waiting(c), fanning' = fanning \cup {m}
        PROVE  Waiting(c)' \cap fanning' = {}
    BY <1>1, <2>1, <2>2 DEF SentOnce
  <2>3. QED
    BY <2>1, <2>2, WaitingStep
<1>4. QED
  BY <1>2, <1>3 DEF SentOnce

(* Rows that differ have different ids. *)
LEMMA RowsDiffer ==
  ASSUME OrderInv, NEW m \in log \cup posting, NEW n \in log, m # n, ~ (n.id > m.id)
  PROVE  n.id < m.id
<1>1. m \in Message /\ n \in Message /\ m.id # n.id
  BY OrderGives DEF TypeOK, Inv, IdsUnique
<1>2. QED
  BY <1>1, OrderGives

(* What is put behind rows can be put behind them after each step. *)
LEMMA FollowedStep ==
  ASSUME OrderInv, [Next]_vars, ~ overtaken', NEW c \in Client, NEW S \in SUBSET log, Followed(c, S)
  PROVE  Followed(c, S)'
<1>1. \A m : Late(m) => Late(m)'
  BY SentStays DEF Late
<1>2. CASE Waiting(c)' \subseteq Waiting(c) /\ fanning' \subseteq fanning
  BY <1>1, <1>2 DEF Followed, Follows
<1>3. ASSUME NEW m \in posting, Insert(m), Waiting(c)' = Waiting(c), fanning' = fanning \cup {m}
      PROVE  Followed(c, S)'
  <2>1. \A n \in log : n # m /\ ~ (n.id > m.id)
    BY <1>3 DEF Insert, OrderInv, SentOnce
  <2>2. \A n \in S : n.id < m.id
    BY <2>1, RowsDiffer
  <2>3. QED
    BY <1>1, <1>3, <2>2 DEF Followed, Follows
<1>4. ASSUME NEW m \in fanning, Fanout(m), fanning' = fanning \ {m},
             Waiting(c)' \subseteq Waiting(c) \cup {m}
      PROVE  Followed(c, S)'
  <2>1. ~ Late(m)
    BY <1>4 DEF Fanout, Late
  <2>2. QED
    BY <1>1, <1>4, <2>1 DEF Followed, Follows
<1>5. QED
  BY <1>2, <1>3, <1>4, WaitingStep

LEMMA QueuesAscendStep ==
  ASSUME OrderInv, [Next]_vars, ~ overtaken'
  PROVE  QueuesAscend'
<1> SUFFICES ASSUME NEW c \in Client
             PROVE  \A i, j \in DOMAIN queue'[c] : i < j => queue'[c][i].id < queue'[c][j].id
  BY DEF QueuesAscend
<1> DEFINE q == queue[c]
<1>1. /\ q \in Seq(Message) /\ queue \in [Client -> Seq(Message)] /\ ~ overtaken
      /\ \A i, j \in DOMAIN q : i < j => q[i].id < q[j].id
  BY OrderGives, SentStays DEF OrderInv, QueuesAscend
<1>2. CASE queue'[c] = queue[c]
  BY <1>1, <1>2
<1>3. CASE queue'[c] = <<>>
  BY <1>3
<1>4. ASSUME NEW m \in fanning, Fanout(m), queue'[c] = Append(q, m)
      PROVE  \A i, j \in DOMAIN queue'[c] : i < j => queue'[c][i].id < queue'[c][j].id
  <2>1. \A n \in log \ fanning : ~ (n.id > m.id)
    BY <1>4 DEF Fanout
  <2>2. \A n \in Waiting(c) : n.id < m.id
    <3>1. Waiting(c) \subseteq log \ fanning /\ fanning \subseteq log
      BY OrderGives DEF OrderInv, SentOnce
    <3>2. QED
      BY <2>1, <3>1, RowsDiffer
  <2>3. \A i \in DOMAIN q : q[i].id < m.id
    BY <2>2 DEF Waiting
  <2>4. /\ DOMAIN queue'[c] = DOMAIN q \cup {Len(q) + 1}
        /\ \A i \in DOMAIN q : queue'[c][i] = q[i] /\ i \in Nat /\ i < Len(q) + 1
        /\ queue'[c][Len(q) + 1] = m
        /\ Len(q) \in Nat
    BY <1>1, <1>4
  <2> HIDE DEF q
  <2>5. QED
    BY <1>1, <2>3, <2>4
<1>5. ASSUME q # <<>>, queue'[c] = Tail(q)
      PROVE  \A i, j \in DOMAIN queue'[c] : i < j => queue'[c][i].id < queue'[c][j].id
  <2>1. /\ DOMAIN q = 1 .. Len(q) /\ DOMAIN queue'[c] = 1 .. Len(q) - 1 /\ Len(q) \in Nat
        /\ \A i \in 1 .. Len(q) - 1 : queue'[c][i] = q[i + 1]
    BY <1>1, <1>5
  <2>2. \A i \in 1 .. Len(q) - 1 : i + 1 \in DOMAIN q
    BY <2>1
  <2> HIDE DEF q
  <2>3. ASSUME NEW i \in DOMAIN queue'[c], NEW j \in DOMAIN queue'[c], i < j
        PROVE  queue'[c][i].id < queue'[c][j].id
    <3>1. /\ i + 1 \in DOMAIN q /\ j + 1 \in DOMAIN q /\ i + 1 < j + 1
          /\ queue'[c][i] = q[i + 1] /\ queue'[c][j] = q[j + 1]
      BY <2>1, <2>2, <2>3
    <3>2. QED
      BY <1>1, <3>1
  <2>4. QED
    BY <2>3
<1>6. ASSUME NEW m \in Message, Fanout(m)
      PROVE  m \in fanning /\ (queue'[c] = q \/ queue'[c] = Append(q, m))
  BY <1>6 DEF Fanout
<1>7. ASSUME NEW d \in Client, MessageNew(d)
      PROVE  queue'[c] = q \/ (q # <<>> /\ queue'[c] = Tail(q))
  BY <1>1, <1>7 DEF MessageNew
<1>8. ASSUME NEW d \in Client, SocketClose(d)
      PROVE  queue'[c] = q \/ queue'[c] = <<>>
  BY <1>1, <1>8 DEF SocketClose
<1>9. Restart => queue'[c] = <<>>
  BY DEF Restart
<1>10. QED
  BY <1>2, <1>3, <1>4, <1>5, <1>6, <1>7, <1>8, <1>9
     DEF Next, vars, server, client, Post, Insert, SelectChannel, FetchMessages, LoadHistory,
         LoadFails, KeyArrives, SocketOpen

(* message_new puts a message behind the list, and what follows it in the  *)
(* queue can be put behind it.                                             *)
LEMMA AppendStep ==
  ASSUME OrderInv, ~ overtaken, ~ overtaken', NEW c \in Client, MessageNew(c), [Next]_vars,
         NEW m, m = Head(queue[c]), m.id \notin Ids(shown[c]),
         shown' = [shown EXCEPT ![c] = Append(@, Decrypted(c, m))]
  PROVE  /\ \A i, j \in DOMAIN shown'[c] : i < j => shown'[c][i].msg.id < shown'[c][j].msg.id
         /\ Followed(c, Messages(shown[c]))'
<1> DEFINE q == queue[c]
           list == shown[c]
           x == Decrypted(c, m)
<1>1. /\ q \in Seq(Message) /\ q # <<>> /\ list \in Seq(Shown) /\ Messages(list) \subseteq log
      /\ fanning \subseteq log /\ shown'[c] = Append(list, x)
      /\ queue'[c] = Tail(q) /\ fanning' = fanning
      /\ QueuesAscend /\ ListsAscend /\ Followed(c, Messages(list))
      /\ Waiting(c) \cap fanning = {} /\ Waiting(c) \subseteq log
  BY OrderGives DEF OrderInv, MessageNew, server, ListsFollowed, SentOnce
<1>2. /\ m \in Message /\ m \in Waiting(c) /\ x \in Shown /\ x.msg = m
      /\ DOMAIN q = 1 .. Len(q) /\ Len(q) \in Nat \ {0} /\ m = q[1]
      /\ DOMAIN Tail(q) = 1 .. Len(q) - 1
      /\ \A i \in 1 .. Len(q) - 1 : Tail(q)[i] = q[i + 1]
  <2>1. /\ DOMAIN q = 1 .. Len(q) /\ Len(q) \in Nat \ {0} /\ m = q[1] /\ m \in Message
        /\ DOMAIN Tail(q) = 1 .. Len(q) - 1
        /\ \A i \in 1 .. Len(q) - 1 : Tail(q)[i] = q[i + 1]
    BY <1>1
  <2>2. m \in Waiting(c)
    BY <2>1 DEF Waiting
  <2>3. QED
    BY <2>1, <2>2 DEF Decrypted, Shown
<1>3. Messages(shown'[c]) = Messages(list) \cup {m}
  BY <1>1, <1>2, MessagesOfAppend
<1>4. \A n \in Messages(list) : n.id < m.id
  <2>1. m \notin Messages(list)
    BY DEF Messages, Ids
  <2>2. QED
    BY <1>1, <1>2, <2>1 DEF Followed, Follows
<1>5. \A i, j \in DOMAIN shown'[c] : i < j => shown'[c][i].msg.id < shown'[c][j].msg.id
  <2>1. /\ DOMAIN shown'[c] = DOMAIN list \cup {Len(list) + 1}
        /\ \A i \in DOMAIN list : shown'[c][i] = list[i] /\ i \in Nat /\ i < Len(list) + 1
        /\ shown'[c][Len(list) + 1] = x
        /\ Len(list) \in Nat
    BY <1>1, <1>2
  <2>2. \A i, j \in DOMAIN list : i < j => list[i].msg.id < list[j].msg.id
    BY <1>1 DEF ListsAscend
  <2>3. \A i \in DOMAIN list : list[i].msg.id < m.id
    BY <1>4 DEF Messages
  <2> HIDE DEF list, x
  <2>4. QED
    BY <1>2, <2>1, <2>2, <2>3
<1>6. PICK S : S = Messages(list)
  OBVIOUS
<1>7. \A n \in Waiting(c)' : n \in Waiting(c) /\ m.id < n.id
  <2>1. ASSUME NEW i \in 1 .. Len(q) - 1
        PROVE  Tail(q)[i] \in Waiting(c) /\ m.id < Tail(q)[i].id
    <3>1. i + 1 \in DOMAIN q /\ 1 \in DOMAIN q /\ 1 < i + 1 /\ Tail(q)[i] = q[i + 1]
      BY <1>2
    <3>2. QED
      BY <1>1, <1>2, <3>1 DEF QueuesAscend, Waiting
  <2>2. QED
    BY <1>1, <1>2, <2>1 DEF Waiting
<1>8. Followed(c, S \cup {m})'
  <2>1. ASSUME NEW n \in Waiting(c)'
        PROVE  Follows(n, S \cup {m})
    BY <1>1, <1>6, <1>7, <2>1 DEF Followed, Follows
  <2>2. ASSUME NEW n \in fanning, ~ Late(n)
        PROVE  Follows(n, S \cup {m})
    <3>1. m \in log \ fanning /\ n \in log /\ m # n
      BY <1>1, <1>2
    <3>2. m.id < n.id
      BY <2>2, <3>1, RowsDiffer DEF Late
    <3>3. QED
      BY <1>1, <1>6, <2>2, <3>2 DEF Followed, Follows
  <2>3. \A n : Late(n) => Late(n)'
    BY SentStays DEF Late
  <2>4. QED
    BY <1>1, <2>1, <2>2, <2>3 DEF Followed, Follows
<1>9. QED
  BY <1>3, <1>5, <1>6, <1>8 DEF Followed, Follows

LEMMA ListsOrderStep ==
  ASSUME OrderInv, [Next]_vars, ~ overtaken'
  PROVE  ListsAscend' /\ ListsFollowed'
<1> SUFFICES ASSUME NEW c \in Client
             PROVE  /\ \A i, j \in DOMAIN shown'[c] : i < j => shown'[c][i].msg.id < shown'[c][j].msg.id
                    /\ Followed(c, Messages(shown[c]))'
  BY DEF ListsAscend, ListsFollowed
<1> DEFINE Goal == /\ \A i, j \in DOMAIN shown'[c] : i < j => shown'[c][i].msg.id < shown'[c][j].msg.id
                   /\ Followed(c, Messages(shown[c]))'
<1>1. /\ ~ overtaken /\ Inv /\ shown \in [Client -> Seq(Shown)] /\ Messages(shown[c]) \subseteq log
      /\ ListsAscend /\ Followed(c, Messages(shown[c])) /\ PagesFollowed
  BY OrderGives, SentStays DEF OrderInv, ListsFollowed
<1>2. ASSUME NEW S \in SUBSET log, Followed(c, S), Messages(shown'[c]) = S
      PROVE  Followed(c, Messages(shown[c]))'
  <2>1. Followed(c, S)'
    BY <1>2, FollowedStep
  <2>2. QED
    BY <1>2, <2>1 DEF Followed, Follows
<1>3. CASE shown'[c] = shown[c]
  BY <1>1, <1>2, <1>3 DEF ListsAscend
<1>4. CASE MessageNew(c)
  BY <1>1, <1>3, <1>4, AppendStep DEF MessageNew
<1>5. ASSUME NEW s \in Slot, LoadHistory(c, s)
      PROVE  Goal
  <2>1. /\ fetch[c][s].page \in SUBSET log /\ fetch[c][s].page \in SUBSET Message
        /\ Followed(c, fetch[c][s].page)
    BY <1>1, <1>5, OrderGives DEF LoadHistory, PagesFollowed
  <2>2. Messages(shown'[c]) = fetch[c][s].page
    BY <1>1, <1>5, LoadHistoryStep
  <2>3. PICK list \in Listings(fetch[c][s].page) :
          shown' = [shown EXCEPT ![c] = [i \in DOMAIN list |-> Decrypted(c, list[i])]]
    BY <1>5 DEF LoadHistory
  <2>4. shown'[c] = [i \in DOMAIN list |-> Decrypted(c, list[i])]
    BY <1>1, <2>3
  <2>5. \A i, j \in DOMAIN list : i < j => list[i].id < list[j].id
    BY <2>3 DEF Listings
  <2>6. \A i, j \in DOMAIN shown'[c] : i < j => shown'[c][i].msg.id < shown'[c][j].msg.id
    BY <2>4, <2>5 DEF Decrypted
  <2>7. QED
    BY <1>2, <2>1, <2>2, <2>6
<1>6. ASSUME NEW d \in Client, d # c, MessageNew(d)
      PROVE  shown'[c] = shown[c]
  BY <1>1, <1>6 DEF MessageNew
<1>7. ASSUME NEW d \in Client, NEW s \in Slot, d # c, LoadHistory(d, s)
      PROVE  shown'[c] = shown[c]
  BY <1>1, <1>7, LoadHistoryStep
<1>8. QED
  BY <1>3, <1>4, <1>5, <1>6, <1>7
     DEF Next, vars, server, client, Post, Insert, Fanout, SelectChannel, FetchMessages, LoadFails,
         KeyArrives, SocketClose, SocketOpen, Restart

LEMMA PagesOrderStep ==
  ASSUME OrderInv, [Next]_vars, ~ overtaken'
  PROVE  PagesFollowed'
<1> SUFFICES ASSUME NEW c \in Client, NEW s \in Slot, fetch'[c][s].st = "read"
             PROVE  Followed(c, fetch[c][s].page)'
  BY DEF PagesFollowed
<1>1. /\ ~ overtaken /\ fetch \in [Client -> [Slot -> Fetch]] /\ PagesFollowed
      /\ fetch[c][s].page \subseteq log
  BY OrderGives, SentStays DEF OrderInv
<1>2. ASSUME NEW S, S = fetch'[c][s].page, Followed(c, S)'
      PROVE  Followed(c, fetch[c][s].page)'
  BY <1>2 DEF Followed, Follows
<1>3. CASE fetch'[c][s] = fetch[c][s]
  <2>1. Followed(c, fetch[c][s].page)
    BY <1>1, <1>3 DEF PagesFollowed
  <2>2. PICK S \in SUBSET log : S = fetch[c][s].page
    BY <1>1
  <2>3. Followed(c, S)'
    BY <2>1, <2>2, FollowedStep
  <2>4. QED
    BY <1>2, <1>3, <2>2, <2>3
<1>4. CASE FetchMessages(c, s)
  <2>1. PICK S : S = LastPage
    OBVIOUS
  <2>2. /\ fetch'[c][s].page = S /\ fanning' = fanning /\ queue' = queue
        /\ (fanning \cup Waiting(c)) \ S = {}
    BY <1>1, <1>4, <2>1 DEF FetchMessages, server
  <2>3. Followed(c, S)'
    BY <2>2 DEF Followed, Follows, Waiting
  <2>4. QED
    BY <1>2, <2>2, <2>3
<1>5. ASSUME NEW d \in Client, NEW t \in Slot,
             SelectChannel(d, t) \/ LoadHistory(d, t) \/ LoadFails(d, t)
      PROVE  fetch'[c][s] = fetch[c][s]
  BY <1>1, <1>5 DEF SelectChannel, LoadHistory, LoadFails, NoFetch
<1>6. ASSUME NEW d \in Client, NEW t \in Slot, FetchMessages(d, t)
      PROVE  fetch'[c][s] = fetch[c][s] \/ FetchMessages(c, s)
  <2>1. CASE d = c /\ t = s
    BY <1>6, <2>1
  <2>2. CASE ~ (d = c /\ t = s)
    BY <1>1, <1>6, <2>2 DEF FetchMessages
  <2>3. QED
    BY <2>1, <2>2
<1>7. Restart => fetch'[c][s] = fetch[c][s]
  BY DEF Restart, NoFetch
<1>8. QED
  BY <1>3, <1>4, <1>5, <1>6, <1>7
     DEF Next, vars, server, client, Post, Insert, Fanout, MessageNew, KeyArrives, SocketClose, SocketOpen

LEMMA OrderHolds == Spec => []OrderInv
<1>1. Init => OrderInv
  <2> SUFFICES ASSUME Init PROVE OrderInv
    OBVIOUS
  <2>1. SentOnce /\ QueuesAscend /\ ListsAscend /\ ListsFollowed /\ PagesFollowed
    BY DEF Init, SentOnce, QueuesAscend, ListsAscend, ListsFollowed, PagesFollowed, Followed,
           Waiting, NoFetch
  <2>2. QED
    BY <2>1, InitInv DEF OrderInv
<1>2. OrderInv /\ [Next]_vars /\ Inv' => OrderInv'
  <2> SUFFICES ASSUME OrderInv, [Next]_vars, Inv'
               PROVE  OrderInv'
    OBVIOUS
  <2>1. SentOnce'
    BY SentOnceStep
  <2>2. CASE overtaken'
    BY <2>1, <2>2 DEF OrderInv
  <2>3. CASE ~ overtaken'
    <3>1. QueuesAscend' /\ ListsAscend' /\ ListsFollowed' /\ PagesFollowed'
      BY <2>3, QueuesAscendStep, ListsOrderStep, PagesOrderStep
    <3>2. QED
      BY <2>1, <3>1 DEF OrderInv
  <2>4. QED
    BY <2>2, <2>3
<1>3. QED
  BY <1>1, <1>2, Invariance, PTL DEF Spec

(* However pages and events overlap, a list is in the order of the history *)
(* unless messages have overtaken each other (handleEvent appends without  *)
(* looking at the order).                                                  *)
THEOREM ListsInOrder == Spec => []ShownInOrder
<1>1. OrderInv => ShownInOrder
  BY DEF OrderInv, ListsAscend, ShownInOrder
<1>2. QED
  BY <1>1, OrderHolds, PTL
=============================================================================
