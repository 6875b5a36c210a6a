--------------------------- MODULE SpaceViewProofs ---------------------------
(***************************************************************************)
(* Proofs about SpaceView, for every set of ids, users and requests and    *)
(* every number of losses: the types, the key of a space, and that the     *)
(* lists, members and images shown follow the tables.                      *)
(*                                                                         *)
(* The properties speak of the moment when nothing is to come, and are not *)
(* inductive: the invariant says what is to come for each difference there *)
(* is.  One lemma per part shows that a step keeps it.                     *)
(*                                                                         *)
(* A change of a row is Told while the row is written, then while its      *)
(* event is on the way, or is missed; ToldKept says that it stays so until *)
(* the client takes the event.  The parts of the invariant are stated in   *)
(* these terms, after the lemmas on what single steps do to the requests,  *)
(* events and slips.                                                       *)
(***************************************************************************)
EXTENDS SpaceView, TLAPS

Readings == {None} \cup Lists(Channel) \cup Lists(User) \cup Lists(Sticker) \cup Lists({"key"})
Stages == {"sent", "told", "written", "answered"}

OthersKept(q) == \A r \in Request \ {q} : ask'[r] = ask[r]

(* A request as it is sent has the fields of one. *)
LEMMA AskedFits ==
  \A kind \in Kind, i \in Item, here \in BOOLEAN :
    /\ Asked(kind, i, here) \in Asking
    /\ Asked(kind, i, TRUE) \in Asking /\ Asked(kind, i, FALSE) \in Asking
  BY DEF Asked, Asking, None

(* No request is taken for its absence. *)
LEMMA NothingIsNoRequest == Nothing \notin Asking
  BY DEF Nothing, Asking, Kind

(* The fields of a request that is under way. *)
LEMMA RequestFields ==
  ASSUME TypeOK, NEW q \in Request, ask[q] # Nothing
  PROVE  /\ ask[q] \in Asking /\ ask[q].kind \in Kind /\ ask[q].item \in Item
         /\ ask[q].here \in BOOLEAN /\ ask[q].at \in Stages /\ ask[q].got \in Readings
  BY DEF TypeOK, Asking, Stages, Readings

(* What each way to change a request leaves of it. *)
LEMMA AskStep ==
  ASSUME TypeOK, NEW q \in Request, NEW x \in {Nothing} \cup Asking,
         ask' = [ask EXCEPT ![q] = x]
  PROVE  /\ ask' \in [Request -> {Nothing} \cup Asking]
         /\ ask'[q] = x /\ OthersKept(q)
  BY DEF TypeOK, OthersKept

(* A handler goes on: only the stage of its request changes. *)
LEMMA AtStep ==
  ASSUME TypeOK, NEW q \in Request, ask[q] # Nothing, NEW at \in Stages, At(q, at)
  PROVE  /\ ask' \in [Request -> {Nothing} \cup Asking]
         /\ ask'[q] # Nothing /\ ask'[q].at = at /\ ask'[q].kind = ask[q].kind
         /\ ask'[q].item = ask[q].item /\ ask'[q].here = ask[q].here
         /\ ask'[q].got = ask[q].got
         /\ OthersKept(q)
<1> DEFINE x == [ask[q] EXCEPT !.at = at]
<1>1. ask[q] \in Asking
  BY RequestFields
<1>2. /\ x \in Asking /\ x.at = at /\ x.kind = ask[q].kind /\ x.item = ask[q].item
      /\ x.here = ask[q].here /\ x.got = ask[q].got
  BY <1>1 DEF Asking, Stages
<1>3. ask' = [ask EXCEPT ![q] = x]
  BY DEF At
<1>. HIDE DEF x
<1>4. ask'[q] = x
  BY <1>2, <1>3, AskStep
<1>. QED
  BY <1>2, <1>3, <1>4, AskStep, NothingIsNoRequest

(* A request is answered, or gone when the other device sent it. *)
LEMMA AnswerStep ==
  ASSUME TypeOK, NEW q \in Request, ask[q] # Nothing, NEW got \in Readings, Answer(q, got)
  PROVE  /\ ask' \in [Request -> {Nothing} \cup Asking]
         /\ \/ ask'[q] = Nothing /\ ~ ask[q].here
            \/ /\ ask'[q] # Nothing /\ ask'[q].at = "answered" /\ ask'[q].kind = ask[q].kind
               /\ ask'[q].item = ask[q].item /\ ask'[q].here /\ ask'[q].got = got
               /\ ask[q].here
         /\ OthersKept(q)
<1> DEFINE x == [ask[q] EXCEPT !.at = "answered", !.got = got]
           y == IF ask[q].here THEN x ELSE Nothing
<1>1. ask[q] \in Asking
  BY RequestFields
<1>2. /\ x \in Asking /\ x.at = "answered" /\ x.kind = ask[q].kind /\ x.item = ask[q].item
      /\ x.here = ask[q].here /\ x.got = got
  BY <1>1 DEF Asking, Readings
<1>3. ask' = [ask EXCEPT ![q] = y]
  BY DEF Answer
<1>. HIDE DEF x
<1>4. y \in {Nothing} \cup Asking
  BY <1>2
<1>. HIDE DEF y
<1>5. ask'[q] = y /\ ask' \in [Request -> {Nothing} \cup Asking] /\ OthersKept(q)
  BY <1>3, <1>4, AskStep
<1>6. ask[q].here \in BOOLEAN
  BY RequestFields
<1>. QED
  BY <1>2, <1>5, <1>6, NothingIsNoRequest DEF y

(* A request is over. *)
LEMMA EndsStep ==
  ASSUME TypeOK, NEW q \in Request, Ends(q)
  PROVE  /\ ask' \in [Request -> {Nothing} \cup Asking]
         /\ ask'[q] = Nothing /\ OthersKept(q)
  BY AskStep DEF Ends

(* A request is sent. *)
LEMMA AskedStep ==
  ASSUME TypeOK, NEW q \in Request, NEW kind \in Kind, NEW i \in Item, NEW here \in BOOLEAN,
         ask' = [ask EXCEPT ![q] = Asked(kind, i, here)]
  PROVE  /\ ask' \in [Request -> {Nothing} \cup Asking]
         /\ ask'[q] # Nothing /\ ask'[q].kind = kind /\ ask'[q].item = i
         /\ ask'[q].here = here /\ ask'[q].at = "sent"
         /\ OthersKept(q)
<1>1. Asked(kind, i, here) \in Asking
  BY AskedFits
<1>2. ask'[q] = Asked(kind, i, here) /\ ask' \in [Request -> {Nothing} \cup Asking] /\ OthersKept(q)
  BY <1>1, AskStep
<1>. QED
  BY <1>1, <1>2, NothingIsNoRequest DEF Asked

(* An answer or an event makes this client ask on. *)
LEMMA BecomesStep ==
  ASSUME TypeOK, NEW q \in Request, NEW kind \in Kind, Becomes(q, kind)
  PROVE  /\ ask' \in [Request -> {Nothing} \cup Asking]
         /\ ask'[q] # Nothing /\ ask'[q].kind = kind /\ ask'[q].item = General
         /\ ask'[q].here = TRUE /\ ask'[q].at = "sent"
         /\ OthersKept(q)
<1>1. General \in Item /\ TRUE \in BOOLEAN
  BY GeneralIsChannel DEF Item
<1>2. Asked(kind, General, TRUE) \in Asking
  BY <1>1, AskedFits
<1>3. ask' = [ask EXCEPT ![q] = Asked(kind, General, TRUE)]
  BY DEF Becomes
<1>4. /\ ask'[q] = Asked(kind, General, TRUE) /\ ask' \in [Request -> {Nothing} \cup Asking]
      /\ OthersKept(q)
  BY <1>2, <1>3, AskStep
<1>5. /\ Asked(kind, General, TRUE).kind = kind /\ Asked(kind, General, TRUE).item = General
      /\ Asked(kind, General, TRUE).at = "sent"
  BY DEF Asked
<1>6. Asked(kind, General, TRUE).here = TRUE
  BY DEF Asked
<1>. QED
  BY <1>2, <1>4, <1>5, <1>6, NothingIsNoRequest

(* What came in between is noted, and nothing of it forgotten. *)
LEMMA SlippedStep ==
  ASSUME TypeOK, NEW i \in Item, NEW S \in SUBSET Slip, Slipped(i, S)
  PROVE  /\ slips' \in [Item -> SUBSET Slip]
         /\ slips'[i] = slips[i] \cup S /\ \A j \in Item : slips[j] \subseteq slips'[j]
  BY DEF TypeOK, Slipped

(* The events on their way, and the rows that are written and not told of. *)
Tells == {events[n] : n \in 1 .. Len(events)}

Writing(q) == ask[q] # Nothing /\ ask[q].at = "written"
Writes == {<<ask[q].kind, ask[q].item>> : q \in {r \in Request : Writing(r)}}

(* Stickers whose removal follows each addition of them that is on its way. *)
Undone ==
  {s \in Sticker :
     \A n \in 1 .. Len(events) : events[n] = <<"sticker_added", s>> =>
       \E m \in n + 1 .. Len(events) : events[m] = <<"sticker_removed", s>>}

(* One of S came in between. *)
Slipping(i, S) == slips[i] \cap S # {}

(* That the row of i changed is told, is to be told, or was missed. *)
Told(kind, i) ==
  <<EventOf(kind), i>> \in Tells \/ <<kind, i>> \in Writes \/ Slipping(i, {"missed"})

(* A request is about what its kind says, at a stage its handler has, and an
   answer lists nothing twice. *)
Fits(x) ==
  /\ x.kind = "channel" => x.item \in Channel
  /\ x.kind \in {"add", "delete"} => x.item \in Sticker
  /\ x.kind \in {"join", "remove"} => x.item \in User
  /\ x.at = "written" => x.kind \in {"channel", "add", "delete", "join"}
  /\ x.kind = "members" => x.here = TRUE
  /\ x.at = "answered" /\ x.kind = "refresh" => x.got \in [Channel -> 0 .. 1]
  /\ x.at = "answered" /\ x.kind = "members" => x.got \in [User -> 0 .. 1]
  /\ x.at = "answered" /\ x.kind = "stickers" => x.got \in [Sticker -> 0 .. 1]

RequestsFit == \A q \in Request : ask[q] # Nothing => Fits(ask[q])

(* Nothing is shown twice. *)
ListsFit ==
  /\ spaces # None => spaces \in [Channel -> 0 .. 1]
  /\ people # None => people \in [User -> 0 .. 1]
  /\ list # None => list \in [Sticker -> 0 .. 1]

(* A sticker's id is drawn for one request. *)
AddsDiffer ==
  /\ \A q, r \in Request :
       ask[q] # Nothing /\ ask[r] # Nothing /\ ask[q].kind = "add" /\ ask[r].kind = "add"
       /\ ask[q].item = ask[r].item => q = r
  /\ \A q \in Request : ask[q] # Nothing /\ ask[q].kind = "add" => ask[q].item \notin fresh

(* Stickers whose row is not yet written. *)
Unborn ==
  {s \in Sticker : s \in fresh \/ \E q \in Request : Takes(q, "add", "sent") /\ ask[q].item = s}

(* Nothing tells of them, shows them or deletes them. *)
UnbornIsUnknown ==
  \A s \in Unborn :
    /\ s \notin stickers
    /\ <<"sticker_added", s>> \notin Tells /\ <<"sticker_removed", s>> \notin Tells
    /\ list # None => list[s] = 0
    /\ \A q \in Request : ask[q] # Nothing =>
         /\ ask[q].kind = "delete" => ask[q].item # s
         /\ ask[q].kind = "stickers" /\ ask[q].at = "answered" => ask[q].got[s] = 0

(* Of a sticker that is there, no removal is told, or written. *)
RemovedOnce ==
  \A s \in stickers :
    /\ <<"sticker_removed", s>> \notin Tells
    /\ \A q \in Request : ask[q] # Nothing /\ ask[q].kind = "delete" /\ ask[q].item = s
                            => ask[q].at = "sent"

(* The addition of one that is gone is undone by an event that follows. *)
AdditionsUndone ==
  \A s \in Sticker \ stickers :
    s \in Undone \/ <<"delete", s>> \in Writes \/ Slipping(s, {"overtaken", "missed"})

(* A sticker that is gone and shown will be removed, or a slip is known. *)
ShownRemoved ==
  list # None =>
    \A s \in Sticker \ stickers : list[s] > 0 =>
      Told("delete", s) \/ <<"add", s>> \in Writes \/ Slipping(s, {"stale", "overtaken", "late"})

(* One that is there and not shown will be added, or a slip is known. *)
NotShownThere ==
  list # None =>
    \A s \in stickers : list[s] = 0 => Told("add", s) \/ Slipping(s, {"stale", "part"})

(* An image in the map is not loading. *)
LoadsFit == \A s \in Sticker : loads[s] # "no" => s \notin cached

(* An image of a sticker that is gone will be revoked, or a slip is known. *)
ImagesKnown ==
  \A s \in Sticker \ stickers :
    s \in cached \/ loads[s] = "read" => Told("delete", s) \/ Slipping(s, {"loaded_late"})

(* A channel that is not shown will be, or a slip is known. *)
ChannelsKnown ==
  spaces # None =>
    \A c \in channels \ {General} : spaces[c] = 0 => Told("channel", c) \/ Slipping(c, {"stale"})

(* A row that is written, and told of. *)
LEMMA WritesIn ==
  \A kind, i :
    <<kind, i>> \in Writes <=> \E q \in Request : Writing(q) /\ ask[q].kind = kind /\ ask[q].item = i
  BY DEF Writes

(* Rows stay written while their requests do not change, *)
LEMMA WritesKept ==
  ASSUME \A q \in Request : /\ Writing(q)' <=> Writing(q)
                            /\ Writing(q) => ask'[q].kind = ask[q].kind /\ ask'[q].item = ask[q].item
  PROVE  Writes' = Writes
  BY DEF Writes

(* or one that wrote none does. *)
LEMMA WritesOthers ==
  ASSUME TypeOK, NEW q \in Request, ~ Writing(q), ~ Writing(q)',
         OthersKept(q)
  PROVE  Writes' = Writes
<1>1. \A r \in Request : /\ Writing(r)' <=> Writing(r)
                         /\ Writing(r) => ask'[r].kind = ask[r].kind /\ ask'[r].item = ask[r].item
  BY DEF Writing, OthersKept
<1>. QED
  BY <1>1, WritesKept

(* A handler writes a row, *)
LEMMA WriteRowWrites ==
  ASSUME TypeOK, NEW q \in Request, WriteRow(q)
  PROVE  Writes' = Writes \cup {<<ask[q].kind, ask[q].item>>}
<1>1. /\ ask'[q] # Nothing /\ ask'[q].at = "written" /\ ask'[q].kind = ask[q].kind
      /\ ask'[q].item = ask[q].item /\ ask[q].at = "sent"
      /\ OthersKept(q)
  BY AtStep DEF WriteRow, InsertRow, Takes, Stages
<1>2. /\ ~ Writing(q) /\ Writing(q)' /\ \A r \in Request \ {q} : Writing(r)' <=> Writing(r)
  BY <1>1 DEF Writing, OthersKept
<1>. QED
  BY <1>1, <1>2 DEF Writes, OthersKept

(* and has told of it. *)
LEMMA SendEventWrites ==
  ASSUME TypeOK, NEW q \in Request, SendEvent(q)
  PROVE  /\ Writes \subseteq Writes' \cup {<<ask[q].kind, ask[q].item>>} /\ Writes' \subseteq Writes
         /\ Writing(q)
<1>1. /\ ask[q] # Nothing /\ ask[q].at = "written"
      /\ ask'[q] = Nothing \/ ask'[q].at = "answered"
      /\ OthersKept(q)
  BY AnswerStep DEF SendEvent, Readings
<1>2. /\ Writing(q) /\ ~ Writing(q)' /\ \A r \in Request \ {q} : Writing(r)' <=> Writing(r)
  BY <1>1 DEF Writing, OthersKept
<1>. QED
  BY <1>1, <1>2 DEF Writes, OthersKept

(* Telling fails: the request is over, and its row is missed. *)
LEMMA FanoutFailsEffect ==
  ASSUME TypeOK, RequestsFit, NEW q \in Request, FanoutFails(q)
  PROVE  /\ Writing(q) /\ ask'[q] = Nothing /\ OthersKept(q)
         /\ slips' \in [Item -> SUBSET Slip]
         /\ \A i \in Item : slips[i] \subseteq slips'[i]
         /\ "missed" \in slips'[ask[q].item]
         /\ UNCHANGED <<tables, wire, store, fresh, uses, losses, cut>>
         /\ Writes \subseteq Writes' \cup {<<ask[q].kind, ask[q].item>>} /\ Writes' \subseteq Writes
<1>1. Writing(q) /\ ask'[q] = Nothing /\ OthersKept(q)
  BY EndsStep DEF FanoutFails, Writing
<1>2. {"missed"} \in SUBSET Slip /\ ask[q].item \in Item
  BY <1>1, RequestFields DEF Slip, Writing
<1>3. /\ slips' \in [Item -> SUBSET Slip]
      /\ \A i \in Item : slips[i] \subseteq slips'[i]
      /\ "missed" \in slips'[ask[q].item]
  BY <1>2, SlippedStep DEF FanoutFails
<1>4. UNCHANGED <<tables, wire, store, fresh, uses, losses, cut>>
  BY DEF FanoutFails
<1>5. ~ Writing(q)' /\ \A r \in Request \ {q} : Writing(r)' <=> Writing(r)
  BY <1>1 DEF Writing, OthersKept
<1>6. Writes \subseteq Writes' \cup {<<ask[q].kind, ask[q].item>>} /\ Writes' \subseteq Writes
  BY <1>1, <1>5 DEF Writes, OthersKept
<1>. QED
  BY <1>1, <1>3, <1>4, <1>6

(* An event is on its way at some place. *)
LEMMA TellsIn == \A e : e \in Tells <=> \E n \in 1 .. Len(events) : events[n] = e
  BY DEF Tells

(* What is on its way stays while the queue does. *)
LEMMA TellsKept ==
  ASSUME UNCHANGED events
  PROVE  Tells' = Tells /\ Undone' = Undone
  BY DEF Tells, Undone

(* An event sent is the last, so a removal undoes what was sent before it. *)
LEMMA TellsAppend ==
  ASSUME TypeOK, NEW e \in Event, events' = Append(events, e)
  PROVE  /\ Tells' = Tells \cup {e}
         /\ \A s \in Undone : e # <<"sticker_added", s>> => s \in Undone'
         /\ \A s \in Sticker : e = <<"sticker_removed", s>> => s \in Undone'
<1>1. /\ Len(events) \in Nat /\ Len(events') = Len(events) + 1 /\ events'[Len(events) + 1] = e
      /\ \A n \in 1 .. Len(events) : events'[n] = events[n]
  BY DEF TypeOK
<1>2. Tells' = Tells \cup {e}
  BY <1>1 DEF Tells
<1>3. ASSUME NEW s \in Undone, e # <<"sticker_added", s>> PROVE s \in Undone'
  <2>. SUFFICES ASSUME NEW n \in 1 .. Len(events'), events'[n] = <<"sticker_added", s>>
                PROVE  \E m \in n + 1 .. Len(events') : events'[m] = <<"sticker_removed", s>>
    BY DEF Undone
  <2>1. n \in 1 .. Len(events) /\ events[n] = <<"sticker_added", s>>
    <3>1. n \in 1 .. Len(events) + 1 /\ n # Len(events) + 1
      BY <1>1, <1>3
    <3>2. n \in 1 .. Len(events)
      BY <1>1, <3>1
    <3>. QED
      BY <1>1, <3>2
  <2>2. PICK m \in n + 1 .. Len(events) : events[m] = <<"sticker_removed", s>>
    BY <2>1 DEF Undone
  <2>3. m \in 1 .. Len(events) /\ m \in n + 1 .. Len(events')
    BY <1>1, <2>1
  <2>. QED
    BY <1>1, <2>2, <2>3
<1>4. ASSUME NEW s \in Sticker, e = <<"sticker_removed", s>> PROVE s \in Undone'
  <2>. SUFFICES ASSUME NEW n \in 1 .. Len(events'), events'[n] = <<"sticker_added", s>>
                PROVE  \E m \in n + 1 .. Len(events') : events'[m] = <<"sticker_removed", s>>
    BY DEF Undone
  <2>1. n # Len(events')
    BY <1>1, <1>4
  <2>. QED
    BY <1>1, <1>4, <2>1
<1>. QED
  BY <1>2, <1>3, <1>4

(* Taking the first event leaves those behind it, a removal that undoes it too. *)
LEMMA TellsTail ==
  ASSUME TypeOK, events # <<>>, events' = Tail(events)
  PROVE  /\ Tells \subseteq Tells' \cup {Head(events)} /\ Tells' \subseteq Tells
         /\ Head(events) \in Tells /\ Head(events) \in Event
         /\ Undone \subseteq Undone'
         /\ \A s \in Undone : Head(events) = <<"sticker_added", s>> => <<"sticker_removed",
                     s>> \in Tells'
<1>1. /\ Len(events) \in Nat \ {0} /\ Len(events') = Len(events) - 1 /\ Head(events) = events[1]
      /\ \A n \in 1 .. Len(events') : events'[n] = events[n + 1]
  BY DEF TypeOK
<1>2. \A n \in 2 .. Len(events) : n - 1 \in 1 .. Len(events') /\ events'[n - 1] = events[n]
  BY <1>1
<1>3. Tells \subseteq Tells' \cup {Head(events)} /\ Tells' \subseteq Tells /\ Head(events) \in Tells
  BY <1>1, <1>2 DEF Tells
<1>4. ASSUME NEW s \in Undone PROVE s \in Undone'
  <2>. SUFFICES ASSUME NEW n \in 1 .. Len(events'), events'[n] = <<"sticker_added", s>>
                PROVE  \E m \in n + 1 .. Len(events') : events'[m] = <<"sticker_removed", s>>
    BY DEF Undone
  <2>1. n + 1 \in 1 .. Len(events) /\ events[n + 1] = <<"sticker_added", s>>
    BY <1>1
  <2>2. PICK m \in n + 1 + 1 .. Len(events) : events[m] = <<"sticker_removed", s>>
    BY <2>1 DEF Undone
  <2>3. m \in 2 .. Len(events) /\ m - 1 \in n + 1 .. Len(events')
    BY <1>1, <2>1
  <2>. QED
    BY <1>2, <2>2, <2>3
<1>5. ASSUME NEW s \in Undone, Head(events) = <<"sticker_added", s>>
      PROVE  <<"sticker_removed", s>> \in Tells'
  <2>1. 1 \in 1 .. Len(events) /\ events[1] = <<"sticker_added", s>>
    BY <1>1, <1>5
  <2>2. PICK m \in 1 + 1 .. Len(events) : events[m] = <<"sticker_removed", s>>
    BY <2>1 DEF Undone
  <2>3. m \in 2 .. Len(events)
    BY <1>1
  <2>4. m - 1 \in 1 .. Len(events') /\ events'[m - 1] = <<"sticker_removed", s>>
    BY <1>2, <2>2, <2>3
  <2>. QED
    BY <2>4 DEF Tells
<1>6. Head(events) \in Event
  BY <1>1 DEF TypeOK
<1>. QED
  BY <1>3, <1>4, <1>5, <1>6

(* A socket that is lost takes its events with it. *)
LEMMA TellsLost ==
  ASSUME events' = <<>>
  PROVE  Tells' = {} /\ Undone' = Sticker
  BY DEF Tells, Undone

(* An addition that is undone is followed by the removal. *)
LEMMA UndoneIsTold ==
  \A s \in Undone : <<"sticker_added", s>> \in Tells => <<"sticker_removed", s>> \in Tells
<1>. SUFFICES ASSUME NEW s \in Undone, NEW n \in 1 .. Len(events), events[n] = <<"sticker_added",
            s>>
              PROVE  \E m \in 1 .. Len(events) : events[m] = <<"sticker_removed", s>>
  BY DEF Tells
<1>1. PICK m \in n + 1 .. Len(events) : events[m] = <<"sticker_removed", s>>
  BY DEF Undone
<1>. QED
  BY <1>1

(* What is to come of a sticker is an event on its way or one to be sent, *)
LEMMA StickerToCome ==
  ASSUME TypeOK, RequestsFit, NEW s \in Sticker
  PROVE  ToCome(s) <=> \/ <<"sticker_added", s>> \in Tells \/ <<"sticker_removed", s>> \in Tells
                       \/ <<"add", s>> \in Writes \/ <<"delete", s>> \in Writes
<1>1. ASSUME NEW n \in 1 .. Len(events), events[n][2] = s
      PROVE  events[n] = <<"sticker_added", s>> \/ events[n] = <<"sticker_removed", s>>
  <2>1. events[n] \in Event
    BY DEF TypeOK
  <2>. QED
    BY <1>1, <2>1, KindsDiffer DEF Event
<1>2. ASSUME NEW q \in Request, Writing(q), ask[q].item = s
      PROVE  ask[q].kind \in {"add", "delete"}
  BY <1>2, KindsDiffer DEF RequestsFit, Fits, Writing
<1>3. ToCome(s) <=> \/ \E n \in 1 .. Len(events) : events[n][2] = s
                    \/ \E q \in Request : Writing(q) /\ ask[q].item = s
  BY DEF ToCome, Writing
<1>. QED
  BY <1>1, <1>2, <1>3, WritesIn, TellsIn

(* and of a channel. *)
LEMMA ChannelToCome ==
  ASSUME TypeOK, RequestsFit, NEW c \in Channel
  PROVE  ToCome(c) <=> <<"channel_created", c>> \in Tells \/ <<"channel", c>> \in Writes
<1>1. ASSUME NEW n \in 1 .. Len(events), events[n][2] = c
      PROVE  events[n] = <<"channel_created", c>>
  <2>1. events[n] \in Event
    BY DEF TypeOK
  <2>. QED
    BY <1>1, <2>1, KindsDiffer DEF Event
<1>2. ASSUME NEW q \in Request, Writing(q), ask[q].item = c
      PROVE  ask[q].kind = "channel"
  BY <1>2, KindsDiffer DEF RequestsFit, Fits, Writing
<1>3. ToCome(c) <=> \/ \E n \in 1 .. Len(events) : events[n][2] = c
                    \/ \E q \in Request : Writing(q) /\ ask[q].item = c
  BY DEF ToCome, Writing
<1>. QED
  BY <1>1, <1>2, <1>3, WritesIn, TellsIn

(* What each action does to its request.                                   *)
LEMMA AskEffect ==
  ASSUME TypeOK, NEW q \in Request, NEW kind \in Kind, NEW i \in Item, NEW here \in BOOLEAN,
         Ask(q, kind, i, here)
  PROVE  /\ ask[q] = Nothing /\ ask'[q] # Nothing /\ ask'[q].kind = kind /\ ask'[q].item = i
         /\ ask'[q].here = here /\ ask'[q].at = "sent" /\ OthersKept(q)
<1>1. ask[q] = Nothing /\ ask' = [ask EXCEPT ![q] = Asked(kind, i, here)]
  BY DEF Ask
<1>2. Asked(kind, i, here) \in Asking
  BY AskedFits
<1>3. ask'[q] = Asked(kind, i, here) /\ OthersKept(q)
  BY <1>1, <1>2, AskStep
<1>. QED
  BY <1>1, <1>2, <1>3, NothingIsNoRequest DEF Asked

(* A list is read as the table is. *)
LEMMA ReadEffect ==
  ASSUME TypeOK, NEW q \in Request, Read(q)
  PROVE  /\ ask[q] # Nothing /\ ask[q].at = "sent" /\ ask[q].kind \in {"refresh", "keys",
              "members", "stickers"}
         /\ \/ ask'[q] = Nothing /\ ~ ask[q].here
            \/ /\ ask'[q] # Nothing /\ ask'[q].at = "answered" /\ ask'[q].kind = ask[q].kind
               /\ ask'[q].item = ask[q].item /\ ask'[q].here
               /\ ask[q].kind = "refresh" => ask'[q].got = Rows(channels, Channel)
               /\ ask[q].kind = "members" => ask'[q].got = Rows(members, User)
               /\ ask[q].kind = "stickers" => ask'[q].got = Rows(stickers, Sticker)
         /\ OthersKept(q)
<1>1. /\ Rows(channels, Channel) \in Readings /\ Rows({x \in {"key"} : wrapped},
            {"key"}) \in Readings
      /\ Rows(members, User) \in Readings /\ Rows(stickers, Sticker) \in Readings
  BY DEF Rows, Lists, Readings
<1>2. CASE Takes(q, "refresh", "sent") /\ Answer(q, Rows(channels, Channel))
  BY <1>1, <1>2, AnswerStep DEF Takes
<1>3. CASE Takes(q, "keys", "sent") /\ Answer(q, Rows({x \in {"key"} : wrapped}, {"key"}))
  BY <1>1, <1>3, AnswerStep DEF Takes
<1>4. CASE Takes(q, "members", "sent") /\ Answer(q, Rows(members, User))
  BY <1>1, <1>4, AnswerStep DEF Takes
<1>5. CASE Takes(q, "stickers", "sent") /\ Answer(q, Rows(stickers, Sticker))
  BY <1>1, <1>5, AnswerStep DEF Takes
<1>. QED
  BY <1>2, <1>3, <1>4, <1>5 DEF Read

(* refreshSpaces goes on with two requests. *)
LEMMA SpacesListedEffect ==
  ASSUME TypeOK, NEW q \in Request, SpacesListed(q)
  PROVE  \E r \in Request :
           /\ r # q /\ ask[r] = Nothing /\ ask[q] # Nothing /\ ask[q].kind = "refresh" /\ ask[q].at = "answered"
           /\ ask'[q] # Nothing /\ ask'[q].kind = "keys" /\ ask'[q].at = "sent" /\ ask'[q].item = General
           /\ ask'[r] # Nothing /\ ask'[r].kind = "members" /\ ask'[r].at = "sent" /\ ask'[r].item = General
           /\ ask'[r].here = TRUE
           /\ \A p \in Request \ {q, r} : ask'[p] = ask[p]
<1>1. ask[q] # Nothing /\ ask[q].kind = "refresh" /\ ask[q].at = "answered"
  BY DEF SpacesListed, Takes
<1>2. PICK r \in Request :
        /\ ask[r] = Nothing
        /\ ask' = [ask EXCEPT ![q] = Asked("keys", General, TRUE), ![r] = Refreshing]
  BY DEF SpacesListed
<1>3. /\ r # q /\ ask'[q] = Asked("keys", General, TRUE) /\ ask'[r] = Asked("members", General,
            TRUE)
      /\ \A p \in Request \ {q, r} : ask'[p] = ask[p]
  BY <1>1, <1>2 DEF TypeOK, Refreshing
<1>4. \A k \in Kind : /\ Asked(k, General, TRUE) # Nothing /\ Asked(k, General, TRUE).kind = k
                      /\ Asked(k, General, TRUE).at = "sent" /\ Asked(k, General,
                                  TRUE).item = General
  BY DEF Asked, Nothing, Kind
<1>5. \A k \in Kind : Asked(k, General, TRUE).here = TRUE
  BY DEF Asked
<1>6. "keys" \in Kind /\ "members" \in Kind
  BY DEF Kind
<1>7. /\ ask'[q] # Nothing /\ ask'[q].kind = "keys" /\ ask'[q].at = "sent" /\ ask'[q].item = General
      /\ ask'[r] # Nothing /\ ask'[r].kind = "members" /\ ask'[r].at = "sent" /\ ask'[r].item = General
  BY <1>3, <1>4, <1>6
<1>8. ask'[r].here = TRUE
  BY <1>3, <1>5, <1>6
<1>. QED
  BY <1>1, <1>2, <1>3, <1>7, <1>8

(* What a client takes from its socket. *)
LEMMA TakeEventIs ==
  ASSUME TypeOK, TakeEvent
  PROVE  /\ events # <<>> /\ events' = Tail(events)
         /\ UNCHANGED <<tables, open, making, keyed, people, fresh, uses, losses, cut>>
         /\ \/ /\ \E c \in Channel : Head(events) = <<"channel_created", c>> /\ OnChannelCreated(c)
            \/ /\ \E u \in User : Head(events) \in {<<"member_joined", u>>, <<"member_removed", u>>}
               /\ OnMemberChange
            \/ \E s \in Sticker : Head(events) = <<"sticker_added", s>> /\ OnStickerAdded(s)
            \/ \E s \in Sticker : Head(events) = <<"sticker_removed", s>> /\ OnStickerRemoved(s)
<1>1. events # <<>> /\ events \in Seq(Event) /\ events' = Tail(events)
  BY DEF TakeEvent, TypeOK
<1>2. Head(events) \in Event
  BY <1>1
<1>3. /\ Head(events)[1] = "channel_created" =>
           \E c \in Channel : Head(events) = <<"channel_created", c>> /\ Head(events)[2] = c
      /\ Head(events)[1] \in {"member_joined", "member_removed"} =>
           \E u \in User : Head(events) \in {<<"member_joined", u>>, <<"member_removed", u>>}
      /\ Head(events)[1] = "sticker_added" =>
           \E s \in Sticker : Head(events) = <<"sticker_added", s>> /\ Head(events)[2] = s
      /\ Head(events)[1] = "sticker_removed" =>
           \E s \in Sticker : Head(events) = <<"sticker_removed", s>> /\ Head(events)[2] = s
  BY <1>2 DEF Event
<1>. QED
  BY <1>1, <1>3 DEF TakeEvent

(* Another user joins, *)
LEMMA AskJoinEffect ==
  ASSUME TypeOK, NEW q \in Request, NEW u \in User, AskJoin(q, u)
  PROVE  /\ ask[q] = Nothing /\ ask'[q] # Nothing /\ ask'[q].kind = "join" /\ ask'[q].item = u
         /\ ask'[q].at = "sent" /\ OthersKept(q)
<1>1. Asked("join", u, FALSE) \in Asking
  BY AskedFits DEF Kind, Item
<1>2. ask[q] = Nothing /\ ask' = [ask EXCEPT ![q] = Asked("join", u, FALSE)]
  BY DEF AskJoin, Ask
<1>3. ask'[q] = Asked("join", u, FALSE) /\ OthersKept(q)
  BY <1>1, <1>2, AskStep
<1>4. Asked("join", u, FALSE).kind = "join" /\ Asked("join", u, FALSE).item = u /\ Asked("join",
            u, FALSE).at = "sent"
  BY DEF Asked
<1>. QED
  BY <1>1, <1>2, <1>3, <1>4, NothingIsNoRequest

(* the picker opens, *)
LEMMA AskStickersEffect ==
  ASSUME TypeOK, NEW q \in Request, AskStickers(q)
  PROVE  /\ ask[q] = Nothing /\ ask'[q] # Nothing /\ ask'[q].kind = "stickers" /\ ask'[q].item = General
         /\ ask'[q].at = "sent" /\ OthersKept(q)
<1>1. Asked("stickers", General, TRUE) \in Asking
  BY AskedFits, GeneralIsChannel DEF Kind, Item
<1>2. ask[q] = Nothing /\ ask' = [ask EXCEPT ![q] = Asked("stickers", General, TRUE)]
  BY DEF AskStickers, Ask
<1>3. ask'[q] = Asked("stickers", General, TRUE) /\ OthersKept(q)
  BY <1>1, <1>2, AskStep
<1>4. Asked("stickers", General, TRUE).kind = "stickers" /\ Asked("stickers", General,
            TRUE).item = General /\ Asked("stickers", General, TRUE).at = "sent"
  BY DEF Asked
<1>. QED
  BY <1>1, <1>2, <1>3, <1>4, NothingIsNoRequest

(* and the spaces are asked for. *)
LEMMA AskSpacesEffect ==
  ASSUME TypeOK, NEW q \in Request, AskSpaces(q)
  PROVE  /\ ask[q] = Nothing /\ ask'[q] # Nothing /\ ask'[q].kind = "refresh" /\ ask'[q].item = General
         /\ ask'[q].at = "sent" /\ OthersKept(q)
<1>1. Asked("refresh", General, TRUE) \in Asking
  BY AskedFits, GeneralIsChannel DEF Kind, Item
<1>2. ask[q] = Nothing /\ ask' = [ask EXCEPT ![q] = Asked("refresh", General, TRUE)]
  BY DEF AskSpaces, Ask
<1>3. ask'[q] = Asked("refresh", General, TRUE) /\ OthersKept(q)
  BY <1>1, <1>2, AskStep
<1>4. Asked("refresh", General, TRUE).kind = "refresh" /\ Asked("refresh", General,
            TRUE).item = General /\ Asked("refresh", General, TRUE).at = "sent"
  BY DEF Asked
<1>. QED
  BY <1>1, <1>2, <1>3, <1>4, NothingIsNoRequest

(* The steps that neither write a row nor tell of one.                    *)
Quiet ==
  \/ CreateSpace \/ SpaceMade \/ KeyUploaded \/ CreateFails \/ TakeEvent \/ SocketLost
         \/ SocketOpens
  \/ \E q \in Request : SpaceCreated(q) \/ AskStickers(q) \/ AskSpaces(q) \/
         NothingToWrite(q) \/ TellRemoval(q) \/ DeleteMember(q) \/ Read(q) \/
         RequestLost(q) \/ SpacesListed(q) \/ KeysLoaded(q) \/ MembersListed(q) \/
         MemberRemoved(q) \/ ChannelCreated(q) \/ StickersListed(q) \/ StickerAdded(q)
         \/ StickerDeleted(q)
  \/ \E q \in Request : \E c \in Channel : \E here \in BOOLEAN : AskChannel(q, c,
         here)
  \/ \E q \in Request : \E s \in Sticker : \E here \in BOOLEAN : AskAdd(q, s, here) \/
         AskDelete(q, s, here)
  \/ \E q \in Request : \E u \in User : AskJoin(q, u)
  \/ \E q \in Request : \E u \in User : \E here \in BOOLEAN : AskRemove(q, u, here)
  \/ \E s \in Sticker : ShowSticker(s) \/ FetchSticker(s) \/ UrlMade(s) \/
         LoadFails(s)

(* Every other step leaves the written rows alone. *)
LEMMA QuietWrites ==
  ASSUME TypeOK, RequestsFit, Quiet
  PROVE  Writes' = Writes
<1>1. ASSUME CreateSpace PROVE Writes' = Writes
  BY <1>1, WritesKept DEF Writing, CreateSpace, tables, wire, images, history
<1>2. ASSUME SpaceMade PROVE Writes' = Writes
  BY <1>2, WritesKept DEF Writing, SpaceMade, wire, images, history
<1>3. ASSUME KeyUploaded PROVE Writes' = Writes
  BY <1>3, WritesKept DEF Writing, KeyUploaded, wire, images, history
<1>4. ASSUME CreateFails PROVE Writes' = Writes
  BY <1>4, WritesKept DEF Writing, CreateFails, tables, wire, images
<1>5. ASSUME NEW q \in Request, SpaceCreated(q) PROVE Writes' = Writes
  <2>1. ~ Writing(q) /\ ~ Writing(q)' /\ OthersKept(q)
    BY <1>5, BecomesStep DEF SpaceCreated, Kind, Writing
  <2>. QED
    BY <2>1, WritesOthers
<1>6. ASSUME NEW q \in Request, NEW c \in Channel, NEW here \in BOOLEAN, AskChannel(q, c, here)
      PROVE  Writes' = Writes
  <2>1. ~ Writing(q) /\ ~ Writing(q)' /\ OthersKept(q)
    BY <1>6, AskEffect DEF AskChannel, Kind, Item, Writing
  <2>. QED
    BY <2>1, WritesOthers
<1>7. ASSUME NEW q \in Request, NEW s \in Sticker, NEW here \in BOOLEAN, AskAdd(q, s, here)
      PROVE  Writes' = Writes
  <2>1. ~ Writing(q) /\ ~ Writing(q)' /\ OthersKept(q)
    BY <1>7, AskEffect DEF AskAdd, Kind, Item, Writing
  <2>. QED
    BY <2>1, WritesOthers
<1>8. ASSUME NEW q \in Request, NEW s \in Sticker, NEW here \in BOOLEAN, AskDelete(q, s, here)
      PROVE  Writes' = Writes
  <2>1. ~ Writing(q) /\ ~ Writing(q)' /\ OthersKept(q)
    BY <1>8, AskEffect DEF AskDelete, Kind, Item, Writing
  <2>. QED
    BY <2>1, WritesOthers
<1>9. ASSUME NEW q \in Request, NEW u \in User, AskJoin(q, u) PROVE Writes' = Writes
  <2>1. ~ Writing(q) /\ ~ Writing(q)' /\ OthersKept(q)
    BY <1>9, AskJoinEffect DEF Writing
  <2>. QED
    BY <2>1, WritesOthers
<1>10. ASSUME NEW q \in Request, NEW u \in User, NEW here \in BOOLEAN, AskRemove(q, u, here)
       PROVE  Writes' = Writes
  <2>1. ~ Writing(q) /\ ~ Writing(q)' /\ OthersKept(q)
    BY <1>10, AskEffect DEF AskRemove, Kind, Item, Writing
  <2>. QED
    BY <2>1, WritesOthers
<1>11. ASSUME NEW q \in Request, AskStickers(q) PROVE Writes' = Writes
  <2>1. ~ Writing(q) /\ ~ Writing(q)' /\ OthersKept(q)
    BY <1>11, AskStickersEffect DEF Writing
  <2>. QED
    BY <2>1, WritesOthers
<1>12. ASSUME NEW q \in Request, AskSpaces(q) PROVE Writes' = Writes
  <2>1. ~ Writing(q) /\ ~ Writing(q)' /\ OthersKept(q)
    BY <1>12, AskSpacesEffect DEF Writing
  <2>. QED
    BY <2>1, WritesOthers
<1>13. ASSUME NEW q \in Request, NothingToWrite(q) PROVE Writes' = Writes
  <2>1. ~ Writing(q) /\ ~ Writing(q)' /\ OthersKept(q)
    BY <1>13, EndsStep DEF NothingToWrite, Takes, Writing
  <2>. QED
    BY <2>1, WritesOthers
<1>14. ASSUME NEW q \in Request, TellRemoval(q) PROVE Writes' = Writes
  <2>1. ~ Writing(q) /\ ~ Writing(q)' /\ OthersKept(q)
    BY <1>14, AtStep DEF TellRemoval, Takes, Stages, Writing
  <2>. QED
    BY <2>1, WritesOthers
<1>15. ASSUME NEW q \in Request, DeleteMember(q) PROVE Writes' = Writes
  <2>1. ~ Writing(q) /\ ~ Writing(q)' /\ OthersKept(q)
    BY <1>15, AnswerStep DEF DeleteMember, Takes, Readings, Writing
  <2>. QED
    BY <2>1, WritesOthers
<1>16. ASSUME NEW q \in Request, Read(q) PROVE Writes' = Writes
  <2>1. ~ Writing(q) /\ ~ Writing(q)' /\ OthersKept(q)
    BY <1>16, ReadEffect DEF Writing
  <2>. QED
    BY <2>1, WritesOthers
<1>17. ASSUME NEW q \in Request, RequestLost(q) PROVE Writes' = Writes
  <2>1. ~ Writing(q) /\ ~ Writing(q)' /\ OthersKept(q)
    BY <1>17, EndsStep DEF RequestLost, Writing
  <2>. QED
    BY <2>1, WritesOthers
<1>18. ASSUME NEW q \in Request, SpacesListed(q) PROVE Writes' = Writes
  <2>1. \A r \in Request : /\ Writing(r)' <=> Writing(r)
                           /\ Writing(r) => ask'[r].kind = ask[r].kind /\ ask'[r].item = ask[r].item
    BY <1>18, SpacesListedEffect DEF Writing
  <2>. QED
    BY <2>1, WritesKept
<1>19. ASSUME NEW q \in Request, KeysLoaded(q) PROVE Writes' = Writes
  <2>1. ~ Writing(q) /\ ~ Writing(q)' /\ OthersKept(q)
    BY <1>19, EndsStep DEF KeysLoaded, Takes, Writing
  <2>. QED
    BY <2>1, WritesOthers
<1>20. ASSUME NEW q \in Request, MembersListed(q) PROVE Writes' = Writes
  <2>1. ~ Writing(q) /\ ~ Writing(q)' /\ OthersKept(q)
    BY <1>20, EndsStep DEF MembersListed, Takes, Writing
  <2>. QED
    BY <2>1, WritesOthers
<1>21. ASSUME NEW q \in Request, MemberRemoved(q) PROVE Writes' = Writes
  <2>1. ~ Writing(q) /\ ~ Writing(q)' /\ OthersKept(q)
    BY <1>21, BecomesStep DEF MemberRemoved, Kind, Takes, Writing
  <2>. QED
    BY <2>1, WritesOthers
<1>22. ASSUME NEW q \in Request, ChannelCreated(q) PROVE Writes' = Writes
  <2>1. ~ Writing(q) /\ ~ Writing(q)' /\ OthersKept(q)
    BY <1>22, BecomesStep DEF ChannelCreated, Kind, Takes, Writing
  <2>. QED
    BY <2>1, WritesOthers
<1>23. ASSUME NEW q \in Request, StickersListed(q) PROVE Writes' = Writes
  <2>1. ~ Writing(q) /\ ~ Writing(q)' /\ OthersKept(q)
    BY <1>23, EndsStep DEF StickersListed, Takes, Writing
  <2>. QED
    BY <2>1, WritesOthers
<1>24. ASSUME NEW q \in Request, StickerAdded(q) PROVE Writes' = Writes
  <2>1. ~ Writing(q) /\ ~ Writing(q)' /\ OthersKept(q)
    BY <1>24, EndsStep DEF StickerAdded, Takes, Writing
  <2>. QED
    BY <2>1, WritesOthers
<1>25. ASSUME NEW q \in Request, StickerDeleted(q) PROVE Writes' = Writes
  <2>1. ~ Writing(q) /\ ~ Writing(q)' /\ OthersKept(q)
    BY <1>25, EndsStep DEF StickerDeleted, Takes, Writing
  <2>. QED
    BY <2>1, WritesOthers
<1>26. ASSUME TakeEvent PROVE Writes' = Writes
  <2>1. CASE UNCHANGED ask
    BY <2>1, WritesKept DEF Writing
  <2>2. CASE OnMemberChange
    BY <2>2, BecomesStep, WritesOthers DEF OnMemberChange, Kind, Writing
  <2>. QED
    BY <1>26, <2>1, <2>2 DEF TakeEvent, OnChannelCreated, OnStickerAdded, OnStickerRemoved
<1>27. ASSUME SocketLost PROVE Writes' = Writes
  BY <1>27, WritesKept DEF Writing, SocketLost, tables, store, images
<1>28. ASSUME SocketOpens PROVE Writes' = Writes
  BY <1>28, WritesKept DEF Writing, SocketOpens, tables, store, images, history
<1>29. ASSUME NEW s \in Sticker, ShowSticker(s) PROVE Writes' = Writes
  BY <1>29, WritesKept DEF Writing, ShowSticker, tables, wire
<1>30. ASSUME NEW s \in Sticker, FetchSticker(s) PROVE Writes' = Writes
  BY <1>30, WritesKept DEF Writing, FetchSticker, tables, wire, history
<1>31. ASSUME NEW s \in Sticker, UrlMade(s) PROVE Writes' = Writes
  BY <1>31, WritesKept DEF Writing, UrlMade, tables, wire, history
<1>32. ASSUME NEW s \in Sticker, LoadFails(s) PROVE Writes' = Writes
  BY <1>32, WritesKept DEF Writing, LoadFails, tables, wire, history
<1>. QED
  BY <1>1, <1>2, <1>3, <1>4, <1>5, <1>6, <1>7, <1>8, <1>9, <1>10, <1>11, <1>12, <1>13,
     <1>14, <1>15, <1>16, <1>17, <1>18, <1>19, <1>20, <1>21, <1>22, <1>23, <1>24,
     <1>25, <1>26, <1>27, <1>28, <1>29, <1>30, <1>31, <1>32 DEF Quiet

(* A slip is never forgotten. *)
LEMMA SlipsGrow ==
  ASSUME TypeOK, RequestsFit, Next
  PROVE  \A i \in Item : slips[i] \subseteq slips'[i]
<1>1. ASSUME NEW q \in Request, SendEvent(q) PROVE \A i \in Item : slips[i] \subseteq slips'[i]
  <2>1. {s \in {"missed"} : ~ open}
          \cup {s \in {"overtaken"} : ask[q].kind = "add" /\ ask[q].item \notin stickers} \in SUBSET Slip
    BY DEF Slip
  <2>. QED
    BY <1>1, <2>1, SlippedStep, RequestFields DEF SendEvent, Takes
<1>2. ASSUME NEW q \in Request, TellRemoval(q) PROVE \A i \in Item : slips[i] \subseteq slips'[i]
  <2>1. {s \in {"missed"} : ~ open} \in SUBSET Slip
    BY DEF Slip
  <2>. QED
    BY <1>2, <2>1, SlippedStep, RequestFields DEF TellRemoval, Takes
<1>3. ASSUME NEW q \in Request, DeleteMember(q) PROVE \A i \in Item : slips[i] \subseteq slips'[i]
  <2>1. {s \in {"early"} : ~ ask[q].here /\ ~ Ahead(ask[q].item)} \in SUBSET Slip
    BY DEF Slip
  <2>. QED
    BY <1>3, <2>1, SlippedStep, RequestFields DEF DeleteMember, Takes
<1>4. ASSUME NEW q \in Request, RequestLost(q) PROVE \A i \in Item : slips[i] \subseteq slips'[i]
  BY <1>4 DEF TypeOK, RequestLost
<1>5. ASSUME NEW q \in Request, SpacesListed(q) PROVE \A i \in Item : slips[i] \subseteq slips'[i]
  BY <1>5 DEF TypeOK, SpacesListed, Outdated
<1>6. ASSUME NEW q \in Request, MembersListed(q) PROVE \A i \in Item : slips[i] \subseteq slips'[i]
  BY <1>6 DEF TypeOK, MembersListed
<1>7. ASSUME NEW q \in Request, StickersListed(q) PROVE \A i \in Item : slips[i] \subseteq slips'[i]
  BY <1>7 DEF TypeOK, StickersListed, Outdated
<1>8. ASSUME NEW q \in Request, StickerAdded(q) PROVE \A i \in Item : slips[i] \subseteq slips'[i]
  BY <1>8 DEF TypeOK, StickerAdded
<1>9. ASSUME NEW q \in Request, StickerDeleted(q) PROVE \A i \in Item : slips[i] \subseteq slips'[i]
  BY <1>9, SlippedStep, RequestFields DEF StickerDeleted, Takes, LateLoad, Slip
<1>10. ASSUME TakeEvent PROVE \A i \in Item : slips[i] \subseteq slips'[i]
  <2>1. CASE UNCHANGED slips
    BY <2>1
  <2>2. CASE Head(events)[1] = "sticker_removed" /\ OnStickerRemoved(Head(events)[2])
    <3>1. Head(events)[2] \in Item
      BY <1>10, <2>2 DEF TakeEvent, TypeOK, Event, Item
    <3>. QED
      BY <2>2, <3>1, SlippedStep DEF OnStickerRemoved, LateLoad, Slip
  <2>. QED
    BY <1>10, <2>1, <2>2 DEF TakeEvent, OnChannelCreated, OnStickerAdded, OnMemberChange
<1>11. ASSUME SocketLost PROVE \A i \in Item : slips[i] \subseteq slips'[i]
  BY <1>11 DEF TypeOK, SocketLost
<1>12. ASSUME NEW q \in Request, FanoutFails(q) PROVE \A i \in Item : slips[i] \subseteq slips'[i]
  BY <1>12, FanoutFailsEffect
<1>. QED
  BY <1>1, <1>2, <1>3, <1>4, <1>5, <1>6, <1>7, <1>8, <1>9, <1>10, <1>11, <1>12 DEF Next,
     Asks, Handles, Answers, CreateSpace, history, SpaceMade, KeyUploaded,
     CreateFails, SpaceCreated, AskChannel, Ask, AskAdd, AskDelete, AskJoin,
     AskRemove, AskStickers, AskSpaces, WriteRow, NothingToWrite, Read, KeysLoaded,
     MemberRemoved, ChannelCreated, SocketOpens, ShowSticker, FetchSticker, UrlMade,
     LoadFails

Telling == {"channel", "join", "add", "delete"}

(* A written row has an event of its kind. *)
LEMMA EventOfItem ==
  ASSUME TypeOK, RequestsFit, NEW q \in Request, Writing(q)
  PROVE  /\ ask[q].kind \in Telling /\ <<EventOf(ask[q].kind), ask[q].item>> \in Event
         /\ ask[q].item \in Item
  BY RequestFields DEF RequestsFit, Fits, Writing, Telling, EventOf, Event

(* The event of a row that is written is sent or missed. *)
LEMMA SendEventTells ==
  ASSUME TypeOK, RequestsFit, NEW q \in Request, SendEvent(q),
         NEW kind, NEW i, kind = ask[q].kind, i = ask[q].item
  PROVE  /\ Tells \subseteq Tells' /\ Writing(q)
         /\ <<EventOf(kind), i>> \in Tells' \/ "missed" \in slips'[i]
         /\ kind = "add" /\ i \notin stickers => "overtaken" \in slips'[i]
         /\ open => events' = Append(events, <<EventOf(kind), i>>)
         /\ ~ open => "missed" \in slips'[i] /\ UNCHANGED events
<1> DEFINE e == <<EventOf(kind), i>>
           S == {s \in {"missed"} : ~ open} \cup {s \in {"overtaken"} : kind = "add" /\ i \notin stickers}
<1>1. Writing(q)
  BY DEF SendEvent, Writing
<1>2. e \in Event /\ i \in Item
  BY <1>1, EventOfItem
<1>3. S \in SUBSET Slip
  BY DEF Slip
<1>4. Slipped(i, S) /\ events' = IF open THEN Append(events, e) ELSE events
  BY DEF SendEvent, Fanout
<1>5. /\ ~ open => "missed" \in S
      /\ kind = "add" /\ i \notin stickers => "overtaken" \in S
  OBVIOUS
<1>. HIDE DEF S, e
<1>6. S \subseteq slips'[i]
  BY <1>2, <1>3, <1>4, SlippedStep
<1>7. CASE open
  <2>1. events' = Append(events, e)
    BY <1>4, <1>7
  <2>2. Tells' = Tells \cup {e}
    BY <1>2, <2>1, TellsAppend
  <2>. QED
    BY <1>1, <1>5, <1>6, <1>7, <2>1, <2>2 DEF e
<1>8. CASE ~ open
  <2>1. Tells' = Tells /\ UNCHANGED events
    BY <1>4, <1>8, TellsKept
  <2>. QED
    BY <1>1, <1>5, <1>6, <1>8, <2>1
<1>. QED
  BY <1>7, <1>8

(* remove_member tells first, or is missed. *)
LEMMA TellRemovalTells ==
  ASSUME TypeOK, RequestsFit, NEW q \in Request, TellRemoval(q), NEW u, u = ask[q].item
  PROVE  /\ Tells \subseteq Tells' /\ Undone \subseteq Undone' /\ u \in User
         /\ <<"member_removed", u>> \in Tells' \/ "missed" \in slips'[u]
<1>1. u \in User
  BY DEF TellRemoval, Takes, RequestsFit, Fits
<1>2. <<"member_removed", u>> \in Event /\ u \in Item
  BY <1>1 DEF Event, Item
<1>3. CASE open
  <2>1. events' = Append(events, <<"member_removed", u>>)
    BY <1>3 DEF TellRemoval, Fanout
  <2>2. \A s : <<"member_removed", u>> # <<"sticker_added", s>>
    OBVIOUS
  <2>3. Tells' = Tells \cup {<<"member_removed", u>>} /\ \A s \in Undone : s \in Undone'
    BY <1>2, <2>1, <2>2, TellsAppend
  <2>. QED
    BY <1>1, <2>3
<1>4. CASE ~ open
  <2>1. UNCHANGED events
    BY <1>4 DEF TellRemoval, Fanout
  <2>2. {s \in {"missed"} : ~ open} = {"missed"} /\ {"missed"} \in SUBSET Slip
    BY <1>4 DEF Slip
  <2>3. Slipped(u, {"missed"})
    BY <2>2 DEF TellRemoval
  <2>4. "missed" \in slips'[u]
    BY <1>2, <2>2, <2>3, SlippedStep
  <2>5. Tells' = Tells /\ Undone' = Undone
    BY <2>1, TellsKept
  <2>. QED
    BY <1>1, <2>4, <2>5
<1>. QED
  BY <1>3, <1>4

(* Events lost with the socket are missed. *)
LEMMA SocketLostTells ==
  ASSUME TypeOK, SocketLost
  PROVE  \A e \in Tells : "missed" \in slips'[e[2]]
<1>. SUFFICES ASSUME NEW n \in 1 .. Len(events) PROVE "missed" \in slips'[events[n][2]]
  BY DEF Tells
<1>1. events[n] \in Event
  BY DEF TypeOK
<1>2. events[n][2] \in Item
  BY <1>1 DEF Event, Item
<1>3. slips' = [i \in Item |-> IF \E m \in 1 .. Len(events) : events[m][2] = i
                                                      THEN slips[i] \cup {"missed"} ELSE slips[i]]
  BY DEF SocketLost
<1>. QED
  BY <1>2, <1>3

(* What is told stays so in a step that touches neither rows nor events. *)
LEMMA ToldQuiet ==
  ASSUME TypeOK, RequestsFit, Next, NEW kind, NEW i \in Item, Told(kind, i), Quiet, UNCHANGED events
  PROVE  Told(kind, i)'
<1>1. "missed" \in slips[i] => "missed" \in slips'[i]
  BY SlipsGrow
<1>2. Tells' = Tells /\ Writes' = Writes
  BY QuietWrites, TellsKept
<1>. QED
  BY <1>1, <1>2 DEF Told, Slipping

(* What is told stays told until the client takes the event. *)
LEMMA ToldKept ==
  ASSUME TypeOK, RequestsFit, Next, NEW kind \in Telling, NEW i \in Item, Told(kind, i)
  PROVE  Told(kind, i)' \/ (TakeEvent /\ Head(events) = <<EventOf(kind), i>>)
<1> DEFINE t == EventOf(kind)
<1>. HIDE DEF t
<1>a. Told(kind, i) <=> <<t, i>> \in Tells \/ <<kind, i>> \in Writes \/ "missed" \in slips[i]
  BY DEF Told, Slipping, t
<1>b. Told(kind, i)' <=> <<t, i>> \in Tells' \/ <<kind, i>> \in Writes' \/ "missed" \in slips'[i]
  BY DEF Told, Slipping, t
<1>1. "missed" \in slips[i] => "missed" \in slips'[i]
  BY SlipsGrow
<1>2. ASSUME UNCHANGED events, Quiet PROVE Told(kind, i)'
  BY <1>2, ToldQuiet
<1>3. ASSUME NEW q \in Request, WriteRow(q) PROVE Told(kind, i)'
  <2>1. UNCHANGED events
    BY <1>3 DEF WriteRow, wire
  <2>2. Writes \subseteq Writes'
    BY <1>3, WriteRowWrites
  <2>. QED
    BY <1>a, <1>b, <1>1, <2>1, <2>2, TellsKept
<1>4. ASSUME NEW q \in Request, SendEvent(q) PROVE Told(kind, i)'
  <2>1. Tells \subseteq Tells' /\ Writes \subseteq Writes' \cup {<<ask[q].kind, ask[q].item>>}
    BY <1>4, SendEventWrites, SendEventTells
  <2>2. CASE <<kind, i>> = <<ask[q].kind, ask[q].item>>
    <3>1. <<EventOf(kind), i>> \in Tells' \/ "missed" \in slips'[i]
      BY <1>4, <2>2, SendEventTells
    <3>. QED
      BY <1>b, <3>1 DEF t
  <2>3. CASE <<kind, i>> # <<ask[q].kind, ask[q].item>>
    BY <1>a, <1>b, <1>1, <2>1, <2>3
  <2>. QED
    BY <2>2, <2>3
<1>5. ASSUME NEW q \in Request, TellRemoval(q) PROVE Told(kind, i)'
  <2>1. Writes' = Writes
    BY <1>5, QuietWrites DEF Quiet
  <2>. QED
    BY <1>a, <1>b, <1>1, <1>5, <2>1, TellRemovalTells
<1>6. ASSUME TakeEvent PROVE Told(kind, i)' \/ Head(events) = <<EventOf(kind), i>>
  <2>1. Writes' = Writes
    BY <1>6, QuietWrites DEF Quiet
  <2>2. Tells \subseteq Tells' \cup {Head(events)}
    BY <1>6, TakeEventIs, TellsTail
  <2>. QED
    BY <1>a, <1>b, <1>1, <2>1, <2>2 DEF t
<1>7. ASSUME SocketLost PROVE Told(kind, i)'
  <2>1. Writes' = Writes
    BY <1>7, QuietWrites DEF Quiet
  <2>2. <<t, i>> \in Tells => "missed" \in slips'[i]
    BY <1>7, SocketLostTells
  <2>. QED
    BY <1>a, <1>b, <1>1, <2>1, <2>2
<1>8. ASSUME NEW q \in Request, Asks(q) PROVE UNCHANGED events /\ Quiet
  BY <1>8 DEF Quiet, Asks, AskChannel, Ask, tables, wire, store, images, AskAdd,
     AskDelete, AskJoin, AskRemove, AskStickers, AskSpaces
<1>9. ASSUME NEW q \in Request, Answers(q) PROVE UNCHANGED events /\ Quiet
  BY <1>9 DEF Quiet, Answers, SpaceCreated, tables, wire, images, history,
     SpacesListed, KeysLoaded, ChannelCreated, store, MembersListed, MemberRemoved,
     StickersListed, StickerAdded, StickerDeleted
<1>10. ASSUME NEW q \in Request, Handles(q) PROVE \/ UNCHANGED events /\ Quiet
         \/ WriteRow(q) \/ SendEvent(q) \/ FanoutFails(q) \/ TellRemoval(q)
  BY <1>10 DEF Quiet, Handles, NothingToWrite, tables, wire, store, images, history,
     DeleteMember, Read, RequestLost
<1>11. ASSUME \/ CreateSpace \/ SpaceMade \/ KeyUploaded \/ CreateFails \/ SocketOpens
       \/ \E s \in Sticker : ShowSticker(s) \/ FetchSticker(s) \/ UrlMade(s) \/ LoadFails(s)
      PROVE  UNCHANGED events /\ Quiet
  BY <1>11 DEF Quiet, CreateSpace, tables, wire, images, history, SpaceMade,
     KeyUploaded, CreateFails, SocketOpens, store, ShowSticker, FetchSticker, UrlMade,
     LoadFails
<1>13. ASSUME NEW q \in Request, FanoutFails(q) PROVE Told(kind, i)'
  <2>1. Tells' = Tells /\ Writes \subseteq Writes' \cup {<<ask[q].kind, ask[q].item>>}
        /\ "missed" \in slips'[ask[q].item]
    BY <1>13, FanoutFailsEffect, TellsKept DEF wire
  <2>. QED
    BY <1>a, <1>b, <1>1, <2>1
<1>12. ASSUME NEW q \in Request, Asks(q) \/ Handles(q) \/ Answers(q) PROVE Told(kind, i)'
  BY <1>2, <1>3, <1>4, <1>5, <1>8, <1>9, <1>10, <1>12, <1>13
<1>. QED
  BY <1>2, <1>6, <1>7, <1>11, <1>12 DEF Next

(* A row that is written will be told. *)
LEMMA WriteRowTold ==
  ASSUME TypeOK, RequestsFit, NEW q \in Request, WriteRow(q),
         NEW kind, NEW i, kind = ask[q].kind, i = ask[q].item
  PROVE  Told(kind, i)'
<1>1. <<kind, i>> \in Writes'
  BY WriteRowWrites
<1>. QED
  BY <1>1 DEF Told

(* What changes the rows, and what is shown of them. *)
LEMMA StickersBy ==
  ASSUME Next
  PROVE  \/ UNCHANGED stickers
         \/ \E q \in Request : WriteRow(q)
<1>1. ASSUME NEW q \in Request, Asks(q) PROVE UNCHANGED stickers
  BY <1>1 DEF Asks, AskChannel, Ask, tables, wire, store, images, AskAdd, AskDelete,
     AskJoin, AskRemove, AskStickers, AskSpaces
<1>2. ASSUME NEW q \in Request, Handles(q) PROVE UNCHANGED stickers \/ WriteRow(q)
  BY <1>2 DEF Handles, NothingToWrite, tables, wire, store, images, history,
     SendEvent, FanoutFails, TellRemoval, DeleteMember, Read, RequestLost
<1>3. ASSUME NEW q \in Request, Answers(q) PROVE UNCHANGED stickers
  BY <1>3 DEF Answers, SpaceCreated, tables, wire, images, history, SpacesListed,
     KeysLoaded, ChannelCreated, store, MembersListed, MemberRemoved, StickersListed,
     StickerAdded, StickerDeleted
<1>. QED
  BY <1>1, <1>2, <1>3 DEF Next, CreateSpace, tables, wire, images, history, SpaceMade,
     KeyUploaded, CreateFails, TakeEvent, SocketLost, store, SocketOpens, ShowSticker,
     FetchSticker, UrlMade, LoadFails

(* The rows of channels, *)
LEMMA ChannelsBy ==
  ASSUME Next
  PROVE  \/ UNCHANGED channels \/ SpaceMade
         \/ \E q \in Request : WriteRow(q)
<1>1. ASSUME NEW q \in Request, Asks(q) PROVE UNCHANGED channels
  BY <1>1 DEF Asks, AskChannel, Ask, tables, wire, store, images, AskAdd, AskDelete,
     AskJoin, AskRemove, AskStickers, AskSpaces
<1>2. ASSUME NEW q \in Request, Handles(q) PROVE UNCHANGED channels \/ WriteRow(q)
  BY <1>2 DEF Handles, NothingToWrite, tables, wire, store, images, history,
     SendEvent, FanoutFails, TellRemoval, DeleteMember, Read, RequestLost
<1>3. ASSUME NEW q \in Request, Answers(q) PROVE UNCHANGED channels
  BY <1>3 DEF Answers, SpaceCreated, tables, wire, images, history, SpacesListed,
     KeysLoaded, ChannelCreated, store, MembersListed, MemberRemoved, StickersListed,
     StickerAdded, StickerDeleted
<1>. QED
  BY <1>1, <1>2, <1>3 DEF Next, CreateSpace, tables, wire, images, history,
     KeyUploaded, CreateFails, TakeEvent, SocketLost, store, SocketOpens, ShowSticker,
     FetchSticker, UrlMade, LoadFails

(* of members, *)
LEMMA MembersBy ==
  ASSUME Next
  PROVE  \/ UNCHANGED members
         \/ \E q \in Request : WriteRow(q) \/ DeleteMember(q)
<1>1. ASSUME NEW q \in Request, Asks(q) PROVE UNCHANGED members
  BY <1>1 DEF Asks, AskChannel, Ask, tables, wire, store, images, AskAdd, AskDelete,
     AskJoin, AskRemove, AskStickers, AskSpaces
<1>2. ASSUME NEW q \in Request, Handles(q) PROVE UNCHANGED members \/ WriteRow(q) \/ DeleteMember(q)
  BY <1>2 DEF Handles, NothingToWrite, tables, wire, store, images, history,
     SendEvent, FanoutFails, TellRemoval, Read, RequestLost
<1>3. ASSUME NEW q \in Request, Answers(q) PROVE UNCHANGED members
  BY <1>3 DEF Answers, SpaceCreated, tables, wire, images, history, SpacesListed,
     KeysLoaded, ChannelCreated, store, MembersListed, MemberRemoved, StickersListed,
     StickerAdded, StickerDeleted
<1>. QED
  BY <1>1, <1>2, <1>3 DEF Next, CreateSpace, tables, wire, images, history, SpaceMade,
     KeyUploaded, CreateFails, TakeEvent, SocketLost, store, SocketOpens, ShowSticker,
     FetchSticker, UrlMade, LoadFails

(* the list of stickers, *)
LEMMA ListBy ==
  ASSUME Next
  PROVE  \/ UNCHANGED list \/ TakeEvent
         \/ \E q \in Request : StickersListed(q) \/ StickerAdded(q) \/ StickerDeleted(q)
<1>1. ASSUME NEW q \in Request, Asks(q) PROVE UNCHANGED list
  BY <1>1 DEF Asks, AskChannel, Ask, tables, wire, store, images, AskAdd, AskDelete,
     AskJoin, AskRemove, AskStickers, AskSpaces
<1>2. ASSUME NEW q \in Request, Handles(q) PROVE UNCHANGED list
  BY <1>2 DEF Handles, WriteRow, wire, store, images, history, NothingToWrite, tables,
     SendEvent, FanoutFails, TellRemoval, DeleteMember, Read, RequestLost
<1>3. ASSUME NEW q \in Request, Answers(q)
      PROVE  UNCHANGED list \/ StickersListed(q) \/ StickerAdded(q) \/ StickerDeleted(q)
  BY <1>3 DEF Answers, SpaceCreated, tables, wire, images, history, SpacesListed,
     KeysLoaded, ChannelCreated, store, MembersListed, MemberRemoved
<1>. QED
  BY <1>1, <1>2, <1>3 DEF Next, CreateSpace, tables, wire, images, history, SpaceMade,
     KeyUploaded, CreateFails, SocketLost, store, SocketOpens, ShowSticker,
     FetchSticker, UrlMade, LoadFails

(* of channels, *)
LEMMA SpacesBy ==
  ASSUME Next
  PROVE  \/ UNCHANGED spaces \/ TakeEvent
         \/ \E q \in Request : SpacesListed(q)
<1>1. ASSUME NEW q \in Request, Asks(q) PROVE UNCHANGED spaces
  BY <1>1 DEF Asks, AskChannel, Ask, tables, wire, store, images, AskAdd, AskDelete,
     AskJoin, AskRemove, AskStickers, AskSpaces
<1>2. ASSUME NEW q \in Request, Handles(q) PROVE UNCHANGED spaces
  BY <1>2 DEF Handles, WriteRow, wire, store, images, history, NothingToWrite, tables,
     SendEvent, FanoutFails, TellRemoval, DeleteMember, Read, RequestLost
<1>3. ASSUME NEW q \in Request, Answers(q) PROVE UNCHANGED spaces \/ SpacesListed(q)
  BY <1>3 DEF Answers, SpaceCreated, tables, wire, images, history, KeysLoaded,
     ChannelCreated, store, MembersListed, MemberRemoved, StickersListed,
     StickerAdded, StickerDeleted
<1>. QED
  BY <1>1, <1>2, <1>3 DEF Next, CreateSpace, tables, wire, images, history, SpaceMade,
     KeyUploaded, CreateFails, SocketLost, store, SocketOpens, ShowSticker,
     FetchSticker, UrlMade, LoadFails

(* of members, *)
LEMMA PeopleBy ==
  ASSUME Next
  PROVE  \/ UNCHANGED people
         \/ \E q \in Request : MembersListed(q)
<1>1. ASSUME NEW q \in Request, Asks(q) PROVE UNCHANGED people
  BY <1>1 DEF Asks, AskChannel, Ask, tables, wire, store, images, AskAdd, AskDelete,
     AskJoin, AskRemove, AskStickers, AskSpaces
<1>2. ASSUME NEW q \in Request, Handles(q) PROVE UNCHANGED people
  BY <1>2 DEF Handles, WriteRow, wire, store, images, history, NothingToWrite, tables,
     SendEvent, FanoutFails, TellRemoval, DeleteMember, Read, RequestLost
<1>3. ASSUME NEW q \in Request, Answers(q) PROVE UNCHANGED people \/ MembersListed(q)
  BY <1>3 DEF Answers, SpaceCreated, tables, wire, images, history, SpacesListed,
     KeysLoaded, ChannelCreated, store, MemberRemoved, StickersListed, StickerAdded,
     StickerDeleted
<1>. QED
  BY <1>1, <1>2, <1>3 DEF Next, CreateSpace, tables, wire, images, history, SpaceMade,
     KeyUploaded, CreateFails, TakeEvent, SocketLost, store, SocketOpens, ShowSticker,
     FetchSticker, UrlMade, LoadFails

(* and the images. *)
LEMMA ImagesBy ==
  ASSUME Next
  PROVE  \/ UNCHANGED <<cached, loads>> \/ TakeEvent
         \/ \E q \in Request : StickerDeleted(q)
         \/ \E s \in Sticker : ShowSticker(s) \/ FetchSticker(s) \/ UrlMade(s) \/ LoadFails(s)
<1>1. ASSUME NEW q \in Request, Asks(q) PROVE UNCHANGED <<cached, loads>>
  BY <1>1 DEF Asks, AskChannel, Ask, tables, wire, store, images, AskAdd, AskDelete,
     AskJoin, AskRemove, AskStickers, AskSpaces
<1>2. ASSUME NEW q \in Request, Handles(q) PROVE UNCHANGED <<cached, loads>>
  BY <1>2 DEF Handles, WriteRow, wire, store, images, history, NothingToWrite, tables,
     SendEvent, FanoutFails, TellRemoval, DeleteMember, Read, RequestLost
<1>3. ASSUME NEW q \in Request, Answers(q) PROVE UNCHANGED <<cached, loads>> \/ StickerDeleted(q)
  BY <1>3 DEF Answers, SpaceCreated, tables, wire, images, history, SpacesListed,
     KeysLoaded, ChannelCreated, store, MembersListed, MemberRemoved, StickersListed,
     StickerAdded
<1>. QED
  BY <1>1, <1>2, <1>3 DEF Next, CreateSpace, tables, wire, images, history, SpaceMade,
     KeyUploaded, CreateFails, SocketLost, store, SocketOpens

(* How a request that is there came to be as it is. *)
LEMMA RequestBy ==
  ASSUME TypeOK, Next, NEW r \in Request, ask'[r] # Nothing
  PROVE  \/ ask'[r] = ask[r]
         \/ ask'[r].at = "sent" /\ ask'[r].kind \notin {"add", "delete"}
         \/ \E s \in Sticker, here \in BOOLEAN : AskAdd(r, s, here) \/ AskDelete(r, s, here)
         \/ WriteRow(r) \/ SendEvent(r) \/ TellRemoval(r) \/ DeleteMember(r) \/ Read(r)
<1> DEFINE New == ask'[r].at = "sent" /\ ask'[r].kind \notin {"add", "delete"}
<1>. HIDE DEF New
<1>1. ASSUME NEW q \in Request, SpaceCreated(q) PROVE New \/ ask'[r] = ask[r]
  BY <1>1, BecomesStep DEF SpaceCreated, Kind, OthersKept, New
<1>2. ASSUME NEW q \in Request, NEW c \in Channel, NEW here \in BOOLEAN, AskChannel(q, c, here)
      PROVE  New \/ ask'[r] = ask[r]
  BY <1>2, AskEffect DEF AskChannel, Kind, Item, OthersKept, New
<1>3. ASSUME NEW q \in Request, NEW s \in Sticker, NEW here \in BOOLEAN, AskAdd(q, s, here)
      PROVE  r = q \/ ask'[r] = ask[r]
  BY <1>3, AskEffect DEF AskAdd, Kind, Item, OthersKept
<1>4. ASSUME NEW q \in Request, NEW s \in Sticker, NEW here \in BOOLEAN, AskDelete(q, s, here)
      PROVE  r = q \/ ask'[r] = ask[r]
  BY <1>4, AskEffect DEF AskDelete, Kind, Item, OthersKept
<1>5. ASSUME NEW q \in Request, NEW u \in User, AskJoin(q, u) PROVE New \/ ask'[r] = ask[r]
  BY <1>5, AskJoinEffect DEF AskJoin, OthersKept, New
<1>6. ASSUME NEW q \in Request, NEW u \in User, NEW here \in BOOLEAN, AskRemove(q, u, here)
      PROVE  New \/ ask'[r] = ask[r]
  BY <1>6, AskEffect DEF AskRemove, Kind, Item, OthersKept, New
<1>7. ASSUME NEW q \in Request, AskStickers(q) PROVE New \/ ask'[r] = ask[r]
  BY <1>7, AskStickersEffect DEF AskStickers, OthersKept, New
<1>8. ASSUME NEW q \in Request, AskSpaces(q) PROVE New \/ ask'[r] = ask[r]
  BY <1>8, AskSpacesEffect DEF AskSpaces, OthersKept, New
<1>9. ASSUME NEW q \in Request, WriteRow(q) PROVE r = q \/ ask'[r] = ask[r]
  BY <1>9, AtStep DEF WriteRow, InsertRow, Takes, Stages, OthersKept
<1>10. ASSUME NEW q \in Request, NothingToWrite(q) PROVE ask'[r] = ask[r]
  BY <1>10, EndsStep DEF NothingToWrite, Takes, OthersKept
<1>11. ASSUME NEW q \in Request, SendEvent(q) PROVE r = q \/ ask'[r] = ask[r]
  BY <1>11, AnswerStep DEF SendEvent, Readings, OthersKept
<1>12. ASSUME NEW q \in Request, TellRemoval(q) PROVE r = q \/ ask'[r] = ask[r]
  BY <1>12, AtStep DEF TellRemoval, Takes, Stages, OthersKept
<1>13. ASSUME NEW q \in Request, DeleteMember(q) PROVE r = q \/ ask'[r] = ask[r]
  BY <1>13, AnswerStep DEF DeleteMember, Takes, Readings, OthersKept
<1>14. ASSUME NEW q \in Request, Read(q) PROVE r = q \/ ask'[r] = ask[r]
  BY <1>14, ReadEffect DEF Read, OthersKept
<1>15. ASSUME NEW q \in Request, RequestLost(q) PROVE ask'[r] = ask[r]
  BY <1>15, EndsStep DEF RequestLost, OthersKept
<1>29. ASSUME NEW q \in Request, FanoutFails(q) PROVE ask'[r] = ask[r]
  BY <1>29, EndsStep DEF FanoutFails, OthersKept
<1>16. ASSUME NEW q \in Request, SpacesListed(q) PROVE New \/ ask'[r] = ask[r]
  BY <1>16, SpacesListedEffect DEF SpacesListed, OthersKept, New
<1>17. ASSUME NEW q \in Request, KeysLoaded(q) PROVE ask'[r] = ask[r]
  BY <1>17, EndsStep DEF KeysLoaded, Takes, OthersKept
<1>18. ASSUME NEW q \in Request, MembersListed(q) PROVE ask'[r] = ask[r]
  BY <1>18, EndsStep DEF MembersListed, Takes, OthersKept
<1>19. ASSUME NEW q \in Request, MemberRemoved(q) PROVE New \/ ask'[r] = ask[r]
  BY <1>19, BecomesStep DEF MemberRemoved, Kind, Takes, OthersKept, New
<1>20. ASSUME NEW q \in Request, ChannelCreated(q) PROVE New \/ ask'[r] = ask[r]
  BY <1>20, BecomesStep DEF ChannelCreated, Kind, Takes, OthersKept, New
<1>21. ASSUME NEW q \in Request, StickersListed(q) PROVE ask'[r] = ask[r]
  BY <1>21, EndsStep DEF StickersListed, Takes, OthersKept
<1>22. ASSUME NEW q \in Request, StickerAdded(q) PROVE ask'[r] = ask[r]
  BY <1>22, EndsStep DEF StickerAdded, Takes, OthersKept
<1>23. ASSUME NEW q \in Request, StickerDeleted(q) PROVE ask'[r] = ask[r]
  BY <1>23, EndsStep DEF StickerDeleted, Takes, OthersKept
<1>24. ASSUME TakeEvent PROVE New \/ ask'[r] = ask[r]
  <2>1. CASE UNCHANGED ask
    BY <2>1
  <2>2. CASE OnMemberChange
    BY <2>2, BecomesStep DEF OnMemberChange, Kind, OthersKept, New
  <2>. QED
    BY <1>24, <2>1, <2>2 DEF TakeEvent, OnChannelCreated, OnStickerAdded, OnStickerRemoved
<1>25. ASSUME NEW q \in Request, Asks(q)
      PROVE  New \/ ask'[r] = ask[r]
             \/ \E s \in Sticker, here \in BOOLEAN : AskAdd(r, s, here) \/ AskDelete(r, s, here)
  BY <1>25, <1>2, <1>3, <1>4, <1>5, <1>6, <1>7, <1>8 DEF Asks
<1>26. ASSUME NEW q \in Request, Handles(q)
      PROVE  ask'[r] = ask[r] \/ WriteRow(r) \/ SendEvent(r) \/ TellRemoval(r) \/ DeleteMember(r) \/ Read(r)
  BY <1>26, <1>9, <1>10, <1>11, <1>12, <1>13, <1>14, <1>15, <1>29 DEF Handles
<1>27. ASSUME NEW q \in Request, Answers(q)
      PROVE  New \/ ask'[r] = ask[r]
  BY <1>27, <1>1, <1>16, <1>17, <1>18, <1>19, <1>20, <1>21, <1>22, <1>23 DEF Answers
<1>28. UNCHANGED ask \/ TakeEvent \/ \E q \in Request : Asks(q) \/ Handles(q) \/ Answers(q)
  BY DEF Next, CreateSpace, tables, wire, images, history, SpaceMade, KeyUploaded,
     CreateFails, SocketLost, store, SocketOpens, ShowSticker, FetchSticker, UrlMade,
     LoadFails
<1>. QED
  BY <1>24, <1>25, <1>26, <1>27, <1>28 DEF New

(* Ids are drawn, never given back. *)
LEMMA FreshShrinks ==
  ASSUME Next
  PROVE  fresh' \subseteq fresh
<1>1. ASSUME NEW q \in Request, Asks(q) PROVE fresh' \subseteq fresh
  BY <1>1 DEF Asks, AskChannel, Ask, tables, wire, store, images, AskAdd, AskDelete,
     AskJoin, AskRemove, AskStickers, AskSpaces
<1>2. ASSUME NEW q \in Request, Handles(q) PROVE fresh' \subseteq fresh
  BY <1>2 DEF Handles, WriteRow, wire, store, images, history, NothingToWrite, tables,
     SendEvent, FanoutFails, TellRemoval, DeleteMember, Read, RequestLost
<1>3. ASSUME NEW q \in Request, Answers(q) PROVE fresh' \subseteq fresh
  BY <1>3 DEF Answers, SpaceCreated, tables, wire, images, history, SpacesListed,
     KeysLoaded, ChannelCreated, store, MembersListed, MemberRemoved, StickersListed,
     StickerAdded, StickerDeleted
<1>. QED
  BY <1>1, <1>2, <1>3 DEF Next, CreateSpace, tables, wire, images, history, SpaceMade,
     KeyUploaded, CreateFails, TakeEvent, SocketLost, store, SocketOpens, ShowSticker,
     FetchSticker, UrlMade, LoadFails

(* A request that adds was sent for an id just drawn. *)
LEMMA AddBy ==
  ASSUME TypeOK, RequestsFit, Next, NEW r \in Request, ask'[r] # Nothing, ask'[r].kind = "add"
  PROVE  \/ /\ ask[r] # Nothing /\ ask[r].kind = "add" /\ ask'[r].item = ask[r].item
            /\ ask'[r].at = "sent" => ask[r].at = "sent"
         \/ \E s \in Sticker : /\ s \in fresh /\ fresh' = fresh \ {s} /\ ask'[r].item = s
                              /\ ask'[r].at = "sent" /\ OthersKept(r)
<1>1. ASSUME NEW s \in Sticker, NEW here \in BOOLEAN, AskAdd(r, s, here)
      PROVE  s \in fresh /\ fresh' = fresh \ {s} /\ ask'[r].item = s /\ ask'[r].at = "sent" /\ OthersKept(r)
  BY <1>1, AskEffect DEF AskAdd, Kind, Item
<1>2. ASSUME NEW s \in Sticker, NEW here \in BOOLEAN, AskDelete(r, s, here) PROVE FALSE
  BY <1>2, AskEffect DEF AskDelete, Kind, Item
<1>3. ASSUME WriteRow(r)
      PROVE  ask[r] # Nothing /\ ask[r].kind = "add" /\ ask'[r].item = ask[r].item
             /\ ask'[r].at # "sent"
  BY <1>3, AtStep DEF WriteRow, InsertRow, Takes, Stages
<1>4. ASSUME SendEvent(r)
      PROVE  ask[r] # Nothing /\ ask[r].kind = "add" /\ ask'[r].item = ask[r].item
             /\ ask'[r].at # "sent"
  BY <1>4, AnswerStep DEF SendEvent, Readings
<1>5. ASSUME TellRemoval(r) \/ DeleteMember(r) \/ Read(r) PROVE FALSE
  <2>1. ~ TellRemoval(r)
    BY AtStep DEF TellRemoval, Takes, Stages
  <2>2. ~ DeleteMember(r)
    BY AnswerStep DEF DeleteMember, Takes, Readings
  <2>. QED
    BY <1>5, <2>1, <2>2, ReadEffect
<1>. QED
  BY <1>1, <1>2, <1>3, <1>4, <1>5, RequestBy

(* A sticker is added by one request. *)
LEMMA AddsStep ==
  ASSUME TypeOK, RequestsFit, AddsDiffer, Next
  PROVE  AddsDiffer'
<1>1. ASSUME NEW q \in Request, ask'[q] # Nothing, ask'[q].kind = "add"
      PROVE  ask'[q].item \notin fresh'
  BY <1>1, AddBy, FreshShrinks DEF AddsDiffer
<1>2. ASSUME NEW q \in Request, NEW r \in Request, ask'[q] # Nothing, ask'[r] # Nothing,
             ask'[q].kind = "add", ask'[r].kind = "add", ask'[q].item = ask'[r].item, q # r
      PROVE  FALSE
  BY <1>2, AddBy DEF AddsDiffer, OthersKept
<1>. QED
  BY <1>1, <1>2 DEF AddsDiffer

-----------------------------------------------------------------------------
(* The steps and the types. *)

(* Every action keeps the types. *)
LEMMA TypeStep ==
  ASSUME TypeOK, RequestsFit, UrlsAreHeld, Next
  PROVE  TypeOK'
<1> DEFINE AskOK == ask' \in [Request -> {Nothing} \cup Asking]
           SlipsOK == slips' \in [Item -> SUBSET Slip]
<1>1. ASSUME CreateSpace PROVE TypeOK'
  BY <1>1, BoundsAreNat, GeneralIsChannel DEF TypeOK, CreateSpace, tables, wire,
     images, history
<1>2. ASSUME SpaceMade PROVE TypeOK'
  BY <1>2, BoundsAreNat, GeneralIsChannel DEF TypeOK, SpaceMade, wire, images, history
<1>3. ASSUME KeyUploaded PROVE TypeOK'
  BY <1>3, BoundsAreNat, GeneralIsChannel DEF TypeOK, KeyUploaded, wire, images,
     history
<1>4. ASSUME CreateFails PROVE TypeOK'
  BY <1>4, BoundsAreNat, GeneralIsChannel DEF TypeOK, CreateFails, tables, wire,
     images
<1>5. ASSUME NEW q \in Request, SpaceCreated(q) PROVE TypeOK'
  <2>1. AskOK
    BY <1>5, BecomesStep DEF SpaceCreated, Kind
  <2>. QED
    BY <1>5, <2>1, BoundsAreNat DEF SpaceCreated, tables, wire, images, history,
       TypeOK
<1>6. ASSUME NEW q \in Request, NEW c \in Channel, NEW here \in BOOLEAN, AskChannel(q, c, here)
      PROVE  TypeOK'
  <2>1. AskOK
    BY <1>6, AskedStep DEF AskChannel, Ask, Kind, Item
  <2>. QED
    BY <1>6, <2>1, BoundsAreNat DEF AskChannel, Ask, Used, tables, wire, store,
       images, TypeOK
<1>7. ASSUME NEW q \in Request, NEW s \in Sticker, NEW here \in BOOLEAN, AskAdd(q, s, here)
      PROVE  TypeOK'
  <2>1. AskOK
    BY <1>7, AskedStep DEF AskAdd, Ask, Kind, Item
  <2>. QED
    BY <1>7, <2>1, BoundsAreNat DEF AskAdd, Ask, Used, tables, wire, store, images,
       TypeOK
<1>8. ASSUME NEW q \in Request, NEW s \in Sticker, NEW here \in BOOLEAN, AskDelete(q, s, here)
      PROVE  TypeOK'
  <2>1. AskOK
    BY <1>8, AskedStep DEF AskDelete, Ask, Kind, Item
  <2>. QED
    BY <1>8, <2>1, BoundsAreNat DEF AskDelete, Ask, Used, tables, wire, store, images,
       TypeOK
<1>9. ASSUME NEW q \in Request, NEW u \in User, AskJoin(q, u) PROVE TypeOK'
  <2>1. Asked("join", u, FALSE) \in Asking
    BY AskedFits DEF Kind, Item
  <2>2. ask' = [ask EXCEPT ![q] = Asked("join", u, FALSE)]
    BY <1>9 DEF AskJoin, Ask
  <2>3. AskOK
    BY <2>1, <2>2, AskStep
  <2>4. Used /\ UNCHANGED <<fresh, tables, wire, store, losses, cut, slips>>
    BY <1>9, Zenon DEF AskJoin, Ask
  <2>. QED
    BY <2>3, <2>4, BoundsAreNat DEF Used, TypeOK, tables, wire, store, images
<1>10. ASSUME NEW q \in Request, NEW u \in User, NEW here \in BOOLEAN, AskRemove(q, u, here)
       PROVE  TypeOK'
  <2>1. AskOK
    BY <1>10, AskedStep DEF AskRemove, Ask, Kind, Item
  <2>. QED
    BY <1>10, <2>1, BoundsAreNat DEF AskRemove, Ask, Used, tables, wire, store,
       images, TypeOK
<1>11. ASSUME NEW q \in Request, AskStickers(q) PROVE TypeOK'
  <2>1. Asked("stickers", General, TRUE) \in Asking
    BY AskedFits, GeneralIsChannel DEF Kind, Item
  <2>2. ask' = [ask EXCEPT ![q] = Asked("stickers", General, TRUE)]
    BY <1>11 DEF AskStickers, Ask
  <2>3. AskOK
    BY <2>1, <2>2, AskStep
  <2>4. Used /\ UNCHANGED <<fresh, tables, wire, store, losses, cut, slips>>
    BY <1>11, Zenon DEF AskStickers, Ask
  <2>. QED
    BY <2>3, <2>4, BoundsAreNat DEF Used, TypeOK, tables, wire, store, images
<1>12. ASSUME NEW q \in Request, AskSpaces(q) PROVE TypeOK'
  <2>1. Asked("refresh", General, TRUE) \in Asking
    BY AskedFits, GeneralIsChannel DEF Kind, Item
  <2>2. ask' = [ask EXCEPT ![q] = Asked("refresh", General, TRUE)]
    BY <1>12 DEF AskSpaces, Ask
  <2>3. AskOK
    BY <2>1, <2>2, AskStep
  <2>4. Used /\ UNCHANGED <<fresh, tables, wire, store, losses, cut, slips>>
    BY <1>12, Zenon DEF AskSpaces, Ask
  <2>. QED
    BY <2>3, <2>4, BoundsAreNat DEF Used, TypeOK, tables, wire, store, images
<1>13. ASSUME NEW q \in Request, WriteRow(q) PROVE TypeOK'
  <2>1. AskOK
    BY <1>13, AtStep DEF WriteRow, InsertRow, Takes, Stages
  <2>2. channels' \subseteq Channel /\ members' \subseteq User /\ stickers' \subseteq Sticker
    BY <1>13 DEF WriteRow, InsertRow, Takes, RequestsFit, Fits, TypeOK
  <2>. QED
    BY <1>13, <2>1, <2>2 DEF WriteRow, TypeOK, wire, store, images, history
<1>14. ASSUME NEW q \in Request, NothingToWrite(q) PROVE TypeOK'
  <2>1. AskOK
    BY <1>14, EndsStep DEF NothingToWrite
  <2>. QED
    BY <1>14, <2>1, BoundsAreNat DEF NothingToWrite, tables, wire, store, images,
       history, TypeOK
<1>15. ASSUME NEW q \in Request, SendEvent(q) PROVE TypeOK'
  <2>1. AskOK
    BY <1>15, AnswerStep DEF SendEvent, Readings
  <2>2. SlipsOK
    <3>1. {s \in {"missed"} : ~ open}
            \cup {s \in {"overtaken"} : ask[q].kind = "add" /\ ask[q].item \notin stickers} \in SUBSET Slip
      BY DEF Slip
    <3>. QED
      BY <1>15, <3>1, SlippedStep, RequestFields DEF SendEvent
  <2>3. <<EventOf(ask[q].kind), ask[q].item>> \in Event
    BY <1>15 DEF SendEvent, RequestsFit, Fits, EventOf, Event
  <2>4. events' \in Seq(Event)
    BY <1>15, <2>3 DEF SendEvent, Fanout, TypeOK
  <2>. QED
    BY <1>15, <2>1, <2>2, <2>4 DEF SendEvent, TypeOK, tables, store, images
<1>16. ASSUME NEW q \in Request, TellRemoval(q) PROVE TypeOK'
  <2>1. AskOK
    BY <1>16, AtStep DEF TellRemoval, Takes, Stages
  <2>2. SlipsOK
    <3>1. {s \in {"missed"} : ~ open} \in SUBSET Slip
      BY DEF Slip
    <3>. QED
      BY <1>16, <3>1, SlippedStep, RequestFields DEF TellRemoval, Takes
  <2>3. <<"member_removed", ask[q].item>> \in Event
    BY <1>16 DEF TellRemoval, Takes, RequestsFit, Fits, Event
  <2>4. events' \in Seq(Event)
    BY <1>16, <2>3 DEF TellRemoval, Fanout, TypeOK
  <2>. QED
    BY <1>16, <2>1, <2>2, <2>4 DEF TellRemoval, TypeOK, tables, store, images
<1>17. ASSUME NEW q \in Request, DeleteMember(q) PROVE TypeOK'
  <2>1. AskOK
    BY <1>17, AnswerStep DEF DeleteMember, Takes, Readings
  <2>2. SlipsOK
    <3>1. {s \in {"early"} : ~ ask[q].here /\ ~ Ahead(ask[q].item)} \in SUBSET Slip
      BY DEF Slip
    <3>. QED
      BY <1>17, <3>1, SlippedStep, RequestFields DEF DeleteMember, Takes
  <2>. QED
    BY <1>17, <2>1, <2>2 DEF DeleteMember, TypeOK, wire, store, images
<1>18. ASSUME NEW q \in Request, Read(q) PROVE TypeOK'
  <2>1. ask[q] # Nothing
    BY <1>18 DEF Read, Takes
  <2>2. /\ Rows(channels, Channel) \in Readings /\ Rows({x \in {"key"} : wrapped},
              {"key"}) \in Readings
        /\ Rows(members, User) \in Readings /\ Rows(stickers, Sticker) \in Readings
    BY DEF Rows, Lists, Readings
  <2>3. AskOK
    BY <1>18, <2>1, <2>2, AnswerStep DEF Read
  <2>. QED
    BY <1>18, <2>3 DEF Read, TypeOK, tables, wire, store, images, history
<1>19. ASSUME NEW q \in Request, RequestLost(q) PROVE TypeOK'
  <2>1. AskOK
    BY <1>19, EndsStep DEF RequestLost
  <2>2. SlipsOK
    BY <1>19 DEF RequestLost, TypeOK, Slip
  <2>. QED
    BY <1>19, <2>1, <2>2 DEF RequestLost, TypeOK, tables, wire, store, images
<1>20. ASSUME NEW q \in Request, SpacesListed(q) PROVE TypeOK'
  <2>1. ask[q].got \in [Channel -> 0 .. 1]
    BY <1>20 DEF SpacesListed, Takes, RequestsFit, Fits
  <2>2. AskOK
    <3>1. PICK r \in Request :
            ask' = [ask EXCEPT ![q] = Asked("keys", General, TRUE), ![r] = Refreshing]
      BY <1>20 DEF SpacesListed
    <3>2. General \in Item /\ TRUE \in BOOLEAN
      BY GeneralIsChannel DEF Item
    <3>3. Asked("keys", General, TRUE) \in Asking /\ Refreshing \in Asking
      BY <3>2, AskedFits DEF Refreshing, Kind
    <3>. QED
      BY <3>1, <3>3 DEF TypeOK
  <2>3. SlipsOK
    BY <1>20 DEF SpacesListed, Outdated, TypeOK, Slip
  <2>4. spaces' \in Lists(Channel)
    BY <1>20, <2>1 DEF SpacesListed, Lists
  <2>. QED
    BY <1>20, <2>2, <2>3, <2>4 DEF SpacesListed, TypeOK, tables, wire, images
<1>21. ASSUME NEW q \in Request, KeysLoaded(q) PROVE TypeOK'
  <2>1. AskOK
    BY <1>21, EndsStep DEF KeysLoaded
  <2>. QED
    BY <1>21, <2>1, BoundsAreNat DEF KeysLoaded, tables, wire, images, history, TypeOK
<1>22. ASSUME NEW q \in Request, MembersListed(q) PROVE TypeOK'
  <2>1. AskOK
    BY <1>22, EndsStep DEF MembersListed
  <2>2. SlipsOK
    BY <1>22 DEF MembersListed, TypeOK, Slip
  <2>3. people' \in Lists(User)
    BY <1>22 DEF MembersListed, Takes, RequestsFit, Fits, Lists
  <2>. QED
    BY <1>22, <2>1, <2>2, <2>3 DEF MembersListed, TypeOK, tables, wire, images
<1>23. ASSUME NEW q \in Request, MemberRemoved(q) PROVE TypeOK'
  <2>1. AskOK
    BY <1>23, BecomesStep DEF MemberRemoved, Kind
  <2>. QED
    BY <1>23, <2>1, BoundsAreNat DEF MemberRemoved, tables, wire, store, images,
       history, TypeOK
<1>24. ASSUME NEW q \in Request, ChannelCreated(q) PROVE TypeOK'
  <2>1. AskOK
    BY <1>24, BecomesStep DEF ChannelCreated, Kind
  <2>. QED
    BY <1>24, <2>1, BoundsAreNat DEF ChannelCreated, tables, wire, store, images,
       history, TypeOK
<1>25. ASSUME NEW q \in Request, StickersListed(q) PROVE TypeOK'
  <2>1. AskOK
    BY <1>25, EndsStep DEF StickersListed
  <2>2. SlipsOK
    BY <1>25 DEF StickersListed, Outdated, TypeOK, Slip
  <2>3. list' \in Lists(Sticker)
    BY <1>25 DEF StickersListed, Takes, RequestsFit, Fits, Lists
  <2>. QED
    BY <1>25, <2>1, <2>2, <2>3 DEF StickersListed, TypeOK, tables, wire, images
<1>26. ASSUME NEW q \in Request, StickerAdded(q) PROVE TypeOK'
  <2>1. AskOK
    BY <1>26, EndsStep DEF StickerAdded
  <2>2. SlipsOK
    BY <1>26 DEF StickerAdded, TypeOK, Slip
  <2>3. ask[q].item \in Sticker
    BY <1>26 DEF StickerAdded, Takes, RequestsFit, Fits
  <2>4. list' \in {None} \cup Lists(Sticker)
    BY <1>26, <2>3 DEF StickerAdded, Added, Has, Rows, Lists, TypeOK
  <2>. QED
    BY <1>26, <2>1, <2>2, <2>4 DEF StickerAdded, TypeOK, tables, wire, images
<1>27. ASSUME NEW q \in Request, StickerDeleted(q) PROVE TypeOK'
  <2>1. AskOK
    BY <1>27, EndsStep DEF StickerDeleted
  <2>2. ask[q].item \in Sticker
    BY <1>27 DEF StickerDeleted, Takes, RequestsFit, Fits
  <2>3. SlipsOK
    BY <1>27, <2>2, SlippedStep DEF StickerDeleted, LateLoad, Slip, Item
  <2>4. list' \in {None} \cup Lists(Sticker)
    BY <1>27, <2>2 DEF StickerDeleted, Dropped, Lists, TypeOK
  <2>5. cached' \subseteq Sticker /\ live' \in [Sticker -> Nat]
    BY <1>27, <2>2 DEF StickerDeleted, Revoke, TypeOK, UrlsAreHeld
  <2>. QED
    BY <1>27, <2>1, <2>3, <2>4, <2>5 DEF StickerDeleted, TypeOK, tables, wire
<1>28. ASSUME TakeEvent PROVE TypeOK'
  <2> DEFINE type == Head(events)[1]
             i == Head(events)[2]
  <2>1. Head(events) \in Event /\ events' \in Seq(Event)
    BY <1>28 DEF TakeEvent, TypeOK
  <2>2. CASE type = "channel_created" /\ OnChannelCreated(i)
    <3>1. i \in Channel
      BY <2>1, <2>2 DEF Event
    <3>2. spaces' \in {None} \cup Lists(Channel)
      BY <2>2, <3>1 DEF OnChannelCreated, Added, Has, Lists, TypeOK
    <3>. QED
      BY <1>28, <2>1, <2>2, <3>2 DEF TakeEvent, OnChannelCreated, TypeOK, tables, images
  <2>3. CASE type \in {"member_joined", "member_removed"} /\ OnMemberChange
    <3>1. AskOK
      BY <2>3, BecomesStep DEF OnMemberChange, Kind
    <3>. QED
      BY <1>28, <2>1, <2>3, <3>1 DEF TakeEvent, OnMemberChange, TypeOK, tables, images
  <2>4. CASE type = "sticker_added" /\ OnStickerAdded(i)
    <3>1. i \in Sticker
      BY <2>1, <2>4 DEF Event
    <3>2. list' \in {None} \cup Lists(Sticker)
      BY <2>4, <3>1 DEF OnStickerAdded, Added, Has, Lists, TypeOK
    <3>. QED
      BY <1>28, <2>1, <2>4, <3>2 DEF TakeEvent, OnStickerAdded, TypeOK, tables, images
  <2>5. CASE type = "sticker_removed" /\ OnStickerRemoved(i)
    <3>1. i \in Sticker
      BY <2>1, <2>5 DEF Event
    <3>2. list' \in {None} \cup Lists(Sticker)
      BY <2>5, <3>1 DEF OnStickerRemoved, Dropped, Lists, TypeOK
    <3>3. SlipsOK
      BY <2>5, <3>1, SlippedStep DEF OnStickerRemoved, LateLoad, Slip, Item
    <3>4. cached' \subseteq Sticker /\ live' \in [Sticker -> Nat]
      BY <2>5, <3>1 DEF OnStickerRemoved, Revoke, TypeOK, UrlsAreHeld
    <3>. QED
      BY <1>28, <2>1, <2>5, <3>2, <3>3, <3>4 DEF TakeEvent, OnStickerRemoved, TypeOK, tables
  <2>. QED
    BY <1>28, <2>2, <2>3, <2>4, <2>5 DEF TakeEvent
<1>29. ASSUME SocketLost PROVE TypeOK'
  <2>1. SlipsOK
    BY <1>29 DEF SocketLost, TypeOK, Slip
  <2>2. events' \in Seq(Event)
    <3>1. <<>> \in Seq(Event)
      OBVIOUS
    <3>. QED
      BY <1>29, <3>1 DEF SocketLost
  <2>3. losses' \in 0 .. MaxLosses
    BY <1>29, BoundsAreNat DEF SocketLost, TypeOK
  <2>4. open' \in BOOLEAN
    BY <1>29 DEF SocketLost
  <2>. QED
    BY <1>29, <2>1, <2>2, <2>3, <2>4 DEF SocketLost, TypeOK, tables, store, images
<1>30. ASSUME SocketOpens PROVE TypeOK'
  BY <1>30, BoundsAreNat, GeneralIsChannel DEF TypeOK, SocketOpens, tables, store,
     images, history
<1>31. ASSUME NEW s \in Sticker, ShowSticker(s) PROVE TypeOK'
  BY <1>31, BoundsAreNat, GeneralIsChannel DEF TypeOK, ShowSticker, Used, tables, wire
<1>32. ASSUME NEW s \in Sticker, FetchSticker(s) PROVE TypeOK'
  BY <1>32, BoundsAreNat, GeneralIsChannel DEF TypeOK, FetchSticker, tables, wire,
     history
<1>33. ASSUME NEW s \in Sticker, UrlMade(s) PROVE TypeOK'
  BY <1>33, BoundsAreNat, GeneralIsChannel DEF TypeOK, UrlMade, tables, wire, history
<1>34. ASSUME NEW s \in Sticker, LoadFails(s) PROVE TypeOK'
  BY <1>34, BoundsAreNat, GeneralIsChannel DEF TypeOK, LoadFails, tables, wire,
     history
<1>35. ASSUME NEW q \in Request, FanoutFails(q) PROVE TypeOK'
  <2>1. AskOK
    BY <1>35, EndsStep DEF FanoutFails
  <2>. QED
    BY <1>35, <2>1, FanoutFailsEffect DEF TypeOK, tables, wire, store, images
<1>. QED
  BY <1>1, <1>2, <1>3, <1>4, <1>5, <1>6, <1>7, <1>8, <1>9, <1>10, <1>11, <1>12, <1>13, <1>14,
              <1>15, <1>16, <1>17, <1>18, <1>19, <1>20, <1>21, <1>22, <1>23, <1>24, <1>25, <1>26,
                          <1>27, <1>28, <1>29, <1>30, <1>31, <1>32, <1>33, <1>34, <1>35 DEF Next, Asks,
                                      Handles, Answers

(* A step that leaves one request fitting leaves all so. *)
LEMMA FitsKept ==
  ASSUME TypeOK, RequestsFit, NEW q \in Request, OthersKept(q), ask'[q] = Nothing \/ Fits(ask'[q])
  PROVE  RequestsFit'
  BY DEF RequestsFit, OthersKept

(* Requests name what their kind is about, and answers are as they were read. *)
LEMMA RequestsStep ==
  ASSUME TypeOK, RequestsFit, Next
  PROVE  RequestsFit'
<1>1. ASSUME NEW q \in Request, SpaceCreated(q) PROVE RequestsFit'
  <2>1. OthersKept(q) /\ (ask'[q] = Nothing \/ Fits(ask'[q]))
    BY <1>1, BecomesStep DEF SpaceCreated, Kind, Fits
  <2>. QED
    BY <2>1, FitsKept
<1>2. ASSUME NEW q \in Request, NEW c \in Channel, NEW here \in BOOLEAN, AskChannel(q, c, here)
      PROVE  RequestsFit'
  <2>1. OthersKept(q) /\ (ask'[q] = Nothing \/ Fits(ask'[q]))
    BY <1>2, AskEffect DEF AskChannel, Kind, Item, Fits
  <2>. QED
    BY <2>1, FitsKept
<1>3. ASSUME NEW q \in Request, NEW s \in Sticker, NEW here \in BOOLEAN, AskAdd(q, s, here)
      PROVE  RequestsFit'
  <2>1. OthersKept(q) /\ (ask'[q] = Nothing \/ Fits(ask'[q]))
    BY <1>3, AskEffect DEF AskAdd, Kind, Item, Fits
  <2>. QED
    BY <2>1, FitsKept
<1>4. ASSUME NEW q \in Request, NEW s \in Sticker, NEW here \in BOOLEAN, AskDelete(q, s, here)
      PROVE  RequestsFit'
  <2>1. OthersKept(q) /\ (ask'[q] = Nothing \/ Fits(ask'[q]))
    BY <1>4, AskEffect DEF AskDelete, Kind, Item, Fits
  <2>. QED
    BY <2>1, FitsKept
<1>5. ASSUME NEW q \in Request, NEW u \in User, AskJoin(q, u) PROVE RequestsFit'
  <2>1. OthersKept(q) /\ (ask'[q] = Nothing \/ Fits(ask'[q]))
    BY <1>5, AskJoinEffect DEF AskJoin, Fits
  <2>. QED
    BY <2>1, FitsKept
<1>6. ASSUME NEW q \in Request, NEW u \in User, NEW here \in BOOLEAN, AskRemove(q, u, here)
      PROVE  RequestsFit'
  <2>1. OthersKept(q) /\ (ask'[q] = Nothing \/ Fits(ask'[q]))
    BY <1>6, AskEffect DEF AskRemove, Kind, Item, Fits
  <2>. QED
    BY <2>1, FitsKept
<1>7. ASSUME NEW q \in Request, AskStickers(q) PROVE RequestsFit'
  <2>1. OthersKept(q) /\ (ask'[q] = Nothing \/ Fits(ask'[q]))
    BY <1>7, AskStickersEffect DEF AskStickers, Fits
  <2>. QED
    BY <2>1, FitsKept
<1>8. ASSUME NEW q \in Request, AskSpaces(q) PROVE RequestsFit'
  <2>1. OthersKept(q) /\ (ask'[q] = Nothing \/ Fits(ask'[q]))
    BY <1>8, AskSpacesEffect DEF AskSpaces, Fits
  <2>. QED
    BY <2>1, FitsKept
<1>9. ASSUME NEW q \in Request, WriteRow(q) PROVE RequestsFit'
  <2>1. OthersKept(q) /\ (ask'[q] = Nothing \/ Fits(ask'[q]))
    BY <1>9, AtStep DEF WriteRow, InsertRow, Takes, Stages, Fits, RequestsFit
  <2>. QED
    BY <2>1, FitsKept
<1>10. ASSUME NEW q \in Request, NothingToWrite(q) PROVE RequestsFit'
  <2>1. OthersKept(q) /\ (ask'[q] = Nothing \/ Fits(ask'[q]))
    BY <1>10, EndsStep DEF NothingToWrite, Takes, Fits
  <2>. QED
    BY <2>1, FitsKept
<1>11. ASSUME NEW q \in Request, SendEvent(q) PROVE RequestsFit'
  <2>1. OthersKept(q) /\ (ask'[q] = Nothing \/ Fits(ask'[q]))
    BY <1>11, AnswerStep DEF SendEvent, Readings, Fits, RequestsFit
  <2>. QED
    BY <2>1, FitsKept
<1>12. ASSUME NEW q \in Request, TellRemoval(q) PROVE RequestsFit'
  <2>1. OthersKept(q) /\ (ask'[q] = Nothing \/ Fits(ask'[q]))
    BY <1>12, AtStep DEF TellRemoval, Takes, Stages, Fits, RequestsFit
  <2>. QED
    BY <2>1, FitsKept
<1>13. ASSUME NEW q \in Request, DeleteMember(q) PROVE RequestsFit'
  <2>1. OthersKept(q) /\ (ask'[q] = Nothing \/ Fits(ask'[q]))
    BY <1>13, AnswerStep DEF DeleteMember, Takes, Readings, Fits, RequestsFit
  <2>. QED
    BY <2>1, FitsKept
<1>14. ASSUME NEW q \in Request, Read(q) PROVE RequestsFit'
  <2>1. OthersKept(q) /\ (ask'[q] = Nothing \/ Fits(ask'[q]))
    BY <1>14, ReadEffect DEF Read, Fits, Rows
  <2>. QED
    BY <2>1, FitsKept
<1>15. ASSUME NEW q \in Request, RequestLost(q) PROVE RequestsFit'
  <2>1. OthersKept(q) /\ (ask'[q] = Nothing \/ Fits(ask'[q]))
    BY <1>15, EndsStep DEF RequestLost, Fits
  <2>. QED
    BY <2>1, FitsKept
<1>30. ASSUME NEW q \in Request, FanoutFails(q) PROVE RequestsFit'
  BY <1>30, FanoutFailsEffect, FitsKept
<1>16. ASSUME NEW q \in Request, SpacesListed(q) PROVE RequestsFit'
  <2>1. PICK r \in Request :
           /\ Fits(ask'[q]) /\ Fits(ask'[r])
           /\ \A p \in Request \ {q, r} : ask'[p] = ask[p]
    BY <1>16, SpacesListedEffect DEF Fits
  <2>. QED
    BY <2>1 DEF RequestsFit
<1>17. ASSUME NEW q \in Request, KeysLoaded(q) PROVE RequestsFit'
  <2>1. OthersKept(q) /\ (ask'[q] = Nothing \/ Fits(ask'[q]))
    BY <1>17, EndsStep DEF KeysLoaded, Takes, Fits
  <2>. QED
    BY <2>1, FitsKept
<1>18. ASSUME NEW q \in Request, MembersListed(q) PROVE RequestsFit'
  <2>1. OthersKept(q) /\ (ask'[q] = Nothing \/ Fits(ask'[q]))
    BY <1>18, EndsStep DEF MembersListed, Takes, Fits
  <2>. QED
    BY <2>1, FitsKept
<1>19. ASSUME NEW q \in Request, MemberRemoved(q) PROVE RequestsFit'
  <2>1. OthersKept(q) /\ (ask'[q] = Nothing \/ Fits(ask'[q]))
    BY <1>19, BecomesStep DEF MemberRemoved, Kind, Takes, Fits
  <2>. QED
    BY <2>1, FitsKept
<1>20. ASSUME NEW q \in Request, ChannelCreated(q) PROVE RequestsFit'
  <2>1. OthersKept(q) /\ (ask'[q] = Nothing \/ Fits(ask'[q]))
    BY <1>20, BecomesStep DEF ChannelCreated, Kind, Takes, Fits
  <2>. QED
    BY <2>1, FitsKept
<1>21. ASSUME NEW q \in Request, StickersListed(q) PROVE RequestsFit'
  <2>1. OthersKept(q) /\ (ask'[q] = Nothing \/ Fits(ask'[q]))
    BY <1>21, EndsStep DEF StickersListed, Takes, Fits
  <2>. QED
    BY <2>1, FitsKept
<1>22. ASSUME NEW q \in Request, StickerAdded(q) PROVE RequestsFit'
  <2>1. OthersKept(q) /\ (ask'[q] = Nothing \/ Fits(ask'[q]))
    BY <1>22, EndsStep DEF StickerAdded, Takes, Fits
  <2>. QED
    BY <2>1, FitsKept
<1>23. ASSUME NEW q \in Request, StickerDeleted(q) PROVE RequestsFit'
  <2>1. OthersKept(q) /\ (ask'[q] = Nothing \/ Fits(ask'[q]))
    BY <1>23, EndsStep DEF StickerDeleted, Takes, Fits
  <2>. QED
    BY <2>1, FitsKept
<1>24. ASSUME TakeEvent PROVE RequestsFit'
  <2>1. CASE UNCHANGED ask
    BY <2>1 DEF RequestsFit
  <2>2. CASE OnMemberChange
    <3>1. PICK q \in Request : Becomes(q, "members")
      BY <2>2 DEF OnMemberChange
    <3>2. OthersKept(q) /\ Fits(ask'[q])
      BY <3>1, BecomesStep DEF Kind, Fits
    <3>. QED
      BY <3>2, FitsKept
  <2>. QED
    BY <1>24, <2>1, <2>2 DEF TakeEvent, OnChannelCreated, OnStickerAdded, OnStickerRemoved
<1>25. ASSUME NEW q \in Request, Asks(q) PROVE RequestsFit'
  BY <1>25, <1>2, <1>3, <1>4, <1>5, <1>6, <1>7, <1>8 DEF Asks, RequestsFit
<1>26. ASSUME NEW q \in Request, Handles(q) PROVE RequestsFit'
  BY <1>26, <1>9, <1>10, <1>11, <1>12, <1>13, <1>14, <1>15, <1>30 DEF Handles, RequestsFit
<1>27. ASSUME NEW q \in Request, Answers(q) PROVE RequestsFit'
  BY <1>27, <1>1, <1>16, <1>17, <1>20, <1>18, <1>19, <1>21, <1>22, <1>23 DEF Answers,
     RequestsFit
<1>. QED
  BY <1>25, <1>26, <1>27, <1>24 DEF Next, CreateSpace, tables, wire, images, history,
     SpaceMade, KeyUploaded, CreateFails, SocketLost, store, SocketOpens, ShowSticker,
     FetchSticker, UrlMade, LoadFails, RequestsFit

(* What adding to a list and dropping from it leave. *)
LEMMA AddedIs ==
  ASSUME NEW ids, NEW rows \in [ids -> 0 .. 1], NEW i \in ids
  PROVE  /\ Added(rows, i) \in [ids -> 0 .. 1]
         /\ \A j \in ids : Added(rows, i)[j] = IF j = i THEN 1 ELSE rows[j]
  BY DEF Added, Has

(* Dropping leaves the rest of a list as it is. *)
LEMMA DroppedIs ==
  ASSUME NEW ids, NEW rows, rows # None => rows \in [ids -> 0 .. 1], NEW i \in ids
  PROVE  Dropped(rows, i) # None =>
           /\ rows # None /\ Dropped(rows, i) \in [ids -> 0 .. 1]
           /\ \A j \in ids : Dropped(rows, i)[j] = IF j = i THEN 0 ELSE rows[j]
<1>1. CASE rows = None
  BY <1>1 DEF Dropped
<1>2. CASE rows # None
  <2>1. Dropped(rows, i) = [rows EXCEPT ![i] = 0]
    BY <1>2 DEF Dropped
  <2>2. rows \in [ids -> 0 .. 1]
    BY <1>2
  <2>3. [rows EXCEPT ![i] = 0] \in [ids -> 0 .. 1]
    BY <2>2
  <2>4. \A j \in ids : [rows EXCEPT ![i] = 0][j] = IF j = i THEN 0 ELSE rows[j]
    BY <2>2
  <2>. QED
    BY <1>2, <2>1, <2>3, <2>4
<1>. QED
  BY <1>1, <1>2

(* Nothing is listed twice. *)
LEMMA ListsStep ==
  ASSUME TypeOK, RequestsFit, ListsFit, Next
  PROVE  ListsFit'
<1>1. ASSUME NEW q \in Request, SpacesListed(q) PROVE ListsFit'
  BY <1>1 DEF SpacesListed, Takes, RequestsFit, Fits, ListsFit
<1>2. ASSUME NEW q \in Request, MembersListed(q) PROVE ListsFit'
  BY <1>2 DEF MembersListed, Takes, RequestsFit, Fits, ListsFit
<1>3. ASSUME NEW q \in Request, StickersListed(q) PROVE ListsFit'
  BY <1>3 DEF StickersListed, Takes, RequestsFit, Fits, ListsFit
<1>4. ASSUME NEW q \in Request, StickerAdded(q) PROVE ListsFit'
  <2>1. ask[q].item \in Sticker
    BY <1>4 DEF StickerAdded, Takes, RequestsFit, Fits
  <2>2. Rows({ask[q].item}, Sticker) \in [Sticker -> 0 .. 1]
    BY DEF Rows
  <2>3. list # None => Added(list, ask[q].item) \in [Sticker -> 0 .. 1]
    BY <2>1, AddedIs DEF ListsFit
  <2>. QED
    BY <1>4, <2>2, <2>3 DEF StickerAdded, ListsFit
<1>5. ASSUME NEW q \in Request, StickerDeleted(q) PROVE ListsFit'
  <2>1. ask[q].item \in Sticker
    BY <1>5 DEF StickerDeleted, Takes, RequestsFit, Fits
  <2>2. list' # None => list' \in [Sticker -> 0 .. 1]
    BY <1>5, <2>1, DroppedIs DEF StickerDeleted, ListsFit
  <2>. QED
    BY <1>5, <2>2 DEF StickerDeleted, ListsFit
<1>6. ASSUME TakeEvent PROVE ListsFit'
  <2>1. ASSUME NEW c \in Channel, OnChannelCreated(c) PROVE ListsFit'
    <3>1. spaces # None => Added(spaces, c) \in [Channel -> 0 .. 1]
      BY AddedIs DEF ListsFit
    <3>. QED
      BY <1>6, <2>1, <3>1 DEF TakeEvent, OnChannelCreated, ListsFit
  <2>2. ASSUME OnMemberChange PROVE ListsFit'
    BY <1>6, <2>2 DEF TakeEvent, OnMemberChange, ListsFit
  <2>3. ASSUME NEW s \in Sticker, OnStickerAdded(s) PROVE ListsFit'
    <3>1. list # None => Added(list, s) \in [Sticker -> 0 .. 1]
      BY AddedIs DEF ListsFit
    <3>. QED
      BY <1>6, <2>3, <3>1 DEF TakeEvent, OnStickerAdded, ListsFit
  <2>4. ASSUME NEW s \in Sticker, OnStickerRemoved(s) PROVE ListsFit'
    <3>1. list' # None => list' \in [Sticker -> 0 .. 1]
      BY <2>4, DroppedIs DEF OnStickerRemoved, ListsFit
    <3>. QED
      BY <1>6, <2>4, <3>1 DEF TakeEvent, OnStickerRemoved, ListsFit
  <2>. QED
    BY <1>6, <2>1, <2>2, <2>3, <2>4, TakeEventIs
<1>7. ASSUME UNCHANGED <<spaces, people, list>> PROVE ListsFit'
  BY <1>7 DEF ListsFit
<1>8. ASSUME NEW q \in Request, Asks(q) PROVE ListsFit'
  BY <1>8, <1>7 DEF Asks, AskChannel, Ask, tables, wire, store, images, AskAdd,
     AskDelete, AskJoin, AskRemove, AskStickers, AskSpaces
<1>9. ASSUME NEW q \in Request, Handles(q) PROVE ListsFit'
  BY <1>9, <1>7 DEF Handles, WriteRow, wire, store, images, history, NothingToWrite,
     tables, SendEvent, FanoutFails, TellRemoval, DeleteMember, Read, RequestLost
<1>10. ASSUME NEW q \in Request, Answers(q) PROVE ListsFit'
  BY <1>10, <1>1, <1>2, <1>3, <1>4, <1>5, <1>7 DEF Answers, SpaceCreated, tables,
     wire, images, history, KeysLoaded, ChannelCreated, store, MemberRemoved
<1>. QED
  BY <1>8, <1>9, <1>10, <1>6, <1>7 DEF Next, CreateSpace, tables, wire, images,
     history, SpaceMade, KeyUploaded, CreateFails, SocketLost, store, SocketOpens,
     ShowSticker, FetchSticker, UrlMade, LoadFails

(* An image that is loading is not in the map. *)
LEMMA LoadsStep ==
  ASSUME TypeOK, RequestsFit, LoadsFit, Next
  PROVE  LoadsFit'
<1>1. ASSUME NEW s \in Sticker, ShowSticker(s) PROVE LoadsFit'
  BY <1>1 DEF ShowSticker, tables, wire, TypeOK, LoadsFit
<1>2. ASSUME NEW s \in Sticker, FetchSticker(s) PROVE LoadsFit'
  BY <1>2 DEF FetchSticker, tables, wire, history, TypeOK, LoadsFit
<1>3. ASSUME NEW s \in Sticker, UrlMade(s) PROVE LoadsFit'
  BY <1>3 DEF UrlMade, tables, wire, history, TypeOK, LoadsFit
<1>4. ASSUME NEW s \in Sticker, LoadFails(s) PROVE LoadsFit'
  BY <1>4 DEF LoadFails, tables, wire, history, TypeOK, LoadsFit
<1>5. ASSUME NEW q \in Request, StickerDeleted(q) PROVE LoadsFit'
  <2>1. Revoke(ask[q].item) /\ UNCHANGED loads /\ ask[q].item \in Sticker
    BY <1>5 DEF StickerDeleted, Takes, RequestsFit, Fits
  <2>. QED
    BY <2>1 DEF Revoke, TypeOK, LoadsFit
<1>6. ASSUME TakeEvent PROVE LoadsFit'
  <2>1. ASSUME UNCHANGED images PROVE LoadsFit'
    BY <2>1 DEF images, LoadsFit
  <2>2. ASSUME NEW s \in Sticker, Revoke(s), UNCHANGED loads PROVE LoadsFit'
    BY <2>2 DEF Revoke, TypeOK, LoadsFit
  <2>. QED
    BY <1>6, <2>1, <2>2, TakeEventIs DEF OnChannelCreated, OnMemberChange, OnStickerAdded,
       OnStickerRemoved
<1>7. ASSUME UNCHANGED <<loads, cached>> PROVE LoadsFit'
  BY <1>7 DEF LoadsFit
<1>8. ASSUME NEW q \in Request, Asks(q) PROVE LoadsFit'
  BY <1>8, <1>7 DEF Asks, AskChannel, Ask, tables, wire, store, images, AskAdd,
     AskDelete, AskJoin, AskRemove, AskStickers, AskSpaces
<1>9. ASSUME NEW q \in Request, Handles(q) PROVE LoadsFit'
  BY <1>9, <1>7 DEF Handles, WriteRow, wire, store, images, history, NothingToWrite,
     tables, SendEvent, FanoutFails, TellRemoval, DeleteMember, Read, RequestLost
<1>10. ASSUME NEW q \in Request, Answers(q) PROVE LoadsFit'
  BY <1>10, <1>5, <1>7 DEF Answers, SpaceCreated, tables, wire, images, history,
     SpacesListed, KeysLoaded, ChannelCreated, store, MembersListed, MemberRemoved,
     StickersListed, StickerAdded
<1>. QED
  BY <1>8, <1>9, <1>10, <1>6, <1>1, <1>2, <1>3, <1>4, <1>7 DEF Next, CreateSpace,
     tables, wire, images, history, SpaceMade, KeyUploaded, CreateFails, SocketLost,
     store, SocketOpens

(* Each URL that is held is in the map. *)
LEMMA UrlsStep ==
  ASSUME TypeOK, RequestsFit, LoadsFit, UrlsAreHeld, Next
  PROVE  UrlsAreHeld'
<1>1. ASSUME NEW s \in Sticker, ShowSticker(s) PROVE UrlsAreHeld'
  BY <1>1 DEF ShowSticker, tables, wire, TypeOK, UrlsAreHeld, LoadsFit
<1>2. ASSUME NEW s \in Sticker, FetchSticker(s) PROVE UrlsAreHeld'
  BY <1>2 DEF FetchSticker, tables, wire, history, TypeOK, UrlsAreHeld, LoadsFit
<1>3. ASSUME NEW s \in Sticker, UrlMade(s) PROVE UrlsAreHeld'
  BY <1>3 DEF UrlMade, tables, wire, history, TypeOK, UrlsAreHeld, LoadsFit
<1>4. ASSUME NEW s \in Sticker, LoadFails(s) PROVE UrlsAreHeld'
  BY <1>4 DEF LoadFails, tables, wire, history, TypeOK, UrlsAreHeld, LoadsFit
<1>5. ASSUME NEW q \in Request, StickerDeleted(q) PROVE UrlsAreHeld'
  <2>1. Revoke(ask[q].item) /\ UNCHANGED loads /\ ask[q].item \in Sticker
    BY <1>5 DEF StickerDeleted, Takes, RequestsFit, Fits
  <2>. QED
    BY <2>1 DEF Revoke, TypeOK, UrlsAreHeld
<1>6. ASSUME TakeEvent PROVE UrlsAreHeld'
  <2>1. ASSUME UNCHANGED images PROVE UrlsAreHeld'
    BY <2>1 DEF images, UrlsAreHeld
  <2>2. ASSUME NEW s \in Sticker, Revoke(s), UNCHANGED loads PROVE UrlsAreHeld'
    BY <2>2 DEF Revoke, TypeOK, UrlsAreHeld
  <2>. QED
    BY <1>6, <2>1, <2>2, TakeEventIs DEF OnChannelCreated, OnMemberChange, OnStickerAdded,
       OnStickerRemoved
<1>7. ASSUME UNCHANGED <<cached, live>> PROVE UrlsAreHeld'
  BY <1>7 DEF UrlsAreHeld
<1>8. ASSUME NEW q \in Request, Asks(q) PROVE UrlsAreHeld'
  BY <1>8, <1>7 DEF Asks, AskChannel, Ask, tables, wire, store, images, AskAdd,
     AskDelete, AskJoin, AskRemove, AskStickers, AskSpaces
<1>9. ASSUME NEW q \in Request, Handles(q) PROVE UrlsAreHeld'
  BY <1>9, <1>7 DEF Handles, WriteRow, wire, store, images, history, NothingToWrite,
     tables, SendEvent, FanoutFails, TellRemoval, DeleteMember, Read, RequestLost
<1>10. ASSUME NEW q \in Request, Answers(q) PROVE UrlsAreHeld'
  BY <1>10, <1>5, <1>7 DEF Answers, SpaceCreated, tables, wire, images, history,
     SpacesListed, KeysLoaded, ChannelCreated, store, MembersListed, MemberRemoved,
     StickersListed, StickerAdded
<1>. QED
  BY <1>8, <1>9, <1>10, <1>6, <1>1, <1>2, <1>3, <1>4, <1>7 DEF Next, CreateSpace,
     tables, wire, images, history, SpaceMade, KeyUploaded, CreateFails, SocketLost,
     store, SocketOpens

(* A space without a key is in the making, or was cut short. *)
LEMMA KeyStep ==
  ASSUME TypeOK, SpaceHasKey, Next
  PROVE  SpaceHasKey'
<1>1. ASSUME CreateSpace PROVE SpaceHasKey'
  BY <1>1 DEF CreateSpace, tables, wire, images, history, SpaceHasKey
<1>2. ASSUME SpaceMade PROVE SpaceHasKey'
  BY <1>2 DEF SpaceMade, wire, images, history, SpaceHasKey
<1>3. ASSUME KeyUploaded PROVE SpaceHasKey'
  BY <1>3 DEF KeyUploaded, wire, images, history, SpaceHasKey
<1>4. ASSUME CreateFails PROVE SpaceHasKey'
  BY <1>4 DEF CreateFails, tables, wire, images, SpaceHasKey
<1>5. ASSUME NEW q \in Request, SpaceCreated(q) PROVE SpaceHasKey'
  BY <1>5 DEF SpaceCreated, tables, wire, images, history, SpaceHasKey
<1>6. ASSUME UNCHANGED <<made, wrapped, making, cut>> PROVE SpaceHasKey'
  BY <1>6 DEF SpaceHasKey
<1>7. ASSUME NEW q \in Request, Asks(q) PROVE SpaceHasKey'
  BY <1>7, <1>6 DEF Asks, AskChannel, Ask, tables, wire, store, images, AskAdd,
     AskDelete, AskJoin, AskRemove, AskStickers, AskSpaces
<1>8. ASSUME NEW q \in Request, Handles(q) PROVE SpaceHasKey'
  BY <1>8, <1>6 DEF Handles, WriteRow, wire, store, images, history, NothingToWrite,
     tables, SendEvent, FanoutFails, TellRemoval, DeleteMember, Read, RequestLost
<1>9. ASSUME NEW q \in Request, Answers(q) PROVE SpaceHasKey'
  BY <1>9, <1>5, <1>6 DEF Answers, SpacesListed, tables, wire, images, KeysLoaded,
     history, ChannelCreated, store, MembersListed, MemberRemoved, StickersListed,
     StickerAdded, StickerDeleted
<1>. QED
  BY <1>7, <1>8, <1>9, <1>1, <1>2, <1>3, <1>4, <1>6 DEF Next, TakeEvent, images,
     tables, SocketLost, store, SocketOpens, history, ShowSticker, wire, FetchSticker,
     UrlMade, LoadFails

(* A row of a sticker comes and goes by its handler. *)
LEMMA StickerWritten ==
  ASSUME TypeOK, Next, NEW s \in Sticker
  PROVE  /\ s \in stickers /\ s \notin stickers' =>
              \E q \in Request : WriteRow(q) /\ ask[q].kind = "delete" /\ ask[q].item = s
         /\ s \notin stickers /\ s \in stickers' =>
              \E q \in Request : WriteRow(q) /\ ask[q].kind = "add" /\ ask[q].item = s
  BY StickersBy DEF WriteRow, InsertRow, Takes

(* An image of a sticker that is gone is kept only until the client hears. *)
LEMMA ImagesStep ==
  ASSUME TypeOK, RequestsFit, ImagesKnown, Next
  PROVE  ImagesKnown'
<1>. SUFFICES ASSUME NEW s \in Sticker, s \notin stickers', s \in cached' \/ loads'[s] = "read"
              PROVE  Told("delete", s)' \/ "loaded_late" \in slips'[s]
  BY DEF ImagesKnown, Slipping
<1>1. "delete" \in Telling /\ s \in Item /\ EventOf("delete") = "sticker_removed"
  BY DEF Telling, Item, EventOf
<1>2. CASE s \in stickers
  BY <1>2, StickerWritten, WriteRowTold
<1>3. CASE TakeEvent /\ Head(events) = <<"sticker_removed", s>>
  <2>1. OnStickerRemoved(s)
    BY <1>3, TakeEventIs
  <2>2. loads[s] = "read" /\ s \notin cached'
    BY <2>1 DEF OnStickerRemoved, Revoke
  <2>3. LateLoad(s) = {"loaded_late"} /\ LateLoad(s) \in SUBSET Slip
    BY <2>2 DEF LateLoad, Slip
  <2>. QED
    BY <1>1, <2>1, <2>3, SlippedStep DEF OnStickerRemoved
<1>4. ASSUME s \notin stickers PROVE s \in cached \/ loads[s] = "read"
  <2>1. ASSUME TakeEvent PROVE cached' \subseteq cached /\ UNCHANGED loads
    BY <2>1, TakeEventIs DEF OnChannelCreated, OnMemberChange, OnStickerAdded, OnStickerRemoved,
       Revoke, images
  <2>2. ASSUME NEW q \in Request, StickerDeleted(q)
        PROVE  cached' \subseteq cached /\ UNCHANGED loads
    BY <2>2 DEF StickerDeleted, Revoke
  <2>3. ASSUME NEW t \in Sticker, ShowSticker(t) \/ FetchSticker(t) \/ UrlMade(t) \/ LoadFails(t)
        PROVE  s \in cached \/ loads[s] = "read"
    BY <1>4, <2>3 DEF ShowSticker, FetchSticker, UrlMade, LoadFails, TypeOK
  <2>. QED
    BY <2>1, <2>2, <2>3, ImagesBy
<1>5. CASE s \notin stickers /\ ~ (TakeEvent /\ Head(events) = <<"sticker_removed", s>>)
  <2>1. Told("delete", s) \/ "loaded_late" \in slips[s]
    BY <1>4, <1>5 DEF ImagesKnown, Slipping
  <2>. QED
    BY <1>1, <1>5, <2>1, ToldKept, SlipsGrow
<1>. QED
  BY <1>2, <1>3, <1>5

(* A channel that is not shown is about to be. *)
LEMMA ChannelsStep ==
  ASSUME TypeOK, RequestsFit, ListsFit, ChannelsKnown, Next
  PROVE  ChannelsKnown'
<1>. SUFFICES ASSUME spaces' # None, NEW c \in channels' \ {General}, spaces'[c] = 0
              PROVE  Told("channel", c)' \/ "stale" \in slips'[c]
  BY DEF ChannelsKnown, Slipping
<1>1. "channel" \in Telling /\ EventOf("channel") = "channel_created"
  BY DEF Telling, EventOf
<1>2. ASSUME c \notin channels PROVE Told("channel", c)'
  <2>1. PICK q \in Request : WriteRow(q) /\ ask[q].kind = "channel" /\ ask[q].item = c
    BY <1>2, ChannelsBy DEF SpaceMade, WriteRow, InsertRow, Takes
  <2>. QED
    BY <2>1, WriteRowTold
<1>3. ASSUME c \in channels, UNCHANGED spaces, ~ TakeEvent
      PROVE  Told("channel", c)' \/ "stale" \in slips'[c]
  <2>1. c \in Channel /\ c \in Item
    BY <1>3 DEF TypeOK, Item
  <2>2. Told("channel", c) \/ "stale" \in slips[c]
    BY <1>3 DEF ChannelsKnown, Slipping
  <2>. QED
    BY <1>1, <1>3, <2>1, <2>2, ToldKept, SlipsGrow
<1>4. ASSUME c \in channels, TakeEvent PROVE Told("channel", c)' \/ "stale" \in slips'[c]
  <2>1. c \in Channel /\ c \in Item
    BY <1>4 DEF TypeOK, Item
  <2>2. CASE Head(events) = <<"channel_created", c>>
    <3>1. OnChannelCreated(c)
      BY <1>4, <2>2, TakeEventIs
    <3>2. spaces # None /\ spaces' = Added(spaces, c)
      BY <3>1 DEF OnChannelCreated
    <3>3. spaces'[c] = 1
      BY <2>1, <3>2, AddedIs DEF ListsFit
    <3>. QED
      BY <3>3
  <2>3. CASE Head(events) # <<"channel_created", c>>
    <3>1. spaces # None /\ spaces[c] = 0
      <4>1. ASSUME NEW d \in Channel, OnChannelCreated(d), d # c
            PROVE  spaces # None /\ spaces[c] = 0
        <5>1. spaces # None /\ spaces' = Added(spaces, d)
          BY <4>1 DEF OnChannelCreated
        <5>. QED
          BY <2>1, <4>1, <5>1, AddedIs DEF ListsFit
      <4>2. CASE UNCHANGED spaces
        BY <4>2
      <4>. QED
        BY <1>4, <2>3, <4>1, <4>2, TakeEventIs DEF OnMemberChange, OnStickerAdded, OnStickerRemoved
    <3>2. Told("channel", c) \/ "stale" \in slips[c]
      BY <1>4, <3>1 DEF ChannelsKnown, Slipping
    <3>. QED
      BY <1>1, <2>1, <2>3, <3>2, ToldKept, SlipsGrow
  <2>. QED
    BY <2>2, <2>3
<1>5. ASSUME c \in channels, NEW q \in Request, SpacesListed(q)
      PROVE  Told("channel", c)' \/ "stale" \in slips'[c]
  <2>1. c \in Channel /\ c \in Item
    BY <1>5 DEF TypeOK, Item
  <2>2. ~ Has(ask[q].got, c)
    BY <1>5 DEF SpacesListed, Has
  <2>3. CASE ToCome(c)
    <3>1. Told("channel", c)
      BY <1>1, <2>1, <2>3, ChannelToCome DEF Told
    <3>2. UNCHANGED events /\ Quiet
      BY <1>5 DEF SpacesListed, Quiet, wire
    <3>. QED
      BY <3>1, <3>2, TellsKept, QuietWrites, SlipsGrow, <2>1 DEF Told, Slipping
  <2>4. CASE ~ ToCome(c)
    BY <1>5, <2>1, <2>2, <2>4 DEF SpacesListed, Outdated, TypeOK
  <2>. QED
    BY <2>3, <2>4
<1>6. CASE c \notin channels
  BY <1>2, <1>6
<1>7. CASE c \in channels
  BY <1>3, <1>4, <1>5, <1>7, SpacesBy
<1>. QED
  BY <1>6, <1>7

(* A request by which a change of u in the table will be read. *)
Pending(r, u) ==
  \/ ask[r] # Nothing /\ (ask[r].kind = "members" \/ (ask[r].item = u /\ ask[r].at = "written"))
  \/ Takes(r, "remove", "answered") /\ ask[r].item = u

(* A change is ahead while an event or a request is. *)
LEMMA AheadIs ==
  \A u : Ahead(u) <=> (\E e \in Tells : e[2] = u) \/ \E r \in Request : Pending(r, u)
  BY DEF Ahead, ToCome, Tells, Pending

(* What touches the events. *)
LEMMA EventsBy ==
  ASSUME Next
  PROVE  \/ UNCHANGED events \/ TakeEvent \/ SocketLost
         \/ \E q \in Request : SendEvent(q) \/ TellRemoval(q)
<1>1. ASSUME NEW q \in Request, Asks(q) PROVE UNCHANGED events
  BY <1>1 DEF Asks, AskChannel, Ask, tables, wire, store, images, AskAdd, AskDelete,
     AskJoin, AskRemove, AskStickers, AskSpaces
<1>2. ASSUME NEW q \in Request, Handles(q) PROVE UNCHANGED events \/ SendEvent(q) \/ TellRemoval(q)
  BY <1>2 DEF Handles, WriteRow, wire, store, images, history, NothingToWrite, tables,
     FanoutFails, DeleteMember, Read, RequestLost
<1>3. ASSUME NEW q \in Request, Answers(q) PROVE UNCHANGED events
  BY <1>3 DEF Answers, SpaceCreated, tables, wire, images, history, SpacesListed,
     KeysLoaded, ChannelCreated, store, MembersListed, MemberRemoved, StickersListed,
     StickerAdded, StickerDeleted
<1>. QED
  BY <1>1, <1>2, <1>3 DEF Next, CreateSpace, tables, wire, images, history, SpaceMade,
     KeyUploaded, CreateFails, SocketOpens, store, ShowSticker, FetchSticker, UrlMade,
     LoadFails

(* An event about a user is lost only by a slip, or makes refreshMembers run. *)
LEMMA EventAhead ==
  ASSUME TypeOK, RequestsFit, Next, NEW u \in User, NEW e \in Tells, e[2] = u
  PROVE  Ahead(u)' \/ "missed" \in slips'[u] \/ (TakeEvent /\ OnMemberChange)
<1>1. e \in Tells' => Ahead(u)'
  BY DEF Ahead, ToCome, Tells
<1>2. CASE UNCHANGED events
  BY <1>1, <1>2, TellsKept
<1>3. ASSUME NEW q \in Request, SendEvent(q) \/ TellRemoval(q) PROVE e \in Tells'
  BY <1>3, SendEventTells, TellRemovalTells
<1>4. CASE SocketLost
  BY <1>4, SocketLostTells
<1>5. CASE TakeEvent /\ ~ OnMemberChange
  <2>1. Head(events)[2] # u
    BY <1>5, TakeEventIs, KindsDiffer
  <2>2. e \in Tells'
    BY <1>5, <2>1, TakeEventIs, TellsTail
  <2>. QED
    BY <1>1, <2>2
<1>. QED
  BY <1>1, <1>2, <1>3, <1>4, <1>5, EventsBy

(* A step of another request leaves this one pending. *)
LEMMA PendingKept ==
  ASSUME NEW q \in Request, NEW r \in Request, NEW u, OthersKept(q), Pending(r, u),
         \/ ask[q] = Nothing
         \/ ask[q].at # "written" /\ ask[q].kind # "members" /\ (ask[q].kind # "remove" \/ ask[q].at # "answered")
  PROVE  Pending(r, u)'
  BY DEF Pending, Takes, OthersKept

(* A pending request is ahead, *)
LEMMA PendingAhead ==
  ASSUME NEW u, NEW r \in Request
  PROVE  Pending(r, u)' => Ahead(u)'
<1>1. CASE ask'[r] # Nothing /\ ask'[r].kind = "members"
  BY <1>1 DEF Ahead
<1>2. CASE ask'[r] # Nothing /\ ask'[r].item = u /\ ask'[r].at = "written"
  BY <1>2 DEF Ahead, ToCome
<1>3. CASE ask'[r] # Nothing /\ ask'[r].kind = "remove" /\ ask'[r].at = "answered" /\ ask'[r].item = u
  BY <1>3 DEF Ahead, Takes
<1>. QED
  BY <1>1, <1>2, <1>3 DEF Pending, Takes

(* and so is one that reads the members. *)
LEMMA MembersAsked ==
  ASSUME NEW u, NEW r \in Request, ask'[r] # Nothing, ask'[r].kind = "members"
  PROVE  Ahead(u)'
  BY DEF Ahead

(* A request that will read the change ends in a reading or a slip. *)
LEMMA RequestAhead ==
  ASSUME TypeOK, RequestsFit, Next, NEW u \in User, NEW r \in Request, Pending(r, u),
         ~ \E q \in Request : MembersListed(q)
  PROVE  Ahead(u)' \/ "missed" \in slips'[u] \/ "unread" \in slips'[u]
<1> DEFINE Kept == Ahead(u)' \/ "missed" \in slips'[u] \/ "unread" \in slips'[u]
<1>. HIDE DEF Kept
<1>a. Pending(r, u)' => Kept
  BY PendingAhead DEF Kept
<1>1. ASSUME NEW q \in Request, SpaceCreated(q) PROVE Kept
  BY <1>1, <1>a, BecomesStep, PendingKept DEF SpaceCreated, Kind
<1>2. ASSUME NEW q \in Request, NEW c \in Channel, NEW here \in BOOLEAN, AskChannel(q, c, here)
      PROVE  Kept
  BY <1>2, <1>a, AskEffect, PendingKept DEF AskChannel, Kind, Item
<1>3. ASSUME NEW q \in Request, NEW s \in Sticker, NEW here \in BOOLEAN, AskAdd(q, s, here)
      PROVE  Kept
  BY <1>3, <1>a, AskEffect, PendingKept DEF AskAdd, Kind, Item
<1>4. ASSUME NEW q \in Request, NEW s \in Sticker, NEW here \in BOOLEAN, AskDelete(q, s, here)
      PROVE  Kept
  BY <1>4, <1>a, AskEffect, PendingKept DEF AskDelete, Kind, Item
<1>5. ASSUME NEW q \in Request, NEW v \in User, AskJoin(q, v) PROVE Kept
  BY <1>5, <1>a, AskJoinEffect, PendingKept DEF AskJoin
<1>6. ASSUME NEW q \in Request, NEW v \in User, NEW here \in BOOLEAN, AskRemove(q, v, here)
      PROVE  Kept
  BY <1>6, <1>a, AskEffect, PendingKept DEF AskRemove, Kind, Item
<1>7. ASSUME NEW q \in Request, AskStickers(q) PROVE Kept
  BY <1>7, <1>a, AskStickersEffect, PendingKept DEF AskStickers
<1>8. ASSUME NEW q \in Request, AskSpaces(q) PROVE Kept
  BY <1>8, <1>a, AskSpacesEffect, PendingKept DEF AskSpaces
<1>9. ASSUME NEW q \in Request, WriteRow(q) PROVE Kept
  BY <1>9, <1>a, AtStep, PendingKept DEF WriteRow, InsertRow, Takes, Stages
<1>10. ASSUME NEW q \in Request, NothingToWrite(q) PROVE Kept
  BY <1>10, <1>a, EndsStep, PendingKept DEF NothingToWrite, Takes
<1>11. ASSUME NEW q \in Request, SendEvent(q) PROVE Kept
  <2>1. ask[q] # Nothing /\ ask[q].at = "written" /\ OthersKept(q)
    BY <1>11, AnswerStep DEF SendEvent, Readings
  <2>2. CASE r = q
    <3>1. ask[q].item = u
      BY <2>1, <2>2 DEF Pending, Takes, RequestsFit, Fits
    <3>2. PICK t : <<t, u>> \in Tells' \/ "missed" \in slips'[u]
      BY <1>11, <3>1, SendEventTells
    <3>3. <<t, u>> \in Tells' => Ahead(u)'
      BY DEF Ahead, ToCome, Tells
    <3>. QED
      BY <3>2, <3>3 DEF Kept
  <2>3. CASE r # q
    BY <1>a, <2>1, <2>3 DEF Pending, Takes, OthersKept
  <2>. QED
    BY <2>2, <2>3
<1>12. ASSUME NEW q \in Request, TellRemoval(q) PROVE Kept
  BY <1>12, <1>a, AtStep, PendingKept DEF TellRemoval, Takes, Stages
<1>13. ASSUME NEW q \in Request, DeleteMember(q) PROVE Kept
  BY <1>13, <1>a, AnswerStep, PendingKept DEF DeleteMember, Takes, Readings
<1>14. ASSUME NEW q \in Request, Read(q) PROVE Kept
  <2>1. CASE ask[q].kind = "members"
    BY <1>14, <2>1, ReadEffect, MembersAsked DEF RequestsFit, Fits, Kept
  <2>2. CASE ask[q].kind # "members"
    BY <1>14, <1>a, <2>2, ReadEffect, PendingKept
  <2>. QED
    BY <2>1, <2>2
<1>15. ASSUME NEW q \in Request, RequestLost(q) PROVE Kept
  <2>1. CASE r = q
    <3>1. ask[q].kind = "members" \/ (ask[q].kind = "remove" /\ ask[q].item = u)
      BY <1>15, <2>1 DEF RequestLost, Pending, Takes
    <3>2. u \in Item
      BY DEF Item
    <3>. QED
      BY <1>15, <3>1, <3>2 DEF RequestLost, Kept
  <2>2. CASE r # q
    BY <1>15, <1>a, <2>2, EndsStep DEF RequestLost, Pending, Takes, OthersKept
  <2>. QED
    BY <2>1, <2>2
<1>30. ASSUME NEW q \in Request, FanoutFails(q) PROVE Kept
  <2>1. ask[q] # Nothing /\ ask[q].at = "written" /\ OthersKept(q) /\ "missed" \in slips'[ask[q].item]
    BY <1>30, FanoutFailsEffect DEF Writing
  <2>2. CASE r = q
    BY <2>1, <2>2 DEF Pending, Takes, RequestsFit, Fits, Kept
  <2>3. CASE r # q
    BY <1>a, <2>1, <2>3 DEF Pending, Takes, OthersKept
  <2>. QED
    BY <2>2, <2>3
<1>16. ASSUME NEW q \in Request, SpacesListed(q) PROVE Kept
  BY <1>16, SpacesListedEffect, MembersAsked DEF Kept
<1>17. ASSUME NEW q \in Request, KeysLoaded(q) PROVE Kept
  BY <1>17, <1>a, EndsStep, PendingKept DEF KeysLoaded, Takes
<1>18. ASSUME NEW q \in Request, MemberRemoved(q) PROVE Kept
  BY <1>18, BecomesStep, MembersAsked DEF MemberRemoved, Kind, Kept
<1>19. ASSUME NEW q \in Request, ChannelCreated(q) PROVE Kept
  BY <1>19, <1>a, BecomesStep, PendingKept DEF ChannelCreated, Kind, Takes
<1>20. ASSUME NEW q \in Request, StickersListed(q) PROVE Kept
  BY <1>20, <1>a, EndsStep, PendingKept DEF StickersListed, Takes
<1>21. ASSUME NEW q \in Request, StickerAdded(q) PROVE Kept
  BY <1>21, <1>a, EndsStep, PendingKept DEF StickerAdded, Takes
<1>22. ASSUME NEW q \in Request, StickerDeleted(q) PROVE Kept
  BY <1>22, <1>a, EndsStep, PendingKept DEF StickerDeleted, Takes
<1>23. ASSUME TakeEvent PROVE Kept
  <2>1. CASE UNCHANGED ask
    BY <1>a, <2>1 DEF Pending, Takes
  <2>2. CASE OnMemberChange
    BY <2>2, BecomesStep, MembersAsked DEF OnMemberChange, Kind, Kept
  <2>. QED
    BY <1>23, <2>1, <2>2 DEF TakeEvent, OnChannelCreated, OnStickerAdded, OnStickerRemoved
<1>24. ASSUME UNCHANGED ask PROVE Kept
  BY <1>a, <1>24 DEF Pending, Takes
<1>25. ASSUME NEW q \in Request, Asks(q) PROVE Kept
  BY <1>25, <1>2, <1>3, <1>4, <1>5, <1>6, <1>7, <1>8 DEF Asks
<1>26. ASSUME NEW q \in Request, Handles(q) PROVE Kept
  BY <1>26, <1>9, <1>10, <1>11, <1>12, <1>13, <1>14, <1>15, <1>30 DEF Handles
<1>27. ASSUME NEW q \in Request, Answers(q) PROVE Kept
  BY <1>27, <1>1, <1>16, <1>17, <1>18, <1>19, <1>20, <1>21, <1>22 DEF Answers
<1>28. ASSUME UNCHANGED ask \/ TakeEvent PROVE Kept
  BY <1>28, <1>23, <1>24
<1>29. UNCHANGED ask \/ TakeEvent \/ \E q \in Request : Asks(q) \/ Handles(q) \/ Answers(q)
  BY DEF Next, CreateSpace, tables, wire, images, history, SpaceMade, KeyUploaded,
     CreateFails, SocketLost, store, SocketOpens, ShowSticker, FetchSticker, UrlMade,
     LoadFails
<1>. QED
  BY <1>25, <1>26, <1>27, <1>28, <1>29 DEF Kept

(* A change that is still to be read stays so until the members are listed. *)
LEMMA AheadKept ==
  ASSUME TypeOK, RequestsFit, Next, NEW u \in User, Ahead(u), ~ \E q \in Request : MembersListed(q)
  PROVE  Ahead(u)' \/ "missed" \in slips'[u] \/ "unread" \in slips'[u]
<1>1. CASE \E e \in Tells : e[2] = u
  <2>1. TakeEvent /\ OnMemberChange => Ahead(u)'
    BY BecomesStep, MembersAsked DEF OnMemberChange, Kind
  <2>. QED
    BY <1>1, <2>1, EventAhead
<1>2. CASE \E r \in Request : Pending(r, u)
  BY <1>2, RequestAhead
<1>. QED
  BY <1>1, <1>2, AheadIs

(* The members shown are the table's, or a reading of it is to come. *)
LEMMA MembersStep ==
  ASSUME TypeOK, RequestsFit, MembersMatch, Next
  PROVE  MembersMatch'
<1>. DEFINE Excuse == {"missed", "stale", "early", "unread"}
<1>. SUFFICES ASSUME people' # None, NEW u \in User, ~ Ahead(u)', Has(people', u) # (u \in members')
              PROVE  slips'[u] \cap Excuse # {}
  BY DEF MembersMatch
<1>1. slips[u] \subseteq slips'[u] /\ u \in Item
  BY SlipsGrow DEF Item
<1>2. ASSUME NEW q \in Request, MembersListed(q) PROVE slips'[u] \cap Excuse # {}
  <2>1. "stale" \in slips'[u]
    BY <1>1, <1>2 DEF MembersListed, tables
  <2>. QED
    BY <2>1
<1>3. ASSUME ~ \E q \in Request : MembersListed(q), UNCHANGED members
      PROVE  slips'[u] \cap Excuse # {}
  <2>1. people # None /\ Has(people, u) # (u \in members)
    BY <1>3, PeopleBy DEF Has
  <2>2. CASE Ahead(u)
    BY <1>3, <2>2, AheadKept
  <2>3. CASE ~ Ahead(u)
    BY <1>1, <2>1, <2>3 DEF MembersMatch
  <2>. QED
    BY <2>2, <2>3
<1>4. ASSUME ~ \E q \in Request : MembersListed(q), ~ UNCHANGED members
      PROVE  slips'[u] \cap Excuse # {}
  <2>1. CASE (u \in members') = (u \in members)
    <3>1. people # None /\ Has(people, u) # (u \in members)
      BY <1>4, <2>1, PeopleBy DEF Has
    <3>2. CASE Ahead(u)
      BY <1>4, <3>2, AheadKept
    <3>3. CASE ~ Ahead(u)
      BY <1>1, <3>1, <3>3 DEF MembersMatch
    <3>. QED
      BY <3>2, <3>3
  <2>2. ASSUME NEW q \in Request, WriteRow(q), (u \in members') # (u \in members) PROVE FALSE
    <3>1. ask[q].item = u
      BY <2>2 DEF WriteRow, InsertRow
    <3>2. ask'[q] # Nothing /\ ask'[q].item = u /\ ask'[q].at = "written"
      BY <2>2, <3>1, AtStep DEF WriteRow, InsertRow, Takes, Stages
    <3>. QED
      BY <3>2, PendingAhead DEF Pending
  <2>3. ASSUME NEW q \in Request, DeleteMember(q), (u \in members') # (u \in members)
        PROVE  slips'[u] \cap Excuse # {}
    <3>1. ask[q].item = u /\ Takes(q, "remove", "told")
      BY <2>3 DEF DeleteMember
    <3>2. CASE ask[q].here
      <4>1. Takes(q, "remove", "answered")' /\ ask'[q].item = u
        BY <2>3, <3>1, <3>2, AnswerStep DEF DeleteMember, Takes, Readings
      <4>. QED
        BY <4>1, PendingAhead DEF Pending
    <3>3. CASE ~ ask[q].here
      <4>1. ~ Ahead(u) => {x \in {"early"} : ~ ask[q].here /\ ~ Ahead(u)} = {"early"}
        BY <3>3
      <4>2. {x \in {"early"} : ~ ask[q].here /\ ~ Ahead(u)} \in SUBSET Slip
        BY DEF Slip
      <4>3. Slipped(u, {x \in {"early"} : ~ ask[q].here /\ ~ Ahead(u)})
        BY <2>3, <3>1 DEF DeleteMember
      <4>4. ~ Ahead(u) => "early" \in slips'[u]
        BY <1>1, <4>1, <4>2, <4>3, SlippedStep
      <4>5. CASE Ahead(u)
        BY <1>4, <4>5, AheadKept
      <4>. QED
        BY <4>4, <4>5
    <3>4. ask[q].here \in BOOLEAN
      BY <3>1, RequestFields DEF Takes
    <3>. QED
      BY <3>2, <3>3, <3>4
  <2>. QED
    BY <1>4, <2>1, <2>2, <2>3, MembersBy
<1>. QED
  BY <1>2, <1>3, <1>4

(* A sticker is born once. *)
LEMMA UnbornShrinks ==
  ASSUME TypeOK, RequestsFit, AddsDiffer, Next
  PROVE  /\ Unborn' \subseteq Unborn
         /\ \A q \in Request : ask[q] # Nothing /\ ask[q].kind = "add" /\ ask[q].at # "sent"
                                 => ask[q].item \notin Unborn
         /\ \A q \in Request : ask'[q] # Nothing /\ ask'[q].kind = "add" /\ ask'[q].at # "sent"
                                 => ask'[q].item \notin Unborn'
<1>1. Unborn' \subseteq Unborn
  <2>. SUFFICES ASSUME NEW s \in Unborn' PROVE s \in Unborn
    OBVIOUS
  <2>1. CASE s \in fresh'
    BY <2>1, FreshShrinks DEF Unborn
  <2>2. ASSUME NEW q \in Request, ask'[q] # Nothing, ask'[q].kind = "add", ask'[q].at = "sent",
              ask'[q].item = s
        PROVE  s \in Unborn
    BY <2>2, AddBy DEF Unborn, Takes
  <2>. QED
    BY <2>1, <2>2 DEF Unborn, Takes
<1>2. ASSUME NEW q \in Request, ask[q] # Nothing, ask[q].kind = "add", ask[q].at # "sent"
      PROVE  ask[q].item \notin Unborn
  BY <1>2 DEF AddsDiffer, Unborn, Takes
<1>3. AddsDiffer'
  BY AddsStep
<1>4. ASSUME NEW q \in Request, ask'[q] # Nothing, ask'[q].kind = "add", ask'[q].at # "sent"
      PROVE  ask'[q].item \notin Unborn'
  BY <1>3, <1>4 DEF AddsDiffer, Unborn, Takes
<1>. QED
  BY <1>1, <1>2, <1>4

(* An event of a sticker comes of its row, and goes when it is taken. *)
LEMMA StickerTold ==
  ASSUME TypeOK, RequestsFit, Next, NEW s \in Sticker, NEW kind \in {"add", "delete"},
         <<EventOf(kind), s>> \in Tells'
  PROVE  <<EventOf(kind), s>> \in Tells \/ <<kind, s>> \in Writes
<1>1. CASE UNCHANGED events
  BY <1>1, TellsKept
<1>2. CASE TakeEvent
  BY <1>2, TakeEventIs, TellsTail
<1>3. CASE SocketLost
  <2>1. Tells' = {}
    BY <1>3, TellsLost DEF SocketLost
  <2>. QED
    BY <2>1
<1>4. ASSUME NEW q \in Request, SendEvent(q)
      PROVE  <<EventOf(kind), s>> \in Tells \/ <<kind, s>> \in Writes
  <2>1. Writing(q) /\ <<EventOf(ask[q].kind), ask[q].item>> \in Event
    BY <1>4, SendEventTells, EventOfItem
  <2>2. Tells' \subseteq Tells \cup {<<EventOf(ask[q].kind), ask[q].item>>}
    <3>1. CASE open
      BY <1>4, <2>1, <3>1, SendEventTells, TellsAppend
    <3>2. CASE ~ open
      BY <1>4, <3>2, SendEventTells, TellsKept
    <3>. QED
      BY <3>1, <3>2
  <2>3. ask[q].kind \in Telling
    BY <2>1, EventOfItem
  <2>4. EventOf(kind) = EventOf(ask[q].kind) => kind = ask[q].kind
    BY <2>3 DEF EventOf, Telling
  <2>. QED
    BY <2>1, <2>2, <2>4, WritesIn
<1>5. ASSUME NEW q \in Request, TellRemoval(q) PROVE <<EventOf(kind), s>> \in Tells
  <2>1. <<"member_removed", ask[q].item>> \in Event /\ EventOf(kind) # "member_removed"
    BY <1>5, TellRemovalTells DEF Event, EventOf
  <2>2. Tells' \subseteq Tells \cup {<<"member_removed", ask[q].item>>}
    <3>1. CASE open
      <4>1. events' = Append(events, <<"member_removed", ask[q].item>>)
        BY <1>5, <3>1 DEF TellRemoval, Fanout
      <4>. QED
        BY <2>1, <4>1, TellsAppend
    <3>2. CASE ~ open
      BY <1>5, <3>2, TellsKept DEF TellRemoval, Fanout
    <3>. QED
      BY <3>1, <3>2
  <2>. QED
    BY <2>1, <2>2
<1>. QED
  BY <1>1, <1>2, <1>3, <1>4, <1>5, EventsBy

(* What is shown was shown, or comes of an event, a list or an answer. *)
LEMMA ListedFrom ==
  ASSUME TypeOK, RequestsFit, ListsFit, Next, NEW s \in Sticker, list' # None, list'[s] > 0
  PROVE  \/ list # None /\ list[s] > 0
         \/ TakeEvent /\ Head(events) = <<"sticker_added", s>>
         \/ \E q \in Request : /\ ask[q] # Nothing /\ ask[q].at = "answered"
                               /\ \/ ask[q].kind = "stickers" /\ ask[q].got[s] > 0 /\ StickersListed(q)
                                  \/ ask[q].kind = "add" /\ ask[q].item = s /\ StickerAdded(q)
<1>1. ASSUME TakeEvent
      PROVE  \/ list # None /\ list[s] > 0
             \/ Head(events) = <<"sticker_added", s>>
  <2>1. ASSUME UNCHANGED list PROVE list # None /\ list[s] > 0
    BY <2>1
  <2>2. ASSUME NEW t \in Sticker, Head(events) = <<"sticker_added", t>>, OnStickerAdded(t), t # s
        PROVE  list # None /\ list[s] > 0
    <3>1. list # None /\ list' = Added(list, t)
      BY <2>2 DEF OnStickerAdded
    <3>. QED
      BY <2>2, <3>1, AddedIs DEF ListsFit
  <2>3. ASSUME NEW t \in Sticker, OnStickerRemoved(t) PROVE list # None /\ list[s] > 0
    <3>1. list' = Dropped(list, t)
      BY <2>3 DEF OnStickerRemoved
    <3>. QED
      BY <3>1, DroppedIs DEF ListsFit
  <2>. QED
    BY <1>1, <2>1, <2>2, <2>3, TakeEventIs DEF OnChannelCreated, OnMemberChange
<1>2. ASSUME NEW q \in Request, StickersListed(q)
      PROVE  ask[q] # Nothing /\ ask[q].at = "answered" /\ ask[q].kind = "stickers" /\ ask[q].got[s] > 0
  BY <1>2 DEF StickersListed, Takes
<1>3. ASSUME NEW q \in Request, StickerAdded(q)
      PROVE  /\ ask[q] # Nothing /\ ask[q].at = "answered" /\ ask[q].kind = "add"
             /\ ask[q].item = s \/ (list # None /\ list[s] > 0)
  <2>1. ask[q] # Nothing /\ ask[q].at = "answered" /\ ask[q].kind = "add" /\ ask[q].item \in Sticker
    BY <1>3 DEF StickerAdded, Takes, RequestsFit, Fits
  <2>2. CASE list = None
    BY <1>3, <2>1, <2>2 DEF StickerAdded, Rows
  <2>3. CASE list # None
    <3>1. list' = Added(list, ask[q].item)
      BY <1>3, <2>3 DEF StickerAdded
    <3>. QED
      BY <2>1, <2>3, <3>1, AddedIs DEF ListsFit
  <2>. QED
    BY <2>1, <2>2, <2>3
<1>4. ASSUME NEW q \in Request, StickerDeleted(q) PROVE list # None /\ list[s] > 0
  <2>1. ask[q].item \in Sticker /\ list' = Dropped(list, ask[q].item)
    BY <1>4 DEF StickerDeleted, Takes, RequestsFit, Fits
  <2>. QED
    BY <2>1, DroppedIs DEF ListsFit
<1>. QED
  BY <1>1, <1>2, <1>3, <1>4, ListBy

(* Nothing knows of a sticker that has no row yet. *)
LEMMA UnbornStep ==
  ASSUME TypeOK, RequestsFit, ListsFit, AddsDiffer, UnbornIsUnknown, Next
  PROVE  UnbornIsUnknown'
<1>. SUFFICES ASSUME NEW s \in Unborn'
              PROVE  /\ s \notin stickers'
                     /\ <<"sticker_added", s>> \notin Tells' /\ <<"sticker_removed",
                                 s>> \notin Tells'
                     /\ list' # None => list'[s] = 0
                     /\ \A q \in Request : ask'[q] # Nothing =>
                          /\ ask'[q].kind = "delete" => ask'[q].item # s
                          /\ ask'[q].kind = "stickers" /\ ask'[q].at = "answered" => ask'[q].got[s] = 0
  BY DEF UnbornIsUnknown
<1>1. s \in Unborn /\ s \in Sticker
  BY UnbornShrinks DEF Unborn
<1>2. /\ s \notin stickers
      /\ <<"sticker_added", s>> \notin Tells /\ <<"sticker_removed", s>> \notin Tells
      /\ list # None => list[s] = 0
      /\ \A q \in Request : ask[q] # Nothing =>
           /\ ask[q].kind = "delete" => ask[q].item # s
           /\ ask[q].kind = "stickers" /\ ask[q].at = "answered" => ask[q].got[s] = 0
  BY <1>1 DEF UnbornIsUnknown
<1>3. s \notin stickers'
  <2>1. ASSUME NEW q \in Request, WriteRow(q), ask[q].kind = "add", ask[q].item = s PROVE FALSE
    <3>1. ask'[q] # Nothing /\ ask'[q].kind = "add" /\ ask'[q].at = "written" /\ ask'[q].item = s
      BY <2>1, AtStep DEF WriteRow, InsertRow, Takes, Stages
    <3>. QED
      BY <3>1, UnbornShrinks
  <2>. QED
    BY <1>1, <1>2, <2>1, StickerWritten
<1>4. <<"add", s>> \notin Writes /\ <<"delete", s>> \notin Writes
  BY <1>1, <1>2, UnbornShrinks, WritesIn DEF Writing
<1>5. <<"sticker_added", s>> \notin Tells' /\ <<"sticker_removed", s>> \notin Tells'
  <2>1. EventOf("add") = "sticker_added" /\ EventOf("delete") = "sticker_removed"
    BY DEF EventOf
  <2>. QED
    BY <1>1, <1>2, <1>4, <2>1, StickerTold
<1>6. ASSUME list' # None PROVE list'[s] = 0
  <2>1. ~ (list'[s] > 0)
    <3>. SUFFICES ASSUME list'[s] > 0 PROVE FALSE
      OBVIOUS
    <3>1. TakeEvent => <<"sticker_added", s>> # Head(events)
      BY <1>2, TakeEventIs, TellsTail
    <3>2. ASSUME NEW q \in Request, ask[q] # Nothing, ask[q].at = "answered", ask[q].kind = "add"
          PROVE  ask[q].item # s
      BY <1>1, <3>2, UnbornShrinks
    <3>. QED
      BY <1>1, <1>2, <1>6, <3>1, <3>2, ListedFrom
  <2>2. list'[s] \in 0 .. 1
    BY <1>1, <1>6, ListsStep DEF ListsFit
  <2>. QED
    BY <2>1, <2>2
<1>7. ASSUME NEW q \in Request, ask'[q] # Nothing, ask'[q].kind = "delete" PROVE ask'[q].item # s
  <2>1. ASSUME NEW t \in Sticker, NEW here \in BOOLEAN, AskDelete(q, t, here) PROVE ask'[q].item # s
    <3>1. ask'[q].item = t
      BY <2>1, AskEffect DEF AskDelete, Kind, Item
    <3>2. t \in stickers \/ (list # None /\ list[t] > 0)
      BY <2>1 DEF AskDelete, Has
    <3>. QED
      BY <1>2, <3>1, <3>2
  <2>2. ASSUME NEW t \in Sticker, NEW here \in BOOLEAN, AskAdd(q, t, here) PROVE FALSE
    BY <1>7, <2>2, AskEffect DEF AskAdd, Kind, Item
  <2>3. ASSUME WriteRow(q) \/ TellRemoval(q)
        PROVE  ask[q] # Nothing /\ ask[q].kind = "delete" /\ ask'[q].item = ask[q].item
    BY <1>7, <2>3, AtStep DEF WriteRow, InsertRow, TellRemoval, Takes, Stages
  <2>4. ASSUME SendEvent(q) \/ DeleteMember(q)
        PROVE  ask[q] # Nothing /\ ask[q].kind = "delete" /\ ask'[q].item = ask[q].item
    BY <1>7, <2>4, AnswerStep DEF SendEvent, DeleteMember, Takes, Readings
  <2>5. ~ Read(q)
    BY <1>7, ReadEffect
  <2>. QED
    BY <1>2, <1>7, <2>1, <2>2, <2>3, <2>4, <2>5, RequestBy
<1>8. ASSUME NEW q \in Request, ask'[q] # Nothing, ask'[q].kind = "stickers",
            ask'[q].at = "answered"
      PROVE  ask'[q].got[s] = 0
  <2>1. ASSUME NEW t \in Sticker, NEW here \in BOOLEAN, AskAdd(q, t, here) \/ AskDelete(q, t, here)
        PROVE  FALSE
    BY <1>8, <2>1, AskEffect DEF AskAdd, AskDelete, Kind, Item
  <2>2. ~ WriteRow(q) /\ ~ TellRemoval(q)
    BY <1>8, AtStep DEF WriteRow, InsertRow, TellRemoval, Takes, Stages
  <2>3. ~ SendEvent(q) /\ ~ DeleteMember(q)
    <3>1. ASSUME SendEvent(q) PROVE FALSE
      BY <1>8, <3>1, AnswerStep DEF SendEvent, Readings, RequestsFit, Fits
    <3>2. ASSUME DeleteMember(q) PROVE FALSE
      BY <1>8, <3>2, AnswerStep DEF DeleteMember, Takes, Readings
    <3>. QED
      BY <3>1, <3>2
  <2>4. ASSUME Read(q) PROVE ask'[q].got[s] = 0
    <3>1. ask'[q].got = Rows(stickers, Sticker)
      BY <1>8, <2>4, ReadEffect
    <3>. QED
      BY <1>1, <1>2, <3>1 DEF Rows
  <2>. QED
    BY <1>2, <1>8, <2>1, <2>2, <2>3, <2>4, RequestBy
<1>. QED
  BY <1>3, <1>5, <1>6, <1>7, <1>8

(* A written row stays so until its event is sent or missed. *)
LEMMA WritesStay ==
  ASSUME TypeOK, RequestsFit, Next, NEW kind, NEW i, <<kind, i>> \in Writes
  PROVE  \/ <<kind, i>> \in Writes'
         \/ \E q \in Request : SendEvent(q) /\ ask[q].kind = kind /\ ask[q].item = i
         \/ "missed" \in slips'[i]
<1>1. ASSUME Quiet PROVE <<kind, i>> \in Writes'
  BY <1>1, QuietWrites
<1>2. ASSUME NEW q \in Request, WriteRow(q) PROVE <<kind, i>> \in Writes'
  BY <1>2, WriteRowWrites
<1>3. ASSUME NEW q \in Request, SendEvent(q), ~ (ask[q].kind = kind /\ ask[q].item = i)
      PROVE  <<kind, i>> \in Writes'
  BY <1>3, SendEventWrites
<1>4. ASSUME NEW q \in Request, FanoutFails(q)
      PROVE  <<kind, i>> \in Writes' \/ "missed" \in slips'[i]
  BY <1>4, FanoutFailsEffect
<1>5. Quiet \/ \E q \in Request : WriteRow(q) \/ SendEvent(q) \/ FanoutFails(q)
  BY DEF Next, Asks, Handles, Answers, Quiet
<1>. QED
  BY <1>1, <1>2, <1>3, <1>4, <1>5

(* A request that deletes is sent, then handled. *)
LEMMA DeleteBy ==
  ASSUME TypeOK, RequestsFit, Next, NEW r \in Request, ask'[r] # Nothing, ask'[r].kind = "delete"
  PROVE  \/ ask'[r].at = "sent"
         \/ /\ ask[r] # Nothing /\ ask[r].kind = "delete" /\ ask'[r].item = ask[r].item
            /\ ask'[r] = ask[r] \/ WriteRow(r) \/ ask[r].at = "written"
<1>1. ASSUME NEW s \in Sticker, NEW here \in BOOLEAN, AskAdd(r, s, here) \/ AskDelete(r, s, here)
      PROVE  ask'[r].at = "sent"
  BY <1>1, AskEffect DEF AskAdd, AskDelete, Kind, Item
<1>2. ASSUME WriteRow(r)
      PROVE  ask[r] # Nothing /\ ask[r].kind = "delete" /\ ask'[r].item = ask[r].item
  BY <1>2, AtStep DEF WriteRow, InsertRow, Takes, Stages
<1>3. ASSUME SendEvent(r)
      PROVE  ask[r] # Nothing /\ ask[r].kind = "delete" /\ ask'[r].item = ask[r].item /\ ask[r].at = "written"
  BY <1>3, AnswerStep DEF SendEvent, Readings
<1>4. ~ TellRemoval(r)
  BY AtStep DEF TellRemoval, Takes, Stages
<1>5. ~ DeleteMember(r)
  BY AnswerStep DEF DeleteMember, Takes, Readings
<1>. QED
  BY <1>1, <1>2, <1>3, <1>4, <1>5, ReadEffect, RequestBy

(* The removal of a sticker that is there has not begun. *)
LEMMA RemovedStep ==
  ASSUME TypeOK, RequestsFit, UrlsAreHeld, UnbornIsUnknown, RemovedOnce, Next
  PROVE  RemovedOnce'
<1>. SUFFICES ASSUME NEW s \in stickers'
              PROVE  /\ <<"sticker_removed", s>> \notin Tells'
                     /\ \A q \in Request : ask'[q] # Nothing /\ ask'[q].kind = "delete" /\ ask'[q].item = s
                                             => ask'[q].at = "sent"
  BY DEF RemovedOnce
<1>1. s \in Sticker /\ EventOf("delete") = "sticker_removed"
  BY TypeStep DEF TypeOK, EventOf
<1>2. ASSUME NEW q \in Request, WriteRow(q), ask[q].kind = "add", ask[q].item = s
      PROVE  /\ <<"sticker_removed", s>> \notin Tells'
             /\ \A r \in Request : ask'[r] # Nothing /\ ask'[r].kind = "delete" => ask'[r].item # s
  <2>1. s \in Unborn
    BY <1>1, <1>2 DEF WriteRow, InsertRow, Takes, Unborn
  <2>2. UNCHANGED events
    BY <1>2 DEF WriteRow, wire
  <2>3. ask'[q].kind = "add" /\ OthersKept(q)
    BY <1>2, AtStep DEF WriteRow, InsertRow, Takes, Stages
  <2>. QED
    BY <2>1, <2>2, <2>3, TellsKept DEF UnbornIsUnknown, OthersKept
<1>3. CASE s \in stickers
  <2>1. /\ <<"sticker_removed", s>> \notin Tells
        /\ \A q \in Request : ask[q] # Nothing /\ ask[q].kind = "delete" /\ ask[q].item = s => ask[q].at = "sent"
    BY <1>3 DEF RemovedOnce
  <2>2. <<"delete", s>> \notin Writes
    BY <2>1, WritesIn DEF Writing
  <2>3. <<"sticker_removed", s>> \notin Tells'
    BY <1>1, <2>1, <2>2, StickerTold
  <2>4. ASSUME NEW q \in Request, WriteRow(q) PROVE ~ (ask[q].kind = "delete" /\ ask[q].item = s)
    BY <2>4 DEF WriteRow, InsertRow, Takes
  <2>. QED
    BY <2>1, <2>3, <2>4, DeleteBy
<1>. QED
  BY <1>1, <1>2, <1>3, StickerWritten

(* What told a client of a sticker that is gone is followed by its removal. *)
LEMMA AdditionsStep ==
  ASSUME TypeOK, RequestsFit, AdditionsUndone, Next
  PROVE  AdditionsUndone'
<1>. SUFFICES ASSUME NEW s \in Sticker, s \notin stickers'
              PROVE  \/ s \in Undone' \/ <<"delete", s>> \in Writes'
                     \/ "overtaken" \in slips'[s] \/ "missed" \in slips'[s]
  BY DEF AdditionsUndone, Slipping
<1>. DEFINE G == \/ s \in Undone' \/ <<"delete", s>> \in Writes'
                 \/ "overtaken" \in slips'[s] \/ "missed" \in slips'[s]
<1>. HIDE DEF G
<1>1. slips[s] \subseteq slips'[s] /\ <<"sticker_removed", s>> \in Event
  BY SlipsGrow DEF Item, Event
<1>2. ASSUME s \in stickers PROVE G
  <2>1. PICK q \in Request : WriteRow(q) /\ ask[q].kind = "delete" /\ ask[q].item = s
    BY <1>2, StickerWritten
  <2>. QED
    BY <2>1, WriteRowWrites DEF G
<1>3. ASSUME <<"delete", s>> \in Writes PROVE G
  <2>1. ASSUME NEW q \in Request, SendEvent(q), ask[q].kind = "delete", ask[q].item = s PROVE G
    <3>1. EventOf("delete") = "sticker_removed"
      BY DEF EventOf
    <3>2. CASE open
      <4>1. events' = Append(events, <<"sticker_removed", s>>)
        BY <2>1, <3>1, <3>2, SendEventTells
      <4>. QED
        BY <1>1, <4>1, TellsAppend DEF G
    <3>3. CASE ~ open
      BY <2>1, <3>3, SendEventTells DEF G
    <3>. QED
      BY <3>2, <3>3
  <2>. QED
    BY <1>3, <2>1, WritesStay DEF G
<1>4. ASSUME s \in Undone, s \notin stickers PROVE G
  <2>1. CASE UNCHANGED events
    BY <1>4, <2>1, TellsKept DEF G
  <2>2. CASE TakeEvent
    BY <1>4, <2>2, TakeEventIs, TellsTail DEF G
  <2>3. CASE SocketLost
    BY <2>3, TellsLost DEF SocketLost, G
  <2>4. ASSUME NEW q \in Request, TellRemoval(q) PROVE G
    BY <1>4, <2>4, TellRemovalTells DEF G
  <2>5. ASSUME NEW q \in Request, SendEvent(q) PROVE G
    <3>1. ask[q].kind \in Telling /\ <<EventOf(ask[q].kind), ask[q].item>> \in Event
      BY <2>5, SendEventTells, EventOfItem
    <3>2. CASE ~ open
      BY <1>4, <2>5, <3>2, SendEventTells, TellsKept DEF G
    <3>3. CASE open /\ EventOf(ask[q].kind) = "sticker_added" /\ ask[q].item = s
      <4>1. ask[q].kind = "add"
        BY <3>1, <3>3 DEF EventOf, Telling
      <4>. QED
        BY <1>4, <2>5, <3>3, <4>1, SendEventTells DEF G
    <3>4. CASE open /\ ~ (EventOf(ask[q].kind) = "sticker_added" /\ ask[q].item = s)
      <4>1. events' = Append(events, <<EventOf(ask[q].kind), ask[q].item>>)
        BY <2>5, <3>4, SendEventTells
      <4>2. <<EventOf(ask[q].kind), ask[q].item>> # <<"sticker_added", s>>
        BY <3>4
      <4>. QED
        BY <1>4, <3>1, <4>1, <4>2, TellsAppend DEF G
    <3>. QED
      BY <3>2, <3>3, <3>4
  <2>. QED
    BY <2>1, <2>2, <2>3, <2>4, <2>5, EventsBy
<1>. QED
  BY <1>1, <1>2, <1>3, <1>4 DEF AdditionsUndone, Slipping, G

(* A sticker that is gone and of which something is to come. *)
LEMMA GoneIsTold ==
  ASSUME TypeOK, RequestsFit, AdditionsUndone, NEW s \in Sticker, s \notin stickers, ToCome(s)
  PROVE  Told("delete", s) \/ <<"add", s>> \in Writes \/ "overtaken" \in slips[s]
<1>1. EventOf("delete") = "sticker_removed"
  BY DEF EventOf
<1>. QED
  BY <1>1, StickerToCome, UndoneIsTold DEF AdditionsUndone, Told, Slipping

(* A sticker that is shown and gone goes from the list too. *)
LEMMA ShownStep ==
  ASSUME TypeOK, RequestsFit, ListsFit, AdditionsUndone, ShownRemoved, Next
  PROVE  ShownRemoved'
<1>. SUFFICES ASSUME NEW s \in Sticker, s \notin stickers', list' # None, list'[s] > 0
              PROVE  \/ Told("delete", s)' \/ <<"add", s>> \in Writes'
                     \/ slips'[s] \cap {"stale", "overtaken", "late"} # {}
  BY DEF ShownRemoved, Slipping
<1>. DEFINE Had == \/ Told("delete", s) \/ <<"add", s>> \in Writes
                   \/ slips[s] \cap {"stale", "overtaken", "late"} # {}
            G == \/ Told("delete", s)' \/ <<"add", s>> \in Writes'
                 \/ slips'[s] \cap {"stale", "overtaken", "late"} # {}
<1>. HIDE DEF Had, G
<1>1. /\ "delete" \in Telling /\ EventOf("delete") = "sticker_removed"
      /\ s \in Item /\ slips[s] \subseteq slips'[s]
  BY SlipsGrow DEF EventOf, Telling, Item
<1>2. ASSUME s \in stickers PROVE G
  <2>1. PICK q \in Request : WriteRow(q) /\ ask[q].kind = "delete" /\ ask[q].item = s
    BY <1>2, StickerWritten
  <2>. QED
    BY <2>1, WriteRowTold DEF G
<1>3. ASSUME s \notin stickers, Had, ~ (TakeEvent /\ Head(events) = <<"sticker_removed", s>>)
      PROVE  G
  <2>1. CASE Told("delete", s)
    BY <1>1, <1>3, <2>1, ToldKept DEF G
  <2>2. CASE <<"add", s>> \in Writes
    <3>1. ASSUME NEW q \in Request, SendEvent(q), ask[q].kind = "add", ask[q].item = s
          PROVE  "overtaken" \in slips'[s]
      BY <1>3, <3>1, SendEventTells
    <3>. QED
      BY <2>2, <3>1, WritesStay DEF G, Told, Slipping
  <2>. QED
    BY <1>1, <1>3, <2>1, <2>2 DEF G, Had
<1>4. ASSUME s \notin stickers, list # None, list[s] > 0 PROVE G
  <2>1. ~ (TakeEvent /\ Head(events) = <<"sticker_removed", s>>)
    <3>. SUFFICES ASSUME TakeEvent, Head(events) = <<"sticker_removed", s>> PROVE FALSE
      OBVIOUS
    <3>1. list' = Dropped(list, s)
      BY TakeEventIs DEF OnStickerRemoved
    <3>2. list'[s] = 0
      BY <3>1, DroppedIs DEF ListsFit
    <3>. QED
      BY <3>2
  <2>2. Had
    BY <1>4 DEF ShownRemoved, Slipping, Had
  <2>. QED
    BY <1>3, <1>4, <2>1, <2>2
<1>5. ASSUME s \notin stickers, TakeEvent, Head(events) = <<"sticker_added", s>> PROVE G
  <2>1. CASE s \in Undone
    <3>1. <<"sticker_removed", s>> \in Tells'
      BY <1>5, <2>1, TakeEventIs, TellsTail
    <3>2. <<EventOf("delete"), s>> \in Tells'
      BY <1>1, <3>1
    <3>3. Told("delete", s)'
      BY <3>2 DEF Told
    <3>. QED
      BY <3>3 DEF G
  <2>2. CASE <<"delete", s>> \in Writes \/ Slipping(s, {"missed", "overtaken"})
    <3>1. Had
      BY <2>2 DEF Told, Slipping, Had
    <3>. QED
      BY <1>3, <1>5, <3>1
  <2>. QED
    BY <1>5, <2>1, <2>2 DEF AdditionsUndone, Slipping
<1>6. ASSUME NEW q \in Request, s \notin stickers, StickersListed(q), ask[q].got[s] > 0 PROVE G
  <2>1. CASE ToCome(s)
    <3>1. UNCHANGED events /\ Quiet
      BY <1>6 DEF StickersListed, wire, Quiet
    <3>2. Told("delete", s) \/ <<"add", s>> \in Writes \/ "overtaken" \in slips[s]
      BY <1>6, <2>1, GoneIsTold
    <3>3. Told("delete", s) => Told("delete", s)'
      BY <1>1, <3>1, ToldQuiet
    <3>4. Writes' = Writes
      BY <3>1, QuietWrites
    <3>. QED
      BY <1>1, <3>2, <3>3, <3>4 DEF G
  <2>2. CASE ~ ToCome(s)
    BY <1>1, <1>6, <2>2 DEF StickersListed, Outdated, Has, G
  <2>. QED
    BY <2>1, <2>2
<1>7. ASSUME NEW q \in Request, s \notin stickers, StickerAdded(q), ask[q].item = s PROVE G
  <2>1. CASE ToCome(s)
    <3>1. UNCHANGED events /\ Quiet
      BY <1>7 DEF StickerAdded, wire, Quiet
    <3>2. Told("delete", s) \/ <<"add", s>> \in Writes \/ "overtaken" \in slips[s]
      BY <1>7, <2>1, GoneIsTold
    <3>3. Told("delete", s) => Told("delete", s)'
      BY <1>1, <3>1, ToldQuiet
    <3>4. Writes' = Writes
      BY <3>1, QuietWrites
    <3>. QED
      BY <1>1, <3>2, <3>3, <3>4 DEF G
  <2>2. CASE ~ ToCome(s)
    BY <1>1, <1>7, <2>2 DEF StickerAdded, G
  <2>. QED
    BY <2>1, <2>2
<1>. QED
  BY <1>2, <1>4, <1>5, <1>6, <1>7, ListedFrom DEF G

(* A sticker that is there and not shown is about to be. *)
LEMMA ThereStep ==
  ASSUME TypeOK, RequestsFit, UrlsAreHeld, ListsFit, RemovedOnce, NotShownThere, Next
  PROVE  NotShownThere'
<1>. SUFFICES ASSUME NEW s \in stickers', list' # None, list'[s] = 0
              PROVE  Told("add", s)' \/ slips'[s] \cap {"stale", "part"} # {}
  BY DEF NotShownThere, Slipping
<1>. DEFINE Had == Told("add", s) \/ slips[s] \cap {"stale", "part"} # {}
            G == Told("add", s)' \/ slips'[s] \cap {"stale", "part"} # {}
<1>. HIDE DEF Had, G
<1>1. /\ "add" \in Telling /\ EventOf("add") = "sticker_added"
      /\ s \in Sticker /\ s \in Item /\ slips[s] \subseteq slips'[s]
  BY TypeStep, SlipsGrow DEF EventOf, Telling, Item, TypeOK
<1>2. ASSUME s \notin stickers PROVE G
  <2>1. PICK q \in Request : WriteRow(q) /\ ask[q].kind = "add" /\ ask[q].item = s
    BY <1>1, <1>2, StickerWritten
  <2>. QED
    BY <2>1, WriteRowTold DEF G
<1>3. ASSUME Had, Told("add", s) => Told("add", s)' PROVE G
  BY <1>1, <1>3 DEF Had, G
<1>4. ASSUME s \in stickers, list # None, list[s] = 0 PROVE Had
  BY <1>4 DEF NotShownThere, Slipping, Had
<1>5. ASSUME s \in stickers, UNCHANGED list, ~ TakeEvent PROVE G
  BY <1>1, <1>3, <1>4, <1>5, ToldKept
<1>6. ASSUME s \in stickers, TakeEvent PROVE G
  <2>1. ASSUME NEW t \in Sticker, OnStickerAdded(t) PROVE list # None /\ list[s] = 0 /\ t # s
    <3>1. list # None /\ list' = Added(list, t)
      BY <2>1 DEF OnStickerAdded
    <3>. QED
      BY <1>1, <2>1, <3>1, AddedIs DEF ListsFit
  <2>2. ASSUME NEW t \in Sticker, Head(events) = <<"sticker_removed", t>>, OnStickerRemoved(t)
        PROVE  list # None /\ list[s] = 0
    <3>1. t # s
      BY <1>6, <2>2, TakeEventIs, TellsTail DEF RemovedOnce
    <3>2. list' = Dropped(list, t)
      BY <2>2 DEF OnStickerRemoved
    <3>. QED
      BY <1>1, <3>1, <3>2, DroppedIs DEF ListsFit
  <2>3. list # None /\ list[s] = 0 /\ Head(events) # <<"sticker_added", s>>
    BY <1>1, <1>6, <2>1, <2>2, TakeEventIs DEF OnChannelCreated, OnMemberChange
  <2>. QED
    BY <1>1, <1>3, <1>4, <1>6, <2>3, ToldKept
<1>7. ASSUME NEW q \in Request, s \in stickers, StickersListed(q) PROVE G
  <2>1. UNCHANGED events /\ Quiet /\ ask[q].got[s] = 0
    BY <1>7 DEF StickersListed, wire, Quiet
  <2>2. CASE ToCome(s)
    <3>1. <<"sticker_removed", s>> \notin Tells /\ <<"delete", s>> \notin Writes
      BY <1>7, WritesIn DEF RemovedOnce, Writing
    <3>2. Told("add", s)
      BY <1>1, <2>2, <3>1, StickerToCome DEF Told
    <3>. QED
      BY <1>1, <2>1, <3>2, ToldQuiet DEF G
  <2>3. CASE ~ ToCome(s)
    BY <1>1, <1>7, <2>1, <2>3 DEF StickersListed, Outdated, Has, G
  <2>. QED
    BY <2>2, <2>3
<1>8. ASSUME NEW q \in Request, s \in stickers, StickerAdded(q) PROVE G
  <2>1. UNCHANGED events /\ Quiet /\ ask[q].item \in Sticker
    BY <1>8 DEF StickerAdded, wire, Quiet, Takes, RequestsFit, Fits
  <2>2. CASE list = None
    <3>1. s # ask[q].item
      BY <1>1, <1>8, <2>2 DEF StickerAdded, Rows
    <3>. QED
      BY <1>1, <1>8, <2>2, <3>1 DEF StickerAdded, G
  <2>3. CASE list # None
    <3>1. list' = Added(list, ask[q].item)
      BY <1>8, <2>3 DEF StickerAdded
    <3>2. list[s] = 0
      BY <1>1, <2>1, <2>3, <3>1, AddedIs DEF ListsFit
    <3>. QED
      BY <1>1, <1>3, <1>4, <1>8, <2>1, <2>3, <3>2, ToldQuiet
  <2>. QED
    BY <2>2, <2>3
<1>9. ASSUME NEW q \in Request, s \in stickers, StickerDeleted(q) PROVE G
  <2>1. UNCHANGED events /\ Quiet /\ ask[q].item \in Sticker
    BY <1>9 DEF StickerDeleted, wire, Quiet, Takes, RequestsFit, Fits
  <2>2. ask[q].item # s
    BY <1>9 DEF StickerDeleted, Takes, RemovedOnce
  <2>3. list' = Dropped(list, ask[q].item)
    BY <1>9 DEF StickerDeleted
  <2>4. list # None /\ list[s] = 0
    BY <1>1, <2>1, <2>2, <2>3, DroppedIs DEF ListsFit
  <2>. QED
    BY <1>1, <1>3, <1>4, <1>9, <2>1, <2>4, ToldQuiet
<1>. QED
  BY <1>2, <1>5, <1>6, <1>7, <1>8, <1>9, ListBy DEF G

(***************************************************************************)
(* The inductive invariant, and the theorems                               *)
(***************************************************************************)
Inv ==
  /\ TypeOK /\ RequestsFit /\ ListsFit /\ LoadsFit /\ UrlsAreHeld
  /\ AddsDiffer /\ UnbornIsUnknown /\ RemovedOnce /\ AdditionsUndone
  /\ ShownRemoved /\ NotShownThere /\ ImagesKnown /\ ChannelsKnown
  /\ MembersMatch /\ SpaceHasKey

(* The client that has just logged in has the invariant, *)
LEMMA InvInit == Init => Inv
<1>. SUFFICES ASSUME Init PROVE Inv
  OBVIOUS
<1>1. TypeOK
  <2>1. uses \in 0 .. MaxUses /\ losses \in 0 .. MaxLosses
    BY BoundsAreNat DEF Init
  <2>2. events \in Seq(Event) /\ events = <<>>
    BY DEF Init
  <2>3. /\ ask \in [Request -> {Nothing} \cup Asking] /\ slips \in [Item -> SUBSET Slip]
        /\ loads \in [Sticker -> {"no", "sent", "read", "missing"}] /\ live \in [Sticker -> Nat]
    BY DEF Init
  <2>4. fresh \subseteq Sticker \cup Channel
    BY DEF Init
  <2>5. /\ made \in BOOLEAN /\ wrapped \in BOOLEAN /\ open \in BOOLEAN /\ keyed \in BOOLEAN /\ cut \in BOOLEAN
        /\ making \in {"no", "posting", "made", "uploaded"}
    BY DEF Init
  <2>6. /\ channels \subseteq Channel /\ members \subseteq User /\ stickers \subseteq Sticker
        /\ cached \subseteq Sticker
    BY DEF Init
  <2>7. /\ spaces \in {None} \cup Lists(Channel) /\ people \in {None} \cup Lists(User)
        /\ list \in {None} \cup Lists(Sticker)
    BY DEF Init
  <2>. QED
    BY <2>1, <2>2, <2>3, <2>4, <2>5, <2>6, <2>7 DEF TypeOK
<1>2. RequestsFit /\ AddsDiffer /\ MembersMatch /\ SpaceHasKey /\ ListsFit /\ LoadsFit /\ UrlsAreHeld
  BY DEF Init, RequestsFit, AddsDiffer, MembersMatch, SpaceHasKey, ListsFit, LoadsFit, UrlsAreHeld
<1>3. Tells = {} /\ Undone = Sticker
  BY DEF Init, Tells, Undone
<1>4. UnbornIsUnknown /\ RemovedOnce /\ AdditionsUndone
  BY <1>3 DEF Init, UnbornIsUnknown, RemovedOnce, AdditionsUndone, Unborn
<1>5. ShownRemoved /\ NotShownThere /\ ImagesKnown /\ ChannelsKnown
  BY DEF Init, ShownRemoved, NotShownThere, ImagesKnown, ChannelsKnown
<1>. QED
  BY <1>1, <1>2, <1>4, <1>5 DEF Inv

(* it is about the variables alone, *)
LEMMA InvStutters ==
  ASSUME Inv, UNCHANGED vars
  PROVE  Inv'
<1>1. /\ UNCHANGED <<made, wrapped, channels, members, stickers, ask, open, events>>
      /\ UNCHANGED <<making, keyed, spaces, people, list, loads, cached, live>>
      /\ UNCHANGED <<fresh, uses, losses, cut, slips>>
  BY DEF vars, tables, wire, store, images, history
<1>2. Tells' = Tells /\ Undone' = Undone /\ Writes' = Writes /\ Unborn' = Unborn
  BY <1>1 DEF Tells, Undone, Writes, Writing, Unborn, Takes
<1>3. \A kind, i : Told(kind, i)' <=> Told(kind, i)
  BY <1>1, <1>2 DEF Told, Slipping
<1>4. TypeOK' /\ RequestsFit' /\ ListsFit' /\ LoadsFit' /\ UrlsAreHeld' /\ AddsDiffer' /\ SpaceHasKey'
  BY <1>1 DEF Inv, TypeOK, RequestsFit, ListsFit, LoadsFit, UrlsAreHeld, AddsDiffer, SpaceHasKey
<1>5. UnbornIsUnknown' /\ RemovedOnce' /\ AdditionsUndone'
  BY <1>1, <1>2 DEF Inv, UnbornIsUnknown, RemovedOnce, AdditionsUndone, Slipping
<1>6. ShownRemoved' /\ NotShownThere' /\ ImagesKnown' /\ ChannelsKnown'
  BY <1>1, <1>2, <1>3 DEF Inv, ShownRemoved, NotShownThere, ImagesKnown, ChannelsKnown, Slipping
<1>7. \A u : Ahead(u)' <=> Ahead(u)
  BY <1>1 DEF Ahead, ToCome, Takes
<1>8. MembersMatch'
  BY <1>1, <1>7 DEF Inv, MembersMatch
<1>. QED
  BY <1>4, <1>5, <1>6, <1>8 DEF Inv

(* every step keeps it, *)
LEMMA InvStep == Inv /\ [Next]_vars => Inv'
<1>. SUFFICES ASSUME Inv, [Next]_vars PROVE Inv'
  OBVIOUS
<1>1. CASE Next
  BY <1>1, TypeStep, RequestsStep, ListsStep, LoadsStep, UrlsStep, AddsStep, UnbornStep,
     RemovedStep, AdditionsStep, ShownStep, ThereStep, ImagesStep, ChannelsStep,
     MembersStep, KeyStep
  DEF Inv
<1>2. CASE UNCHANGED vars
  BY <1>2, InvStutters
<1>. QED
  BY <1>1, <1>2

(* and so it holds for good. *)
LEMMA InvHolds == Spec => []Inv
<1>. QED
  BY InvInit, InvStep, PTL DEF Spec

(* Of what is told and not to come, the event was missed. *)
LEMMA ToldMissed ==
  ASSUME TypeOK, RequestsFit, NEW kind, NEW i \in Item, ~ ToCome(i), Told(kind, i)
  PROVE  "missed" \in slips[i]
<1>1. ASSUME NEW e \in Tells, e[2] = i PROVE FALSE
  BY <1>1 DEF Tells, ToCome
<1>2. <<kind, i>> \notin Writes
  BY WritesIn DEF ToCome, Writing
<1>. QED
  BY <1>1, <1>2 DEF Told, Slipping

(* The lists follow from it, *)
LEMMA InvLists == Inv => ListsMatch
<1>. SUFFICES ASSUME Inv PROVE ListsMatch
  OBVIOUS
<1>1. TypeOK /\ RequestsFit /\ ListsFit /\ ShownRemoved /\ NotShownThere /\ ChannelsKnown
  BY DEF Inv
<1>2. NoneTwice
  BY <1>1 DEF NoneTwice, ListsFit
<1>3. ASSUME spaces # None, NEW c \in channels \ {General}, ~ ToCome(c), ~ Has(spaces, c)
      PROVE  slips[c] \cap {"missed", "stale"} # {}
  <2>1. c \in Item /\ spaces[c] = 0
    BY <1>1, <1>3 DEF TypeOK, ListsFit, Has, Item
  <2>2. Told("channel", c) \/ "stale" \in slips[c]
    BY <1>1, <1>3, <2>1 DEF ChannelsKnown, Slipping
  <2>. QED
    BY <1>1, <1>3, <2>1, <2>2, ToldMissed
<1>4. ASSUME list # None, NEW s \in Sticker, ~ ToCome(s), Has(list, s) # (s \in stickers)
      PROVE  slips[s] \cap {"missed", "stale", "overtaken", "late", "part"} # {}
  <2>1. s \in Item /\ list[s] \in 0 .. 1 /\ <<"add", s>> \notin Writes
    BY <1>1, <1>4, WritesIn DEF ListsFit, Item, ToCome, Writing
  <2>2. CASE s \notin stickers
    <3>1. list[s] > 0
      BY <1>4, <2>2 DEF Has
    <3>2. Told("delete", s) \/ slips[s] \cap {"stale", "overtaken", "late"} # {}
      BY <1>1, <1>4, <2>1, <2>2, <3>1 DEF ShownRemoved, Slipping
    <3>. QED
      BY <1>1, <1>4, <2>1, <3>2, ToldMissed
  <2>3. CASE s \in stickers
    <3>1. list[s] = 0
      BY <1>4, <2>1, <2>3 DEF Has
    <3>2. Told("add", s) \/ slips[s] \cap {"stale", "part"} # {}
      BY <1>1, <1>4, <2>3, <3>1 DEF NotShownThere, Slipping
    <3>. QED
      BY <1>1, <1>4, <2>1, <3>2, ToldMissed
  <2>. QED
    BY <2>2, <2>3
<1>. QED
  BY <1>2, <1>3, <1>4 DEF ListsMatch, ChannelsMatch, StickersMatch

(* and so do the images. *)
LEMMA InvImages == Inv => ImagesMatch
<1>. SUFFICES ASSUME Inv PROVE ImagesMatch
  OBVIOUS
<1>1. TypeOK /\ RequestsFit /\ ImagesKnown /\ UrlsAreHeld
  BY DEF Inv
<1>2. ASSUME NEW s \in cached \ stickers, ~ ToCome(s)
      PROVE  slips[s] \cap {"missed", "loaded_late"} # {}
  <2>1. s \in Sticker /\ s \in Item
    BY <1>1 DEF TypeOK, Item
  <2>2. Told("delete", s) \/ "loaded_late" \in slips[s]
    BY <1>1, <2>1 DEF ImagesKnown, Slipping
  <2>. QED
    BY <1>1, <1>2, <2>1, <2>2, ToldMissed
<1>. QED
  BY <1>1, <1>2 DEF ImagesMatch, ImagesOfStickers

(* The state of the tables, of the way and of the store keeps its shape.   *)
THEOREM TypeCorrect == Spec => []TypeOK
<1>1. Inv => TypeOK
  BY DEF Inv
<1>. QED
  BY <1>1, InvHolds, PTL

(* Whatever fails while createSpace is under way, a space that is there    *)
(* has its key unless it was cut short between the two requests.           *)
THEOREM KeyOfSpace == Spec => []SpaceHasKey
<1>1. Inv => SpaceHasKey
  BY DEF Inv
<1>. QED
  BY <1>1, InvHolds, PTL

(* For any number of requests, devices' doings and losses of the socket,   *)
(* the channels and stickers shown are those of the tables once no event   *)
(* is to come, but for the slips that the model names.                     *)
THEOREM ListsFollow == Spec => []ListsMatch
  BY InvLists, InvHolds, PTL

(* The members shown are those of the table once refreshMembers has read   *)
(* all that it will, but for the slips that the model names.               *)
THEOREM MembersFollow == Spec => []MembersMatch
<1>1. Inv => MembersMatch
  BY DEF Inv
<1>. QED
  BY <1>1, InvHolds, PTL

(* No object URL leaks, and an image outlives its sticker only when the    *)
(* removal was missed or came while the image was loading.                 *)
THEOREM ImagesFollow == Spec => []ImagesMatch
  BY InvImages, InvHolds, PTL
=============================================================================
