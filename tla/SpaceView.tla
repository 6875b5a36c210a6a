----------------------------- MODULE SpaceView -----------------------------
(***************************************************************************)
(* What a client of a space's owner shows of the space: making the space,  *)
(* its channels, its members, its stickers and their images (client        *)
(* lib/store.svelte.ts, Sticker.svelte, StickerPicker.svelte), against the *)
(* tables of the server and the events its handlers send (server           *)
(* spaces.rs, stickers.rs).  Other users join, and the owner may have a    *)
(* second device, which changes the tables too.                            *)
(*                                                                         *)
(* A request is sent, handled and answered in steps of their own, and a    *)
(* handler that writes a row sends its event in a later step, or in an     *)
(* earlier one when it deletes a member; answers come in any order, events *)
(* in theirs, until the socket is lost.  Of a list, only how often it has  *)
(* an id is kept, not the order.                                           *)
(***************************************************************************)
EXTENDS Naturals, Sequences

CONSTANTS Sticker, \* sticker ids: each names one row
          Channel, \* channel ids
          General, \* the channel a space is made with
          User,    \* the users besides the owner
          Request, \* bound: requests under way at once, of all devices
          MaxUses, \* bound: what the users do
          MaxLosses \* bound: how often the socket is lost

ASSUME GeneralIsChannel == General \in Channel
ASSUME KindsDiffer == /\ Sticker \cap Channel = {} /\ Sticker \cap User = {}
                      /\ Channel \cap User = {}
ASSUME BoundsAreNat == MaxUses \in Nat /\ MaxLosses \in Nat

VARIABLES
  (* at the server *)
  made,      \* the space is there
  wrapped,   \* the owner's wrap of the first key is there
  channels, members, stickers,   \* rows
  ask,       \* request -> what it asks for and how far it has come
  (* on the way *)
  open,      \* the event socket is open
  events,    \* events sent to it
  (* in the store *)
  making,    \* how far createSpace has come
  keyed,     \* conn.spaceKeys has the key
  spaces,    \* the channels of the space in the list, or that it is not listed
  people,    \* the list of members but the owner, or that there is none
  list,      \* the list of stickers, or that there is none
  loads,     \* sticker -> the load in stickerLoads
  cached,    \* stickers with an entry in stickerUrls
  live,      \* sticker -> object URLs made of it and not revoked
  (* history *)
  fresh,     \* ids not drawn yet
  uses,      \* what the users have done
  losses,    \* of the socket
  cut,       \* createSpace failed after the space was made
  slips      \* id -> what came in between

tables  == <<made, wrapped, channels, members, stickers>>
wire    == <<open, events>>
images  == <<loads, cached, live>>
store   == <<making, keyed, spaces, people, list, images>>
history == <<fresh, uses, losses, cut, slips>>
vars    == <<tables, ask, wire, store, history>>

Item == Sticker \cup Channel \cup User
Kind == {"channel", "add", "delete", "join", "remove", "refresh", "keys", "members", "stickers"}
Event == ({"channel_created"} \X Channel) \cup ({"member_joined", "member_removed"} \X User)
           \cup ({"sticker_added", "sticker_removed"} \X Sticker)
Nothing == [kind |-> "none"]
Lists(ids) == [ids -> Nat]
None == [i \in {} |-> 0]    \* neither a list nor an answer is there
Has(rows, i) == rows[i] > 0
Rows(table, ids) == [i \in ids |-> IF i \in table THEN 1 ELSE 0]
Slip == {"missed", "stale", "overtaken", "late", "part", "loaded_late", "early", "unread"}

(* A request: whose, for what, and how far: sent, told (the event is sent,  *)
(* the row still there), written (a row is, the event is not sent),        *)
(* answered.                                                               *)
Asked(kind, item, here) ==
  [kind |-> kind, item |-> item, here |-> here, at |-> "sent", got |-> None]

Asking == [kind : Kind, item : Item, here : BOOLEAN,
           at : {"sent", "told", "written", "answered"},
           got : {None} \cup Lists(Channel) \cup Lists(User) \cup Lists(Sticker) \cup Lists({"key"})]

TypeOK ==
  /\ made \in BOOLEAN /\ wrapped \in BOOLEAN
  /\ channels \subseteq Channel /\ members \subseteq User /\ stickers \subseteq Sticker
  /\ ask \in [Request -> {Nothing} \cup Asking]
  /\ open \in BOOLEAN
  /\ events \in Seq(Event)
  /\ making \in {"no", "posting", "made", "uploaded"} /\ keyed \in BOOLEAN
  /\ spaces \in {None} \cup Lists(Channel) /\ people \in {None} \cup Lists(User)
  /\ list \in {None} \cup Lists(Sticker)
  /\ loads \in [Sticker -> {"no", "sent", "read", "missing"}]
  /\ cached \subseteq Sticker /\ live \in [Sticker -> Nat]
  /\ fresh \subseteq Sticker \cup Channel /\ uses \in 0 .. MaxUses /\ losses \in 0 .. MaxLosses
  /\ cut \in BOOLEAN /\ slips \in [Item -> SUBSET Slip]

(* The client is logged in, its socket open, and the owner has no space.   *)
Init ==
  /\ made = FALSE /\ wrapped = FALSE /\ channels = {} /\ members = {} /\ stickers = {}
  /\ ask = [q \in Request |-> Nothing]
  /\ open = TRUE /\ events = <<>>
  /\ making = "no" /\ keyed = FALSE
  /\ spaces = None /\ people = None /\ list = None
  /\ loads = [s \in Sticker |-> "no"] /\ cached = {} /\ live = [s \in Sticker |-> 0]
  /\ fresh = (Sticker \cup Channel) \ {General} /\ uses = 0 /\ losses = 0 /\ cut = FALSE /\ slips = [i \in Item |-> {}]

-----------------------------------------------------------------------------
Slipped(i, S) == slips' = [slips EXCEPT ![i] = @ \cup S]

(* fanout: to the sockets that are open now. *)
Fanout(type, i) ==
  events' = IF open THEN Append(events, <<type, i>>) ELSE events

(* An event about i is still to be sent or to be taken. *)
ToCome(i) ==
  \/ \E n \in 1 .. Len(events) : events[n][2] = i
  \/ \E q \in Request : ask[q] # Nothing /\ ask[q].item = i /\ ask[q].at = "written"

Takes(q, kind, at) == ask[q] # Nothing /\ ask[q].kind = kind /\ ask[q].at = at
At(q, at) == ask' = [ask EXCEPT ![q].at = at]

(* The request goes on to the caller, when that is this client. *)
Answer(q, got) ==
  ask' = [ask EXCEPT ![q] = IF @.here THEN [@ EXCEPT !.at = "answered", !.got = got]
                            ELSE Nothing]

Ends(q) == ask' = [ask EXCEPT ![q] = Nothing]
Becomes(q, kind) == ask' = [ask EXCEPT ![q] = Asked(kind, General, TRUE)]

-----------------------------------------------------------------------------
(* createSpace *)

CreateSpace ==
  /\ making = "no" /\ ~ made
  /\ making' = "posting"
  /\ UNCHANGED <<tables, ask, wire, keyed, spaces, people, list, images, history>>

(* create_space: space, owner and first channel in one use of the database. *)
SpaceMade ==
  /\ making = "posting"
  /\ making' = "made"
  /\ made' = TRUE /\ channels' = {General}
  /\ UNCHANGED <<wrapped, members, stickers, ask, wire, keyed, spaces, people, list, images, history>>

(* mutant of KeyUploaded: the key is only kept here *)
KeyNotUploaded ==
  /\ making = "made"
  /\ making' = "uploaded"
  /\ UNCHANGED <<tables, ask, wire, keyed, spaces, people, list, images, history>>

(* The answer is taken, the key made, and its wrap stored by the server. *)
KeyUploaded ==
  /\ making = "made"
  /\ making' = "uploaded" /\ wrapped' = TRUE
  /\ UNCHANGED <<made, channels, members, stickers, ask, wire, keyed, spaces, people, list, images, history>>

(* The key is kept and refreshSpaces called. *)
SpaceCreated(q) ==
  /\ making = "uploaded" /\ ask[q] = Nothing
  /\ making' = "no" /\ keyed' = TRUE
  /\ Becomes(q, "refresh")
  /\ UNCHANGED <<tables, wire, spaces, people, list, images, history>>

(* One of the two requests, or its answer, fails or the client goes: the    *)
(* rest is not done.                                                       *)
CreateFails ==
  /\ making # "no"
  /\ making' = "no" /\ cut' = (cut \/ making = "made")
  /\ UNCHANGED <<tables, ask, wire, keyed, spaces, people, list, images, fresh, uses, losses, slips>>

-----------------------------------------------------------------------------
(* Requests of either device about a space that is there *)

Used == uses < MaxUses /\ uses' = uses + 1

Ask(q, kind, i, here) ==
  /\ ask[q] = Nothing /\ Used
  /\ ask' = [ask EXCEPT ![q] = Asked(kind, i, here)]
  /\ UNCHANGED <<tables, wire, store, losses, cut, slips>>

(* createChannel: only of a space that is shown. *)
AskChannel(q, c, here) ==
  /\ c \in fresh /\ made /\ (here => spaces # None)
  /\ fresh' = fresh \ {c}
  /\ Ask(q, "channel", c, here)

(* addSticker: with the key, which encrypts it. *)
AskAdd(q, s, here) ==
  /\ s \in fresh /\ wrapped /\ (here => spaces # None /\ keyed)
  /\ fresh' = fresh \ {s}
  /\ Ask(q, "add", s, here)

(* deleteSticker: of one the picker shows, on this device or the other. *)
AskDelete(q, s, here) ==
  /\ IF here THEN list # None /\ Has(list, s) ELSE s \in stickers
  /\ UNCHANGED fresh
  /\ Ask(q, "delete", s, here)

(* acceptInvite of another user; removeMember of a member that is shown.   *)
AskJoin(q, u) ==
  /\ made /\ u \notin members
  /\ UNCHANGED fresh
  /\ Ask(q, "join", u, FALSE)

AskRemove(q, u, here) ==
  /\ IF here THEN people # None /\ Has(people, u) ELSE u \in members
  /\ UNCHANGED fresh
  /\ Ask(q, "remove", u, here)

(* loadStickers, by the picker's effect when it opens. *)
AskStickers(q) ==
  /\ spaces # None
  /\ UNCHANGED fresh
  /\ Ask(q, "stickers", General, TRUE)

AskSpaces(q) ==
  /\ made
  /\ UNCHANGED fresh
  /\ Ask(q, "refresh", General, TRUE)

-----------------------------------------------------------------------------
(* Handlers of the server: the row, then the event, in two uses of a lock  *)

InsertRow(q) ==
  \/ /\ Takes(q, "channel", "sent")
     /\ channels' = channels \cup {ask[q].item} /\ UNCHANGED <<members, stickers>>
  \/ /\ Takes(q, "join", "sent") /\ ask[q].item \notin members
     /\ members' = members \cup {ask[q].item} /\ UNCHANGED <<channels, stickers>>
  \/ /\ Takes(q, "add", "sent")
     /\ stickers' = stickers \cup {ask[q].item} /\ UNCHANGED <<channels, members>>

WriteRow(q) ==
  /\ \/ InsertRow(q)
     \/ /\ Takes(q, "delete", "sent") /\ ask[q].item \in stickers
        /\ stickers' = stickers \ {ask[q].item} /\ UNCHANGED <<channels, members>>
  /\ At(q, "written")
  /\ UNCHANGED <<made, wrapped, wire, store, history>>

(* delete_sticker finds no row, accept_invite one that is there (and has   *)
(* nothing to tell), remove_member none to delete.                         *)
NothingToWrite(q) ==
  /\ \/ Takes(q, "delete", "sent") /\ ask[q].item \notin stickers
     \/ Takes(q, "join", "sent") /\ ask[q].item \in members
     \/ Takes(q, "remove", "told") /\ ask[q].item \notin members
  /\ Ends(q)
  /\ UNCHANGED <<tables, wire, store, history>>

EventOf(kind) == CASE kind = "channel" -> "channel_created"
                   [] kind = "join"    -> "member_joined"
                   [] kind = "add"     -> "sticker_added"
                   [] kind = "delete"  -> "sticker_removed"

(* An event that tells of a row which has changed again since, and whose   *)
(* change was told already, is overtaken; one sent to no socket is missed. *)
SendEvent(q) ==
  LET i == ask[q].item IN
  /\ ask[q] # Nothing /\ ask[q].at = "written"
  /\ Fanout(EventOf(ask[q].kind), i)
  /\ Answer(q, None)
  /\ Slipped(i, {s \in {"missed"} : ~ open}
                  \cup {s \in {"overtaken"} : ask[q].kind = "add" /\ i \notin stickers})
  /\ UNCHANGED <<tables, open, store, fresh, uses, losses, cut>>

(* The members cannot be read, or the server stops, between the row and    *)
(* its event: nobody is told, and the caller gets an error.                *)
FanoutFails(q) ==
  /\ ask[q] # Nothing /\ ask[q].at = "written"
  /\ Ends(q)
  /\ Slipped(ask[q].item, {"missed"})
  /\ UNCHANGED <<tables, wire, store, fresh, uses, losses, cut>>

(* remove_member: "Notify before pulling membership so the removed user    *)
(* hears about it too".                                                    *)
TellRemoval(q) ==
  LET u == ask[q].item IN
  /\ Takes(q, "remove", "sent")
  /\ Fanout("member_removed", u)
  /\ At(q, "told")
  /\ Slipped(u, {s \in {"missed"} : ~ open})
  /\ UNCHANGED <<tables, open, store, fresh, uses, losses, cut>>

(* A change of u in the table is still to be read by refreshMembers.       *)
Ahead(u) ==
  \/ ToCome(u)
  \/ \E q \in Request : \/ ask[q] # Nothing /\ ask[q].kind = "members"
                        \/ Takes(q, "remove", "answered") /\ ask[q].item = u

(* The other device's removal is early when all that it made this client   *)
(* do is done before the row goes.                                         *)
DeleteMember(q) ==
  LET u == ask[q].item IN
  /\ Takes(q, "remove", "told") /\ u \in members
  /\ members' = members \ {u}
  /\ Answer(q, None)
  /\ Slipped(u, {s \in {"early"} : ~ ask[q].here /\ ~ Ahead(u)})
  /\ UNCHANGED <<made, wrapped, channels, stickers, wire, store, fresh, uses, losses, cut>>

(* list_spaces, get_keys, list_members and list_stickers: one read each.   *)
Read(q) ==
  /\ \/ Takes(q, "refresh", "sent") /\ Answer(q, Rows(channels, Channel))
     \/ Takes(q, "keys", "sent") /\ Answer(q, Rows({x \in {"key"} : wrapped}, {"key"}))
     \/ Takes(q, "members", "sent") /\ Answer(q, Rows(members, User))
     \/ Takes(q, "stickers", "sent") /\ Answer(q, Rows(stickers, Sticker))
  /\ UNCHANGED <<tables, wire, store, history>>

(* The request does not reach the server, or its answer the client, or     *)
(* remove_member fails after it has told of the removal.                   *)
RequestLost(q) ==
  /\ ask[q] # Nothing /\ ask[q].at \in {"sent", "told", "answered"}
  /\ Ends(q)
  /\ slips' = [i \in Item |->
                 IF i \in User /\ (ask[q].kind = "members" \/ (ask[q].kind = "remove" /\ ask[q].item = i))
                 THEN slips[i] \cup {"unread"} ELSE slips[i]]
  /\ UNCHANGED <<tables, wire, store, fresh, uses, losses, cut>>

-----------------------------------------------------------------------------
(* Answers *)

(* What an answer read says of i no longer holds, and the event that said  *)
(* so was taken before the answer is.                                      *)
Outdated(got, table, ids) ==
  slips' = [i \in Item |->
              IF i \in ids /\ (Has(got, i) # (i \in table)) /\ ~ ToCome(i)
              THEN slips[i] \cup {"stale"} ELSE slips[i]]

(* mutant of Added: there is no look whether it is listed *)
AddedAlways(rows, i) == [rows EXCEPT ![i] = @ + 1]

Added(rows, i) == IF Has(rows, i) THEN rows ELSE [rows EXCEPT ![i] = @ + 1]
Dropped(rows, i) == IF rows = None THEN rows ELSE [rows EXCEPT ![i] = 0]

Refreshing == Asked("members", General, TRUE)

(* refreshSpaces goes on to refreshMembers and loadSpaceKeys at once.      *)
SpacesListed(q) ==
  /\ Takes(q, "refresh", "answered")
  /\ spaces' = ask[q].got
  /\ Outdated(ask[q].got, channels, Channel)
  /\ \E r \in Request :
       /\ ask[r] = Nothing
       /\ ask' = [ask EXCEPT ![q] = Asked("keys", General, TRUE), ![r] = Refreshing]
  /\ UNCHANGED <<tables, wire, making, keyed, people, list, images, fresh, uses, losses, cut>>

KeysLoaded(q) ==
  /\ Takes(q, "keys", "answered")
  /\ keyed' = (keyed \/ Has(ask[q].got, "key"))
  /\ Ends(q)
  /\ UNCHANGED <<tables, wire, making, spaces, people, list, images, history>>

(* What is too old in an answer is stale unless it will be read again.     *)
MembersListed(q) ==
  LET got == ask[q].got IN
  /\ Takes(q, "members", "answered")
  /\ people' = got
  /\ Ends(q)
  /\ UNCHANGED <<tables, wire, making, keyed, spaces, list, images, fresh, uses, losses, cut>>
  /\ slips' = [i \in Item |->
                 IF i \in User /\ (Has(got, i) # (i \in members)) /\ ~ Ahead(i)'
                 THEN slips[i] \cup {"stale"} ELSE slips[i]]

(* removeMember goes on to refreshMembers (and to the rotation: SpaceKeys). *)
MemberRemoved(q) ==
  /\ Takes(q, "remove", "answered")
  /\ Becomes(q, "members")
  /\ UNCHANGED <<tables, wire, store, history>>

ChannelCreated(q) ==
  /\ Takes(q, "channel", "answered")
  /\ Becomes(q, "refresh")
  /\ UNCHANGED <<tables, wire, store, history>>

StickersListed(q) ==
  /\ Takes(q, "stickers", "answered")
  /\ list' = ask[q].got
  /\ Outdated(ask[q].got, stickers, Sticker)
  /\ Ends(q)
  /\ UNCHANGED <<tables, wire, making, keyed, spaces, people, images, fresh, uses, losses, cut>>

(* addSticker goes on: without a list it makes one of this sticker alone. *)
StickerAdded(q) ==
  LET s == ask[q].item IN
  /\ Takes(q, "add", "answered")
  /\ list' = IF list = None THEN Rows({s}, Sticker) ELSE Added(list, s)
  /\ slips' = [i \in Item |->
                 IF i = s /\ s \notin stickers /\ ~ ToCome(s) THEN slips[i] \cup {"late"}
                 ELSE IF list = None /\ i \in Sticker \ {s} THEN slips[i] \cup {"part"}
                 ELSE slips[i]]
  /\ Ends(q)
  /\ UNCHANGED <<tables, wire, making, keyed, spaces, people, images, fresh, uses, losses, cut>>

(* revokeSticker *)
Revoke(s) ==
  /\ cached' = cached \ {s}
  /\ live' = IF s \in cached THEN [live EXCEPT ![s] = @ - 1] ELSE live

LateLoad(s) == {x \in {"loaded_late"} : loads[s] # "no"}

StickerDeleted(q) ==
  LET s == ask[q].item IN
  /\ Takes(q, "delete", "answered")
  /\ list' = Dropped(list, s)
  /\ Revoke(s) /\ Slipped(s, LateLoad(s))
  /\ Ends(q)
  /\ UNCHANGED <<tables, wire, making, keyed, spaces, people, loads, fresh, uses, losses, cut>>

-----------------------------------------------------------------------------
(* handleEvent *)

OnChannelCreated(c) ==
  /\ spaces' = IF spaces = None THEN spaces ELSE Added(spaces, c)
  /\ UNCHANGED <<ask, list, images, slips>>

(* mutant of OnMemberChange: who joined is expected to ask *)
OnMemberChangeUnread == UNCHANGED <<ask, spaces, list, images, slips>>

(* member_joined, or member_removed of another user: refreshMembers. *)
OnMemberChange ==
  /\ \E q \in Request : ask[q] = Nothing /\ Becomes(q, "members")
  /\ UNCHANGED <<spaces, list, images, slips>>

OnStickerAdded(s) ==
  /\ list' = IF list = None THEN list ELSE Added(list, s)
  /\ UNCHANGED <<ask, spaces, images, slips>>

(* mutant of OnStickerRemoved: the image is kept *)
OnStickerRemovedList(s) ==
  /\ list' = Dropped(list, s)
  /\ UNCHANGED <<ask, spaces, images, slips>>

OnStickerRemoved(s) ==
  /\ list' = Dropped(list, s)
  /\ Revoke(s) /\ Slipped(s, LateLoad(s))
  /\ UNCHANGED <<ask, spaces, loads>>

TakeEvent ==
  /\ events # <<>>
  /\ LET type == Head(events)[1]  i == Head(events)[2] IN
       \/ type = "channel_created" /\ OnChannelCreated(i)
       \/ type \in {"member_joined", "member_removed"} /\ OnMemberChange
       \/ type = "sticker_added" /\ OnStickerAdded(i)
       \/ type = "sticker_removed" /\ OnStickerRemoved(i)
  /\ events' = Tail(events)
  /\ UNCHANGED <<tables, open, making, keyed, people, fresh, uses, losses, cut>>

(* The socket goes with the events in it.  EventSocket opens the next one; *)
(* nothing is asked for again.                                             *)
SocketLost ==
  /\ open /\ losses < MaxLosses /\ losses' = losses + 1
  /\ open' = FALSE /\ events' = <<>>
  /\ slips' = [i \in Item |-> IF \E n \in 1 .. Len(events) : events[n][2] = i
                              THEN slips[i] \cup {"missed"} ELSE slips[i]]
  /\ UNCHANGED <<tables, ask, store, fresh, uses, cut>>

SocketOpens ==
  /\ ~ open
  /\ open' = TRUE
  /\ UNCHANGED <<tables, ask, events, store, history>>

-----------------------------------------------------------------------------
(* stickerUrl and decryptSticker, for an id in the list or in a message *)

ShowSticker(s) ==
  /\ s \notin fresh /\ s \notin cached /\ loads[s] = "no" /\ Used
  /\ loads' = [loads EXCEPT ![s] = "sent"]
  /\ UNCHANGED <<tables, ask, wire, making, keyed, spaces, people, list, cached, live, fresh, losses, cut, slips>>

FetchSticker(s) ==
  /\ loads[s] = "sent"
  /\ loads' = [loads EXCEPT ![s] = IF s \in stickers THEN "read" ELSE "missing"]
  /\ UNCHANGED <<tables, ask, wire, making, keyed, spaces, people, list, cached, live, history>>

UrlMade(s) ==
  /\ loads[s] = "read" /\ keyed
  /\ loads' = [loads EXCEPT ![s] = "no"]
  /\ cached' = cached \cup {s} /\ live' = [live EXCEPT ![s] = @ + 1]
  /\ UNCHANGED <<tables, ask, wire, making, keyed, spaces, people, list, history>>

(* The answer is an error or lost, or there is no key for it. *)
LoadFails(s) ==
  /\ loads[s] # "no"
  /\ loads' = [loads EXCEPT ![s] = "no"]
  /\ UNCHANGED <<tables, ask, wire, making, keyed, spaces, people, list, cached, live, history>>

-----------------------------------------------------------------------------
Asks(q) ==
  \/ AskStickers(q) \/ AskSpaces(q) \/ (\E u \in User : AskJoin(q, u))
  \/ \E here \in BOOLEAN :
       \/ \E c \in Channel : AskChannel(q, c, here)
       \/ \E s \in Sticker : AskAdd(q, s, here) \/ AskDelete(q, s, here)
       \/ \E u \in User : AskRemove(q, u, here)

Handles(q) ==
  \/ WriteRow(q) \/ NothingToWrite(q) \/ SendEvent(q) \/ FanoutFails(q)
  \/ TellRemoval(q) \/ DeleteMember(q) \/ Read(q) \/ RequestLost(q)

Answers(q) ==
  \/ SpaceCreated(q) \/ SpacesListed(q) \/ KeysLoaded(q) \/ ChannelCreated(q)
  \/ MembersListed(q) \/ MemberRemoved(q)
  \/ StickersListed(q) \/ StickerAdded(q) \/ StickerDeleted(q)

Next ==
  \/ CreateSpace \/ SpaceMade \/ KeyUploaded \/ CreateFails
  \/ TakeEvent \/ SocketLost \/ SocketOpens
  \/ \E q \in Request : Asks(q) \/ Handles(q) \/ Answers(q)
  \/ \E s \in Sticker : ShowSticker(s) \/ FetchSticker(s) \/ UrlMade(s) \/ LoadFails(s)

Spec == Init /\ [][Next]_vars

-----------------------------------------------------------------------------
(* Properties *)

(* Every space has its first key, unless its making was cut short between  *)
(* the two requests: then no client will make one.                         *)
SpaceHasKey == made /\ ~ wrapped => cut \/ making = "made"

(* An id is in a list once, whichever of the event, the answer and the     *)
(* list asked for comes first: the pages are keyed by it.                  *)
NoneTwice ==
  /\ spaces # None => \A c \in Channel : spaces[c] <= 1
  /\ list # None => \A s \in Sticker : list[s] <= 1

(* A channel or sticker is shown if and only if it is in the table, once   *)
(* no event about it is to come, unless one of the things named happened:  *)
(* an event was missed with the socket or by a fanout that failed, or      *)
(* overtaken by a later one; an answer came after an event that it was too *)
(* old to know of; or the list was never loaded and has only what was      *)
(* added here.                                                             *)
ChannelsMatch ==
  spaces # None =>
    \A c \in channels \ {General} : ~ ToCome(c) /\ ~ Has(spaces, c)
                                      => slips[c] \cap {"missed", "stale"} # {}

StickersMatch ==
  list # None =>
    \A s \in Sticker : ~ ToCome(s) /\ (Has(list, s) # (s \in stickers))
                         => slips[s] \cap {"missed", "stale", "overtaken", "late", "part"} # {}

(* The list of members is the table's once refreshMembers has nothing to   *)
(* read any more, unless an event was missed, a request failed, an older   *)
(* answer came after a newer one, or member_removed was handled before     *)
(* remove_member had deleted the row.                                      *)
MembersMatch ==
  people # None =>
    \A u \in User : ~ Ahead(u) /\ (Has(people, u) # (u \in members))
                      => slips[u] \cap {"missed", "stale", "early", "unread"} # {}

(* The channels and the stickers shown follow the tables.                  *)
ListsMatch == NoneTwice /\ ChannelsMatch /\ StickersMatch

(* The object URLs that keep an image in memory are those in the map, one   *)
(* each: none is made twice or lost before it is revoked.                  *)
UrlsAreHeld == \A s \in Sticker : live[s] = IF s \in cached THEN 1 ELSE 0

(* An image is kept of a removed sticker only when the removal was missed, *)
(* or came while the image was loading.                                    *)
ImagesOfStickers ==
  \A s \in cached \ stickers : ~ ToCome(s) => slips[s] \cap {"missed", "loaded_late"} # {}

(* The images in memory follow the stickers, and none leaks.               *)
ImagesMatch == UrlsAreHeld /\ ImagesOfStickers
=============================================================================
