# A verification of p2p-voicechats

p2p-voicechats is a voice and text chat for small groups: a Rust server keeps
accounts, spaces, encrypted messages and wrapped keys, and relays signals; the
clients (TypeScript in a Tauri webview) encrypt, hold the keys, and connect to
each other with WebRTC. This directory holds TLA+ models of the parts of it
where order, failure and concurrency matter, the TLC configurations that check
them, and TLAPS proofs of what matters most.

Run a check with `tlc -config MCHub.cfg MCHub` and a proof with
`tlapm HubProofs.tla`.

## 1. The system

### Components

| Component | Source | State | Operations | Hard behaviour |
|---|---|---|---|---|
| Signalling hub | `server/src/ws.rs` | connections of each user, roster of each channel, one task and one queue per connection | register, unregister, call_join, call_leave, leave_all, signal relay, send_many | tasks interleave between critical sections; overlapping connections of one user; restart empties everything |
| Event socket | `client/src/lib/ws.ts` | one WebSocket, listeners, backoff, `closed` | connect, close, send, onEvent, onOpen | silent loss on send, reconnect, half-open connections |
| Call manager | `client/src/lib/call.ts` | mic and screen streams, one RTCPeerConnection per peer with its `makingOffer` flag, last roster | join, leave, startBroadcast, stopBroadcast, handleEvent, handleSignal | rosters out of date, re-join on reopen, negotiation glare, awaits in join and startBroadcast |
| Spaces (server) | `server/src/spaces.rs` | `spaces.current_epoch`, `space_members`, `space_keys`, `invites`, `channels`, `messages` | create_*, list_*, accept_invite, remove_member, upload_keys, fetch_keys, post_message, fetch_messages | each handler takes the database lock several times; uploads are not transactions |
| Store (client) | `client/src/lib/store.svelte.ts` | accounts and connections, spaces, members, keys, messages, stickers, the call | about forty methods, each a chain of awaits | continuations see state that others changed; events race answers |
| Accounts and credentials | `store.svelte.ts`, `credentials.ts`, `src-tauri/src/keychain.rs` | index of servers, secret per server | bootstrap, addServer, importServer, connectAccount, removeServer | two stores written in two steps; removal while connecting |
| Authentication | `server/src/auth.rs`, `state.rs` | users, tokens, challenges | register, challenge, login, user_for_token | a challenge that expires, is used up or is replaced between the two requests of a login |
| Stickers | `server/src/stickers.rs`, `store.svelte.ts`, `StickerPicker.svelte`, `Sticker.svelte` | rows, the client's list, loads under way and object URLs | create, list, fetch, delete, stickerUrl, revokeSticker | events while the list or an image is being fetched |
| Mixer | `client/src/lib/mixer.ts` | gain per peer, source per stream, master gain | setUserStreams, setVolume, setDeafened, close | volumes survive, sources do not leak |
| Database, TURN, crypto, HTTP client, text formatting, views, desktop shell | see `PROJECT.json` | - | - | used by the rest, or pure |

### How they interact

- A client calls the server by HTTP (`api.ts`) and is told of changes by events
  on its socket. Events go to those connected at that moment, once; requests,
  answers and events overtake each other.
- On the server every handler is a task. They share the hub behind one mutex and
  SQLite behind another, and let go of both between statements.
- On the client everything runs in one thread; a method gives way at every
  `await`, and event handlers are started without waiting for each other.
- Clients reach each other through the hub's `signal` and then directly.

### What makes each part correct

- **Hub**: a roster names users who are connected; going offline leaves every
  call; events tell every caller the roster in the end.
- **Call manager**: once nothing is under way, a caller is in the roster of its
  channel, and its peers are the other members of the roster.
- **Keys**: wraps are kept for members only; a wrap once given is final; the
  owner can read every epoch; those who hold an epoch hold the same key; the
  removed member holds none of the keys that follow; the newcomer gets the keys.
- **Messages**: a client that has opened a channel and stays connected shows
  every message of it once, in the server's order, and reads those it has the
  keys of.
- **Call session**: after leaveCall no device is captured and nothing plays; mute
  and deafen say what the tracks do.
- **Negotiation**: an answer is set for the offer it answers, and the two ends come
  to agree on what each sends.
- **Lists**: a space, its channels, its members and its stickers are shown as they
  are in the tables once no news of them is on the way; each is shown once.
- **Stickers**: one object URL for each sticker at most, and none for one that was
  removed.
- **Accounts**: an account in the index has its secret, whatever was interrupted; a
  removed server stays removed; one shown online is connected and kept; the identity
  of the old layout is never lost.
- **Authentication**: a nonce logs in at most once and not after it expired.

`PROJECT.json` lists the hazards of the code at their lines, with the properties
that watch over them.

## 2. Modules

| Module | What it is |
|---|---|
| `CallRoster` | The abstract rosters: connect, join, leave, disconnect, restart, one step each |
| `Agreement` | The abstract negotiation: both ends change, and exchange what they have in one step |
| `AccountBook` | The abstract accounts: kept, migrated and forgotten in one step each, in one place that survives everything |
| `KeyFlow` | The abstract flow of a space's keys: made by the owner, and given only by who has them to who is a member |
| `Hub` | `ws.rs`, one action per critical section of the hub's mutex |
| `Calls` | Extends `Hub` with the event sockets and call managers of the users, and a network that breaks connections |
| `SpaceKeys` | Members, wraps and epochs of one space: the handlers of `spaces.rs`, one action per database lock, with the continuations of `store.svelte.ts` |
| `Messages` | The messages of one channel: `post_message` and `fetch_messages`, and the list of each client, filled by one load of the history and then by events |
| `CallSession` | The call of one client: the call methods of `store.svelte.ts` with the call managers and mixers they make |
| `Accounts` | The accounts of one client: the store, the index, the keychain, the event sockets, and the login at the server; shown to implement `AccountBook` |
| `SpaceView` | What an owner's client shows of a space (channels, members, stickers, images) against the tables of the server and its events |
| `Negotiation` | The two ends of a peer connection: `createPeer` and `handleSignal`, with the browser's queue of operations; shown to implement `Agreement` |
| `HubProofs`, `SpaceKeysProofs`, `MessagesProofs`, `CallSessionProofs`, `AccountsProofs`, `CallsProofs`, `SpaceViewProofs`, `NegotiationProofs` | The theorems |
| `MCHub`, `MCCalls`, `MCSpaceKeys`, `MCMessages`, `MCCallSession`, `MCAccounts`, `MCSpaceView`, `MCNegotiation` | Instances for TLC |

### Hub

`conns`, `calls` and `next_conn` are the fields of `HubInner`; `rx[c]` is the
channel to the writer of connection `c`; `task[c]` is the task running
`handle_socket`: `pc` names the lock it takes next and the other fields are its
locals. `CallJoin`, `ReadLeave`, `LeaveAll`, `Unregister` are the methods of
`Hub`; `SendJoinRoster`, `SendPeerJoined`, `BroadcastLeft`, `BroadcastRoster` the
`send_many` calls that follow them under locks of their own; `SignalCheck` each
of the four checks of a signal. `Deliver` is the writer. `Restart` loses
everything in memory.

Abstractions: `hello` and `pong` have no reader. An id is not used again after a
restart, which keeps a client's old socket apart from its new one. Members of the
space do not change (`Member` is a constant). What the writer had not sent when
the task ended is dropped. `ReadMsg` waits while a queue is longer than
`MaxQueue`, which only bounds the state: the queues of the code are unbounded.

### Calls

`link[u]` is the connection the client believes open, `up[c]` the messages on
their way to the server, `broken` the connections that carry nothing any more.
Each end notices by itself: `SocketClose` (`onclose`) and `ServerNotices` (the end
of the read loop). A break loses a suffix of `up[c]`. `SocketOpen` runs
`onopen` with the listener that re-joins. `HandleEvent` is
`CallManager.handleEvent` with the creation and removal of peers; negotiation is
reduced to signals that a peer may send at any time. A client joins channels of its
spaces only (`Join`), as it lists no others; the hub checks all the same.

`races` records which of six races have happened:

| Race | What happened |
|---|---|
| `stale_roster` | a roster is sent that is no longer the channel's |
| `late_signal` | a signal is relayed for a user who has left |
| `late_leave_all` | `leave_all` runs for a user who is connected again |
| `old_leave` | a `call_leave` is read from a connection that is not the user's newest |
| `old_join` | a `call_join` read from such a connection is carried out, even if the newer one is gone by then |
| `lost_leave` | a `call_leave` is lost with the socket, or never written to it |

The first four break the rosters of those who are in the call: `late_leave_all`
takes out of the roster a user who has just re-joined, and nothing puts it back.
The last two can only leave somebody listed who is no caller any more, until the
user's last connection closes. `MeshFollowsRoster` and the first half of
`RosterIsOfCallers` speak of histories without the four, the second half of those
without any; so the names make the claim exact: nothing else goes wrong. That is checked
on the instance and proved for all. The proof has to say why each
case cannot happen: `old_join`, say, must count a newer connection that is
unregistered already, which takes more connections than the instance has.

### SpaceKeys

`member`, `current` and `wraps` are the tables. A removal is the call of
`removeMember` with the handlers it makes run: `RemoveMember`, `FanoutRemoved`,
`DeleteMember`, `ListRemaining`, `Rotate`, `RotationCheck`, `RotationInsert`,
`RotationDone`, in this order, with anything in between; `RemovalFails` is a lost
request or answer, after which nobody resumes the call. Removals of the owner may
overlap: the dialog's `busy` flag is shared with the invite button, which does
not honour it and clears it. `WrapStart`, `WrapNext`, `WrapInsert` are
`wrapKeysFor`; `FetchKeys`, `LoadKeys` are `loadSpaceKeys`; `DropSpace` is
`member_removed` about oneself. `Commit` and `Abort` are the two ways the insert
closure ends: it is not a transaction, so `Abort` keeps some of the wraps.

Abstractions: `refreshSpaces` is left out, which reads `current_epoch` once more and
loads the keys again when a channel is made or an invite accepted, and puts a new space
object in the place of one that a removal under way goes on to write. The limit of 256 wraps per upload is above any number of members here.
`upload_keys` reads role and epoch, and `fetch_keys` membership and wraps, at one
moment each. Keys are named by the removal that made them; a box is readable by
its addressee and nobody else. Events wait in a set (`jobs`), so they are handled
in any order and equal ones once. A client wraps for one newcomer at a time, in
any order of epochs. The check of a wrap upload is merged with the client's step
before it and the notification with the insert, neither of which anybody can get
between to any effect. The lists of members that clients keep are
left out: only the owner's decides whom to wrap for, and `removeMember` refetches
it; what is shown of them is the subject of `SpaceView`.

Two kinds of newcomer stay without a key. One that joins amid a rotation is given
only the epochs that the others held by then, and `key_request` is sent once; one
that joins while nobody else is connected is asked for by nobody.
`late` records the first: who joined after a rotation under way had listed the members.
`NewcomerGetsKeys` names it, and the run excludes the second, as no socket is lost in it.
`QuietHasKeys` says what comes of all the work together: while no socket or call is lost
and once nothing is under way, every member holds the key of every epoch, but for `late`,
for a user who was or is being removed (`Targeted`) and for the epoch of a rotation that
failed half-way (`RotationFailed`).

`KeyFlow` is the secrecy of all this without the tables, requests and answers: only the
owner makes keys, and a key goes only from a user who has it to one who is a member at
that moment. Who is removed may keep what it has and may even be the one who gives, as
its uploads go on; it is given nothing. `Reach(u)` says what "has" means in the code: the
keys in the client, in a `wrapKeysFor` that goes on after the space was dropped, in an
upload already checked, in an answer on its way, in the owner's rotations, and what the
server keeps wrapped. `KeysReachMembersOnly` is that `SpaceKeys` implements it.

### Messages

`log` is the table. `posting` and `fanning` are the calls of `post_message` that
have drawn their ULID and not inserted, and those that have inserted and not told
the members: the two places where the handler holds no lock. `fetch[c][s]` is a
call of `loadHistory`: asked, then read by the server (`FetchMessages`), then
listed (`LoadHistory`). Loads of one client overlap, because `selectChannel` asks
again while there is no list yet. `queue[c]` is what the socket carries,
`shown[c]` the list, and `ok` in it whether decryption worked when the message
was listed.

A client can miss messages, and messages can overtake each other. The module
records where. `missed[c]` gets a message that had no socket to be sent on or was
lost with it, one that came after the server had read the page and before the
client had a list, one that a slower second load dropped from the list, and one
beyond the page; in the first three cases only when no later page will bring it
(`Skipped`). `overtaken` is set by an insert after a larger ULID, by fanouts in
another order, and by a page with no room for a message still on its way, which
will be appended after newer ones. What the properties claim is that there is
nothing else.

Abstractions: members are constant; the key of an epoch and the signing keys of
its senders are one thing, which a client has or has not (`held`), and which
arrives at any time (`KeyArrives`; when it does is the subject of `SpaceKeys`).
A sender is any member who has the key of some epoch, which may be an old one.
The order of ULIDs is arbitrary, as that of two drawn in one millisecond or
around a change of the clock is. One message is decrypted and listed in one step:
`decryptWire` is asynchronous in name only.

### CallSession

`call`, `mixer` and `preDeafen` are the fields of the store. Each `joinCall` makes
a `CallManager` and an `AudioMixer`, so a call of it, its manager and its mixer
have one name `m`: `join[m]` says where the method waits (for the TURN credentials,
for the microphone), `mgr[m]` is the manager, `plays[m]` and `silent` the mixer.
`pick[s]` is a call of `startBroadcast`, which waits for the picker and then for
the sender settings, and `s` the stream it gets; `live` are the streams that
capture. The actions are the methods, cut at those waits: `JoinCall`,
`TurnCredentials`, `MicGranted` and the failures `TurnFails` and `MicDenied` are
`joinCall`; `BroadcastOn`, `Picked` or `PickRefused`, `Applied` are
`toggleBroadcast` with `startBroadcast`; `Leave`, `ToggleMic`, `ToggleDeafen`,
`BroadcastOff` do not wait. `ShareEnded` is `onended`, `PeersChange` what
`handleEvent` makes of the set of peers, `RemoteTrack` is `ontrack`.

Nothing stops the user between two steps of a method, and a method that goes on
does not ask whether its call is still there. `slips` records what came in
between, and the properties speak of histories without certain slips:

| Slip | What happened |
|---|---|
| `joined_twice` | a `joinCall` while another waits for its credentials |
| `left_joining` | `leaveCall` before `getUserMedia` had answered: the microphone comes for a call that is gone |
| `muted_joining` | the mute or deafen button before there was a microphone |
| `left_picking` | `leaveCall` while `startBroadcast` waits |
| `picked_twice` | a second `startBroadcast` while one waits |
| `stopped_applying` | the broadcast stopped while `applySenderSettings` runs |
| `denied_sharing` | the microphone denied when there already is, or may come, a screen |

`DeafenedIsSilent` is about what the button does at once, the mixer and the flags, in
every history, and about the microphone's track without `muted_joining`: a deafen before
the microphone is granted leaves the track on.

TLC finds a violation as soon as one of the exceptions a property names is
dropped, except for `left_joining` in `BroadcastIsShown`, which takes a third
`joinCall`. So each property tells for which slips the code has no answer, and
that it needs no other.

Abstractions: a set of peers follows another in one step, whatever events made
it; that it follows the roster is the subject of `Calls`. A peer sends one
stream. Volumes, output devices, chimes, statistics and sender settings are left
out. A picker that has given a stream is not used again. A `removeServer` leaves
the call by `leaveCall` too, so it is a `Leave` here.

### Accounts

An id stands for one account: one `addServer`, `importServer` or migration. On the
device, `vault` is the index in localStorage, `secret[a]` what the keychain holds
(nothing, keys without a token, or with one) and `legacy` the layout of the version
with one account. In the store, `shown[a]` is the status of the entry in `servers`,
`conns` the map of connections, `socket[a]` the account's `EventSocket` with its
pending reconnect timer (`backoff`) and its `closed` flag. `step[a]` says where the
chain of awaits of the account stands: `moving` and `moved` are
`migrateLegacyAccount`; `registering`, `storing`, `stored` are `addServer` and the
start of `attachConn`; `reading`, `challenging`, `signing`, `restoring` are
`connectAccount` with `relogin`; `listing`, `loading` the requests of
`refreshSpaces`, which `Promise.all` ends with the first that fails, whose siblings
go on. `asking` are the accounts with requests of the store on the way that belong to
no such chain: those siblings, and what events and the user start once the account is
attached (`refreshSpaces`, `refreshMembers`, `loadSpaceKeys`, `loadHistory`,
`loadStickers`). They look at `conns` before they wait and not after, so `Answered`
writes to the store whatever has become of the account. `Challenge`, `Login`, `NonceExpires` are the server's table of
challenges as one client meets it. `removing` holds the `removeServer` calls that
wait for the keychain. A keychain command may be refused (`SecretRefused`,
`DeleteRefused`), a request fail (`CallFails`, `AskFails`), the client be closed between
any two steps (`Restart`, which ends every request and timer). The migration saves the
index and removes the old keys by calls of localStorage that follow each other with no
wait between; they are one step.

`slips` names the interruptions for which the code has no answer:

| Slip | What happened |
|---|---|
| `cut_storing` | the client was closed between the secret and the index |
| `cut_removing` | the client was closed between the index and the secret |
| `not_deleted` | the keychain refused to delete the secret |
| `removed_connecting` | `removeServer` while a call of the account was under way, which goes on |
| `removed_waiting` | `removeServer` while a reconnect timer was pending: `close()` sets a flag that `connect()` clears |
| `removed_asking` | `removeServer` while a request of the store was on the way: its answer brings members, spaces or messages of the removed server back |

A refusal while `bootstrap` reads the keychain rejects `bootstrap`, which nothing
catches: the client stays on its loading screen although other accounts may be
online. `BootEnds` names that case (`boot = "rejected"`). `StatusIsTrue` says
what an entry that is online stands for, and that every entry is kept once its first
login begins; it does not say that one shown connecting still is, as a failure in
`attachConn` leaves the entry as it was.

`AccountBook` is what the user may expect of all this: accounts that are kept, taken
over from the old layout and forgotten in one step each. An account is kept when the
index names it and the keychain holds its secret. The code writes the two by separate
commands, in an order that is its own for adding, migrating and removing; that this
amounts to the book is `ImplementsBook`. The book has one concession to the code: a
removed account whose calls were under way (`loose`) may come back and go again.

### SpaceView

The client of the owner, and whatever else changes the space: another device of the
owner, and the users who join. `channels`, `members`, `stickers` are the tables.
`ask[q]` is a request with its place on the way: `sent`, `written` (the handler has
committed the row and not sent the event, which `FanoutFails` ends there), `told` (the other way round, as
`remove_member` does it), `answered`. `TakeEvent` is the arm of `handleEvent` for
each event; the actions named after answers (`SpacesListed`, `StickersListed`,
`StickerAdded`, ...) are what follows the `await` of the method that asked.
`CreateSpace`, `SpaceMade`, `KeyUploaded`, `SpaceCreated` are `createSpace`.
`loads`, `cached`, `live` are the loads in `stickerLoads`, the keys of `stickerUrls`
and the object URLs made and not revoked.

A list is kept as how often it has each id, so that an id listed twice shows; an
answer is such a list too, as the table was when it was read. `slips` names what
the code has no answer for:

| Slip | What happened to the id |
|---|---|
| `missed` | an event was sent to no socket, lost with it, or never sent, as `fanout` failed or the server stopped after the row was written |
| `stale` | an answer was taken after the event which told that it is too old |
| `overtaken` | `sticker_added` was sent after the row had been deleted |
| `late` | the answer of `addSticker` was taken after the removal |
| `part` | the list was made by `addSticker` alone, and never loaded |
| `loaded_late` | a sticker was removed while its image was being fetched |
| `early` | all that `member_removed` made this client do was done before `remove_member` deleted the row: "Notify before pulling membership" (`spaces.rs:208`) |
| `unread` | a request for the list of members, or a removal, failed |

Each exception a property names is needed: without it TLC finds a violation.
`early` and `stale` matter beyond the panel, because the list of members is what
names senders and verifies their signatures.

Abstractions: one space, and of a channel, member or sticker only its id. The keys
of the space are one key; the epochs are the subject of `SpaceKeys`. The removed
member's own client drops the space (`SpaceKeys!DropSpace`). A request of the other
device has an answer that this client does not see.

### Negotiation

An end is a `Peer` of `call.ts`: `making[e]` is `makingOffer`, `sig[e]` the
connection's `signalingState`, `ops[e]` the operations the browser has queued for
it (`setLocalDescription`, `setRemoteDescription`), of which the first takes
effect when its turn ends. `NegotiationNeeded` is `onnegotiationneeded`,
`HandleSignal` the part of `handleSignal` before its first `await`, and `OfferSet`,
`AnswerSet`, `RemoteOfferSet`, `RemoteAnswerSet` what follows each. What an end
sends is counted by its changes (`want`), and `told` and `has` say what the last
exchange agreed on.

The collision test reads `makingOffer` and `signalingState`, as the code does. It
has no flag for an answer that is being set, so an offer of the polite end that
comes meanwhile is ignored by the impolite end, and the polite end waits for an
answer that never comes: `crossed` records it, `Settles` holds but for it, and the
run `negotiation_crossed` shows it. The same exception is the only one to `RestsAgreed`:
when nothing runs, is on the way or is due, both ends have all of each other's media.

`Agreement` is what the negotiation promises. Its variables are `want` and `agreed[e]`,
the media of `e` that both ends take for agreed, and one step moves both ends on:
the one to what it wanted at some time since the last exchange, the other to what it
wants or keeps. The refinement takes an answer that is sent for one that is set, so
`agreed[e]` is `told[e]`, or `offered[e]` from the moment its answer is on the way: the
exchange is the answering end's `AnswerSet`, and all else is a stutter. That an offer
which was rolled back or ignored changes nothing, and that no answer brings back older
media, is what it says.

Abstractions: the queue of operations, the implicit rollback and the moments when
`negotiationneeded` fires are the browser's, modelled as the code relies on them.
An answer may or may not carry the answering end's own changes. ICE candidates are
left out, and so are connections made anew during the exchange.

## 3. Runs

| Run | Instance | Checks | Shows |
|---|---|---|---|
| `hub` | 2 users, 2 channels, 2 connections | `NoGhostInRoster`, `ImplementsRosters`, `OfflineLeaves` | the hub implements `CallRoster`; no ghost outlives its `leave_all` |
| `calls` | 2 users, 1 channel, 3 connections, 2 joins, 1 signal | `MeshFollowsRoster`, `RosterIsOfCallers` | outside the named races rosters are the callers, and the mesh is the roster |
| `keys` | 3 users, 1 removal, 1 join | `QuietHasKeys`, `WrapsOfMembersOnly`, `KeysReachMembersOnly`, `NewcomerGetsKeys` | uploads and removals in every order; keys implement `KeyFlow`; a newcomer is given the key and members hold every epoch's while sockets stay up |
| `keys_rotations` | 3 users, 2 removals, 2 losses | `OwnerHasEveryEpoch`, `OneEpochPerKey`, `KeysAgreeUnlessCollided`, `RemovedCannotRead`, `FirstWrapWins` | what survives racing and half-done rotations |
| `keys_offline` | 3 users, 1 removal, 1 loss | `NewEpochInUse`, violated | a missed `keys_updated` is never made up for |
| `messages` | 1 client, 3 messages, pages of 2, 2 loads at once, 1 loss | `ShownOnce`, `NothingElseMissed`, `ShownInOrder`, `PagesTile`, `PostedIsShown` | lists are complete and in order but for the named cases |
| `messages_newcomer` | 1 client, 1 message | `NewMembersReadHistory`, violated | history listed before its key comes stays unreadable |
| `call_session` | 2 joinCalls, 2 broadcasts, 1 other user | `OnlyTheCallListens`, `OnlyTheCallCaptures`, `MutedIsMute`, `DeafenedIsSilent`, `BroadcastIsShown`, `PeersAreSentAll`, `PeersAreHeard` | what is captured, sent, heard and shown agrees but for the named slips |
| `accounts` | 2 accounts, 1 restart | `StatusIsTrue`, `DeviceAgrees`, `ForgottenIsGone`, `LegacyKept`, `ImplementsBook`, `BootEnds` | store, index, keychain and sockets agree but for the named interruptions, and amount to one book of accounts |
| `space_view` | 2 stickers, 2 channels, 1 other user, 2 requests at once, 3 uses, 1 lost socket | `SpaceHasKey`, `ListsMatch`, `MembersMatch`, `ImagesMatch` | lists follow the tables and images the stickers but for the named races |
| `negotiation` | 2 ends, 3 changes each | `AnswersMatch`, `RestsAgreed`, `ImplementsAgreement`, `Settles` | offers and answers amount to exchanges in one step, and offers that cross are settled but for one crossing |
| `negotiation_crossed` | 2 ends, 2 changes each | `RenegotiatesSafely`, violated | an offer ignored while an answer is being set is never made up for |

### Bounds

- Two connections are what `unregister` tells apart (the last one, or not);
  two channels let `leave_all` go through a list. In `Calls` the third
  connection is the one a user reconnects on while the other stays.
- Two joins let both users be in the call, or one leave and join again. One
  signal is enough to create a peer from an unknown sender.
- Two removals are what it takes to collide or to meet a half-done epoch;
  `MaxEpoch` is one more than the removals and never binds. Joins and rotations
  are both present in `keys`; with two removals and a join at once the instance
  is too large to explore, so the properties about several rotations are checked
  without newcomers; the proofs have no such bound.
- Clients of a channel share the server's tables only, so one shows what a list
  can lack. Three messages and a page of two give a full page, a message beyond
  it and one that comes later; two loads can answer in either order, and one loss
  is a socket or the server.
- Two `joinCall`s and two `startBroadcast`s are what it takes to overlap, and to
  start anew after the first has ended. One other user comes, is heard, goes and
  comes again, before and after the microphone and the screen. The proofs have no
  such bounds.
- Two accounts overlap in every stage, one of them may be the migrated one, and one
  restart falls between any two steps and finds what they left. One request of an account
  stands for any number: the first answer after its removal leaves the mark.
- In `space_view` two requests at once are what it takes for answers to overtake each
  other or an event, for a listing to overlap a change of the other device, and for
  `refreshMembers` to be called twice; three uses make, remove and list again. The
  second sticker makes `part` possible; ids are not drawn again. One loss of the
  socket is followed by a new one, on which nothing is asked for again.
- The first change of an end is the microphone; two more let it change again while
  the exchange about the last one is under way. The crossing needs one.
- Deadlock is not checked: users may stop calling or posting, and bounded joins, losses,
  broadcasts and removals run out.

`MCCalls` uses the symmetry of the two users, and a view that hides what is
queued for a broken connection, which nobody will read; `NoRace` cuts behaviours
at the first race, after which its invariants say nothing. `keys_rotations` uses
the symmetry of the removals, `call_session` that of the managers and of the
streams, `space_view` that of the requests; none of them checks liveness.

### Fairness

- `HubLiveSpec`: weak fairness of each task. The runtime polls a task that can
  run, and between reading a message and being done with it a task waits for
  mutexes only. Clients and connections owe nothing.
- `SpaceKeys!LiveSpec`: weak fairness of the handlers and continuations of each
  call, of answering an event, and of reconnecting (the backoff timer). Users owe
  nothing: they need not remove or join.
- `Messages!LiveSpec`: weak fairness of the rest of `post_message` once the ULID
  is drawn, of answering a history request and listing the page, of handling the
  next event, and of reconnecting. Nobody has to post, to open the channel, or to
  wrap a key for the client.
- `Accounts!LiveSpec`: weak fairness of bootstrap and of each account's calls. Each of
  them waits for the keychain or for a request, and both answer or fail. Users owe
  nothing, and sockets need not open.
- `Negotiation!LiveSpec`: weak fairness of each end: queued operations end, signals
  arrive, `negotiationneeded` fires when it is due. Nobody has to change anything.
- `SpaceView` assumes none: its properties are about what is shown once nothing is on
  the way.
- `CallSession` assumes none: its properties say what never happens, and whoever
  waits there waits for a person.

## 4. Proofs

Everything below is proved for all values of the constants, from the assumptions
named in `Hub` (`NilIsNew`, `MemberIsRelation`, `BoundsAreNat`), in `SpaceKeys`
(`OwnerIsMember`, `KeysDiffer`, `BoundsAreNat`), in `Messages` (`BoundsAreNat`,
`PageSizeIsPositive`), in `CallSession` (`NoneIsNew`, `MicIsNoStream`), in
`Accounts` (`RestartsIsNat`), in `SpaceView` (`GeneralIsChannel`, `KindsDiffer`,
`BoundsAreNat`) and in `Negotiation` (`ChangesIsPositive`).

- `HubTypeCorrect`, `NoGhosts`, `HubImplementsRosters`. The invariant `IInv` adds
  to the types that ids not handed out name nothing, that a task that reads or
  answers messages holds a registered connection, and that the locals a step will
  use are set. The second is what keeps a ghost out: `CallJoin` lists a user who
  still has the very connection the message came from. The refinement maps a user
  with a `leave_all` pending to one already out of every call, so `Unregister` of
  the last connection is the abstract `Disconnect` and `LeaveAll` is a stutter.
  A user who comes back and joins before that `LeaveAll` counts as out all the
  same, and is: the join is a stutter too, and the pending `LeaveAll` undoes it.
- `KeysTypeCorrect`. The types need `RequestsInEpoch`: a request that passed the
  server's check names an epoch of the space, also when it is inserted much later.
- `FirstWrapStays`, `WrapsAreMembers`. Both rest on `WrapsStep`, which says who
  may change the wraps: an insert keeps what was there and adds for members only,
  a removal takes away its target's.
- `OwnerReadsAll`. `current` may go back (a slow rotation commits after a later
  one), so the invariant speaks of the requests themselves: one that may move the
  epoch was checked when the owner had every epoch before it
  (`RotationsAreBacked`, `WrappingsAreBacked`), includes the owner, and the
  owner's wraps never go away because the owner is never a target
  (`OwnerIsBacked`, `BackedStays`).
- `KeysHaveOneEpoch`, `KeysAgreeOrCollide`, `RemovedReadNothingNew`. `KeysAreFiled` says
  of every row (held, wrapped, on its way, kept for wrapping) that a key lies under the
  epoch its removal counted, and that the owner has a wrap of every epoch before. The
  removal counts once (`RequestStays`), so two keys of one epoch are two removals that
  counted the same: `Collided`. For the removed user the argument is about time: what it
  holds it was given before it was deleted, so before the removal counted. If that is of
  the counted epoch or a later one, the owner's client was behind the server when it
  counted, and the epoch it counted had a key already (`LateCountCollides`); from then
  on the user is given nothing (`LacksStays`).
- `QuietMembersHoldKeys`. A key reaches a member by four steps of three actors, so the
  invariant `GivenInv` says of each member that stays where the key of an epoch is. The
  owner holds it or has it in a rotation about to be done (`OwnerHolds`); the member has
  a wrap, or the owner is to make one and will not pass it over (`WrapsAreOwed`: the
  member is being announced, or waits in the owner's work, or is the one wrapped for and
  the epoch not tried yet); and what is wrapped is held, or a load will read it, or an
  answer has it (`WrapsAreLoaded`). A rotation that raises the epoch is for every member
  that stays (`RotationsReach`). The epoch may also move by a wrap of the owner's, and
  then a rotation to it has failed before: `EpochMovesOn`, which needs that two removals
  have not collided, shows that the epoch moves by one and by one actor at a time, and
  `EpochsAreRotated` that each epoch the owner has a wrap of was some removal's.
- `KeysFlow`: `SpaceKeys` implements `KeyFlow`. `ReachGrows` reduces a step to the six
  places a key can be in, and `FlowMoves` to the abstract step; then loads, answers and
  dropped spaces are steps that give nothing, `Rotate` is the only one that makes a key,
  which is fresh by the invariant of `KeysHaveOneEpoch` (`FreshIsUnknown`), and the two
  inserts are the only ones that give, also when they stop half-way (`InsertGives`).

- `MessagesTypeCorrect`, `NoMessageTwice`, `ListsAreComplete`. The invariant `Inv`
  adds to the three properties that ids are unique among rows and calls
  (`IdsUnique`, so that comparing ids is comparing messages), that pages, queues
  and lists hold rows only (`FromLog`), and two accounts of where a row can be.
  `PagesAccount` is about a page on its way: each row is on it, on the list it
  will replace, among the missed, still to be sent or waiting in the client's
  queue. `ListsAccount` is the same
  about an opened list, and `LoadHistory` turns the one into the other. That a
  page which is read accounts for every row (`PageOrBeyond`: a row is on the page
  or older than all of a full one) takes a largest row that is not on it, which a
  finite set has; the library's well-foundedness of finite subsets gives it.
- `CursorTiles`, `ListsInOrder`. `PagesTile` is a fact about the operators in every
  state where ids are unique: a page that is not empty has an oldest row
  (`OldestExists`), and what is older than it is older than all of the page. For the
  order, `OrderInv` adds to `Inv` that, as long as nothing has overtaken, queues and
  lists ascend (`QueuesAscend`, `ListsAscend`) and that what is on its way to a client
  can be put behind its list and behind each page it will list (`ListsFollowed`,
  `PagesFollowed`): each such message is on it already or newer than all of it. The
  exception is a row that is `Late`, one that waits while a newer row has been sent:
  sending it is what sets `overtaken`. That a row is inserted and sent once
  (`SentOnce`) keeps a row that was sent from coming back as one to be sent.

- `SessionTypeCorrect`, `OnlyCallListens`, `OnlyCallCaptures`, `MuteIsTrue`,
  `DeafenIsTrue`, `BroadcastIsTrue`, `AllPeersAreSent`, `AllPeersAreHeard`: every
  property of the run, for any number of `joinCall`s, broadcasts and users. The
  invariant `Inv` adds what relates the three places that keep the state of a
  call: the mixer is the call's (`MixerOfCall`), a manager not yet joined is
  untouched (`FreshAttempts`), microphone, socket and peers come and go together
  (`ManagersAgree`), a stream belongs to the manager it was picked for
  (`PicksAreOwned`). Without the slips concerned, a `joinCall` that waits for the
  microphone is that of the call (`OneJoins`), a picker that waits is the call's
  (`PicksOfCall`) and the only one (`OnePick`), and the panel is behind the stream
  only while `startBroadcast` waits (`BroadcastStarts`). First come lemmas that
  say what each action does to a manager, then for each part of `Inv` one lemma
  with a step per action that can disturb it.

- `AccountsTypeCorrect`, `StatusIsAlwaysTrue`, `DeviceAlwaysAgrees`,
  `ForgottenStaysGone`, `LegacyIsNeverLost`: every safety property of the run, for any
  number of accounts and restarts. The invariant `AccountsInv` relates the four places
  that know of an account. `CallsFit` says where each chain of awaits can be: the
  screen follows `bootstrap` (`BootFits`), a step that writes the index has its
  secret behind it and one that logs in has its connection (`StepsFit`), only one
  migration is under way (`OneMoves`), an id not drawn is known nowhere
  (`FreshIsNew`), a removal under way has forgotten all but the secret
  (`RemovalsFit`), and an account is attached as long as its call goes on unless it was
  removed meanwhile (`AttachedOrRemoved`). `SecretsFit` says that only a removal takes
  a secret away, which is what keeps the index from naming a lost one; `OnlineIsIdle`
  that an account comes online by the last step of its call; `GoneStaysGone` that neither a
  call nor a request of a removed server is left to bring it back, unless it was removed
  while connecting or asking. With these, each property is kept by every action.

- `AccountsAreABook`: `Accounts` implements `AccountBook`, step by step. It rests on
  `AccountsInv` and on `MovesAreFirst`, that the index is empty while the migration
  runs, without which the migration would strike out other accounts. The command that
  completes an account, which is the second one of the two, is the book's step; the
  others stutter.
- `LoadingHasWork`, `LoadingGoesOn`: what `BootEnds` rests on besides fairness. Behind the
  loading screen there is always a call under way, or the next step is `bootstrap`'s own,
  or it was rejected (`BootHasWork`); and a step of a call brings it nearer to its end,
  of which it is at most six steps away (`BootGoesOn`).

- `TypeCorrect`, `KeyOfSpace`, `ListsFollow`, `MembersFollow`, `ImagesFollow`: every
  property of the run, for any number of channels, stickers, users, requests, uses and
  losses. `ListsMatch` and `ImagesMatch` speak of moments when nothing is on the way,
  and so are not inductive. The invariant `Inv` says instead, for each way the client
  can differ from the tables, what is still to come: `Told(kind, i)`, a row that is
  written and not told of or an event that waits in the queue, or else a named slip.
  There is one part for each difference: a sticker gone and shown (`ShownRemoved`), one
  there and not shown (`NotShownThere`), a channel not shown (`ChannelsKnown`), an image
  of a sticker that is gone (`ImagesKnown`). `ToldKept` says that what is told stays so
  until the client takes it. The order of events matters for one case, the addition of
  a sticker that is deleted again: what is on its way of it is followed by the removal
  (`AdditionsUndone`), because a handler tells of its row after it has written it and an
  addition told late is the slip `overtaken`. That also needs that a sticker is deleted
  once and not drawn again (`RemovedOnce`, `UnbornIsUnknown`). `UrlsAreHeld` is the leak:
  there is one object URL for each image in the map, and none for others.

- `CallsTypeCorrect`, `CallsImplementRosters`, `ListedAreCallers`, `MeshIsRoster`, of clients and hub
  together, for any number of users, connections, breaks and restarts (assumptions of
  `Hub`, and `ClientBoundsAreNat`). A hub with these clients is a hub with some clients
  (`NextIsHub`), so `IInv` and the refinement carry over; `HubProofs` is about
  `TakeMsg`, which has no bound on the queues, for that. `Base` adds what relates the
  two ends of a connection: the server serves what a client believes open until it
  breaks (`LiveIsServed`), and that is the newest connection of its user
  (`LinkIsNewest`). A caller is listed, or its last word in the connection is a
  `call_join`, or the server is carrying that out (`CallersListed`): reopening puts
  the `call_join` there (`OpenAsks`), and only a `call_leave` behind it, an old
  connection or a late `leave_all` could take the effect away, each of which is a race
  or the user's own doing. In the other direction, whoever is listed and is no caller
  has a `call_leave` on its way over its newest connection (`ListedUndone`), and what
  that connection still asks for, it takes back (`JoinsUndone`). For the mesh,
  `CallersFollow` says what stands between a caller and the roster: its join is still
  to be carried out, or some task has a roster of the channel to send (`Pending`), or
  the events in its queue will bring it up to date (`Settled`): none of them changes
  anything, or one is the roster of now and none after it changes anything. Whoever
  changes a roster has it to send (`ChangeIsPending`), and the last one sent is the
  roster of that moment or a race (`PendingEnds`). A signal adds a peer, so it must not
  come from the client itself: that is `NoSelf`, which has to be followed through
  connections, tasks and queues.

- `NegotiationTypeCorrect`, `AnswersAlwaysMatch`, `RestsInAgreement`,
  `NegotiationExchanges`, for any number of changes at the two
  ends. That an answer answers the offer its end waits with depends on all four queues
  (operations and signals of both ends), so the invariant `InPhase` names the phases an
  exchange can be in. With one end waiting, its offer is on its way, will be set, is
  being answered, is answered, or its answer will be set (`Asked`, `Taken`, `Told`,
  `Answered`, `Accepts`). With both waiting, the same for the impolite end's offer or
  for the answer that it is to set (`CrossedAsked`, `CrossedTaken`, `CrossedAnswered`,
  `CrossedAccepts`). What is left are `Settled` and `Ignored`, where the polite end
  waits for an answer that will not come. A lemma for each phase goes through who can
  act and finds the phase that follows; signals that arrive in the order they were sent
  keep a queue to two operations and three signals. The phases also carry what the
  descriptions are about: an offer has the media the other end is still to be told of,
  an answer the media its sender takes for agreed (`OfferOf`, `AnswerTo`), and before and
  after an exchange each end has what the other takes for agreed (`Level`), so rest is
  agreement. For the refinement, `Bounds` says that an end never goes back behind what
  it has told, and `Awaited` that at most one answer is on the way and its offer's media
  wait there: only `AnswerSet` moves `agreed`, and it moves both ends (`AccordStep`).

Only model-checked: liveness (`OfflineLeaves`, `NewcomerGetsKeys`, `PostedIsShown`,
`BootEnds`, `Settles`), which the prover does not reach.

## 5. Plan

1. Peer connections of two generations: an end that is made anew by a reconnect while
   the other keeps its own. `Calls` has the peers and `Negotiation` the descriptions;
   the composition of both is what is missing.
2. Lists of members in `Messages`, so that a message of a removed member, or of one
   whose `member_joined` is still being handled, is one that cannot be verified.
3. A mute or deafen before the microphone is granted: `toggleDeafen` is commented
   as forcing the microphone muted (`store.svelte.ts:838`), and the slip
   `muted_joining` is where it does not (`DeafenedIsSilent` and `MutedIsMute` name it). A run of its own would show it.

## 6. Not modelled

- TURN credentials, the cryptography itself (taken as perfect), formatting of message
  text, link previews, the texts of HTTP errors, the layout of the views and the
  desktop shell: they keep no state that is shared, or only show it.
- Which server, space and channel is selected, and the emoji menu of the composer:
  they follow the lists, and nothing else depends on them.
- Invites: their expiry is compared once, in the statement that reads the row. Tokens
  do not end, and the limit on users is checked once, when one registers.
- ICE candidates: they change neither `signalingState` nor what is agreed.
- Peer connections of two generations meeting, and whether a message can be verified
  with the list of members there is: see the plan.
