------------------------------ MODULE Accounts ------------------------------
(***************************************************************************)
(* The accounts of one client (client/src/lib/store.svelte.ts): adding,    *)
(* importing, connecting at start and removing a server, over the two      *)
(* places that keep an account on the device (credentials.ts: the index in *)
(* localStorage, the secrets in the keychain), the login at the server     *)
(* (server/src/auth.rs) and the account's event socket (ws.ts).            *)
(*                                                                         *)
(* A step is what runs between two awaits, one keychain command or one     *)
(* handler of the server; keychain commands and requests may fail, and the *)
(* client may be closed, or crash, between any two steps.                  *)
(***************************************************************************)
EXTENDS Naturals

CONSTANTS Account,     \* account ids: each names one addServer, import or migration
          MaxRestarts  \* bound: times the client is closed and started again

ASSUME RestartsIsNat == MaxRestarts \in Nat

VARIABLES
  (* on the device *)
  legacy,    \* the keys of the single-account layout are there
  vault,     \* ids in the index
  secret,    \* id -> what the keychain has for it
  (* at the servers *)
  users,     \* identities registered
  nonces,    \* identities with a live challenge
  asking,    \* ids with other requests of the store on the way, or their answers
  (* in the store *)
  phase,     \* AppStore.phase
  boot,      \* how far bootstrap has come
  booting,   \* connectAccount calls under way
  step,      \* id -> where its attachConn, connectAccount or migration waits
  removing,  \* removeServer calls that wait for the keychain
  shown,     \* id -> its entry in servers, by status
  conns,     \* ids in the map of connections
  socket,    \* id -> its EventSocket
  data,      \* ids with spaces, members, messages, keys or stickers in the store
  (* history *)
  fresh,     \* ids not drawn yet
  migrated,  \* ids drawn for the old layout's account
  forgotten, \* ids of servers the user has removed
  slips,     \* id -> what came in between
  restarts

device  == <<legacy, vault, secret>>
server  == <<users, nonces, asking>>
calls   == <<boot, booting, step, removing>>
view    == <<phase, shown, conns, socket, data>>
history == <<fresh, migrated, forgotten, slips, restarts>>
vars    == <<device, server, calls, view, history>>

Secret == {"none", "key", "token"}    \* AccountSecret: with no token yet, or with one
Step == {"idle", "moving", "moved", "registering", "storing", "stored", "reading",
         "challenging", "signing", "restoring", "listing", "loading"}
Status == {"absent", "connecting", "online", "offline"}
Socket == {"none", "opening", "open", "backoff", "closed"}
Slip == {"cut_storing", "cut_removing", "not_deleted",
         "removed_connecting", "removed_waiting", "removed_asking"}

TypeOK ==
  /\ legacy \in BOOLEAN /\ vault \subseteq Account /\ secret \in [Account -> Secret]
  /\ users \subseteq Account /\ nonces \subseteq Account /\ asking \subseteq Account
  /\ phase \in {"loading", "onboarding", "main"}
  /\ boot \in {"start", "migrating", "connecting", "done", "rejected"}
  /\ booting \subseteq Account /\ removing \subseteq Account
  /\ step \in [Account -> Step] /\ shown \in [Account -> Status]
  /\ conns \subseteq Account /\ socket \in [Account -> Socket] /\ data \subseteq Account
  /\ fresh \subseteq Account /\ migrated \subseteq Account /\ forgotten \subseteq Account
  /\ slips \in [Account -> SUBSET Slip] /\ restarts \in 0 .. MaxRestarts

(* The first start of this version, after one for a single account or not; *)
(* identities with a backup are registered already.                        *)
Init ==
  /\ legacy \in BOOLEAN /\ vault = {} /\ secret = [a \in Account |-> "none"]
  /\ users \in SUBSET Account /\ nonces = {} /\ asking = {}
  /\ phase = "loading" /\ boot = "start" /\ booting = {} /\ removing = {}
  /\ step = [a \in Account |-> "idle"] /\ shown = [a \in Account |-> "absent"]
  /\ conns = {} /\ socket = [a \in Account |-> "none"] /\ data = {}
  /\ fresh = Account /\ migrated = {} /\ forgotten = {}
  /\ slips = [a \in Account |-> {}] /\ restarts = 0

-----------------------------------------------------------------------------
Goes(a, from, to) == step[a] = from /\ step' = [step EXCEPT ![a] = to]

(* upsertServer and patchServer: the second only finds what is listed. *)
Upserted(a, status) == shown' = [shown EXCEPT ![a] = status]
Patched(a, status) ==
  shown' = IF shown[a] = "absent" THEN shown ELSE [shown EXCEPT ![a] = status]

Slipped(a, S) == slips' = [slips EXCEPT ![a] = @ \cup S]

-----------------------------------------------------------------------------
(* bootstrap *)

(* migrateLegacyAccount, up to its wait for the keychain. *)
MigrateLegacy(a) ==
  /\ boot = "start" /\ vault = {} /\ legacy
  /\ a \in fresh
  /\ boot' = "migrating" /\ Goes(a, "idle", "moving")
  /\ fresh' = fresh \ {a} /\ migrated' = migrated \cup {a}
  /\ UNCHANGED <<device, server, booting, removing, view, forgotten, slips, restarts>>

(* The old layout may have no token. *)
MoveSecret(a) ==
  /\ Goes(a, "moving", "moved")
  /\ \E s \in {"key", "token"} : secret' = [secret EXCEPT ![a] = s]
  /\ UNCHANGED <<legacy, vault, server, boot, booting, removing, view, history>>

(* mutant of MoveIndex: the old keys go although the index is not saved *)
MoveIndexUnsaved(a) ==
  /\ Goes(a, "moved", "idle")
  /\ legacy' = FALSE /\ boot' = "start"
  /\ UNCHANGED <<vault, secret, server, booting, removing, view, history>>

(* saveVault and the removal of the old keys, two calls of localStorage    *)
(* with no wait between them.                                              *)
MoveIndex(a) ==
  /\ Goes(a, "moved", "idle")
  /\ vault' = {a} /\ legacy' = FALSE /\ boot' = "start"
  /\ UNCHANGED <<secret, server, booting, removing, view, history>>

StartEmpty ==
  /\ boot = "start" /\ vault = {} /\ ~ legacy
  /\ boot' = "done" /\ phase' = "onboarding"
  /\ UNCHANGED <<device, server, booting, step, removing, shown, conns, socket, data, history>>

(* connectAccount of every account at once, up to the read of its secret. *)
StartConnecting ==
  /\ boot = "start" /\ vault # {}
  /\ boot' = "connecting" /\ booting' = vault
  /\ step' = [a \in Account |-> IF a \in vault THEN "reading" ELSE step[a]]
  /\ shown' = [a \in Account |-> IF a \in vault THEN "connecting" ELSE shown[a]]
  /\ UNCHANGED <<device, server, removing, phase, conns, socket, data, history>>

(* mutant of BootDone: it waits for every account to be online *)
BootDoneOnline ==
  /\ boot = "connecting" /\ \A a \in vault : shown[a] = "online"
  /\ boot' = "done" /\ phase' = "main"
  /\ UNCHANGED <<device, server, booting, step, removing, shown, conns, socket, data, history>>

BootDone ==
  /\ boot = "connecting" /\ booting = {}
  /\ boot' = "done" /\ phase' = "main"
  /\ UNCHANGED <<device, server, booting, step, removing, shown, conns, socket, data, history>>

(* getSecret answered: nothing, or the identity to log in with. *)
SecretMissing(a) ==
  /\ secret[a] = "none"
  /\ Goes(a, "reading", "idle") /\ booting' = booting \ {a}
  /\ Patched(a, "offline")
  /\ UNCHANGED <<device, server, boot, removing, phase, conns, socket, data, history>>

SecretRead(a) ==
  /\ secret[a] # "none"
  /\ Goes(a, "reading", "challenging") /\ conns' = conns \cup {a}
  /\ UNCHANGED <<device, server, boot, booting, removing, phase, shown, socket, data, history>>

(* The keychain refuses, outside of connectAccount's try: Promise.all      *)
(* rejects, and with it bootstrap.  So it does when the migration's write  *)
(* is refused.                                                             *)
SecretRefused(a) ==
  /\ step[a] \in {"reading", "moving"}
  /\ step' = [step EXCEPT ![a] = "idle"] /\ booting' = booting \ {a}
  /\ boot' = "rejected"
  /\ UNCHANGED <<device, server, removing, view, history>>

-----------------------------------------------------------------------------
(* addServer, importServer, attachConn *)

(* attachConn, up to the first persistSecret. *)
Attach(a) ==
  /\ conns' = conns \cup {a} /\ Upserted(a, "connecting")

AddServer(a) ==
  /\ phase # "loading" /\ a \in fresh \ users
  /\ fresh' = fresh \ {a} /\ Goes(a, "idle", "registering")
  /\ UNCHANGED <<device, server, boot, booting, removing, view, migrated, forgotten, slips, restarts>>

(* register: the identity is the client's own, so it is new to the server. *)
Register(a) ==
  /\ Goes(a, "registering", "storing")
  /\ users' = users \cup {a}
  /\ Attach(a)
  /\ UNCHANGED <<device, nonces, asking, boot, booting, removing, phase, socket, data, history>>

ImportServer(a) ==
  /\ phase # "loading" /\ a \in fresh
  /\ fresh' = fresh \ {a} /\ Goes(a, "idle", "storing")
  /\ Attach(a)
  /\ UNCHANGED <<device, server, boot, booting, removing, phase, socket, data,
                 migrated, forgotten, slips, restarts>>

StoreSecret(a) ==
  /\ Goes(a, "storing", "stored")
  /\ secret' = [secret EXCEPT ![a] = "key"]
  /\ UNCHANGED <<legacy, vault, server, boot, booting, removing, view, history>>

SaveIndex(a) ==
  /\ Goes(a, "stored", "challenging")
  /\ vault' = vault \cup {a}
  /\ UNCHANGED <<legacy, secret, server, boot, booting, removing, view, history>>

-----------------------------------------------------------------------------
(* relogin, and what attachConn and connectAccount do after it *)

(* challenge: the nonce is for one use within its time.  The client signs  *)
(* it and sends the login.                                                 *)
Challenge(a) ==
  /\ Goes(a, "challenging", "signing")
  /\ nonces' = nonces \cup {a}
  /\ UNCHANGED <<device, users, asking, boot, booting, removing, view, history>>

NonceExpires(a) ==
  /\ a \in nonces
  /\ nonces' = nonces \ {a}
  /\ UNCHANGED <<device, users, asking, calls, view, history>>

(* login uses the nonce up, then looks for the user and checks the         *)
(* signature.  The client takes the token and writes it to the keychain.   *)
Login(a) ==
  /\ a \in nonces /\ a \in users
  /\ Goes(a, "signing", "restoring")
  /\ nonces' = nonces \ {a}
  /\ UNCHANGED <<device, users, asking, boot, booting, removing, view, history>>

(* A call that fails: connectAccount shows the account offline, attachConn *)
(* leaves the entry as it is.                                              *)
Failed(a) ==
  /\ step' = [step EXCEPT ![a] = "idle"]
  /\ booting' = booting \ {a}
  /\ IF a \in booting THEN Patched(a, "offline") ELSE UNCHANGED shown

LoginRefused(a) ==
  /\ step[a] = "signing"
  /\ ~ (a \in nonces /\ a \in users)
  /\ nonces' = nonces \ {a}
  /\ Failed(a)
  /\ UNCHANGED <<device, users, asking, boot, removing, phase, conns, socket, data, history>>

(* A request or its answer is lost, the server refuses it, or the keychain *)
(* refuses the write.  Of the requests for members and keys the first that *)
(* fails ends the wait for all, and the others go on.                      *)
CallFails(a) ==
  /\ step[a] \in {"registering", "storing", "challenging", "signing",
                  "restoring", "listing", "loading"}
  /\ Failed(a)
  /\ users' = users \/ (step[a] = "registering" /\ users' = users \cup {a})
  /\ nonces' = nonces \/ (step[a] = "signing" /\ nonces' = nonces \ {a})
  /\ asking' = asking \/ (step[a] = "loading" /\ asking' = asking \cup {a})
  /\ UNCHANGED <<device, boot, removing, phase, conns, socket, data, history>>

(* connectSocket, and the end of attachConn and of connectAccount. *)
Connected(a) ==
  /\ step' = [step EXCEPT ![a] = "idle"]
  /\ booting' = booting \ {a}
  /\ socket' = [socket EXCEPT ![a] = "opening"]
  /\ Patched(a, "online")
  /\ phase' = IF a \in booting THEN phase ELSE "main"

(* mutant of StoreToken: the status is set as soon as there is a token *)
StoreTokenOnline(a) ==
  /\ secret' = [secret EXCEPT ![a] = "token"]
  /\ vault' = IF a \in booting THEN vault ELSE vault \cup {a}
  /\ IF a \in conns
     THEN Goes(a, "restoring", "listing") /\ Patched(a, "online")
          /\ UNCHANGED <<booting, phase, socket>>
     ELSE step[a] = "restoring" /\ Connected(a)
  /\ UNCHANGED <<legacy, server, boot, removing, conns, data, history>>

(* persistSecret answered; attachConn saves the index again.  refreshSpaces *)
(* asks for nothing when the connection is gone.                           *)
StoreToken(a) ==
  /\ secret' = [secret EXCEPT ![a] = "token"]
  /\ vault' = IF a \in booting THEN vault ELSE vault \cup {a}
  /\ IF a \in conns
     THEN Goes(a, "restoring", "listing") /\ UNCHANGED <<booting, phase, shown, socket>>
     ELSE step[a] = "restoring" /\ Connected(a)
  /\ UNCHANGED <<legacy, server, boot, removing, conns, data, history>>

(* listSpaces answered; members and keys are asked for next. *)
ListSpaces(a) ==
  /\ data' = data \cup {a}
  /\ IF a \in conns
     THEN Goes(a, "listing", "loading") /\ UNCHANGED <<booting, phase, shown, socket>>
     ELSE step[a] = "listing" /\ Connected(a)
  /\ UNCHANGED <<device, server, boot, removing, conns, history>>

(* The last of these is answered. *)
Load(a) ==
  /\ step[a] = "loading"
  /\ data' = data \cup {a}
  /\ Connected(a)
  /\ UNCHANGED <<device, server, boot, removing, conns, history>>

-----------------------------------------------------------------------------
(* What the store asks for an account besides: refreshSpaces, refreshMembers, *)
(* loadSpaceKeys, loadHistory, loadStickers, addSticker and decryptSticker, *)
(* for an event or for the user.  Each looks for the connection before it   *)
(* asks and writes what is answered without looking again.                 *)

Ask(a) ==
  /\ a \in conns \ asking /\ (phase = "main" \/ socket[a] = "open")
  /\ asking' = asking \cup {a}
  /\ UNCHANGED <<device, users, nonces, calls, view, history>>

(* One stands for any number: another is a new one, and of those that are *)
(* on the way when the account is removed the first answer leaves its mark. *)
Answered(a) ==
  /\ a \in asking
  /\ data' = data \cup {a}
  /\ asking' = asking \ {a}
  /\ UNCHANGED <<device, users, nonces, calls, phase, shown, conns, socket, history>>

AskFails(a) ==
  /\ a \in asking
  /\ asking' = asking \ {a}
  /\ UNCHANGED <<device, users, nonces, calls, view, history>>

-----------------------------------------------------------------------------
(* removeServer *)

(* EventSocket.close: a pending timer goes on, and connect takes back      *)
(* what close has set.                                                     *)
Closed(a) == IF socket[a] \in {"opening", "open"} THEN "closed" ELSE socket[a]

(* What is under way for an account that is removed goes on. *)
GoesOn(a) ==
  Slipped(a, {s \in {"removed_connecting"} : step[a] # "idle"}
               \cup {s \in {"removed_waiting"} : socket[a] = "backoff"}
               \cup {s \in {"removed_asking"} : a \in asking})

(* mutants of RemoveServer: the secret is deleted first and the index      *)
(* saved after; the socket is left to its own                              *)
RemoveServerIndexLater(a) ==
  /\ phase = "main" /\ shown[a] # "absent"
  /\ socket' = [socket EXCEPT ![a] = Closed(a)]
  /\ conns' = conns \ {a} /\ Upserted(a, "absent") /\ data' = data \ {a}
  /\ secret' = [secret EXCEPT ![a] = "none"] /\ removing' = removing \cup {a}
  /\ forgotten' = forgotten \cup {a} /\ GoesOn(a)
  /\ UNCHANGED <<legacy, vault, server, boot, booting, step, phase, fresh, migrated, restarts>>

RemoveServerUnclosed(a) ==
  /\ phase = "main" /\ shown[a] # "absent"
  /\ conns' = conns \ {a} /\ Upserted(a, "absent") /\ data' = data \ {a}
  /\ vault' = vault \ {a} /\ removing' = removing \cup {a}
  /\ forgotten' = forgotten \cup {a} /\ GoesOn(a)
  /\ UNCHANGED <<legacy, secret, server, boot, booting, step, phase, socket, fresh, migrated, restarts>>

RemoveServer(a) ==
  /\ phase = "main" /\ shown[a] # "absent"
  /\ socket' = [socket EXCEPT ![a] = Closed(a)]
  /\ conns' = conns \ {a} /\ Upserted(a, "absent") /\ data' = data \ {a}
  /\ vault' = vault \ {a} /\ removing' = removing \cup {a}
  /\ forgotten' = forgotten \cup {a} /\ GoesOn(a)
  /\ UNCHANGED <<legacy, secret, server, boot, booting, step, phase, fresh, migrated, restarts>>

SecretDeleted(a) ==
  /\ a \in removing
  /\ secret' = [secret EXCEPT ![a] = "none"] /\ removing' = removing \ {a}
  /\ phase' = IF \A b \in Account : shown[b] = "absent" THEN "onboarding" ELSE phase
  /\ UNCHANGED <<legacy, vault, server, boot, booting, step, shown, conns, socket, data, history>>

DeleteRefused(a) ==
  /\ a \in removing
  /\ removing' = removing \ {a}
  /\ Slipped(a, {"not_deleted"})
  /\ UNCHANGED <<device, server, boot, booting, step, view, fresh, migrated, forgotten, restarts>>

-----------------------------------------------------------------------------
(* EventSocket: onopen, onclose and the backoff timer *)

SocketMoves(a, from, to) ==
  /\ socket[a] \in from
  /\ socket' = [socket EXCEPT ![a] = to]
  /\ UNCHANGED <<device, server, calls, phase, shown, conns, data, history>>

SocketOpen(a)  == SocketMoves(a, {"opening"}, "open")
SocketLost(a)  == SocketMoves(a, {"opening", "open"}, "backoff")
TimerFires(a)  == SocketMoves(a, {"backoff"}, "opening")

(* The client is closed, or crashes, and starts again with what is on the  *)
(* device; requests to the keychain and the servers are dropped, and with  *)
(* the store what came back to it.                                         *)
Restart ==
  /\ restarts < MaxRestarts
  /\ restarts' = restarts + 1
  /\ slips' = [a \in Account |->
                 (slips[a] \ {"removed_asking", "removed_waiting"})
                          \cup {s \in {"cut_storing"} : step[a] \in {"moved", "stored"}}
                          \cup {s \in {"cut_removing"} : a \in removing}]
  /\ phase' = "loading" /\ boot' = "start" /\ booting' = {} /\ removing' = {}
  /\ step' = [a \in Account |-> "idle"] /\ shown' = [a \in Account |-> "absent"]
  /\ conns' = {} /\ socket' = [a \in Account |-> "none"] /\ data' = {} /\ asking' = {}
  /\ UNCHANGED <<device, users, nonces, fresh, migrated, forgotten>>

-----------------------------------------------------------------------------
Boot == StartEmpty \/ StartConnecting \/ BootDone \/ (\E a \in Account : MigrateLegacy(a))

Call(a) ==
  \/ MoveSecret(a) \/ MoveIndex(a)
  \/ SecretMissing(a) \/ SecretRead(a) \/ SecretRefused(a)
  \/ Register(a) \/ StoreSecret(a) \/ SaveIndex(a)
  \/ Challenge(a) \/ Login(a) \/ LoginRefused(a) \/ CallFails(a)
  \/ StoreToken(a) \/ ListSpaces(a) \/ Load(a)

Next ==
  \/ Boot \/ Restart
  \/ \E a \in Account :
       \/ Call(a) \/ AddServer(a) \/ ImportServer(a) \/ NonceExpires(a)
       \/ RemoveServer(a) \/ SecretDeleted(a) \/ DeleteRefused(a)
       \/ SocketOpen(a) \/ SocketLost(a) \/ TimerFires(a)
       \/ Ask(a) \/ Answered(a) \/ AskFails(a)

Spec == Init /\ [][Next]_vars

(* Requests and keychain commands are answered, one way or the other. *)
LiveSpec == Spec /\ WF_vars(Boot) /\ \A a \in Account : WF_vars(Call(a))

-----------------------------------------------------------------------------
(* Properties *)

Live(a) == socket[a] \in {"opening", "open", "backoff"}

(* "Persist identity immediately so a later login failure doesn't lose the *)
(* key": from its first login on, whatever fails, an account that is shown *)
(* is on the device, index and secret.                                     *)
ShownIsKept ==
  \A a \in Account :
    shown[a] # "absent" /\ step[a] \in {"challenging", "signing", "restoring", "listing", "loading"}
      => a \in vault /\ secret[a] # "none"

(* An account shown online has a connection, a socket that is open or comes *)
(* back, and a token on the device; and it is not hidden by the onboarding. *)
OnlineIsTrue ==
  \A a \in Account :
    shown[a] = "online" => /\ a \in conns /\ Live(a) /\ secret[a] = "token"
                           /\ phase # "onboarding"

(* removeServer goes back to the onboarding after its last wait: the main   *)
(* screen is there with no server at all while a removal waits for the      *)
(* keychain, and for good when the keychain has refused or the server was   *)
(* still connecting.                                                        *)
MainHasServer ==
  phase = "main" =>
    \E a \in Account : \/ shown[a] # "absent" \/ a \in removing
                      \/ slips[a] \cap {"not_deleted", "removed_connecting"} # {}

(* An entry of the list of servers is on the device once its first login   *)
(* begins, one that says it is online is, and there is an entry where the  *)
(* main screen needs one, through failures and restarts.  (An entry that   *)
(* still says connecting may be one whose call has failed.)                *)
StatusIsTrue == ShownIsKept /\ OnlineIsTrue /\ MainHasServer

(* attachConn writes the secret before the index and removeServer the index *)
(* before the secret: no interruption leaves an entry without its secret,   *)
(* unless the account was removed while attachConn went on.                 *)
ListedHasSecret ==
  \A a \in vault : secret[a] = "none" => "removed_connecting" \in slips[a]

(* The keychain keeps nothing for an account that is not in the index, but *)
(* for the interruptions and refusals named.                               *)
OrphansAreNamed ==
  \A a \in Account :
    /\ secret[a] # "none" /\ a \notin vault
    /\ step[a] \notin {"moved", "stored"} /\ a \notin removing
    => slips[a] \cap {"cut_storing", "cut_removing", "not_deleted", "removed_connecting"} # {}

(* The index and the keychain, which no transaction joins, agree.          *)
DeviceAgrees == ListedHasSecret /\ OrphansAreNamed

(* "Disconnect, forget, and wipe credentials for a server": of a server    *)
(* that was removed nothing is left, in the store or on the device, and    *)
(* nothing comes back, unless it was still connecting; or requests were on *)
(* the way, whose answers are written to the store; or its socket waited   *)
(* to reconnect, which it then does for good; or the keychain was not      *)
(* reached.                                                                *)
ForgottenIsGone ==
  \A a \in forgotten \ removing :
    "removed_connecting" \notin slips[a] =>
      /\ a \notin vault \cup conns /\ shown[a] = "absent"
      /\ a \in data => "removed_asking" \in slips[a]
      /\ Live(a) => "removed_waiting" \in slips[a]
      /\ secret[a] # "none" => slips[a] \cap {"cut_removing", "not_deleted"} # {}

(* The migration loses the old layout's identity at no point: its keys are *)
(* there, or an account has it, unless the user has removed the account.   *)
LegacyKept ==
  migrated # {} => \/ legacy
                   \/ \E a \in migrated : a \in forgotten \/ (a \in vault /\ secret[a] # "none")

(* Index and keychain, each written by its own command between which the   *)
(* client may be closed, amount to one place that survives everything: an  *)
(* account is kept, migrated and forgotten in one step each, no failure or *)
(* restart takes one away, and none comes back but through its own call.   *)
Book == INSTANCE AccountBook WITH
  old <- legacy, kept <- {a \in vault : secret[a] # "none"}, gone <- forgotten,
  loose <- {a \in Account : "removed_connecting" \in slips[a]}
ImplementsBook == Book!Spec

(* bootstrap ends, or a keychain that refuses ends it, which leaves the    *)
(* client on its loading screen although other accounts may be online.     *)
BootEnds == phase = "loading" ~> (phase # "loading" \/ boot = "rejected")
=============================================================================
