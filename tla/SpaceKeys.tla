----------------------------- MODULE SpaceKeys -----------------------------
(***************************************************************************)
(* Membership and keys of one space: the server's tables and handlers      *)
(* (server/src/spaces.rs) and the clients that make, wrap, upload and load *)
(* the keys (client/src/lib/store.svelte.ts).                              *)
(*                                                                         *)
(* A step is one database lock of a handler, or one client continuation    *)
(* between two awaits; requests and answers travel in any order.  A key is *)
(* named by the removal that generated it, so keys are equal exactly when  *)
(* they are the same key.  Sealed boxes are transparent: only the addressee *)
(* loads what is wrapped for it.                                           *)
(*                                                                         *)
(* Left out: refreshSpaces after createSpace, createChannel or another     *)
(* invite, which reads current_epoch once more, loads the keys again, and  *)
(* puts a new space object in the place of one that a removal under way    *)
(* goes on to write; keys are loaded here on keys_updated and on joining.  *)
(***************************************************************************)
EXTENDS Naturals

CONSTANTS Users,        \* user ids
          Owner,        \* the space's owner
          InitMembers,  \* members at the start, who hold the first key
          Removals,     \* removals the owner may carry out, each with a fresh key
          FirstKey,     \* the key createSpace generated for epoch 1
          NoKey,        \* no key
          MaxEpoch,     \* bound: epochs
          MaxJoins,     \* bound: invites accepted
          MaxDrops      \* bound: sockets lost

ASSUME OwnerIsMember == Owner \in InitMembers /\ InitMembers \subseteq Users
ASSUME KeysDiffer == FirstKey \notin Removals /\ NoKey \notin Removals \cup {FirstKey}
ASSUME BoundsAreNat == MaxEpoch \in Nat \ {0} /\ MaxJoins \in Nat /\ MaxDrops \in Nat

Epoch == 1 .. MaxEpoch
Key == Removals \cup {FirstKey}
Row == [Epoch -> Key \cup {NoKey}]
Empty == [e \in Epoch |-> NoKey]

VARIABLES
  (* server *)
  member,    \* space_members
  current,   \* spaces.current_epoch
  wraps,     \* space_keys: user -> epoch -> the key wrapped for it
  joining,   \* accept_invite calls between the insert and the events
  (* clients *)
  online,    \* users whose event socket is open
  held,      \* user -> epoch -> key (ServerConn.spaceKeys)
  epoch,     \* user -> Space.current_epoch, 0 while the space is not shown
  jobs,      \* user -> work events and calls have asked of it
  answers,   \* user -> fetchKeys answers on their way
  removal,   \* removal -> the removeMember call
  wrapping,  \* user -> its wrapKeysFor call
  joins, drops,
  late       \* history: who joined after a rotation under way had listed the members

server == <<member, current, wraps, joining>>
client == <<online, held, epoch, jobs, answers>>
calls  == <<removal, wrapping>>
bounds == <<joins, drops, late>>
vars   == <<server, client, calls, bounds>>

Job == [kind : {"load", "open", "dropped"}] \cup [kind : {"wrap"}, for : Users]
Do(k) == [kind |-> k]
WrapFor(x) == [kind |-> "wrap", for |-> x]

Answer == [current : Epoch, row : Row, opens : BOOLEAN]

(* An upload_keys request: the wraps of one epoch, all of one key.         *)
Upload == [epoch : 1 .. MaxEpoch + 1, to : SUBSET Users, key : Key \cup {NoKey},
           rotating : BOOLEAN]
NoUpload == [epoch |-> 1, to |-> {}, key |-> NoKey, rotating |-> FALSE]

RemovalPc == {"new", "asked", "fanned", "deleted", "listed",
              "upload", "checked", "answered", "done", "failed"}
Removal == [pc : RemovalPc, target : Users, list : SUBSET Users, up : Upload]
Wrapping == [pc : {"idle", "next", "checked"}, for : Users,
             tried : SUBSET Epoch, kept : Row, up : Upload]
NotWrapping(u) == [pc |-> "idle", for |-> u, tried |-> {}, kept |-> Empty, up |-> NoUpload]

TypeOK ==
  /\ member \subseteq Users /\ joining \subseteq Users /\ online \subseteq Users
  /\ current \in Epoch
  /\ wraps \in [Users -> Row] /\ held \in [Users -> Row]
  /\ epoch \in [Users -> 0 .. MaxEpoch]
  /\ jobs \in [Users -> SUBSET Job]
  /\ answers \in [Users -> SUBSET Answer]
  /\ removal \in [Removals -> Removal]
  /\ wrapping \in [Users -> Wrapping]
  /\ joins \in 0 .. MaxJoins /\ drops \in 0 .. MaxDrops
  /\ late \subseteq Users

(* The space exists: createSpace is done, the first members have the first *)
(* key, and every one of them has loaded it.                               *)
Init ==
  /\ member = InitMembers /\ joining = {} /\ online = Users
  /\ current = 1
  /\ wraps = [u \in Users |-> IF u \in InitMembers THEN [Empty EXCEPT ![1] = FirstKey] ELSE Empty]
  /\ held = wraps
  /\ epoch = [u \in Users |-> IF u \in InitMembers THEN 1 ELSE 0]
  /\ jobs = [u \in Users |-> {}]
  /\ answers = [u \in Users |-> {}]
  /\ removal = [r \in Removals |-> [pc |-> "new", target |-> Owner, list |-> {}, up |-> NoUpload]]
  /\ wrapping = [u \in Users |-> NotWrapping(u)]
  /\ joins = 0 /\ drops = 0 /\ late = {}

-----------------------------------------------------------------------------
(* Events reach the users who are online; a handler's work waits in jobs.  *)
(* Work of the same kind that has not begun is done once for all.          *)
Notified(S, job) ==
  [u \in Users |-> IF u \in S \cap online THEN jobs[u] \cup {job} ELSE jobs[u]]

Holds(row) == {e \in Epoch : row[e] # NoKey}

-----------------------------------------------------------------------------
(* upload_keys, for the call that holds request up *)

(* The role and current_epoch are read ahead of the insert, under their    *)
(* own locks; the rest of the handler goes by what they said.  The two     *)
(* reads are one step here: the owner's role never changes, so it loses    *)
(* only a member taken out between them.  The limit of 256 wraps is left   *)
(* out: a space here is smaller.                                           *)
Accepted(by, up) ==
  LET rotating == up.epoch = current + 1
  IN /\ by \in member
     /\ rotating => by = Owner
     /\ ~ rotating => up.epoch <= current
     /\ up.to # {}

(* mutant of Inserted: INSERT OR REPLACE *)
InsertedReplaces(up, S) ==
  [u \in Users |-> IF u \in S THEN [wraps[u] EXCEPT ![up.epoch] = up.key] ELSE wraps[u]]

(* The first wrap of a user and epoch stays. *)
Inserted(up, S) ==
  [u \in Users |-> IF u \in S /\ wraps[u][up.epoch] = NoKey
                   THEN [wraps[u] EXCEPT ![up.epoch] = up.key] ELSE wraps[u]]

(* mutant of Commit: the targets are not checked under the insert's lock *)
CommitUnchecked(up) ==
  /\ wraps' = Inserted(up, up.to)
  /\ current' = IF up.rotating THEN up.epoch ELSE current

(* The insert closure: a target who is no member stops the loop, and what  *)
(* it inserted before stays too.  Targets are in order of joining, so the  *)
(* owner's wrap comes first.                                               *)
Commit(up) ==
  /\ up.to \subseteq member
  /\ wraps' = Inserted(up, up.to)
  /\ current' = IF up.rotating THEN up.epoch ELSE current

Abort(up) ==
  /\ ~ (up.to \subseteq member)
  /\ \E S \in SUBSET (up.to \cap member) :
       /\ Owner \in up.to => Owner \in S
       /\ wraps' = Inserted(up, S)
  /\ UNCHANGED current

-----------------------------------------------------------------------------
(* removeMember, by the owner *)

Removed(r, pc) == removal' = [removal EXCEPT ![r].pc = pc]

(* The owner picks from the members its client shows, which may be one     *)
(* that another call of its own is removing or has removed.                *)
RemoveMember(r, x) ==
  /\ removal[r].pc = "new"
  /\ x # Owner
  /\ x \in member \/ \E s \in Removals : removal[s].target = x
  /\ removal' = [removal EXCEPT ![r].pc = "asked", ![r].target = x]
  /\ UNCHANGED <<server, client, wrapping, bounds>>

(* remove_member: member_removed goes out before the rows are deleted. *)
FanoutRemoved(r) ==
  LET x == removal[r].target
  IN /\ removal[r].pc = "asked"
     /\ Removed(r, "fanned")
     /\ jobs' = Notified({x} \cap member, Do("dropped"))
     /\ UNCHANGED <<server, online, held, epoch, answers, wrapping, bounds>>

DeleteMember(r) ==
  LET x == removal[r].target
  IN /\ removal[r].pc = "fanned"
     /\ member' = member \ {x}
     /\ wraps' = [wraps EXCEPT ![x] = Empty]
     /\ Removed(r, IF x \in member THEN "deleted" ELSE "failed")
     /\ UNCHANGED <<current, joining, client, wrapping, bounds>>

(* list_members, for the refreshMembers that follows. *)
ListRemaining(r) ==
  /\ removal[r].pc = "deleted"
  /\ removal' = [removal EXCEPT ![r].pc = "listed", ![r].list = member]
  /\ UNCHANGED <<server, client, wrapping, bounds>>

(* mutants of Rekeying: the owner, who has the key, is left out; the       *)
(* current epoch is wrapped anew; no fresh key is generated.               *)
RekeyingForOthers(r) == [epoch |-> epoch[Owner] + 1, to |-> removal[r].list \ {Owner},
                         key |-> r, rotating |-> FALSE]
RekeyingInPlace(r) == [epoch |-> epoch[Owner], to |-> removal[r].list, key |-> r, rotating |-> FALSE]
RekeyingWithSameKey(r) == [epoch |-> epoch[Owner] + 1, to |-> removal[r].list,
                           key |-> held[Owner][epoch[Owner]], rotating |-> FALSE]

(* The next epoch is counted from the client's copy, and a fresh key is    *)
(* wrapped for everyone on the list.                                       *)
Rekeying(r) == [epoch |-> epoch[Owner] + 1, to |-> removal[r].list, key |-> r, rotating |-> FALSE]

Rotate(r) ==
  /\ removal[r].pc = "listed"
  /\ removal' = [removal EXCEPT ![r].pc = "upload", ![r].list = {}, ![r].up = Rekeying(r)]
  /\ UNCHANGED <<server, client, wrapping, bounds>>

RotationCheck(r) ==
  LET up == removal[r].up
  IN /\ removal[r].pc = "upload"
     /\ up.epoch \in Epoch  \* bound
     /\ removal' = IF Accepted(Owner, up)
                   THEN [removal EXCEPT ![r].pc = "checked", ![r].up.rotating = up.epoch = current + 1]
                   ELSE [removal EXCEPT ![r].pc = "failed"]
     /\ UNCHANGED <<server, client, wrapping, bounds>>

RotationInsert(r) ==
  LET up == removal[r].up
  IN /\ removal[r].pc = "checked"
     /\ \/ /\ Commit(up)
           /\ jobs' = Notified(up.to, Do("load"))
           /\ Removed(r, "answered")
        \/ Abort(up) /\ Removed(r, "failed") /\ UNCHANGED jobs
     /\ UNCHANGED <<member, joining, online, held, epoch, answers, wrapping, bounds>>

(* mutant of RotationDone: the next epoch is counted again after the upload *)
RotationDoneRereads(r) ==
  LET next == epoch[Owner] + 1
  IN /\ removal[r].pc = "answered" /\ next \in Epoch
     /\ held' = [held EXCEPT ![Owner][next] = removal[r].up.key]
     /\ epoch' = [epoch EXCEPT ![Owner] = next]
     /\ Removed(r, "done")
     /\ UNCHANGED <<server, online, jobs, answers, wrapping, bounds>>

(* The owner takes its own key and epoch as the space's. *)
RotationDone(r) ==
  LET up == removal[r].up
  IN /\ removal[r].pc = "answered"
     /\ held' = [held EXCEPT ![Owner][up.epoch] = up.key]
     /\ epoch' = [epoch EXCEPT ![Owner] = up.epoch]
     /\ Removed(r, "done")
     /\ UNCHANGED <<server, online, jobs, answers, wrapping, bounds>>

(* A request or its answer is lost: the call rejects, and nobody resumes it. *)
RemovalFails(r) ==
  /\ removal[r].pc \in {"asked", "deleted", "listed", "upload", "answered"}
  /\ drops < MaxDrops
  /\ drops' = drops + 1
  /\ Removed(r, "failed")
  /\ UNCHANGED <<server, client, wrapping, joins, late>>

-----------------------------------------------------------------------------
(* Joining, and the wraps a newcomer is given *)

AcceptInvite(x) ==
  /\ joins < MaxJoins
  /\ x \notin member /\ x \notin joining
  /\ joins' = joins + 1
  /\ member' = member \cup {x}
  /\ joining' = joining \cup {x}
  /\ late' = IF \E r \in Removals : removal[r].pc \in {"listed", "upload", "checked", "answered"}
             THEN late \cup {x} ELSE late
  /\ UNCHANGED <<current, wraps, client, calls, drops>>

(* member_joined to all, key_request to all others, once; then the answer, *)
(* upon which the newcomer's client opens the space.                       *)
AnnounceJoin(x) ==
  /\ x \in joining
  /\ joining' = joining \ {x}
  /\ jobs' = [u \in Users |->
                jobs[u] \cup {j \in {Do("open")} : u = x}
                        \cup {j \in {WrapFor(x)} : u # x /\ u \in member \cap online}]
  /\ UNCHANGED <<member, current, wraps, online, held, epoch, answers, calls, bounds>>

(* wrapKeysFor: one upload after the other, over the live Map of keys (or  *)
(* over the one it still has, once the space is dropped); one newcomer at  *)
(* a time per client.                                                      *)
WrapStart(u, x) ==
  /\ wrapping[u].pc = "idle"
  /\ WrapFor(x) \in jobs[u]
  /\ jobs' = [jobs EXCEPT ![u] = @ \ {WrapFor(x)}]
  /\ wrapping' = IF Holds(held[u]) = {} THEN wrapping
                 ELSE [wrapping EXCEPT ![u].pc = "next", ![u].for = x]
  /\ UNCHANGED <<server, online, held, epoch, answers, removal, bounds>>

Wrapped(u) == IF wrapping[u].kept # Empty THEN wrapping[u].kept ELSE held[u]

(* The next upload, up to the check at the server: while it travels, only  *)
(* the answer to the check can change.                                     *)
WrapNext(u) ==
  LET w == wrapping[u]
      left == Holds(Wrapped(u)) \ w.tried
      Request(e) == [epoch |-> e, to |-> {w.for}, key |-> Wrapped(u)[e],
                     rotating |-> e = current + 1]
  IN /\ w.pc = "next"
     /\ \/ /\ left = {}
           /\ wrapping' = [wrapping EXCEPT ![u] = NotWrapping(u)]
        \/ \E e \in left :
             wrapping' = [wrapping EXCEPT ![u].pc = IF Accepted(u, Request(e)) THEN "checked" ELSE "next",
                                          ![u].tried = @ \cup {e}, ![u].up = Request(e)]
     /\ UNCHANGED <<server, client, removal, bounds>>

(* mutant of WrapInsert: keys_updated goes to the uploader *)
WrapInsertTellsUploader(u) ==
  LET up == wrapping[u].up
  IN /\ wrapping[u].pc = "checked"
     /\ \/ Commit(up) /\ jobs' = Notified({u}, Do("load"))
        \/ Abort(up) /\ UNCHANGED jobs
     /\ wrapping' = [wrapping EXCEPT ![u].pc = "next"]
     /\ UNCHANGED <<member, joining, online, held, epoch, answers, removal, bounds>>

(* A failed upload is logged and the loop goes on. *)
WrapInsert(u) ==
  LET up == wrapping[u].up
  IN /\ wrapping[u].pc = "checked"
     /\ \/ Commit(up) /\ jobs' = Notified(up.to, Do("load"))
        \/ Abort(up) /\ UNCHANGED jobs
     /\ wrapping' = [wrapping EXCEPT ![u].pc = "next"]
     /\ UNCHANGED <<member, joining, online, held, epoch, answers, removal, bounds>>

-----------------------------------------------------------------------------
(* Loading keys and members *)

(* fetch_keys, for loadSpaceKeys; refused to a non-member.  The check and  *)
(* the read are one step: who is taken out between them has lost its wraps *)
(* with its row, and is answered none.                                     *)
FetchKeys(u, k) ==
  /\ k \in {"load", "open"}
  /\ Do(k) \in jobs[u]
  /\ jobs' = [jobs EXCEPT ![u] = @ \ {Do(k)}]
  /\ answers' = IF u \in member
                THEN [answers EXCEPT ![u] = @ \cup
                        {[current |-> current, row |-> wraps[u], opens |-> k = "open"]}]
                ELSE answers
  /\ UNCHANGED <<server, online, held, epoch, calls, bounds>>

(* loadSpaceKeys resumes: a key already held stays; the epoch is taken as  *)
(* answered, while the space is shown.                                     *)
LoadKeys(u, a) ==
  /\ a \in answers[u]
  /\ answers' = [answers EXCEPT ![u] = @ \ {a}]
  /\ held' = [held EXCEPT ![u] = [e \in Epoch |-> IF @[e] = NoKey THEN a.row[e] ELSE @[e]]]
  /\ epoch' = IF epoch[u] # 0 \/ a.opens THEN [epoch EXCEPT ![u] = a.current] ELSE epoch
  /\ UNCHANGED <<server, online, jobs, calls, bounds>>

(* member_removed about oneself: the space and its keys are dropped. *)
DropSpace(u) ==
  /\ Do("dropped") \in jobs[u]
  /\ jobs' = [jobs EXCEPT ![u] = @ \ {Do("dropped")}]
  /\ held' = [held EXCEPT ![u] = Empty]
  /\ epoch' = [epoch EXCEPT ![u] = 0]
  /\ wrapping' = IF wrapping[u].pc = "idle" THEN wrapping
                 ELSE [wrapping EXCEPT ![u].kept = Wrapped(u)]
  /\ UNCHANGED <<server, online, answers, removal, bounds>>

(* The socket is lost with the events on it, and comes back: nothing is    *)
(* fetched again.                                                          *)
Disconnect(u) ==
  /\ u \in online
  /\ drops < MaxDrops
  /\ drops' = drops + 1
  /\ online' = online \ {u}
  /\ UNCHANGED <<server, held, epoch, jobs, answers, calls, joins, late>>

Reconnect(u) ==
  /\ u \notin online
  /\ online' = online \cup {u}
  /\ UNCHANGED <<server, held, epoch, jobs, answers, calls, bounds>>

-----------------------------------------------------------------------------
RemovalStep(r) ==
  \/ FanoutRemoved(r) \/ DeleteMember(r) \/ ListRemaining(r) \/ Rotate(r)
  \/ RotationCheck(r) \/ RotationInsert(r) \/ RotationDone(r)

WrapStep(u) ==
  \/ \E x \in Users : WrapStart(u, x)
  \/ WrapNext(u) \/ WrapInsert(u)

LoadStep(u) ==
  \/ \E k \in {"load", "open"} : FetchKeys(u, k)
  \/ \E a \in answers[u] : LoadKeys(u, a)
  \/ DropSpace(u)

Next ==
  \/ \E r \in Removals, x \in Users : RemoveMember(r, x)
  \/ \E r \in Removals : RemovalStep(r) \/ RemovalFails(r)
  \/ \E u \in Users : AcceptInvite(u) \/ AnnounceJoin(u) \/ WrapStep(u) \/ LoadStep(u)
                      \/ Disconnect(u) \/ Reconnect(u)

Spec == Init /\ [][Next]_vars

(* Handlers run to their end, clients carry out what they have begun, and  *)
(* sockets reconnect; users owe nothing.                                   *)
Fairness ==
  /\ \A r \in Removals : WF_vars(RemovalStep(r))
  /\ \A u \in Users : /\ WF_vars(AnnounceJoin(u)) /\ WF_vars(WrapStep(u))
                      /\ WF_vars(LoadStep(u)) /\ WF_vars(Reconnect(u))

LiveSpec == Spec /\ Fairness

-----------------------------------------------------------------------------
(* Properties *)

(* The server keeps wraps for members only, whatever upload races whatever *)
(* removal.                                                                *)
WrapsOfMembersOnly == \A u \in Users : Holds(wraps[u]) # {} => u \in member

(* "First wrap wins: a later upload cannot silently replace a key a member *)
(* may have already used."                                                 *)
FirstWrapWins ==
  [][\A u \in member \cap member', e \in Epoch :
       wraps[u][e] # NoKey => wraps'[u][e] = wraps[u][e]]_vars

(* The keys in u's reach: in its client, in a call of it that goes on, in  *)
(* an answer on its way to it, or wrapped for it at the server.            *)
RowKeys(row) == {row[e] : e \in Epoch} \ {NoKey}
LoadKeysOf(u) == UNION {RowKeys(a.row) : a \in answers[u]}
WrapKeysOf(u) == {k \in {wrapping[u].up.key} : wrapping[u].pc = "checked"}
RotationKeysOf(u) ==
  {r \in Removals : u = Owner /\ removal[r].pc \in {"upload", "checked", "answered"}}

Reach(u) ==
  RowKeys(held[u]) \cup RowKeys(wraps[u]) \cup RowKeys(wrapping[u].kept)
  \cup LoadKeysOf(u) \cup WrapKeysOf(u) \cup RotationKeysOf(u)

(* "Only members hold the key": whatever uploads, removals and loads race, *)
(* a key comes only into the reach of who is a member when it is stored,   *)
(* and from the owner, who made it, or someone in whose reach it was.      *)
Flow == INSTANCE KeyFlow WITH knows <- [u \in Users |-> Reach(u)]
KeysReachMembersOnly == Flow!Spec

(* The owner can read every epoch the space has gone through: a rotation   *)
(* that moved the epoch, even a half-done one taken up again, left the     *)
(* owner a wrap.                                                           *)
OwnerHasEveryEpoch == \A e \in Epoch : e <= current => wraps[Owner][e] # NoKey

(* A key serves one epoch, everywhere: no client files it under another.   *)
OneEpochPerKey ==
  \A u, v \in Users, e, f \in Epoch :
    /\ held[u][e] # NoKey /\ held[u][e] = held[v][f] => e = f
    /\ held[u][e] # NoKey /\ held[u][e] = wraps[v][f] => e = f

(* Two removals, or one that was cut short and the next, generated their   *)
(* keys for the same epoch.                                                *)
Collided ==
  \E r, s \in Removals : /\ r # s
                         /\ {removal[r].up.key, removal[s].up.key} = {r, s}
                         /\ removal[r].up.epoch = removal[s].up.epoch

KeysAgree ==
  \A u, v \in member, e \in Epoch :
    held[u][e] # NoKey /\ held[v][e] # NoKey => held[u][e] = held[v][e]

(* All who hold a key for an epoch hold the same one, unless two removals  *)
(* rotated to the same epoch.                                              *)
KeysAgreeUnlessCollided == ~ Collided => KeysAgree

(* "cannot read new messages": a member removed once, and not invited back, *)
(* holds no key that the members use for the removal's epoch or a later    *)
(* one, unless two removals made their keys for the same epoch.            *)
RemovedCannotRead ==
  \A r \in Removals, u \in member, e \in Epoch :
    LET x == removal[r].target
    IN /\ removal[r].pc = "done" /\ x \notin member /\ ~ Collided
       /\ \A s \in Removals \ {r} : removal[s].target # x
       /\ e >= removal[r].up.epoch /\ held[u][e] # NoKey
       => \A f \in Epoch : held[x][f] # held[u][e]

Quiet ==
  /\ joining = {} /\ online = Users
  /\ \A u \in Users : jobs[u] = {} /\ answers[u] = {} /\ wrapping[u].pc = "idle"
  /\ \A r \in Removals : removal[r].pc \in {"new", "done", "failed"}

(* "New messages use the new epoch": once a removal is done and nothing is  *)
(* under way, no member still sends under an epoch before the removal's.    *)
NewEpochInUse ==
  Quiet => \A r \in Removals, u \in member :
             removal[r].pc = "done" /\ epoch[u] # 0 => epoch[u] >= removal[r].up.epoch

(* Left out of an epoch: x is or was being removed, joined while a rotation *)
(* that had listed the members before was under way, or the epoch's        *)
(* rotation failed, which may have stored some of its wraps.               *)
Targeted(x) == \E r \in Removals : removal[r].pc # "new" /\ removal[r].target = x

RotationFailed(e) ==
  \E r \in Removals : removal[r].pc = "failed" /\ removal[r].up.key = r /\ removal[r].up.epoch = e

LeftOut(x, e) == x \in late \/ Targeted(x) \/ RotationFailed(e)

(* "Any member wraps all epochs it holds for the newcomer", "the key for    *)
(* all remaining members": while no socket or call is lost and nothing is   *)
(* under way, every member holds the key of every epoch up to the current   *)
(* one, unless it was left out or two removals rotated to the same epoch.   *)
QuietHasKeys ==
  Quiet /\ drops = 0 /\ ~ Collided =>
    \A x \in member, e \in 1 .. current : held[x][e] # NoKey \/ LeftOut(x, e)

(* Whoever is a member and stays one comes to hold the current epoch's key, *)
(* unless it was left out: members wrap and load until it does.             *)
NewcomerGetsKeys ==
  \A x \in Users :
    [](x \in member => <>(held[x][current] # NoKey \/ x \notin member \/ LeftOut(x, current)))
=============================================================================
