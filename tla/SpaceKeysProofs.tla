-------------------------- MODULE SpaceKeysProofs --------------------------
(***************************************************************************)
(* For any users, any number of removals, epochs, joins and lost calls:    *)
(* the space is well typed, wraps are kept for members only, the first     *)
(* wrap wins, the owner has a wrap of every epoch, a key is of one epoch,  *)
(* members agree on it unless two removals collided, who was removed reads *)
(* nothing new, and who was not left out comes to hold every key.  At the  *)
(* end, the refinement of KeyFlow: keys come into members' reach only.     *)
(***************************************************************************)
EXTENDS SpaceKeys, TLAPS

(* A request that passed the check names an epoch of the space. *)
RequestsInEpoch ==
  /\ \A r \in Removals : removal[r].pc \in {"checked", "answered"} => removal[r].up.epoch \in Epoch
  /\ \A u \in Users : wrapping[u].pc = "checked" => wrapping[u].up.epoch \in Epoch

TypeInv == TypeOK /\ RequestsInEpoch

-----------------------------------------------------------------------------
(* What the upload's helpers return. *)

LEMMA EmptyIsRow == Empty \in Row
BY DEF Empty, Row

LEMMA NoUploadIsUpload == NoUpload \in Upload
BY BoundsAreNat DEF NoUpload, Upload

LEMMA InsertedType ==
  ASSUME wraps \in [Users -> Row], NEW up \in Upload, NEW S
  PROVE  /\ Inserted(up, S) \in [Users -> Row]
         /\ \A u \in Users, e \in Epoch : wraps[u][e] # NoKey => Inserted(up, S)[u][e] = wraps[u][e]
         /\ \A u \in Users \ S : Inserted(up, S)[u] = wraps[u]
<1>1. up.key \in Key \cup {NoKey}
  BY DEF Upload
<1>2. ASSUME NEW u \in Users
      PROVE  [wraps[u] EXCEPT ![up.epoch] = up.key] \in Row
  BY <1>1 DEF Row
<1>3. Inserted(up, S) \in [Users -> Row]
  BY <1>2 DEF Inserted
<1>4. ASSUME NEW u \in Users, NEW e \in Epoch, wraps[u][e] # NoKey
      PROVE  Inserted(up, S)[u][e] = wraps[u][e]
  <2>1. wraps[u] \in [Epoch -> Key \cup {NoKey}]
    BY DEF Row
  <2>2. CASE u \in S /\ wraps[u][up.epoch] = NoKey
    BY <1>4, <2>1, <2>2 DEF Inserted
  <2>3. CASE ~ (u \in S /\ wraps[u][up.epoch] = NoKey)
    BY <2>3 DEF Inserted
  <2>4. QED
    BY <2>2, <2>3
<1>5. \A u \in Users \ S : Inserted(up, S)[u] = wraps[u]
  BY DEF Inserted
<1>6. QED
  BY <1>3, <1>4, <1>5

LEMMA NotifiedType ==
  ASSUME jobs \in [Users -> SUBSET Job], NEW S, NEW k \in {"load", "open", "dropped"}
  PROVE  Notified(S, Do(k)) \in [Users -> SUBSET Job]
BY DEF Notified, Do, Job

(* What an upload does to the wraps, whether it commits or aborts. *)
LEMMA InsertKeeps ==
  ASSUME TypeOK, NEW up \in Upload, up.epoch \in Epoch, Commit(up) \/ Abort(up)
  PROVE  /\ wraps' \in [Users -> Row]
         /\ current' \in Epoch
         /\ \A u \in Users, e \in Epoch : wraps[u][e] # NoKey => wraps'[u][e] = wraps[u][e]
         /\ \A u \in Users \ member : wraps'[u] = wraps[u]
<1>1. wraps \in [Users -> Row] /\ current \in Epoch
  BY DEF TypeOK
<1>2. current' \in Epoch
  BY <1>1 DEF Commit, Abort
<1>3. PICK S : S \subseteq member /\ wraps' = Inserted(up, S)
  <2>1. CASE Commit(up)
    BY <2>1 DEF Commit
  <2>2. CASE Abort(up)
    BY <2>2 DEF Abort
  <2>3. QED
    BY <2>1, <2>2
<1>4. QED
  BY <1>1, <1>2, <1>3, InsertedType

-----------------------------------------------------------------------------
(* Types *)

LEMMA InitType == Init => TypeInv
<1> SUFFICES ASSUME Init PROVE TypeInv
  OBVIOUS
<1> USE OwnerIsMember, BoundsAreNat, EmptyIsRow, NoUploadIsUpload DEF Init
<1>1. [Empty EXCEPT ![1] = FirstKey] \in Row
  BY DEF Row, Key
<1>2. wraps \in [Users -> Row] /\ held \in [Users -> Row]
  BY <1>1
<1>3. \A u \in Users : NotWrapping(u) \in Wrapping /\ NotWrapping(u).pc = "idle"
  BY DEF NotWrapping, Wrapping
<1>4. wrapping \in [Users -> Wrapping]
  BY <1>3
<1>5. removal \in [Removals -> Removal]
  BY DEF Removal, RemovalPc
<1>6. TypeOK
  <2>1. current \in Epoch /\ epoch \in [Users -> 0 .. MaxEpoch]
    BY DEF Epoch
  <2>2. joins \in 0 .. MaxJoins /\ drops \in 0 .. MaxDrops /\ late \subseteq Users
    OBVIOUS
  <2>3. jobs \in [Users -> SUBSET Job] /\ answers \in [Users -> SUBSET Answer]
    OBVIOUS
  <2>4. member \subseteq Users /\ joining \subseteq Users /\ online \subseteq Users
    OBVIOUS
  <2>5. QED
    BY ONLY <1>2, <1>4, <1>5, <2>1, <2>2, <2>3, <2>4 DEF TypeOK
<1>7. RequestsInEpoch
  BY <1>3 DEF RequestsInEpoch
<1>8. QED
  BY <1>6, <1>7 DEF TypeInv

(* Each step of a removal writes the record of that removal only. *)
LEMMA RemovalType ==
  ASSUME TypeInv, NEW r \in Removals, NEW x \in Users,
         RemoveMember(r, x) \/ RemovalStep(r) \/ RemovalFails(r)
  PROVE  TypeInv'
<1> DEFINE m == removal[r]
<1>1. /\ removal \in [Removals -> Removal] /\ m \in Removal
      /\ m.up \in Upload /\ m.list \subseteq Users
  BY DEF TypeInv, TypeOK, Removal
<1>2. CASE RemoveMember(r, x)
  <2>1. removal' \in [Removals -> Removal]
    BY <1>1, <1>2 DEF RemoveMember, Removal, RemovalPc
  <2>2. QED
    BY <1>1, <1>2, <2>1 DEF RemoveMember, TypeInv, TypeOK, RequestsInEpoch, server, client, bounds
<1>3. CASE FanoutRemoved(r)
  <2>1. removal' \in [Removals -> Removal]
    BY <1>1, <1>3 DEF FanoutRemoved, Removed, Removal, RemovalPc
  <2>2. jobs' \in [Users -> SUBSET Job]
    BY <1>3, NotifiedType DEF FanoutRemoved, TypeInv, TypeOK
  <2>3. RequestsInEpoch'
    BY <1>1, <1>3 DEF FanoutRemoved, Removed, TypeInv, RequestsInEpoch
  <2>4. QED
    BY <1>3, <2>1, <2>2, <2>3 DEF FanoutRemoved, TypeInv, TypeOK, server, bounds
<1>4. CASE DeleteMember(r)
  <2>1. removal' \in [Removals -> Removal]
    BY <1>1, <1>4 DEF DeleteMember, Removed, Removal, RemovalPc
  <2>2. wraps' \in [Users -> Row]
    BY <1>4, EmptyIsRow DEF DeleteMember, TypeInv, TypeOK
  <2>3. QED
    BY <1>1, <1>4, <2>1, <2>2 DEF DeleteMember, Removed, TypeInv, TypeOK, RequestsInEpoch, server, client, bounds
<1>5. CASE ListRemaining(r)
  <2>1. removal' \in [Removals -> Removal]
    BY <1>1, <1>5 DEF ListRemaining, Removal, RemovalPc, TypeInv, TypeOK
  <2>2. QED
    BY <1>1, <1>5, <2>1 DEF ListRemaining, TypeInv, TypeOK, RequestsInEpoch, server, client, bounds
<1>6. CASE Rotate(r)
  <2>1. Rekeying(r) \in Upload
    <3>1. epoch[Owner] \in 0 .. MaxEpoch
      BY OwnerIsMember DEF TypeInv, TypeOK
    <3>2. QED
      BY <1>1, <3>1, BoundsAreNat DEF Rekeying, Upload, Key
  <2>2. removal' \in [Removals -> Removal]
    BY <1>1, <1>6, <2>1 DEF Rotate, Removal, RemovalPc
  <2>3. QED
    BY <1>1, <1>6, <2>2 DEF Rotate, TypeInv, TypeOK, RequestsInEpoch, server, client, bounds
<1>7. CASE RotationCheck(r)
  <2>1. removal' \in [Removals -> Removal]
    BY <1>1, <1>7 DEF RotationCheck, Removal, RemovalPc, Upload
  <2>2. removal'[r].up.epoch = m.up.epoch /\ m.up.epoch \in Epoch
    BY <1>1, <1>7 DEF RotationCheck, Removal, Upload
  <2>3. \A s \in Removals \ {r} : removal'[s] = removal[s]
    BY <1>1, <1>7 DEF RotationCheck
  <2>4. QED
    BY <1>7, <2>1, <2>2, <2>3 DEF RotationCheck, TypeInv, TypeOK, RequestsInEpoch, server, client, bounds
<1>8. CASE RotationInsert(r)
  <2>1. removal' \in [Removals -> Removal]
    BY <1>1, <1>8 DEF RotationInsert, Removed, Removal, RemovalPc
  <2>2. m.up.epoch \in Epoch
    BY <1>8 DEF RotationInsert, TypeInv, RequestsInEpoch
  <2>3. wraps' \in [Users -> Row] /\ current' \in Epoch
    BY <1>1, <1>8, <2>2, InsertKeeps DEF RotationInsert, TypeInv
  <2>4. jobs' \in [Users -> SUBSET Job]
    BY <1>8, NotifiedType DEF RotationInsert, TypeInv, TypeOK
  <2>5. /\ removal'[r].up.epoch = m.up.epoch
        /\ \A s \in Removals \ {r} : removal'[s] = removal[s]
    BY <1>1, <1>8 DEF RotationInsert, Removed, Removal
  <2>6. QED
    BY <1>8, <2>1, <2>2, <2>3, <2>4, <2>5 DEF RotationInsert, TypeInv, TypeOK, RequestsInEpoch, bounds
<1>9. CASE RotationDone(r)
  <2>1. removal' \in [Removals -> Removal]
    BY <1>1, <1>9 DEF RotationDone, Removed, Removal, RemovalPc
  <2>2. m.up.epoch \in Epoch /\ m.up.key \in Key \cup {NoKey}
    BY <1>1, <1>9 DEF RotationDone, TypeInv, RequestsInEpoch, Upload
  <2>3. held' \in [Users -> Row]
    BY <1>9, <2>2 DEF RotationDone, TypeInv, TypeOK, Row
  <2>4. epoch' \in [Users -> 0 .. MaxEpoch]
    <3>1. m.up.epoch \in 0 .. MaxEpoch
      BY <2>2, BoundsAreNat DEF Epoch
    <3>2. QED
      BY <1>9, <3>1 DEF RotationDone, TypeInv, TypeOK
  <2>5. QED
    BY <1>1, <1>9, <2>1, <2>3, <2>4 DEF RotationDone, Removed, TypeInv, TypeOK, RequestsInEpoch, server, bounds
<1>10. CASE RemovalFails(r)
  <2>1. removal' \in [Removals -> Removal]
    BY <1>1, <1>10 DEF RemovalFails, Removed, Removal, RemovalPc
  <2>2. drops' \in 0 .. MaxDrops
    BY <1>10, BoundsAreNat DEF RemovalFails, TypeInv, TypeOK
  <2>3. QED
    BY <1>1, <1>10, <2>1, <2>2 DEF RemovalFails, Removed, TypeInv, TypeOK, RequestsInEpoch, server, client
<1>11. QED
  BY <1>2, <1>3, <1>4, <1>5, <1>6, <1>7, <1>8, <1>9, <1>10 DEF RemovalStep

LEMMA JoinType ==
  ASSUME TypeInv, NEW x \in Users, AcceptInvite(x) \/ AnnounceJoin(x)
  PROVE  TypeInv'
<1>1. CASE AcceptInvite(x)
  <2>1. joins' \in 0 .. MaxJoins
    BY <1>1, BoundsAreNat DEF AcceptInvite, TypeInv, TypeOK
  <2>2. QED
    BY <1>1, <2>1 DEF AcceptInvite, TypeInv, TypeOK, RequestsInEpoch, client, calls
<1>2. CASE AnnounceJoin(x)
  <2>1. jobs' \in [Users -> SUBSET Job]
    BY <1>2 DEF AnnounceJoin, TypeInv, TypeOK, Job, Do, WrapFor
  <2>2. RequestsInEpoch'
    BY <1>2 DEF AnnounceJoin, TypeInv, RequestsInEpoch, calls
  <2>3. QED
    BY <1>2, <2>1, <2>2 DEF AnnounceJoin, TypeInv, TypeOK, calls, bounds
<1>3. QED
  BY <1>1, <1>2

LEMMA WrapType ==
  ASSUME TypeInv, NEW u \in Users, WrapStep(u)
  PROVE  TypeInv'
<1> DEFINE w == wrapping[u]
<1>1. /\ wrapping \in [Users -> Wrapping] /\ w \in Wrapping
      /\ w.up \in Upload /\ w.kept \in Row /\ w.for \in Users /\ w.tried \subseteq Epoch
  BY DEF TypeInv, TypeOK, Wrapping
<1>2. ASSUME NEW x \in Users, WrapStart(u, x)
      PROVE  TypeInv'
  <2>1. /\ wrapping' \in [Users -> Wrapping]
        /\ wrapping'[u].pc # "checked"
        /\ \A v \in Users \ {u} : wrapping'[v] = wrapping[v]
    BY <1>1, <1>2 DEF WrapStart, Wrapping
  <2>2. jobs' \in [Users -> SUBSET Job]
    BY <1>2 DEF WrapStart, TypeInv, TypeOK
  <2>3. QED
    BY <1>2, <2>1, <2>2 DEF WrapStart, TypeInv, TypeOK, RequestsInEpoch, server, bounds
<1>3. ASSUME WrapNext(u)
      PROVE  TypeInv'
  <2> DEFINE Request(e) == [epoch |-> e, to |-> {w.for}, key |-> Wrapped(u)[e],
                            rotating |-> e = current + 1]
  <2>1. Wrapped(u) \in Row
    BY <1>1 DEF Wrapped, TypeInv, TypeOK
  <2>2. \A e \in Epoch : Request(e) \in Upload /\ Request(e).epoch \in Epoch
    BY <1>1, <2>1, BoundsAreNat DEF Upload, Row, Epoch
  <2>3. CASE wrapping' = [wrapping EXCEPT ![u] = NotWrapping(u)]
    <3>1. NotWrapping(u) \in Wrapping /\ NotWrapping(u).pc = "idle"
      BY EmptyIsRow, NoUploadIsUpload DEF NotWrapping, Wrapping
    <3>2. wrapping' \in [Users -> Wrapping]
      BY <1>1, <2>3, <3>1
    <3>3. RequestsInEpoch'
      BY <1>1, <1>3, <2>3, <3>1 DEF WrapNext, TypeInv, RequestsInEpoch
    <3>4. QED
      BY <1>3, <3>2, <3>3 DEF WrapNext, TypeInv, TypeOK, server, client, bounds
  <2>4. ASSUME NEW e \in Epoch, NEW pc \in {"checked", "next"},
               wrapping' = [wrapping EXCEPT ![u].pc = pc, ![u].tried = @ \cup {e},
                                            ![u].up = Request(e)]
        PROVE  TypeInv'
    <3>1. /\ wrapping' \in [Users -> Wrapping]
          /\ wrapping'[u].up.epoch \in Epoch
      BY <1>1, <2>2, <2>4 DEF Wrapping
    <3>2. \A v \in Users \ {u} : wrapping'[v] = wrapping[v]
      BY <1>1, <2>4
    <3>3. RequestsInEpoch'
      BY <1>3, <3>1, <3>2 DEF WrapNext, TypeInv, RequestsInEpoch
    <3>4. QED
      BY <1>3, <3>1, <3>3 DEF WrapNext, TypeInv, TypeOK, server, client, bounds
  <2>5. QED
    BY <1>3, <2>3, <2>4 DEF WrapNext, Holds
<1>4. ASSUME WrapInsert(u)
      PROVE  TypeInv'
  <2>1. w.up.epoch \in Epoch
    BY <1>4 DEF WrapInsert, TypeInv, RequestsInEpoch
  <2>2. wraps' \in [Users -> Row] /\ current' \in Epoch
    BY <1>1, <1>4, <2>1, InsertKeeps DEF WrapInsert, TypeInv
  <2>3. jobs' \in [Users -> SUBSET Job]
    BY <1>4, NotifiedType DEF WrapInsert, TypeInv, TypeOK
  <2>4. /\ wrapping' \in [Users -> Wrapping]
        /\ wrapping'[u].pc # "checked"
        /\ \A v \in Users \ {u} : wrapping'[v] = wrapping[v]
    BY <1>1, <1>4 DEF WrapInsert, Wrapping
  <2>5. QED
    BY <1>4, <2>2, <2>3, <2>4 DEF WrapInsert, TypeInv, TypeOK, RequestsInEpoch, bounds
<1>5. QED
  BY <1>2, <1>3, <1>4 DEF WrapStep

LEMMA LoadType ==
  ASSUME TypeInv, NEW u \in Users, LoadStep(u)
  PROVE  TypeInv'
<1>1. ASSUME NEW k \in {"load", "open"}, FetchKeys(u, k)
      PROVE  TypeInv'
  <2>1. [current |-> current, row |-> wraps[u], opens |-> k = "open"] \in Answer
    BY DEF TypeInv, TypeOK, Answer
  <2>2. answers' \in [Users -> SUBSET Answer]
    BY <1>1, <2>1 DEF FetchKeys, TypeInv, TypeOK
  <2>3. jobs' \in [Users -> SUBSET Job]
    BY <1>1 DEF FetchKeys, TypeInv, TypeOK
  <2>4. QED
    BY <1>1, <2>2, <2>3 DEF FetchKeys, TypeInv, TypeOK, RequestsInEpoch, server, calls, bounds
<1>2. ASSUME NEW a \in answers[u], LoadKeys(u, a)
      PROVE  TypeInv'
  <2>1. a.row \in Row /\ a.current \in 0 .. MaxEpoch
    BY BoundsAreNat DEF TypeInv, TypeOK, Answer, Epoch
  <2>2. held' \in [Users -> Row]
    BY <1>2, <2>1 DEF LoadKeys, TypeInv, TypeOK, Row
  <2>3. epoch' \in [Users -> 0 .. MaxEpoch]
    BY <1>2, <2>1 DEF LoadKeys, TypeInv, TypeOK
  <2>4. answers' \in [Users -> SUBSET Answer]
    BY <1>2 DEF LoadKeys, TypeInv, TypeOK
  <2>5. QED
    BY <1>2, <2>2, <2>3, <2>4 DEF LoadKeys, TypeInv, TypeOK, RequestsInEpoch, server, calls, bounds
<1>3. ASSUME DropSpace(u)
      PROVE  TypeInv'
  <2>1. Wrapped(u) \in Row
    BY DEF Wrapped, TypeInv, TypeOK, Wrapping
  <2>2. /\ wrapping' \in [Users -> Wrapping]
        /\ \A v \in Users : /\ wrapping'[v].pc = wrapping[v].pc
                            /\ wrapping'[v].up = wrapping[v].up
    <3>1. wrapping \in [Users -> Wrapping]
      BY DEF TypeInv, TypeOK
    <3>2. wrapping[u] \in Wrapping /\ [wrapping[u] EXCEPT !.kept = Wrapped(u)] \in Wrapping
      BY <2>1, <3>1 DEF Wrapping
    <3>3. QED
      BY <1>3, <3>1, <3>2 DEF DropSpace, Wrapping
  <2>3. held' \in [Users -> Row]
    BY <1>3, EmptyIsRow DEF DropSpace, TypeInv, TypeOK
  <2>4. epoch' \in [Users -> 0 .. MaxEpoch]
    BY <1>3, BoundsAreNat DEF DropSpace, TypeInv, TypeOK
  <2>5. jobs' \in [Users -> SUBSET Job]
    BY <1>3 DEF DropSpace, TypeInv, TypeOK
  <2>6. QED
    BY <1>3, <2>2, <2>3, <2>4, <2>5 DEF DropSpace, TypeInv, TypeOK, RequestsInEpoch, server, bounds
<1>4. QED
  BY <1>1, <1>2, <1>3 DEF LoadStep

LEMMA SocketType ==
  ASSUME TypeInv, NEW u \in Users, Disconnect(u) \/ Reconnect(u)
  PROVE  TypeInv'
<1>1. CASE Disconnect(u)
  <2>1. drops' \in 0 .. MaxDrops
    BY <1>1, BoundsAreNat DEF Disconnect, TypeInv, TypeOK
  <2>2. QED
    BY <1>1, <2>1 DEF Disconnect, TypeInv, TypeOK, RequestsInEpoch, server, calls
<1>2. CASE Reconnect(u)
  BY <1>2 DEF Reconnect, TypeInv, TypeOK, RequestsInEpoch, server, calls, bounds
<1>3. QED
  BY <1>1, <1>2

LEMMA NextType == TypeInv /\ [Next]_vars => TypeInv'
<1> SUFFICES ASSUME TypeInv, [Next]_vars PROVE TypeInv'
  OBVIOUS
<1>1. CASE UNCHANGED vars
  BY <1>1 DEF vars, server, client, calls, bounds, TypeInv, TypeOK, RequestsInEpoch
<1>2. CASE Next
  BY <1>2, OwnerIsMember, RemovalType, JoinType, WrapType, LoadType, SocketType DEF Next
<1>3. QED
  BY <1>1, <1>2

(* The tables and the clients keep their types: in particular no epoch     *)
(* leaves its range, and every answer, request and job is well formed.     *)
THEOREM KeysTypeCorrect == Spec => []TypeOK
<1>1. Init => TypeInv
  BY InitType
<1>2. TypeInv /\ [Next]_vars => TypeInv'
  BY NextType
<1>3. TypeInv => TypeOK
  BY DEF TypeInv
<1>4. QED
  BY <1>1, <1>2, <1>3, PTL DEF Spec

-----------------------------------------------------------------------------
(* Who may change the wraps: the insert of an upload, which keeps what was *)
(* there and adds for members only, and a removal, which takes away what   *)
(* was wrapped for its target.                                             *)
LEMMA WrapsStep ==
  ASSUME TypeInv, [Next]_vars
  PROVE  \/ wraps' = wraps /\ current' = current /\ member \subseteq member'
         \/ \E r \in Removals : DeleteMember(r)
         \/ /\ member' = member
            /\ \A u \in Users, e \in Epoch : wraps[u][e] # NoKey => wraps'[u][e] = wraps[u][e]
            /\ \A u \in Users \ member : wraps'[u] = wraps[u]
<1> DEFINE Goal == \/ wraps' = wraps /\ current' = current /\ member \subseteq member'
                   \/ \E r \in Removals : DeleteMember(r)
                   \/ /\ member' = member
                      /\ \A u \in Users, e \in Epoch :
                           wraps[u][e] # NoKey => wraps'[u][e] = wraps[u][e]
                      /\ \A u \in Users \ member : wraps'[u] = wraps[u]
<1>1. CASE UNCHANGED vars
  BY <1>1 DEF vars, server
<1>2. ASSUME NEW r \in Removals, NEW x \in Users, RemoveMember(r, x)
      PROVE  Goal
  BY <1>2 DEF RemoveMember, server
<1>3. ASSUME NEW r \in Removals, RemovalStep(r)
      PROVE  Goal
  <2>1. CASE RotationInsert(r)
    <3>1. removal[r].up \in Upload /\ removal[r].up.epoch \in Epoch
      BY <2>1 DEF RotationInsert, TypeInv, TypeOK, RequestsInEpoch, Removal
    <3>2. member' = member /\ (Commit(removal[r].up) \/ Abort(removal[r].up))
      BY <2>1 DEF RotationInsert
    <3>3. QED
      BY <3>1, <3>2, InsertKeeps DEF TypeInv
  <2>2. CASE DeleteMember(r)
    BY <2>2
  <2>3. CASE FanoutRemoved(r) \/ ListRemaining(r) \/ Rotate(r) \/ RotationCheck(r) \/ RotationDone(r)
    BY <2>3 DEF FanoutRemoved, ListRemaining, Rotate, RotationCheck, RotationDone, server
  <2>4. QED
    BY <1>3, <2>1, <2>2, <2>3 DEF RemovalStep
<1>4. ASSUME NEW r \in Removals, RemovalFails(r)
      PROVE  Goal
  BY <1>4 DEF RemovalFails, server
<1>5. ASSUME NEW u \in Users, AcceptInvite(u) \/ AnnounceJoin(u)
      PROVE  Goal
  BY <1>5 DEF AcceptInvite, AnnounceJoin
<1>6. ASSUME NEW u \in Users, WrapStep(u)
      PROVE  Goal
  <2>1. CASE WrapInsert(u)
    <3>1. wrapping[u].up \in Upload /\ wrapping[u].up.epoch \in Epoch
      BY <2>1 DEF WrapInsert, TypeInv, TypeOK, RequestsInEpoch, Wrapping
    <3>2. member' = member /\ (Commit(wrapping[u].up) \/ Abort(wrapping[u].up))
      BY <2>1 DEF WrapInsert
    <3>3. QED
      BY <3>1, <3>2, InsertKeeps DEF TypeInv
  <2>2. CASE WrapNext(u)
    BY <2>2 DEF WrapNext, server
  <2>3. ASSUME NEW x \in Users, WrapStart(u, x)
        PROVE  Goal
    BY <2>3 DEF WrapStart, server
  <2>4. QED
    BY <1>6, <2>1, <2>2, <2>3 DEF WrapStep
<1>7. ASSUME NEW u \in Users, LoadStep(u) \/ Disconnect(u) \/ Reconnect(u)
      PROVE  Goal
  BY <1>7 DEF LoadStep, FetchKeys, LoadKeys, DropSpace, Disconnect, Reconnect, server
<1>8. QED
  BY <1>1, <1>2, <1>3, <1>4, <1>5, <1>6, <1>7 DEF Next

(* A wrap that is there stays, for as long as its user is a member: no     *)
(* upload, of any call in flight, replaces it.                             *)
THEOREM FirstWrapStays == Spec => FirstWrapWins
<1> DEFINE A == \A u \in member \cap member', e \in Epoch :
                  wraps[u][e] # NoKey => wraps'[u][e] = wraps[u][e]
<1>1. TypeInv /\ [Next]_vars => [A]_vars
  <2> SUFFICES ASSUME TypeInv, [Next]_vars, NEW u \in member \cap member', NEW e \in Epoch,
                      wraps[u][e] # NoKey
               PROVE  wraps'[u][e] = wraps[u][e]
    OBVIOUS
  <2>1. u \in Users /\ wraps \in [Users -> Row]
    BY DEF TypeInv, TypeOK
  <2>2. ASSUME NEW r \in Removals, DeleteMember(r)
        PROVE  wraps'[u][e] = wraps[u][e]
    BY <2>1, <2>2 DEF DeleteMember
  <2>3. QED
    BY <2>1, <2>2, WrapsStep
<1>2. QED
  BY <1>1, InitType, NextType, PTL DEF Spec, FirstWrapWins

(* Wraps are kept for members only.                                        *)
THEOREM WrapsAreMembers == Spec => []WrapsOfMembersOnly
<1> DEFINE Inv == TypeInv /\ WrapsOfMembersOnly
<1>1. Init => Inv
  <2> SUFFICES ASSUME Init, NEW u \in Users, Holds(wraps[u]) # {}
               PROVE  u \in member
    BY InitType DEF WrapsOfMembersOnly
  <2>1. QED
    BY DEF Init, Holds, Empty
<1>2. Inv /\ [Next]_vars => Inv'
  <2> SUFFICES ASSUME Inv, [Next]_vars, NEW u \in Users, Holds(wraps'[u]) # {}
               PROVE  u \in member'
    BY NextType DEF WrapsOfMembersOnly, Holds
  <2>1. wraps \in [Users -> Row]
    BY DEF TypeInv, TypeOK
  <2>2. ASSUME NEW r \in Removals, DeleteMember(r)
        PROVE  u \in member'
    <3>1. u # removal[r].target
      BY <2>1, <2>2 DEF DeleteMember, Holds, Empty
    <3>2. wraps'[u] = wraps[u]
      BY <2>1, <2>2, <3>1 DEF DeleteMember
    <3>3. QED
      BY <2>2, <3>1, <3>2 DEF DeleteMember, WrapsOfMembersOnly
  <2>3. CASE wraps' = wraps /\ member \subseteq member'
    BY <2>3 DEF WrapsOfMembersOnly
  <2>4. CASE member' = member /\ \A v \in Users \ member : wraps'[v] = wraps[v]
    BY <2>4 DEF WrapsOfMembersOnly
  <2>5. QED
    BY <2>2, <2>3, <2>4, WrapsStep
<1>3. QED
  BY <1>1, <1>2, PTL DEF Spec

-----------------------------------------------------------------------------
(* The owner can read the whole history                                    *)

Backed(e) == wraps[Owner][e] # NoKey

(* What the owner holds, or is about to load or to wrap, the server keeps  *)
(* for it too.                                                             *)
OwnerIsBacked ==
  /\ Owner \in member
  /\ \A e \in Epoch : held[Owner][e] # NoKey => Backed(e)
  /\ \A e \in Epoch : wrapping[Owner].kept[e] # NoKey => Backed(e)
  /\ \A a \in answers[Owner], e \in Epoch : a.row[e] # NoKey => Backed(e)

(* A rotation includes the owner, and one that may still move the epoch    *)
(* was checked when the owner had every epoch before its own; by now the   *)
(* epoch may be another, further on or further back.                       *)
RotationsAreBacked ==
  \A r \in Removals :
    /\ removal[r].pc # "new" => removal[r].target # Owner
    /\ removal[r].pc = "listed" => Owner \in removal[r].list
    /\ removal[r].pc \in {"upload", "checked"} =>
         Owner \in removal[r].up.to /\ removal[r].up.key # NoKey
    /\ removal[r].pc = "checked" /\ removal[r].up.rotating =>
         \A e \in Epoch : e < removal[r].up.epoch => Backed(e)
    /\ removal[r].pc = "answered" => Backed(removal[r].up.epoch)

(* Wrapping for a newcomer moves the epoch too, when the owner holds a key *)
(* from beyond an epoch that went back.                                    *)
WrappingsAreBacked ==
  \A u \in Users :
    wrapping[u].pc = "checked" /\ wrapping[u].up.rotating =>
      \A e \in Epoch : e <= wrapping[u].up.epoch => Backed(e)

OwnerInv ==
  TypeInv /\ OwnerIsBacked /\ RotationsAreBacked /\ WrappingsAreBacked /\ OwnerHasEveryEpoch

LEMMA InsertedReaches ==
  ASSUME wraps \in [Users -> Row], NEW up \in Upload, up.epoch \in Epoch, up.key # NoKey,
         NEW S, NEW u \in S \cap Users
  PROVE  Inserted(up, S)[u][up.epoch] # NoKey
BY DEF Inserted, Row

(* The owner is never removed, so its wraps stay.                          *)
LEMMA BackedStays ==
  ASSUME OwnerInv, [Next]_vars
  PROVE  /\ Owner \in Users /\ Owner \in member'
         /\ \A e \in Epoch : wraps[Owner][e] # NoKey => wraps'[Owner][e] # NoKey
<1>1. Owner \in Users /\ Owner \in member /\ wraps \in [Users -> Row]
  BY OwnerIsMember DEF OwnerInv, OwnerIsBacked, TypeInv, TypeOK
<1>2. ASSUME NEW r \in Removals, DeleteMember(r)
      PROVE  Owner \in member' /\ wraps'[Owner] = wraps[Owner]
  <2>1. removal[r].target # Owner
    BY <1>2 DEF DeleteMember, OwnerInv, RotationsAreBacked
  <2>2. QED
    BY <1>1, <1>2, <2>1 DEF DeleteMember
<1>3. TypeInv
  BY DEF OwnerInv
<1>4. QED
  BY <1>1, <1>2, <1>3, WrapsStep

LEMMA OwnerInit == Init => OwnerInv
<1> SUFFICES ASSUME Init PROVE OwnerInv
  OBVIOUS
<1>1. TypeInv
  BY InitType
<1>2. Owner \in Users /\ Owner \in member
  BY OwnerIsMember DEF Init
<1>3. wraps[Owner][1] # NoKey
  BY <1>2, KeysDiffer, BoundsAreNat DEF Init, Empty, Epoch
<1>4. OwnerHasEveryEpoch
  BY <1>3 DEF OwnerHasEveryEpoch, Init, Epoch
<1>5. OwnerIsBacked
  BY <1>2 DEF OwnerIsBacked, Init, NotWrapping, Empty, Backed
<1>6. RotationsAreBacked /\ WrappingsAreBacked
  BY DEF RotationsAreBacked, WrappingsAreBacked, Init, NotWrapping
<1>7. QED
  BY <1>1, <1>4, <1>5, <1>6 DEF OwnerInv

(* The epoch moves only with an upload, and then to one that was checked.  *)
LEMMA EveryEpochStep ==
  ASSUME OwnerInv, [Next]_vars
  PROVE  OwnerHasEveryEpoch'
<1>1. /\ TypeInv /\ Owner \in Users /\ wraps \in [Users -> Row] /\ current \in Epoch
      /\ OwnerHasEveryEpoch /\ OwnerIsBacked /\ RotationsAreBacked /\ WrappingsAreBacked
      /\ current' \in Epoch
  BY OwnerIsMember, NextType DEF OwnerInv, TypeInv, TypeOK
<1>2. CASE current' = current
  BY <1>1, <1>2, BackedStays DEF OwnerHasEveryEpoch
<1>3. ASSUME NEW r \in Removals, RotationInsert(r), current' # current
      PROVE  OwnerHasEveryEpoch'
  <2> DEFINE up == removal[r].up
  <2>1. removal[r].pc = "checked" /\ Commit(up) /\ up.rotating
    BY <1>3 DEF RotationInsert, Commit, Abort
  <2>2. /\ up \in Upload /\ up.epoch \in Epoch /\ Owner \in up.to /\ up.key # NoKey
        /\ \A e \in Epoch : e < up.epoch => wraps[Owner][e] # NoKey
    BY <1>1, <2>1 DEF TypeInv, TypeOK, RequestsInEpoch, Removal, RotationsAreBacked, Backed
  <2>3. current' = up.epoch /\ wraps' = Inserted(up, up.to)
    BY <2>1 DEF Commit
  <2>4. wraps'[Owner][up.epoch] # NoKey
    BY <1>1, <2>2, <2>3, InsertedReaches
  <2>5. \A e \in Epoch : e <= up.epoch => e < up.epoch \/ e = up.epoch
    BY <2>2 DEF Epoch
  <2>6. QED
    BY <2>2, <2>3, <2>4, <2>5, BackedStays DEF OwnerHasEveryEpoch
<1>4. ASSUME NEW u \in Users, WrapInsert(u), current' # current
      PROVE  OwnerHasEveryEpoch'
  <2>1. wrapping[u].pc = "checked" /\ Commit(wrapping[u].up) /\ wrapping[u].up.rotating
    BY <1>4 DEF WrapInsert, Commit, Abort
  <2>2. current' = wrapping[u].up.epoch
    BY <2>1 DEF Commit
  <2>3. \A e \in Epoch : e <= wrapping[u].up.epoch => wraps[Owner][e] # NoKey
    BY <1>1, <2>1 DEF WrappingsAreBacked, Backed
  <2>4. QED
    BY <2>2, <2>3, BackedStays DEF OwnerHasEveryEpoch
<1>5. CASE UNCHANGED vars
  BY <1>2, <1>5 DEF vars, server
<1>6. ASSUME NEW r \in Removals, RemovalStep(r)
      PROVE  current' = current \/ RotationInsert(r)
  BY <1>6 DEF RemovalStep, FanoutRemoved, DeleteMember, ListRemaining, Rotate, RotationCheck,
              RotationDone, server
<1>7. ASSUME NEW r \in Removals, NEW x \in Users, RemoveMember(r, x) \/ RemovalFails(r)
      PROVE  current' = current
  BY <1>7 DEF RemoveMember, RemovalFails, server
<1>8. ASSUME NEW u \in Users, WrapStep(u)
      PROVE  current' = current \/ WrapInsert(u)
  BY <1>8 DEF WrapStep, WrapStart, WrapNext, server
<1>9. ASSUME NEW u \in Users,
             AcceptInvite(u) \/ AnnounceJoin(u) \/ LoadStep(u) \/ Disconnect(u) \/ Reconnect(u)
      PROVE  current' = current
  BY <1>9 DEF AcceptInvite, AnnounceJoin, LoadStep, FetchKeys, LoadKeys, DropSpace, Disconnect,
              Reconnect, server
<1>10. ASSUME Next
       PROVE  \/ current' = current
              \/ \E r \in Removals : RotationInsert(r)
              \/ \E u \in Users : WrapInsert(u)
  BY <1>1, <1>6, <1>7, <1>8, <1>9, <1>10 DEF Next
<1>11. QED
  BY <1>2, <1>3, <1>4, <1>5, <1>10

LEMMA OwnerIsBackedStep ==
  ASSUME OwnerInv, [Next]_vars
  PROVE  OwnerIsBacked'
<1>1. /\ TypeInv /\ Owner \in Users /\ wraps \in [Users -> Row] /\ held \in [Users -> Row]
      /\ answers \in [Users -> SUBSET Answer] /\ wrapping \in [Users -> Wrapping]
      /\ OwnerIsBacked /\ RotationsAreBacked
  BY OwnerIsMember DEF OwnerInv, TypeInv, TypeOK
<1>2. CASE UNCHANGED <<held, answers, wrapping>>
  BY <1>1, <1>2, BackedStays DEF OwnerIsBacked, Backed
<1>3. ASSUME NEW r \in Removals, RotationDone(r)
      PROVE  OwnerIsBacked'
  <2> DEFINE up == removal[r].up
  <2>1. up.epoch \in Epoch /\ wraps[Owner][up.epoch] # NoKey
    BY <1>1, <1>3 DEF RotationDone, TypeInv, RequestsInEpoch, RotationsAreBacked, Backed
  <2>2. \A e \in Epoch : held'[Owner][e] # NoKey => e = up.epoch \/ held[Owner][e] # NoKey
    BY <1>1, <1>3 DEF RotationDone, Row
  <2>3. answers' = answers /\ wrapping' = wrapping
    BY <1>3 DEF RotationDone
  <2>4. QED
    BY <1>1, <2>1, <2>2, <2>3, BackedStays DEF OwnerIsBacked, Backed
<1>4. ASSUME NEW u \in Users, NEW k \in {"load", "open"}, FetchKeys(u, k)
      PROVE  OwnerIsBacked'
  <2>1. \A a \in answers'[Owner] : a \in answers[Owner] \/ a.row = wraps[Owner]
    BY <1>1, <1>4 DEF FetchKeys
  <2>2. held' = held /\ wrapping' = wrapping
    BY <1>4 DEF FetchKeys, calls
  <2>3. QED
    BY <1>1, <2>1, <2>2, BackedStays DEF OwnerIsBacked, Backed
<1>5. ASSUME NEW u \in Users, NEW a \in answers[u], LoadKeys(u, a)
      PROVE  OwnerIsBacked'
  <2>1. answers'[Owner] \subseteq answers[Owner] /\ wrapping' = wrapping
    BY <1>1, <1>5 DEF LoadKeys, calls
  <2>2. \A e \in Epoch : held'[Owner][e] # NoKey =>
           held[Owner][e] # NoKey \/ (u = Owner /\ a.row[e] # NoKey)
    BY <1>1, <1>5 DEF LoadKeys, Row
  <2>3. QED
    BY <1>1, <2>1, <2>2, BackedStays DEF OwnerIsBacked, Backed
<1>6. ASSUME NEW u \in Users, DropSpace(u)
      PROVE  OwnerIsBacked'
  <2>1. answers' = answers
    BY <1>6 DEF DropSpace
  <2>2. \A e \in Epoch : held'[Owner][e] # NoKey => held[Owner][e] # NoKey
    BY <1>1, <1>6 DEF DropSpace, Empty
  <2>3. \A e \in Epoch : wrapping'[Owner].kept[e] # NoKey =>
           wrapping[Owner].kept[e] # NoKey \/ held[Owner][e] # NoKey
    BY <1>1, <1>6 DEF DropSpace, Wrapped, Wrapping
  <2>4. QED
    BY <1>1, <2>1, <2>2, <2>3, BackedStays DEF OwnerIsBacked, Backed
<1>7. ASSUME NEW u \in Users, WrapStep(u)
      PROVE  OwnerIsBacked'
  <2>1. held' = held /\ answers' = answers
    BY <1>7 DEF WrapStep, WrapStart, WrapNext, WrapInsert, client
  <2>2. wrapping'[Owner].kept = wrapping[Owner].kept \/ wrapping'[Owner].kept = Empty
    <3>1. ASSUME NEW x \in Users, WrapStart(u, x)
          PROVE  wrapping'[Owner].kept = wrapping[Owner].kept
      BY <1>1, <3>1 DEF WrapStart, Wrapping
    <3>2. CASE WrapInsert(u)
      BY <1>1, <3>2 DEF WrapInsert, Wrapping
    <3>3. CASE wrapping' = [wrapping EXCEPT ![u] = NotWrapping(u)]
      BY <1>1, <3>3 DEF NotWrapping
    <3>4. CASE WrapNext(u) /\ wrapping' # [wrapping EXCEPT ![u] = NotWrapping(u)]
      <4> DEFINE Request(e) == [epoch |-> e, to |-> {wrapping[u].for}, key |-> Wrapped(u)[e],
                                rotating |-> e = current + 1]
      <4>1. PICK e : wrapping' = [wrapping EXCEPT
                       ![u].pc = IF Accepted(u, Request(e)) THEN "checked" ELSE "next",
                       ![u].tried = @ \cup {e}, ![u].up = Request(e)]
        BY <3>4 DEF WrapNext
      <4>2. QED
        BY <1>1, <4>1 DEF Wrapping
    <3>5. QED
      BY <1>7, <3>1, <3>2, <3>3, <3>4 DEF WrapStep
  <2>3. QED
    BY <1>1, <2>1, <2>2, BackedStays DEF OwnerIsBacked, Backed, Empty
<1>8. CASE UNCHANGED vars
  BY <1>2, <1>8 DEF vars, client, calls
<1>9. ASSUME NEW r \in Removals, RemovalStep(r)
      PROVE  UNCHANGED <<held, answers, wrapping>> \/ RotationDone(r)
  BY <1>9 DEF RemovalStep, FanoutRemoved, DeleteMember, ListRemaining, Rotate, RotationCheck,
              RotationInsert, client
<1>10. ASSUME NEW r \in Removals, NEW x \in Users, RemoveMember(r, x) \/ RemovalFails(r)
       PROVE  UNCHANGED <<held, answers, wrapping>>
  BY <1>10 DEF RemoveMember, RemovalFails, client
<1>11. ASSUME NEW u \in Users,
              AcceptInvite(u) \/ AnnounceJoin(u) \/ Disconnect(u) \/ Reconnect(u)
       PROVE  UNCHANGED <<held, answers, wrapping>>
  BY <1>11 DEF AcceptInvite, AnnounceJoin, Disconnect, Reconnect, client, calls
<1>12. ASSUME NEW u \in Users, LoadStep(u)
       PROVE  OwnerIsBacked'
  BY <1>4, <1>5, <1>6, <1>12 DEF LoadStep
<1>13. ASSUME Next
       PROVE  \/ UNCHANGED <<held, answers, wrapping>>
              \/ \E r \in Removals : RotationDone(r)
              \/ \E u \in Users : WrapStep(u) \/ LoadStep(u)
  BY <1>1, <1>9, <1>10, <1>11, <1>13 DEF Next
<1>14. QED
  BY <1>2, <1>3, <1>7, <1>8, <1>12, <1>13

LEMMA RotationsStep ==
  ASSUME OwnerInv, [Next]_vars
  PROVE  RotationsAreBacked'
<1>1. /\ TypeInv /\ Owner \in Users /\ wraps \in [Users -> Row] /\ current \in Epoch
      /\ removal \in [Removals -> Removal]
      /\ OwnerIsBacked /\ RotationsAreBacked /\ OwnerHasEveryEpoch
  BY OwnerIsMember DEF OwnerInv, TypeInv, TypeOK
<1> DEFINE Fine(s, m) ==
      /\ m.pc # "new" => m.target # Owner
      /\ m.pc = "listed" => Owner \in m.list
      /\ m.pc \in {"upload", "checked"} => Owner \in m.up.to /\ m.up.key # NoKey
      /\ m.pc = "checked" /\ m.up.rotating =>
           \A e \in Epoch : e < m.up.epoch => wraps'[Owner][e] # NoKey
      /\ m.pc = "answered" => wraps'[Owner][m.up.epoch] # NoKey
<1>2. \A s \in Removals : Fine(s, removal[s])
  BY <1>1, BackedStays DEF RotationsAreBacked, Backed, TypeInv, RequestsInEpoch
<1>3. SUFFICES \A s \in Removals : Fine(s, removal'[s])
  BY DEF RotationsAreBacked, Backed
<1>4. CASE removal' = removal
  BY <1>2, <1>4
<1>5. ASSUME NEW r \in Removals, Fine(r, removal'[r]),
             \A s \in Removals \ {r} : removal'[s] = removal[s]
      PROVE  \A s \in Removals : Fine(s, removal'[s])
  BY <1>2, <1>5
<1>6. ASSUME NEW r \in Removals, NEW x \in Users, RemoveMember(r, x)
      PROVE  \A s \in Removals : Fine(s, removal'[s])
  <2>1. Fine(r, removal'[r])
    BY <1>1, <1>6 DEF RemoveMember, Removal
  <2>2. \A s \in Removals \ {r} : removal'[s] = removal[s]
    BY <1>1, <1>6 DEF RemoveMember
  <2>3. QED
    BY <1>5, <2>1, <2>2
<1>7. ASSUME NEW r \in Removals, RemovalStep(r) \/ RemovalFails(r)
      PROVE  \A s \in Removals : Fine(s, removal'[s])
  <2> DEFINE m == removal[r]
  <2>1. m \in Removal /\ m.up \in Upload /\ Fine(r, m)
    BY <1>1, <1>2 DEF Removal
  <2>2. \A s \in Removals \ {r} : removal'[s] = removal[s]
    BY <1>1, <1>7 DEF RemovalStep, RemovalFails, FanoutRemoved, DeleteMember, ListRemaining, Rotate,
                      RotationCheck, RotationInsert, RotationDone, Removed
  <2>3. CASE FanoutRemoved(r) \/ DeleteMember(r) \/ RotationDone(r) \/ RemovalFails(r)
    <3>1. /\ removal'[r].pc \in {"fanned", "deleted", "failed", "done"}
          /\ removal'[r].target = m.target /\ m.pc # "new"
      BY <1>1, <2>1, <2>3 DEF FanoutRemoved, DeleteMember, RotationDone, RemovalFails, Removed, Removal
    <3>2. QED
      BY <1>5, <2>1, <2>2, <3>1
  <2>4. CASE ListRemaining(r)
    <3>1. /\ removal'[r].pc = "listed" /\ removal'[r].list = member
          /\ removal'[r].target = m.target /\ m.pc # "new"
      BY <1>1, <2>1, <2>4 DEF ListRemaining, Removal
    <3>2. QED
      BY <1>1, <1>5, <2>1, <2>2, <3>1 DEF OwnerIsBacked
  <2>5. CASE Rotate(r)
    <3>1. /\ removal'[r].pc = "upload" /\ removal'[r].up = Rekeying(r)
          /\ removal'[r].target = m.target /\ m.pc = "listed"
      BY <1>1, <2>1, <2>5 DEF Rotate, Removal
    <3>2. Owner \in Rekeying(r).to /\ Rekeying(r).key # NoKey
      BY <2>1, <3>1, KeysDiffer DEF Rekeying
    <3>3. QED
      BY <1>5, <2>1, <2>2, <3>1, <3>2
  <2>6. CASE RotationCheck(r)
    <3>1. CASE removal' = [removal EXCEPT ![r].pc = "failed"]
      <4>1. removal'[r].pc = "failed" /\ removal'[r].target = m.target /\ m.pc # "new"
        BY <1>1, <2>1, <2>6, <3>1 DEF RotationCheck, Removal
      <4>2. QED
        BY <1>5, <2>1, <2>2, <4>1
    <3>2. CASE removal' = [removal EXCEPT ![r].pc = "checked", ![r].up.rotating = m.up.epoch = current + 1]
      <4>1. /\ removal'[r].pc = "checked" /\ removal'[r].target = m.target /\ m.pc = "upload"
            /\ removal'[r].up.to = m.up.to /\ removal'[r].up.key = m.up.key
            /\ removal'[r].up.epoch = m.up.epoch
            /\ removal'[r].up.rotating = (m.up.epoch = current + 1)
        BY <1>1, <2>1, <2>6, <3>2 DEF RotationCheck, Removal, Upload
      <4>2. m.up.epoch = current + 1 =>
              \A e \in Epoch : e < m.up.epoch => wraps'[Owner][e] # NoKey
        <5>1. ASSUME m.up.epoch = current + 1, NEW e \in Epoch, e < m.up.epoch
              PROVE  e <= current
          BY <1>1, <5>1 DEF Epoch
        <5>2. QED
          BY <1>1, <5>1, BackedStays DEF OwnerHasEveryEpoch
      <4>3. QED
        BY <1>5, <2>1, <2>2, <4>1, <4>2
    <3>3. QED
      BY <2>6, <3>1, <3>2 DEF RotationCheck
  <2>7. CASE RotationInsert(r)
    <3>1. /\ m.pc = "checked" /\ removal'[r].target = m.target /\ removal'[r].up = m.up
          /\ m.up.epoch \in Epoch /\ Owner \in m.up.to /\ m.up.key # NoKey
      BY <1>1, <2>1, <2>7 DEF RotationInsert, Removed, Removal, TypeInv, RequestsInEpoch
    <3>2. CASE Commit(m.up) /\ removal'[r].pc = "answered"
      <4>1. wraps'[Owner][m.up.epoch] # NoKey
        BY <1>1, <2>1, <3>1, <3>2, InsertedReaches DEF Commit
      <4>2. QED
        BY <1>5, <2>1, <2>2, <3>1, <3>2, <4>1
    <3>3. CASE removal'[r].pc = "failed"
      BY <1>5, <2>1, <2>2, <3>1, <3>3
    <3>4. QED
      BY <1>1, <2>1, <2>7, <3>2, <3>3 DEF RotationInsert, Removed, Removal
  <2>8. QED
    BY <1>7, <2>3, <2>4, <2>5, <2>6, <2>7 DEF RemovalStep
<1>8. ASSUME NEW u \in Users,
             \/ AcceptInvite(u) \/ AnnounceJoin(u) \/ WrapStep(u)
             \/ LoadStep(u) \/ Disconnect(u) \/ Reconnect(u)
      PROVE  removal' = removal
  BY <1>8 DEF AcceptInvite, AnnounceJoin, WrapStep, WrapStart, WrapNext, WrapInsert, LoadStep,
              FetchKeys, LoadKeys, DropSpace, Disconnect, Reconnect, calls
<1>9. CASE UNCHANGED vars
  BY <1>4, <1>9 DEF vars, calls
<1>10. QED
  BY <1>4, <1>6, <1>7, <1>8, <1>9 DEF Next

LEMMA WrappingsStep ==
  ASSUME OwnerInv, [Next]_vars
  PROVE  WrappingsAreBacked'
<1>1. /\ TypeInv /\ Owner \in Users /\ current \in Epoch
      /\ wrapping \in [Users -> Wrapping] /\ held \in [Users -> Row]
      /\ OwnerIsBacked /\ WrappingsAreBacked /\ OwnerHasEveryEpoch
  BY OwnerIsMember DEF OwnerInv, TypeInv, TypeOK
<1>2. ASSUME \A u \in Users : \/ wrapping'[u].pc # "checked"
                              \/ wrapping'[u].pc = wrapping[u].pc /\ wrapping'[u].up = wrapping[u].up
      PROVE  WrappingsAreBacked'
  BY <1>1, <1>2, BackedStays DEF WrappingsAreBacked, Backed
<1>3. CASE wrapping' = wrapping
  BY <1>2, <1>3
<1>4. ASSUME NEW u \in Users, WrapStep(u)
      PROVE  WrappingsAreBacked'
  <2>1. ASSUME NEW x \in Users, WrapStart(u, x)
        PROVE  WrappingsAreBacked'
    BY <1>1, <1>2, <2>1 DEF WrapStart, Wrapping
  <2>2. CASE WrapInsert(u)
    BY <1>1, <1>2, <2>2 DEF WrapInsert, Wrapping
  <2>3. CASE WrapNext(u)
    <3> DEFINE w == wrapping[u]
               Request(e) == [epoch |-> e, to |-> {w.for}, key |-> Wrapped(u)[e],
                              rotating |-> e = current + 1]
    <3>1. CASE wrapping' = [wrapping EXCEPT ![u] = NotWrapping(u)]
      BY <1>1, <1>2, <3>1 DEF NotWrapping
    <3>2. ASSUME NEW e \in Holds(Wrapped(u)),
                 wrapping' = [wrapping EXCEPT ![u].pc = IF Accepted(u, Request(e)) THEN "checked" ELSE "next",
                                              ![u].tried = @ \cup {e}, ![u].up = Request(e)]
          PROVE  WrappingsAreBacked'
      <4>1. /\ wrapping'[u].pc = "checked" => Accepted(u, Request(e))
            /\ wrapping'[u].up.epoch = e /\ wrapping'[u].up.rotating = (e = current + 1)
            /\ \A v \in Users \ {u} : wrapping'[v] = wrapping[v]
        BY <1>1, <3>2 DEF Wrapping
      <4>2. ASSUME wrapping'[u].pc = "checked", e = current + 1, NEW f \in Epoch, f <= e
            PROVE  wraps'[Owner][f] # NoKey
        <5>1. u = Owner
          BY <4>1, <4>2 DEF Accepted
        <5>2. wraps[Owner][e] # NoKey /\ e \in Epoch
          BY <1>1, <3>2, <5>1 DEF Holds, Wrapped, OwnerIsBacked, Backed
        <5>3. f = e \/ f <= current
          BY <1>1, <4>2 DEF Epoch
        <5>4. QED
          BY <1>1, <5>2, <5>3, BackedStays DEF OwnerHasEveryEpoch
      <4>3. QED
        <5>1. \A v \in Users \ {u} :
                wrapping'[v].pc = "checked" /\ wrapping'[v].up.rotating =>
                  \A f \in Epoch : f <= wrapping'[v].up.epoch => wraps'[Owner][f] # NoKey
          BY <1>1, <4>1, BackedStays DEF WrappingsAreBacked, Backed
        <5>2. wrapping'[u].pc = "checked" /\ wrapping'[u].up.rotating =>
                \A f \in Epoch : f <= wrapping'[u].up.epoch => wraps'[Owner][f] # NoKey
          BY <4>1, <4>2
        <5>3. QED
          BY <5>1, <5>2 DEF WrappingsAreBacked, Backed
    <3>3. QED
      BY <2>3, <3>1, <3>2 DEF WrapNext
  <2>4. QED
    BY <1>4, <2>1, <2>2, <2>3 DEF WrapStep
<1>5. ASSUME NEW u \in Users, LoadStep(u)
      PROVE  WrappingsAreBacked'
  <2>1. CASE DropSpace(u)
    BY <1>1, <1>2, <2>1 DEF DropSpace, Wrapping
  <2>2. QED
    BY <1>3, <1>5, <2>1 DEF LoadStep, FetchKeys, LoadKeys, calls
<1>6. ASSUME NEW r \in Removals, NEW x \in Users,
             RemoveMember(r, x) \/ RemovalStep(r) \/ RemovalFails(r)
      PROVE  wrapping' = wrapping
  BY <1>6 DEF RemoveMember, RemovalStep, RemovalFails, FanoutRemoved, DeleteMember, ListRemaining,
              Rotate, RotationCheck, RotationInsert, RotationDone
<1>7. ASSUME NEW u \in Users,
             AcceptInvite(u) \/ AnnounceJoin(u) \/ Disconnect(u) \/ Reconnect(u)
      PROVE  wrapping' = wrapping
  BY <1>7 DEF AcceptInvite, AnnounceJoin, Disconnect, Reconnect, calls
<1>8. CASE UNCHANGED vars
  BY <1>3, <1>8 DEF vars, calls
<1>9. QED
  BY <1>1, <1>3, <1>4, <1>5, <1>6, <1>7, <1>8 DEF Next

(* Whatever removals, joins and failures interleave, the server keeps for  *)
(* the owner a wrap of every epoch up to the current one, so the owner can *)
(* read the whole history and rotate from it.                              *)
THEOREM OwnerReadsAll == Spec => []OwnerHasEveryEpoch
<1>1. Init => OwnerInv
  BY OwnerInit
<1>2. OwnerInv /\ [Next]_vars => OwnerInv'
  BY NextType, EveryEpochStep, OwnerIsBackedStep, RotationsStep, WrappingsStep DEF OwnerInv
<1>3. OwnerInv => OwnerHasEveryEpoch
  BY DEF OwnerInv
<1>4. QED
  BY <1>1, <1>2, <1>3, PTL DEF Spec
-----------------------------------------------------------------------------
(* Which epoch a key is of.  Keys are wrapped, loaded and handed on in any *)
(* order, and all that keeps one from being filed under a second epoch is  *)
(* that a removal counts the epoch once, when it generates the key.  The   *)
(* server takes it only when the owner has a wrap of every epoch before.   *)

(* Key k was generated for epoch e. *)
OfEpoch(k, e) ==
  \/ k = FirstKey /\ e = 1
  \/ k \in Removals /\ removal[k].up.key = k /\ removal[k].up.epoch = e

(* The epochs before e are the owner's to read. *)
BackedBefore(e) == \A f \in Epoch : f < e => Backed(f)

Belongs(k, e) == OfEpoch(k, e) /\ BackedBefore(e)

Filed(row) == \A e \in Epoch : row[e] # NoKey => Belongs(row[e], e)

(* Wherever a key lies, it lies under the epoch it was generated for, and  *)
(* no epoch before that is left without one.                               *)
KeysAreFiled ==
  \A u \in Users :
    /\ Filed(held[u]) /\ Filed(wraps[u]) /\ Filed(wrapping[u].kept)
    /\ \A a \in answers[u] : Filed(a.row)
    /\ wrapping[u].pc = "checked" => Belongs(wrapping[u].up.key, wrapping[u].up.epoch)

(* A removal uploads its own key or has none yet, and never for epoch 1. *)
RequestsAreFiled ==
  \A r \in Removals :
    /\ removal[r].up.key \in {NoKey, r}
    /\ removal[r].up.key = r => removal[r].up.epoch > 1
    /\ removal[r].pc \in {"new", "asked", "fanned", "deleted", "listed"} => removal[r].up.key = NoKey
    /\ removal[r].pc \in {"upload", "checked", "answered", "done"} => removal[r].up.key = r
    /\ removal[r].pc \in {"checked", "answered"} => BackedBefore(removal[r].up.epoch)

(* The owner's client shows the space all the time: it never drops it. *)
OwnerShowsSpace == epoch[Owner] # 0 /\ Do("dropped") \notin jobs[Owner]

KeysInv == OwnerInv /\ KeysAreFiled /\ RequestsAreFiled /\ OwnerShowsSpace

(* What is used of the invariant throughout. *)
LEMMA KeysInvGives ==
  ASSUME KeysInv
  PROVE  /\ TypeInv /\ TypeOK /\ Owner \in Users /\ member \subseteq Users
         /\ wraps \in [Users -> Row] /\ held \in [Users -> Row]
         /\ jobs \in [Users -> SUBSET Job] /\ answers \in [Users -> SUBSET Answer]
         /\ removal \in [Removals -> Removal] /\ wrapping \in [Users -> Wrapping]
         /\ epoch \in [Users -> 0 .. MaxEpoch]
BY OwnerIsMember DEF KeysInv, OwnerInv, TypeInv, TypeOK

(* wrapKeysFor touches the wraps only where it inserts, and no other       *)
(* client's call.                                                          *)
LEMMA WrapStepLeaves ==
  ASSUME wrapping \in [Users -> Wrapping], NEW u \in Users, WrapStep(u)
  PROVE  /\ UNCHANGED <<member, held, epoch, answers, removal>>
         /\ (wraps' = wraps /\ current' = current) \/ WrapInsert(u)
         /\ \A v \in Users \ {u} : wrapping'[v] = wrapping[v]
<1>1. ASSUME NEW x \in Users, WrapStart(u, x)
      PROVE  /\ UNCHANGED <<member, held, epoch, answers, removal, wraps, current>>
             /\ \A v \in Users \ {u} : wrapping'[v] = wrapping[v]
  BY <1>1 DEF WrapStart, server
<1>2. CASE WrapNext(u)
  <2>1. UNCHANGED <<server, client, removal>>
    BY <1>2 DEF WrapNext
  <2>2. \E w : wrapping' = [wrapping EXCEPT ![u] = w]
    <3> DEFINE Request(e) == [epoch |-> e, to |-> {wrapping[u].for}, key |-> Wrapped(u)[e],
                              rotating |-> e = current + 1]
    <3>1. CASE wrapping' = [wrapping EXCEPT ![u] = NotWrapping(u)]
      BY <3>1
    <3>2. ASSUME NEW e, wrapping' = [wrapping EXCEPT
                   ![u].pc = IF Accepted(u, Request(e)) THEN "checked" ELSE "next",
                   ![u].tried = @ \cup {e}, ![u].up = Request(e)]
          PROVE  wrapping' = [wrapping EXCEPT ![u] = wrapping'[u]]
      BY <3>2
    <3>3. QED
      BY <1>2, <3>1, <3>2 DEF WrapNext
  <2>3. QED
    BY <2>1, <2>2 DEF server, client
<1>3. CASE WrapInsert(u)
  BY <1>3 DEF WrapInsert
<1>4. QED
  BY <1>1, <1>2, <1>3 DEF WrapStep

(* Only the owner's calls write their records. *)
LEMMA UsersLeaveRemovals ==
  ASSUME TypeInv, NEW u \in Users,
         \/ AcceptInvite(u) \/ AnnounceJoin(u) \/ WrapStep(u)
         \/ LoadStep(u) \/ Disconnect(u) \/ Reconnect(u)
  PROVE  removal' = removal
<1>1. CASE WrapStep(u)
  BY <1>1, WrapStepLeaves DEF TypeInv, TypeOK
<1>2. CASE AcceptInvite(u) \/ AnnounceJoin(u) \/ LoadStep(u) \/ Disconnect(u) \/ Reconnect(u)
  BY <1>2 DEF AcceptInvite, AnnounceJoin, LoadStep, FetchKeys, LoadKeys, DropSpace, Disconnect,
              Reconnect, calls
<1>3. QED
  BY <1>1, <1>2

(* The request of a removal is made once, by Rotate; else its key and      *)
(* epoch stay.                                                             *)
LEMMA RequestStays ==
  ASSUME KeysInv, [Next]_vars, NEW r \in Removals
  PROVE  \/ /\ removal'[r].up.key = removal[r].up.key
            /\ removal'[r].up.epoch = removal[r].up.epoch
         \/ /\ Rotate(r) /\ removal[r].up.key = NoKey
            /\ removal'[r].pc = "upload" /\ removal'[r].up = Rekeying(r)
<1> DEFINE Goal == \/ /\ removal'[r].up.key = removal[r].up.key
                      /\ removal'[r].up.epoch = removal[r].up.epoch
                   \/ /\ Rotate(r) /\ removal[r].up.key = NoKey
                      /\ removal'[r].pc = "upload" /\ removal'[r].up = Rekeying(r)
<1>1. removal \in [Removals -> Removal] /\ removal[r] \in Removal /\ removal[r].up \in Upload
  BY KeysInvGives DEF Removal
<1>2. ASSUME NEW s \in Removals, RemovalStep(s) \/ RemovalFails(s)
      PROVE  Goal
  <2>1. CASE Rotate(s)
    <3>1. CASE s = r
      BY <1>1, <2>1, <3>1 DEF Rotate, KeysInv, RequestsAreFiled, Removal
    <3>2. CASE s # r
      BY <1>1, <2>1, <3>2 DEF Rotate
    <3>3. QED
      BY <3>1, <3>2
  <2>2. CASE RotationCheck(s)
    BY <1>1, <2>2 DEF RotationCheck, Removal, Upload
  <2>3. CASE \/ FanoutRemoved(s) \/ DeleteMember(s) \/ ListRemaining(s) \/ RotationInsert(s)
             \/ RotationDone(s) \/ RemovalFails(s)
    BY <1>1, <2>3 DEF FanoutRemoved, DeleteMember, ListRemaining, RotationInsert, RotationDone,
                      RemovalFails, Removed, Removal
  <2>4. QED
    BY <1>2, <2>1, <2>2, <2>3 DEF RemovalStep
<1>3. ASSUME NEW s \in Removals, NEW x \in Users, RemoveMember(s, x)
      PROVE  Goal
  BY <1>1, <1>3 DEF RemoveMember, Removal
<1>4. ASSUME NEW u \in Users,
             \/ AcceptInvite(u) \/ AnnounceJoin(u) \/ WrapStep(u)
             \/ LoadStep(u) \/ Disconnect(u) \/ Reconnect(u)
      PROVE  removal' = removal
  BY <1>4, KeysInvGives, UsersLeaveRemovals
<1>5. CASE UNCHANGED vars
  BY <1>5 DEF vars, calls
<1>6. QED
  BY <1>2, <1>3, <1>4, <1>5 DEF Next

(* A key stays one of the epoch it was generated for, *)
LEMMA EpochStays ==
  ASSUME KeysInv, [Next]_vars
  PROVE  /\ \A k, e : OfEpoch(k, e) => OfEpoch(k, e)'
         /\ \A e : BackedBefore(e) => BackedBefore(e)'
         /\ \A k, e : Belongs(k, e) => Belongs(k, e)'
<1>1. ASSUME NEW k, NEW e, OfEpoch(k, e)
      PROVE  OfEpoch(k, e)'
  <2>1. CASE k = FirstKey /\ e = 1
    BY <2>1 DEF OfEpoch
  <2>2. CASE k \in Removals /\ removal[k].up.key = k /\ removal[k].up.epoch = e
    BY <2>2, RequestStays, KeysDiffer DEF OfEpoch
  <2>3. QED
    BY <1>1, <2>1, <2>2 DEF OfEpoch
<1>2. \A e : BackedBefore(e) => BackedBefore(e)'
  BY BackedStays DEF KeysInv, BackedBefore, Backed
<1>3. QED
  BY <1>1, <1>2 DEF Belongs

(* and what is filed stays so. *)
LEMMA FiledStays ==
  ASSUME KeysInv, [Next]_vars
  PROVE  \A row : Filed(row) => Filed(row)'
BY EpochStays DEF Filed

(* An upload files its key where it is of. *)
LEMMA InsertFiles ==
  ASSUME KeysInv, [Next]_vars, NEW up \in Upload, up.epoch \in Epoch,
         Belongs(up.key, up.epoch), Commit(up) \/ Abort(up), NEW u \in Users
  PROVE  Filed(wraps[u])'
<1>1. PICK S : wraps' = Inserted(up, S)
  BY DEF Commit, Abort
<1>2. Filed(wraps[u]) /\ wraps[u] \in Row
  BY KeysInvGives DEF KeysInv, KeysAreFiled
<1>3. \A e \in Epoch : wraps'[u][e] = wraps[u][e] \/ (e = up.epoch /\ wraps'[u][e] = up.key)
  BY <1>1, <1>2 DEF Inserted, Row
<1>4. QED
  BY <1>2, <1>3, EpochStays DEF Filed

LEMMA KeysInit == Init => KeysInv
<1> SUFFICES ASSUME Init PROVE KeysInv
  OBVIOUS
<1>1. OwnerInv
  BY OwnerInit
<1>2. ASSUME NEW u \in Users
      PROVE  Filed(wraps[u]) /\ Filed(Empty)
  <2>1. \A e \in Epoch : Empty[e] = NoKey
    BY DEF Empty
  <2>2. \A e \in Epoch : wraps[u][e] = NoKey \/ (wraps[u][e] = FirstKey /\ e = 1)
    BY <2>1 DEF Init, Empty
  <2>3. BackedBefore(1)
    BY DEF BackedBefore, Epoch
  <2>4. QED
    BY <2>1, <2>2, <2>3 DEF Filed, Belongs, OfEpoch
<1>3. KeysAreFiled
  <2>1. ASSUME NEW u \in Users
        PROVE  /\ held = wraps /\ wrapping[u].kept = Empty /\ wrapping[u].pc = "idle"
               /\ answers[u] = {}
    BY DEF Init, NotWrapping
  <2>2. QED
    BY <1>2, <2>1 DEF KeysAreFiled
<1>4. RequestsAreFiled
  BY KeysDiffer DEF Init, RequestsAreFiled, NoUpload
<1>5. OwnerShowsSpace
  BY OwnerIsMember DEF Init, OwnerShowsSpace
<1>6. QED
  BY <1>1, <1>3, <1>4, <1>5 DEF KeysInv

(* A request that passed the check leaves no epoch out.                    *)
LEMMA RequestBackedStep ==
  ASSUME KeysInv, [Next]_vars, NEW r \in Removals, removal'[r].pc \in {"checked", "answered"}
  PROVE  BackedBefore(removal[r].up.epoch)'
<1>1. /\ removal \in [Removals -> Removal] /\ removal[r] \in Removal /\ removal[r].up \in Upload
      /\ RequestsAreFiled /\ OwnerHasEveryEpoch /\ current \in Epoch
  BY KeysInvGives DEF KeysInv, OwnerInv, TypeOK, Removal
<1>2. removal'[r].up.epoch = removal[r].up.epoch
  BY RequestStays
<1>3. CASE removal[r].pc \in {"checked", "answered"}
  BY <1>1, <1>2, <1>3, EpochStays DEF RequestsAreFiled
<1>4. CASE RotationCheck(r) /\ removal'[r].pc = "checked"
  <2>1. Accepted(Owner, removal[r].up)
    BY <1>1, <1>4 DEF RotationCheck
  <2>2. removal[r].up.epoch <= current + 1 /\ removal[r].up.epoch \in Epoch
    BY <1>1, <1>4, <2>1 DEF Accepted, RotationCheck, Epoch
  <2>3. \A f \in Epoch : f < removal[r].up.epoch => f <= current
    BY <1>1, <2>2 DEF Epoch
  <2>4. BackedBefore(removal[r].up.epoch)
    BY <1>1, <2>3 DEF BackedBefore, Backed, OwnerHasEveryEpoch
  <2>5. QED
    BY <1>2, <2>4, EpochStays
<1>5. ASSUME NEW s \in Removals, RemovalStep(s) \/ RemovalFails(s)
      PROVE  removal[r].pc \in {"checked", "answered"} \/ RotationCheck(r)
  <2>1. CASE s # r
    <3>1. removal'[r] = removal[r]
      BY <1>1, <1>5, <2>1 DEF RemovalStep, RemovalFails, FanoutRemoved, DeleteMember, ListRemaining,
                              Rotate, RotationCheck, RotationInsert, RotationDone, Removed
    <3>2. QED
      BY <3>1
  <2>2. CASE /\ s = r
            /\ \/ FanoutRemoved(r) \/ DeleteMember(r) \/ ListRemaining(r) \/ Rotate(r)
               \/ RotationDone(r) \/ RemovalFails(r)
    BY <1>1, <2>2 DEF FanoutRemoved, DeleteMember, ListRemaining, Rotate, RotationDone, RemovalFails,
                      Removed, Removal
  <2>3. CASE s = r /\ RotationInsert(r)
    BY <2>3 DEF RotationInsert
  <2>4. QED
    BY <1>5, <2>1, <2>2, <2>3 DEF RemovalStep
<1>6. ASSUME NEW s \in Removals, NEW x \in Users, RemoveMember(s, x)
      PROVE  removal[r].pc \in {"checked", "answered"}
  BY <1>1, <1>6 DEF RemoveMember, Removal
<1>7. ASSUME NEW u \in Users,
             \/ AcceptInvite(u) \/ AnnounceJoin(u) \/ WrapStep(u)
             \/ LoadStep(u) \/ Disconnect(u) \/ Reconnect(u)
      PROVE  removal' = removal
  BY <1>7, KeysInvGives, UsersLeaveRemovals
<1>8. CASE UNCHANGED vars
  BY <1>3, <1>8 DEF vars, calls
<1>9. RotationCheck(r) => removal'[r].pc = "checked"
  <2>1. RotationCheck(r) => removal'[r].pc \in {"checked", "failed"}
    BY <1>1 DEF RotationCheck, Removal
  <2>2. QED
    BY <2>1
<1>10. QED
  BY <1>3, <1>4, <1>5, <1>6, <1>7, <1>8, <1>9 DEF Next

LEMMA RequestsFiledStep ==
  ASSUME KeysInv, [Next]_vars
  PROVE  RequestsAreFiled'
<1> DEFINE Early == {"new", "asked", "fanned", "deleted", "listed"}
           Late == {"upload", "checked", "answered", "done"}
<1>1. SUFFICES ASSUME NEW r \in Removals
               PROVE  /\ removal'[r].up.key \in {NoKey, r}
                      /\ removal'[r].up.key = r => removal'[r].up.epoch > 1
                      /\ removal'[r].pc \in Early => removal'[r].up.key = NoKey
                      /\ removal'[r].pc \in Late => removal'[r].up.key = r
  BY RequestBackedStep DEF RequestsAreFiled
<1>2. /\ removal \in [Removals -> Removal] /\ removal[r] \in Removal /\ RequestsAreFiled
      /\ NoKey # r
  BY KeysInvGives, KeysDiffer DEF KeysInv
<1>3. CASE Rotate(r) /\ removal'[r].pc = "upload" /\ removal'[r].up = Rekeying(r)
  <2>1. epoch[Owner] \in Nat /\ epoch[Owner] # 0
    BY KeysInvGives, BoundsAreNat DEF KeysInv, OwnerShowsSpace
  <2>2. QED
    BY <1>2, <1>3, <2>1 DEF Rekeying
<1>4. ASSUME removal'[r].up.key = removal[r].up.key, removal'[r].up.epoch = removal[r].up.epoch,
             ~ Rotate(r)
      PROVE  /\ removal'[r].up.key \in {NoKey, r}
             /\ removal'[r].up.key = r => removal'[r].up.epoch > 1
             /\ removal'[r].pc \in Early => removal'[r].up.key = NoKey
             /\ removal'[r].pc \in Late => removal'[r].up.key = r
  <2>1. ASSUME NEW s \in Removals, RemovalStep(s) \/ RemovalFails(s)
        PROVE  /\ removal'[r].pc \in Early => removal[r].pc \in Early
               /\ removal'[r].pc \in Late => removal[r].pc \in Late
    <3>1. CASE s # r
      <4>1. removal'[r] = removal[r]
        BY <1>2, <2>1, <3>1 DEF RemovalStep, RemovalFails, FanoutRemoved, DeleteMember, ListRemaining,
                                Rotate, RotationCheck, RotationInsert, RotationDone, Removed
      <4>2. QED
        BY <4>1
    <3>2. CASE s = r /\ RotationCheck(r)
      BY <1>2, <3>2 DEF RotationCheck, Removal
    <3>3. CASE s = r /\ (FanoutRemoved(r) \/ DeleteMember(r) \/ ListRemaining(r))
      BY <1>2, <3>3 DEF FanoutRemoved, DeleteMember, ListRemaining, Removed, Removal
    <3>4. CASE s = r /\ (RotationInsert(r) \/ RotationDone(r) \/ RemovalFails(r))
      BY <1>2, <3>4 DEF RotationInsert, RotationDone, RemovalFails, Removed, Removal
    <3>5. QED
      BY <1>4, <2>1, <3>1, <3>2, <3>3, <3>4 DEF RemovalStep
  <2>2. ASSUME NEW s \in Removals, NEW x \in Users, RemoveMember(s, x)
        PROVE  /\ removal'[r].pc \in Early => removal[r].pc \in Early
               /\ removal'[r].pc \in Late => removal[r].pc \in Late
    BY <1>2, <2>2 DEF RemoveMember, Removal
  <2>3. ASSUME NEW u \in Users,
               \/ AcceptInvite(u) \/ AnnounceJoin(u) \/ WrapStep(u)
               \/ LoadStep(u) \/ Disconnect(u) \/ Reconnect(u)
        PROVE  removal' = removal
    BY <2>3, KeysInvGives, UsersLeaveRemovals
  <2>4. CASE UNCHANGED vars
    BY <1>2, <2>4 DEF vars, calls, RequestsAreFiled
  <2>5. /\ removal'[r].pc \in Early => removal[r].pc \in Early
        /\ removal'[r].pc \in Late => removal[r].pc \in Late
    BY <2>1, <2>2, <2>3, <2>4 DEF Next, vars, calls
  <2>6. QED
    BY <1>2, <1>4, <2>5 DEF RequestsAreFiled
<1>5. Rotate(r) => removal'[r].pc = "upload" /\ removal'[r].up = Rekeying(r)
  BY <1>2 DEF Rotate, Removal
<1>6. QED
  BY <1>3, <1>4, <1>5, RequestStays

LEMMA OwnerShowsStep ==
  ASSUME KeysInv, [Next]_vars
  PROVE  OwnerShowsSpace'
<1>1. /\ Owner \in Users /\ epoch \in [Users -> 0 .. MaxEpoch] /\ OwnerShowsSpace
      /\ jobs \in [Users -> SUBSET Job] /\ RotationsAreBacked /\ TypeInv
      /\ answers \in [Users -> SUBSET Answer]
  BY KeysInvGives DEF KeysInv, OwnerInv
<1>2. CASE epoch' = epoch /\ jobs' = jobs
  BY <1>1, <1>2 DEF OwnerShowsSpace
<1>3. ASSUME NEW S, NEW k \in {"load", "open"}, jobs' = Notified(S, Do(k)), epoch' = epoch
      PROVE  OwnerShowsSpace'
  BY <1>1, <1>3 DEF OwnerShowsSpace, Notified, Do
<1>4. ASSUME NEW u \in Users, NEW j, jobs' = [jobs EXCEPT ![u] = @ \ {j}], epoch'[Owner] # 0
      PROVE  OwnerShowsSpace'
  BY <1>1, <1>4 DEF OwnerShowsSpace
<1>5. ASSUME NEW r \in Removals, RemovalStep(r) \/ RemovalFails(r)
      PROVE  OwnerShowsSpace'
  <2>1. CASE FanoutRemoved(r)
    <3>1. removal[r].target # Owner
      BY <1>1, <2>1 DEF FanoutRemoved, RotationsAreBacked
    <3>2. jobs'[Owner] = jobs[Owner] /\ epoch' = epoch
      BY <1>1, <2>1, <3>1 DEF FanoutRemoved, Notified
    <3>3. QED
      BY <1>1, <3>2 DEF OwnerShowsSpace
  <2>2. CASE RotationDone(r)
    <3>1. removal[r].up.epoch \in Epoch
      BY <1>1, <2>2 DEF RotationDone, TypeInv, RequestsInEpoch
    <3>2. epoch'[Owner] # 0 /\ jobs' = jobs
      BY <1>1, <2>2, <3>1 DEF RotationDone, Epoch
    <3>3. QED
      BY <1>1, <3>2 DEF OwnerShowsSpace
  <2>3. CASE RotationInsert(r)
    BY <1>2, <1>3, <2>3 DEF RotationInsert
  <2>4. CASE DeleteMember(r) \/ ListRemaining(r) \/ Rotate(r) \/ RotationCheck(r) \/ RemovalFails(r)
    BY <1>2, <2>4 DEF DeleteMember, ListRemaining, Rotate, RotationCheck, RemovalFails, client
  <2>5. QED
    BY <1>5, <2>1, <2>2, <2>3, <2>4 DEF RemovalStep
<1>6. ASSUME NEW u \in Users, WrapStep(u)
      PROVE  OwnerShowsSpace'
  <2>1. ASSUME NEW x \in Users, WrapStart(u, x)
        PROVE  OwnerShowsSpace'
    BY <1>1, <1>4, <2>1 DEF WrapStart, OwnerShowsSpace
  <2>2. CASE WrapNext(u)
    <3>1. UNCHANGED client
      BY <2>2 DEF WrapNext
    <3>2. QED
      BY <1>2, <3>1 DEF client
  <2>3. CASE WrapInsert(u)
    BY <1>2, <1>3, <2>3 DEF WrapInsert
  <2>4. QED
    BY <1>6, <2>1, <2>2, <2>3 DEF WrapStep
<1>7. ASSUME NEW u \in Users, LoadStep(u)
      PROVE  OwnerShowsSpace'
  <2>1. ASSUME NEW k \in {"load", "open"}, FetchKeys(u, k)
        PROVE  OwnerShowsSpace'
    BY <1>1, <1>4, <2>1 DEF FetchKeys, OwnerShowsSpace
  <2>2. ASSUME NEW a \in answers[u], LoadKeys(u, a)
        PROVE  OwnerShowsSpace'
    <3>1. a.current \in Epoch
      BY <1>1 DEF Answer
    <3>2. epoch'[Owner] # 0 /\ jobs' = jobs
      BY <1>1, <2>2, <3>1 DEF LoadKeys, OwnerShowsSpace, Epoch
    <3>3. QED
      BY <1>1, <3>2 DEF OwnerShowsSpace
  <2>3. CASE DropSpace(u)
    <3>1. u # Owner
      BY <1>1, <2>3 DEF DropSpace, OwnerShowsSpace
    <3>2. epoch'[Owner] = epoch[Owner] /\ jobs'[Owner] = jobs[Owner]
      BY <1>1, <2>3, <3>1 DEF DropSpace
    <3>3. QED
      BY <1>1, <3>2 DEF OwnerShowsSpace
  <2>4. QED
    BY <1>7, <2>1, <2>2, <2>3 DEF LoadStep
<1>8. ASSUME NEW u \in Users, AcceptInvite(u) \/ AnnounceJoin(u) \/ Disconnect(u) \/ Reconnect(u)
      PROVE  OwnerShowsSpace'
  <2>1. CASE AnnounceJoin(u)
    <3>1. epoch' = epoch /\ Do("dropped") \notin jobs'[Owner]
      BY <1>1, <2>1 DEF AnnounceJoin, OwnerShowsSpace, Do, WrapFor
    <3>2. QED
      BY <1>1, <3>1 DEF OwnerShowsSpace
  <2>2. CASE AcceptInvite(u) \/ Disconnect(u) \/ Reconnect(u)
    BY <1>2, <2>2 DEF AcceptInvite, Disconnect, Reconnect, client
  <2>3. QED
    BY <1>8, <2>1, <2>2
<1>9. ASSUME NEW r \in Removals, NEW x \in Users, RemoveMember(r, x)
      PROVE  OwnerShowsSpace'
  BY <1>2, <1>9 DEF RemoveMember, client
<1>10. CASE UNCHANGED vars
  BY <1>2, <1>10 DEF vars, client
<1>11. QED
  BY <1>5, <1>6, <1>7, <1>8, <1>9, <1>10 DEF Next

(* The rows of the table: an upload files, a removal empties one.          *)
LEMMA WrapsFiledStep ==
  ASSUME KeysInv, [Next]_vars, NEW u \in Users
  PROVE  Filed(wraps[u])'
<1>1. /\ TypeInv /\ wraps \in [Users -> Row] /\ Filed(wraps[u])
      /\ removal \in [Removals -> Removal] /\ wrapping \in [Users -> Wrapping]
  BY KeysInvGives DEF KeysInv, KeysAreFiled
<1>2. CASE wraps' = wraps
  BY <1>1, <1>2, EpochStays DEF Filed
<1>3. ASSUME NEW r \in Removals, RotationInsert(r)
      PROVE  Filed(wraps[u])'
  <2>1. removal[r].up \in Upload /\ removal[r].up.epoch \in Epoch
    BY <1>1, <1>3 DEF RotationInsert, TypeInv, RequestsInEpoch, Removal
  <2>2. Belongs(removal[r].up.key, removal[r].up.epoch)
    BY <1>3 DEF RotationInsert, KeysInv, RequestsAreFiled, Belongs, OfEpoch
  <2>3. Commit(removal[r].up) \/ Abort(removal[r].up)
    BY <1>3 DEF RotationInsert
  <2>4. QED
    BY <2>1, <2>2, <2>3, InsertFiles
<1>4. ASSUME NEW v \in Users, WrapInsert(v)
      PROVE  Filed(wraps[u])'
  <2>1. wrapping[v].up \in Upload /\ wrapping[v].up.epoch \in Epoch
    BY <1>1, <1>4 DEF WrapInsert, TypeInv, RequestsInEpoch, Wrapping
  <2>2. Belongs(wrapping[v].up.key, wrapping[v].up.epoch)
    BY <1>4 DEF WrapInsert, KeysInv, KeysAreFiled
  <2>3. Commit(wrapping[v].up) \/ Abort(wrapping[v].up)
    BY <1>4 DEF WrapInsert
  <2>4. QED
    BY <2>1, <2>2, <2>3, InsertFiles
<1>5. ASSUME NEW r \in Removals, DeleteMember(r)
      PROVE  Filed(wraps[u])'
  <2>1. \A e \in Epoch : wraps'[u][e] = wraps[u][e] \/ wraps'[u][e] = NoKey
    BY <1>1, <1>5 DEF DeleteMember, Empty
  <2>2. QED
    BY <1>1, <2>1, EpochStays DEF Filed
<1>6. ASSUME NEW r \in Removals, NEW x \in Users,
             RemoveMember(r, x) \/ RemovalStep(r) \/ RemovalFails(r)
      PROVE  wraps' = wraps \/ RotationInsert(r) \/ DeleteMember(r)
  BY <1>6 DEF RemoveMember, RemovalStep, RemovalFails, FanoutRemoved, ListRemaining, Rotate,
              RotationCheck, RotationDone, server
<1>7. ASSUME NEW v \in Users,
             \/ AcceptInvite(v) \/ AnnounceJoin(v) \/ WrapStep(v)
             \/ LoadStep(v) \/ Disconnect(v) \/ Reconnect(v)
      PROVE  wraps' = wraps \/ WrapInsert(v)
  <2>1. CASE WrapStep(v)
    BY <1>1, <2>1, WrapStepLeaves
  <2>2. CASE AcceptInvite(v) \/ AnnounceJoin(v) \/ LoadStep(v) \/ Disconnect(v) \/ Reconnect(v)
    BY <2>2 DEF AcceptInvite, AnnounceJoin, LoadStep, FetchKeys, LoadKeys, DropSpace, Disconnect,
                Reconnect, server
  <2>3. QED
    BY <1>7, <2>1, <2>2
<1>8. CASE UNCHANGED vars
  BY <1>2, <1>8 DEF vars, server
<1>9. ASSUME Next
      PROVE  \/ wraps' = wraps
             \/ \E r \in Removals : RotationInsert(r) \/ DeleteMember(r)
             \/ \E v \in Users : WrapInsert(v)
  BY <1>6, <1>7, <1>9, KeysInvGives DEF Next
<1>10. QED
  BY <1>2, <1>3, <1>4, <1>5, <1>8, <1>9

(* What the clients hold, and the answers on their way to them. *)
LEMMA HeldFiledStep ==
  ASSUME KeysInv, [Next]_vars, NEW u \in Users
  PROVE  Filed(held[u])' /\ \A a \in answers'[u] : Filed(a.row)'
<1>1. /\ TypeInv /\ Owner \in Users /\ held \in [Users -> Row] /\ answers \in [Users -> SUBSET Answer]
      /\ Filed(held[u]) /\ Filed(wraps[u]) /\ \A a \in answers[u] : Filed(a.row)
  BY KeysInvGives DEF KeysInv, KeysAreFiled
<1>2. ASSUME \A e \in Epoch : \/ held'[u][e] = held[u][e] \/ held'[u][e] = NoKey
                              \/ Belongs(held'[u][e], e)
      PROVE  Filed(held[u])'
  BY <1>1, <1>2, EpochStays DEF Filed
<1>3. ASSUME \A a \in answers'[u] : a \in answers[u] \/ a.row = wraps[u]
      PROVE  \A a \in answers'[u] : Filed(a.row)'
  BY <1>1, <1>3, EpochStays DEF Filed
<1>4. CASE held' = held /\ answers' = answers
  BY <1>2, <1>3, <1>4
<1>5. ASSUME NEW r \in Removals, RotationDone(r)
      PROVE  Filed(held[u])' /\ \A a \in answers'[u] : Filed(a.row)'
  <2>1. removal[r].up.epoch \in Epoch /\ Belongs(removal[r].up.key, removal[r].up.epoch)
    BY <1>1, <1>5 DEF RotationDone, TypeInv, RequestsInEpoch, KeysInv, RequestsAreFiled,
                      Belongs, OfEpoch
  <2>2. \A e \in Epoch : \/ held'[u][e] = held[u][e]
                         \/ e = removal[r].up.epoch /\ held'[u][e] = removal[r].up.key
    BY <1>1, <1>5 DEF RotationDone, Row
  <2>3. answers' = answers
    BY <1>5 DEF RotationDone
  <2>4. QED
    BY <1>2, <1>3, <2>1, <2>2, <2>3
<1>6. ASSUME NEW v \in Users, NEW k \in {"load", "open"}, FetchKeys(v, k)
      PROVE  Filed(held[u])' /\ \A a \in answers'[u] : Filed(a.row)'
  <2>1. held' = held /\ \A a \in answers'[u] : a \in answers[u] \/ a.row = wraps[u]
    BY <1>1, <1>6 DEF FetchKeys
  <2>2. QED
    BY <1>2, <1>3, <2>1
<1>7. ASSUME NEW v \in Users, NEW a \in answers[v], LoadKeys(v, a)
      PROVE  Filed(held[u])' /\ \A b \in answers'[u] : Filed(b.row)'
  <2>1. \A e \in Epoch : held'[u][e] = held[u][e] \/ (u = v /\ held'[u][e] = a.row[e])
    BY <1>1, <1>7 DEF LoadKeys
  <2>2. \A e \in Epoch : \/ held'[u][e] = held[u][e] \/ held'[u][e] = NoKey
                         \/ Belongs(held'[u][e], e)
    BY <1>1, <2>1 DEF Filed
  <2>3. answers'[u] \subseteq answers[u]
    BY <1>1, <1>7 DEF LoadKeys
  <2>4. QED
    BY <1>2, <1>3, <2>2, <2>3
<1>8. ASSUME NEW v \in Users, DropSpace(v)
      PROVE  Filed(held[u])' /\ \A a \in answers'[u] : Filed(a.row)'
  <2>1. answers' = answers /\ \A e \in Epoch : held'[u][e] = held[u][e] \/ held'[u][e] = NoKey
    BY <1>1, <1>8 DEF DropSpace, Empty
  <2>2. QED
    BY <1>2, <1>3, <2>1
<1>9. ASSUME NEW r \in Removals, NEW x \in Users,
             RemoveMember(r, x) \/ RemovalStep(r) \/ RemovalFails(r)
      PROVE  (held' = held /\ answers' = answers) \/ RotationDone(r)
  BY <1>9 DEF RemoveMember, RemovalStep, RemovalFails, FanoutRemoved, DeleteMember, ListRemaining,
              Rotate, RotationCheck, RotationInsert, client
<1>10. ASSUME NEW v \in Users,
              AcceptInvite(v) \/ AnnounceJoin(v) \/ WrapStep(v) \/ Disconnect(v) \/ Reconnect(v)
       PROVE  held' = held /\ answers' = answers
  <2>1. CASE WrapStep(v)
    BY <2>1, KeysInvGives, WrapStepLeaves
  <2>2. CASE AcceptInvite(v) \/ AnnounceJoin(v) \/ Disconnect(v) \/ Reconnect(v)
    BY <2>2 DEF AcceptInvite, AnnounceJoin, Disconnect, Reconnect, client
  <2>3. QED
    BY <1>10, <2>1, <2>2
<1>11. CASE UNCHANGED vars
  BY <1>4, <1>11 DEF vars, client
<1>12. ASSUME NEW v \in Users, LoadStep(v)
       PROVE  Filed(held[u])' /\ \A a \in answers'[u] : Filed(a.row)'
  BY <1>6, <1>7, <1>8, <1>12 DEF LoadStep
<1>13. QED
  BY <1>1, <1>4, <1>5, <1>9, <1>10, <1>11, <1>12 DEF Next

(* What a client wraps for newcomers, and the rows it keeps to wrap from. *)
LEMMA WrappingFiledStep ==
  ASSUME KeysInv, [Next]_vars, NEW u \in Users
  PROVE  /\ Filed(wrapping[u].kept)'
         /\ wrapping'[u].pc = "checked" => Belongs(wrapping[u].up.key, wrapping[u].up.epoch)'
<1>1. /\ TypeInv /\ held \in [Users -> Row] /\ wrapping \in [Users -> Wrapping]
      /\ wrapping[u] \in Wrapping /\ Filed(held[u]) /\ Filed(wrapping[u].kept)
      /\ wrapping[u].pc = "checked" => Belongs(wrapping[u].up.key, wrapping[u].up.epoch)
  BY KeysInvGives DEF KeysInv, KeysAreFiled
<1> DEFINE Goal == /\ Filed(wrapping[u].kept)'
                   /\ wrapping'[u].pc = "checked" =>
                        Belongs(wrapping[u].up.key, wrapping[u].up.epoch)'
<1>2. ASSUME Filed(wrapping'[u].kept),
             wrapping'[u].pc = "checked" => Belongs(wrapping'[u].up.key, wrapping'[u].up.epoch)
      PROVE  Goal
  BY <1>2, EpochStays DEF Filed
<1>3. CASE wrapping'[u] = wrapping[u]
  BY <1>1, <1>2, <1>3
<1>4. Filed(Wrapped(u))
  BY <1>1 DEF Wrapped
<1>5. ASSUME NEW x \in Users, WrapStart(u, x)
      PROVE  Goal
  <2>1. wrapping'[u].kept = wrapping[u].kept /\ wrapping'[u].pc # "checked"
    BY <1>1, <1>5 DEF WrapStart, Wrapping
  <2>2. QED
    BY <1>1, <1>2, <2>1
<1>6. CASE WrapInsert(u)
  <2>1. wrapping'[u].kept = wrapping[u].kept /\ wrapping'[u].pc # "checked"
    BY <1>1, <1>6 DEF WrapInsert, Wrapping
  <2>2. QED
    BY <1>1, <1>2, <2>1
<1>7. CASE DropSpace(u)
  <2>1. CASE wrapping[u].pc = "idle"
    BY <1>3, <1>7, <2>1 DEF DropSpace
  <2>2. CASE wrapping[u].pc # "idle"
    <3>1. /\ wrapping'[u].kept = Wrapped(u) /\ wrapping'[u].pc = wrapping[u].pc
          /\ wrapping'[u].up = wrapping[u].up
      BY <1>1, <1>7, <2>2 DEF DropSpace, Wrapping
    <3>2. QED
      BY <1>1, <1>2, <1>4, <3>1
  <2>3. QED
    BY <2>1, <2>2
<1>8. CASE WrapNext(u)
  <2> DEFINE w == wrapping[u]
             Request(e) == [epoch |-> e, to |-> {w.for}, key |-> Wrapped(u)[e],
                            rotating |-> e = current + 1]
  <2>1. CASE wrapping' = [wrapping EXCEPT ![u] = NotWrapping(u)]
    <3>1. wrapping'[u].kept = Empty /\ wrapping'[u].pc = "idle"
      BY <1>1, <2>1 DEF NotWrapping
    <3>2. Filed(Empty)
      BY DEF Filed, Empty
    <3>3. QED
      BY <1>2, <3>1, <3>2
  <2>2. ASSUME NEW e \in Holds(Wrapped(u)),
               wrapping' = [wrapping EXCEPT ![u].pc = IF Accepted(u, Request(e)) THEN "checked" ELSE "next",
                                            ![u].tried = @ \cup {e}, ![u].up = Request(e)]
        PROVE  Goal
    <3>1. wrapping'[u].kept = w.kept /\ wrapping'[u].up = Request(e)
      BY <1>1, <2>2 DEF Wrapping
    <3>2. Belongs(Wrapped(u)[e], e)
      BY <1>4 DEF Holds, Filed
    <3>3. QED
      BY <1>1, <1>2, <3>1, <3>2
  <2>3. QED
    BY <1>8, <2>1, <2>2, Zenon DEF WrapNext
<1>9. ASSUME NEW v \in Users, v # u, WrapStep(v) \/ LoadStep(v)
      PROVE  wrapping'[u] = wrapping[u]
  <2>1. CASE WrapStep(v)
    BY <1>1, <1>9, <2>1, WrapStepLeaves
  <2>2. CASE LoadStep(v)
    BY <1>1, <1>9, <2>2 DEF LoadStep, FetchKeys, LoadKeys, DropSpace, calls
  <2>3. QED
    BY <1>9, <2>1, <2>2
<1>10. ASSUME LoadStep(u)
       PROVE  wrapping'[u] = wrapping[u] \/ DropSpace(u)
  BY <1>10 DEF LoadStep, FetchKeys, LoadKeys, calls
<1>11. ASSUME NEW v \in Users, WrapStep(v) \/ LoadStep(v)
       PROVE  Goal
  BY <1>3, <1>5, <1>6, <1>7, <1>8, <1>9, <1>10, <1>11 DEF WrapStep
<1>12. ASSUME NEW r \in Removals, NEW x \in Users,
              RemoveMember(r, x) \/ RemovalStep(r) \/ RemovalFails(r)
       PROVE  wrapping' = wrapping
  BY <1>12 DEF RemoveMember, RemovalStep, RemovalFails, FanoutRemoved, DeleteMember, ListRemaining,
               Rotate, RotationCheck, RotationInsert, RotationDone
<1>13. ASSUME NEW v \in Users, AcceptInvite(v) \/ AnnounceJoin(v) \/ Disconnect(v) \/ Reconnect(v)
       PROVE  wrapping' = wrapping
  BY <1>13 DEF AcceptInvite, AnnounceJoin, Disconnect, Reconnect, calls
<1>14. CASE UNCHANGED vars
  BY <1>3, <1>14 DEF vars, calls
<1>15. QED
  BY <1>3, <1>11, <1>12, <1>13, <1>14, KeysInvGives DEF Next

LEMMA KeysHold == Spec => []KeysInv
<1>1. Init => KeysInv
  BY KeysInit
<1>2. KeysInv /\ [Next]_vars => KeysInv'
  <2> SUFFICES ASSUME KeysInv, [Next]_vars PROVE KeysInv'
    OBVIOUS
  <2>1. OwnerInv'
    BY NextType, EveryEpochStep, OwnerIsBackedStep, RotationsStep, WrappingsStep DEF OwnerInv, KeysInv
  <2>2. KeysAreFiled'
    BY WrapsFiledStep, HeldFiledStep, WrappingFiledStep DEF KeysAreFiled
  <2>3. QED
    BY <2>1, <2>2, RequestsFiledStep, OwnerShowsStep DEF KeysInv
<1>3. QED
  BY <1>1, <1>2, PTL DEF Spec

(* Whatever order keys are wrapped, loaded and handed on in, no client     *)
(* files one under another epoch than the server or another client does.   *)
THEOREM KeysHaveOneEpoch == Spec => []OneEpochPerKey
<1>1. KeysInv => OneEpochPerKey
  <2> SUFFICES ASSUME KeysInv, NEW u \in Users, NEW v \in Users, NEW e \in Epoch, NEW f \in Epoch,
                      held[u][e] # NoKey, held[u][e] = held[v][f] \/ held[u][e] = wraps[v][f]
               PROVE  e = f
    BY DEF OneEpochPerKey
  <2>1. Belongs(held[u][e], e) /\ Belongs(held[u][e], f)
    BY DEF KeysInv, KeysAreFiled, Filed
  <2>2. QED
    BY <2>1, KeysDiffer DEF Belongs, OfEpoch
<1>2. QED
  BY <1>1, KeysHold, PTL

(* Members who hold an epoch's key hold the same one, unless two removals  *)
(* generated theirs for the same epoch.                                    *)
THEOREM KeysAgreeOrCollide == Spec => []KeysAgreeUnlessCollided
<1>1. KeysInv => KeysAgreeUnlessCollided
  <2> SUFFICES ASSUME KeysInv, ~ Collided, NEW u \in member, NEW v \in member, NEW e \in Epoch,
                      held[u][e] # NoKey, held[v][e] # NoKey
               PROVE  held[u][e] = held[v][e]
    BY DEF KeysAgreeUnlessCollided, KeysAgree
  <2>1. Belongs(held[u][e], e) /\ Belongs(held[v][e], e)
    BY KeysInvGives DEF KeysInv, KeysAreFiled, Filed
  <2>2. \A r \in Removals : removal[r].up.key = r => removal[r].up.epoch > 1
    BY DEF KeysInv, RequestsAreFiled
  <2>3. \A r, s \in Removals : r # s /\ removal[r].up.key = r /\ removal[s].up.key = s
                                 => removal[r].up.epoch # removal[s].up.epoch
    BY DEF Collided
  <2>4. QED
    BY <2>1, <2>2, <2>3 DEF Belongs, OfEpoch
<1>2. QED
  BY <1>1, KeysHold, PTL

-----------------------------------------------------------------------------
(* Who has been removed.  What a removed user holds was given to it before *)
(* it was removed, so before the removal counted its epoch.  If the user   *)
(* holds a key of that epoch or a later one all the same, the owner's count *)
(* was late, and two removals generated keys for one epoch.                *)

(* Of the epochs from e on, x holds no key and is sent none. *)
LacksFrom(x, e) ==
  \A f \in Epoch : f >= e => /\ held[x][f] = NoKey
                             /\ \A a \in answers[x] : a.row[f] = NoKey

RemovedOnce(r) ==
  /\ removal[r].target \notin member
  /\ \A s \in Removals \ {r} : removal[s].target # removal[r].target

RemovedAreBehind ==
  \A r \in Removals :
    removal[r].up.key = r /\ RemovedOnce(r)
      => Collided \/ LacksFrom(removal[r].target, removal[r].up.epoch)

(* Who is to be removed is the owner's choice, made once. *)
TargetsAreChosen ==
  \A r \in Removals :
    /\ removal[r].pc = "new" => removal[r].target = Owner
    /\ removal[r].pc # "new" => removal[r].target # Owner

RemovedInv == KeysInv /\ RemovedAreBehind /\ TargetsAreChosen

(* A collision is not undone. *)
LEMMA CollidedStays ==
  ASSUME KeysInv, [Next]_vars, Collided
  PROVE  Collided'
<1>1. PICK r \in Removals, s \in Removals :
        /\ r # s /\ {removal[r].up.key, removal[s].up.key} = {r, s}
        /\ removal[r].up.epoch = removal[s].up.epoch
  BY DEF Collided
<1>2. removal[r].up.key = r /\ removal[s].up.key = s
  BY <1>1, KeysDiffer DEF KeysInv, RequestsAreFiled
<1>3. /\ removal'[r].up.key = r /\ removal'[r].up.epoch = removal[r].up.epoch
      /\ removal'[s].up.key = s /\ removal'[s].up.epoch = removal[s].up.epoch
  BY <1>2, RequestStays, KeysDiffer
<1>4. QED
  BY <1>1, <1>3 DEF Collided

(* The target of a removal stays, once it is chosen. *)
LEMMA TargetStays ==
  ASSUME RemovedInv, [Next]_vars, NEW r \in Removals
  PROVE  \/ /\ removal'[r].target = removal[r].target
            /\ removal'[r].pc = "new" <=> removal[r].pc = "new"
         \/ /\ removal[r].pc = "new" /\ removal'[r].pc # "new"
            /\ removal'[r].target # Owner /\ removal'[r].up = removal[r].up
<1> DEFINE Goal == \/ /\ removal'[r].target = removal[r].target
                      /\ removal'[r].pc = "new" <=> removal[r].pc = "new"
                   \/ /\ removal[r].pc = "new" /\ removal'[r].pc # "new"
                      /\ removal'[r].target # Owner /\ removal'[r].up = removal[r].up
<1>1. removal \in [Removals -> Removal] /\ removal[r] \in Removal
  BY KeysInvGives DEF RemovedInv
<1>2. ASSUME NEW s \in Removals, RemovalStep(s) \/ RemovalFails(s)
      PROVE  Goal
  <2>1. CASE s # r
    <3>1. removal'[r] = removal[r]
      BY <1>1, <1>2, <2>1 DEF RemovalStep, RemovalFails, FanoutRemoved, DeleteMember, ListRemaining,
                              Rotate, RotationCheck, RotationInsert, RotationDone, Removed
    <3>2. QED
      BY <3>1
  <2>2. CASE s = r /\ RotationCheck(r)
    BY <1>1, <2>2 DEF RotationCheck, Removal
  <2>3. CASE s = r /\ (FanoutRemoved(r) \/ DeleteMember(r) \/ ListRemaining(r) \/ Rotate(r))
    BY <1>1, <2>3 DEF FanoutRemoved, DeleteMember, ListRemaining, Rotate, Removed, Removal
  <2>4. CASE s = r /\ (RotationInsert(r) \/ RotationDone(r) \/ RemovalFails(r))
    BY <1>1, <2>4 DEF RotationInsert, RotationDone, RemovalFails, Removed, Removal
  <2>5. QED
    BY <1>2, <2>1, <2>2, <2>3, <2>4 DEF RemovalStep
<1>3. ASSUME NEW s \in Removals, NEW x \in Users, RemoveMember(s, x)
      PROVE  Goal
  BY <1>1, <1>3 DEF RemoveMember, Removal
<1>4. ASSUME NEW u \in Users,
             \/ AcceptInvite(u) \/ AnnounceJoin(u) \/ WrapStep(u)
             \/ LoadStep(u) \/ Disconnect(u) \/ Reconnect(u)
      PROVE  Goal
  BY <1>4, KeysInvGives, UsersLeaveRemovals DEF RemovedInv
<1>5. CASE UNCHANGED vars
  BY <1>5 DEF vars, calls
<1>6. QED
  BY <1>2, <1>3, <1>4, <1>5 DEF Next

LEMMA TargetsChosenStep ==
  ASSUME RemovedInv, [Next]_vars
  PROVE  TargetsAreChosen'
BY TargetStays DEF RemovedInv, TargetsAreChosen

(* Whoever is removed has been so before this step, if the key is there.   *)
LEMMA RemovedBefore ==
  ASSUME RemovedInv, [Next]_vars, NEW r \in Removals, removal'[r].up.key = r, RemovedOnce(r)'
  PROVE  /\ RemovedOnce(r) /\ removal'[r].target = removal[r].target
         /\ removal[r].target \in Users \ {Owner}
<1>1. /\ removal \in [Removals -> Removal] /\ removal[r] \in Removal
      /\ RequestsAreFiled /\ TargetsAreChosen /\ NoKey # r
  BY KeysInvGives, KeysDiffer DEF RemovedInv, KeysInv
<1>2. removal[r].up.key = r \/ removal[r].pc = "listed"
  BY RequestStays DEF RemovedInv, Rotate
<1>3. removal[r].pc # "new" /\ removal[r].pc # "fanned"
  BY <1>1, <1>2 DEF RequestsAreFiled
<1>4. removal'[r].target = removal[r].target /\ removal[r].target \in Users \ {Owner}
  BY <1>1, <1>3, TargetStays DEF TargetsAreChosen, Removal
<1>5. \A s \in Removals \ {r} : removal[s].target # removal[r].target
  BY <1>1, <1>4, TargetStays DEF RemovedOnce, TargetsAreChosen
<1>6. removal[r].target \notin member
  <2>1. \/ member \subseteq member' \/ \E s \in Removals : DeleteMember(s)
    BY WrapsStep, KeysInvGives DEF RemovedInv
  <2>2. ASSUME NEW s \in Removals, DeleteMember(s)
        PROVE  removal[r].target \notin member
    <3>1. s # r /\ member' = member \ {removal[s].target}
      BY <1>3, <2>2 DEF DeleteMember
    <3>2. QED
      BY <1>4, <1>5, <3>1 DEF RemovedOnce
  <2>3. QED
    BY <1>4, <2>1, <2>2 DEF RemovedOnce
<1>7. QED
  BY <1>4, <1>5, <1>6 DEF RemovedOnce

(* A user who is no member is not given anything. *)
LEMMA LacksStays ==
  ASSUME KeysInv, [Next]_vars, NEW x \in Users \ {Owner}, x \notin member,
         NEW e \in Nat, LacksFrom(x, e)
  PROVE  LacksFrom(x, e)'
<1>1. /\ held \in [Users -> Row] /\ answers \in [Users -> SUBSET Answer] /\ x \in Users
  BY KeysInvGives
<1>2. ASSUME \A f \in Epoch : held[x][f] = NoKey /\ (\A a \in answers[x] : a.row[f] = NoKey)
                                => held'[x][f] = NoKey,
             answers'[x] \subseteq answers[x]
      PROVE  LacksFrom(x, e)'
  BY <1>2 DEF LacksFrom
<1>3. CASE held'[x] = held[x] /\ answers'[x] = answers[x]
  BY <1>2, <1>3
<1>4. ASSUME NEW u \in Users, LoadStep(u)
      PROVE  LacksFrom(x, e)'
  <2>1. ASSUME NEW k \in {"load", "open"}, FetchKeys(u, k)
        PROVE  LacksFrom(x, e)'
    BY <1>1, <1>3, <2>1 DEF FetchKeys
  <2>2. ASSUME NEW a \in answers[u], LoadKeys(u, a)
        PROVE  LacksFrom(x, e)'
    <3>1. \A f \in Epoch : held'[x][f] = held[x][f] \/ (u = x /\ held'[x][f] = a.row[f])
      BY <1>1, <2>2 DEF LoadKeys
    <3>2. answers'[x] \subseteq answers[x]
      BY <1>1, <2>2 DEF LoadKeys
    <3>3. QED
      BY <1>2, <3>1, <3>2
  <2>3. CASE DropSpace(u)
    <3>1. answers' = answers /\ \A f \in Epoch : held'[x][f] = held[x][f] \/ held'[x][f] = NoKey
      BY <1>1, <2>3 DEF DropSpace, Empty
    <3>2. QED
      BY <1>2, <3>1
  <2>4. QED
    BY <1>4, <2>1, <2>2, <2>3 DEF LoadStep
<1>5. ASSUME NEW r \in Removals, NEW y \in Users,
             RemoveMember(r, y) \/ RemovalStep(r) \/ RemovalFails(r)
      PROVE  held'[x] = held[x] /\ answers'[x] = answers[x]
  <2>1. CASE RotationDone(r)
    BY <1>1, <2>1 DEF RotationDone
  <2>2. CASE RemoveMember(r, y) \/ (RemovalStep(r) /\ ~ RotationDone(r)) \/ RemovalFails(r)
    BY <2>2 DEF RemoveMember, RemovalStep, RemovalFails, FanoutRemoved, DeleteMember, ListRemaining,
                Rotate, RotationCheck, RotationInsert, client
  <2>3. QED
    BY <1>5, <2>1, <2>2
<1>6. ASSUME NEW u \in Users,
             AcceptInvite(u) \/ AnnounceJoin(u) \/ WrapStep(u) \/ Disconnect(u) \/ Reconnect(u)
      PROVE  held' = held /\ answers' = answers
  <2>1. CASE WrapStep(u)
    BY <2>1, KeysInvGives, WrapStepLeaves
  <2>2. CASE AcceptInvite(u) \/ AnnounceJoin(u) \/ Disconnect(u) \/ Reconnect(u)
    BY <2>2 DEF AcceptInvite, AnnounceJoin, Disconnect, Reconnect, client
  <2>3. QED
    BY <1>6, <2>1, <2>2
<1>7. CASE UNCHANGED vars
  BY <1>3, <1>7 DEF vars, client
<1>8. QED
  BY <1>1, <1>3, <1>4, <1>5, <1>6, <1>7 DEF Next

(* When the epoch is counted, a user who holds a key of it or of a later   *)
(* one shows that another removal has counted the same.                    *)
LEMMA LateCountCollides ==
  ASSUME KeysInv, [Next]_vars, NEW r \in Removals, Rotate(r), removal[r].up.key = NoKey,
         removal'[r].up = Rekeying(r), NEW k \in Key, NEW e \in Epoch,
         e >= epoch[Owner] + 1, Belongs(k, e)
  PROVE  Collided'
<1> DEFINE E == epoch[Owner] + 1
<1>1. /\ epoch[Owner] \in Nat /\ epoch[Owner] # 0 /\ NoKey # r /\ Owner \in Users
      /\ removal'[r].up.key = r /\ removal'[r].up.epoch = E
  BY KeysInvGives, BoundsAreNat, KeysDiffer DEF KeysInv, OwnerShowsSpace, Rekeying
<1>2. E > 1 /\ E \in Epoch
  BY <1>1, BoundsAreNat DEF Epoch
<1>3. PICK l : OfEpoch(l, E)
  <2>1. CASE e = E
    BY <2>1 DEF Belongs
  <2>2. CASE e > E
    <3>1. wraps[Owner][E] # NoKey
      BY <1>2, <2>2 DEF Belongs, BackedBefore, Backed
    <3>2. QED
      BY <1>1, <1>2, <3>1 DEF KeysInv, KeysAreFiled, Filed, Belongs
  <2>3. QED
    BY <1>1, <2>1, <2>2 DEF Epoch
<1>4. l \in Removals /\ removal[l].up.key = l /\ removal[l].up.epoch = E
  BY <1>2, <1>3 DEF OfEpoch
<1>5. l # r /\ removal'[l].up.key = l /\ removal'[l].up.epoch = E
  BY <1>1, <1>4, RequestStays, KeysDiffer
<1>6. QED
  BY <1>1, <1>4, <1>5 DEF Collided

LEMMA RemovedBehindStep ==
  ASSUME RemovedInv, [Next]_vars
  PROVE  RemovedAreBehind'
<1> SUFFICES ASSUME NEW r \in Removals, removal'[r].up.key = r, RemovedOnce(r)', ~ Collided'
             PROVE  LacksFrom(removal[r].target, removal[r].up.epoch)'
  BY DEF RemovedAreBehind
<1> DEFINE x == removal[r].target
<1>1. RemovedOnce(r) /\ removal'[r].target = x /\ x \in Users \ {Owner} /\ x \notin member
  BY RemovedBefore DEF RemovedOnce
<1>2. /\ KeysInv /\ ~ Collided /\ TypeOK /\ held \in [Users -> Row]
      /\ answers \in [Users -> SUBSET Answer]
      /\ removal[r] \in Removal /\ removal[r].up.epoch \in Nat /\ epoch[Owner] \in Nat
  <2>1. KeysInv /\ ~ Collided
    BY CollidedStays DEF RemovedInv
  <2>2. removal[r].up.epoch \in Nat
    BY <2>1, KeysInvGives, BoundsAreNat DEF Removal, Upload
  <2>3. QED
    BY <2>1, <2>2, KeysInvGives, BoundsAreNat
<1>3. PICK E \in Nat : E = removal'[r].up.epoch
  <2>1. Rekeying(r).epoch \in Nat
    BY <1>2 DEF Rekeying
  <2>2. removal'[r].up.epoch \in Nat
    BY <1>2, <2>1, RequestStays
  <2>3. QED
    BY <2>2
<1>4. LacksFrom(x, E)
  <2>1. CASE removal[r].up.key = r /\ E = removal[r].up.epoch
    BY <1>1, <1>2, <2>1 DEF RemovedInv, RemovedAreBehind
  <2>2. CASE Rotate(r) /\ removal[r].up.key = NoKey /\ removal'[r].up = Rekeying(r)
    <3>1. E = epoch[Owner] + 1
      BY <1>3, <2>2 DEF Rekeying
    <3>2. ASSUME NEW row \in Row, Filed(row), NEW f \in Epoch, f >= E
          PROVE  row[f] = NoKey
      BY <1>2, <2>2, <3>1, <3>2, LateCountCollides DEF Filed, Row
    <3>3. Filed(held[x]) /\ held[x] \in Row
      BY <1>1, <1>2 DEF KeysInv, KeysAreFiled
    <3>4. \A a \in answers[x] : Filed(a.row) /\ a.row \in Row
      BY <1>1, <1>2 DEF KeysInv, KeysAreFiled, Answer
    <3>5. QED
      BY <3>2, <3>3, <3>4 DEF LacksFrom
  <2>3. QED
    BY <1>2, <1>3, <2>1, <2>2, RequestStays
<1>5. LacksFrom(x, E)'
  BY <1>1, <1>2, <1>4, LacksStays
<1>6. QED
  BY <1>1, <1>3, <1>5 DEF LacksFrom

LEMMA RemovedHold == Spec => []RemovedInv
<1>1. Init => RemovedInv
  <2> SUFFICES ASSUME Init PROVE RemovedInv
    OBVIOUS
  <2>1. RemovedAreBehind
    BY KeysDiffer DEF Init, RemovedAreBehind, NoUpload
  <2>2. TargetsAreChosen
    BY DEF Init, TargetsAreChosen
  <2>3. QED
    BY <2>1, <2>2, KeysInit DEF RemovedInv
<1>2. RemovedInv /\ [Next]_vars /\ KeysInv' => RemovedInv'
  BY TargetsChosenStep, RemovedBehindStep DEF RemovedInv
<1>3. QED
  BY <1>1, <1>2, KeysHold, PTL DEF Spec

(* However removals, joins, uploads and losses interleave, a user removed  *)
(* once and not invited back holds no key that the members use from that   *)
(* removal's epoch on, unless two removals generated keys for one epoch.   *)
THEOREM RemovedReadNothingNew == Spec => []RemovedCannotRead
<1>1. RemovedInv => RemovedCannotRead
  <2> SUFFICES ASSUME RemovedInv,
                      NEW r \in Removals, NEW u \in member, NEW e \in Epoch, NEW f \in Epoch,
                      removal[r].pc = "done", RemovedOnce(r), ~ Collided,
                      e >= removal[r].up.epoch, held[u][e] # NoKey,
                      held[removal[r].target][f] = held[u][e]
               PROVE  FALSE
    BY DEF RemovedCannotRead, RemovedOnce
  <2> DEFINE x == removal[r].target
  <2>1. KeysInv /\ removal[r].up.key = r
    BY DEF RemovedInv, KeysInv, RequestsAreFiled
  <2>2. LacksFrom(x, removal[r].up.epoch)
    BY <2>1 DEF RemovedInv, RemovedAreBehind
  <2>3. u \in Users /\ x \in Users
    BY <2>1, KeysInvGives DEF Removal
  <2>4. OfEpoch(held[u][e], e) /\ OfEpoch(held[u][e], f)
    BY <2>1, <2>3 DEF KeysInv, KeysAreFiled, Filed, Belongs
  <2>5. e = f
    BY <2>4, KeysDiffer DEF OfEpoch
  <2>6. QED
    BY <2>2, <2>5 DEF LacksFrom
<1>2. QED
  BY <1>1, RemovedHold, PTL
-----------------------------------------------------------------------------
(* Who holds the keys.  While no socket or call is lost, the owner holds   *)
(* every epoch's key or is about to; a member who stays gets each one      *)
(* wrapped, by the rotation that listed it or by the owner when it joined, *)
(* and loads what is wrapped.                                              *)

(* x stays a member, and no rotation under way missed it. *)
Stays(x) == x \in member /\ x \notin late /\ ~ Targeted(x)

DroppedAreTargeted == \A x \in Users : Do("dropped") \in jobs[x] => Targeted(x)

(* A rotation is for all who are members and stay. *)
RotationsReach ==
  \A r \in Removals, x \in Users : Stays(x) =>
    /\ removal[r].pc = "listed" => x \in removal[r].list
    /\ removal[r].pc \in {"upload", "checked", "answered"} => x \in removal[r].up.to

(* An epoch after the first is there by its rotation. *)
Uploaded(r) == removal[r].pc \in {"answered", "done", "failed"} /\ removal[r].up.key = r
EpochsAreRotated ==
  \A e \in Epoch : wraps[Owner][e] # NoKey =>
    e = 1 \/ \E r \in Removals : Uploaded(r) /\ removal[r].up.epoch = e

(* Nobody wraps for the owner; a wrap is for the newcomer alone. *)
WrapsAreForOthers ==
  /\ Owner \notin joining
  /\ \A u \in Users : /\ WrapFor(Owner) \notin jobs[u]
                      /\ wrapping[u].pc # "idle" => wrapping[u].for # Owner
                      /\ wrapping[u].pc = "idle" => wrapping[u].tried = {}
                      /\ wrapping[u].pc = "checked" => wrapping[u].up.to = {wrapping[u].for}
  /\ wrapping[Owner].kept = Empty

(* The epoch moves by one at a time and never back, by a rotation, or by a *)
(* wrap of what a rotation that failed has left.                           *)
EpochMovesOn ==
  /\ \A r \in Removals :
       /\ removal[r].pc = "checked" =>
            IF removal[r].up.rotating THEN removal[r].up.epoch = current + 1
                                      ELSE removal[r].up.epoch <= current
       /\ removal[r].pc \in {"answered", "done"} => removal[r].up.epoch <= current
  /\ \A u \in Users : wrapping[u].pc = "checked" =>
       IF wrapping[u].up.rotating
       THEN u = Owner /\ wrapping[u].up.epoch = current + 1 /\ RotationFailed(current + 1)
       ELSE wrapping[u].up.epoch <= current

(* The owner holds what its rotations made. *)
OwnerHolds ==
  \A e \in Epoch : e <= current =>
    \/ RotationFailed(e) \/ held[Owner][e] # NoKey
    \/ \E r \in Removals : removal[r].pc = "answered" /\ removal[r].up.epoch = e

(* The owner is to wrap epoch e for x, and will not pass it over. *)
Owed(x, e) ==
  LET w == wrapping[Owner] IN
  /\ held[Owner][e] # NoKey
  /\ \/ x \in joining \/ WrapFor(x) \in jobs[Owner]
     \/ /\ w.pc # "idle" /\ w.for = x
        /\ e \notin w.tried \/ (w.pc = "checked" /\ w.up.epoch = e)

WrapsAreOwed ==
  \A x \in Users, e \in Epoch : Stays(x) /\ e <= current =>
    RotationFailed(e) \/ wraps[x][e] # NoKey \/ Owed(x, e)

(* x has, or is about to load, a key of epoch e. *)
Coming(x, e) ==
  \/ held[x][e] # NoKey
  \/ Do("load") \in jobs[x] \/ Do("open") \in jobs[x]
  \/ \E a \in answers[x] : a.row[e] # NoKey

WrapsAreLoaded ==
  \A x \in Users, e \in Epoch : Stays(x) /\ wraps[x][e] # NoKey => RotationFailed(e) \/ Coming(x, e)

Unlost == drops = 0 => online = Users

(* Together: what is said of the epochs unless two removals collided, and  *)
(* of wraps and loads while nothing is lost.                               *)
GivenInv ==
  /\ RemovedInv /\ WrapsOfMembersOnly
  /\ DroppedAreTargeted /\ RotationsReach /\ EpochsAreRotated /\ WrapsAreForOthers /\ Unlost
  /\ ~ Collided => EpochMovesOn /\ OwnerHolds
  /\ drops = 0 => WrapsAreLoaded /\ (~ Collided => WrapsAreOwed)

LEMMA StepCases ==
  ASSUME Next
  PROVE  \/ \E r \in Removals :
              \/ \E x \in Users : RemoveMember(r, x)
              \/ FanoutRemoved(r) \/ DeleteMember(r) \/ ListRemaining(r) \/ Rotate(r)
              \/ RotationCheck(r) \/ RotationInsert(r) \/ RotationDone(r) \/ RemovalFails(r)
         \/ \E u \in Users :
              \/ AcceptInvite(u) \/ AnnounceJoin(u)
              \/ (\E x \in Users : WrapStart(u, x)) \/ WrapNext(u) \/ WrapInsert(u)
              \/ (\E k \in {"load", "open"} : FetchKeys(u, k))
              \/ (\E a \in answers[u] : LoadKeys(u, a)) \/ DropSpace(u)
              \/ Disconnect(u) \/ Reconnect(u)
BY DEF Next, RemovalStep, WrapStep, LoadStep

(* What is used of the invariant throughout. *)
LEMMA GivenGives ==
  ASSUME GivenInv
  PROVE  /\ RemovedInv /\ KeysInv /\ TypeInv /\ TypeOK /\ Owner \in Users /\ Owner \in member
         /\ wraps \in [Users -> Row] /\ held \in [Users -> Row]
         /\ jobs \in [Users -> SUBSET Job] /\ answers \in [Users -> SUBSET Answer]
         /\ removal \in [Removals -> Removal] /\ wrapping \in [Users -> Wrapping]
         /\ \A r \in Removals : removal[r] \in Removal /\ removal[r].up \in Upload
         /\ \A u \in Users : wrapping[u] \in Wrapping /\ wrapping[u].up \in Upload
         /\ current \in Epoch /\ member \subseteq Users /\ joining \subseteq Users
         /\ RotationsAreBacked /\ RequestsAreFiled /\ OwnerShowsSpace /\ OwnerIsBacked
<1>1. RemovedInv /\ KeysInv
  BY DEF GivenInv, RemovedInv
<1>2. /\ TypeInv /\ TypeOK /\ Owner \in Users
      /\ wraps \in [Users -> Row] /\ held \in [Users -> Row]
      /\ jobs \in [Users -> SUBSET Job] /\ answers \in [Users -> SUBSET Answer]
      /\ removal \in [Removals -> Removal] /\ wrapping \in [Users -> Wrapping]
      /\ member \subseteq Users
  BY <1>1, KeysInvGives
<1>3. /\ \A r \in Removals : removal[r] \in Removal /\ removal[r].up \in Upload
      /\ \A u \in Users : wrapping[u] \in Wrapping /\ wrapping[u].up \in Upload
  BY <1>2 DEF Removal, Wrapping
<1>4. current \in Epoch /\ joining \subseteq Users
  BY <1>2 DEF TypeOK
<1>5. Owner \in member /\ RotationsAreBacked /\ RequestsAreFiled /\ OwnerShowsSpace /\ OwnerIsBacked
  BY <1>1 DEF KeysInv, OwnerInv, OwnerIsBacked
<1>6. QED
  BY <1>1, <1>2, <1>3, <1>4, <1>5

(* A step of another call leaves a removal's record alone. *)
LEMMA RemovalMoves ==
  ASSUME GivenInv, [Next]_vars, NEW r \in Removals
  PROVE  \/ removal'[r] = removal[r]
         \/ \E x \in Users : RemoveMember(r, x)
         \/ FanoutRemoved(r) \/ DeleteMember(r) \/ ListRemaining(r) \/ Rotate(r)
         \/ RotationCheck(r) \/ RotationInsert(r) \/ RotationDone(r) \/ RemovalFails(r)
<1>1. removal \in [Removals -> Removal] /\ TypeInv
  BY GivenGives
<1>2. ASSUME NEW s \in Removals, s # r,
             \/ \E x \in Users : RemoveMember(s, x)
             \/ FanoutRemoved(s) \/ DeleteMember(s) \/ ListRemaining(s) \/ Rotate(s)
             \/ RotationCheck(s) \/ RotationInsert(s) \/ RotationDone(s) \/ RemovalFails(s)
      PROVE  removal'[r] = removal[r]
  BY <1>1, <1>2 DEF RemoveMember, FanoutRemoved, DeleteMember, ListRemaining, Rotate,
       RotationCheck, RotationInsert, RotationDone, RemovalFails, Removed
<1>3. ASSUME NEW u \in Users,
             \/ AcceptInvite(u) \/ AnnounceJoin(u) \/ WrapStep(u)
             \/ LoadStep(u) \/ Disconnect(u) \/ Reconnect(u)
      PROVE  removal' = removal
  BY <1>1, <1>3, UsersLeaveRemovals
<1>4. CASE UNCHANGED vars
  BY <1>4 DEF vars, calls
<1>5. CASE Next
  BY <1>2, <1>3, <1>5 DEF Next, RemovalStep
<1>6. QED
  BY <1>4, <1>5

(* How far a call has come is not undone, nor is a removal. *)
LEMMA EndsStay ==
  ASSUME GivenInv, [Next]_vars
  PROVE  /\ \A e : RotationFailed(e) => RotationFailed(e)'
         /\ \A r \in Removals : Uploaded(r) => Uploaded(r)' /\ removal'[r].up.epoch = removal[r].up.epoch
         /\ \A x : Targeted(x) => Targeted(x)'
         /\ \A r \in Removals : removal[r].pc = "done" => removal'[r].pc = "done"
<1>1. removal \in [Removals -> Removal] /\ RemovedInv /\ KeysInv /\ RequestsAreFiled
  BY GivenGives
<1>2. ASSUME NEW r \in Removals
      PROVE  /\ removal[r].pc = "failed" => removal'[r].pc = "failed"
             /\ removal[r].pc = "done" => removal'[r].pc = "done"
             /\ removal[r].pc = "answered" => removal'[r].pc \in {"answered", "done", "failed"}
  <2>1. CASE removal'[r] = removal[r]
    BY <2>1
  <2>2. CASE RotationDone(r) \/ RemovalFails(r)
    BY <1>1, <2>2 DEF RotationDone, RemovalFails, Removed, Removal
  <2>3. CASE removal[r].pc \notin {"failed", "done", "answered"}
    BY <2>3
  <2>4. QED
    BY <2>1, <2>2, <2>3, RemovalMoves DEF RemoveMember, FanoutRemoved, DeleteMember, ListRemaining,
       Rotate, RotationCheck, RotationInsert
<1>3. ASSUME NEW r \in Removals, removal[r].up.key = r
      PROVE  removal'[r].up.key = r /\ removal'[r].up.epoch = removal[r].up.epoch
  BY <1>1, <1>3, RequestStays, KeysDiffer
<1>4. \A e : RotationFailed(e) => RotationFailed(e)'
  BY <1>2, <1>3 DEF RotationFailed
<1>5. ASSUME NEW r \in Removals, Uploaded(r)
      PROVE  Uploaded(r)' /\ removal'[r].up.epoch = removal[r].up.epoch
  BY <1>2, <1>3, <1>5 DEF Uploaded
<1>6. \A x : Targeted(x) => Targeted(x)'
  BY <1>1, TargetStays DEF Targeted
<1>7. QED
  BY <1>2, <1>4, <1>5, <1>6

(* Who stays after a step did so before it, or joins by it. *)
LEMMA StaysBefore ==
  ASSUME GivenInv, [Next]_vars, NEW x \in Users, Stays(x)'
  PROVE  Stays(x) \/ (AcceptInvite(x) /\ x \notin member)
<1>1. x \notin late /\ ~ Targeted(x)
  <2>1. ~ Targeted(x)
    BY EndsStay DEF Stays
  <2>2. late \subseteq late'
    <3>1. CASE UNCHANGED vars
      BY <3>1 DEF vars, bounds
    <3>2. CASE Next
      BY <3>2, StepCases DEF RemoveMember, FanoutRemoved, DeleteMember, ListRemaining, Rotate,
         RotationCheck, RotationInsert, RotationDone, RemovalFails, AcceptInvite, AnnounceJoin,
         WrapStart, WrapNext, WrapInsert, FetchKeys, LoadKeys, DropSpace, Disconnect, Reconnect, bounds
    <3>3. QED
      BY <3>1, <3>2
  <2>3. QED
    BY <2>1, <2>2 DEF Stays
<1>2. x \in member \/ AcceptInvite(x)
  <2>1. CASE UNCHANGED vars
    BY <2>1 DEF vars, server, Stays
  <2>2. CASE Next
    <3>1. ASSUME NEW u \in Users, AcceptInvite(u)
          PROVE  x \in member \/ AcceptInvite(x)
      BY <3>1 DEF AcceptInvite, Stays
    <3>2. QED
      BY <2>2, <3>1, StepCases DEF RemoveMember, FanoutRemoved, DeleteMember, ListRemaining, Rotate,
         RotationCheck, RotationInsert, RotationDone, RemovalFails, AnnounceJoin, server, Stays,
         WrapStart, WrapNext, WrapInsert, FetchKeys, LoadKeys, DropSpace, Disconnect, Reconnect
  <2>3. QED
    BY <2>1, <2>2
<1>3. QED
  BY <1>1, <1>2 DEF Stays, AcceptInvite

(* Which work is new, *)
LEMMA JobsCome ==
  ASSUME GivenInv, [Next]_vars, NEW x \in Users, NEW j \in jobs'[x], j \notin jobs[x]
  PROVE  \/ /\ j = Do("dropped")
            /\ \E r \in Removals : FanoutRemoved(r) /\ removal[r].target = x
         \/ j = Do("load")
         \/ j = Do("open")
         \/ \E y \in Users : j = WrapFor(y) /\ AnnounceJoin(y) /\ y # x
<1> DEFINE Goal == \/ /\ j = Do("dropped")
                      /\ \E r \in Removals : FanoutRemoved(r) /\ removal[r].target = x
                   \/ j = Do("load")
                   \/ j = Do("open")
                   \/ \E y \in Users : j = WrapFor(y) /\ AnnounceJoin(y) /\ y # x
<1>1. jobs \in [Users -> SUBSET Job]
  BY GivenGives
<1>2. ASSUME NEW S, NEW k, jobs' = Notified(S, Do(k))
      PROVE  j = Do(k) /\ x \in S
  BY <1>1, <1>2 DEF Notified
<1>3. ASSUME NEW r \in Removals, FanoutRemoved(r)
      PROVE  Goal
  <2>1. jobs' = Notified({removal[r].target} \cap member, Do("dropped"))
    BY <1>3 DEF FanoutRemoved
  <2>2. j = Do("dropped") /\ x \in {removal[r].target} \cap member
    BY <1>2, <2>1
  <2>3. QED
    BY <1>3, <2>2
<1>4. ASSUME NEW r \in Removals, RotationInsert(r)
      PROVE  Goal
  BY <1>2, <1>4 DEF RotationInsert
<1>5. ASSUME NEW u \in Users, WrapInsert(u)
      PROVE  Goal
  BY <1>2, <1>5 DEF WrapInsert
<1>6. ASSUME NEW u \in Users, AnnounceJoin(u)
      PROVE  Goal
  BY <1>1, <1>6 DEF AnnounceJoin
<1>7. CASE jobs' = jobs
  BY <1>7
<1>8. ASSUME NEW u \in Users,
             \/ \E y \in Users : WrapStart(u, y)
             \/ \E k \in {"load", "open"} : FetchKeys(u, k)
             \/ DropSpace(u)
      PROVE  Goal
  BY <1>1, <1>8 DEF WrapStart, FetchKeys, DropSpace
<1>9. ASSUME NEW u \in Users,
             \/ AcceptInvite(u) \/ WrapNext(u) \/ (\E a \in answers[u] : LoadKeys(u, a))
             \/ Disconnect(u) \/ Reconnect(u)
      PROVE  jobs' = jobs
  BY <1>9 DEF AcceptInvite, WrapNext, LoadKeys, Disconnect, Reconnect, client
<1>10. ASSUME NEW r \in Removals,
              \/ \E y \in Users : RemoveMember(r, y)
              \/ DeleteMember(r) \/ ListRemaining(r) \/ Rotate(r)
              \/ RotationCheck(r) \/ RotationDone(r) \/ RemovalFails(r)
      PROVE  jobs' = jobs
  BY <1>10 DEF RemoveMember, DeleteMember, ListRemaining, Rotate, RotationCheck, RotationDone,
               RemovalFails, client
<1>11. CASE UNCHANGED vars
  BY <1>7, <1>11 DEF vars, client
<1>12. CASE Next
  BY <1>3, <1>4, <1>5, <1>6, <1>7, <1>8, <1>9, <1>10, <1>12, StepCases
<1>13. QED
  BY <1>11, <1>12

(* and which is taken up. *)
LEMMA JobsGo ==
  ASSUME GivenInv, [Next]_vars, NEW x \in Users, NEW j \in jobs[x], j \notin jobs'[x]
  PROVE  \/ \E y \in Users : j = WrapFor(y) /\ WrapStart(x, y)
         \/ \E k \in {"load", "open"} : j = Do(k) /\ FetchKeys(x, k)
         \/ j = Do("dropped") /\ DropSpace(x)
<1>1. jobs \in [Users -> SUBSET Job]
  BY GivenGives
<1>2. ASSUME NEW S, NEW k, jobs' = Notified(S, k)
      PROVE  FALSE
  BY <1>1, <1>2 DEF Notified
<1>3. ASSUME NEW u \in Users, AnnounceJoin(u)
      PROVE  FALSE
  BY <1>1, <1>3 DEF AnnounceJoin
<1>4. ASSUME NEW u \in Users, NEW k, jobs' = [jobs EXCEPT ![u] = @ \ {k}]
      PROVE  u = x /\ j = k
  BY <1>1, <1>4
<1>5. ASSUME NEW u \in Users,
             \/ AcceptInvite(u) \/ WrapNext(u) \/ (\E a \in answers[u] : LoadKeys(u, a))
             \/ Disconnect(u) \/ Reconnect(u)
      PROVE  jobs' = jobs
  BY <1>5 DEF AcceptInvite, WrapNext, LoadKeys, Disconnect, Reconnect, client
<1>6. ASSUME NEW r \in Removals,
              \/ \E y \in Users : RemoveMember(r, y)
              \/ DeleteMember(r) \/ ListRemaining(r) \/ Rotate(r)
              \/ RotationCheck(r) \/ RotationDone(r) \/ RemovalFails(r)
      PROVE  jobs' = jobs
  BY <1>6 DEF RemoveMember, DeleteMember, ListRemaining, Rotate, RotationCheck, RotationDone,
               RemovalFails, client
<1>7. ASSUME NEW r \in Removals, FanoutRemoved(r) \/ RotationInsert(r)
      PROVE  jobs' = jobs
  BY <1>2, <1>7 DEF FanoutRemoved, RotationInsert
<1>8. ASSUME NEW u \in Users, WrapInsert(u)
      PROVE  jobs' = jobs
  BY <1>2, <1>8 DEF WrapInsert
<1>9. ASSUME NEW u \in Users, NEW y \in Users, WrapStart(u, y)
      PROVE  u = x /\ j = WrapFor(y)
  BY <1>4, <1>9 DEF WrapStart
<1>10. ASSUME NEW u \in Users, NEW k \in {"load", "open"}, FetchKeys(u, k)
      PROVE  u = x /\ j = Do(k)
  BY <1>4, <1>10 DEF FetchKeys
<1>11. ASSUME NEW u \in Users, DropSpace(u)
      PROVE  u = x /\ j = Do("dropped")
  BY <1>4, <1>11 DEF DropSpace
<1>12. CASE UNCHANGED vars
  BY <1>12 DEF vars, client
<1>13. CASE Next
  BY <1>3, <1>5, <1>6, <1>7, <1>8, <1>9, <1>10, <1>11, <1>13, StepCases
<1>14. QED
  BY <1>12, <1>13

(* A key that is held stays, but for a space that is dropped. *)
LEMMA HeldStays ==
  ASSUME GivenInv, [Next]_vars, NEW x \in Users, NEW e \in Epoch, held[x][e] # NoKey
  PROVE  held'[x][e] # NoKey \/ (DropSpace(x) /\ Do("dropped") \in jobs[x])
<1>1. held \in [Users -> Row] /\ Owner \in Users /\ removal \in [Removals -> Removal]
  BY GivenGives
<1>2. ASSUME NEW r \in Removals, RotationDone(r)
      PROVE  held'[x][e] # NoKey
  <2>1. removal[r].up.key # NoKey
    BY <1>2, GivenGives, KeysDiffer DEF RotationDone, RequestsAreFiled
  <2>2. held' = [held EXCEPT ![Owner][removal[r].up.epoch] = removal[r].up.key]
    BY <1>2 DEF RotationDone
  <2>3. held[x] \in [Epoch -> Key \cup {NoKey}]
    BY <1>1 DEF Row
  <2>4. QED
    BY <1>1, <2>1, <2>2, <2>3
<1>3. ASSUME NEW u \in Users, NEW a \in answers[u], LoadKeys(u, a)
      PROVE  held'[x][e] # NoKey
  BY <1>1, <1>3 DEF LoadKeys
<1>4. ASSUME NEW u \in Users, DropSpace(u)
      PROVE  held'[x][e] # NoKey \/ (DropSpace(x) /\ Do("dropped") \in jobs[x])
  BY <1>1, <1>4 DEF DropSpace
<1>5. ASSUME NEW r \in Removals,
              \/ \E y \in Users : RemoveMember(r, y)
              \/ FanoutRemoved(r) \/ DeleteMember(r) \/ ListRemaining(r) \/ Rotate(r)
              \/ RotationCheck(r) \/ RotationInsert(r) \/ RemovalFails(r)
      PROVE  held' = held
  BY <1>5 DEF RemoveMember, FanoutRemoved, DeleteMember, ListRemaining, Rotate, RotationCheck,
              RotationInsert, RemovalFails, client
<1>6. ASSUME NEW u \in Users,
             \/ AcceptInvite(u) \/ AnnounceJoin(u)
             \/ (\E y \in Users : WrapStart(u, y)) \/ WrapNext(u) \/ WrapInsert(u)
             \/ (\E k \in {"load", "open"} : FetchKeys(u, k)) \/ Disconnect(u) \/ Reconnect(u)
      PROVE  held' = held
  BY <1>6 DEF AcceptInvite, AnnounceJoin, WrapStart, WrapNext, WrapInsert, FetchKeys,
              Disconnect, Reconnect, client
<1>7. CASE UNCHANGED vars
  BY <1>7 DEF vars, client
<1>8. CASE Next
  BY <1>2, <1>3, <1>4, <1>5, <1>6, <1>8, StepCases
<1>9. QED
  BY <1>7, <1>8

(* What is newly wrapped comes of an upload. *)
LEMMA WrapsCome ==
  ASSUME GivenInv, [Next]_vars, NEW x \in Users, NEW e \in Epoch,
         wraps[x][e] = NoKey, wraps'[x][e] # NoKey
  PROVE  \/ \E r \in Removals :
              RotationInsert(r) /\ removal[r].up.epoch = e /\ x \in removal[r].up.to
         \/ \E u \in Users :
              WrapInsert(u) /\ wrapping[u].up.epoch = e /\ x \in wrapping[u].up.to
<1>1. wraps \in [Users -> Row] /\ TypeInv /\ TypeOK
  BY GivenGives
<1>2. ASSUME NEW up, up \in Upload, Commit(up) \/ Abort(up)
      PROVE  up.epoch = e /\ x \in up.to
  <2>1. PICK S : S \subseteq up.to /\ wraps' = Inserted(up, S)
    BY <1>2 DEF Commit, Abort
  <2>2. wraps[x] \in [Epoch -> Key \cup {NoKey}]
    BY <1>1 DEF Row
  <2>3. QED
    BY <1>1, <2>1, <2>2 DEF Inserted
<1>3. ASSUME NEW r \in Removals, RotationInsert(r)
      PROVE  removal[r].up.epoch = e /\ x \in removal[r].up.to
  BY <1>2, <1>3, GivenGives DEF RotationInsert
<1>4. ASSUME NEW u \in Users, WrapInsert(u)
      PROVE  wrapping[u].up.epoch = e /\ x \in wrapping[u].up.to
  BY <1>2, <1>4, GivenGives DEF WrapInsert
<1>5. ASSUME NEW r \in Removals, DeleteMember(r)
      PROVE  FALSE
  BY <1>1, <1>5 DEF DeleteMember, Empty
<1>6. ASSUME NEW r \in Removals,
              \/ \E y \in Users : RemoveMember(r, y)
              \/ FanoutRemoved(r) \/ ListRemaining(r) \/ Rotate(r)
              \/ RotationCheck(r) \/ RotationDone(r) \/ RemovalFails(r)
      PROVE  FALSE
  BY <1>6 DEF RemoveMember, FanoutRemoved, ListRemaining, Rotate, RotationCheck,
              RotationDone, RemovalFails, server
<1>7. ASSUME NEW u \in Users,
             \/ AcceptInvite(u) \/ AnnounceJoin(u)
             \/ (\E y \in Users : WrapStart(u, y)) \/ WrapNext(u)
             \/ (\E k \in {"load", "open"} : FetchKeys(u, k))
             \/ (\E a \in answers[u] : LoadKeys(u, a)) \/ DropSpace(u)
             \/ Disconnect(u) \/ Reconnect(u)
      PROVE  FALSE
  BY <1>7 DEF AcceptInvite, AnnounceJoin, WrapStart, WrapNext, FetchKeys, LoadKeys, DropSpace,
              Disconnect, Reconnect, server
<1>8. CASE UNCHANGED vars
  BY <1>8 DEF vars, server
<1>9. CASE Next
  BY <1>3, <1>4, <1>5, <1>6, <1>7, <1>9, StepCases
<1>10. QED
  BY <1>8, <1>9

(* A wrap stays, unless its user is removed. *)
LEMMA WrapStays ==
  ASSUME GivenInv, [Next]_vars, NEW x \in Users, NEW e \in Epoch, wraps[x][e] # NoKey
  PROVE  wraps'[x][e] # NoKey \/ Targeted(x)
<1>1. ASSUME NEW r \in Removals, DeleteMember(r)
      PROVE  wraps'[x][e] # NoKey \/ Targeted(x)
  BY <1>1, GivenGives DEF DeleteMember, Targeted
<1>2. QED
  BY <1>1, WrapsStep, GivenGives

(* The epoch moves by an upload that was to move it. *)
LEMMA CurrentMoves ==
  ASSUME GivenInv, [Next]_vars
  PROVE  \/ current' = current
         \/ \E r \in Removals :
              /\ RotationInsert(r) /\ Commit(removal[r].up) /\ removal'[r].pc = "answered"
              /\ removal[r].up.rotating /\ current' = removal[r].up.epoch
         \/ \E u \in Users :
              /\ WrapInsert(u) /\ Commit(wrapping[u].up)
              /\ wrapping[u].up.rotating /\ current' = wrapping[u].up.epoch
<1> DEFINE Goal == \/ current' = current
                   \/ \E r \in Removals :
                        /\ RotationInsert(r) /\ Commit(removal[r].up) /\ removal'[r].pc = "answered"
                        /\ removal[r].up.rotating /\ current' = removal[r].up.epoch
                   \/ \E u \in Users :
                        /\ WrapInsert(u) /\ Commit(wrapping[u].up)
                        /\ wrapping[u].up.rotating /\ current' = wrapping[u].up.epoch
<1>1. removal \in [Removals -> Removal]
  BY GivenGives
<1>2. ASSUME NEW r \in Removals, RotationInsert(r)
      PROVE  Goal
  BY <1>1, <1>2 DEF RotationInsert, Commit, Abort, Removed, Removal
<1>3. ASSUME NEW u \in Users, WrapInsert(u)
      PROVE  Goal
  BY <1>3 DEF WrapInsert, Commit, Abort
<1>4. ASSUME NEW r \in Removals,
              \/ \E y \in Users : RemoveMember(r, y)
              \/ FanoutRemoved(r) \/ DeleteMember(r) \/ ListRemaining(r) \/ Rotate(r)
              \/ RotationCheck(r) \/ RotationDone(r) \/ RemovalFails(r)
      PROVE  current' = current
  BY <1>4 DEF RemoveMember, FanoutRemoved, DeleteMember, ListRemaining, Rotate, RotationCheck,
              RotationDone, RemovalFails, server
<1>5. ASSUME NEW u \in Users,
             \/ AcceptInvite(u) \/ AnnounceJoin(u)
             \/ (\E y \in Users : WrapStart(u, y)) \/ WrapNext(u)
             \/ (\E k \in {"load", "open"} : FetchKeys(u, k))
             \/ (\E a \in answers[u] : LoadKeys(u, a)) \/ DropSpace(u)
             \/ Disconnect(u) \/ Reconnect(u)
      PROVE  current' = current
  BY <1>5 DEF AcceptInvite, AnnounceJoin, WrapStart, WrapNext, FetchKeys, LoadKeys, DropSpace,
              Disconnect, Reconnect, server
<1>6. CASE UNCHANGED vars
  BY <1>6 DEF vars, server
<1>7. CASE Next
  BY <1>2, <1>3, <1>4, <1>5, <1>7, StepCases
<1>8. QED
  BY <1>6, <1>7

(* Who may change a client's wrapping. *)
LEMMA WrappingMoves ==
  ASSUME GivenInv, [Next]_vars, NEW u \in Users
  PROVE  \/ wrapping'[u] = wrapping[u]
         \/ \E x \in Users : WrapStart(u, x)
         \/ WrapNext(u) \/ WrapInsert(u)
         \/ DropSpace(u) /\ wrapping'[u] = [wrapping[u] EXCEPT !.kept = wrapping'[u].kept]
<1>1. wrapping \in [Users -> Wrapping] /\ wrapping[u] \in Wrapping
  BY GivenGives
<1>2. ASSUME NEW v \in Users, v # u, WrapStep(v)
      PROVE  wrapping'[u] = wrapping[u]
  BY <1>1, <1>2, WrapStepLeaves
<1>3. ASSUME NEW v \in Users, DropSpace(v)
      PROVE  \/ wrapping'[u] = wrapping[u]
             \/ v = u /\ wrapping'[u] = [wrapping[u] EXCEPT !.kept = wrapping'[u].kept]
  <2>1. CASE wrapping' = wrapping
    BY <2>1
  <2>2. CASE wrapping' = [wrapping EXCEPT ![v].kept = Wrapped(v)]
    BY <1>1, <2>2 DEF Wrapping
  <2>3. QED
    BY <1>3, <2>1, <2>2 DEF DropSpace
<1>4. ASSUME NEW v \in Users,
             \/ AcceptInvite(v) \/ AnnounceJoin(v)
             \/ (\E k \in {"load", "open"} : FetchKeys(v, k))
             \/ (\E a \in answers[v] : LoadKeys(v, a)) \/ Disconnect(v) \/ Reconnect(v)
      PROVE  wrapping' = wrapping
  BY <1>4 DEF AcceptInvite, AnnounceJoin, FetchKeys, LoadKeys, Disconnect, Reconnect, calls
<1>5. ASSUME NEW r \in Removals,
              \/ \E y \in Users : RemoveMember(r, y)
              \/ FanoutRemoved(r) \/ DeleteMember(r) \/ ListRemaining(r) \/ Rotate(r)
              \/ RotationCheck(r) \/ RotationInsert(r) \/ RotationDone(r) \/ RemovalFails(r)
      PROVE  wrapping' = wrapping
  BY <1>5 DEF RemoveMember, FanoutRemoved, DeleteMember, ListRemaining, Rotate, RotationCheck,
              RotationInsert, RotationDone, RemovalFails
<1>6. CASE UNCHANGED vars
  BY <1>6 DEF vars, calls
<1>7. CASE Next
  BY <1>2, <1>3, <1>4, <1>5, <1>7, StepCases DEF WrapStep
<1>8. QED
  BY <1>6, <1>7

LEMMA DroppedStep ==
  ASSUME GivenInv, [Next]_vars
  PROVE  DroppedAreTargeted'
<1> SUFFICES ASSUME NEW x \in Users, Do("dropped") \in jobs'[x]
             PROVE  Targeted(x)'
  BY DEF DroppedAreTargeted
<1>1. CASE Do("dropped") \in jobs[x]
  BY <1>1, EndsStay DEF GivenInv, DroppedAreTargeted
<1>2. CASE Do("dropped") \notin jobs[x]
  <2>1. PICK r \in Removals : FanoutRemoved(r) /\ removal[r].target = x
    BY <1>2, JobsCome DEF Do, WrapFor
  <2>2. Targeted(x)
    BY <2>1 DEF FanoutRemoved, Targeted
  <2>3. QED
    BY <2>2, EndsStay
<1>3. QED
  BY <1>1, <1>2

LEMMA RotationsReachStep ==
  ASSUME GivenInv, [Next]_vars
  PROVE  RotationsReach'
<1> SUFFICES ASSUME NEW r \in Removals, NEW x \in Users, Stays(x)'
             PROVE  /\ removal'[r].pc = "listed" => x \in removal'[r].list
                    /\ removal'[r].pc \in {"upload", "checked", "answered"} => x \in removal'[r].up.to
  BY DEF RotationsReach
<1>1. removal \in [Removals -> Removal] /\ removal[r] \in Removal
  BY GivenGives
<1>2. CASE AcceptInvite(x)
  BY <1>2 DEF AcceptInvite, calls, Stays
<1>3. CASE Stays(x)
  <2>1. /\ x \in member
        /\ removal[r].pc = "listed" => x \in removal[r].list
        /\ removal[r].pc \in {"upload", "checked", "answered"} => x \in removal[r].up.to
    BY <1>3 DEF Stays, GivenInv, RotationsReach
  <2>2. CASE removal'[r] = removal[r]
    BY <2>1, <2>2
  <2>3. CASE FanoutRemoved(r) \/ DeleteMember(r) \/ \E y \in Users : RemoveMember(r, y)
    BY <1>1, <2>3 DEF FanoutRemoved, DeleteMember, RemoveMember, Removed, Removal
  <2>4. CASE ListRemaining(r) \/ Rotate(r)
    BY <1>1, <2>1, <2>4 DEF ListRemaining, Rotate, Rekeying, Removal
  <2>5. CASE RotationCheck(r)
    BY <1>1, <2>1, <2>5 DEF RotationCheck, Removal, Upload
  <2>6. CASE RotationInsert(r) \/ RotationDone(r) \/ RemovalFails(r)
    BY <1>1, <2>1, <2>6 DEF RotationInsert, RotationDone, RemovalFails, Removed, Removal
  <2>7. QED
    BY <2>2, <2>3, <2>4, <2>5, <2>6, RemovalMoves
<1>4. QED
  BY <1>2, <1>3, StaysBefore

(* What a rotation's insert leaves. *)
LEMMA InsertEnds ==
  ASSUME GivenInv, [Next]_vars, NEW r \in Removals, RotationInsert(r)
  PROVE  /\ removal[r].up.key = r /\ removal[r].up.epoch \in Epoch /\ removal'[r].up = removal[r].up
         /\ Uploaded(r)'
         /\ \/ /\ Commit(removal[r].up) /\ removal'[r].pc = "answered"
               /\ jobs' = Notified(removal[r].up.to, Do("load"))
            \/ Abort(removal[r].up) /\ removal'[r].pc = "failed" /\ RotationFailed(removal[r].up.epoch)'
<1>1. /\ removal \in [Removals -> Removal] /\ removal[r] \in Removal
      /\ RequestsAreFiled /\ TypeInv
  BY GivenGives
<1>2. removal[r].up.key = r /\ removal[r].up.epoch \in Epoch
  BY <1>1 DEF RotationInsert, RequestsAreFiled, TypeInv, RequestsInEpoch
<1>3. removal'[r].up = removal[r].up /\ removal'[r].pc \in {"answered", "failed"}
  BY <1>1 DEF RotationInsert, Removed, Removal
<1>4. \/ /\ Commit(removal[r].up) /\ removal'[r].pc = "answered"
         /\ jobs' = Notified(removal[r].up.to, Do("load"))
      \/ Abort(removal[r].up) /\ removal'[r].pc = "failed"
  BY <1>1 DEF RotationInsert, Removed, Removal
<1>5. QED
  BY <1>2, <1>3, <1>4 DEF Uploaded, RotationFailed

LEMMA EpochsRotatedStep ==
  ASSUME GivenInv, [Next]_vars
  PROVE  EpochsAreRotated'
<1> SUFFICES ASSUME NEW e \in Epoch, wraps'[Owner][e] # NoKey, e # 1
             PROVE  \E r \in Removals : Uploaded(r)' /\ removal'[r].up.epoch = e
  BY DEF EpochsAreRotated
<1>1. CASE wraps[Owner][e] # NoKey
  <2>1. PICK r \in Removals : Uploaded(r) /\ removal[r].up.epoch = e
    BY <1>1 DEF GivenInv, EpochsAreRotated
  <2>2. QED
    BY <2>1, EndsStay
<1>2. CASE wraps[Owner][e] = NoKey
  <2>1. ASSUME NEW u \in Users, WrapInsert(u), Owner \in wrapping[u].up.to
        PROVE  FALSE
    BY <2>1, GivenGives DEF GivenInv, WrapsAreForOthers, WrapInsert
  <2>2. PICK r \in Removals : RotationInsert(r) /\ removal[r].up.epoch = e
    BY <1>2, <2>1, WrapsCome, GivenGives
  <2>3. QED
    BY <2>2, InsertEnds
<1>3. QED
  BY <1>1, <1>2

LEMMA ForOthersStep ==
  ASSUME GivenInv, [Next]_vars
  PROVE  WrapsAreForOthers'
<1>1. /\ Owner \in Users /\ Owner \in member /\ wrapping \in [Users -> Wrapping]
      /\ \A u \in Users : wrapping[u] \in Wrapping
      /\ OwnerShowsSpace
  BY GivenGives
<1>2. WrapsAreForOthers
  BY DEF GivenInv
<1>3. Owner \notin joining'
  <2>1. ASSUME NEW u \in Users, AcceptInvite(u) \/ AnnounceJoin(u)
        PROVE  Owner \notin joining'
    BY <1>1, <1>2, <2>1 DEF AcceptInvite, AnnounceJoin, WrapsAreForOthers
  <2>2. ASSUME Next, ~ \E u \in Users : AcceptInvite(u) \/ AnnounceJoin(u)
        PROVE  joining' = joining
    BY <2>2, StepCases DEF RemoveMember, FanoutRemoved, DeleteMember, ListRemaining, Rotate,
       RotationCheck, RotationInsert, RotationDone, RemovalFails, server,
       WrapStart, WrapNext, WrapInsert, FetchKeys, LoadKeys, DropSpace, Disconnect, Reconnect
  <2>3. CASE UNCHANGED vars
    BY <1>2, <2>3 DEF vars, server, WrapsAreForOthers
  <2>4. QED
    BY <1>2, <2>1, <2>2, <2>3 DEF WrapsAreForOthers
<1>4. ASSUME NEW u \in Users
      PROVE  WrapFor(Owner) \notin jobs'[u]
  <2>1. WrapFor(Owner) \notin jobs[u] /\ Owner \notin joining
    BY <1>2 DEF WrapsAreForOthers
  <2>2. QED
    BY <2>1, JobsCome DEF Do, WrapFor, AnnounceJoin
<1>5. ASSUME NEW u \in Users
      PROVE  /\ wrapping'[u].pc # "idle" => wrapping'[u].for # Owner
             /\ wrapping'[u].pc = "idle" => wrapping'[u].tried = {}
             /\ wrapping'[u].pc = "checked" => wrapping'[u].up.to = {wrapping'[u].for}
             /\ u = Owner => wrapping'[u].kept = Empty
  <2>1. /\ WrapFor(Owner) \notin jobs[u]
        /\ wrapping[u].pc # "idle" => wrapping[u].for # Owner
        /\ wrapping[u].pc = "idle" => wrapping[u].tried = {}
        /\ wrapping[u].pc = "checked" => wrapping[u].up.to = {wrapping[u].for}
        /\ u = Owner => wrapping[u].kept = Empty
    BY <1>2 DEF WrapsAreForOthers
  <2>2. CASE wrapping'[u] = wrapping[u]
    BY <2>1, <2>2
  <2>3. ASSUME NEW x \in Users, WrapStart(u, x), wrapping'[u] # wrapping[u]
        PROVE  /\ wrapping'[u] = [wrapping[u] EXCEPT !.pc = "next", !.for = x]
               /\ x # Owner
    BY <1>1, <2>1, <2>3 DEF WrapStart
  <2>4. CASE \E x \in Users : WrapStart(u, x)
    <3>1. PICK x \in Users : WrapStart(u, x)
      BY <2>4
    <3>2. wrapping[u].pc = "idle"
      BY <3>1 DEF WrapStart
    <3>3. CASE wrapping'[u] # wrapping[u]
      BY <1>1, <2>1, <2>3, <3>1, <3>2, <3>3 DEF Wrapping
    <3>4. QED
      BY <2>2, <3>3
  <2>5. CASE WrapNext(u)
    <3> DEFINE Request(e) == [epoch |-> e, to |-> {wrapping[u].for}, key |-> Wrapped(u)[e],
                              rotating |-> e = current + 1]
    <3>1. CASE wrapping' = [wrapping EXCEPT ![u] = NotWrapping(u)]
      BY <1>1, <3>1 DEF NotWrapping
    <3>2. ASSUME NEW e, wrapping' = [wrapping EXCEPT
                   ![u].pc = IF Accepted(u, Request(e)) THEN "checked" ELSE "next",
                   ![u].tried = @ \cup {e}, ![u].up = Request(e)]
          PROVE  /\ wrapping'[u].pc \in {"checked", "next"} /\ wrapping'[u].for = wrapping[u].for
                 /\ wrapping'[u].up.to = {wrapping[u].for} /\ wrapping'[u].kept = wrapping[u].kept
      BY <1>1, <3>2 DEF Wrapping
    <3>3. wrapping[u].pc = "next"
      BY <2>5 DEF WrapNext
    <3>4. QED
      BY <2>1, <2>5, <3>1, <3>2, <3>3 DEF WrapNext
  <2>6. CASE WrapInsert(u)
    BY <1>1, <2>1, <2>6 DEF WrapInsert, Wrapping
  <2>7. CASE DropSpace(u) /\ wrapping'[u] = [wrapping[u] EXCEPT !.kept = wrapping'[u].kept]
    <3>1. u # Owner
      BY <1>1, <2>7 DEF DropSpace, OwnerShowsSpace
    <3>2. QED
      BY <1>1, <2>1, <2>7, <3>1 DEF Wrapping
  <2>8. QED
    BY <2>2, <2>4, <2>5, <2>6, <2>7, WrappingMoves
<1>6. QED
  BY <1>1, <1>3, <1>4, <1>5 DEF WrapsAreForOthers

(* Two removals of one epoch collide. *)
LEMMA SameEpochCollides ==
  ASSUME NEW r \in Removals, NEW s \in Removals, r # s,
         removal[r].up.key = r, removal[s].up.key = s, removal[r].up.epoch = removal[s].up.epoch
  PROVE  Collided
BY DEF Collided

LEMMA EpochMovesStep ==
  ASSUME GivenInv, [Next]_vars, ~ Collided'
  PROVE  EpochMovesOn' /\ (current' = current \/ current' = current + 1)
<1>1. /\ removal \in [Removals -> Removal] /\ wrapping \in [Users -> Wrapping]
      /\ \A r \in Removals : removal[r] \in Removal /\ removal[r].up \in Upload
      /\ \A u \in Users : wrapping[u] \in Wrapping /\ wrapping[u].up \in Upload
      /\ current \in Nat /\ Owner \in Users /\ RequestsAreFiled
  BY GivenGives, BoundsAreNat DEF Epoch
<1>2. ~ Collided /\ EpochMovesOn
  BY CollidedStays, GivenGives DEF GivenInv
<1>3. /\ \A r \in Removals : removal[r].up.epoch \in Nat
      /\ \A u \in Users : wrapping[u].up.epoch \in Nat
  BY <1>1, BoundsAreNat DEF Upload
<1>4. \/ current' = current
      \/ \E r \in Removals :
           /\ RotationInsert(r) /\ removal'[r].pc = "answered" /\ removal[r].up.key = r
           /\ removal[r].up.epoch = current + 1 /\ current' = current + 1
      \/ /\ WrapInsert(Owner) /\ RotationFailed(current + 1) /\ current' = current + 1
  <2>1. ASSUME NEW r \in Removals, RotationInsert(r), removal[r].up.rotating
        PROVE  removal[r].up.epoch = current + 1 /\ removal[r].up.key = r
    BY <1>2, <2>1, InsertEnds DEF EpochMovesOn, RotationInsert
  <2>2. ASSUME NEW u \in Users, WrapInsert(u), wrapping[u].up.rotating
        PROVE  u = Owner /\ wrapping[u].up.epoch = current + 1 /\ RotationFailed(current + 1)
    BY <1>2, <2>2 DEF EpochMovesOn, WrapInsert
  <2>3. QED
    BY <2>1, <2>2, CurrentMoves
<1>5. current' \in Nat /\ current <= current' /\ (current' = current \/ current' = current + 1)
  BY <1>1, <1>4
(* Nobody else is about to move the epoch by the same step. *)
<1>6. ASSUME NEW r \in Removals, removal[r].up.key = r, removal[r].up.epoch = current + 1,
             ~ RotationInsert(r), removal[r].pc # "failed"
      PROVE  current' = current
  <2>1. ASSUME NEW s \in Removals, RotationInsert(s), removal[s].up.key = s,
               removal[s].up.epoch = current + 1
        PROVE  FALSE
    BY <1>2, <1>6, <2>1, SameEpochCollides
  <2>2. ~ RotationFailed(current + 1)
    BY <1>2, <1>6, SameEpochCollides DEF RotationFailed
  <2>3. QED
    BY <1>4, <2>1, <2>2
<1>7. ASSUME NEW r \in Removals
      PROVE  /\ removal'[r].pc = "checked" =>
                  IF removal'[r].up.rotating THEN removal'[r].up.epoch = current' + 1
                                             ELSE removal'[r].up.epoch <= current'
             /\ removal'[r].pc \in {"answered", "done"} => removal'[r].up.epoch <= current'
  <2>1. /\ removal[r].pc = "checked" =>
             IF removal[r].up.rotating THEN removal[r].up.epoch = current + 1
                                       ELSE removal[r].up.epoch <= current
        /\ removal[r].pc \in {"answered", "done"} => removal[r].up.epoch <= current
        /\ removal[r].pc = "checked" => removal[r].up.key = r
    BY <1>1, <1>2 DEF EpochMovesOn, RequestsAreFiled
  <2>2. CASE removal'[r] = removal[r]
    <3>1. CASE removal[r].pc = "checked" /\ removal[r].up.rotating
      <4>1. ~ RotationInsert(r)
        BY <2>2, <3>1, InsertEnds
      <4>2. QED
        BY <1>6, <2>1, <2>2, <3>1, <4>1
    <3>2. CASE ~ (removal[r].pc = "checked" /\ removal[r].up.rotating)
      BY <1>1, <1>3, <1>5, <2>1, <2>2, <3>2
    <3>3. QED
      BY <3>1, <3>2
  <2>3. CASE FanoutRemoved(r) \/ DeleteMember(r) \/ \E y \in Users : RemoveMember(r, y)
    BY <1>1, <2>3 DEF FanoutRemoved, DeleteMember, RemoveMember, Removed, Removal
  <2>4. CASE ListRemaining(r) \/ Rotate(r)
    BY <1>1, <2>4 DEF ListRemaining, Rotate, Removal
  <2>5. CASE RotationCheck(r)
    <3>1. current' = current
      BY <2>5 DEF RotationCheck, server
    <3>2. CASE Accepted(Owner, removal[r].up)
      <4>1. removal' = [removal EXCEPT ![r].pc = "checked",
                                       ![r].up.rotating = removal[r].up.epoch = current + 1]
        BY <2>5, <3>2 DEF RotationCheck
      <4>2. /\ removal'[r].pc = "checked" /\ removal'[r].up.epoch = removal[r].up.epoch
            /\ removal'[r].up.rotating = (removal[r].up.epoch = current + 1)
        BY <1>1, <4>1 DEF Removal, Upload
      <4>3. removal[r].up.epoch = current + 1 \/ removal[r].up.epoch <= current
        BY <3>2 DEF Accepted
      <4>4. QED
        BY <3>1, <4>2, <4>3
    <3>3. CASE ~ Accepted(Owner, removal[r].up)
      BY <1>1, <2>5, <3>3 DEF RotationCheck, Removal
    <3>4. QED
      BY <3>2, <3>3
  <2>6. CASE RotationInsert(r)
    <3>1. removal'[r].up = removal[r].up /\ removal'[r].pc \in {"answered", "failed"}
      BY <2>6, InsertEnds
    <3>2. CASE removal[r].up.rotating /\ removal'[r].pc = "answered"
      <4>1. Commit(removal[r].up)
        BY <2>6, <3>2, InsertEnds
      <4>2. QED
        BY <1>3, <3>1, <3>2, <4>1 DEF Commit
    <3>3. CASE ~ removal[r].up.rotating
      <4>1. removal[r].up.epoch <= current
        BY <2>1, <2>6, <3>3 DEF RotationInsert
      <4>2. QED
        BY <1>1, <1>3, <1>5, <3>1, <4>1
    <3>4. QED
      BY <3>1, <3>2, <3>3
  <2>7. CASE RotationDone(r) \/ RemovalFails(r)
    <3>1. /\ removal'[r].up = removal[r].up /\ removal'[r].pc \in {"done", "failed"}
          /\ removal'[r].pc = "done" => removal[r].pc = "answered"
      BY <1>1, <2>7 DEF RotationDone, RemovalFails, Removed, Removal
    <3>2. QED
      BY <1>1, <1>3, <1>5, <2>1, <3>1
  <2>8. QED
    BY <2>2, <2>3, <2>4, <2>5, <2>6, <2>7, RemovalMoves
<1>8. ASSUME NEW u \in Users, wrapping'[u].pc = "checked"
      PROVE  IF wrapping'[u].up.rotating
             THEN /\ u = Owner /\ wrapping'[u].up.epoch = current' + 1
                  /\ RotationFailed(current + 1)'
             ELSE wrapping'[u].up.epoch <= current'
  <2>1. wrapping[u].pc = "checked" =>
          IF wrapping[u].up.rotating
          THEN u = Owner /\ wrapping[u].up.epoch = current + 1 /\ RotationFailed(current + 1)
          ELSE wrapping[u].up.epoch <= current
    BY <1>2 DEF EpochMovesOn
  <2>2. CASE wrapping'[u].pc = wrapping[u].pc /\ wrapping'[u].up = wrapping[u].up /\ ~ WrapInsert(u)
    <3>1. CASE wrapping[u].up.rotating
      <4>1. u = Owner /\ wrapping[u].up.epoch = current + 1 /\ RotationFailed(current + 1)
        BY <1>8, <2>1, <2>2, <3>1
      <4>2. PICK s \in Removals : removal[s].pc = "failed" /\ removal[s].up.key = s
                                  /\ removal[s].up.epoch = current + 1
        BY <4>1 DEF RotationFailed
      <4>3. current' = current
        <5>1. ASSUME NEW r \in Removals, RotationInsert(r), removal[r].up.key = r,
                     removal[r].up.epoch = current + 1
              PROVE  FALSE
          BY <1>2, <4>2, <5>1, SameEpochCollides DEF RotationInsert
        <5>2. QED
          BY <1>4, <2>2, <4>1, <5>1
      <4>4. RotationFailed(current + 1)'
        BY <4>1, <4>3, EndsStay DEF RotationFailed
      <4>5. QED
        BY <2>2, <3>1, <4>1, <4>3, <4>4
    <3>2. CASE ~ wrapping[u].up.rotating
      BY <1>1, <1>3, <1>5, <1>8, <2>1, <2>2, <3>2
    <3>3. QED
      BY <3>1, <3>2
  <2>3. CASE WrapInsert(u)
    BY <1>1, <1>8, <2>3 DEF WrapInsert, Wrapping
  <2>4. CASE WrapNext(u)
    <3> DEFINE Request(e) == [epoch |-> e, to |-> {wrapping[u].for}, key |-> Wrapped(u)[e],
                              rotating |-> e = current + 1]
    <3>1. current' = current
      BY <2>4 DEF WrapNext, server
    <3>2. wrapping' # [wrapping EXCEPT ![u] = NotWrapping(u)]
      BY <1>1, <1>8 DEF NotWrapping
    <3>3. PICK e \in Holds(Wrapped(u)) : wrapping' = [wrapping EXCEPT
                   ![u].pc = IF Accepted(u, Request(e)) THEN "checked" ELSE "next",
                   ![u].tried = @ \cup {e}, ![u].up = Request(e)]
      BY <2>4, <3>2 DEF WrapNext
    <3>4. /\ wrapping'[u].up = Request(e) /\ Accepted(u, Request(e))
      BY <1>1, <1>8, <3>3 DEF Wrapping
    <3>5. /\ e \in Epoch /\ wrapping'[u].up.epoch = e
          /\ wrapping'[u].up.rotating = (e = current + 1)
          /\ e = current + 1 => u = Owner
          /\ e # current + 1 => e <= current
      BY <3>4 DEF Accepted, Holds
    <3>6. ASSUME e = current + 1
          PROVE  RotationFailed(e)
      <4>1. u = Owner /\ Wrapped(u) = held[u]
        BY <1>1, <3>5, <3>6 DEF GivenInv, WrapsAreForOthers, Wrapped
      <4>2. wraps[Owner][e] # NoKey
        BY <3>5, <4>1, GivenGives DEF Holds, OwnerIsBacked, Backed
      <4>3. PICK s \in Removals : Uploaded(s) /\ removal[s].up.epoch = e
        BY <1>1, <3>5, <3>6, <4>2, GivenGives DEF GivenInv, EpochsAreRotated, Epoch
      <4>4. removal[s].pc \notin {"answered", "done"}
        BY <1>1, <1>2, <3>6, <4>3 DEF EpochMovesOn
      <4>5. QED
        BY <4>3, <4>4 DEF Uploaded, RotationFailed
    <3>7. e = current + 1 => RotationFailed(current + 1)'
      BY <3>1, <3>6, EndsStay DEF RotationFailed
    <3>8. QED
      BY <3>1, <3>5, <3>7
  <2>5. ASSUME NEW x \in Users, WrapStart(u, x), wrapping' # wrapping
        PROVE  FALSE
    BY <1>1, <1>8, <2>5 DEF WrapStart, Wrapping
  <2>6. CASE /\ DropSpace(u) /\ wrapping'[u] = [wrapping[u] EXCEPT !.kept = wrapping'[u].kept]
    <3>1. wrapping'[u].pc = wrapping[u].pc /\ wrapping'[u].up = wrapping[u].up
      BY <1>1, <2>6 DEF Wrapping
    <3>2. QED
      BY <2>2, <2>3, <3>1
  <2>7. CASE wrapping'[u] = wrapping[u]
    BY <2>2, <2>3, <2>7
  <2>8. QED
    BY <2>3, <2>4, <2>5, <2>6, <2>7, WrappingMoves
<1>9. QED
  BY <1>5, <1>7, <1>8 DEF EpochMovesOn

LEMMA OwnerHoldsStep ==
  ASSUME GivenInv, [Next]_vars, ~ Collided'
  PROVE  OwnerHolds'
<1> SUFFICES ASSUME NEW e \in Epoch, e <= current', ~ RotationFailed(e)'
             PROVE  \/ held'[Owner][e] # NoKey
                    \/ \E r \in Removals : removal'[r].pc = "answered" /\ removal'[r].up.epoch = e
  BY DEF OwnerHolds
<1>1. /\ removal \in [Removals -> Removal] /\ held \in [Users -> Row] /\ Owner \in Users
      /\ current \in Nat /\ e \in Nat /\ RequestsAreFiled /\ OwnerShowsSpace
      /\ \A r \in Removals : removal[r] \in Removal
  BY GivenGives, BoundsAreNat DEF Epoch
<1>2. ~ Collided /\ OwnerHolds /\ EpochMovesOn
  BY CollidedStays, GivenGives DEF GivenInv
<1>3. CASE e <= current
  <2>1. \/ held[Owner][e] # NoKey
        \/ \E r \in Removals : removal[r].pc = "answered" /\ removal[r].up.epoch = e
    BY <1>2, <1>3, EndsStay DEF OwnerHolds
  <2>2. CASE held[Owner][e] # NoKey
    BY <1>1, <2>2, HeldStays DEF OwnerShowsSpace
  <2>3. ASSUME NEW r \in Removals, removal[r].pc = "answered", removal[r].up.epoch = e
        PROVE  \/ removal'[r].pc = "answered" /\ removal'[r].up.epoch = e
               \/ held'[Owner][e] # NoKey
    <3>1. removal[r].up.key = r
      BY <1>1, <2>3 DEF RequestsAreFiled
    <3>2. Uploaded(r)' /\ removal'[r].up.epoch = e
      BY <2>3, <3>1, EndsStay DEF Uploaded
    <3>3. removal'[r].pc # "failed"
      BY <3>2 DEF Uploaded, RotationFailed
    <3>4. CASE removal'[r].pc = "done"
      <4>1. RotationDone(r)
        BY <1>1, <2>3, <3>4, RemovalMoves DEF RemoveMember, FanoutRemoved, DeleteMember,
           ListRemaining, Rotate, RotationCheck, RotationInsert, RemovalFails, Removed, Removal
      <4>2. held' = [held EXCEPT ![Owner][e] = r]
        BY <2>3, <3>1, <4>1 DEF RotationDone
      <4>3. held[Owner] \in [Epoch -> Key \cup {NoKey}] /\ r # NoKey
        BY <1>1, KeysDiffer DEF Row
      <4>4. QED
        BY <1>1, <4>2, <4>3
    <3>5. QED
      BY <3>2, <3>3, <3>4 DEF Uploaded
  <2>4. QED
    BY <2>1, <2>2, <2>3
<1>4. CASE ~ (e <= current)
  <2>1. e = current' /\ current' # current
    BY <1>1, <1>4, EpochMovesStep
  <2>2. ASSUME NEW r \in Removals, RotationInsert(r), removal'[r].pc = "answered",
               current' = removal[r].up.epoch
        PROVE  removal'[r].pc = "answered" /\ removal'[r].up.epoch = e
    BY <2>1, <2>2, InsertEnds
  <2>3. ASSUME NEW u \in Users, WrapInsert(u), wrapping[u].up.rotating,
               current' = wrapping[u].up.epoch
        PROVE  FALSE
    BY <1>2, <2>1, <2>3, EndsStay DEF EpochMovesOn, WrapInsert
  <2>4. QED
    BY <2>1, <2>2, <2>3, CurrentMoves
<1>5. QED
  BY <1>3, <1>4

(* While nothing is lost, what is owed stays so until it is wrapped. *)
LEMMA OwedStep ==
  ASSUME GivenInv, [Next]_vars, NEW x \in Users, NEW e \in Epoch,
         online = Users, Stays(x), e <= current, Owed(x, e)
  PROVE  wraps'[x][e] # NoKey \/ Owed(x, e)'
<1> DEFINE w == wrapping[Owner]
<1>1. /\ wrapping \in [Users -> Wrapping] /\ Owner \in Users /\ Owner \in member
      /\ w \in Wrapping /\ w.up \in Upload /\ held \in [Users -> Row] /\ wraps \in [Users -> Row]
      /\ jobs \in [Users -> SUBSET Job] /\ current \in Nat /\ e \in Nat
      /\ OwnerShowsSpace /\ KeysInv /\ TypeInv
  BY GivenGives, BoundsAreNat DEF Epoch
<1>2. WrapsAreForOthers /\ x \in member
  BY DEF GivenInv, Stays
<1>3. held[Owner][e] # NoKey /\ held'[Owner][e] # NoKey
  BY <1>1, HeldStays DEF Owed, OwnerShowsSpace
<1>4. CASE x \in joining
  <2>1. CASE AnnounceJoin(x)
    <3>1. x # Owner
      BY <1>2, <1>4 DEF WrapsAreForOthers
    <3>2. WrapFor(x) \in jobs'[Owner]
      BY <1>1, <2>1, <3>1 DEF AnnounceJoin
    <3>3. QED
      BY <1>3, <3>2 DEF Owed
  <2>2. CASE ~ AnnounceJoin(x)
    <3>1. ASSUME NEW u \in Users, AcceptInvite(u) \/ (AnnounceJoin(u) /\ u # x)
          PROVE  x \in joining'
      BY <1>4, <3>1 DEF AcceptInvite, AnnounceJoin
    <3>2. ASSUME Next, ~ \E u \in Users : AcceptInvite(u) \/ AnnounceJoin(u)
          PROVE  joining' = joining
      BY <3>2, StepCases DEF RemoveMember, FanoutRemoved, DeleteMember, ListRemaining, Rotate,
         RotationCheck, RotationInsert, RotationDone, RemovalFails, server,
         WrapStart, WrapNext, WrapInsert, FetchKeys, LoadKeys, DropSpace, Disconnect, Reconnect
    <3>3. ASSUME UNCHANGED vars
          PROVE  joining' = joining
      BY <3>3 DEF vars, server
    <3>4. x \in joining'
      BY <1>4, <2>2, <3>1, <3>2, <3>3
    <3>5. QED
      BY <1>3, <3>4 DEF Owed
  <2>3. QED
    BY <2>1, <2>2
<1>5. CASE WrapFor(x) \in jobs[Owner]
  <2>1. CASE WrapFor(x) \in jobs'[Owner]
    BY <1>3, <2>1 DEF Owed
  <2>2. CASE WrapFor(x) \notin jobs'[Owner]
    <3>1. WrapStart(Owner, x)
      BY <1>1, <1>5, <2>2, JobsGo DEF WrapFor, Do
    <3>2. Holds(held[Owner]) # {}
      BY <1>3 DEF Holds
    <3>3. wrapping' = [wrapping EXCEPT ![Owner].pc = "next", ![Owner].for = x] /\ w.pc = "idle"
      BY <3>1, <3>2 DEF WrapStart
    <3>4. w.tried = {}
      BY <1>1, <1>2, <3>3 DEF WrapsAreForOthers
    <3>5. wrapping'[Owner].pc = "next" /\ wrapping'[Owner].for = x /\ wrapping'[Owner].tried = {}
      BY <1>1, <3>3, <3>4 DEF Wrapping
    <3>6. QED
      BY <1>3, <3>5 DEF Owed
  <2>3. QED
    BY <2>1, <2>2
<1>6. CASE /\ w.pc # "idle" /\ w.for = x
           /\ e \notin w.tried \/ (w.pc = "checked" /\ w.up.epoch = e)
  <2>1. CASE /\ wrapping'[Owner].pc = w.pc /\ wrapping'[Owner].for = w.for
             /\ wrapping'[Owner].tried = w.tried /\ wrapping'[Owner].up = w.up
    BY <1>3, <1>6, <2>1 DEF Owed
  <2>2. ASSUME NEW y \in Users, WrapStart(Owner, y)
        PROVE  FALSE
    BY <1>6, <2>2 DEF WrapStart
  <2>3. CASE WrapNext(Owner)
    <3> DEFINE Request(f) == [epoch |-> f, to |-> {w.for}, key |-> Wrapped(Owner)[f],
                              rotating |-> f = current + 1]
    <3>1. Wrapped(Owner) = held[Owner] /\ e \notin w.tried
      BY <1>2, <1>6, <2>3 DEF WrapsAreForOthers, Wrapped, WrapNext
    <3>2. e \in Holds(Wrapped(Owner)) \ w.tried
      BY <1>3, <3>1 DEF Holds
    <3>3. PICK f \in Epoch : wrapping' = [wrapping EXCEPT
                   ![Owner].pc = IF Accepted(Owner, Request(f)) THEN "checked" ELSE "next",
                   ![Owner].tried = @ \cup {f}, ![Owner].up = Request(f)]
      BY <2>3, <3>2 DEF WrapNext, Holds
    <3>4. /\ wrapping'[Owner].pc = (IF Accepted(Owner, Request(f)) THEN "checked" ELSE "next")
          /\ wrapping'[Owner].for = x /\ wrapping'[Owner].tried = w.tried \cup {f}
          /\ wrapping'[Owner].up = Request(f)
      BY <1>1, <1>6, <3>3 DEF Wrapping
    <3>5. CASE f # e
      <4>1. e \notin wrapping'[Owner].tried /\ wrapping'[Owner].pc # "idle"
        BY <3>1, <3>4, <3>5
      <4>2. QED
        BY <1>3, <3>4, <4>1 DEF Owed
    <3>6. CASE f = e
      <4>1. Accepted(Owner, Request(e))
        BY <1>1 DEF Accepted
      <4>2. wrapping'[Owner].pc = "checked" /\ wrapping'[Owner].up.epoch = e
        BY <3>4, <3>6, <4>1
      <4>3. QED
        BY <1>3, <3>4, <4>2 DEF Owed
    <3>7. QED
      BY <3>5, <3>6
  <2>4. CASE WrapInsert(Owner)
    <3>1. w.pc = "checked" /\ w.up.to = {x} /\ x \in member
      BY <1>1, <1>2, <1>6, <2>4 DEF WrapInsert, WrapsAreForOthers
    <3>2. CASE w.up.epoch = e
      <4>1. wraps' = Inserted(w.up, w.up.to)
        BY <2>4, <3>1 DEF WrapInsert, Commit, Abort
      <4>2. w.up.key # NoKey
        BY <1>1, <3>1, KeysDiffer DEF KeysInv, KeysAreFiled, Belongs, OfEpoch
      <4>3. QED
        BY <1>1, <3>1, <3>2, <4>1, <4>2, InsertedReaches
    <3>3. CASE w.up.epoch # e
      <4>1. wrapping'[Owner].pc = "next" /\ wrapping'[Owner].for = x /\ wrapping'[Owner].tried = w.tried
        BY <1>1, <1>6, <2>4 DEF WrapInsert, Wrapping
      <4>2. QED
        BY <1>3, <1>6, <3>3, <4>1 DEF Owed
    <3>4. QED
      BY <3>2, <3>3
  <2>5. ~ DropSpace(Owner)
    BY <1>1 DEF DropSpace, OwnerShowsSpace
  <2>6. QED
    BY <1>1, <2>1, <2>2, <2>3, <2>4, <2>5, WrappingMoves
<1>7. QED
  BY <1>4, <1>5, <1>6 DEF Owed

LEMMA WrapsOwedStep ==
  ASSUME GivenInv, [Next]_vars, ~ Collided', drops = 0
  PROVE  WrapsAreOwed'
<1> SUFFICES ASSUME NEW x \in Users, NEW e \in Epoch, Stays(x)', e <= current', ~ RotationFailed(e)'
             PROVE  wraps'[x][e] # NoKey \/ Owed(x, e)'
  BY DEF WrapsAreOwed
<1>1. /\ wraps \in [Users -> Row] /\ current \in Nat /\ e \in Nat /\ KeysInv
      /\ \A r \in Removals : removal[r].up \in Upload
  BY GivenGives, BoundsAreNat DEF Epoch
<1>2. ~ Collided /\ OwnerHolds /\ EpochMovesOn /\ WrapsAreOwed /\ online = Users
  BY CollidedStays, GivenGives DEF GivenInv, Unlost
<1>3. CASE AcceptInvite(x)
  <2>1. /\ current' = current /\ held' = held /\ removal' = removal /\ x \in joining'
    BY <1>3 DEF AcceptInvite, client, calls
  <2>2. ~ RotationFailed(e)
    BY EndsStay
  <2>3. ASSUME NEW r \in Removals, removal[r].pc = "answered"
        PROVE  FALSE
    BY <1>3, <2>3 DEF AcceptInvite, Stays
  <2>4. held[Owner][e] # NoKey
    BY <1>2, <2>1, <2>2, <2>3 DEF OwnerHolds
  <2>5. QED
    BY <2>1, <2>4 DEF Owed
<1>4. CASE Stays(x) /\ e <= current
  <2>1. wraps[x][e] # NoKey \/ Owed(x, e)
    BY <1>2, <1>4, EndsStay DEF WrapsAreOwed
  <2>2. CASE wraps[x][e] # NoKey
    BY <1>4, <2>2, WrapStays DEF Stays
  <2>3. CASE Owed(x, e)
    BY <1>2, <1>4, <2>3, OwedStep
  <2>4. QED
    BY <2>1, <2>2, <2>3
<1>5. CASE Stays(x) /\ ~ (e <= current)
  <2>1. e = current' /\ current' # current
    BY <1>1, <1>5, EpochMovesStep
  <2>2. ASSUME NEW r \in Removals, RotationInsert(r), Commit(removal[r].up),
               current' = removal[r].up.epoch
        PROVE  wraps'[x][e] # NoKey
    <3>1. x \in removal[r].up.to /\ removal[r].up.key # NoKey
      BY <1>5, <2>2, InsertEnds, KeysDiffer DEF GivenInv, RotationsReach, RotationInsert
    <3>2. wraps' = Inserted(removal[r].up, removal[r].up.to)
      BY <2>2 DEF Commit
    <3>3. QED
      BY <1>1, <2>1, <2>2, <3>1, <3>2, InsertedReaches
  <2>3. ASSUME NEW u \in Users, WrapInsert(u), wrapping[u].up.rotating,
               current' = wrapping[u].up.epoch
        PROVE  FALSE
    BY <1>2, <2>1, <2>3, EndsStay DEF EpochMovesOn, WrapInsert
  <2>4. QED
    BY <2>1, <2>2, <2>3, CurrentMoves
<1>6. QED
  BY <1>3, <1>4, <1>5, StaysBefore

(* Work that is begun brings what is wrapped by then. *)
LEMMA ComingStep ==
  ASSUME GivenInv, [Next]_vars, NEW x \in Users, NEW e \in Epoch,
         Stays(x), wraps[x][e] # NoKey, Coming(x, e)
  PROVE  Coming(x, e)'
<1>1. /\ held \in [Users -> Row] /\ answers \in [Users -> SUBSET Answer]
      /\ jobs \in [Users -> SUBSET Job] /\ x \in member
  BY GivenGives DEF Stays
<1>2. CASE held[x][e] # NoKey
  <2>1. Do("dropped") \notin jobs[x]
    BY DEF GivenInv, DroppedAreTargeted, Stays
  <2>2. QED
    BY <1>2, <2>1, HeldStays DEF Coming
<1>3. ASSUME NEW k \in {"load", "open"}, Do(k) \in jobs[x]
      PROVE  Coming(x, e)'
  <2>1. CASE Do(k) \in jobs'[x]
    BY <2>1 DEF Coming
  <2>2. CASE Do(k) \notin jobs'[x]
    <3>1. FetchKeys(x, k)
      BY <1>3, <2>2, JobsGo DEF Do, WrapFor
    <3>2. [current |-> current, row |-> wraps[x], opens |-> k = "open"] \in answers'[x]
      BY <1>1, <3>1 DEF FetchKeys
    <3>3. QED
      BY <3>2 DEF Coming
  <2>3. QED
    BY <2>1, <2>2
<1>4. ASSUME NEW a \in answers[x], a.row[e] # NoKey
      PROVE  Coming(x, e)'
  <2>1. CASE a \in answers'[x]
    BY <1>4, <2>1 DEF Coming
  <2>2. CASE a \notin answers'[x]
    <3>1. LoadKeys(x, a)
      <4>1. ASSUME NEW u \in Users, NEW b \in answers[u], LoadKeys(u, b)
            PROVE  u = x /\ b = a
        BY <1>1, <2>2, <4>1 DEF LoadKeys
      <4>2. ASSUME NEW u \in Users, NEW k \in {"load", "open"}, FetchKeys(u, k)
            PROVE  FALSE
        BY <1>1, <2>2, <4>2 DEF FetchKeys
      <4>3. ASSUME Next, ~ \E u \in Users : \/ \E b \in answers[u] : LoadKeys(u, b)
                                            \/ \E k \in {"load", "open"} : FetchKeys(u, k)
            PROVE  answers' = answers
        BY <4>3, StepCases DEF RemoveMember, FanoutRemoved, DeleteMember, ListRemaining, Rotate,
           RotationCheck, RotationInsert, RotationDone, RemovalFails, client, AcceptInvite,
           AnnounceJoin, WrapStart, WrapNext, WrapInsert, DropSpace, Disconnect, Reconnect
      <4>4. CASE UNCHANGED vars
        BY <2>2, <4>4 DEF vars, client
      <4>5. QED
        BY <2>2, <4>1, <4>2, <4>3, <4>4
    <3>2. held' = [held EXCEPT ![x] = [f \in Epoch |-> IF @[f] = NoKey THEN a.row[f] ELSE @[f]]]
      BY <3>1 DEF LoadKeys
    <3>3. held'[x][e] # NoKey
      BY <1>1, <1>4, <3>2
    <3>4. QED
      BY <3>3 DEF Coming
  <2>3. QED
    BY <2>1, <2>2
<1>5. QED
  BY <1>2, <1>3, <1>4 DEF Coming

LEMMA WrapsLoadedStep ==
  ASSUME GivenInv, [Next]_vars, drops = 0
  PROVE  WrapsAreLoaded'
<1> SUFFICES ASSUME NEW x \in Users, NEW e \in Epoch, Stays(x)', wraps'[x][e] # NoKey,
                    ~ RotationFailed(e)'
             PROVE  Coming(x, e)'
  BY DEF WrapsAreLoaded
<1>1. WrapsAreLoaded /\ online = Users /\ wraps \in [Users -> Row]
  BY GivenGives DEF GivenInv, Unlost
<1>2. ASSUME AcceptInvite(x), x \notin member
      PROVE  FALSE
  BY <1>2 DEF AcceptInvite, GivenInv, WrapsOfMembersOnly, Holds
<1>3. CASE Stays(x) /\ wraps[x][e] # NoKey
  BY <1>1, <1>3, EndsStay, ComingStep DEF WrapsAreLoaded
<1>4. CASE Stays(x) /\ wraps[x][e] = NoKey
  <2>1. ASSUME NEW S, x \in S, jobs' = Notified(S, Do("load"))
        PROVE  Coming(x, e)'
    BY <1>1, <2>1 DEF Notified, Coming
  <2>2. ASSUME NEW r \in Removals, RotationInsert(r), removal[r].up.epoch = e, x \in removal[r].up.to
        PROVE  Coming(x, e)'
    BY <2>1, <2>2, InsertEnds
  <2>3. ASSUME NEW u \in Users, WrapInsert(u), x \in wrapping[u].up.to
        PROVE  Coming(x, e)'
    <3>1. wrapping[u].up.to = {x} /\ x \in member
      BY <1>4, <2>3 DEF GivenInv, WrapsAreForOthers, WrapInsert, Stays
    <3>2. jobs' = Notified(wrapping[u].up.to, Do("load"))
      BY <2>3, <3>1 DEF WrapInsert, Abort
    <3>3. QED
      BY <2>1, <2>3, <3>2
  <2>4. QED
    BY <1>4, <2>2, <2>3, WrapsCome
<1>5. QED
  BY <1>2, <1>3, <1>4, StaysBefore

LEMMA UnlostStep ==
  ASSUME GivenInv, [Next]_vars
  PROVE  Unlost' /\ (drops' = 0 => drops = 0)
<1>1. drops \in Nat /\ online \subseteq Users /\ (drops = 0 => online = Users)
  BY GivenGives, BoundsAreNat DEF TypeOK, GivenInv, Unlost
<1>2. ASSUME NEW r \in Removals, RemovalFails(r)
      PROVE  drops' = drops + 1
  BY <1>2 DEF RemovalFails
<1>3. ASSUME NEW u \in Users, Disconnect(u)
      PROVE  drops' = drops + 1
  BY <1>3 DEF Disconnect
<1>4. ASSUME NEW u \in Users, Reconnect(u)
      PROVE  drops' = drops /\ online' = online \cup {u}
  BY <1>4 DEF Reconnect, bounds
<1>5. ASSUME Next, ~ \E r \in Removals : RemovalFails(r),
             ~ \E u \in Users : Disconnect(u) \/ Reconnect(u)
      PROVE  drops' = drops /\ online' = online
  BY <1>5, StepCases DEF RemoveMember, FanoutRemoved, DeleteMember, ListRemaining, Rotate,
     RotationCheck, RotationInsert, RotationDone, client, bounds, AcceptInvite,
     AnnounceJoin, WrapStart, WrapNext, WrapInsert, FetchKeys, LoadKeys, DropSpace
<1>6. CASE UNCHANGED vars
  BY <1>1, <1>6 DEF vars, client, bounds, Unlost
<1>7. CASE Next
  BY <1>1, <1>2, <1>3, <1>4, <1>5, <1>7 DEF Unlost
<1>8. QED
  BY <1>6, <1>7

LEMMA GivenInit == Init => GivenInv
<1> SUFFICES ASSUME Init PROVE GivenInv
  OBVIOUS
<1>1. Owner \in Users /\ KeysInv /\ wraps \in [Users -> Row]
  BY OwnerIsMember, KeysInit, KeysInvGives
<1>2. \A x \in Users, e \in Epoch : wraps[x][e] # NoKey => e = 1 /\ x \in InitMembers
  BY BoundsAreNat DEF Init, Empty, Epoch
<1>3. \A x \in InitMembers : wraps[x][1] # NoKey /\ held[x] = wraps[x] /\ x \in Users
  BY OwnerIsMember, KeysDiffer, BoundsAreNat DEF Init, Empty, Epoch
<1>4. WrapsOfMembersOnly
  BY <1>2 DEF Init, WrapsOfMembersOnly, Holds
<1>5. DroppedAreTargeted /\ RotationsReach /\ Unlost
  BY DEF Init, DroppedAreTargeted, RotationsReach, Unlost
<1>6. EpochsAreRotated
  BY <1>1, <1>2 DEF EpochsAreRotated
<1>7. WrapsAreForOthers
  BY <1>1, OwnerIsMember DEF Init, WrapsAreForOthers, NotWrapping
<1>8. EpochMovesOn
  BY DEF Init, EpochMovesOn, NotWrapping
<1>9. \A e \in Epoch : e <= current => e = 1
  BY DEF Init, Epoch
<1>10. OwnerHolds
  BY <1>3, <1>9, OwnerIsMember DEF OwnerHolds
<1>11. WrapsAreOwed
  BY <1>3, <1>9 DEF WrapsAreOwed, Stays, Init
<1>12. WrapsAreLoaded
  BY <1>2, <1>3 DEF WrapsAreLoaded, Coming, Init
<1>13. RemovedInv
  <2>1. RemovedAreBehind
    BY KeysDiffer DEF Init, RemovedAreBehind, NoUpload
  <2>2. TargetsAreChosen
    BY DEF Init, TargetsAreChosen
  <2>3. QED
    BY <1>1, <2>1, <2>2 DEF RemovedInv
<1>14. QED
  BY <1>4, <1>5, <1>6, <1>7, <1>8, <1>10, <1>11, <1>12, <1>13 DEF GivenInv

LEMMA GivenHold == Spec => []GivenInv
<1>1. GivenInv /\ [Next]_vars /\ RemovedInv' /\ WrapsOfMembersOnly' => GivenInv'
  <2> SUFFICES ASSUME GivenInv, [Next]_vars, RemovedInv', WrapsOfMembersOnly' PROVE GivenInv'
    OBVIOUS
  <2>1. ~ Collided' => EpochMovesOn' /\ OwnerHolds'
    BY EpochMovesStep, OwnerHoldsStep
  <2>2. drops' = 0 => WrapsAreLoaded' /\ (~ Collided' => WrapsAreOwed')
    BY UnlostStep, WrapsLoadedStep, WrapsOwedStep
  <2>3. QED
    BY <2>1, <2>2, DroppedStep, RotationsReachStep, EpochsRotatedStep, ForOthersStep, UnlostStep
       DEF GivenInv
<1>2. QED
  BY <1>1, GivenInit, RemovedHold, WrapsAreMembers, PTL DEF Spec

(* Once nothing is under way, and unless a socket or a call was lost or    *)
(* two removals collided, every member holds the key of every epoch but    *)
(* for those it was left out of (removeMember, wrapKeysFor, upload_keys,   *)
(* loadSpaceKeys).                                                         *)
THEOREM QuietMembersHoldKeys == Spec => []QuietHasKeys
<1>1. GivenInv => QuietHasKeys
  <2> SUFFICES ASSUME GivenInv, Quiet, drops = 0, ~ Collided,
                      NEW x \in member, NEW e \in 1 .. current, ~ LeftOut(x, e)
               PROVE  held[x][e] # NoKey
    BY DEF QuietHasKeys
  <2>1. x \in Users /\ e \in Epoch /\ e <= current /\ Owner \in Users
    BY GivenGives, BoundsAreNat DEF Epoch
  <2>2. Stays(x) /\ ~ RotationFailed(e)
    BY DEF LeftOut, Stays
  <2>3. ~ Owed(x, e)
    BY <2>1 DEF Quiet, Owed
  <2>4. wraps[x][e] # NoKey
    BY <2>1, <2>2, <2>3 DEF GivenInv, WrapsAreOwed
  <2>5. Coming(x, e)
    BY <2>1, <2>2, <2>4 DEF GivenInv, WrapsAreLoaded
  <2>6. QED
    BY <2>1, <2>5 DEF Quiet, Coming
<1>2. QED
  BY <1>1, GivenHold, PTL

-----------------------------------------------------------------------------
(* Into whose reach a key comes.  The keys of a user lie in six places; a  *)
(* step moves them between these, adds the fresh key of a rotation, or     *)
(* stores one key for members.                                             *)
Underway == {"upload", "checked", "answered"}

(* What is used of the invariant here. *)
LEMMA FlowGives ==
  ASSUME KeysInv, NEW u \in Users
  PROVE  /\ held[u] \in Row /\ wraps[u] \in Row /\ wrapping[u] \in Wrapping
         /\ wrapping[u].kept \in Row /\ answers[u] \subseteq Answer
         /\ \A a \in answers[u] : a.row \in Row
         /\ wrapping[u].pc = "checked" =>
              wrapping[u].up.key \in Key /\ wrapping[u].up \in Upload /\ wrapping[u].up.epoch \in Epoch
<1>1. /\ held[u] \in Row /\ wraps[u] \in Row /\ wrapping[u] \in Wrapping
      /\ wrapping[u].kept \in Row /\ answers[u] \subseteq Answer /\ wrapping[u].up \in Upload
  BY KeysInvGives DEF Wrapping
<1>2. \A a \in answers[u] : a.row \in Row
  BY <1>1 DEF Answer
<1>3. wrapping[u].pc = "checked" => wrapping[u].up.key \in Key /\ wrapping[u].up.epoch \in Epoch
  BY KeysInvGives DEF KeysInv, KeysAreFiled, Belongs, OfEpoch, Key, TypeInv, RequestsInEpoch
<1>4. QED
  BY <1>1, <1>2, <1>3

LEMMA ReachHas ==
  ASSUME NEW u \in Users
  PROVE  /\ \A e \in Epoch : /\ held[u][e] # NoKey => held[u][e] \in Reach(u)
                             /\ wraps[u][e] # NoKey => wraps[u][e] \in Reach(u)
                             /\ wrapping[u].kept[e] # NoKey => wrapping[u].kept[e] \in Reach(u)
                             /\ \A a \in answers[u] : a.row[e] # NoKey => a.row[e] \in Reach(u)
         /\ wrapping[u].pc = "checked" => wrapping[u].up.key \in Reach(u)
         /\ u = Owner => \A r \in Removals : removal[r].pc \in Underway => r \in Reach(u)
<1>1. \A row : \A e \in Epoch : row[e] # NoKey => row[e] \in RowKeys(row)
  BY DEF RowKeys
<1>2. /\ RowKeys(held[u]) \subseteq Reach(u) /\ RowKeys(wraps[u]) \subseteq Reach(u)
      /\ RowKeys(wrapping[u].kept) \subseteq Reach(u)
      /\ LoadKeysOf(u) \subseteq Reach(u) /\ WrapKeysOf(u) \subseteq Reach(u)
      /\ RotationKeysOf(u) \subseteq Reach(u)
  BY DEF Reach
<1>3. \A a \in answers[u] : RowKeys(a.row) \subseteq LoadKeysOf(u)
  BY DEF LoadKeysOf
<1>4. wrapping[u].pc = "checked" => wrapping[u].up.key \in WrapKeysOf(u)
  BY DEF WrapKeysOf
<1>5. u = Owner => \A r \in Removals : removal[r].pc \in Underway => r \in RotationKeysOf(u)
  BY DEF RotationKeysOf, Underway
<1>6. QED
  BY <1>1, <1>2, <1>3, <1>4, <1>5

(* A user's reach grows by X at most, when what is in the six places was   *)
(* in its reach before or is in X.                                         *)
LEMMA ReachGrows ==
  ASSUME NEW u \in Users, NEW X,
         \A e \in Epoch : /\ held'[u][e] \in Reach(u) \cup X \cup {NoKey}
                          /\ wraps'[u][e] \in Reach(u) \cup X \cup {NoKey}
                          /\ wrapping'[u].kept[e] \in Reach(u) \cup X \cup {NoKey}
                          /\ \A a \in answers'[u] : a.row[e] \in Reach(u) \cup X \cup {NoKey},
         wrapping'[u].pc = "checked" => wrapping'[u].up.key \in Reach(u) \cup X,
         u = Owner => \A r \in Removals : removal'[r].pc \in Underway => r \in Reach(u) \cup X
  PROVE  Reach(u)' \subseteq Reach(u) \cup X
<1>1. RowKeys(held[u])' \subseteq Reach(u) \cup X
  BY DEF RowKeys
<1>2. RowKeys(wraps[u])' \subseteq Reach(u) \cup X
  BY DEF RowKeys
<1>3. RowKeys(wrapping[u].kept)' \subseteq Reach(u) \cup X
  BY DEF RowKeys
<1>4. LoadKeysOf(u)' \subseteq Reach(u) \cup X
  BY DEF LoadKeysOf, RowKeys
<1>5. WrapKeysOf(u)' \subseteq Reach(u) \cup X
  BY DEF WrapKeysOf
<1>6. RotationKeysOf(u)' \subseteq Reach(u) \cup X
  BY DEF RotationKeysOf, Underway
<1>7. QED
  BY <1>1, <1>2, <1>3, <1>4, <1>5, <1>6 DEF Reach

(* Nothing but keys is in anyone's reach. *)
LEMMA ReachIsKeys == KeysInv => [u \in Users |-> Reach(u)] \in [Users -> SUBSET Key]
<1> SUFFICES ASSUME KeysInv, NEW u \in Users PROVE Reach(u) \subseteq Key
  OBVIOUS
<1>1. \A row \in Row : RowKeys(row) \subseteq Key
  BY DEF Row, RowKeys
<1>2. LoadKeysOf(u) \subseteq Key
  BY <1>1, FlowGives DEF LoadKeysOf
<1>3. WrapKeysOf(u) \subseteq Key
  BY FlowGives DEF WrapKeysOf
<1>4. RotationKeysOf(u) \subseteq Key
  BY DEF RotationKeysOf, Key
<1>5. QED
  BY <1>1, <1>2, <1>3, <1>4, FlowGives DEF Reach

(* A key is fresh until the rotation that makes it asks to upload it. *)
LEMMA FreshIsUnknown ==
  ASSUME KeysInv, NEW r \in Removals, removal[r].pc = "listed", NEW u \in Users
  PROVE  r \notin Reach(u)
<1>1. \A e : ~ OfEpoch(r, e)
  BY KeysDiffer DEF OfEpoch, KeysInv, RequestsAreFiled
<1>2. \A row : Filed(row) => r \notin RowKeys(row)
  BY <1>1 DEF Filed, RowKeys, Belongs
<1>3. r \notin LoadKeysOf(u)
  BY <1>2 DEF KeysInv, KeysAreFiled, LoadKeysOf
<1>4. r \notin WrapKeysOf(u)
  BY <1>1 DEF KeysInv, KeysAreFiled, Belongs, WrapKeysOf
<1>5. r \notin RotationKeysOf(u)
  BY DEF RotationKeysOf
<1>6. r \notin RowKeys(held[u]) \cup RowKeys(wraps[u]) \cup RowKeys(wrapping[u].kept)
  BY <1>2 DEF KeysInv, KeysAreFiled
<1>7. QED
  BY <1>3, <1>4, <1>5, <1>6 DEF Reach

(* The steps of the abstract flow, from what happens to each reach. *)
LEMMA FlowMoves ==
  ASSUME KeysInv, KeysInv'
  PROVE  /\ member' = member /\ (\A u \in Users : Reach(u)' \subseteq Reach(u)) => Flow!Next
         /\ \A x \in Users \ {Owner} :
              member' = member \ {x} /\ (\A u \in Users : Reach(u)' \subseteq Reach(u)) => Flow!Next
         /\ \A x \in Users :
              member' = member \cup {x} /\ (\A u \in Users : Reach(u)' = Reach(u)) => Flow!Next
         /\ \A k \in Key :
              /\ \A u \in Users : k \notin Reach(u)
              /\ member' = member
              /\ \A u \in Users : Reach(u)' \subseteq Reach(u) \cup {j \in {k} : u = Owner}
              => Flow!Next
         /\ \A k \in Key, S \in SUBSET member :
              /\ \E u \in Users : k \in Reach(u)
              /\ member' = member
              /\ \A u \in Users : Reach(u)' \subseteq Reach(u) \cup {j \in {k} : u \in S}
              => Flow!Next
<1> DEFINE knows == [u \in Users |-> Reach(u)]
<1>1. knows \in [Users -> SUBSET Key]
  BY ReachIsKeys
<1>2. ([u \in Users |-> Reach(u)] \in [Users -> SUBSET Key])'
  BY ReachIsKeys, PTL
<1>3. knows' \in [Users -> SUBSET Key]
  BY <1>2
<1>4. ASSUME member' = member, \A u \in Users : Reach(u)' \subseteq Reach(u)
      PROVE  Flow!Next
  BY <1>1, <1>3, <1>4 DEF Flow!Next, Flow!Forget, Flow!Within, Key
<1>5. ASSUME NEW x \in Users \ {Owner}, member' = member \ {x},
             \A u \in Users : Reach(u)' \subseteq Reach(u)
      PROVE  Flow!Next
  <2>1. Flow!Remove(x)
    BY <1>1, <1>3, <1>5 DEF Flow!Remove, Flow!Within, Key
  <2>2. QED
    BY <2>1 DEF Flow!Next
<1>6. ASSUME NEW x \in Users, member' = member \cup {x}, \A u \in Users : Reach(u)' = Reach(u)
      PROVE  Flow!Next
  <2>1. Flow!Join(x)
    BY <1>6 DEF Flow!Join
  <2>2. QED
    BY <2>1 DEF Flow!Next
<1>7. ASSUME NEW k \in Key, \A u \in Users : k \notin Reach(u), member' = member,
             \A u \in Users : Reach(u)' \subseteq Reach(u) \cup {j \in {k} : u = Owner}
      PROVE  Flow!Next
  <2>1. \A u \in Users : knows'[u] \subseteq [knows EXCEPT ![Owner] = @ \cup {k}][u]
    BY <1>7
  <2>2. Flow!Make(k)
    BY <1>3, <1>7, <2>1 DEF Flow!Make, Flow!Within, Key
  <2>3. QED
    BY <2>2 DEF Flow!Next, Key
<1>8. ASSUME NEW k \in Key, NEW S \in SUBSET member, \E u \in Users : k \in Reach(u), member' = member,
             \A u \in Users : Reach(u)' \subseteq Reach(u) \cup {j \in {k} : u \in S}
      PROVE  Flow!Next
  <2>1. \A u \in Users : knows'[u] \subseteq IF u \in S THEN knows[u] \cup {k} ELSE knows[u]
    BY <1>8
  <2>2. Flow!Give(k, S)
    BY <1>3, <1>8, <2>1 DEF Flow!Give, Flow!Within, Key
  <2>3. S \in SUBSET Users
    BY KeysInvGives
  <2>4. QED
    BY <2>2, <2>3 DEF Flow!Next, Key
<1>9. QED
  BY <1>4, <1>5, <1>6, <1>7, <1>8

(* Nothing comes into reach when only removals move, and none gets a key. *)
LEMMA ReachStays ==
  ASSUME held' = held, wraps' = wraps, answers' = answers, wrapping' = wrapping,
         \A r \in Removals : removal'[r].pc \in Underway => removal[r].pc \in Underway
  PROVE  \A u \in Users : Reach(u)' \subseteq Reach(u)
<1> SUFFICES ASSUME NEW u \in Users PROVE Reach(u)' \subseteq Reach(u) \cup {}
  OBVIOUS
<1>1. QED
  BY ReachHas, ReachGrows

(* An upload stores its key for members. *)
LEMMA InsertGives ==
  ASSUME KeysInv, NEW up \in Upload, up.epoch \in Epoch, Commit(up) \/ Abort(up)
  PROVE  \E S \in SUBSET member : \A u \in Users, e \in Epoch :
           wraps'[u][e] = wraps[u][e] \/ (u \in S /\ wraps'[u][e] = up.key)
<1>1. PICK S \in SUBSET member : wraps' = Inserted(up, S)
  BY DEF Commit, Abort
<1>2. \A u \in Users, e \in Epoch : wraps'[u][e] = wraps[u][e] \/ (u \in S /\ wraps'[u][e] = up.key)
  BY <1>1, FlowGives DEF Inserted, Row
<1>3. QED
  BY <1>2

(* The owner's calls: removals, and the rotations that make and upload keys. *)
LEMMA RemovalFlows ==
  ASSUME KeysInv, KeysInv', [Next]_vars, NEW r \in Removals,
         \/ \E x \in Users : RemoveMember(r, x)
         \/ FanoutRemoved(r) \/ DeleteMember(r) \/ ListRemaining(r) \/ Rotate(r)
         \/ RotationCheck(r) \/ RotationInsert(r) \/ RotationDone(r) \/ RemovalFails(r)
  PROVE  Flow!Next
<1>1. removal \in [Removals -> Removal] /\ removal[r] \in Removal /\ removal[r].up \in Upload
  BY KeysInvGives DEF Removal
<1>2. r \in Key /\ Owner \in Users
  BY KeysInvGives DEF Key
<1>3. CASE \/ \E x \in Users : RemoveMember(r, x)
           \/ FanoutRemoved(r) \/ ListRemaining(r) \/ RotationCheck(r) \/ RemovalFails(r)
  <2>1. /\ member' = member /\ held' = held /\ wraps' = wraps /\ answers' = answers
        /\ wrapping' = wrapping
    BY <1>3 DEF RemoveMember, FanoutRemoved, ListRemaining, RotationCheck, RemovalFails,
                server, client
  <2>2. \A s \in Removals : removal'[s].pc \in Underway => removal[s].pc \in Underway
    BY <1>1, <1>3 DEF RemoveMember, FanoutRemoved, ListRemaining, RotationCheck, RemovalFails,
                Removed, Removal, Underway
  <2>3. QED
    BY <2>1, <2>2, ReachStays, FlowMoves
<1>4. CASE DeleteMember(r)
  <2> DEFINE x == removal[r].target
  <2>1. x \in Users \ {Owner}
    BY <1>1, <1>4 DEF DeleteMember, Removal, KeysInv, OwnerInv, RotationsAreBacked
  <2>2. /\ member' = member \ {x} /\ held' = held /\ answers' = answers /\ wrapping' = wrapping
        /\ wraps' = [wraps EXCEPT ![x] = Empty]
    BY <1>4 DEF DeleteMember, client
  <2>3. \A s \in Removals : removal'[s].pc \in Underway => removal[s].pc \in Underway
    BY <1>1, <1>4 DEF DeleteMember, Removed, Removal, Underway
  <2>4. ASSUME NEW u \in Users PROVE Reach(u)' \subseteq Reach(u) \cup {}
    <3>1. \A e \in Epoch : wraps'[u][e] = wraps[u][e] \/ wraps'[u][e] = NoKey
      BY <2>2, KeysInvGives DEF Empty
    <3>2. QED
      BY <2>2, <2>3, <3>1, ReachHas, ReachGrows
  <2>5. QED
    BY <2>1, <2>2, <2>4, FlowMoves
<1>5. CASE Rotate(r)
  <2>1. /\ member' = member /\ held' = held /\ wraps' = wraps /\ answers' = answers
        /\ wrapping' = wrapping /\ removal[r].pc = "listed"
    BY <1>5 DEF Rotate, server, client
  <2>2. \A s \in Removals : removal'[s].pc \in Underway => s = r \/ removal[s].pc \in Underway
    BY <1>1, <1>5 DEF Rotate, Removal
  <2>3. ASSUME NEW u \in Users PROVE Reach(u)' \subseteq Reach(u) \cup {j \in {r} : u = Owner}
    BY <2>1, <2>2, ReachHas, ReachGrows
  <2>4. QED
    BY <1>2, <2>1, <2>3, FreshIsUnknown, FlowMoves
<1>6. CASE RotationInsert(r)
  <2>1. /\ member' = member /\ held' = held /\ answers' = answers /\ wrapping' = wrapping
        /\ removal[r].pc = "checked" /\ (Commit(removal[r].up) \/ Abort(removal[r].up))
    BY <1>6 DEF RotationInsert
  <2>2. removal[r].up.epoch \in Epoch /\ removal[r].up.key = r
    BY <2>1 DEF KeysInv, OwnerInv, TypeInv, RequestsInEpoch, RequestsAreFiled
  <2>3. PICK S \in SUBSET member : \A u \in Users, e \in Epoch :
          wraps'[u][e] = wraps[u][e] \/ (u \in S /\ wraps'[u][e] = r)
    BY <1>1, <2>1, <2>2, InsertGives
  <2>4. \A s \in Removals : removal'[s].pc \in Underway => removal[s].pc \in Underway
    BY <1>1, <1>6 DEF RotationInsert, Removed, Removal, Underway
  <2>5. ASSUME NEW u \in Users PROVE Reach(u)' \subseteq Reach(u) \cup {j \in {r} : u \in S}
    <3>1. \A e \in Epoch : wraps'[u][e] = wraps[u][e] \/ wraps'[u][e] \in {j \in {r} : u \in S}
      BY <2>3
    <3>2. QED
      BY <2>1, <2>4, <3>1, ReachHas, ReachGrows
  <2>6. r \in Reach(Owner)
    BY <1>2, <2>1, ReachHas DEF Underway
  <2>7. QED
    BY <1>2, <2>1, <2>3, <2>5, <2>6, FlowMoves
<1>7. CASE RotationDone(r)
  <2> DEFINE f == removal[r].up.epoch
  <2>1. /\ member' = member /\ wraps' = wraps /\ answers' = answers /\ wrapping' = wrapping
        /\ removal[r].pc = "answered"
        /\ held' = [held EXCEPT ![Owner][f] = removal[r].up.key]
    BY <1>7 DEF RotationDone, server
  <2>2. f \in Epoch /\ removal[r].up.key = r
    BY <2>1 DEF KeysInv, OwnerInv, TypeInv, RequestsInEpoch, RequestsAreFiled
  <2>3. r \in Reach(Owner)
    BY <1>2, <2>1, ReachHas DEF Underway
  <2>4. \A s \in Removals : removal'[s].pc \in Underway => removal[s].pc \in Underway
    BY <1>1, <1>7 DEF RotationDone, Removed, Removal, Underway
  <2>5. ASSUME NEW u \in Users PROVE Reach(u)' \subseteq Reach(u) \cup {}
    <3>1. \A e \in Epoch : held'[u][e] = held[u][e] \/ held'[u][e] \in Reach(u)
      BY <2>1, <2>2, <2>3, KeysInvGives DEF Row
    <3>2. QED
      BY <2>1, <2>4, <3>1, ReachHas, ReachGrows
  <2>6. QED
    BY <2>1, <2>5, FlowMoves
<1>8. QED
  BY <1>3, <1>4, <1>5, <1>6, <1>7

(* wrapKeysFor asks to upload a key of the client; *)
LEMMA WrappingAsks ==
  ASSUME wrapping \in [Users -> Wrapping], NEW v \in Users,
         (\E x \in Users : WrapStart(v, x)) \/ WrapNext(v), NEW u \in Users
  PROVE  /\ wrapping'[u].kept = wrapping[u].kept \/ wrapping'[u].kept = Empty
         /\ wrapping'[u].pc = "checked" =>
              \/ wrapping[u].pc = "checked" /\ wrapping'[u].up = wrapping[u].up
              \/ \E e \in Holds(Wrapped(u)) : wrapping'[u].up.key = Wrapped(u)[e]
<1> DEFINE Goal == /\ wrapping'[u].kept = wrapping[u].kept \/ wrapping'[u].kept = Empty
                   /\ wrapping'[u].pc = "checked" =>
                        \/ wrapping[u].pc = "checked" /\ wrapping'[u].up = wrapping[u].up
                        \/ \E e \in Holds(Wrapped(u)) : wrapping'[u].up.key = Wrapped(u)[e]
<1>1. wrapping[v] \in Wrapping /\ wrapping[u] \in Wrapping
  OBVIOUS
<1>2. ASSUME NEW x \in Users, WrapStart(v, x) PROVE Goal
  BY <1>1, <1>2 DEF WrapStart, Wrapping
<1>3. CASE WrapNext(v)
  <2> DEFINE Request(e) == [epoch |-> e, to |-> {wrapping[v].for}, key |-> Wrapped(v)[e],
                            rotating |-> e = current + 1]
  <2>1. \/ wrapping' = [wrapping EXCEPT ![v] = NotWrapping(v)]
        \/ \E e \in Holds(Wrapped(v)) \ wrapping[v].tried :
             wrapping' = [wrapping EXCEPT ![v].pc = IF Accepted(v, Request(e)) THEN "checked" ELSE "next",
                                          ![v].tried = @ \cup {e}, ![v].up = Request(e)]
    BY <1>3 DEF WrapNext
  <2>2. CASE wrapping' = [wrapping EXCEPT ![v] = NotWrapping(v)]
    BY <1>1, <2>2 DEF NotWrapping
  <2>3. ASSUME NEW e \in Holds(Wrapped(v)),
               wrapping' = [wrapping EXCEPT ![v].pc = IF Accepted(v, Request(e)) THEN "checked" ELSE "next",
                                            ![v].tried = @ \cup {e}, ![v].up = Request(e)]
        PROVE  Goal
    <3>1. CASE u = v
      <4>1. wrapping'[v].up.key = Wrapped(v)[e] /\ wrapping'[v].kept = wrapping[v].kept
        BY <1>1, <2>3 DEF Wrapping
      <4>2. QED
        BY <3>1, <4>1
    <3>2. CASE u # v
      BY <2>3, <3>2
    <3>3. QED
      BY <3>1, <3>2
  <2>4. QED
    BY <2>1, <2>2, <2>3
<1>4. QED
  BY <1>2, <1>3

(* the insert gives that key to the newcomer, if it is a member by then. *)
LEMMA WrapFlows ==
  ASSUME KeysInv, KeysInv', NEW v \in Users,
         (\E x \in Users : WrapStart(v, x)) \/ WrapNext(v) \/ WrapInsert(v)
  PROVE  Flow!Next
<1>1. wrapping \in [Users -> Wrapping] /\ wrapping[v] \in Wrapping
  BY KeysInvGives
<1>2. CASE (\E x \in Users : WrapStart(v, x)) \/ WrapNext(v)
  <2>1. /\ member' = member /\ held' = held /\ wraps' = wraps /\ answers' = answers
        /\ removal' = removal
    BY <1>2 DEF WrapStart, WrapNext, server, client
  <2>2. ASSUME NEW u \in Users, NEW e \in Epoch
        PROVE  wrapping'[u].kept[e] \in {wrapping[u].kept[e], NoKey}
    BY <1>1, <1>2, WrappingAsks DEF Empty
  <2>3. ASSUME NEW u \in Users, wrapping'[u].pc = "checked"
        PROVE  \/ wrapping[u].pc = "checked" /\ wrapping'[u].up = wrapping[u].up
               \/ \E e \in Holds(Wrapped(u)) : wrapping'[u].up.key = Wrapped(u)[e]
    BY <1>1, <1>2, <2>3, WrappingAsks
  <2>4. ASSUME NEW u \in Users, wrapping'[u].pc = "checked"
        PROVE  wrapping'[u].up.key \in Reach(u)
    BY <2>3, <2>4, ReachHas DEF Wrapped, Holds
  <2>5. ASSUME NEW u \in Users PROVE Reach(u)' \subseteq Reach(u) \cup {}
    <3>1. u = Owner => \A r \in Removals : removal'[r].pc \in Underway => r \in Reach(u)
      BY <2>1, ReachHas
    <3>2. QED
      BY <2>1, <2>2, <2>4, <3>1, ReachHas, ReachGrows
  <2>6. QED
    BY <2>1, <2>5, FlowMoves
<1>3. CASE WrapInsert(v)
  <2> DEFINE k == wrapping[v].up.key
  <2>1. /\ member' = member /\ held' = held /\ answers' = answers /\ removal' = removal
        /\ wrapping' = [wrapping EXCEPT ![v].pc = "next"] /\ wrapping[v].pc = "checked"
        /\ Commit(wrapping[v].up) \/ Abort(wrapping[v].up)
    BY <1>3 DEF WrapInsert
  <2>2. wrapping[v].up \in Upload /\ wrapping[v].up.epoch \in Epoch /\ k \in Key
    BY <2>1, FlowGives
  <2>3. PICK S \in SUBSET member : \A u \in Users, e \in Epoch :
          wraps'[u][e] = wraps[u][e] \/ (u \in S /\ wraps'[u][e] = k)
    BY <2>1, <2>2, InsertGives
  <2>4. \A u \in Users : /\ wrapping'[u].kept = wrapping[u].kept
                         /\ wrapping'[u].pc = "checked" =>
                              wrapping[u].pc = "checked" /\ wrapping'[u].up = wrapping[u].up
    BY <1>1, <2>1 DEF Wrapping
  <2>5. ASSUME NEW u \in Users PROVE Reach(u)' \subseteq Reach(u) \cup {j \in {k} : u \in S}
    <3>1. \A e \in Epoch : wraps'[u][e] = wraps[u][e] \/ wraps'[u][e] \in {j \in {k} : u \in S}
      BY <2>3
    <3>2. u = Owner => \A r \in Removals : removal'[r].pc \in Underway => r \in Reach(u)
      BY <2>1, ReachHas
    <3>3. wrapping'[u].pc = "checked" => wrapping'[u].up.key \in Reach(u)
      BY <2>4, ReachHas
    <3>4. \A e \in Epoch :
            /\ held'[u][e] \in Reach(u) \cup {NoKey} /\ wrapping'[u].kept[e] \in Reach(u) \cup {NoKey}
            /\ wraps'[u][e] \in Reach(u) \cup {j \in {k} : u \in S} \cup {NoKey}
            /\ \A a \in answers'[u] : a.row[e] \in Reach(u) \cup {NoKey}
      BY <2>1, <2>4, <3>1, ReachHas
    <3>5. QED
      BY <3>2, <3>3, <3>4, ReachGrows
  <2>6. k \in Reach(v)
    BY <2>1, ReachHas
  <2>7. QED
    BY <2>1, <2>2, <2>3, <2>5, <2>6, FlowMoves
<1>4. QED
  BY <1>2, <1>3

(* Loads move keys from the table to the client, or drop them. *)
LEMMA LoadFlows ==
  ASSUME KeysInv, KeysInv', NEW v \in Users, LoadStep(v)
  PROVE  Flow!Next
<1>1. /\ held \in [Users -> Row] /\ answers \in [Users -> SUBSET Answer]
      /\ wrapping \in [Users -> Wrapping] /\ wrapping[v] \in Wrapping
  BY KeysInvGives
<1>2. member' = member /\ wraps' = wraps /\ removal' = removal
  BY DEF LoadStep, FetchKeys, LoadKeys, DropSpace, server, calls
<1>3. \A u \in Users : u = Owner => \A r \in Removals : removal'[r].pc \in Underway => r \in Reach(u)
  BY <1>2, ReachHas
<1>4. ASSUME NEW kind \in {"load", "open"}, FetchKeys(v, kind)
      PROVE  \A u \in Users : Reach(u)' \subseteq Reach(u) \cup {}
  <2>1. held' = held /\ wrapping' = wrapping
    BY <1>4 DEF FetchKeys, calls
  <2>2. \A u \in Users : \A a \in answers'[u] : a \in answers[u] \/ a.row = wraps[u]
    BY <1>1, <1>4 DEF FetchKeys
  <2>3. QED
    BY <1>2, <1>3, <2>1, <2>2, ReachHas, ReachGrows
<1>5. ASSUME NEW a \in answers[v], LoadKeys(v, a)
      PROVE  \A u \in Users : Reach(u)' \subseteq Reach(u) \cup {}
  <2>1. wrapping' = wrapping /\ \A u \in Users : answers'[u] \subseteq answers[u]
    BY <1>1, <1>5 DEF LoadKeys, calls
  <2>2. \A u \in Users, e \in Epoch :
          held'[u][e] = held[u][e] \/ (u = v /\ held'[u][e] = a.row[e])
    BY <1>1, <1>5 DEF LoadKeys
  <2>3. QED
    BY <1>2, <1>3, <1>5, <2>1, <2>2, ReachHas, ReachGrows
<1>6. CASE DropSpace(v)
  <2>1. answers' = answers /\ held' = [held EXCEPT ![v] = Empty]
    BY <1>6 DEF DropSpace
  <2>2. \A u \in Users, e \in Epoch : held'[u][e] \in {held[u][e], NoKey}
    BY <1>1, <2>1 DEF Empty
  <2>3. \A u \in Users :
          /\ wrapping'[u].kept = wrapping[u].kept \/ wrapping'[u].kept = Wrapped(u)
          /\ wrapping'[u].pc = wrapping[u].pc /\ wrapping'[u].up = wrapping[u].up
    BY <1>1, <1>6 DEF DropSpace, Wrapping
  <2>4. \A u \in Users, e \in Epoch : Wrapped(u)[e] \in {held[u][e], wrapping[u].kept[e]}
    BY DEF Wrapped
  <2>5. ASSUME NEW u \in Users PROVE Reach(u)' \subseteq Reach(u) \cup {}
    <3>1. \A e \in Epoch : wrapping'[u].kept[e] \in Reach(u) \cup {NoKey}
      BY <2>3, <2>4, ReachHas
    <3>2. wrapping'[u].pc = "checked" => wrapping'[u].up.key \in Reach(u)
      BY <2>3, ReachHas
    <3>3. \A e \in Epoch :
            /\ held'[u][e] \in Reach(u) \cup {NoKey} /\ wraps'[u][e] \in Reach(u) \cup {NoKey}
            /\ \A a \in answers'[u] : a.row[e] \in Reach(u) \cup {NoKey}
      BY <1>2, <2>1, <2>2, ReachHas
    <3>4. QED
      BY <1>3, <3>1, <3>2, <3>3, ReachGrows
  <2>6. QED
    BY <1>2, <2>5, FlowMoves
<1>7. QED
  BY <1>2, <1>4, <1>5, <1>6, FlowMoves DEF LoadStep

(* A key comes only into the reach of members, and only from where it was  *)
(* in reach (spaces.rs, store.svelte.ts).                                  *)
THEOREM KeysFlow == Spec => KeysReachMembersOnly
<1>1. Init => Flow!Init
  <2> SUFFICES ASSUME Init PROVE Flow!Init
    OBVIOUS
  <2>1. ASSUME NEW u \in Users
        PROVE  Reach(u) = IF u \in InitMembers THEN {FirstKey} ELSE {}
    <3>1. /\ wraps[u] = IF u \in InitMembers THEN [Empty EXCEPT ![1] = FirstKey] ELSE Empty
          /\ held[u] = wraps[u] /\ wrapping[u].kept = Empty
      BY DEF Init, NotWrapping
    <3>2. RowKeys(Empty) = {}
      BY DEF RowKeys, Empty
    <3>3. RowKeys([Empty EXCEPT ![1] = FirstKey]) = {FirstKey}
      BY BoundsAreNat, KeysDiffer DEF RowKeys, Empty, Epoch
    <3>4. LoadKeysOf(u) = {} /\ WrapKeysOf(u) = {} /\ RotationKeysOf(u) = {}
      BY DEF Init, LoadKeysOf, WrapKeysOf, RotationKeysOf, NotWrapping
    <3>5. QED
      BY <3>1, <3>2, <3>3, <3>4 DEF Reach
  <2>2. QED
    BY <2>1 DEF Init, Flow!Init
<1>2. KeysInv /\ KeysInv' /\ [Next]_vars => [Flow!Next]_(Flow!vars)
  <2> SUFFICES ASSUME KeysInv, KeysInv', [Next]_vars PROVE [Flow!Next]_(Flow!vars)
    OBVIOUS
  <2>1. ASSUME NEW r \in Removals,
               \/ \E x \in Users : RemoveMember(r, x)
               \/ FanoutRemoved(r) \/ DeleteMember(r) \/ ListRemaining(r) \/ Rotate(r)
               \/ RotationCheck(r) \/ RotationInsert(r) \/ RotationDone(r) \/ RemovalFails(r)
        PROVE  Flow!Next
    BY <2>1, RemovalFlows
  <2>2. ASSUME NEW u \in Users,
               (\E x \in Users : WrapStart(u, x)) \/ WrapNext(u) \/ WrapInsert(u)
        PROVE  Flow!Next
    BY <2>2, WrapFlows
  <2>3. ASSUME NEW u \in Users, LoadStep(u)
        PROVE  Flow!Next
    BY <2>3, LoadFlows
  <2>4. ASSUME NEW u \in Users, AcceptInvite(u)
        PROVE  Flow!Next
    <3>1. member' = member \cup {u} /\ UNCHANGED <<held, wraps, wrapping, answers, removal>>
      BY <2>4 DEF AcceptInvite, client, calls
    <3>2. \A v \in Users : Reach(v)' = Reach(v)
      BY <3>1 DEF Reach, RowKeys, LoadKeysOf, WrapKeysOf, RotationKeysOf
    <3>3. QED
      BY <3>1, <3>2, FlowMoves
  <2>5. ASSUME UNCHANGED <<member, held, wraps, wrapping, answers, removal>>
        PROVE  Flow!Next
    BY <2>5, ReachStays, FlowMoves
  <2>6. ASSUME NEW u \in Users, AnnounceJoin(u) \/ Disconnect(u) \/ Reconnect(u)
        PROVE  Flow!Next
    BY <2>5, <2>6 DEF AnnounceJoin, Disconnect, Reconnect, server, calls
  <2>7. CASE UNCHANGED vars
    BY <2>5, <2>7 DEF vars, server, client, calls
  <2>8. QED
    BY <2>1, <2>2, <2>3, <2>4, <2>6, <2>7, StepCases DEF LoadStep
<1>3. QED
  BY <1>1, <1>2, KeysHold, PTL DEF Spec, KeysReachMembersOnly, Flow!Spec
=============================================================================
