---------------------------- MODULE AccountsProofs ----------------------------
(***************************************************************************)
(* Proofs about Accounts, for every set of accounts and every number of    *)
(* restarts: the types, and that the screens, the index and the keychain   *)
(* agree through every failed call, removal and restart.                   *)
(*                                                                         *)
(* The properties are not inductive: they rest on where each waiting call  *)
(* may be.  AccountsInv adds that, in parts; there is one lemma per part,  *)
(* one step per action that can disturb it.  The refinement of AccountBook *)
(* follows from it, and that bootstrap waits for calls that go forward.    *)
(***************************************************************************)
EXTENDS Accounts, TLAPS

Moving == {"moving", "moved"}
Relogging == {"challenging", "signing", "restoring", "listing", "loading"}
Attaching == {"storing", "stored"} \cup Relogging

(* The loading screen is there until bootstrap has ended; its calls run     *)
(* while it connects, or after one of them was rejected; nothing is shown   *)
(* before it connects, and something is while it does.                     *)
BootFits ==
  /\ phase = "loading" <=> boot # "done"
  /\ booting # {} => boot \in {"connecting", "rejected"}
  /\ boot \in {"start", "migrating"} => \A a \in Account : shown[a] = "absent"
  /\ boot = "connecting" => \E a \in Account : shown[a] # "absent"

(* A call waits where bootstrap or attachConn may have brought it.         *)
StepsFit ==
  \A a \in Account :
    /\ a \in booting => /\ step[a] \in Relogging \cup {"reading"}
                        /\ a \in vault /\ shown[a] # "absent"
    /\ step[a] = "reading" => a \in booting
    /\ step[a] \in Moving => boot = "migrating" /\ vault = {} /\ a \in migrated
    /\ step[a] \notin Moving \cup {"idle"} /\ a \notin booting => boot = "done"

(* One migration at a time.                                                *)
OneMoves == \A a, b \in Account : step[a] \in Moving /\ step[b] \in Moving => a = b

(* An id not drawn yet is nowhere, one that is being registered not shown.  *)
FreshIsNew ==
  \A a \in Account :
    /\ a \in fresh => step[a] = "idle" /\ a \notin vault
    /\ a \in fresh \/ step[a] = "registering" => shown[a] = "absent" /\ a \notin forgotten

(* A removal that waits for the keychain has forgotten all the rest.       *)
RemovalsFit ==
  /\ phase = "loading" => removing = {}
  /\ \A a \in removing : /\ a \in forgotten /\ shown[a] = "absent"
                         /\ a \in vault => "removed_connecting" \in slips[a]

(* While an account connects it has its connection, or was removed.        *)
AttachedOrRemoved ==
  \A a \in Account : step[a] \in Attaching =>
    IF shown[a] = "absent" THEN "removed_connecting" \in slips[a] ELSE a \in conns

(* What the call has written so far is in the keychain.                    *)
SecretsFit ==
  \A a \in Account :
    /\ step[a] = "moved" => secret[a] # "none"
    /\ step[a] = "stored" /\ shown[a] # "absent" => secret[a] # "none"
    /\ step[a] \in {"listing", "loading"} /\ shown[a] # "absent" => secret[a] = "token"

OnlineIsIdle == \A a \in Account : shown[a] = "online" => step[a] = "idle"

(* ForgottenIsGone, made inductive: the calls of a server that was removed  *)
(* while idle stay ended, only requests that were on the way then may bring *)
(* data back, and its secret may be there while it is removed.             *)
GoneStaysGone ==
  \A a \in forgotten : "removed_connecting" \notin slips[a] =>
    /\ a \notin vault \cup conns /\ shown[a] = "absent" /\ step[a] = "idle"
    /\ a \in data \cup asking => "removed_asking" \in slips[a]
    /\ Live(a) => "removed_waiting" \in slips[a]
    /\ secret[a] # "none" /\ a \notin removing => slips[a] \cap {"cut_removing", "not_deleted"} # {}

CallsFit == BootFits /\ StepsFit /\ OneMoves /\ FreshIsNew /\ RemovalsFit /\ AttachedOrRemoved

AccountsInv ==
  /\ TypeOK /\ CallsFit /\ SecretsFit /\ OnlineIsIdle
  /\ StatusIsTrue /\ DeviceAgrees /\ GoneStaysGone /\ LegacyKept

-----------------------------------------------------------------------------
(* Every action keeps the types. *)
LEMMA TypeStep ==
  ASSUME TypeOK, Next
  PROVE  TypeOK'
<1>. USE DEF TypeOK, Secret, Step, Status, Socket, Slip
<1>1. ASSUME NEW a \in Account, MigrateLegacy(a) PROVE TypeOK'
  BY <1>1 DEF MigrateLegacy, Goes, device, server, view
<1>2. ASSUME NEW a \in Account, MoveSecret(a) PROVE TypeOK'
  BY <1>2 DEF MoveSecret, Goes, server, view, history
<1>3. ASSUME NEW a \in Account, MoveIndex(a) PROVE TypeOK'
  BY <1>3 DEF MoveIndex, Goes, server, view, history
<1>4. ASSUME StartEmpty PROVE TypeOK'
  BY <1>4 DEF StartEmpty, device, server, history
<1>5. ASSUME StartConnecting PROVE TypeOK'
  BY <1>5 DEF StartConnecting, device, server, history
<1>6. ASSUME BootDone PROVE TypeOK'
  BY <1>6 DEF BootDone, device, server, history
<1>7. ASSUME NEW a \in Account, SecretMissing(a) PROVE TypeOK'
  BY <1>7 DEF SecretMissing, Goes, Patched, device, server, history
<1>8. ASSUME NEW a \in Account, SecretRead(a) PROVE TypeOK'
  BY <1>8 DEF SecretRead, Goes, device, server, history
<1>9. ASSUME NEW a \in Account, SecretRefused(a) PROVE TypeOK'
  BY <1>9 DEF SecretRefused, device, server, view, history
<1>10. ASSUME NEW a \in Account, AddServer(a) PROVE TypeOK'
  BY <1>10 DEF AddServer, Goes, device, server, view
<1>11. ASSUME NEW a \in Account, Register(a) PROVE TypeOK'
  BY <1>11 DEF Register, Goes, Attach, Upserted, device, history
<1>12. ASSUME NEW a \in Account, ImportServer(a) PROVE TypeOK'
  BY <1>12 DEF ImportServer, Goes, Attach, Upserted, device, server
<1>13. ASSUME NEW a \in Account, StoreSecret(a) PROVE TypeOK'
  BY <1>13 DEF StoreSecret, Goes, server, view, history
<1>14. ASSUME NEW a \in Account, SaveIndex(a) PROVE TypeOK'
  BY <1>14 DEF SaveIndex, Goes, server, view, history
<1>15. ASSUME NEW a \in Account, Challenge(a) PROVE TypeOK'
  BY <1>15 DEF Challenge, Goes, device, view, history
<1>16. ASSUME NEW a \in Account, NonceExpires(a) PROVE TypeOK'
  BY <1>16 DEF NonceExpires, device, calls, view, history
<1>17. ASSUME NEW a \in Account, Login(a) PROVE TypeOK'
  BY <1>17 DEF Login, Goes, device, view, history
<1>18. ASSUME NEW a \in Account, LoginRefused(a) PROVE TypeOK'
  BY <1>18 DEF LoginRefused, Failed, Patched, device, history
<1>19. ASSUME NEW a \in Account, CallFails(a) PROVE TypeOK'
  BY <1>19 DEF CallFails, Failed, Patched, device, history
<1>20. ASSUME NEW a \in Account, StoreToken(a) PROVE TypeOK'
  BY <1>20 DEF StoreToken, Goes, Connected, Patched, server, history
<1>21. ASSUME NEW a \in Account, ListSpaces(a) PROVE TypeOK'
  BY <1>21 DEF ListSpaces, Goes, Connected, Patched, device, server, history
<1>22. ASSUME NEW a \in Account, Load(a) PROVE TypeOK'
  BY <1>22 DEF Load, Connected, Patched, device, server, history
<1>23. ASSUME NEW a \in Account, RemoveServer(a) PROVE TypeOK'
  BY <1>23 DEF RemoveServer, GoesOn, Closed, Upserted, Slipped, server
<1>24. ASSUME NEW a \in Account, SecretDeleted(a) PROVE TypeOK'
  BY <1>24 DEF SecretDeleted, server, history
<1>25. ASSUME NEW a \in Account, DeleteRefused(a) PROVE TypeOK'
  BY <1>25 DEF DeleteRefused, Slipped, device, server, view
<1>26. ASSUME NEW a \in Account, SocketOpen(a) PROVE TypeOK'
  BY <1>26 DEF SocketOpen, SocketMoves, device, server, calls, history
<1>27. ASSUME NEW a \in Account, SocketLost(a) PROVE TypeOK'
  BY <1>27 DEF SocketLost, SocketMoves, device, server, calls, history
<1>28. ASSUME NEW a \in Account, TimerFires(a) PROVE TypeOK'
  BY <1>28 DEF TimerFires, SocketMoves, device, server, calls, history
<1>29. ASSUME NEW a \in Account, Ask(a) PROVE TypeOK'
  BY <1>29 DEF Ask, device, calls, view, history
<1>30. ASSUME NEW a \in Account, Answered(a) PROVE TypeOK'
  BY <1>30 DEF Answered, device, calls, history
<1>31. ASSUME NEW a \in Account, AskFails(a) PROVE TypeOK'
  BY <1>31 DEF AskFails, device, calls, view, history
<1>32. ASSUME Restart PROVE TypeOK'
  <2>1. slips' \in [Account -> SUBSET Slip]
    <3>1. \A a \in Account : /\ {s \in {"cut_storing"} : step[a] \in {"moved", "stored"}} \subseteq Slip
                             /\ {s \in {"cut_removing"} : a \in removing} \subseteq Slip
      BY DEF Slip
    <3>2. \A a \in Account : slips[a] \subseteq Slip
      BY DEF TypeOK
    <3>. QED
      BY <1>32, <3>1, <3>2 DEF Restart
  <2>2. restarts' \in 0 .. MaxRestarts
    BY <1>32, RestartsIsNat DEF Restart, TypeOK
  <2>. QED
    BY <1>32, <2>1, <2>2 DEF Restart, device, server, TypeOK, Step, Status, Socket
<1>33. QED
  BY <1>1, <1>2, <1>3, <1>4, <1>5, <1>6, <1>7, <1>8, <1>9, <1>10, <1>11, <1>12, <1>13,
     <1>14, <1>15, <1>16, <1>17, <1>18, <1>19, <1>20, <1>21, <1>22, <1>23, <1>24, <1>25,
     <1>26, <1>27, <1>28, <1>29, <1>30, <1>31, <1>32
  DEF Next, Boot, Call

(* The screen follows bootstrap. *)
LEMMA BootStep ==
  ASSUME TypeOK, BootFits, StepsFit, RemovalsFit, Next
  PROVE  BootFits'
<1>. USE DEF BootFits, StepsFit, Relogging, Moving, RemovalsFit, TypeOK
<1>1. ASSUME NEW a \in Account, MigrateLegacy(a) PROVE BootFits'
  BY <1>1 DEF MigrateLegacy, Goes, device, server, view
<1>2. ASSUME NEW a \in Account, MoveIndex(a) PROVE BootFits'
  BY <1>2 DEF MoveIndex, Goes, server, view, history
<1>3. ASSUME StartEmpty PROVE BootFits'
  BY <1>3 DEF StartEmpty, device, server, history
<1>4. ASSUME StartConnecting PROVE BootFits'
  BY <1>4 DEF StartConnecting, device, server, history
<1>5. ASSUME BootDone PROVE BootFits'
  BY <1>5 DEF BootDone, device, server, history
<1>6. ASSUME NEW a \in Account, SecretMissing(a) PROVE BootFits'
  BY <1>6 DEF SecretMissing, Goes, Patched, device, server, history
<1>7. ASSUME NEW a \in Account, SecretRefused(a) PROVE BootFits'
  BY <1>7 DEF SecretRefused, device, server, view, history
<1>8. ASSUME NEW a \in Account, Register(a) PROVE BootFits'
  BY <1>8 DEF Register, Goes, Attach, Upserted, device, history
<1>9. ASSUME NEW a \in Account, ImportServer(a) PROVE BootFits'
  BY <1>9 DEF ImportServer, Goes, Attach, Upserted, device, server
<1>10. ASSUME NEW a \in Account, LoginRefused(a) PROVE BootFits'
  BY <1>10 DEF LoginRefused, Failed, Patched, device, history
<1>11. ASSUME NEW a \in Account, CallFails(a) PROVE BootFits'
  BY <1>11 DEF CallFails, Failed, Patched, device, history
<1>12. ASSUME NEW a \in Account, StoreToken(a) PROVE BootFits'
  BY <1>12 DEF StoreToken, Goes, Connected, Patched, server, history
<1>13. ASSUME NEW a \in Account, ListSpaces(a) PROVE BootFits'
  BY <1>13 DEF ListSpaces, Goes, Connected, Patched, device, server, history
<1>14. ASSUME NEW a \in Account, Load(a) PROVE BootFits'
  BY <1>14 DEF Load, Connected, Patched, device, server, history
<1>15. ASSUME NEW a \in Account, RemoveServer(a) PROVE BootFits'
  BY <1>15 DEF RemoveServer, GoesOn, Closed, Upserted, Slipped, server
<1>16. ASSUME NEW a \in Account, SecretDeleted(a) PROVE BootFits'
  BY <1>16 DEF SecretDeleted, server, history
<1>17. ASSUME Restart PROVE BootFits'
  BY <1>17 DEF Restart, device, server
<1>18. QED
  BY <1>1, <1>2, <1>3, <1>4, <1>5, <1>6, <1>7, <1>8, <1>9, <1>10, <1>11, <1>12, <1>13,
     <1>14, <1>15, <1>16, <1>17
  DEF Next, Boot, Call, MoveSecret, SecretRead, AddServer, StoreSecret, SaveIndex,
      Challenge, NonceExpires, Ask, Answered, AskFails, Login, DeleteRefused, SocketOpen,
      SocketLost, TimerFires, Goes, server, view, history, device, calls, Slipped,
      SocketMoves

(* Calls wait where they may. *)
LEMMA StepsStep ==
  ASSUME TypeOK, BootFits, StepsFit, OneMoves, FreshIsNew, Next
  PROVE  StepsFit'
<1>. USE DEF StepsFit, Relogging, Moving, BootFits, OneMoves, FreshIsNew, TypeOK
<1>1. ASSUME NEW a \in Account, MigrateLegacy(a) PROVE StepsFit'
  BY <1>1 DEF MigrateLegacy, Goes, device, server, view
<1>2. ASSUME NEW a \in Account, MoveSecret(a) PROVE StepsFit'
  BY <1>2 DEF MoveSecret, Goes, server, view, history
<1>3. ASSUME NEW a \in Account, MoveIndex(a) PROVE StepsFit'
  BY <1>3 DEF MoveIndex, Goes, server, view, history
<1>4. ASSUME StartEmpty PROVE StepsFit'
  BY <1>4 DEF StartEmpty, device, server, history
<1>5. ASSUME StartConnecting PROVE StepsFit'
  BY <1>5 DEF StartConnecting, device, server, history
<1>6. ASSUME BootDone PROVE StepsFit'
  BY <1>6 DEF BootDone, device, server, history
<1>7. ASSUME NEW a \in Account, SecretMissing(a) PROVE StepsFit'
  BY <1>7 DEF SecretMissing, Goes, Patched, device, server, history
<1>8. ASSUME NEW a \in Account, SecretRead(a) PROVE StepsFit'
  BY <1>8 DEF SecretRead, Goes, device, server, history
<1>9. ASSUME NEW a \in Account, SecretRefused(a) PROVE StepsFit'
  BY <1>9 DEF SecretRefused, device, server, view, history
<1>10. ASSUME NEW a \in Account, AddServer(a) PROVE StepsFit'
  BY <1>10 DEF AddServer, Goes, device, server, view
<1>11. ASSUME NEW a \in Account, Register(a) PROVE StepsFit'
  BY <1>11 DEF Register, Goes, Attach, Upserted, device, history
<1>12. ASSUME NEW a \in Account, ImportServer(a) PROVE StepsFit'
  BY <1>12 DEF ImportServer, Goes, Attach, Upserted, device, server
<1>13. ASSUME NEW a \in Account, StoreSecret(a) PROVE StepsFit'
  BY <1>13 DEF StoreSecret, Goes, server, view, history
<1>14. ASSUME NEW a \in Account, SaveIndex(a) PROVE StepsFit'
  BY <1>14 DEF SaveIndex, Goes, server, view, history
<1>15. ASSUME NEW a \in Account, Challenge(a) PROVE StepsFit'
  BY <1>15 DEF Challenge, Goes, device, view, history
<1>16. ASSUME NEW a \in Account, Login(a) PROVE StepsFit'
  BY <1>16 DEF Login, Goes, device, view, history
<1>17. ASSUME NEW a \in Account, LoginRefused(a) PROVE StepsFit'
  BY <1>17 DEF LoginRefused, Failed, Patched, device, history
<1>18. ASSUME NEW a \in Account, CallFails(a) PROVE StepsFit'
  BY <1>18 DEF CallFails, Failed, Patched, device, history
<1>19. ASSUME NEW a \in Account, StoreToken(a) PROVE StepsFit'
  BY <1>19 DEF StoreToken, Goes, Connected, Patched, server, history
<1>20. ASSUME NEW a \in Account, ListSpaces(a) PROVE StepsFit'
  BY <1>20 DEF ListSpaces, Goes, Connected, Patched, device, server, history
<1>21. ASSUME NEW a \in Account, Load(a) PROVE StepsFit'
  BY <1>21 DEF Load, Connected, Patched, device, server, history
<1>22. ASSUME NEW a \in Account, RemoveServer(a) PROVE StepsFit'
  BY <1>22 DEF RemoveServer, GoesOn, Closed, Upserted, Slipped, server
<1>23. ASSUME Restart PROVE StepsFit'
  BY <1>23 DEF Restart, device, server
<1>24. QED
  BY <1>1, <1>2, <1>3, <1>4, <1>5, <1>6, <1>7, <1>8, <1>9, <1>10, <1>11, <1>12, <1>13,
     <1>14, <1>15, <1>16, <1>17, <1>18, <1>19, <1>20, <1>21, <1>22, <1>23
  DEF Next, Boot, Call, NonceExpires, Ask, Answered, AskFails, SecretDeleted,
      DeleteRefused, SocketOpen, SocketLost, TimerFires, device, calls, view, history,
      server, Slipped, SocketMoves

(* A migration starts when none waits. *)
LEMMA MovesStep ==
  ASSUME TypeOK, StepsFit, OneMoves, Next
  PROVE  OneMoves'
<1>. USE DEF OneMoves, Moving, StepsFit, Relogging, TypeOK
<1>1. ASSUME NEW a \in Account, MigrateLegacy(a) PROVE OneMoves'
  BY <1>1 DEF MigrateLegacy, Goes, device, server, view
<1>2. ASSUME NEW a \in Account, MoveSecret(a) PROVE OneMoves'
  BY <1>2 DEF MoveSecret, Goes, server, view, history
<1>3. ASSUME NEW a \in Account, MoveIndex(a) PROVE OneMoves'
  BY <1>3 DEF MoveIndex, Goes, server, view, history
<1>4. ASSUME StartConnecting PROVE OneMoves'
  BY <1>4 DEF StartConnecting, device, server, history
<1>5. ASSUME NEW a \in Account, SecretMissing(a) PROVE OneMoves'
  BY <1>5 DEF SecretMissing, Goes, Patched, device, server, history
<1>6. ASSUME NEW a \in Account, SecretRead(a) PROVE OneMoves'
  BY <1>6 DEF SecretRead, Goes, device, server, history
<1>7. ASSUME NEW a \in Account, SecretRefused(a) PROVE OneMoves'
  BY <1>7 DEF SecretRefused, device, server, view, history
<1>8. ASSUME NEW a \in Account, AddServer(a) PROVE OneMoves'
  BY <1>8 DEF AddServer, Goes, device, server, view
<1>9. ASSUME NEW a \in Account, Register(a) PROVE OneMoves'
  BY <1>9 DEF Register, Goes, Attach, Upserted, device, history
<1>10. ASSUME NEW a \in Account, ImportServer(a) PROVE OneMoves'
  BY <1>10 DEF ImportServer, Goes, Attach, Upserted, device, server
<1>11. ASSUME NEW a \in Account, StoreSecret(a) PROVE OneMoves'
  BY <1>11 DEF StoreSecret, Goes, server, view, history
<1>12. ASSUME NEW a \in Account, SaveIndex(a) PROVE OneMoves'
  BY <1>12 DEF SaveIndex, Goes, server, view, history
<1>13. ASSUME NEW a \in Account, Challenge(a) PROVE OneMoves'
  BY <1>13 DEF Challenge, Goes, device, view, history
<1>14. ASSUME NEW a \in Account, Login(a) PROVE OneMoves'
  BY <1>14 DEF Login, Goes, device, view, history
<1>15. ASSUME NEW a \in Account, LoginRefused(a) PROVE OneMoves'
  BY <1>15 DEF LoginRefused, Failed, Patched, device, history
<1>16. ASSUME NEW a \in Account, CallFails(a) PROVE OneMoves'
  BY <1>16 DEF CallFails, Failed, Patched, device, history
<1>17. ASSUME NEW a \in Account, StoreToken(a) PROVE OneMoves'
  BY <1>17 DEF StoreToken, Goes, Connected, Patched, server, history
<1>18. ASSUME NEW a \in Account, ListSpaces(a) PROVE OneMoves'
  BY <1>18 DEF ListSpaces, Goes, Connected, Patched, device, server, history
<1>19. ASSUME NEW a \in Account, Load(a) PROVE OneMoves'
  BY <1>19 DEF Load, Connected, Patched, device, server, history
<1>20. ASSUME Restart PROVE OneMoves'
  BY <1>20 DEF Restart, device, server
<1>21. QED
  BY <1>1, <1>2, <1>3, <1>4, <1>5, <1>6, <1>7, <1>8, <1>9, <1>10, <1>11, <1>12, <1>13,
     <1>14, <1>15, <1>16, <1>17, <1>18, <1>19, <1>20
  DEF Next, Boot, Call, StartEmpty, BootDone, NonceExpires, Ask, Answered, AskFails,
      RemoveServer, SecretDeleted, DeleteRefused, SocketOpen, SocketLost, TimerFires,
      device, server, history, calls, view, Closed, Upserted, Slipped, SocketMoves

(* Ids are drawn once. *)
LEMMA FreshStep ==
  ASSUME TypeOK, BootFits, StepsFit, FreshIsNew, RemovalsFit, GoneStaysGone, Next
  PROVE  FreshIsNew'
<1>. USE DEF FreshIsNew, BootFits, StepsFit, Relogging, Moving, RemovalsFit,
             GoneStaysGone, Live, TypeOK
<1>1. ASSUME NEW a \in Account, MigrateLegacy(a) PROVE FreshIsNew'
  BY <1>1 DEF MigrateLegacy, Goes, device, server, view
<1>2. ASSUME NEW a \in Account, MoveSecret(a) PROVE FreshIsNew'
  BY <1>2 DEF MoveSecret, Goes, server, view, history
<1>3. ASSUME NEW a \in Account, MoveIndex(a) PROVE FreshIsNew'
  BY <1>3 DEF MoveIndex, Goes, server, view, history
<1>4. ASSUME StartConnecting PROVE FreshIsNew'
  BY <1>4 DEF StartConnecting, device, server, history
<1>5. ASSUME NEW a \in Account, SecretMissing(a) PROVE FreshIsNew'
  BY <1>5 DEF SecretMissing, Goes, Patched, device, server, history
<1>6. ASSUME NEW a \in Account, SecretRead(a) PROVE FreshIsNew'
  BY <1>6 DEF SecretRead, Goes, device, server, history
<1>7. ASSUME NEW a \in Account, SecretRefused(a) PROVE FreshIsNew'
  BY <1>7 DEF SecretRefused, device, server, view, history
<1>8. ASSUME NEW a \in Account, AddServer(a) PROVE FreshIsNew'
  BY <1>8 DEF AddServer, Goes, device, server, view
<1>9. ASSUME NEW a \in Account, Register(a) PROVE FreshIsNew'
  BY <1>9 DEF Register, Goes, Attach, Upserted, device, history
<1>10. ASSUME NEW a \in Account, ImportServer(a) PROVE FreshIsNew'
  BY <1>10 DEF ImportServer, Goes, Attach, Upserted, device, server
<1>11. ASSUME NEW a \in Account, StoreSecret(a) PROVE FreshIsNew'
  BY <1>11 DEF StoreSecret, Goes, server, view, history
<1>12. ASSUME NEW a \in Account, SaveIndex(a) PROVE FreshIsNew'
  BY <1>12 DEF SaveIndex, Goes, server, view, history
<1>13. ASSUME NEW a \in Account, Challenge(a) PROVE FreshIsNew'
  BY <1>13 DEF Challenge, Goes, device, view, history
<1>14. ASSUME NEW a \in Account, Login(a) PROVE FreshIsNew'
  BY <1>14 DEF Login, Goes, device, view, history
<1>15. ASSUME NEW a \in Account, LoginRefused(a) PROVE FreshIsNew'
  BY <1>15 DEF LoginRefused, Failed, Patched, device, history
<1>16. ASSUME NEW a \in Account, CallFails(a) PROVE FreshIsNew'
  BY <1>16 DEF CallFails, Failed, Patched, device, history
<1>17. ASSUME NEW a \in Account, StoreToken(a) PROVE FreshIsNew'
  BY <1>17 DEF StoreToken, Goes, Connected, Patched, server, history
<1>18. ASSUME NEW a \in Account, ListSpaces(a) PROVE FreshIsNew'
  BY <1>18 DEF ListSpaces, Goes, Connected, Patched, device, server, history
<1>19. ASSUME NEW a \in Account, Load(a) PROVE FreshIsNew'
  BY <1>19 DEF Load, Connected, Patched, device, server, history
<1>20. ASSUME NEW a \in Account, RemoveServer(a) PROVE FreshIsNew'
  BY <1>20 DEF RemoveServer, GoesOn, Closed, Upserted, Slipped, server
<1>21. ASSUME Restart PROVE FreshIsNew'
  BY <1>21 DEF Restart, device, server
<1>22. QED
  BY <1>1, <1>2, <1>3, <1>4, <1>5, <1>6, <1>7, <1>8, <1>9, <1>10, <1>11, <1>12, <1>13,
     <1>14, <1>15, <1>16, <1>17, <1>18, <1>19, <1>20, <1>21
  DEF Next, Boot, Call, StartEmpty, BootDone, NonceExpires, Ask, Answered, AskFails,
      SecretDeleted, DeleteRefused, SocketOpen, SocketLost, TimerFires, device, server,
      history, calls, view, Slipped, SocketMoves

(* A removal has forgotten the rest, and attachConn brings back the index
   entry only of one that was removed while connecting. *)
LEMMA RemovalsStep ==
  ASSUME TypeOK, BootFits, StepsFit, FreshIsNew, RemovalsFit, AttachedOrRemoved,
     GoneStaysGone, Next
  PROVE  RemovalsFit'
<1>. USE DEF RemovalsFit, BootFits, StepsFit, Relogging, Moving, FreshIsNew,
             AttachedOrRemoved, Attaching, GoneStaysGone, Live, TypeOK
<1>1. ASSUME NEW a \in Account, MoveIndex(a) PROVE RemovalsFit'
  BY <1>1 DEF MoveIndex, Goes, server, view, history
<1>2. ASSUME StartEmpty PROVE RemovalsFit'
  BY <1>2 DEF StartEmpty, device, server, history
<1>3. ASSUME StartConnecting PROVE RemovalsFit'
  BY <1>3 DEF StartConnecting, device, server, history
<1>4. ASSUME BootDone PROVE RemovalsFit'
  BY <1>4 DEF BootDone, device, server, history
<1>5. ASSUME NEW a \in Account, SecretMissing(a) PROVE RemovalsFit'
  BY <1>5 DEF SecretMissing, Goes, Patched, device, server, history
<1>6. ASSUME NEW a \in Account, Register(a) PROVE RemovalsFit'
  BY <1>6 DEF Register, Goes, Attach, Upserted, device, history
<1>7. ASSUME NEW a \in Account, ImportServer(a) PROVE RemovalsFit'
  BY <1>7 DEF ImportServer, Goes, Attach, Upserted, device, server
<1>8. ASSUME NEW a \in Account, SaveIndex(a) PROVE RemovalsFit'
  BY <1>8 DEF SaveIndex, Goes, server, view, history
<1>9. ASSUME NEW a \in Account, LoginRefused(a) PROVE RemovalsFit'
  BY <1>9 DEF LoginRefused, Failed, Patched, device, history
<1>10. ASSUME NEW a \in Account, CallFails(a) PROVE RemovalsFit'
  BY <1>10 DEF CallFails, Failed, Patched, device, history
<1>11. ASSUME NEW a \in Account, StoreToken(a) PROVE RemovalsFit'
  BY <1>11 DEF StoreToken, Goes, Connected, Patched, server, history
<1>12. ASSUME NEW a \in Account, ListSpaces(a) PROVE RemovalsFit'
  BY <1>12 DEF ListSpaces, Goes, Connected, Patched, device, server, history
<1>13. ASSUME NEW a \in Account, Load(a) PROVE RemovalsFit'
  BY <1>13 DEF Load, Connected, Patched, device, server, history
<1>14. ASSUME NEW a \in Account, RemoveServer(a) PROVE RemovalsFit'
  BY <1>14 DEF RemoveServer, GoesOn, Closed, Upserted, Slipped, server
<1>15. ASSUME NEW a \in Account, SecretDeleted(a) PROVE RemovalsFit'
  BY <1>15 DEF SecretDeleted, server, history
<1>16. ASSUME NEW a \in Account, DeleteRefused(a) PROVE RemovalsFit'
  BY <1>16 DEF DeleteRefused, Slipped, device, server, view
<1>17. ASSUME Restart PROVE RemovalsFit'
  BY <1>17 DEF Restart, device, server
<1>18. QED
  BY <1>1, <1>2, <1>3, <1>4, <1>5, <1>6, <1>7, <1>8, <1>9, <1>10, <1>11, <1>12, <1>13,
     <1>14, <1>15, <1>16, <1>17
  DEF Next, Boot, Call, MigrateLegacy, MoveSecret, SecretRead, SecretRefused, AddServer,
      StoreSecret, Challenge, NonceExpires, Ask, Answered, AskFails, Login, SocketOpen,
      SocketLost, TimerFires, Goes, device, server, view, history, calls, SocketMoves

(* removeServer takes the connection and the entry together. *)
LEMMA AttachedStep ==
  ASSUME TypeOK, StepsFit, FreshIsNew, AttachedOrRemoved, RemovalsFit, Next
  PROVE  AttachedOrRemoved'
<1>. USE DEF AttachedOrRemoved, Attaching, Relogging, StepsFit, Moving, FreshIsNew,
             RemovalsFit, TypeOK
<1>1. ASSUME NEW a \in Account, MigrateLegacy(a) PROVE AttachedOrRemoved'
  BY <1>1 DEF MigrateLegacy, Goes, device, server, view
<1>2. ASSUME NEW a \in Account, MoveSecret(a) PROVE AttachedOrRemoved'
  BY <1>2 DEF MoveSecret, Goes, server, view, history
<1>3. ASSUME NEW a \in Account, MoveIndex(a) PROVE AttachedOrRemoved'
  BY <1>3 DEF MoveIndex, Goes, server, view, history
<1>4. ASSUME StartConnecting PROVE AttachedOrRemoved'
  BY <1>4 DEF StartConnecting, device, server, history
<1>5. ASSUME NEW a \in Account, SecretMissing(a) PROVE AttachedOrRemoved'
  BY <1>5 DEF SecretMissing, Goes, Patched, device, server, history
<1>6. ASSUME NEW a \in Account, SecretRead(a) PROVE AttachedOrRemoved'
  BY <1>6 DEF SecretRead, Goes, device, server, history
<1>7. ASSUME NEW a \in Account, SecretRefused(a) PROVE AttachedOrRemoved'
  BY <1>7 DEF SecretRefused, device, server, view, history
<1>8. ASSUME NEW a \in Account, AddServer(a) PROVE AttachedOrRemoved'
  BY <1>8 DEF AddServer, Goes, device, server, view
<1>9. ASSUME NEW a \in Account, Register(a) PROVE AttachedOrRemoved'
  BY <1>9 DEF Register, Goes, Attach, Upserted, device, history
<1>10. ASSUME NEW a \in Account, ImportServer(a) PROVE AttachedOrRemoved'
  BY <1>10 DEF ImportServer, Goes, Attach, Upserted, device, server
<1>11. ASSUME NEW a \in Account, StoreSecret(a) PROVE AttachedOrRemoved'
  BY <1>11 DEF StoreSecret, Goes, server, view, history
<1>12. ASSUME NEW a \in Account, SaveIndex(a) PROVE AttachedOrRemoved'
  BY <1>12 DEF SaveIndex, Goes, server, view, history
<1>13. ASSUME NEW a \in Account, Challenge(a) PROVE AttachedOrRemoved'
  BY <1>13 DEF Challenge, Goes, device, view, history
<1>14. ASSUME NEW a \in Account, Login(a) PROVE AttachedOrRemoved'
  BY <1>14 DEF Login, Goes, device, view, history
<1>15. ASSUME NEW a \in Account, LoginRefused(a) PROVE AttachedOrRemoved'
  BY <1>15 DEF LoginRefused, Failed, Patched, device, history
<1>16. ASSUME NEW a \in Account, CallFails(a) PROVE AttachedOrRemoved'
  BY <1>16 DEF CallFails, Failed, Patched, device, history
<1>17. ASSUME NEW a \in Account, StoreToken(a) PROVE AttachedOrRemoved'
  BY <1>17 DEF StoreToken, Goes, Connected, Patched, server, history
<1>18. ASSUME NEW a \in Account, ListSpaces(a) PROVE AttachedOrRemoved'
  BY <1>18 DEF ListSpaces, Goes, Connected, Patched, device, server, history
<1>19. ASSUME NEW a \in Account, Load(a) PROVE AttachedOrRemoved'
  BY <1>19 DEF Load, Connected, Patched, device, server, history
<1>20. ASSUME NEW a \in Account, RemoveServer(a) PROVE AttachedOrRemoved'
  BY <1>20 DEF RemoveServer, GoesOn, Closed, Upserted, Slipped, server
<1>21. ASSUME NEW a \in Account, DeleteRefused(a) PROVE AttachedOrRemoved'
  BY <1>21 DEF DeleteRefused, Slipped, device, server, view
<1>22. ASSUME Restart PROVE AttachedOrRemoved'
  BY <1>22 DEF Restart, device, server
<1>23. QED
  BY <1>1, <1>2, <1>3, <1>4, <1>5, <1>6, <1>7, <1>8, <1>9, <1>10, <1>11, <1>12, <1>13,
     <1>14, <1>15, <1>16, <1>17, <1>18, <1>19, <1>20, <1>21, <1>22
  DEF Next, Boot, Call, StartEmpty, BootDone, NonceExpires, Ask, Answered, AskFails,
      SecretDeleted, SocketOpen, SocketLost, TimerFires, device, server, history, calls,
      view, SocketMoves

(* Only a removal deletes a secret. *)
LEMMA SecretsStep ==
  ASSUME TypeOK, BootFits, StepsFit, FreshIsNew, RemovalsFit, SecretsFit, Next
  PROVE  SecretsFit'
<1>. USE DEF SecretsFit, BootFits, StepsFit, Relogging, Moving, FreshIsNew, RemovalsFit,
             TypeOK
<1>1. ASSUME NEW a \in Account, MigrateLegacy(a) PROVE SecretsFit'
  BY <1>1 DEF MigrateLegacy, Goes, device, server, view
<1>2. ASSUME NEW a \in Account, MoveSecret(a) PROVE SecretsFit'
  BY <1>2 DEF MoveSecret, Goes, server, view, history
<1>3. ASSUME NEW a \in Account, MoveIndex(a) PROVE SecretsFit'
  BY <1>3 DEF MoveIndex, Goes, server, view, history
<1>4. ASSUME StartConnecting PROVE SecretsFit'
  BY <1>4 DEF StartConnecting, device, server, history
<1>5. ASSUME NEW a \in Account, SecretMissing(a) PROVE SecretsFit'
  BY <1>5 DEF SecretMissing, Goes, Patched, device, server, history
<1>6. ASSUME NEW a \in Account, SecretRead(a) PROVE SecretsFit'
  BY <1>6 DEF SecretRead, Goes, device, server, history
<1>7. ASSUME NEW a \in Account, SecretRefused(a) PROVE SecretsFit'
  BY <1>7 DEF SecretRefused, device, server, view, history
<1>8. ASSUME NEW a \in Account, AddServer(a) PROVE SecretsFit'
  BY <1>8 DEF AddServer, Goes, device, server, view
<1>9. ASSUME NEW a \in Account, Register(a) PROVE SecretsFit'
  BY <1>9 DEF Register, Goes, Attach, Upserted, device, history
<1>10. ASSUME NEW a \in Account, ImportServer(a) PROVE SecretsFit'
  BY <1>10 DEF ImportServer, Goes, Attach, Upserted, device, server
<1>11. ASSUME NEW a \in Account, StoreSecret(a) PROVE SecretsFit'
  BY <1>11 DEF StoreSecret, Goes, server, view, history
<1>12. ASSUME NEW a \in Account, SaveIndex(a) PROVE SecretsFit'
  BY <1>12 DEF SaveIndex, Goes, server, view, history
<1>13. ASSUME NEW a \in Account, Challenge(a) PROVE SecretsFit'
  BY <1>13 DEF Challenge, Goes, device, view, history
<1>14. ASSUME NEW a \in Account, Login(a) PROVE SecretsFit'
  BY <1>14 DEF Login, Goes, device, view, history
<1>15. ASSUME NEW a \in Account, LoginRefused(a) PROVE SecretsFit'
  BY <1>15 DEF LoginRefused, Failed, Patched, device, history
<1>16. ASSUME NEW a \in Account, CallFails(a) PROVE SecretsFit'
  BY <1>16 DEF CallFails, Failed, Patched, device, history
<1>17. ASSUME NEW a \in Account, StoreToken(a) PROVE SecretsFit'
  BY <1>17 DEF StoreToken, Goes, Connected, Patched, server, history
<1>18. ASSUME NEW a \in Account, ListSpaces(a) PROVE SecretsFit'
  BY <1>18 DEF ListSpaces, Goes, Connected, Patched, device, server, history
<1>19. ASSUME NEW a \in Account, Load(a) PROVE SecretsFit'
  BY <1>19 DEF Load, Connected, Patched, device, server, history
<1>20. ASSUME NEW a \in Account, RemoveServer(a) PROVE SecretsFit'
  BY <1>20 DEF RemoveServer, GoesOn, Closed, Upserted, Slipped, server
<1>21. ASSUME NEW a \in Account, SecretDeleted(a) PROVE SecretsFit'
  BY <1>21 DEF SecretDeleted, server, history
<1>22. ASSUME Restart PROVE SecretsFit'
  BY <1>22 DEF Restart, device, server
<1>23. QED
  BY <1>1, <1>2, <1>3, <1>4, <1>5, <1>6, <1>7, <1>8, <1>9, <1>10, <1>11, <1>12, <1>13,
     <1>14, <1>15, <1>16, <1>17, <1>18, <1>19, <1>20, <1>21, <1>22
  DEF Next, Boot, Call, StartEmpty, BootDone, NonceExpires, Ask, Answered, AskFails,
      DeleteRefused, SocketOpen, SocketLost, TimerFires, device, server, history, calls,
      view, Slipped, SocketMoves

(* An account is shown online by the last step of its call. *)
LEMMA IdleStep ==
  ASSUME TypeOK, BootFits, StepsFit, FreshIsNew, OnlineIsIdle, Next
  PROVE  OnlineIsIdle'
<1>. USE DEF OnlineIsIdle, BootFits, StepsFit, Relogging, Moving, FreshIsNew, TypeOK
<1>1. ASSUME NEW a \in Account, MigrateLegacy(a) PROVE OnlineIsIdle'
  BY <1>1 DEF MigrateLegacy, Goes, device, server, view
<1>2. ASSUME NEW a \in Account, MoveSecret(a) PROVE OnlineIsIdle'
  BY <1>2 DEF MoveSecret, Goes, server, view, history
<1>3. ASSUME NEW a \in Account, MoveIndex(a) PROVE OnlineIsIdle'
  BY <1>3 DEF MoveIndex, Goes, server, view, history
<1>4. ASSUME StartConnecting PROVE OnlineIsIdle'
  BY <1>4 DEF StartConnecting, device, server, history
<1>5. ASSUME NEW a \in Account, SecretMissing(a) PROVE OnlineIsIdle'
  BY <1>5 DEF SecretMissing, Goes, Patched, device, server, history
<1>6. ASSUME NEW a \in Account, SecretRead(a) PROVE OnlineIsIdle'
  BY <1>6 DEF SecretRead, Goes, device, server, history
<1>7. ASSUME NEW a \in Account, SecretRefused(a) PROVE OnlineIsIdle'
  BY <1>7 DEF SecretRefused, device, server, view, history
<1>8. ASSUME NEW a \in Account, AddServer(a) PROVE OnlineIsIdle'
  BY <1>8 DEF AddServer, Goes, device, server, view
<1>9. ASSUME NEW a \in Account, Register(a) PROVE OnlineIsIdle'
  BY <1>9 DEF Register, Goes, Attach, Upserted, device, history
<1>10. ASSUME NEW a \in Account, ImportServer(a) PROVE OnlineIsIdle'
  BY <1>10 DEF ImportServer, Goes, Attach, Upserted, device, server
<1>11. ASSUME NEW a \in Account, StoreSecret(a) PROVE OnlineIsIdle'
  BY <1>11 DEF StoreSecret, Goes, server, view, history
<1>12. ASSUME NEW a \in Account, SaveIndex(a) PROVE OnlineIsIdle'
  BY <1>12 DEF SaveIndex, Goes, server, view, history
<1>13. ASSUME NEW a \in Account, Challenge(a) PROVE OnlineIsIdle'
  BY <1>13 DEF Challenge, Goes, device, view, history
<1>14. ASSUME NEW a \in Account, Login(a) PROVE OnlineIsIdle'
  BY <1>14 DEF Login, Goes, device, view, history
<1>15. ASSUME NEW a \in Account, LoginRefused(a) PROVE OnlineIsIdle'
  BY <1>15 DEF LoginRefused, Failed, Patched, device, history
<1>16. ASSUME NEW a \in Account, CallFails(a) PROVE OnlineIsIdle'
  BY <1>16 DEF CallFails, Failed, Patched, device, history
<1>17. ASSUME NEW a \in Account, StoreToken(a) PROVE OnlineIsIdle'
  BY <1>17 DEF StoreToken, Goes, Connected, Patched, server, history
<1>18. ASSUME NEW a \in Account, ListSpaces(a) PROVE OnlineIsIdle'
  BY <1>18 DEF ListSpaces, Goes, Connected, Patched, device, server, history
<1>19. ASSUME NEW a \in Account, Load(a) PROVE OnlineIsIdle'
  BY <1>19 DEF Load, Connected, Patched, device, server, history
<1>20. ASSUME NEW a \in Account, RemoveServer(a) PROVE OnlineIsIdle'
  BY <1>20 DEF RemoveServer, GoesOn, Closed, Upserted, Slipped, server
<1>21. ASSUME Restart PROVE OnlineIsIdle'
  BY <1>21 DEF Restart, device, server
<1>22. QED
  BY <1>1, <1>2, <1>3, <1>4, <1>5, <1>6, <1>7, <1>8, <1>9, <1>10, <1>11, <1>12, <1>13,
     <1>14, <1>15, <1>16, <1>17, <1>18, <1>19, <1>20, <1>21
  DEF Next, Boot, Call, StartEmpty, BootDone, NonceExpires, Ask, Answered, AskFails,
      SecretDeleted, DeleteRefused, SocketOpen, SocketLost, TimerFires, device, server,
      history, calls, view, Slipped, SocketMoves

(* persistSecret comes before the index, both before the login. *)
LEMMA KeptStep ==
  ASSUME TypeOK, BootFits, StepsFit, RemovalsFit, SecretsFit, ShownIsKept, Next
  PROVE  ShownIsKept'
<1>. USE DEF ShownIsKept, BootFits, StepsFit, Relogging, Moving, RemovalsFit,
             SecretsFit, TypeOK
<1>1. ASSUME NEW a \in Account, MigrateLegacy(a) PROVE ShownIsKept'
  BY <1>1 DEF MigrateLegacy, Goes, device, server, view
<1>2. ASSUME NEW a \in Account, MoveSecret(a) PROVE ShownIsKept'
  BY <1>2 DEF MoveSecret, Goes, server, view, history
<1>3. ASSUME NEW a \in Account, MoveIndex(a) PROVE ShownIsKept'
  BY <1>3 DEF MoveIndex, Goes, server, view, history
<1>4. ASSUME StartConnecting PROVE ShownIsKept'
  BY <1>4 DEF StartConnecting, device, server, history
<1>5. ASSUME NEW a \in Account, SecretMissing(a) PROVE ShownIsKept'
  BY <1>5 DEF SecretMissing, Goes, Patched, device, server, history
<1>6. ASSUME NEW a \in Account, SecretRead(a) PROVE ShownIsKept'
  BY <1>6 DEF SecretRead, Goes, device, server, history
<1>7. ASSUME NEW a \in Account, SecretRefused(a) PROVE ShownIsKept'
  BY <1>7 DEF SecretRefused, device, server, view, history
<1>8. ASSUME NEW a \in Account, AddServer(a) PROVE ShownIsKept'
  BY <1>8 DEF AddServer, Goes, device, server, view
<1>9. ASSUME NEW a \in Account, Register(a) PROVE ShownIsKept'
  BY <1>9 DEF Register, Goes, Attach, Upserted, device, history
<1>10. ASSUME NEW a \in Account, ImportServer(a) PROVE ShownIsKept'
  BY <1>10 DEF ImportServer, Goes, Attach, Upserted, device, server
<1>11. ASSUME NEW a \in Account, StoreSecret(a) PROVE ShownIsKept'
  BY <1>11 DEF StoreSecret, Goes, server, view, history
<1>12. ASSUME NEW a \in Account, SaveIndex(a) PROVE ShownIsKept'
  BY <1>12 DEF SaveIndex, Goes, server, view, history
<1>13. ASSUME NEW a \in Account, Challenge(a) PROVE ShownIsKept'
  BY <1>13 DEF Challenge, Goes, device, view, history
<1>14. ASSUME NEW a \in Account, Login(a) PROVE ShownIsKept'
  BY <1>14 DEF Login, Goes, device, view, history
<1>15. ASSUME NEW a \in Account, LoginRefused(a) PROVE ShownIsKept'
  BY <1>15 DEF LoginRefused, Failed, Patched, device, history
<1>16. ASSUME NEW a \in Account, CallFails(a) PROVE ShownIsKept'
  BY <1>16 DEF CallFails, Failed, Patched, device, history
<1>17. ASSUME NEW a \in Account, StoreToken(a) PROVE ShownIsKept'
  BY <1>17 DEF StoreToken, Goes, Connected, Patched, server, history
<1>18. ASSUME NEW a \in Account, ListSpaces(a) PROVE ShownIsKept'
  BY <1>18 DEF ListSpaces, Goes, Connected, Patched, device, server, history
<1>19. ASSUME NEW a \in Account, Load(a) PROVE ShownIsKept'
  BY <1>19 DEF Load, Connected, Patched, device, server, history
<1>20. ASSUME NEW a \in Account, RemoveServer(a) PROVE ShownIsKept'
  BY <1>20 DEF RemoveServer, GoesOn, Closed, Upserted, Slipped, server
<1>21. ASSUME NEW a \in Account, SecretDeleted(a) PROVE ShownIsKept'
  BY <1>21 DEF SecretDeleted, server, history
<1>22. ASSUME Restart PROVE ShownIsKept'
  BY <1>22 DEF Restart, device, server
<1>23. QED
  BY <1>1, <1>2, <1>3, <1>4, <1>5, <1>6, <1>7, <1>8, <1>9, <1>10, <1>11, <1>12, <1>13,
     <1>14, <1>15, <1>16, <1>17, <1>18, <1>19, <1>20, <1>21, <1>22
  DEF Next, Boot, Call, StartEmpty, BootDone, NonceExpires, Ask, Answered, AskFails,
      DeleteRefused, SocketOpen, SocketLost, TimerFires, device, server, history, calls,
      view, Slipped, SocketMoves

(* Online is set with the socket, by a call that has stored its token. *)
LEMMA OnlineStep ==
  ASSUME TypeOK, BootFits, StepsFit, RemovalsFit, AttachedOrRemoved, SecretsFit,
     OnlineIsTrue, OnlineIsIdle, Next
  PROVE  OnlineIsTrue'
<1>. USE DEF OnlineIsTrue, Live, BootFits, StepsFit, Relogging, Moving, RemovalsFit,
             AttachedOrRemoved, Attaching, SecretsFit, OnlineIsIdle, TypeOK
<1>1. ASSUME NEW a \in Account, MoveSecret(a) PROVE OnlineIsTrue'
  BY <1>1 DEF MoveSecret, Goes, server, view, history
<1>2. ASSUME StartEmpty PROVE OnlineIsTrue'
  BY <1>2 DEF StartEmpty, device, server, history
<1>3. ASSUME StartConnecting PROVE OnlineIsTrue'
  BY <1>3 DEF StartConnecting, device, server, history
<1>4. ASSUME BootDone PROVE OnlineIsTrue'
  BY <1>4 DEF BootDone, device, server, history
<1>5. ASSUME NEW a \in Account, SecretMissing(a) PROVE OnlineIsTrue'
  BY <1>5 DEF SecretMissing, Goes, Patched, device, server, history
<1>6. ASSUME NEW a \in Account, SecretRead(a) PROVE OnlineIsTrue'
  BY <1>6 DEF SecretRead, Goes, device, server, history
<1>7. ASSUME NEW a \in Account, Register(a) PROVE OnlineIsTrue'
  BY <1>7 DEF Register, Goes, Attach, Upserted, device, history
<1>8. ASSUME NEW a \in Account, ImportServer(a) PROVE OnlineIsTrue'
  BY <1>8 DEF ImportServer, Goes, Attach, Upserted, device, server
<1>9. ASSUME NEW a \in Account, StoreSecret(a) PROVE OnlineIsTrue'
  BY <1>9 DEF StoreSecret, Goes, server, view, history
<1>10. ASSUME NEW a \in Account, LoginRefused(a) PROVE OnlineIsTrue'
  BY <1>10 DEF LoginRefused, Failed, Patched, device, history
<1>11. ASSUME NEW a \in Account, CallFails(a) PROVE OnlineIsTrue'
  BY <1>11 DEF CallFails, Failed, Patched, device, history
<1>12. ASSUME NEW a \in Account, StoreToken(a) PROVE OnlineIsTrue'
  BY <1>12 DEF StoreToken, Goes, Connected, Patched, server, history
<1>13. ASSUME NEW a \in Account, ListSpaces(a) PROVE OnlineIsTrue'
  BY <1>13 DEF ListSpaces, Goes, Connected, Patched, device, server, history
<1>14. ASSUME NEW a \in Account, Load(a) PROVE OnlineIsTrue'
  BY <1>14 DEF Load, Connected, Patched, device, server, history
<1>15. ASSUME NEW a \in Account, RemoveServer(a) PROVE OnlineIsTrue'
  BY <1>15 DEF RemoveServer, GoesOn, Closed, Upserted, Slipped, server
<1>16. ASSUME NEW a \in Account, SecretDeleted(a) PROVE OnlineIsTrue'
  BY <1>16 DEF SecretDeleted, server, history
<1>17. ASSUME NEW a \in Account, SocketOpen(a) PROVE OnlineIsTrue'
  BY <1>17 DEF SocketOpen, SocketMoves, device, server, calls, history
<1>18. ASSUME NEW a \in Account, SocketLost(a) PROVE OnlineIsTrue'
  BY <1>18 DEF SocketLost, SocketMoves, device, server, calls, history
<1>19. ASSUME NEW a \in Account, TimerFires(a) PROVE OnlineIsTrue'
  BY <1>19 DEF TimerFires, SocketMoves, device, server, calls, history
<1>20. ASSUME Restart PROVE OnlineIsTrue'
  BY <1>20 DEF Restart, device, server
<1>21. QED
  BY <1>1, <1>2, <1>3, <1>4, <1>5, <1>6, <1>7, <1>8, <1>9, <1>10, <1>11, <1>12, <1>13,
     <1>14, <1>15, <1>16, <1>17, <1>18, <1>19, <1>20
  DEF Next, Boot, Call, MigrateLegacy, MoveIndex, SecretRefused, AddServer, SaveIndex,
      Challenge, NonceExpires, Ask, Answered, AskFails, Login, DeleteRefused, Goes,
      device, server, view, history, calls, Slipped

(* The last server leaves the main screen with it, when nothing slips. *)
LEMMA MainStep ==
  ASSUME TypeOK, BootFits, StepsFit, AttachedOrRemoved, MainHasServer, Next
  PROVE  MainHasServer'
<1>. USE DEF MainHasServer, BootFits, StepsFit, Relogging, Moving, AttachedOrRemoved,
             Attaching, TypeOK
<1>1. ASSUME StartEmpty PROVE MainHasServer'
  BY <1>1 DEF StartEmpty, device, server, history
<1>2. ASSUME StartConnecting PROVE MainHasServer'
  BY <1>2 DEF StartConnecting, device, server, history
<1>3. ASSUME BootDone PROVE MainHasServer'
  BY <1>3 DEF BootDone, device, server, history
<1>4. ASSUME NEW a \in Account, SecretMissing(a) PROVE MainHasServer'
  BY <1>4 DEF SecretMissing, Goes, Patched, device, server, history
<1>5. ASSUME NEW a \in Account, Register(a) PROVE MainHasServer'
  BY <1>5 DEF Register, Goes, Attach, Upserted, device, history
<1>6. ASSUME NEW a \in Account, ImportServer(a) PROVE MainHasServer'
  BY <1>6 DEF ImportServer, Goes, Attach, Upserted, device, server
<1>7. ASSUME NEW a \in Account, LoginRefused(a) PROVE MainHasServer'
  BY <1>7 DEF LoginRefused, Failed, Patched, device, history
<1>8. ASSUME NEW a \in Account, CallFails(a) PROVE MainHasServer'
  BY <1>8 DEF CallFails, Failed, Patched, device, history
<1>9. ASSUME NEW a \in Account, StoreToken(a) PROVE MainHasServer'
  BY <1>9 DEF StoreToken, Goes, Connected, Patched, server, history
<1>10. ASSUME NEW a \in Account, ListSpaces(a) PROVE MainHasServer'
  BY <1>10 DEF ListSpaces, Goes, Connected, Patched, device, server, history
<1>11. ASSUME NEW a \in Account, Load(a) PROVE MainHasServer'
  BY <1>11 DEF Load, Connected, Patched, device, server, history
<1>12. ASSUME NEW a \in Account, RemoveServer(a) PROVE MainHasServer'
  BY <1>12 DEF RemoveServer, GoesOn, Closed, Upserted, Slipped, server
<1>13. ASSUME NEW a \in Account, SecretDeleted(a) PROVE MainHasServer'
  BY <1>13 DEF SecretDeleted, server, history
<1>14. ASSUME NEW a \in Account, DeleteRefused(a) PROVE MainHasServer'
  BY <1>14 DEF DeleteRefused, Slipped, device, server, view
<1>15. ASSUME Restart PROVE MainHasServer'
  BY <1>15 DEF Restart, device, server
<1>16. QED
  BY <1>1, <1>2, <1>3, <1>4, <1>5, <1>6, <1>7, <1>8, <1>9, <1>10, <1>11, <1>12, <1>13,
     <1>14, <1>15
  DEF Next, Boot, Call, MigrateLegacy, MoveSecret, MoveIndex, SecretRead, SecretRefused,
      AddServer, StoreSecret, SaveIndex, Challenge, NonceExpires, Ask, Answered,
      AskFails, Login, SocketOpen, SocketLost, TimerFires, Goes, device, server, view,
      history, calls, SocketMoves

(* The secret is written before the entry and deleted after it. *)
LEMMA ListedStep ==
  ASSUME TypeOK, BootFits, StepsFit, RemovalsFit, AttachedOrRemoved, SecretsFit,
     ListedHasSecret, Next
  PROVE  ListedHasSecret'
<1>. USE DEF ListedHasSecret, BootFits, StepsFit, Relogging, Moving, RemovalsFit,
             AttachedOrRemoved, Attaching, SecretsFit, TypeOK
<1>1. ASSUME NEW a \in Account, MoveSecret(a) PROVE ListedHasSecret'
  BY <1>1 DEF MoveSecret, Goes, server, view, history
<1>2. ASSUME NEW a \in Account, MoveIndex(a) PROVE ListedHasSecret'
  BY <1>2 DEF MoveIndex, Goes, server, view, history
<1>3. ASSUME NEW a \in Account, StoreSecret(a) PROVE ListedHasSecret'
  BY <1>3 DEF StoreSecret, Goes, server, view, history
<1>4. ASSUME NEW a \in Account, SaveIndex(a) PROVE ListedHasSecret'
  BY <1>4 DEF SaveIndex, Goes, server, view, history
<1>5. ASSUME NEW a \in Account, StoreToken(a) PROVE ListedHasSecret'
  BY <1>5 DEF StoreToken, Goes, Connected, Patched, server, history
<1>6. ASSUME NEW a \in Account, RemoveServer(a) PROVE ListedHasSecret'
  BY <1>6 DEF RemoveServer, GoesOn, Closed, Upserted, Slipped, server
<1>7. ASSUME NEW a \in Account, SecretDeleted(a) PROVE ListedHasSecret'
  BY <1>7 DEF SecretDeleted, server, history
<1>8. ASSUME NEW a \in Account, DeleteRefused(a) PROVE ListedHasSecret'
  BY <1>8 DEF DeleteRefused, Slipped, device, server, view
<1>9. ASSUME Restart PROVE ListedHasSecret'
  BY <1>9 DEF Restart, device, server
<1>10. QED
  BY <1>1, <1>2, <1>3, <1>4, <1>5, <1>6, <1>7, <1>8, <1>9
  DEF Next, Boot, Call, MigrateLegacy, StartEmpty, StartConnecting, BootDone,
      SecretMissing, SecretRead, SecretRefused, AddServer, Register, ImportServer,
      Challenge, NonceExpires, Ask, Answered, AskFails, Login, LoginRefused, CallFails,
      ListSpaces, Load, SocketOpen, SocketLost, TimerFires, Goes, device, server, view,
      history, Patched, Attach, Upserted, calls, Failed, Connected, SocketMoves

(* A secret without an entry has a call under way, or a name. *)
LEMMA OrphansStep ==
  ASSUME TypeOK, StepsFit, RemovalsFit, OrphansAreNamed, Next
  PROVE  OrphansAreNamed'
<1>. USE DEF OrphansAreNamed, StepsFit, Relogging, Moving, RemovalsFit, TypeOK
<1>1. ASSUME NEW a \in Account, MigrateLegacy(a) PROVE OrphansAreNamed'
  BY <1>1 DEF MigrateLegacy, Goes, device, server, view
<1>2. ASSUME NEW a \in Account, MoveSecret(a) PROVE OrphansAreNamed'
  BY <1>2 DEF MoveSecret, Goes, server, view, history
<1>3. ASSUME NEW a \in Account, MoveIndex(a) PROVE OrphansAreNamed'
  BY <1>3 DEF MoveIndex, Goes, server, view, history
<1>4. ASSUME StartConnecting PROVE OrphansAreNamed'
  BY <1>4 DEF StartConnecting, device, server, history
<1>5. ASSUME NEW a \in Account, SecretMissing(a) PROVE OrphansAreNamed'
  BY <1>5 DEF SecretMissing, Goes, Patched, device, server, history
<1>6. ASSUME NEW a \in Account, SecretRead(a) PROVE OrphansAreNamed'
  BY <1>6 DEF SecretRead, Goes, device, server, history
<1>7. ASSUME NEW a \in Account, SecretRefused(a) PROVE OrphansAreNamed'
  BY <1>7 DEF SecretRefused, device, server, view, history
<1>8. ASSUME NEW a \in Account, AddServer(a) PROVE OrphansAreNamed'
  BY <1>8 DEF AddServer, Goes, device, server, view
<1>9. ASSUME NEW a \in Account, Register(a) PROVE OrphansAreNamed'
  BY <1>9 DEF Register, Goes, Attach, Upserted, device, history
<1>10. ASSUME NEW a \in Account, ImportServer(a) PROVE OrphansAreNamed'
  BY <1>10 DEF ImportServer, Goes, Attach, Upserted, device, server
<1>11. ASSUME NEW a \in Account, StoreSecret(a) PROVE OrphansAreNamed'
  BY <1>11 DEF StoreSecret, Goes, server, view, history
<1>12. ASSUME NEW a \in Account, SaveIndex(a) PROVE OrphansAreNamed'
  BY <1>12 DEF SaveIndex, Goes, server, view, history
<1>13. ASSUME NEW a \in Account, Challenge(a) PROVE OrphansAreNamed'
  BY <1>13 DEF Challenge, Goes, device, view, history
<1>14. ASSUME NEW a \in Account, Login(a) PROVE OrphansAreNamed'
  BY <1>14 DEF Login, Goes, device, view, history
<1>15. ASSUME NEW a \in Account, LoginRefused(a) PROVE OrphansAreNamed'
  BY <1>15 DEF LoginRefused, Failed, Patched, device, history
<1>16. ASSUME NEW a \in Account, CallFails(a) PROVE OrphansAreNamed'
  BY <1>16 DEF CallFails, Failed, Patched, device, history
<1>17. ASSUME NEW a \in Account, StoreToken(a) PROVE OrphansAreNamed'
  BY <1>17 DEF StoreToken, Goes, Connected, Patched, server, history
<1>18. ASSUME NEW a \in Account, ListSpaces(a) PROVE OrphansAreNamed'
  BY <1>18 DEF ListSpaces, Goes, Connected, Patched, device, server, history
<1>19. ASSUME NEW a \in Account, Load(a) PROVE OrphansAreNamed'
  BY <1>19 DEF Load, Connected, Patched, device, server, history
<1>20. ASSUME NEW a \in Account, RemoveServer(a) PROVE OrphansAreNamed'
  BY <1>20 DEF RemoveServer, GoesOn, Closed, Upserted, Slipped, server
<1>21. ASSUME NEW a \in Account, SecretDeleted(a) PROVE OrphansAreNamed'
  BY <1>21 DEF SecretDeleted, server, history
<1>22. ASSUME NEW a \in Account, DeleteRefused(a) PROVE OrphansAreNamed'
  BY <1>22 DEF DeleteRefused, Slipped, device, server, view
<1>23. ASSUME Restart PROVE OrphansAreNamed'
  BY <1>23 DEF Restart, device, server
<1>24. QED
  BY <1>1, <1>2, <1>3, <1>4, <1>5, <1>6, <1>7, <1>8, <1>9, <1>10, <1>11, <1>12, <1>13,
     <1>14, <1>15, <1>16, <1>17, <1>18, <1>19, <1>20, <1>21, <1>22, <1>23
  DEF Next, Boot, Call, StartEmpty, BootDone, NonceExpires, Ask, Answered, AskFails,
      SocketOpen, SocketLost, TimerFires, device, server, history, calls, view,
      SocketMoves

(* No call of a removed server is left to bring it back. *)
LEMMA GoneStep ==
  ASSUME TypeOK, BootFits, StepsFit, FreshIsNew, RemovalsFit, GoneStaysGone, Next
  PROVE  GoneStaysGone'
<1>. USE DEF GoneStaysGone, Live, BootFits, StepsFit, Relogging, Moving, FreshIsNew,
             RemovalsFit, TypeOK
<1>1. ASSUME NEW a \in Account, MigrateLegacy(a) PROVE GoneStaysGone'
  BY <1>1 DEF MigrateLegacy, Goes, device, server, view
<1>2. ASSUME NEW a \in Account, MoveSecret(a) PROVE GoneStaysGone'
  BY <1>2 DEF MoveSecret, Goes, server, view, history
<1>3. ASSUME NEW a \in Account, MoveIndex(a) PROVE GoneStaysGone'
  BY <1>3 DEF MoveIndex, Goes, server, view, history
<1>4. ASSUME StartConnecting PROVE GoneStaysGone'
  BY <1>4 DEF StartConnecting, device, server, history
<1>5. ASSUME NEW a \in Account, SecretMissing(a) PROVE GoneStaysGone'
  BY <1>5 DEF SecretMissing, Goes, Patched, device, server, history
<1>6. ASSUME NEW a \in Account, SecretRead(a) PROVE GoneStaysGone'
  BY <1>6 DEF SecretRead, Goes, device, server, history
<1>7. ASSUME NEW a \in Account, SecretRefused(a) PROVE GoneStaysGone'
  BY <1>7 DEF SecretRefused, device, server, view, history
<1>8. ASSUME NEW a \in Account, AddServer(a) PROVE GoneStaysGone'
  BY <1>8 DEF AddServer, Goes, device, server, view
<1>9. ASSUME NEW a \in Account, Register(a) PROVE GoneStaysGone'
  BY <1>9 DEF Register, Goes, Attach, Upserted, device, history
<1>10. ASSUME NEW a \in Account, ImportServer(a) PROVE GoneStaysGone'
  BY <1>10 DEF ImportServer, Goes, Attach, Upserted, device, server
<1>11. ASSUME NEW a \in Account, StoreSecret(a) PROVE GoneStaysGone'
  BY <1>11 DEF StoreSecret, Goes, server, view, history
<1>12. ASSUME NEW a \in Account, SaveIndex(a) PROVE GoneStaysGone'
  BY <1>12 DEF SaveIndex, Goes, server, view, history
<1>13. ASSUME NEW a \in Account, Challenge(a) PROVE GoneStaysGone'
  BY <1>13 DEF Challenge, Goes, device, view, history
<1>14. ASSUME NEW a \in Account, Login(a) PROVE GoneStaysGone'
  BY <1>14 DEF Login, Goes, device, view, history
<1>15. ASSUME NEW a \in Account, LoginRefused(a) PROVE GoneStaysGone'
  BY <1>15 DEF LoginRefused, Failed, Patched, device, history
<1>16. ASSUME NEW a \in Account, CallFails(a) PROVE GoneStaysGone'
  BY <1>16 DEF CallFails, Failed, Patched, device, history
<1>17. ASSUME NEW a \in Account, StoreToken(a) PROVE GoneStaysGone'
  BY <1>17 DEF StoreToken, Goes, Connected, Patched, server, history
<1>18. ASSUME NEW a \in Account, ListSpaces(a) PROVE GoneStaysGone'
  BY <1>18 DEF ListSpaces, Goes, Connected, Patched, device, server, history
<1>19. ASSUME NEW a \in Account, Load(a) PROVE GoneStaysGone'
  BY <1>19 DEF Load, Connected, Patched, device, server, history
<1>20. ASSUME NEW a \in Account, RemoveServer(a) PROVE GoneStaysGone'
  BY <1>20 DEF RemoveServer, GoesOn, Closed, Upserted, Slipped, server
<1>21. ASSUME NEW a \in Account, SecretDeleted(a) PROVE GoneStaysGone'
  BY <1>21 DEF SecretDeleted, server, history
<1>22. ASSUME NEW a \in Account, DeleteRefused(a) PROVE GoneStaysGone'
  BY <1>22 DEF DeleteRefused, Slipped, device, server, view
<1>23. ASSUME NEW a \in Account, SocketOpen(a) PROVE GoneStaysGone'
  BY <1>23 DEF SocketOpen, SocketMoves, device, server, calls, history
<1>24. ASSUME NEW a \in Account, SocketLost(a) PROVE GoneStaysGone'
  BY <1>24 DEF SocketLost, SocketMoves, device, server, calls, history
<1>25. ASSUME NEW a \in Account, TimerFires(a) PROVE GoneStaysGone'
  BY <1>25 DEF TimerFires, SocketMoves, device, server, calls, history
<1>26. ASSUME NEW a \in Account, Ask(a) PROVE GoneStaysGone'
  BY <1>26 DEF Ask, device, calls, view, history
<1>27. ASSUME NEW a \in Account, Answered(a) PROVE GoneStaysGone'
  BY <1>27 DEF Answered, device, calls, history
<1>28. ASSUME NEW a \in Account, AskFails(a) PROVE GoneStaysGone'
  BY <1>28 DEF AskFails, device, calls, view, history
<1>29. ASSUME Restart PROVE GoneStaysGone'
  BY <1>29 DEF Restart, device, server
<1>30. QED
  BY <1>1, <1>2, <1>3, <1>4, <1>5, <1>6, <1>7, <1>8, <1>9, <1>10, <1>11, <1>12, <1>13,
     <1>14, <1>15, <1>16, <1>17, <1>18, <1>19, <1>20, <1>21, <1>22, <1>23, <1>24, <1>25,
     <1>26, <1>27, <1>28, <1>29
  DEF Next, Boot, Call, StartEmpty, BootDone, NonceExpires, device, server, history,
      calls, view

(* The old keys go in the step that saves the index. *)
LEMMA LegacyStep ==
  ASSUME TypeOK, BootFits, StepsFit, RemovalsFit, SecretsFit, LegacyKept, Next
  PROVE  LegacyKept'
<1>. USE DEF LegacyKept, BootFits, StepsFit, Relogging, Moving, RemovalsFit, SecretsFit,
             TypeOK
<1>1. ASSUME NEW a \in Account, MigrateLegacy(a) PROVE LegacyKept'
  BY <1>1 DEF MigrateLegacy, Goes, device, server, view
<1>2. ASSUME NEW a \in Account, MoveSecret(a) PROVE LegacyKept'
  BY <1>2 DEF MoveSecret, Goes, server, view, history
<1>3. ASSUME NEW a \in Account, MoveIndex(a) PROVE LegacyKept'
  BY <1>3 DEF MoveIndex, Goes, server, view, history
<1>4. ASSUME NEW a \in Account, StoreSecret(a) PROVE LegacyKept'
  BY <1>4 DEF StoreSecret, Goes, server, view, history
<1>5. ASSUME NEW a \in Account, SaveIndex(a) PROVE LegacyKept'
  BY <1>5 DEF SaveIndex, Goes, server, view, history
<1>6. ASSUME NEW a \in Account, StoreToken(a) PROVE LegacyKept'
  BY <1>6 DEF StoreToken, Goes, Connected, Patched, server, history
<1>7. ASSUME NEW a \in Account, RemoveServer(a) PROVE LegacyKept'
  BY <1>7 DEF RemoveServer, GoesOn, Closed, Upserted, Slipped, server
<1>8. ASSUME NEW a \in Account, SecretDeleted(a) PROVE LegacyKept'
  BY <1>8 DEF SecretDeleted, server, history
<1>9. QED
  BY <1>1, <1>2, <1>3, <1>4, <1>5, <1>6, <1>7, <1>8
  DEF Next, Boot, Call, StartEmpty, StartConnecting, BootDone, SecretMissing,
      SecretRead, SecretRefused, AddServer, Register, ImportServer, Challenge,
      NonceExpires, Ask, Answered, AskFails, Login, LoginRefused, CallFails, ListSpaces,
      Load, DeleteRefused, SocketOpen, SocketLost, TimerFires, Restart, device, server,
      history, Goes, Patched, view, Attach, Upserted, calls, Failed, Connected, Slipped,
      SocketMoves
-----------------------------------------------------------------------------
(* The first state satisfies every part: nothing is drawn, shown or waiting. *)
LEMMA AccountsInvAtFirst == Init => AccountsInv
<1>. SUFFICES ASSUME Init PROVE AccountsInv
  OBVIOUS
<1>1. TypeOK
  BY RestartsIsNat DEF Init, TypeOK, Secret, Step, Status, Socket
<1>2. CallsFit
  BY DEF Init, CallsFit, BootFits, StepsFit, OneMoves, FreshIsNew, RemovalsFit,
         AttachedOrRemoved, Moving, Relogging, Attaching
<1>3. SecretsFit /\ OnlineIsIdle
  BY DEF Init, SecretsFit, OnlineIsIdle
<1>4. StatusIsTrue /\ DeviceAgrees
  BY DEF Init, StatusIsTrue, ShownIsKept, OnlineIsTrue, MainHasServer,
         DeviceAgrees, ListedHasSecret, OrphansAreNamed
<1>5. GoneStaysGone /\ LegacyKept
  BY DEF Init, GoneStaysGone, LegacyKept
<1>. QED
  BY <1>1, <1>2, <1>3, <1>4, <1>5 DEF AccountsInv

(* Every step keeps the invariant: each part by its lemma.                 *)
LEMMA AccountsInvStep == AccountsInv /\ [Next]_vars => AccountsInv'
<1>. SUFFICES ASSUME AccountsInv, [Next]_vars PROVE AccountsInv'
  OBVIOUS
<1>. USE DEF AccountsInv, CallsFit, StatusIsTrue, DeviceAgrees
<1>1. CASE Next
  <2>1. TypeOK' /\ BootFits' /\ StepsFit' /\ OneMoves'
    BY <1>1, TypeStep, BootStep, StepsStep, MovesStep
  <2>2. FreshIsNew' /\ RemovalsFit' /\ AttachedOrRemoved'
    BY <1>1, FreshStep, RemovalsStep, AttachedStep
  <2>3. SecretsFit' /\ OnlineIsIdle'
    BY <1>1, SecretsStep, IdleStep
  <2>4. ShownIsKept' /\ OnlineIsTrue' /\ MainHasServer'
    BY <1>1, KeptStep, OnlineStep, MainStep
  <2>5. ListedHasSecret' /\ OrphansAreNamed'
    BY <1>1, ListedStep, OrphansStep
  <2>6. GoneStaysGone' /\ LegacyKept'
    BY <1>1, GoneStep, LegacyStep
  <2>. QED
    BY <2>1, <2>2, <2>3, <2>4, <2>5, <2>6
<1>2. CASE UNCHANGED vars
  <2>. USE <1>2 DEF vars, device, server, calls, view, history
  <2>1. TypeOK'
    BY DEF TypeOK
  <2>2. CallsFit'
    BY DEF BootFits, StepsFit, OneMoves, FreshIsNew, RemovalsFit, AttachedOrRemoved
  <2>3. SecretsFit' /\ OnlineIsIdle'
    BY DEF SecretsFit, OnlineIsIdle
  <2>4. StatusIsTrue' /\ DeviceAgrees'
    BY DEF ShownIsKept, OnlineIsTrue, MainHasServer, ListedHasSecret, OrphansAreNamed, Live
  <2>5. GoneStaysGone' /\ LegacyKept'
    BY DEF GoneStaysGone, LegacyKept, Live
  <2>. QED
    BY <2>1, <2>2, <2>3, <2>4, <2>5
<1>. QED
  BY <1>1, <1>2

LEMMA AccountsInvAlways == Spec => []AccountsInv
  BY AccountsInvAtFirst, AccountsInvStep, PTL DEF Spec

(* The types of the store's, the device's and the servers' state.          *)
THEOREM AccountsTypeCorrect == Spec => []TypeOK
<1>1. AccountsInv => TypeOK
  BY DEF AccountsInv
<1>. QED
  BY <1>1, AccountsInvAlways, PTL

(* An account that is shown is kept on the device from its first login on,  *)
(* one shown online has its connection, its socket and its token, and the   *)
(* main screen has a server to show, through any failures and restarts     *)
(* (attachConn, connectAccount and removeServer of store.svelte.ts).       *)
THEOREM StatusIsAlwaysTrue == Spec => []StatusIsTrue
<1>1. AccountsInv => StatusIsTrue
  BY DEF AccountsInv
<1>. QED
  BY <1>1, AccountsInvAlways, PTL

(* The index in localStorage and the secrets in the keychain agree but for *)
(* the interruptions named (credentials.ts has no transaction over them).  *)
THEOREM DeviceAlwaysAgrees == Spec => []DeviceAgrees
<1>1. AccountsInv => DeviceAgrees
  BY DEF AccountsInv
<1>. QED
  BY <1>1, AccountsInvAlways, PTL

(* removeServer leaves nothing of a server behind, now or later, but for    *)
(* the races and the keychain failures named.                              *)
THEOREM ForgottenStaysGone == Spec => []ForgottenIsGone
<1>1. AccountsInv => ForgottenIsGone
  BY DEF AccountsInv, GoneStaysGone, ForgottenIsGone
<1>. QED
  BY <1>1, AccountsInvAlways, PTL

(* migrateLegacyAccount loses the single-account identity at no point, for  *)
(* any number of crashes.                                                  *)
THEOREM LegacyIsNeverLost == Spec => []LegacyKept
<1>1. AccountsInv => LegacyKept
  BY DEF AccountsInv
<1>. QED
  BY <1>1, AccountsInvAlways, PTL

-----------------------------------------------------------------------------
(* The migration runs before anything else: its account is new, and the    *)
(* old layout is there until it ends.                                      *)
MovesAreFirst == \A a \in Account : step[a] \in Moving => legacy /\ a \notin forgotten

LEMMA MovesFirstStep ==
  ASSUME AccountsInv, MovesAreFirst, [Next]_vars
  PROVE  MovesAreFirst'
<1> SUFFICES ASSUME NEW a \in Account, step'[a] \in Moving
             PROVE  legacy' /\ a \notin forgotten'
  BY DEF MovesAreFirst
<1> USE DEF Moving
<1>1. /\ step \in [Account -> Step]
      /\ CallsFit
  BY DEF AccountsInv, TypeOK
<1>2. CASE UNCHANGED <<step, legacy, forgotten>>
  BY <1>2 DEF MovesAreFirst
<1>3. ASSUME NEW b \in Account, MigrateLegacy(b) PROVE legacy' /\ a \notin forgotten'
  <2>1. b \notin forgotten /\ legacy' = legacy /\ forgotten' = forgotten /\ legacy
    BY <1>1, <1>3 DEF MigrateLegacy, CallsFit, FreshIsNew, device
  <2>2. step'[a] = step[a] \/ a = b
    BY <1>1, <1>3 DEF MigrateLegacy, Goes
  <2>3. QED
    BY <2>1, <2>2 DEF MovesAreFirst
<1>4. ASSUME NEW b \in Account, MoveIndex(b) PROVE FALSE
  BY <1>1, <1>4 DEF MoveIndex, Goes, CallsFit, OneMoves
<1>5. ASSUME NEW b \in Account, RemoveServer(b) PROVE legacy' /\ a \notin forgotten'
  BY <1>1, <1>5 DEF RemoveServer, CallsFit, BootFits, StepsFit
<1>6. ASSUME NEW b \in Account, MoveSecret(b) PROVE legacy' /\ a \notin forgotten'
  BY <1>1, <1>6 DEF MoveSecret, Goes, history, MovesAreFirst
<1>7. ASSUME legacy' = legacy, forgotten' = forgotten, step'[a] = step[a] \/ step'[a] \notin Moving
      PROVE  legacy' /\ a \notin forgotten'
  BY <1>7 DEF MovesAreFirst
<1>8. ASSUME NEW b \in Account,
             \/ SecretMissing(b) \/ SecretRead(b) \/ SecretRefused(b)
             \/ Register(b) \/ StoreSecret(b) \/ SaveIndex(b)
             \/ Challenge(b) \/ Login(b) \/ AddServer(b) \/ ImportServer(b)
      PROVE  legacy' /\ a \notin forgotten'
  BY <1>1, <1>7, <1>8 DEF SecretMissing, SecretRead, SecretRefused, Register, StoreSecret, SaveIndex,
     Challenge, Login, AddServer, ImportServer, Goes, device, history
<1>9. ASSUME NEW b \in Account,
             LoginRefused(b) \/ CallFails(b) \/ StoreToken(b) \/ ListSpaces(b) \/ Load(b)
      PROVE  legacy' /\ a \notin forgotten'
  BY <1>1, <1>7, <1>9 DEF LoginRefused, CallFails, StoreToken, ListSpaces, Load, Failed, Connected,
     Goes, device, history
<1>10. ASSUME NEW b \in Account,
             \/ NonceExpires(b)
             \/ Ask(b) \/ Answered(b) \/ AskFails(b) \/ SecretDeleted(b) \/ DeleteRefused(b)
             \/ SocketOpen(b) \/ SocketLost(b) \/ TimerFires(b)
      PROVE  UNCHANGED <<step, legacy, forgotten>>
  BY <1>10 DEF NonceExpires, Ask, Answered, AskFails, SecretDeleted, DeleteRefused,
     SocketOpen, SocketLost, TimerFires, SocketMoves, device, history, calls
<1>11. ASSUME StartEmpty \/ BootDone PROVE UNCHANGED <<step, legacy, forgotten>>
  BY <1>11 DEF StartEmpty, BootDone, device, history
<1>12. CASE StartConnecting
  BY <1>1, <1>7, <1>12 DEF StartConnecting, device, history
<1>13. CASE Restart
  BY <1>13 DEF Restart
<1>14. ASSUME UNCHANGED vars PROVE UNCHANGED <<step, legacy, forgotten>>
  BY <1>14 DEF vars, calls, device, history
<1>15. QED
  BY <1>2, <1>3, <1>4, <1>5, <1>6, <1>8, <1>9, <1>10, <1>11, <1>12, <1>13, <1>14
     DEF Next, Boot, Call

(* What the device can log in with, and whose calls go on. *)
Kept == {a \in vault : secret[a] # "none"}
Loose == {a \in Account : "removed_connecting" \in slips[a]}

(* Every step is one of the book's, or none. *)
LEMMA BookStep ==
  ASSUME AccountsInv, MovesAreFirst, [Next]_vars
  PROVE  [Book!Next]_(Book!vars)
<1>1. /\ step \in [Account -> Step] /\ secret \in [Account -> Secret]
      /\ slips \in [Account -> SUBSET Slip] /\ vault \subseteq Account /\ forgotten \subseteq Account
      /\ CallsFit /\ SecretsFit /\ GoneStaysGone
  BY DEF AccountsInv, TypeOK
<1>2. ASSUME legacy' = legacy, Kept' = Kept, forgotten' = forgotten, Loose' = Loose
      PROVE  UNCHANGED Book!vars
  BY <1>2 DEF Book!vars, Kept, Loose
<1>3. ASSUME NEW a \in Account, a \notin forgotten, Kept' = Kept \cup {a},
             legacy' = legacy, forgotten' = forgotten, Loose' = Loose
      PROVE  Book!Keep(a)
  BY <1>3 DEF Book!Keep, Kept, Loose
<1>4. ASSUME NEW a \in Loose, Kept' = Kept \cup {a} \/ Kept' = Kept \ {a},
             legacy' = legacy, forgotten' = forgotten, Loose' = Loose
      PROVE  Book!Linger(a)
  BY <1>4 DEF Book!Linger, Kept, Loose
<1>5. ASSUME NEW a \in Account, a \notin forgotten, Kept' = Kept \cup {a}, legacy, legacy' = FALSE,
             forgotten' = forgotten, Loose' = Loose
      PROVE  Book!Adopt(a)
  BY <1>5 DEF Book!Adopt, Kept, Loose
<1>6. ASSUME NEW a \in Account, Kept' = Kept \ {a}, legacy' = legacy,
             forgotten' = forgotten \cup {a}, Loose' = Loose \/ Loose' = Loose \cup {a}
      PROVE  Book!Forget(a)
  BY <1>6 DEF Book!Forget, Kept, Loose
(* A call that writes keeps its account. *)
<1>7. ASSUME NEW a \in Account, step[a] # "idle", Kept' = Kept \/ Kept' = Kept \cup {a},
             legacy' = legacy, forgotten' = forgotten, slips' = slips
      PROVE  [Book!Next]_(Book!vars)
  <2>1. Loose' = Loose
    BY <1>7 DEF Loose
  <2>2. CASE Kept' = Kept
    BY <1>2, <1>7, <2>1, <2>2
  <2>3. CASE Kept' = Kept \cup {a} /\ a \notin forgotten
    BY <1>3, <1>7, <2>1, <2>3 DEF Book!Next
  <2>4. CASE Kept' = Kept \cup {a} /\ a \in forgotten
    <3>1. a \in Loose
      BY <1>1, <1>7, <2>4 DEF GoneStaysGone, Loose
    <3>2. QED
      BY <1>4, <1>7, <2>1, <2>4, <3>1 DEF Book!Next
  <2>5. QED
    BY <1>7, <2>2, <2>3, <2>4
<1>8. ASSUME NEW a \in Account, MoveSecret(a) PROVE [Book!Next]_(Book!vars)
  <2>1. vault = {} /\ vault' = {}
    BY <1>1, <1>8 DEF MoveSecret, Goes, CallsFit, StepsFit, Moving
  <2>2. Kept' = Kept /\ Loose' = Loose /\ legacy' = legacy /\ forgotten' = forgotten
    BY <1>8, <2>1 DEF MoveSecret, Kept, Loose, history
  <2>3. QED
    BY <1>2, <2>2
<1>9. ASSUME NEW a \in Account, MoveIndex(a) PROVE [Book!Next]_(Book!vars)
  <2>1. step[a] = "moved" /\ vault = {} /\ secret[a] # "none" /\ legacy /\ a \notin forgotten
    BY <1>1, <1>9 DEF MoveIndex, Goes, CallsFit, StepsFit, Moving, SecretsFit, MovesAreFirst
  <2>2. /\ Kept = {} /\ Kept' = {a} /\ Loose' = Loose
        /\ legacy' = FALSE /\ forgotten' = forgotten
    BY <1>9, <2>1 DEF MoveIndex, Kept, Loose, history
  <2>3. QED
    BY <1>5, <2>1, <2>2 DEF Book!Next
<1>10. ASSUME NEW a \in Account, StoreSecret(a) PROVE [Book!Next]_(Book!vars)
  <2>1. /\ step[a] # "idle" /\ vault' = vault /\ secret' = [secret EXCEPT ![a] = "key"]
        /\ legacy' = legacy /\ forgotten' = forgotten /\ slips' = slips
    BY <1>10 DEF StoreSecret, Goes, history
  <2>2. Kept' = Kept \/ Kept' = Kept \cup {a}
    BY <1>1, <2>1 DEF Kept
  <2>3. QED
    BY <1>7, <2>1, <2>2
<1>11. ASSUME NEW a \in Account, SaveIndex(a) PROVE [Book!Next]_(Book!vars)
  <2>1. /\ step[a] # "idle" /\ vault' = vault \cup {a} /\ secret' = secret
        /\ legacy' = legacy /\ forgotten' = forgotten /\ slips' = slips
    BY <1>11 DEF SaveIndex, Goes, history
  <2>2. Kept' = Kept \/ Kept' = Kept \cup {a}
    BY <1>1, <2>1 DEF Kept
  <2>3. QED
    BY <1>7, <2>1, <2>2
<1>12. ASSUME NEW a \in Account, StoreToken(a) PROVE [Book!Next]_(Book!vars)
  <2>1. /\ step[a] # "idle"
        /\ vault' = vault \/ vault' = vault \cup {a}
        /\ secret' = [secret EXCEPT ![a] = "token"]
        /\ legacy' = legacy /\ forgotten' = forgotten /\ slips' = slips
    BY <1>12 DEF StoreToken, Goes, history
  <2>2. Kept' = Kept \/ Kept' = Kept \cup {a}
    BY <1>1, <2>1 DEF Kept
  <2>3. QED
    BY <1>7, <2>1, <2>2
<1>13. ASSUME NEW a \in Account, RemoveServer(a) PROVE [Book!Next]_(Book!vars)
  <2>1. /\ vault' = vault \ {a} /\ secret' = secret /\ legacy' = legacy
        /\ forgotten' = forgotten \cup {a}
        /\ \E S : slips' = [slips EXCEPT ![a] = @ \cup S]
    BY <1>13 DEF RemoveServer, GoesOn, Slipped
  <2>2. Kept' = Kept \ {a}
    BY <2>1 DEF Kept
  <2>3. Loose' = Loose \/ Loose' = Loose \cup {a}
    BY <1>1, <2>1 DEF Loose
  <2>4. QED
    BY <1>6, <2>1, <2>2, <2>3 DEF Book!Next
<1>14. ASSUME NEW a \in Account, SecretDeleted(a) PROVE [Book!Next]_(Book!vars)
  <2>1. /\ a \in removing /\ vault' = vault /\ secret' = [secret EXCEPT ![a] = "none"]
        /\ legacy' = legacy /\ forgotten' = forgotten /\ slips' = slips
    BY <1>14 DEF SecretDeleted, history
  <2>2. Kept' = Kept \ {a} /\ Loose' = Loose
    BY <1>1, <2>1 DEF Kept, Loose
  <2>3. CASE a \in vault
    <3>1. a \in Loose
      BY <1>1, <2>1, <2>3 DEF CallsFit, RemovalsFit, Loose
    <3>2. QED
      BY <1>4, <2>1, <2>2, <3>1 DEF Book!Next, Loose
  <2>4. CASE a \notin vault
    <3>1. Kept' = Kept
      BY <2>2, <2>4 DEF Kept
    <3>2. QED
      BY <1>2, <2>1, <2>2, <3>1
  <2>5. QED
    BY <2>3, <2>4
<1>15. ASSUME NEW a \in Account, DeleteRefused(a) PROVE [Book!Next]_(Book!vars)
  <2>1. /\ legacy' = legacy /\ vault' = vault /\ secret' = secret /\ forgotten' = forgotten
        /\ slips' = [slips EXCEPT ![a] = @ \cup {"not_deleted"}]
    BY <1>15 DEF DeleteRefused, Slipped, device
  <2>2. Kept' = Kept /\ Loose' = Loose
    BY <1>1, <2>1 DEF Kept, Loose
  <2>3. QED
    BY <1>2, <2>1, <2>2
<1>16. CASE Restart
  <2>1. /\ legacy' = legacy /\ vault' = vault /\ secret' = secret /\ forgotten' = forgotten
        /\ \A a \in Account : "removed_connecting" \in slips'[a] <=> "removed_connecting" \in slips[a]
    BY <1>1, <1>16 DEF Restart, device
  <2>2. Kept' = Kept /\ Loose' = Loose
    BY <2>1 DEF Kept, Loose
  <2>3. QED
    BY <1>2, <2>1, <2>2
<1>17. ASSUME UNCHANGED <<legacy, vault, secret, forgotten, slips>>
       PROVE  [Book!Next]_(Book!vars)
  <2>1. Kept' = Kept /\ Loose' = Loose
    BY <1>17 DEF Kept, Loose
  <2>2. QED
    BY <1>2, <1>17, <2>1
<1>18. ASSUME NEW a \in Account,
              \/ SecretMissing(a) \/ SecretRead(a) \/ SecretRefused(a) \/ Register(a)
              \/ Challenge(a) \/ Login(a) \/ LoginRefused(a) \/ CallFails(a)
              \/ ListSpaces(a) \/ Load(a) \/ AddServer(a) \/ ImportServer(a) \/ NonceExpires(a)
              \/ Ask(a) \/ Answered(a) \/ AskFails(a)
              \/ SocketOpen(a) \/ SocketLost(a) \/ TimerFires(a)
       PROVE  UNCHANGED <<legacy, vault, secret, forgotten, slips>>
  BY <1>18 DEF SecretMissing, SecretRead, SecretRefused, Register, Challenge, Login, LoginRefused,
     CallFails, ListSpaces, Load, AddServer, ImportServer, NonceExpires, Ask, Answered,
     AskFails, SocketOpen, SocketLost, TimerFires, SocketMoves, device, history
<1>19. ASSUME Boot PROVE UNCHANGED <<legacy, vault, secret, forgotten, slips>>
  BY <1>19 DEF Boot, StartEmpty, StartConnecting, BootDone, MigrateLegacy, device, history
<1>20. ASSUME UNCHANGED vars PROVE UNCHANGED <<legacy, vault, secret, forgotten, slips>>
  BY <1>20 DEF vars, device, history
<1>21. QED
  BY <1>8, <1>9, <1>10, <1>11, <1>12, <1>13, <1>14, <1>15, <1>16, <1>17, <1>18, <1>19, <1>20
     DEF Next, Call

(* Adding, migrating and removing accounts, with each command of the index *)
(* and of the keychain on its own, failing or cut by a restart, amounts to *)
(* a book whose entries are made and struck out in one step                *)
(* (store.svelte.ts, credentials.ts).                                      *)
THEOREM AccountsAreABook == Spec => ImplementsBook
<1>1. Init => Book!Init
  <2> SUFFICES ASSUME Init PROVE Book!Init
    OBVIOUS
  <2>1. {a \in vault : secret[a] # "none"} = {} /\ {a \in Account : "removed_connecting" \in slips[a]} = {}
    BY DEF Init
  <2>2. QED
    BY <2>1 DEF Init, Book!Init
<1>2. Init => MovesAreFirst
  BY DEF Init, MovesAreFirst, Moving
<1>3. AccountsInv /\ MovesAreFirst /\ [Next]_vars => MovesAreFirst'
  BY MovesFirstStep
<1>4. AccountsInv /\ MovesAreFirst /\ [Next]_vars => [Book!Next]_(Book!vars)
  BY BookStep
<1>5. QED
  BY <1>1, <1>2, <1>3, <1>4, AccountsInvAlways, PTL DEF Spec, ImplementsBook, Book!Spec

-----------------------------------------------------------------------------
(* Two halves of BootEnds that need no fairness: bootstrap always waits for *)
(* a call that is under way, and its calls only go forward.                *)

(* How many steps a call of bootstrap has left, at most. *)
Left == [s \in Step |->
  CASE s = "reading" -> 6 [] s = "challenging" -> 5 [] s = "signing" -> 4 [] s = "restoring" -> 3
    [] s \in {"listing", "moving"} -> 2 [] s \in {"loading", "moved"} -> 1 [] OTHER -> 0]

(* The loading screen waits for a call, unless bootstrap is about to read   *)
(* the index, has connected all of it, or was rejected.                    *)
BootHasWork ==
  phase = "loading" =>
    \/ boot \in {"start", "rejected"}
    \/ boot = "connecting" /\ booting = {}
    \/ \E a \in Account : Left[step[a]] > 0

(* What an account does while bootstrap waits brings it nearer to its end: *)
(* no reply sends a call back or starts another.                           *)
BootGoesOn ==
  [][phase = "loading" /\ boot # "start" /\ restarts' = restarts =>
       \A a \in Account : step'[a] # step[a] => Left[step'[a]] < Left[step[a]]]_vars

MigrationHasCall == boot = "migrating" => \E a \in Account : step[a] \in Moving

LEMMA LeftIs ==
  /\ \A s \in Step : Left[s] \in 0 .. 6
  /\ Left["reading"] = 6 /\ Left["challenging"] = 5 /\ Left["signing"] = 4 /\ Left["restoring"] = 3
  /\ Left["listing"] = 2 /\ Left["loading"] = 1 /\ Left["moving"] = 2 /\ Left["moved"] = 1
  /\ Left["idle"] = 0
BY DEF Left, Step

(* While it loads, no call but those of bootstrap is under way. *)
LEMMA OnlyBootCalls ==
  ASSUME AccountsInv, phase = "loading", NEW a \in Account
  PROVE  step[a] \in Moving \cup Relogging \cup {"reading", "idle"}
BY DEF AccountsInv, CallsFit, BootFits, StepsFit

LEMMA MigrationHasCallStep ==
  ASSUME AccountsInv, MigrationHasCall, [Next]_vars
  PROVE  MigrationHasCall'
<1> SUFFICES ASSUME boot' = "migrating" PROVE \E a \in Account : step'[a] \in Moving
  BY DEF MigrationHasCall
<1> USE DEF Moving
<1>1. /\ step \in [Account -> Step]
      /\ boot # "done" => phase = "loading"
      /\ CallsFit
  BY DEF AccountsInv, TypeOK, CallsFit, BootFits
<1>2. ASSUME boot = "migrating"
      PROVE  \A b \in Account : step[b] \in Moving \cup {"idle"}
  BY <1>1, <1>2 DEF CallsFit, BootFits, StepsFit
<1>3. CASE UNCHANGED <<boot, step>>
  BY <1>3 DEF MigrationHasCall
<1>4. ASSUME NEW b \in Account, MigrateLegacy(b) PROVE step'[b] \in Moving
  BY <1>1, <1>4 DEF MigrateLegacy, Goes
<1>5. ASSUME NEW b \in Account, MoveSecret(b) PROVE step'[b] \in Moving
  BY <1>1, <1>5 DEF MoveSecret, Goes
<1>6. ASSUME NEW b \in Account, MoveIndex(b) \/ SecretRefused(b) PROVE FALSE
  BY <1>6 DEF MoveIndex, SecretRefused
<1>7. ASSUME NEW b \in Account,
             \/ SecretMissing(b) \/ SecretRead(b) \/ Register(b) \/ StoreSecret(b) \/ SaveIndex(b)
             \/ Challenge(b) \/ Login(b) \/ LoginRefused(b) \/ CallFails(b) \/ StoreToken(b)
             \/ ListSpaces(b) \/ Load(b)
      PROVE  FALSE
  <2>1. boot = "migrating" /\ step[b] \notin Moving \cup {"idle"}
    BY <1>7 DEF SecretMissing, SecretRead, Register, StoreSecret, SaveIndex, Challenge, Login,
       LoginRefused, CallFails, StoreToken, ListSpaces, Load, Goes
  <2>2. QED
    BY <1>2, <2>1
<1>8. ASSUME NEW b \in Account, AddServer(b) \/ ImportServer(b) PROVE FALSE
  BY <1>1, <1>8 DEF AddServer, ImportServer
<1>9. ASSUME NEW b \in Account,
             \/ NonceExpires(b)
             \/ Ask(b) \/ Answered(b) \/ AskFails(b) \/ RemoveServer(b) \/ SecretDeleted(b) \/ DeleteRefused(b)
             \/ SocketOpen(b) \/ SocketLost(b) \/ TimerFires(b)
      PROVE  UNCHANGED <<boot, step>>
  BY <1>9 DEF NonceExpires, Ask, Answered, AskFails, RemoveServer, SecretDeleted,
     DeleteRefused, SocketOpen, SocketLost, TimerFires, SocketMoves, calls
<1>10. ASSUME StartEmpty \/ StartConnecting \/ BootDone \/ Restart PROVE FALSE
  BY <1>10 DEF StartEmpty, StartConnecting, BootDone, Restart
<1>11. ASSUME UNCHANGED vars PROVE UNCHANGED <<boot, step>>
  BY <1>11 DEF vars, calls
<1>12. QED
  BY <1>3, <1>4, <1>5, <1>6, <1>7, <1>8, <1>9, <1>10, <1>11 DEF Next, Boot, Call

(* bootstrap never waits for nothing: while the loading screen is there,    *)
(* some account's call is under way, or the next step is bootstrap's own,  *)
(* or it was rejected (store.svelte.ts).                                   *)
THEOREM LoadingHasWork == Spec => []BootHasWork
<1>1. Init => MigrationHasCall
  BY DEF Init, MigrationHasCall
<1>2. AccountsInv /\ MigrationHasCall /\ [Next]_vars => MigrationHasCall'
  BY MigrationHasCallStep
<1>3. AccountsInv /\ MigrationHasCall => BootHasWork
  <2> SUFFICES ASSUME AccountsInv, MigrationHasCall, phase = "loading",
                      boot \notin {"start", "rejected"}, ~ (boot = "connecting" /\ booting = {})
               PROVE  \E a \in Account : Left[step[a]] > 0
    BY DEF BootHasWork
  <2>1. boot \in {"migrating", "connecting"}
    BY DEF AccountsInv, TypeOK, CallsFit, BootFits
  <2>2. CASE boot = "migrating"
    BY <2>2, LeftIs DEF MigrationHasCall, Moving
  <2>3. CASE boot = "connecting"
    <3>1. PICK a \in Account : a \in booting
      BY <2>3 DEF AccountsInv, TypeOK
    <3>2. step[a] \in Relogging \cup {"reading"}
      BY <3>1 DEF AccountsInv, CallsFit, StepsFit
    <3>3. QED
      BY <3>2, LeftIs DEF Relogging
  <2>4. QED
    BY <2>1, <2>2, <2>3
<1>4. QED
  BY <1>1, <1>2, <1>3, AccountsInvAlways, PTL DEF Spec

(* While bootstrap waits, every step of an account's call brings it nearer *)
(* to its end, so that each account is done after six (store.svelte.ts).   *)
THEOREM LoadingGoesOn == Spec => BootGoesOn
<1>1. ASSUME AccountsInv, [Next]_vars, phase = "loading", boot # "start", restarts' = restarts,
             NEW a \in Account, step'[a] # step[a]
      PROVE  Left[step'[a]] < Left[step[a]]
  <2>1. /\ step \in [Account -> Step] /\ boot # "done" /\ restarts \in Nat
        /\ \A b \in Account : step[b] \in Moving \cup Relogging \cup {"reading", "idle"}
    BY <1>1, OnlyBootCalls DEF AccountsInv, TypeOK, CallsFit, BootFits
  <2>2. \A s \in Moving \cup Relogging \cup {"reading"} : Left[s] > 0
    BY LeftIs DEF Moving, Relogging
  <2>3. ASSUME NEW b \in Account,
               \/ MoveSecret(b) \/ SecretRead(b) \/ Challenge(b) \/ Login(b)
        PROVE  Left[step'[a]] < Left[step[a]]
    BY <1>1, <2>1, <2>3, LeftIs DEF MoveSecret, SecretRead, Challenge, Login, Goes
  <2>4. ASSUME NEW b \in Account,
               \/ MoveIndex(b) \/ SecretMissing(b) \/ SecretRefused(b) \/ LoginRefused(b)
               \/ CallFails(b) \/ Load(b)
        PROVE  Left[step'[a]] < Left[step[a]]
    <3>1. step' = [step EXCEPT ![b] = "idle"] /\ step[b] # "idle"
      BY <2>4 DEF MoveIndex, SecretMissing, SecretRefused, LoginRefused, CallFails, Load, Goes,
         Failed, Connected
    <3>2. a = b /\ step'[a] = "idle"
      BY <1>1, <2>1, <3>1
    <3>3. QED
      BY <2>1, <2>2, <3>1, <3>2, LeftIs
  <2>5. ASSUME NEW b \in Account, StoreToken(b) \/ ListSpaces(b)
        PROVE  Left[step'[a]] < Left[step[a]]
    BY <1>1, <2>1, <2>5, LeftIs DEF StoreToken, ListSpaces, Goes, Connected
  <2>6. ASSUME NEW b \in Account, Register(b) \/ StoreSecret(b) \/ SaveIndex(b) PROVE FALSE
    BY <2>1, <2>6 DEF Register, StoreSecret, SaveIndex, Goes, Moving, Relogging
  <2>7. ASSUME NEW b \in Account, MigrateLegacy(b) \/ AddServer(b) \/ ImportServer(b) PROVE FALSE
    BY <1>1, <2>7 DEF MigrateLegacy, AddServer, ImportServer
  <2>8. ASSUME NEW b \in Account,
               \/ NonceExpires(b)
               \/ Ask(b) \/ Answered(b) \/ AskFails(b) \/ RemoveServer(b) \/ SecretDeleted(b) \/ DeleteRefused(b)
               \/ SocketOpen(b) \/ SocketLost(b) \/ TimerFires(b)
        PROVE  step' = step
    BY <2>8 DEF NonceExpires, Ask, Answered, AskFails, RemoveServer, SecretDeleted,
       DeleteRefused, SocketOpen, SocketLost, TimerFires, SocketMoves, calls
  <2>9. ASSUME BootDone PROVE step' = step
    BY <2>9 DEF BootDone
  <2>10. ASSUME StartEmpty \/ StartConnecting \/ Restart PROVE FALSE
    BY <1>1, <2>1, <2>10 DEF StartEmpty, StartConnecting, Restart
  <2>11. ASSUME UNCHANGED vars PROVE step' = step
    BY <2>11 DEF vars, calls
  <2>12. QED
    BY <1>1, <2>3, <2>4, <2>5, <2>6, <2>7, <2>8, <2>9, <2>10, <2>11 DEF Next, Boot, Call
<1>2. AccountsInv /\ [Next]_vars =>
        [phase = "loading" /\ boot # "start" /\ restarts' = restarts =>
           \A a \in Account : step'[a] # step[a] => Left[step'[a]] < Left[step[a]]]_vars
  BY <1>1
<1>3. QED
  BY <1>2, AccountsInvAlways, PTL DEF Spec, BootGoesOn
=============================================================================
