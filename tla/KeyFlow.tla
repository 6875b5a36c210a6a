------------------------------ MODULE KeyFlow ------------------------------
(***************************************************************************)
(* Who may come to know the keys of a space (server/src/spaces.rs,         *)
(* client/src/lib/store.svelte.ts): only the owner makes keys, and a key   *)
(* goes only from someone who knows it to someone who is a member then.    *)
(* Users may forget keys at any time; a removed one need not.  SpaceKeys,  *)
(* where keys wait in tables, requests and answers, implements this.       *)
(***************************************************************************)
CONSTANTS Users, Owner, InitMembers, Key, FirstKey

VARIABLES member,  \* users who are members
          knows    \* user -> keys it has, or can have without anyone's help

vars == <<member, knows>>

Init == /\ member = InitMembers
        /\ knows = [u \in Users |-> IF u \in InitMembers THEN {FirstKey} ELSE {}]

(* Nobody knows more than most gives it. *)
Within(most) == knows' \in [Users -> SUBSET Key] /\ \A u \in Users : knows'[u] \subseteq most[u]

Join(x) == /\ member' = member \cup {x}
           /\ UNCHANGED knows

Remove(x) == /\ x # Owner
             /\ member' = member \ {x}
             /\ Within(knows)

Make(k) == /\ \A u \in Users : k \notin knows[u]
           /\ Within([knows EXCEPT ![Owner] = @ \cup {k}])
           /\ UNCHANGED member

Give(k, S) == /\ S \subseteq member
              /\ \E u \in Users : k \in knows[u]
              /\ Within([u \in Users |-> IF u \in S THEN knows[u] \cup {k} ELSE knows[u]])
              /\ UNCHANGED member

Forget == Within(knows) /\ UNCHANGED member

Next == \/ \E x \in Users : Join(x) \/ Remove(x)
        \/ \E k \in Key : Make(k) \/ \E S \in SUBSET Users : Give(k, S)
        \/ Forget

Spec == Init /\ [][Next]_vars
=============================================================================
