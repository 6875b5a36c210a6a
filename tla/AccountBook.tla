---------------------------- MODULE AccountBook ----------------------------
(***************************************************************************)
(* What the accounts of client/src/lib/store.svelte.ts are to come to, as  *)
(* if index and keychain were one place that survives everything: an       *)
(* account is kept in one step, taken over from the old layout in one step *)
(* and forgotten in one step, and nothing else takes it away or brings it  *)
(* back.  Accounts is shown to implement this.                             *)
(***************************************************************************)
CONSTANT Account

VARIABLES old,    \* the old layout's identity is there and nowhere else
          kept,   \* accounts the device can log in with
          gone,   \* accounts the user has removed
          loose   \* of these, the ones whose calls were under way

vars == <<old, kept, gone, loose>>

Init == old \in BOOLEAN /\ kept = {} /\ gone = {} /\ loose = {}

Keep(a) == /\ a \notin gone
           /\ kept' = kept \cup {a}
           /\ UNCHANGED <<old, gone, loose>>

Adopt(a) == /\ old /\ a \notin gone
            /\ old' = FALSE /\ kept' = kept \cup {a}
            /\ UNCHANGED <<gone, loose>>

Forget(a) == /\ gone' = gone \cup {a} /\ kept' = kept \ {a}
             /\ loose' = loose \/ loose' = loose \cup {a}
             /\ UNCHANGED old

(* A call that goes on although its account was removed keeps it again, and *)
(* the end of the removal may take it away again.                          *)
Linger(a) == /\ a \in loose
             /\ kept' = kept \cup {a} \/ kept' = kept \ {a}
             /\ UNCHANGED <<old, gone, loose>>

Next == \E a \in Account : Keep(a) \/ Adopt(a) \/ Forget(a) \/ Linger(a)

Spec == Init /\ [][Next]_vars
=============================================================================
