----------------------------- MODULE Agreement -----------------------------
(***************************************************************************)
(* What the negotiation of a peer connection (client/src/lib/call.ts) is   *)
(* to bring about, with an exchange of offer and answer in one step: both  *)
(* ends move on together, each to media it has had since the last          *)
(* exchange.  Negotiation is shown to implement this.                      *)
(***************************************************************************)
EXTENDS Naturals

CONSTANTS End, MaxChanges

VARIABLES want,   \* end -> its media, by the changes there have been
          agreed  \* end -> the media of it that both ends have agreed to

vars == <<want, agreed>>

Init == /\ want = [e \in End |-> 1]
        /\ agreed = [e \in End |-> 0]

Change(e) == /\ want[e] < MaxChanges
             /\ want' = [want EXCEPT ![e] = @ + 1]
             /\ UNCHANGED agreed

(* e offers what it wants at some time, and f answers with what it wants,  *)
(* or keeps for an offer of its own.                                       *)
Exchange(e, f) ==
  /\ \E offer \in agreed[e] .. want[e], answer \in {agreed[f], want[f]} :
       agreed' = [agreed EXCEPT ![e] = offer, ![f] = answer]
  /\ UNCHANGED want

Next == \E e \in End : Change(e) \/ \E f \in End \ {e} : Exchange(e, f)

Spec == Init /\ [][Next]_vars
=============================================================================
