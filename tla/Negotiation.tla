---------------------------- MODULE Negotiation ----------------------------
(***************************************************************************)
(* How two participants of a call agree on their media: CallManager's      *)
(* createPeer and handleSignal (client/src/lib/call.ts) at both ends of a  *)
(* peer connection, with signals that the hub passes on in order.          *)
(*                                                                         *)
(* setLocalDescription and setRemoteDescription take their time: each      *)
(* joins the operations of its RTCPeerConnection, which run one after the  *)
(* other, and signalingState is the old one until its turn is over.  That, *)
(* the rollback of an offer and when negotiationneeded fires are the       *)
(* browser's, modelled as the code relies on them.  Signatures are taken   *)
(* to be right, and no signal or participant is lost (Calls has those).    *)
(***************************************************************************)
EXTENDS Naturals, Sequences

CONSTANTS MaxChanges  \* bound: changes of one end's media, the microphone's with it

ASSUME ChangesIsPositive == MaxChanges \in Nat \ {0}

VARIABLES
  sig,     \* end -> pc.signalingState
  ops,     \* end -> operations that run or wait
  making,  \* end -> peer.makingOffer
  want,    \* end -> its media, by the changes there have been
  offered, \* end -> the media of its last offer
  told,    \* end -> the media that the other has agreed to
  has,     \* end -> the media of the other it has agreed to
  offers,  \* end -> offers it has made
  heard,   \* end -> the offer of the other it has set last
  net,     \* end -> signals on the way to it
  crossed  \* history: ends that ignored an offer while they set an answer

vars == <<sig, ops, making, want, offered, told, has, offers, heard, net, crossed>>

(* The polite end has the smaller user id. *)
End == {"polite", "impolite"}
Other(e) == CHOOSE f \in End : f # e
Polite(e) == e = "polite"

Media == 0 .. MaxChanges
Description == [type : {"offer", "answer"}, of : Nat, media : Media]
Operation == [do : {"local"}] \cup [do : {"remote"}, desc : Description]

Local == [do |-> "local"]
Remote(desc) == [do |-> "remote", desc |-> desc]

TypeOK ==
  /\ sig \in [End -> {"stable", "have-local-offer", "have-remote-offer"}]
  /\ ops \in [End -> Seq(Operation)] /\ making \in [End -> BOOLEAN]
  /\ want \in [End -> Media] /\ offered \in [End -> Media]
  /\ told \in [End -> Media] /\ has \in [End -> Media]
  /\ offers \in [End -> Nat] /\ heard \in [End -> Nat]
  /\ net \in [End -> Seq(Description)]
  /\ crossed \subseteq End

(* Both ends have created the peer, with the track of the microphone. *)
Init ==
  /\ sig = [e \in End |-> "stable"] /\ ops = [e \in End |-> <<>>]
  /\ making = [e \in End |-> FALSE]
  /\ want = [e \in End |-> 1] /\ offered = [e \in End |-> 0]
  /\ told = [e \in End |-> 0] /\ has = [e \in End |-> 0]
  /\ offers = [e \in End |-> 0] /\ heard = [e \in End |-> 0]
  /\ net = [e \in End |-> <<>>]
  /\ crossed = {}

-----------------------------------------------------------------------------
Set(f, e, x) == [f EXCEPT ![e] = x]
SendSignal(e, desc) == net' = [net EXCEPT ![Other(e)] = Append(@, desc)]

(* startBroadcast, stopBroadcast or restartIce. *)
Change(e) ==
  /\ want[e] < MaxChanges
  /\ want' = [want EXCEPT ![e] = @ + 1]
  /\ UNCHANGED <<sig, ops, making, offered, told, has, offers, heard, net, crossed>>

(* negotiationneeded fires when the connection is stable and no operation  *)
(* is left; the listener sets the flag and starts setLocalDescription.     *)
NegotiationNeeded(e) ==
  /\ want[e] # told[e] /\ sig[e] = "stable" /\ ops[e] = <<>>
  /\ making' = Set(making, e, TRUE)
  /\ ops' = Set(ops, e, <<Local>>)
  /\ UNCHANGED <<sig, want, offered, told, has, offers, heard, net, crossed>>

(* mutant of Collision: a local offer is seen only once it is there *)
CollisionIfSet(e) == sig[e] # "stable"

Collision(e) == making[e] \/ sig[e] # "stable"

SettingAnswer(e) ==
  \E n \in 1 .. Len(ops[e]) : ops[e][n].do = "remote" /\ ops[e][n].desc.type = "answer"

(* mutant of IgnoreOffer: nobody gives way *)
IgnoreOfferBoth(e, desc) == desc.type = "offer" /\ Collision(e)

IgnoreOffer(e, desc) == desc.type = "offer" /\ Collision(e) /\ ~ Polite(e)

(* handleSignal, up to its wait for setRemoteDescription. *)
HandleSignal(e) ==
  LET desc == Head(net[e]) IN
  /\ net[e] # <<>>
  /\ net' = Set(net, e, Tail(net[e]))
  /\ IF IgnoreOffer(e, desc)
     THEN /\ crossed' = IF SettingAnswer(e) THEN crossed \cup {e} ELSE crossed
          /\ UNCHANGED ops
     ELSE /\ ops' = [ops EXCEPT ![e] = Append(@, Remote(desc))]
          /\ UNCHANGED crossed
  /\ UNCHANGED <<sig, making, want, offered, told, has, offers, heard>>

-----------------------------------------------------------------------------
(* The first operation of e has its turn; who awaits it goes on. *)

Turn(e, do) == ops[e] # <<>> /\ Head(ops[e]).do = do

(* setLocalDescription makes an offer or, for the offer that is there, an  *)
(* answer, and the caller sends it.                                        *)
OfferSet(e) ==
  /\ Turn(e, "local") /\ sig[e] # "have-remote-offer"
  /\ sig' = Set(sig, e, "have-local-offer")
  /\ offers' = [offers EXCEPT ![e] = @ + 1] /\ offered' = Set(offered, e, want[e])
  /\ SendSignal(e, [type |-> "offer", of |-> offers[e] + 1, media |-> want[e]])
  /\ making' = Set(making, e, FALSE)
  /\ ops' = Set(ops, e, Tail(ops[e]))
  /\ UNCHANGED <<want, told, has, heard, crossed>>

(* Tracks fit the offer's media lines, or need an offer of this end's own. *)
AnswerSet(e) ==
  /\ Turn(e, "local") /\ sig[e] = "have-remote-offer"
  /\ sig' = Set(sig, e, "stable")
  /\ \E media \in {want[e], told[e]} :
       /\ told' = Set(told, e, media)
       /\ SendSignal(e, [type |-> "answer", of |-> heard[e], media |-> media])
  /\ ops' = Set(ops, e, Tail(ops[e]))
  /\ UNCHANGED <<making, want, offered, has, offers, heard, crossed>>

(* setRemoteDescription of an offer, which rolls one of this end's own     *)
(* back; handleSignal goes on to setLocalDescription.                      *)
RemoteOfferSet(e) ==
  /\ Turn(e, "remote") /\ Head(ops[e]).desc.type = "offer"
  /\ sig' = Set(sig, e, "have-remote-offer")
  /\ has' = Set(has, e, Head(ops[e]).desc.media) /\ heard' = Set(heard, e, Head(ops[e]).desc.of)
  /\ ops' = Set(ops, e, Append(Tail(ops[e]), Local))
  /\ UNCHANGED <<making, want, offered, told, offers, net, crossed>>

(* An answer that nothing waits for is an error, and is caught. *)
RemoteAnswerSet(e) ==
  LET desc == Head(ops[e]).desc IN
  /\ Turn(e, "remote") /\ desc.type = "answer"
  /\ IF sig[e] = "have-local-offer"
     THEN /\ sig' = Set(sig, e, "stable")
          /\ told' = Set(told, e, offered[e]) /\ has' = Set(has, e, desc.media)
     ELSE UNCHANGED <<sig, told, has>>
  /\ ops' = Set(ops, e, Tail(ops[e]))
  /\ UNCHANGED <<making, want, offered, offers, heard, net, crossed>>

-----------------------------------------------------------------------------
Works(e) ==
  \/ NegotiationNeeded(e) \/ HandleSignal(e)
  \/ OfferSet(e) \/ AnswerSet(e) \/ RemoteOfferSet(e) \/ RemoteAnswerSet(e)

Next == \E e \in End : Change(e) \/ Works(e)

Spec == Init /\ [][Next]_vars

(* Operations end, signals arrive, negotiationneeded fires. *)
LiveSpec == Spec /\ \A e \in End : WF_vars(Works(e))

-----------------------------------------------------------------------------
(* Properties *)

(* Both ends are stable and have what the other wants them to have. *)
Agreed ==
  \A e \in End : sig[e] = "stable" /\ told[e] = want[e] /\ has[Other(e)] = want[e]

(* An answer is set by an end that waits for one, and answers the offer it *)
(* waits with: none is of an offer rolled back.                            *)
AnswersMatch ==
  \A e \in End : Turn(e, "remote") /\ Head(ops[e]).desc.type = "answer"
    => sig[e] = "have-local-offer" /\ Head(ops[e]).desc.of = offers[e]

(* The polite end waits in vain: its offer came while the other was        *)
(* setting an answer, and was ignored.                                     *)
Stuck ==
  crossed # {} /\ sig["polite"] = "have-local-offer" /\ sig["impolite"] = "stable"

(* Nothing runs, is on the way or is due. *)
AtRest ==
  \A e \in End : ops[e] = <<>> /\ net[e] = <<>> /\ (sig[e] = "stable" => told[e] = want[e])

(* When all has come to rest, both ends have all of each other's media, but *)
(* for that crossing: neither a rollback nor an ignored offer leaves them   *)
(* with different ideas of what was agreed.                                 *)
RestsAgreed == AtRest => Agreed \/ Stuck

(* An answer that is sent is as good as set. *)
AnswerSent(e) ==
  SettingAnswer(e) \/ \E n \in 1 .. Len(net[e]) : net[e][n].type = "answer"

Exchanges == INSTANCE Agreement WITH
  agreed <- [e \in End |-> IF AnswerSent(e) THEN offered[e] ELSE told[e]]

(* Offers, rollbacks and answers amount to exchanges in one step: both ends *)
(* move on by the same answer, and never back to older media.               *)
ImplementsAgreement == Exchanges!Spec

(* However the changes at the two ends and their offers interleave, they    *)
(* end in agreement, but for that crossing.                                *)
Settles == <>[](Agreed \/ Stuck)

(* "perfect negotiation" [...] "renegotiates safely in both directions". *)
RenegotiatesSafely == <>[]Agreed
=============================================================================
