------------------------ MODULE NegotiationProofs ------------------------
(***************************************************************************)
(* For any number of changes at the two ends: an answer is set by the end  *)
(* that waits for it and answers the offer that this end waits with; when  *)
(* all rests the ends agree, but for the crossing that Stuck names; and    *)
(* the negotiation implements exchanges in one step.                       *)
(***************************************************************************)
EXTENDS Negotiation, SequenceTheorems, TLAPS

(* What the phases of an exchange are made of. *)
Idle(e) == sig[e] = "stable" /\ ~ making[e] /\ ops[e] = <<>>
Makes(e) == sig[e] = "stable" /\ making[e] /\ ops[e] = <<Local>>
Free(e) == Idle(e) \/ Makes(e)
Waits(e) == sig[e] = "have-local-offer" /\ ~ making[e]
Answering(e) ==
  /\ sig[e] = "have-remote-offer" /\ ~ making[e] /\ ops[e] = <<Local>>
  /\ heard[e] = offers[Other(e)]

AnOffer(d) == d.type = "offer"
OfferOf(e, d) == d.type = "offer" /\ d.of = offers[e] /\ d.media = offered[e]
AnswerTo(e, d) ==
  /\ d.type = "answer" /\ d.of = offers[e] /\ d.media = told[Other(e)]
  /\ has[Other(e)] = offered[e]

(* Each end has what the other takes for agreed. *)
Level == \A e \in End : told[e] = has[Other(e)]

-----------------------------------------------------------------------------
(* The phases of the exchange that e offers, ... *)

Settled == Level /\ \A e \in End : Free(e) /\ net[e] = <<>>

(* ... the offer is on its way, ... *)
Asked(e) ==
  LET f == Other(e) IN
  /\ Level /\ Waits(e) /\ ops[e] = <<>> /\ net[e] = <<>>
  /\ Free(f) /\ \E d \in Description : net[f] = <<d>> /\ OfferOf(e, d)

(* ... will be set, ... *)
Taken(e) ==
  LET f == Other(e) IN
  /\ Level /\ Waits(e) /\ ops[e] = <<>> /\ net[e] = <<>> /\ net[f] = <<>> /\ sig[f] = "stable"
  /\ \E d \in Description :
       /\ OfferOf(e, d)
       /\ \/ ~ making[f] /\ ops[f] = <<Remote(d)>>
          \/ Polite(f) /\ making[f] /\ ops[f] = <<Local, Remote(d)>>

(* ... is being answered (an offer of the polite end may be left over), ... *)
Told(e) ==
  LET f == Other(e) IN
  /\ Waits(e) /\ ops[e] = <<>> /\ net[f] = <<>> /\ Answering(f)
  /\ has[f] = offered[e] /\ has[e] = told[f]
  /\ \/ net[e] = <<>>
     \/ Polite(f) /\ \E d \in Description : net[e] = <<d>> /\ AnOffer(d)

(* ... the answer is on its way, ... *)
Answered(e) ==
  LET f == Other(e) IN
  /\ Waits(e) /\ ops[e] = <<>> /\ Free(f) /\ net[f] = <<>>
  /\ \E a \in Description :
       /\ AnswerTo(e, a)
       /\ \/ net[e] = <<a>>
          \/ Polite(f) /\ \E d \in Description : net[e] = <<d, a>> /\ AnOffer(d)

(* ... will be set. *)
Accepts(e) ==
  LET f == Other(e) IN
  /\ Waits(e) /\ Free(f) /\ net[e] = <<>> /\ net[f] = <<>>
  /\ \E a \in Description : AnswerTo(e, a) /\ ops[e] = <<Remote(a)>>

(* The polite end's offer has been ignored, for one that the impolite end   *)
(* was making, or while it was setting an answer.                           *)
Ignored ==
  /\ Level /\ (Makes("impolite") \/ crossed # {})
  /\ Waits("polite") /\ ops["polite"] = <<>> /\ Free("impolite")
  /\ \A e \in End : net[e] = <<>>

(* Both ends wait with an offer: the impolite end's is on its way ... *)
MayCome == net["impolite"] = <<>> \/ \E d \in Description : net["impolite"] = <<d>> /\ OfferOf("polite", d)

CrossedAsked ==
  /\ Waits("polite") /\ Waits("impolite") /\ ops["impolite"] = <<>>
  /\ \E d \in Description :
       /\ OfferOf("impolite", d)
       /\ \/ ops["polite"] = <<>> /\ net["polite"] = <<d>> /\ MayCome /\ Level
          \/ /\ net["impolite"] = <<>>
             /\ \E a \in Description :
                  /\ AnswerTo("polite", a)
                  /\ \/ ops["polite"] = <<>> /\ net["polite"] = <<a, d>>
                     \/ ops["polite"] = <<Remote(a)>> /\ net["polite"] = <<d>>

(* ... or will be set, ... *)
CrossedTaken ==
  /\ Waits("polite") /\ Waits("impolite") /\ ops["impolite"] = <<>> /\ net["polite"] = <<>>
  /\ \E d \in Description :
       /\ OfferOf("impolite", d)
       /\ \/ ops["polite"] = <<Remote(d)>> /\ MayCome /\ Level
          \/ /\ net["impolite"] = <<>>
             /\ \E a \in Description : AnswerTo("polite", a) /\ ops["polite"] = <<Remote(a), Remote(d)>>

(* ... or is answered already, on the way ... *)
CrossedAnswered ==
  /\ Waits("polite") /\ Waits("impolite") /\ net["polite"] = <<>>
  /\ ops["polite"] = <<>> /\ ops["impolite"] = <<>>
  /\ \E a, d \in Description :
       /\ AnswerTo("impolite", a) /\ OfferOf("polite", d)
       /\ \/ net["impolite"] = <<a, d>>
          \/ \E o \in Description : net["impolite"] = <<o, a, d>> /\ AnOffer(o)

(* ... or about to be set. *)
CrossedAccepts ==
  /\ Waits("polite") /\ Waits("impolite") /\ net["polite"] = <<>> /\ ops["polite"] = <<>>
  /\ \E a \in Description : AnswerTo("impolite", a) /\ ops["impolite"] = <<Remote(a)>>
  /\ MayCome /\ (net["impolite"] = <<>> => crossed # {})

InPhase ==
  \/ Settled \/ Ignored
  \/ \E e \in End : Asked(e) \/ Taken(e) \/ Told(e) \/ Answered(e) \/ Accepts(e)
  \/ CrossedAsked \/ CrossedTaken \/ CrossedAnswered \/ CrossedAccepts

-----------------------------------------------------------------------------
(* What single steps do. *)

LEMMA EndsGive ==
  /\ "polite" \in End /\ "impolite" \in End
  /\ Other("polite") = "impolite" /\ Other("impolite") = "polite"
  /\ \A e \in End : /\ Other(e) \in End /\ Other(e) # e /\ Other(Other(e)) = e
                    /\ \A g \in End : g = e \/ g = Other(e)
                    /\ Polite(e) <=> ~ Polite(Other(e))
                    /\ Polite(e) => e = "polite" /\ Other(e) = "impolite"
                    /\ ~ Polite(e) => e = "impolite" /\ Other(e) = "polite"
<1>1. \A f \in End : f # "polite" <=> f = "impolite"
  BY DEF End
<1>2. \A f \in End : f # "impolite" <=> f = "polite"
  BY DEF End
<1>3. Other("polite") = "impolite" /\ Other("impolite") = "polite"
  BY <1>1, <1>2 DEF Other, End
<1>4. QED
  BY <1>3 DEF End, Polite

LEMMA OneGives ==
  ASSUME NEW a
  PROVE  Append(<<>>, a) = <<a>> /\ Head(<<a>>) = a /\ Tail(<<a>>) = <<>> /\ <<a>> # <<>>
OBVIOUS

LEMMA TwoGive ==
  ASSUME NEW a, NEW b
  PROVE  /\ Append(<<a>>, b) = <<a, b>> /\ Head(<<a, b>>) = a /\ Tail(<<a, b>>) = <<b>>
         /\ <<a, b>> # <<>>
<1> DEFINE S == {a, b}
<1>1. /\ <<a, b>> \in Seq(S) /\ Append(<<a>>, b) \in Seq(S)
      /\ Len(Append(<<a>>, b)) = 2 /\ Len(<<a, b>>) = 2
  OBVIOUS
<1>2. \A i \in 1 .. 2 : Append(<<a>>, b)[i] = <<a, b>>[i]
  OBVIOUS
<1>3. Head(<<a, b>>) = a /\ Tail(<<a, b>>) = <<b>> /\ <<a, b>> # <<>>
  OBVIOUS
<1> HIDE DEF S
<1>4. QED
  BY <1>1, <1>2, <1>3, SeqEqual

LEMMA ThreeGive ==
  ASSUME NEW a, NEW b, NEW c
  PROVE  /\ Append(<<a, b>>, c) = <<a, b, c>> /\ Head(<<a, b, c>>) = a /\ Tail(<<a, b, c>>) = <<b, c>>
         /\ <<a, b, c>> # <<>>
<1> DEFINE S == {a, b, c}
<1>1. /\ <<a, b, c>> \in Seq(S) /\ Append(<<a, b>>, c) \in Seq(S)
      /\ Len(Append(<<a, b>>, c)) = 3 /\ Len(<<a, b, c>>) = 3
  OBVIOUS
<1>2. \A i \in 1 .. 3 : Append(<<a, b>>, c)[i] = <<a, b, c>>[i]
  OBVIOUS
<1>3. Head(<<a, b, c>>) = a /\ Tail(<<a, b, c>>) = <<b, c>> /\ <<a, b, c>> # <<>>
  OBVIOUS
<1> HIDE DEF S
<1>4. QED
  BY <1>1, <1>2, <1>3, SeqEqual

LEMMA OperationsGive ==
  ASSUME NEW d \in Description
  PROVE  /\ Local \in Operation /\ Remote(d) \in Operation
         /\ Local.do = "local" /\ Remote(d).do = "remote" /\ Remote(d).desc = d
BY DEF Local, Remote, Operation

LEMMA TypesGive ==
  ASSUME TypeOK, NEW e \in End
  PROVE  /\ net[e] # <<>> => Head(net[e]) \in Description /\ Tail(net[e]) \in Seq(Description)
         /\ ops[e] # <<>> => Head(ops[e]) \in Operation /\ Tail(ops[e]) \in Seq(Operation)
         /\ Turn(e, "remote") => Head(ops[e]).desc \in Description
<1>1. net[e] \in Seq(Description) /\ ops[e] \in Seq(Operation)
  BY DEF TypeOK
<1>2. net[e] # <<>> => Head(net[e]) \in Description /\ Tail(net[e]) \in Seq(Description)
  BY <1>1
<1>3. ops[e] # <<>> => Head(ops[e]) \in Operation /\ Tail(ops[e]) \in Seq(Operation)
  BY <1>1
<1>4. Turn(e, "remote") => Head(ops[e]).desc \in Description
  BY <1>3 DEF Turn, Operation
<1>5. QED
  BY <1>2, <1>3, <1>4

(* Exchanges leave the rest as it is until they end. *)
Keeps ==
  offered' = offered /\ told' = told /\ has' = has /\ (crossed # {} => crossed' # {})

LEMMA KeepsGive ==
  ASSUME Keeps, offers' = offers
  PROVE  /\ Level => Level'
         /\ \A e \in End, d \in Description :
              (OfferOf(e, d) => OfferOf(e, d)') /\ (AnswerTo(e, d) => AnswerTo(e, d)')
BY DEF Keeps, Level, OfferOf, AnswerTo

(* Queued or on its way, a description is one. *)
LEMMA AppendTypes ==
  ASSUME TypeOK, NEW e \in End, NEW d \in Description, NEW o \in Operation
  PROVE  Append(net[e], d) \in Seq(Description) /\ Append(ops[e], o) \in Seq(Operation)
         /\ (ops[e] # <<>> => Append(Tail(ops[e]), o) \in Seq(Operation))
BY DEF TypeOK

LEMMA NeededDoes ==
  ASSUME TypeOK, NEW e \in End, NEW f \in End, f = Other(e), NegotiationNeeded(e)
  PROVE  /\ Idle(e) \/ (sig[e] = "stable" /\ ops[e] = <<>> /\ making[e])
         /\ sig' = sig /\ net' = net /\ offers' = offers /\ heard' = heard
         /\ ops'[e] = <<Local>> /\ making'[e] /\ ops'[f] = ops[f] /\ making'[f] = making[f]
         /\ Keeps
BY EndsGive DEF NegotiationNeeded, Set, TypeOK, Idle, Keeps

LEMMA HandleDoes ==
  ASSUME TypeOK, NEW e \in End, NEW f \in End, f = Other(e), HandleSignal(e)
  PROVE  /\ net[e] # <<>> /\ net'[e] = Tail(net[e]) /\ net'[f] = net[f] /\ ops'[f] = ops[f]
         /\ sig' = sig /\ making' = making /\ offers' = offers /\ heard' = heard
         /\ IgnoreOffer(e, Head(net[e])) => ops'[e] = ops[e]
         /\ ~ IgnoreOffer(e, Head(net[e])) => ops'[e] = Append(ops[e], Remote(Head(net[e])))
         /\ IgnoreOffer(e, Head(net[e])) /\ SettingAnswer(e) => e \in crossed'
         /\ Keeps
BY EndsGive DEF HandleSignal, Set, TypeOK, Keeps

LEMMA OfferDoes ==
  ASSUME TypeOK, NEW e \in End, NEW f \in End, f = Other(e), OfferSet(e)
  PROVE  /\ ops[e] # <<>> /\ Head(ops[e]).do = "local" /\ sig[e] # "have-remote-offer"
         /\ sig'[e] = "have-local-offer" /\ ~ making'[e] /\ ops'[e] = Tail(ops[e])
         /\ net'[e] = net[e] /\ heard' = heard /\ sig'[f] = sig[f] /\ making'[f] = making[f]
         /\ ops'[f] = ops[f] /\ offers'[f] = offers[f]
         /\ told' = told /\ has' = has /\ offered'[f] = offered[f] /\ crossed' = crossed
         /\ \E d \in Description : net'[f] = Append(net[f], d) /\ OfferOf(e, d)'
<1> DEFINE d == [type |-> "offer", of |-> offers[e] + 1, media |-> want[e]]
<1>1. d \in Description /\ d.type = "offer" /\ d.of = offers[e] + 1 /\ d.media = want[e]
  BY DEF TypeOK, Description
<1>2. net' = [net EXCEPT ![f] = Append(@, d)] /\ offers' = [offers EXCEPT ![e] = @ + 1]
  BY DEF OfferSet, SendSignal
<1> HIDE DEF d
<1>3. net'[f] = Append(net[f], d) /\ net'[e] = net[e] /\ offers'[e] = offers[e] + 1 /\ offers'[f] = offers[f]
  BY <1>2, EndsGive DEF TypeOK
<1>4. offered'[e] = want[e] /\ offered'[f] = offered[f]
  BY EndsGive DEF OfferSet, Set, TypeOK
<1>5. /\ ops[e] # <<>> /\ Head(ops[e]).do = "local" /\ sig[e] # "have-remote-offer" /\ heard' = heard
      /\ told' = told /\ has' = has /\ crossed' = crossed
  BY DEF OfferSet, Turn
<1>6. /\ sig'[e] = "have-local-offer" /\ ~ making'[e] /\ ops'[e] = Tail(ops[e])
      /\ sig'[f] = sig[f] /\ making'[f] = making[f] /\ ops'[f] = ops[f]
  BY EndsGive DEF OfferSet, Set, TypeOK
<1>7. PICK x \in Description : x = d
  BY <1>1
<1>8. net'[f] = Append(net[f], x) /\ OfferOf(e, x)'
  BY <1>1, <1>3, <1>4, <1>7 DEF OfferOf
<1>9. QED
  BY <1>3, <1>4, <1>5, <1>6, <1>8

(* The end that makes an offer waits with it. *)
LEMMA MakesOffer ==
  ASSUME TypeOK, NEW e \in End, NEW f \in End, f = Other(e), OfferSet(e), Makes(e)
  PROVE  /\ Waits(e)' /\ ops'[e] = <<>> /\ net'[e] = net[e] /\ offers'[f] = offers[f]
         /\ sig'[f] = sig[f] /\ making'[f] = making[f] /\ ops'[f] = ops[f]
         /\ told' = told /\ has' = has /\ offered'[f] = offered[f] /\ crossed' = crossed
         /\ \E d \in Description : net'[f] = Append(net[f], d) /\ OfferOf(e, d)'
         /\ Level => Level'
         /\ \A a \in Description : (OfferOf(f, a) => OfferOf(f, a)') /\ (AnswerTo(f, a) => AnswerTo(f, a)')
<1>1. sig'[e] = "have-local-offer" /\ ~ making'[e] /\ ops'[e] = Tail(ops[e]) /\ ops[e] = <<Local>>
  BY OfferDoes DEF Makes
<1>2. ops'[e] = <<>>
  BY <1>1, OneGives
<1>3. PICK d \in Description : net'[f] = Append(net[f], d) /\ OfferOf(e, d)'
  BY OfferDoes
<1>4. /\ net'[e] = net[e] /\ sig'[f] = sig[f] /\ making'[f] = making[f]
      /\ ops'[f] = ops[f] /\ offers'[f] = offers[f]
      /\ told' = told /\ has' = has /\ offered'[f] = offered[f] /\ crossed' = crossed
  BY OfferDoes
<1>5. (Level => Level') /\ \A a \in Description : (OfferOf(f, a) => OfferOf(f, a)') /\ (AnswerTo(f, a) => AnswerTo(f, a)')
  BY <1>4 DEF Level, OfferOf, AnswerTo
<1>6. QED
  BY <1>1, <1>2, <1>3, <1>4, <1>5 DEF Waits

LEMMA AnswerDoes ==
  ASSUME TypeOK, NEW e \in End, NEW f \in End, f = Other(e), AnswerSet(e)
  PROVE  /\ ops[e] # <<>> /\ Head(ops[e]).do = "local" /\ sig[e] = "have-remote-offer"
         /\ sig'[e] = "stable" /\ ops'[e] = Tail(ops[e]) /\ making' = making
         /\ net'[e] = net[e] /\ heard' = heard /\ offers' = offers
         /\ sig'[f] = sig[f] /\ ops'[f] = ops[f]
         /\ has' = has /\ offered' = offered /\ told'[f] = told[f] /\ crossed' = crossed
         /\ told'[e] \in {want[e], told[e]}
         /\ \E a \in Description : /\ net'[f] = Append(net[f], a)
                                  /\ a.type = "answer" /\ a.of = heard[e] /\ a.media = told'[e]
<1>1. PICK media \in Media : /\ media \in {want[e], told[e]} /\ told' = Set(told, e, media)
                             /\ SendSignal(e, [type |-> "answer", of |-> heard[e], media |-> media])
  BY DEF AnswerSet, TypeOK
<1> DEFINE a == [type |-> "answer", of |-> heard[e], media |-> media]
<1>2. a \in Description /\ a.type = "answer" /\ a.of = heard[e] /\ a.media = media
  BY DEF TypeOK, Description
<1>3. net' = [net EXCEPT ![f] = Append(@, a)]
  BY <1>1 DEF SendSignal
<1> HIDE DEF a
<1>4. net'[f] = Append(net[f], a) /\ net'[e] = net[e]
  BY <1>3, EndsGive DEF TypeOK
<1>5. told'[e] = media /\ told'[f] = told[f] /\ has' = has /\ offered' = offered /\ crossed' = crossed
  BY <1>1, EndsGive DEF AnswerSet, Set, TypeOK
<1>6. /\ ops[e] # <<>> /\ Head(ops[e]).do = "local" /\ sig[e] = "have-remote-offer"
      /\ sig'[e] = "stable" /\ ops'[e] = Tail(ops[e]) /\ making' = making
      /\ heard' = heard /\ offers' = offers /\ sig'[f] = sig[f] /\ ops'[f] = ops[f]
  BY EndsGive DEF AnswerSet, Turn, Set, TypeOK
<1>7. QED
  BY <1>1, <1>2, <1>4, <1>5, <1>6

LEMMA RemoteOfferDoes ==
  ASSUME TypeOK, NEW e \in End, NEW f \in End, f = Other(e), RemoteOfferSet(e)
  PROVE  /\ ops[e] # <<>> /\ Head(ops[e]).do = "remote" /\ Head(ops[e]).desc.type = "offer"
         /\ sig'[e] = "have-remote-offer" /\ ops'[e] = Append(Tail(ops[e]), Local)
         /\ heard'[e] = Head(ops[e]).desc.of /\ heard'[f] = heard[f]
         /\ has'[e] = Head(ops[e]).desc.media /\ has'[f] = has[f]
         /\ told' = told /\ offered' = offered /\ crossed' = crossed
         /\ making' = making /\ net' = net /\ offers' = offers /\ sig'[f] = sig[f] /\ ops'[f] = ops[f]
BY EndsGive DEF RemoteOfferSet, Turn, Set, TypeOK

LEMMA RemoteAnswerDoes ==
  ASSUME TypeOK, NEW e \in End, NEW f \in End, f = Other(e), RemoteAnswerSet(e)
  PROVE  /\ ops[e] # <<>> /\ Head(ops[e]).do = "remote" /\ Head(ops[e]).desc.type = "answer"
         /\ sig[e] = "have-local-offer"
              => sig'[e] = "stable" /\ told'[e] = offered[e] /\ has'[e] = Head(ops[e]).desc.media
         /\ told'[f] = told[f] /\ has'[f] = has[f] /\ offered' = offered /\ crossed' = crossed
         /\ ops'[e] = Tail(ops[e]) /\ heard' = heard
         /\ making' = making /\ net' = net /\ offers' = offers /\ sig'[f] = sig[f] /\ ops'[f] = ops[f]
<1>1. /\ ops[e] # <<>> /\ Head(ops[e]).do = "remote" /\ Head(ops[e]).desc.type = "answer"
      /\ heard' = heard /\ making' = making /\ net' = net /\ offers' = offers
      /\ offered' = offered /\ crossed' = crossed
  BY DEF RemoteAnswerSet, Turn
<1>2. ops'[e] = Tail(ops[e]) /\ ops'[f] = ops[f]
  BY EndsGive DEF RemoteAnswerSet, Set, TypeOK
<1>3. sig'[f] = sig[f] /\ told'[f] = told[f] /\ has'[f] = has[f]
  BY EndsGive DEF RemoteAnswerSet, Set, TypeOK
<1>4. sig[e] = "have-local-offer"
        => sig'[e] = "stable" /\ told'[e] = offered[e] /\ has'[e] = Head(ops[e]).desc.media
  BY DEF RemoteAnswerSet, Set, TypeOK
<1>5. QED
  BY <1>1, <1>2, <1>3, <1>4

LEMMA TypeStep == TypeOK /\ [Next]_vars => TypeOK'
<1> SUFFICES ASSUME TypeOK, [Next]_vars PROVE TypeOK'
  OBVIOUS
<1>1. ASSUME NEW e \in End, Change(e)
      PROVE  TypeOK'
  <2>1. want[e] + 1 \in Media
    BY <1>1, ChangesIsPositive DEF TypeOK, Change, Media
  <2>2. QED
    BY <1>1, <2>1 DEF TypeOK, Change
<1>2. ASSUME NEW e \in End, NegotiationNeeded(e)
      PROVE  TypeOK'
  <2>1. <<Local>> \in Seq(Operation)
    BY DEF Local, Operation
  <2>2. QED
    BY <1>2, <2>1 DEF TypeOK, NegotiationNeeded, Set
<1>3. ASSUME NEW e \in End, HandleSignal(e)
      PROVE  TypeOK'
  <2>1. Head(net[e]) \in Description /\ Tail(net[e]) \in Seq(Description)
    BY <1>3, TypesGive DEF HandleSignal
  <2>2. Append(ops[e], Remote(Head(net[e]))) \in Seq(Operation)
    BY <2>1, OperationsGive, AppendTypes
  <2>3. net' \in [End -> Seq(Description)]
    BY <1>3, <2>1 DEF TypeOK, HandleSignal, Set
  <2>4. ops' \in [End -> Seq(Operation)] /\ crossed' \subseteq End
    BY <1>3, <2>2 DEF TypeOK, HandleSignal
  <2>5. QED
    BY <1>3, <2>3, <2>4 DEF TypeOK, HandleSignal
<1>4. ASSUME NEW e \in End, OfferSet(e)
      PROVE  TypeOK'
  <2>1. PICK f \in End : f = Other(e)
    BY EndsGive
  <2>2. [type |-> "offer", of |-> offers[e] + 1, media |-> want[e]] \in Description
    BY DEF TypeOK, Description
  <2>3. net' \in [End -> Seq(Description)]
    BY <1>4, <2>1, <2>2, AppendTypes, OperationsGive DEF TypeOK, OfferSet, SendSignal
  <2>4. ops' \in [End -> Seq(Operation)]
    BY <1>4, TypesGive DEF TypeOK, OfferSet, Set, Turn
  <2>5. offers' \in [End -> Nat] /\ offered' \in [End -> Media]
    BY <1>4 DEF TypeOK, OfferSet, Set
  <2>6. QED
    BY <1>4, <2>3, <2>4, <2>5 DEF TypeOK, OfferSet, Set
<1>5. ASSUME NEW e \in End, AnswerSet(e)
      PROVE  TypeOK'
  <2>1. PICK f \in End : f = Other(e)
    BY EndsGive
  <2>2. PICK media \in Media : /\ SendSignal(e, [type |-> "answer", of |-> heard[e], media |-> media])
                               /\ told' = Set(told, e, media)
    BY <1>5 DEF AnswerSet, TypeOK
  <2>3. [type |-> "answer", of |-> heard[e], media |-> media] \in Description
    BY DEF TypeOK, Description
  <2>4. net' \in [End -> Seq(Description)]
    BY <2>1, <2>2, <2>3, AppendTypes, OperationsGive DEF TypeOK, SendSignal
  <2>5. ops' \in [End -> Seq(Operation)]
    BY <1>5, TypesGive DEF TypeOK, AnswerSet, Set, Turn
  <2>6. QED
    BY <1>5, <2>2, <2>4, <2>5 DEF TypeOK, AnswerSet, Set
<1>6. ASSUME NEW e \in End, RemoteOfferSet(e)
      PROVE  TypeOK'
  <2>1. PICK d \in Description : d = Head(ops[e]).desc
    BY <1>6, TypesGive DEF RemoteOfferSet
  <2>2. d.of \in Nat /\ d.media \in Media
    BY DEF Description
  <2>3. ops' \in [End -> Seq(Operation)]
    BY <1>6, <2>1, OperationsGive, AppendTypes DEF TypeOK, RemoteOfferSet, Set, Turn
  <2>4. QED
    BY <1>6, <2>1, <2>2, <2>3 DEF TypeOK, RemoteOfferSet, Set
<1>7. ASSUME NEW e \in End, RemoteAnswerSet(e)
      PROVE  TypeOK'
  <2>1. PICK d \in Description : d = Head(ops[e]).desc
    BY <1>7, TypesGive DEF RemoteAnswerSet
  <2>2. d.media \in Media
    BY DEF Description
  <2>3. ops' \in [End -> Seq(Operation)]
    BY <1>7, TypesGive DEF TypeOK, RemoteAnswerSet, Set, Turn
  <2>4. QED
    BY <1>7, <2>1, <2>2, <2>3 DEF TypeOK, RemoteAnswerSet, Set
<1>8. CASE UNCHANGED vars
  BY <1>8 DEF TypeOK, vars
<1>9. QED
  BY <1>1, <1>2, <1>3, <1>4, <1>5, <1>6, <1>7, <1>8 DEF Next, Works

(* The types of the two ends (createPeer and handleSignal of call.ts). *)
THEOREM NegotiationTypeCorrect == Spec => []TypeOK
<1>1. Init => TypeOK
  BY ChangesIsPositive DEF Init, TypeOK, Media
<1>2. QED
  BY <1>1, TypeStep, PTL DEF Spec

-----------------------------------------------------------------------------
(* One lemma for each phase, by who acts: what its queues let it do, and   *)
(* the phase that follows.                                                 *)

LEMMA WorksGive ==
  ASSUME NEW e \in End, Works(e)
  PROVE  /\ ops[e] = <<>> => HandleSignal(e) \/ NegotiationNeeded(e)
         /\ ops[e] # <<>> /\ Head(ops[e]) = Local => HandleSignal(e) \/ OfferSet(e) \/ AnswerSet(e)
         /\ \A d \in Description : ops[e] # <<>> /\ Head(ops[e]) = Remote(d)
              => \/ HandleSignal(e)
                 \/ RemoteOfferSet(e) /\ d.type = "offer"
                 \/ RemoteAnswerSet(e) /\ d.type = "answer"
         /\ net[e] = <<>> => ~ HandleSignal(e)
         /\ sig[e] # "stable" => ~ NegotiationNeeded(e)
         /\ sig[e] # "have-remote-offer" => ~ AnswerSet(e)
         /\ sig[e] = "have-remote-offer" => ~ OfferSet(e)
<1>1. Local.do = "local" /\ \A d \in Description : Remote(d).do = "remote" /\ Remote(d).desc = d
  BY OperationsGive DEF Local
<1>2. /\ NegotiationNeeded(e) => ops[e] = <<>> /\ sig[e] = "stable"
      /\ HandleSignal(e) => net[e] # <<>>
      /\ OfferSet(e) => ops[e] # <<>> /\ Head(ops[e]).do = "local" /\ sig[e] # "have-remote-offer"
      /\ AnswerSet(e) => ops[e] # <<>> /\ Head(ops[e]).do = "local" /\ sig[e] = "have-remote-offer"
      /\ RemoteOfferSet(e) => ops[e] # <<>> /\ Head(ops[e]).do = "remote" /\ Head(ops[e]).desc.type = "offer"
      /\ RemoteAnswerSet(e) => ops[e] # <<>> /\ Head(ops[e]).do = "remote" /\ Head(ops[e]).desc.type = "answer"
  BY DEF NegotiationNeeded, HandleSignal, OfferSet, AnswerSet, RemoteOfferSet, RemoteAnswerSet, Turn
<1>3. \/ NegotiationNeeded(e) \/ HandleSignal(e) \/ OfferSet(e) \/ AnswerSet(e)
      \/ RemoteOfferSet(e) \/ RemoteAnswerSet(e)
  BY DEF Works
<1>4. ASSUME NEW d \in Description, ops[e] # <<>>, Head(ops[e]) = Remote(d)
      PROVE  \/ HandleSignal(e)
             \/ RemoteOfferSet(e) /\ d.type = "offer"
             \/ RemoteAnswerSet(e) /\ d.type = "answer"
  <2>1. Head(ops[e]).do = "remote" /\ Head(ops[e]).desc = d
    BY <1>1, <1>4
  <2>2. QED
    BY <1>2, <1>3, <1>4, <2>1
<1>5. ops[e] # <<>> /\ Head(ops[e]) = Local => HandleSignal(e) \/ OfferSet(e) \/ AnswerSet(e)
  BY <1>1, <1>2, <1>3
<1>6. QED
  BY <1>2, <1>3, <1>4, <1>5

(* An end that waits with an offer ignores the other's, unless it is polite. *)
LEMMA WaitingIgnores ==
  ASSUME NEW e \in End, NEW d \in Description
  PROVE  /\ Waits(e) /\ d.type = "offer" /\ ~ Polite(e) => IgnoreOffer(e, d)
         /\ Polite(e) \/ d.type = "answer" => ~ IgnoreOffer(e, d)
         /\ Idle(e) => ~ IgnoreOffer(e, d)
         /\ Makes(e) /\ d.type = "offer" /\ ~ Polite(e) => IgnoreOffer(e, d)
BY DEF IgnoreOffer, Collision, Waits, Idle, Makes

(* What a queue says of the first operation of an end. *)
LEMMA FirstRemote ==
  ASSUME NEW e \in End
  PROVE  /\ ops[e] = <<>> \/ ops[e] = <<Local>> => ~ Turn(e, "remote")
         /\ \A o \in Description : ops[e] = <<Local, Remote(o)>> => ~ Turn(e, "remote")
         /\ \A d, o \in Description : ops[e] = <<Remote(d)>> \/ ops[e] = <<Remote(d), Remote(o)>>
              => Head(ops[e]).desc = d
<1>1. Local.do = "local" /\ \A d \in Description : Remote(d).do = "remote" /\ Remote(d).desc = d
  BY OperationsGive DEF Local
<1>2. ops[e] = <<>> \/ ops[e] = <<Local>> => ~ Turn(e, "remote")
  BY <1>1, OneGives DEF Turn
<1>3. ASSUME NEW o \in Description, ops[e] = <<Local, Remote(o)>>
      PROVE  ~ Turn(e, "remote")
  BY <1>1, <1>3, TwoGive DEF Turn
<1>4. ASSUME NEW d \in Description, ops[e] = <<Remote(d)>>
      PROVE  Head(ops[e]).desc = d
  BY <1>1, <1>4, OneGives
<1>5. ASSUME NEW d \in Description, NEW o \in Description, ops[e] = <<Remote(d), Remote(o)>>
      PROVE  Head(ops[e]).desc = d
  BY <1>1, <1>5, TwoGive
<1>6. QED
  BY <1>2, <1>3, <1>4, <1>5

LEMMA SettingGives ==
  ASSUME NEW e \in End, NEW a \in Description, a.type = "answer", ops[e] = <<Remote(a)>>
  PROVE  SettingAnswer(e)
<1>1. Remote(a).do = "remote" /\ Remote(a).desc = a
  BY OperationsGive
<1>2. 1 \in 1 .. Len(ops[e]) /\ ops[e][1] = Remote(a)
  OBVIOUS
<1>3. QED
  BY <1>1, <1>2 DEF SettingAnswer

(* With the answer that is set, both ends have agreed to the same media. *)
LEMMA AnswerLevels ==
  ASSUME TypeOK, NEW e \in End, NEW f \in End, f = Other(e), RemoteAnswerSet(e), Waits(e),
         NEW a \in Description, AnswerTo(e, a), Head(ops[e]) = Remote(a)
  PROVE  /\ told'[e] = has'[f] /\ told'[f] = has'[e]
         /\ sig'[e] = "stable" /\ offered' = offered /\ crossed' = crossed
<1>1. Head(ops[e]).desc = a
  BY OperationsGive
<1>2. a.media = told[f] /\ has[f] = offered[e] /\ sig[e] = "have-local-offer"
  BY DEF AnswerTo, Waits
<1>3. /\ sig'[e] = "stable" /\ told'[e] = offered[e] /\ has'[e] = a.media
      /\ told'[f] = told[f] /\ has'[f] = has[f] /\ offered' = offered /\ crossed' = crossed
  BY <1>1, <1>2, RemoteAnswerDoes
<1>4. QED
  BY <1>2, <1>3

LEMMA SettledStep ==
  ASSUME TypeOK, Settled, NEW g \in End, Works(g)
  PROVE  InPhase'
<1>1. PICK f \in End : f = Other(g) /\ f # g /\ g = Other(f) /\ \A e \in End : e = g \/ e = f
  BY EndsGive
<1>2. CASE NegotiationNeeded(g)
  <2>1. Free(g)' /\ Free(f)' /\ net' = net /\ offers' = offers /\ Keeps
    BY <1>1, <1>2, NeededDoes DEF Settled, Free, Idle, Makes
  <2>2. Settled'
    BY <1>1, <2>1, KeepsGive DEF Settled
  <2>3. QED
    BY <2>2 DEF InPhase
<1>3. CASE OfferSet(g) /\ Makes(g)
  <2>1. PICK d \in Description : net'[f] = Append(net[f], d) /\ OfferOf(g, d)'
    BY <1>1, <1>3, MakesOffer
  <2>2. net'[f] = <<d>>
    BY <2>1, OneGives DEF Settled
  <2>3. Waits(g)' /\ ops'[g] = <<>> /\ net'[g] = <<>> /\ Level'
    BY <1>1, <1>3, MakesOffer DEF Settled
  <2>4. Free(f)'
    BY <1>1, <1>3, MakesOffer DEF Settled, Free, Idle, Makes
  <2>5. Asked(g)'
    BY <1>1, <2>1, <2>2, <2>3, <2>4 DEF Asked
  <2>6. QED
    BY <2>5 DEF InPhase
<1>4. QED
  <2>1. Makes(g) => ops[g] # <<>> /\ Head(ops[g]) = Local
    BY OneGives DEF Makes
  <2>2. net[g] = <<>> /\ sig[g] = "stable" /\ (ops[g] = <<>> \/ Makes(g))
    BY DEF Settled, Free, Idle, Makes
  <2>3. QED
    BY <1>2, <1>3, <2>1, <2>2, WorksGive

(* In the other phases one end waits with an offer, and its queue is all   *)
(* that it works on.                                                       *)
LEMMA AskedStep ==
  ASSUME TypeOK, NEW e \in End, Asked(e), NEW g \in End, Works(g)
  PROVE  InPhase'
<1>1. PICK f \in End : f = Other(e) /\ f # e /\ e = Other(f) /\ (g = e \/ g = f)
  BY EndsGive
<1>2. PICK d \in Description : net[f] = <<d>> /\ OfferOf(e, d)
  BY <1>1 DEF Asked
<1>3. net[f] # <<>> /\ Head(net[f]) = d /\ Tail(net[f]) = <<>> /\ d.type = "offer" /\ d.of = offers[e]
  BY <1>2, OneGives DEF OfferOf
<1>4. sig[e] = "have-local-offer" /\ ~ making[e] /\ ops[e] = <<>> /\ net[e] = <<>> /\ (Idle(f) \/ Makes(f)) /\ Level
  BY <1>1 DEF Asked, Waits, Free
<1>5. CASE NegotiationNeeded(f)
  <2>1. Free(f)' /\ Waits(e)' /\ ops'[e] = <<>> /\ net' = net /\ offers' = offers /\ Keeps
    BY <1>1, <1>4, <1>5, NeededDoes DEF Free, Idle, Makes, Waits
  <2>2. Asked(e)'
    BY <1>1, <1>2, <1>4, <2>1, KeepsGive DEF Asked
  <2>3. QED
    BY <2>2 DEF InPhase
<1>6. CASE HandleSignal(f)
  <2>1. /\ Waits(e)' /\ ops'[e] = <<>> /\ net'[e] = <<>> /\ net'[f] = <<>> /\ offers' = offers
        /\ sig'[f] = sig[f] /\ making'[f] = making[f] /\ Level' /\ OfferOf(e, d)'
        /\ IgnoreOffer(f, d) => ops'[f] = ops[f]
        /\ ~ IgnoreOffer(f, d) => ops'[f] = Append(ops[f], Remote(d))
    BY <1>1, <1>2, <1>3, <1>4, <1>6, HandleDoes, KeepsGive DEF Waits
  <2>2. CASE Idle(f)
    <3>1. sig'[f] = "stable" /\ ~ making'[f] /\ ops'[f] = <<Remote(d)>>
      BY <1>1, <2>1, <2>2, WaitingIgnores, OneGives DEF Idle
    <3>2. Taken(e)'
      BY <1>1, <2>1, <3>1 DEF Taken
    <3>3. QED
      BY <3>2 DEF InPhase
  <2>3. CASE Makes(f) /\ Polite(f)
    <3>1. sig'[f] = "stable" /\ making'[f] /\ ops'[f] = <<Local, Remote(d)>>
      BY <1>1, <2>1, <2>3, WaitingIgnores, TwoGive DEF Makes
    <3>2. Taken(e)'
      BY <1>1, <2>1, <2>3, <3>1 DEF Taken, Polite
    <3>3. QED
      BY <3>2 DEF InPhase
  <2>4. CASE Makes(f) /\ ~ Polite(f)
    <3>1. Makes(f)'
      BY <1>1, <1>3, <2>1, <2>4, WaitingIgnores DEF Makes
    <3>2. f = "impolite" /\ e = "polite"
      BY <1>1, <2>4, EndsGive
    <3>3. Ignored'
      BY <1>1, <2>1, <3>1, <3>2, EndsGive DEF Ignored, Free
    <3>4. QED
      BY <3>3 DEF InPhase
  <2>5. QED
    BY <1>4, <2>2, <2>3, <2>4
<1>7. CASE OfferSet(f) /\ Makes(f)
  <2>1. PICK o \in Description : net'[e] = Append(net[e], o) /\ OfferOf(f, o)'
    BY <1>1, <1>7, MakesOffer
  <2>2. net'[e] = <<o>> /\ net'[f] = <<d>> /\ OfferOf(e, d)' /\ Level'
    BY <1>1, <1>2, <1>4, <1>7, <2>1, OneGives, MakesOffer
  <2>3. Waits(e)' /\ Waits(f)' /\ ops'[e] = <<>> /\ ops'[f] = <<>>
    BY <1>1, <1>4, <1>7, MakesOffer DEF Waits
  <2>4. CASE e = "polite"
    <3>1. f = "impolite"
      BY <1>1, <2>4, EndsGive
    <3>2. CrossedAsked'
      BY <2>1, <2>2, <2>3, <2>4, <3>1 DEF CrossedAsked, MayCome
    <3>3. QED
      BY <3>2 DEF InPhase
  <2>5. CASE e = "impolite"
    <3>1. f = "polite"
      BY <1>1, <2>5, EndsGive
    <3>2. CrossedAsked'
      BY <2>1, <2>2, <2>3, <2>5, <3>1 DEF CrossedAsked, MayCome
    <3>3. QED
      BY <3>2 DEF InPhase
  <2>6. QED
    BY <2>4, <2>5 DEF End
<1>8. QED
  <2>1. Makes(f) => ops[f] # <<>> /\ Head(ops[f]) = Local
    BY OneGives DEF Makes
  <2>2. sig[f] = "stable" /\ (ops[f] = <<>> \/ Makes(f))
    BY <1>4 DEF Idle, Makes
  <2>3. g = f
    BY <1>1, <1>4, WorksGive
  <2>4. QED
    BY <1>5, <1>6, <1>7, <2>1, <2>2, <2>3, WorksGive

LEMMA TakenStep ==
  ASSUME TypeOK, NEW e \in End, Taken(e), NEW g \in End, Works(g)
  PROVE  InPhase'
<1>1. PICK f \in End : f = Other(e) /\ f # e /\ e = Other(f) /\ (g = e \/ g = f)
  BY EndsGive
<1>2. /\ sig[e] = "have-local-offer" /\ ~ making[e] /\ ops[e] = <<>>
      /\ net[e] = <<>> /\ net[f] = <<>> /\ sig[f] = "stable" /\ Level
  BY <1>1 DEF Taken, Waits
<1>3. PICK d \in Description :
        /\ OfferOf(e, d)
        /\ \/ ~ making[f] /\ ops[f] = <<Remote(d)>>
           \/ Polite(f) /\ making[f] /\ ops[f] = <<Local, Remote(d)>>
  BY <1>1 DEF Taken
<1>4. g = f /\ ~ HandleSignal(f) /\ ~ AnswerSet(f)
  BY <1>1, <1>2, WorksGive
<1>5. CASE ~ making[f] /\ ops[f] = <<Remote(d)>>
  <2>1. ops[f] # <<>> /\ Head(ops[f]) = Remote(d) /\ Tail(ops[f]) = <<>> /\ d.type = "offer" /\ d.of = offers[e] /\ d.media = offered[e]
    BY <1>3, <1>5, OneGives DEF OfferOf
  <2>2. RemoteOfferSet(f) /\ Head(ops[f]).desc = d
    BY <1>4, <2>1, WorksGive, OperationsGive
  <2>3. /\ sig'[f] = "have-remote-offer" /\ ops'[f] = Append(<<>>, Local) /\ heard'[f] = d.of
        /\ making' = making /\ net' = net /\ offers' = offers /\ sig'[e] = sig[e] /\ ops'[e] = ops[e]
        /\ has'[f] = offered'[e] /\ has'[e] = told'[f]
    BY <1>1, <1>2, <2>1, <2>2, RemoteOfferDoes DEF Level
  <2>4. Waits(e)' /\ Answering(f)'
    BY <1>1, <1>2, <1>5, <2>1, <2>3, OneGives DEF Waits, Answering
  <2>5. Told(e)'
    BY <1>1, <1>2, <2>3, <2>4 DEF Told
  <2>6. QED
    BY <2>5 DEF InPhase
<1>6. CASE Polite(f) /\ making[f] /\ ops[f] = <<Local, Remote(d)>>
  <2>1. ops[f] # <<>> /\ Head(ops[f]) = Local /\ Tail(ops[f]) = <<Remote(d)>>
    BY <1>6, TwoGive
  <2>2. OfferSet(f)
    BY <1>4, <2>1, WorksGive
  <2>3. f = "polite" /\ e = "impolite"
    BY <1>1, <1>6, EndsGive
  <2>4. PICK o \in Description : net'[e] = Append(net[e], o) /\ OfferOf(f, o)'
    BY <1>1, <2>2, OfferDoes
  <2>5. net'[e] = <<o>>
    BY <1>2, <2>4, OneGives
  <2>6. Waits(f)' /\ Waits(e)' /\ ops'[e] = <<>> /\ ops'[f] = <<Remote(d)>> /\ net'[f] = <<>>
    BY <1>1, <1>2, <2>1, <2>2, OfferDoes DEF Waits
  <2>7. told' = told /\ has' = has /\ offered'[e] = offered[e] /\ offers'[e] = offers[e]
    BY <1>1, <2>2, OfferDoes
  <2>8. OfferOf(e, d)' /\ Level'
    BY <1>2, <1>3, <2>7 DEF OfferOf, Level
  <2>9. CrossedTaken'
    BY <2>3, <2>4, <2>5, <2>6, <2>8 DEF CrossedTaken, MayCome
  <2>10. QED
    BY <2>9 DEF InPhase
<1>7. QED
  BY <1>3, <1>5, <1>6

LEMMA ToldStep ==
  ASSUME TypeOK, NEW e \in End, Told(e), NEW g \in End, Works(g)
  PROVE  InPhase'
<1>1. PICK f \in End : f = Other(e) /\ f # e /\ e = Other(f) /\ (g = e \/ g = f)
  BY EndsGive
<1>2. /\ Waits(e) /\ sig[e] = "have-local-offer" /\ ~ making[e] /\ ops[e] = <<>> /\ net[f] = <<>>
      /\ sig[f] = "have-remote-offer" /\ ~ making[f] /\ ops[f] = <<Local>> /\ heard[f] = offers[e]
      /\ has[f] = offered[e] /\ has[e] = told[f]
  BY <1>1 DEF Told, Waits, Answering
<1>3. \/ net[e] = <<>>
      \/ Polite(f) /\ \E d \in Description : net[e] = <<d>> /\ AnOffer(d)
  BY <1>1 DEF Told
<1>4. CASE HandleSignal(e)
  <2>1. PICK d \in Description : net[e] = <<d>> /\ d.type = "offer" /\ Polite(f)
    BY <1>3, <1>4, HandleDoes, <1>1 DEF AnOffer
  <2>2. Head(net[e]) = d /\ Tail(net[e]) = <<>>
    BY <2>1, OneGives
  <2>3. IgnoreOffer(e, d)
    BY <1>1, <1>2, <2>1, EndsGive, WaitingIgnores
  <2>4. /\ net'[e] = <<>> /\ net'[f] = <<>> /\ ops'[e] = <<>> /\ ops'[f] = ops[f]
        /\ sig' = sig /\ making' = making /\ offers' = offers /\ heard' = heard /\ Keeps
    BY <1>1, <1>2, <1>4, <2>2, <2>3, HandleDoes
  <2>5. Told(e)'
    BY <1>1, <1>2, <2>4 DEF Told, Waits, Answering, Keeps
  <2>6. QED
    BY <2>5 DEF InPhase
<1>5. CASE AnswerSet(f)
  <2>1. PICK a \in Description : net'[e] = Append(net[e], a) /\ a.type = "answer" /\ a.of = heard[f] /\ a.media = told'[f]
    BY <1>1, <1>5, AnswerDoes
  <2>2. /\ sig'[f] = "stable" /\ ops'[f] = Tail(ops[f]) /\ making' = making
        /\ net'[f] = <<>> /\ offers' = offers /\ sig'[e] = sig[e] /\ ops'[e] = <<>>
        /\ has' = has /\ offered' = offered
    BY <1>1, <1>2, <1>5, AnswerDoes
  <2>3. Waits(e)' /\ Free(f)' /\ AnswerTo(e, a)'
    BY <1>1, <1>2, <2>1, <2>2, OneGives DEF Waits, Free, Idle, AnswerTo
  <2>4. \/ net'[e] = <<a>>
        \/ Polite(f) /\ \E d \in Description : net'[e] = <<d, a>> /\ AnOffer(d)
    <3>1. net[e] = <<>> => net'[e] = <<a>>
      BY <2>1, OneGives
    <3>2. \A d \in Description : net[e] = <<d>> => net'[e] = <<d, a>>
      BY <2>1, TwoGive
    <3>3. QED
      BY <1>3, <3>1, <3>2
  <2>5. Answered(e)'
    BY <1>1, <2>2, <2>3, <2>4 DEF Answered, Polite
  <2>6. QED
    BY <2>5 DEF InPhase
<1>6. QED
  <2>1. ops[f] # <<>> /\ Head(ops[f]) = Local
    BY <1>2, OneGives
  <2>2. g = e => HandleSignal(e)
    BY <1>2, WorksGive
  <2>3. g = f => AnswerSet(f)
    BY <1>2, <2>1, WorksGive
  <2>4. QED
    BY <1>1, <1>4, <1>5, <2>2, <2>3

LEMMA AnsweredStep ==
  ASSUME TypeOK, NEW e \in End, Answered(e), NEW g \in End, Works(g)
  PROVE  InPhase'
<1>1. PICK f \in End : f = Other(e) /\ f # e /\ e = Other(f) /\ (g = e \/ g = f)
  BY EndsGive
<1>2. /\ Waits(e) /\ sig[e] = "have-local-offer" /\ ~ making[e] /\ ops[e] = <<>> /\ net[f] = <<>>
      /\ Idle(f) \/ Makes(f)
  BY <1>1 DEF Answered, Waits, Free
<1>3. PICK a \in Description :
        /\ AnswerTo(e, a)
        /\ \/ net[e] = <<a>>
           \/ Polite(f) /\ \E d \in Description : net[e] = <<d, a>> /\ AnOffer(d)
  BY <1>1 DEF Answered
<1>4. CASE NegotiationNeeded(f)
  <2>1. Free(f)' /\ Waits(e)' /\ ops'[e] = <<>> /\ net' = net /\ offers' = offers /\ Keeps
    BY <1>1, <1>2, <1>4, NeededDoes DEF Free, Idle, Makes, Waits
  <2>2. AnswerTo(e, a)'
    BY <1>1, <1>3, <2>1, KeepsGive
  <2>3. Answered(e)'
    BY <1>1, <1>2, <1>3, <2>1, <2>2 DEF Answered, Polite, AnOffer
  <2>4. QED
    BY <2>3 DEF InPhase
<1>5. CASE HandleSignal(e) /\ net[e] = <<a>>
  <2>1. Head(net[e]) = a /\ Tail(net[e]) = <<>>
    BY <1>5, OneGives
  <2>2. ~ IgnoreOffer(e, a)
    BY <1>3, WaitingIgnores DEF AnswerTo
  <2>3. /\ net'[e] = <<>> /\ net'[f] = <<>> /\ ops'[e] = Append(ops[e], Remote(a)) /\ ops'[f] = ops[f]
        /\ sig' = sig /\ making' = making /\ offers' = offers /\ AnswerTo(e, a)'
    BY <1>1, <1>2, <1>3, <1>5, <2>1, <2>2, HandleDoes, KeepsGive
  <2>4. Waits(e)' /\ Free(f)' /\ AnswerTo(e, a)' /\ ops'[e] = <<Remote(a)>>
    BY <1>2, <1>3, <2>3, OneGives DEF Waits, Free, Idle, Makes
  <2>5. Accepts(e)'
    BY <1>1, <2>3, <2>4 DEF Accepts
  <2>6. QED
    BY <2>5 DEF InPhase
<1>6. ASSUME HandleSignal(e), Polite(f), NEW d \in Description, net[e] = <<d, a>>, AnOffer(d)
      PROVE  InPhase'
  <2>1. Head(net[e]) = d /\ Tail(net[e]) = <<a>>
    BY <1>6, TwoGive
  <2>2. IgnoreOffer(e, d)
    BY <1>1, <1>2, <1>6, EndsGive, WaitingIgnores DEF AnOffer
  <2>3. /\ net'[e] = <<a>> /\ net'[f] = <<>> /\ ops'[e] = <<>> /\ ops'[f] = ops[f]
        /\ sig' = sig /\ making' = making /\ offers' = offers /\ AnswerTo(e, a)'
    BY <1>1, <1>2, <1>3, <1>6, <2>1, <2>2, HandleDoes, KeepsGive
  <2>4. Waits(e)' /\ Free(f)' /\ AnswerTo(e, a)'
    BY <1>2, <1>3, <2>3 DEF Waits, Free, Idle, Makes
  <2>5. Answered(e)'
    BY <1>1, <2>3, <2>4 DEF Answered
  <2>6. QED
    BY <2>5 DEF InPhase
<1>7. CASE OfferSet(f) /\ Makes(f)
  <2>1. PICK o \in Description : net'[e] = Append(net[e], o) /\ OfferOf(f, o)'
    BY <1>1, <1>7, MakesOffer
  <2>2. Waits(e)' /\ Waits(f)' /\ ops'[e] = <<>> /\ ops'[f] = <<>> /\ net'[f] = <<>> /\ AnswerTo(e, a)'
    BY <1>1, <1>2, <1>3, <1>7, MakesOffer DEF Waits
  <2>3. CASE ~ Polite(f)
    <3>1. f = "impolite" /\ e = "polite"
      BY <1>1, <2>3, EndsGive
    <3>2. net'[e] = <<a, o>>
      BY <1>3, <2>1, <2>3, TwoGive
    <3>3. CrossedAsked'
      BY <2>1, <2>2, <3>1, <3>2 DEF CrossedAsked
    <3>4. QED
      BY <3>3 DEF InPhase
  <2>4. CASE Polite(f)
    <3>1. f = "polite" /\ e = "impolite"
      BY <1>1, <2>4, EndsGive
    <3>2. net'[e] = <<a, o>> \/ \E d \in Description : net'[e] = <<d, a, o>> /\ AnOffer(d)
      <4>1. net[e] = <<a>> => net'[e] = <<a, o>>
        BY <2>1, TwoGive
      <4>2. \A d \in Description : net[e] = <<d, a>> => net'[e] = <<d, a, o>>
        <5>1. \A d \in Description : Append(<<d, a>>, o) = <<d, a, o>>
          BY ThreeGive
        <5>2. QED
          BY <2>1, <5>1
      <4>3. QED
        BY <1>3, <4>1, <4>2
    <3>3. CrossedAnswered'
      BY <2>1, <2>2, <3>1, <3>2 DEF CrossedAnswered, AnOffer
    <3>4. QED
      BY <3>3 DEF InPhase
  <2>5. QED
    BY <2>3, <2>4
<1>8. QED
  <2>1. Makes(f) => ops[f] # <<>> /\ Head(ops[f]) = Local
    BY OneGives DEF Makes
  <2>2. sig[f] = "stable" /\ (ops[f] = <<>> \/ Makes(f))
    BY <1>2 DEF Idle, Makes
  <2>3. g = e => HandleSignal(e)
    BY <1>2, WorksGive
  <2>4. g = f => NegotiationNeeded(f) \/ (OfferSet(f) /\ Makes(f))
    BY <1>2, <2>1, <2>2, WorksGive
  <2>5. QED
    BY <1>1, <1>3, <1>4, <1>5, <1>6, <1>7, <2>3, <2>4

LEMMA AcceptsStep ==
  ASSUME TypeOK, NEW e \in End, Accepts(e), NEW g \in End, Works(g)
  PROVE  InPhase'
<1>1. PICK f \in End : f = Other(e) /\ f # e /\ e = Other(f) /\ (g = e \/ g = f)
  BY EndsGive
<1>2. /\ Waits(e) /\ sig[e] = "have-local-offer" /\ ~ making[e] /\ net[e] = <<>> /\ net[f] = <<>>
      /\ Idle(f) \/ Makes(f)
  BY <1>1 DEF Accepts, Waits, Free
<1>3. PICK a \in Description : AnswerTo(e, a) /\ ops[e] = <<Remote(a)>>
  BY <1>1 DEF Accepts
<1>4. CASE NegotiationNeeded(f)
  <2>1. Free(f)' /\ Waits(e)' /\ ops'[e] = ops[e] /\ net' = net /\ offers' = offers /\ Keeps
    BY <1>1, <1>2, <1>4, NeededDoes DEF Free, Idle, Makes, Waits
  <2>2. AnswerTo(e, a)'
    BY <1>1, <1>3, <2>1, KeepsGive
  <2>3. Accepts(e)'
    BY <1>1, <1>2, <1>3, <2>1, <2>2 DEF Accepts
  <2>4. QED
    BY <2>3 DEF InPhase
<1>5. CASE RemoteAnswerSet(e)
  <2>1. /\ sig'[e] = "stable" /\ ops'[e] = Tail(ops[e]) /\ making' = making
        /\ net' = net /\ sig'[f] = sig[f] /\ ops'[f] = ops[f]
    BY <1>1, <1>2, <1>5, RemoteAnswerDoes
  <2>2. Free(e)' /\ Free(f)'
    BY <1>2, <1>3, <2>1, OneGives DEF Free, Idle, Makes
  <2>3. told'[e] = has'[f] /\ told'[f] = has'[e] /\ \A x \in End : x = e \/ x = f
    BY <1>1, <1>2, <1>3, <1>5, EndsGive, OneGives, AnswerLevels
  <2>4. Settled'
    BY <1>1, <1>2, <2>1, <2>2, <2>3 DEF Settled, Level
  <2>5. QED
    BY <2>4 DEF InPhase
<1>6. CASE OfferSet(f) /\ Makes(f)
  <2>1. PICK o \in Description : net'[e] = Append(net[e], o) /\ OfferOf(f, o)'
    BY <1>1, <1>6, MakesOffer
  <2>2. /\ Waits(e)' /\ Waits(f)' /\ ops'[e] = <<Remote(a)>> /\ ops'[f] = <<>> /\ net'[f] = <<>>
        /\ AnswerTo(e, a)'
    BY <1>1, <1>2, <1>3, <1>6, MakesOffer DEF Waits
  <2>3. net'[e] = <<o>>
    BY <1>2, <2>1, OneGives
  <2>4. CASE ~ Polite(f)
    <3>1. f = "impolite" /\ e = "polite"
      BY <1>1, <2>4, EndsGive
    <3>2. CrossedAsked'
      BY <2>1, <2>2, <2>3, <3>1 DEF CrossedAsked
    <3>3. QED
      BY <3>2 DEF InPhase
  <2>5. CASE Polite(f)
    <3>1. f = "polite" /\ e = "impolite"
      BY <1>1, <2>5, EndsGive
    <3>2. CrossedAccepts'
      BY <2>1, <2>2, <2>3, <3>1 DEF CrossedAccepts, MayCome
    <3>3. QED
      BY <3>2 DEF InPhase
  <2>6. QED
    BY <2>4, <2>5
<1>7. QED
  <2>1. Makes(f) => ops[f] # <<>> /\ Head(ops[f]) = Local
    BY OneGives DEF Makes
  <2>2. sig[f] = "stable" /\ (ops[f] = <<>> \/ Makes(f))
    BY <1>2 DEF Idle, Makes
  <2>3. ops[e] # <<>> /\ Head(ops[e]) = Remote(a) /\ a.type = "answer"
    BY <1>3, OneGives DEF AnswerTo
  <2>4. g = e => RemoteAnswerSet(e)
    BY <1>2, <2>3, WorksGive
  <2>5. g = f => NegotiationNeeded(f) \/ (OfferSet(f) /\ Makes(f))
    BY <1>2, <2>1, <2>2, WorksGive
  <2>6. QED
    BY <1>1, <1>4, <1>5, <1>6, <2>4, <2>5

LEMMA IgnoredStep ==
  ASSUME TypeOK, Ignored, NEW g \in End, Works(g)
  PROVE  InPhase'
<1> DEFINE e == "polite"
           f == "impolite"
<1>1. f = Other(e) /\ f # e /\ e = Other(f) /\ e \in End /\ f \in End /\ (g = e \/ g = f)
  BY EndsGive DEF End
<1>2. /\ Waits(e) /\ sig[e] = "have-local-offer" /\ ~ making[e] /\ ops[e] = <<>>
      /\ net[e] = <<>> /\ net[f] = <<>>
      /\ Idle(f) \/ Makes(f)
      /\ Level
  BY <1>1 DEF Ignored, Waits, Free
<1>3. CASE NegotiationNeeded(f)
  <2>1. Free(f)' /\ Waits(e)' /\ ops'[e] = <<>> /\ net' = net /\ Level' /\ Makes(f)'
    BY <1>1, <1>2, <1>3, NeededDoes, KeepsGive DEF Free, Idle, Makes, Waits
  <2>2. Ignored'
    BY <1>1, <1>2, <2>1, EndsGive DEF Ignored
  <2>3. QED
    BY <2>2 DEF InPhase
<1>4. CASE OfferSet(f) /\ Makes(f)
  <2>1. PICK o \in Description : net'[e] = Append(net[e], o) /\ OfferOf(f, o)'
    BY <1>1, <1>4, MakesOffer
  <2>2. /\ Waits(e)' /\ Waits(f)' /\ ops'[e] = <<>> /\ ops'[f] = <<>>
        /\ net'[f] = <<>> /\ net'[e] = <<o>> /\ Level'
    BY <1>1, <1>2, <1>4, <2>1, MakesOffer, OneGives DEF Waits
  <2>3. CrossedAsked'
    BY <2>1, <2>2 DEF CrossedAsked, MayCome
  <2>4. QED
    BY <2>3 DEF InPhase
<1>5. QED
  <2>1. Makes(f) => ops[f] # <<>> /\ Head(ops[f]) = Local
    BY OneGives DEF Makes
  <2>2. sig[f] = "stable" /\ (ops[f] = <<>> \/ Makes(f))
    BY <1>2 DEF Idle, Makes
  <2>3. g = f
    BY <1>1, <1>2, WorksGive
  <2>4. QED
    BY <1>1, <1>2, <1>3, <1>4, <2>1, <2>2, <2>3, WorksGive

(* While both ends wait, the impolite end ignores the offer that may come. *)
LEMMA IgnoresWhatComes ==
  ASSUME TypeOK, MayCome, HandleSignal("impolite"), Waits("impolite")
  PROVE  /\ net'["impolite"] = <<>> /\ net'["polite"] = net["polite"] /\ ops' = ops
         /\ sig' = sig /\ making' = making /\ offers' = offers /\ heard' = heard /\ Keeps
         /\ SettingAnswer("impolite") => crossed' # {}
<1>1. "impolite" \in End /\ "polite" = Other("impolite") /\ ~ Polite("impolite")
  BY EndsGive DEF Polite
<1>2. PICK d \in Description : net["impolite"] = <<d>> /\ d.type = "offer"
  BY <1>1, HandleDoes, EndsGive DEF MayCome, OfferOf
<1>3. Head(net["impolite"]) = d /\ Tail(net["impolite"]) = <<>>
  BY <1>2, OneGives
<1>4. IgnoreOffer("impolite", d)
  BY <1>1, <1>2, WaitingIgnores
<1>5. /\ net'["impolite"] = <<>> /\ net'["polite"] = net["polite"]
      /\ sig' = sig /\ making' = making /\ offers' = offers /\ heard' = heard /\ Keeps
      /\ SettingAnswer("impolite") => crossed' # {}
  BY <1>1, <1>3, <1>4, HandleDoes, EndsGive
<1>6. ops' = ops
  BY <1>3, <1>4 DEF HandleSignal
<1>7. QED
  BY <1>5, <1>6

LEMMA CrossedAskedStep ==
  ASSUME TypeOK, CrossedAsked, NEW g \in End, Works(g)
  PROVE  InPhase'
<1> DEFINE p == "polite"
           i == "impolite"
<1>1. i = Other(p) /\ i # p /\ p = Other(i) /\ p \in End /\ i \in End /\ (g = p \/ g = i)
  BY EndsGive DEF End
<1>2. /\ Waits(p) /\ sig[p] = "have-local-offer" /\ ~ making[p]
      /\ Waits(i) /\ sig[i] = "have-local-offer" /\ ~ making[i] /\ ops[i] = <<>>
  BY <1>1 DEF CrossedAsked, Waits
<1>3. PICK d \in Description :
       /\ OfferOf(i, d)
       /\ \/ ops[p] = <<>> /\ net[p] = <<d>> /\ MayCome /\ Level
          \/ /\ net[i] = <<>>
             /\ \E a \in Description :
                  /\ AnswerTo(p, a)
                  /\ \/ ops[p] = <<>> /\ net[p] = <<a, d>>
                     \/ ops[p] = <<Remote(a)>> /\ net[p] = <<d>>
  BY DEF CrossedAsked
<1>4. Polite(p) /\ ~ IgnoreOffer(p, d) /\ \A a \in Description : ~ IgnoreOffer(p, a)
  BY <1>1, WaitingIgnores DEF Polite
<1>5. CASE g = i
  <2>1. HandleSignal(i)
    BY <1>2, <1>5, WorksGive
  <2>2. MayCome /\ ops[p] = <<>> /\ net[p] = <<d>> /\ Level
    BY <1>1, <1>3, <2>1, HandleDoes
  <2>3. /\ net'[i] = <<>> /\ net'[p] = net[p] /\ ops' = ops
        /\ sig' = sig /\ making' = making /\ offers' = offers /\ Keeps
    BY <1>2, <2>1, <2>2, IgnoresWhatComes
  <2>4. Waits(p)' /\ Waits(i)' /\ OfferOf(i, d)' /\ MayCome' /\ Level'
    BY <1>1, <1>2, <1>3, <2>2, <2>3, KeepsGive DEF Waits, MayCome
  <2>5. CrossedAsked'
    BY <1>2, <2>2, <2>3, <2>4 DEF CrossedAsked
  <2>6. QED
    BY <2>5 DEF InPhase
<1>6. CASE g = p /\ ops[p] = <<>> /\ net[p] = <<d>> /\ MayCome /\ Level
  <2>1. HandleSignal(p)
    BY <1>2, <1>6, WorksGive
  <2>2. Head(net[p]) = d /\ Tail(net[p]) = <<>> /\ Append(ops[p], Remote(d)) = <<Remote(d)>>
    BY <1>6, OneGives
  <2>3. /\ net'[p] = <<>> /\ net'[i] = net[i] /\ ops'[p] = <<Remote(d)>> /\ ops'[i] = <<>>
        /\ sig' = sig /\ making' = making /\ offers' = offers /\ Keeps
    BY <1>1, <1>2, <1>4, <2>1, <2>2, HandleDoes
  <2>4. Waits(p)' /\ Waits(i)' /\ OfferOf(i, d)' /\ MayCome' /\ Level'
    BY <1>1, <1>2, <1>3, <1>6, <2>3, KeepsGive DEF Waits, MayCome
  <2>5. CrossedTaken'
    BY <2>3, <2>4 DEF CrossedTaken
  <2>6. QED
    BY <2>5 DEF InPhase
<1>7. ASSUME g = p, net[i] = <<>>, NEW a \in Description, AnswerTo(p, a), ops[p] = <<>>, net[p] = <<a, d>>
      PROVE  InPhase'
  <2>1. HandleSignal(p)
    BY <1>2, <1>7, WorksGive
  <2>2. Head(net[p]) = a /\ Tail(net[p]) = <<d>>
    BY <1>7, TwoGive
  <2>3. Append(ops[p], Remote(a)) = <<Remote(a)>>
    BY <1>7, OneGives
  <2>4. /\ net'[p] = <<d>> /\ net'[i] = <<>> /\ ops'[p] = <<Remote(a)>> /\ ops'[i] = <<>>
        /\ sig' = sig /\ making' = making /\ offers' = offers /\ Keeps
    BY <1>1, <1>2, <1>4, <1>7, <2>1, <2>2, <2>3, HandleDoes
  <2>5. Waits(p)' /\ Waits(i)' /\ OfferOf(i, d)' /\ AnswerTo(p, a)'
    BY <1>1, <1>2, <1>3, <1>7, <2>4, KeepsGive DEF Waits
  <2>6. CrossedAsked'
    BY <2>4, <2>5 DEF CrossedAsked
  <2>7. QED
    BY <2>6 DEF InPhase
<1>8. ASSUME g = p, net[i] = <<>>, NEW a \in Description, AnswerTo(p, a), ops[p] = <<Remote(a)>>, net[p] = <<d>>
      PROVE  InPhase'
  <2>1. ops[p] # <<>> /\ Head(ops[p]) = Remote(a) /\ Tail(ops[p]) = <<>> /\ a.type = "answer"
    BY <1>8, OneGives DEF AnswerTo
  <2>2. CASE HandleSignal(p)
    <3>1. Head(net[p]) = d /\ Tail(net[p]) = <<>>
      BY <1>8, OneGives
    <3>2. Append(ops[p], Remote(d)) = <<Remote(a), Remote(d)>>
      BY <1>8, TwoGive
    <3>3. /\ net'[p] = <<>> /\ net'[i] = <<>> /\ ops'[p] = <<Remote(a), Remote(d)>> /\ ops'[i] = <<>>
          /\ sig' = sig /\ making' = making /\ offers' = offers /\ Keeps
      BY <1>1, <1>2, <1>4, <1>8, <2>2, <3>1, <3>2, HandleDoes
    <3>4. Waits(p)' /\ Waits(i)' /\ OfferOf(i, d)' /\ AnswerTo(p, a)'
      BY <1>1, <1>2, <1>3, <1>8, <3>3, KeepsGive DEF Waits
    <3>5. CrossedTaken'
      BY <3>3, <3>4 DEF CrossedTaken
    <3>6. QED
      BY <3>5 DEF InPhase
  <2>3. CASE RemoteAnswerSet(p)
    <3>1. /\ sig'[p] = "stable" /\ ops'[p] = <<>> /\ ops'[i] = <<>> /\ sig'[i] = sig[i]
          /\ making' = making /\ net' = net /\ offers' = offers /\ offered' = offered
          /\ told'[p] = has'[i] /\ told'[i] = has'[p]
      BY <1>1, <1>2, <1>8, <2>1, <2>3, RemoteAnswerDoes, AnswerLevels
    <3>2. Waits(i)' /\ Free(p)' /\ OfferOf(i, d)' /\ Level'
      BY <1>1, <1>2, <1>3, <3>1, EndsGive DEF Waits, Free, Idle, OfferOf, Level
    <3>3. Asked(i)'
      BY <1>1, <1>8, <3>1, <3>2 DEF Asked
    <3>4. QED
      BY <1>1, <3>3 DEF InPhase
  <2>4. QED
    BY <1>8, <2>1, <2>2, <2>3, WorksGive
<1>9. QED
  BY <1>1, <1>3, <1>5, <1>6, <1>7, <1>8

LEMMA CrossedTakenStep ==
  ASSUME TypeOK, CrossedTaken, NEW g \in End, Works(g)
  PROVE  InPhase'
<1> DEFINE p == "polite"
           i == "impolite"
<1>1. i = Other(p) /\ i # p /\ p = Other(i) /\ p \in End /\ i \in End /\ Polite(p) /\ (g = p \/ g = i)
  BY EndsGive DEF End, Polite
<1>2. /\ Waits(p) /\ sig[p] = "have-local-offer" /\ ~ making[p] /\ net[p] = <<>>
      /\ Waits(i) /\ sig[i] = "have-local-offer" /\ ~ making[i] /\ ops[i] = <<>>
  BY <1>1 DEF CrossedTaken, Waits
<1>3. PICK d \in Description :
       /\ OfferOf(i, d)
       /\ \/ ops[p] = <<Remote(d)>> /\ MayCome /\ Level
          \/ /\ net[i] = <<>>
             /\ \E a \in Description : AnswerTo(p, a) /\ ops[p] = <<Remote(a), Remote(d)>>
  BY DEF CrossedTaken
<1>4. CASE g = i
  <2>1. HandleSignal(i)
    BY <1>2, <1>4, WorksGive
  <2>2. MayCome /\ ops[p] = <<Remote(d)>> /\ Level
    BY <1>1, <1>3, <2>1, HandleDoes
  <2>3. /\ net'[i] = <<>> /\ net'[p] = net[p] /\ ops' = ops
        /\ sig' = sig /\ making' = making /\ offers' = offers /\ Keeps
    BY <1>2, <2>1, <2>2, IgnoresWhatComes
  <2>4. Waits(p)' /\ Waits(i)' /\ OfferOf(i, d)' /\ MayCome' /\ Level'
    BY <1>1, <1>2, <1>3, <2>2, <2>3, KeepsGive DEF Waits, MayCome
  <2>5. CrossedTaken'
    BY <1>2, <2>2, <2>3, <2>4 DEF CrossedTaken
  <2>6. QED
    BY <2>5 DEF InPhase
<1>5. CASE g = p /\ ops[p] = <<Remote(d)>> /\ MayCome /\ Level
  <2>1. ops[p] # <<>> /\ Head(ops[p]) = Remote(d) /\ Tail(ops[p]) = <<>> /\ d.type = "offer" /\ d.of = offers[i] /\ d.media = offered[i]
    BY <1>3, <1>5, OneGives DEF OfferOf
  <2>2. RemoteOfferSet(p) /\ Head(ops[p]).desc = d
    BY <1>2, <1>5, <2>1, WorksGive, OperationsGive
  <2>3. /\ sig'[p] = "have-remote-offer" /\ ops'[p] = Append(<<>>, Local) /\ heard'[p] = d.of
        /\ making' = making /\ net' = net /\ offers' = offers /\ sig'[i] = sig[i] /\ ops'[i] = ops[i]
        /\ has'[p] = offered'[i] /\ has'[i] = told'[p]
    BY <1>1, <1>5, <2>1, <2>2, RemoteOfferDoes DEF Level
  <2>4. Waits(i)' /\ Answering(p)'
    BY <1>1, <1>2, <2>1, <2>3, OneGives DEF Waits, Answering
  <2>5. net'[i] = <<>> \/ \E o \in Description : net'[i] = <<o>> /\ AnOffer(o)
    BY <1>5, <2>3 DEF MayCome, OfferOf, AnOffer
  <2>6. Told(i)'
    BY <1>1, <1>2, <2>3, <2>4, <2>5 DEF Told, Polite, AnOffer
  <2>7. QED
    BY <1>1, <2>6 DEF InPhase
<1>6. ASSUME g = p, net[i] = <<>>, NEW a \in Description, AnswerTo(p, a), ops[p] = <<Remote(a), Remote(d)>>
      PROVE  InPhase'
  <2>1. ops[p] # <<>> /\ Head(ops[p]) = Remote(a) /\ Tail(ops[p]) = <<Remote(d)>> /\ a.type = "answer"
    BY <1>6, TwoGive DEF AnswerTo
  <2>2. RemoteAnswerSet(p)
    BY <1>2, <1>6, <2>1, WorksGive
  <2>3. /\ sig'[p] = "stable" /\ ops'[p] = <<Remote(d)>> /\ ops'[i] = <<>> /\ sig'[i] = sig[i]
        /\ making' = making /\ net' = net /\ offers' = offers /\ offered' = offered
        /\ told'[p] = has'[i] /\ told'[i] = has'[p]
    BY <1>1, <1>2, <1>6, <2>1, <2>2, RemoteAnswerDoes, AnswerLevels
  <2>4. Waits(i)' /\ OfferOf(i, d)' /\ Level'
    BY <1>1, <1>2, <1>3, <2>3, EndsGive DEF Waits, OfferOf, Level
  <2>5. Taken(i)'
    BY <1>1, <1>2, <1>6, <2>3, <2>4 DEF Taken
  <2>6. QED
    BY <1>1, <2>5 DEF InPhase
<1>7. QED
  BY <1>1, <1>3, <1>4, <1>5, <1>6

LEMMA CrossedAnsweredStep ==
  ASSUME TypeOK, CrossedAnswered, NEW g \in End, Works(g)
  PROVE  InPhase'
<1> DEFINE p == "polite"
           i == "impolite"
<1>1. i = Other(p) /\ i # p /\ p = Other(i) /\ p \in End /\ i \in End /\ ~ Polite(i) /\ (g = p \/ g = i)
  BY EndsGive DEF End, Polite
<1>2. /\ Waits(p) /\ sig[p] = "have-local-offer" /\ ~ making[p] /\ net[p] = <<>> /\ ops[p] = <<>>
      /\ Waits(i) /\ sig[i] = "have-local-offer" /\ ~ making[i] /\ ops[i] = <<>>
  BY <1>1 DEF CrossedAnswered, Waits
<1>3. PICK a \in Description, d \in Description :
        /\ AnswerTo(i, a) /\ OfferOf(p, d)
        /\ \/ net[i] = <<a, d>>
           \/ \E o \in Description : net[i] = <<o, a, d>> /\ AnOffer(o)
  BY DEF CrossedAnswered
<1>4. g = i /\ HandleSignal(i)
  BY <1>1, <1>2, WorksGive
<1>5. CASE net[i] = <<a, d>>
  <2>1. Head(net[i]) = a /\ Tail(net[i]) = <<d>>
    BY <1>5, TwoGive
  <2>2. ~ IgnoreOffer(i, a) /\ Append(ops[i], Remote(a)) = <<Remote(a)>>
    BY <1>1, <1>2, <1>3, WaitingIgnores, OneGives DEF AnswerTo
  <2>3. /\ net'[i] = <<d>> /\ net'[p] = <<>> /\ ops'[i] = <<Remote(a)>> /\ ops'[p] = <<>>
        /\ sig' = sig /\ making' = making /\ offers' = offers /\ Keeps
    BY <1>1, <1>2, <1>4, <2>1, <2>2, HandleDoes
  <2>4. Waits(p)' /\ Waits(i)' /\ AnswerTo(i, a)' /\ OfferOf(p, d)'
    BY <1>1, <1>2, <1>3, <2>3, KeepsGive DEF Waits
  <2>5. CrossedAccepts'
    BY <2>3, <2>4 DEF CrossedAccepts, MayCome
  <2>6. QED
    BY <2>5 DEF InPhase
<1>6. ASSUME NEW o \in Description, net[i] = <<o, a, d>>, AnOffer(o)
      PROVE  InPhase'
  <2>1. Head(net[i]) = o /\ Tail(net[i]) = <<a, d>>
    BY <1>6, ThreeGive
  <2>2. IgnoreOffer(i, o)
    BY <1>1, <1>2, <1>6, WaitingIgnores DEF AnOffer
  <2>3. /\ net'[i] = <<a, d>> /\ net'[p] = <<>> /\ ops'[i] = <<>> /\ ops'[p] = <<>>
        /\ sig' = sig /\ making' = making /\ offers' = offers /\ Keeps
    BY <1>1, <1>2, <1>4, <2>1, <2>2, HandleDoes
  <2>4. Waits(p)' /\ Waits(i)' /\ AnswerTo(i, a)' /\ OfferOf(p, d)'
    BY <1>1, <1>2, <1>3, <2>3, KeepsGive DEF Waits
  <2>5. CrossedAnswered'
    BY <2>3, <2>4 DEF CrossedAnswered
  <2>6. QED
    BY <2>5 DEF InPhase
<1>7. QED
  BY <1>3, <1>5, <1>6

LEMMA CrossedAcceptsStep ==
  ASSUME TypeOK, CrossedAccepts, NEW g \in End, Works(g)
  PROVE  InPhase'
<1> DEFINE p == "polite"
           i == "impolite"
<1>1. i = Other(p) /\ i # p /\ p = Other(i) /\ p \in End /\ i \in End /\ (g = p \/ g = i)
  BY EndsGive DEF End
<1>2. /\ Waits(p) /\ sig[p] = "have-local-offer" /\ ~ making[p] /\ net[p] = <<>> /\ ops[p] = <<>>
      /\ Waits(i) /\ sig[i] = "have-local-offer" /\ ~ making[i] /\ MayCome
      /\ net[i] = <<>> => crossed # {}
  BY <1>1 DEF CrossedAccepts, Waits
<1>3. PICK a \in Description : AnswerTo(i, a) /\ ops[i] = <<Remote(a)>>
  BY DEF CrossedAccepts
<1>4. ops[i] # <<>> /\ Head(ops[i]) = Remote(a) /\ Tail(ops[i]) = <<>> /\ a.type = "answer"
  BY <1>3, OneGives DEF AnswerTo
<1>5. CASE HandleSignal(i)
  <2>0. SettingAnswer(i)
    BY <1>1, <1>3, SettingGives DEF AnswerTo
  <2>1. /\ net'[i] = <<>> /\ net'[p] = net[p] /\ ops' = ops
        /\ sig' = sig /\ making' = making /\ offers' = offers /\ Keeps /\ crossed' # {}
    BY <1>2, <1>5, <2>0, IgnoresWhatComes
  <2>2. Waits(p)' /\ Waits(i)' /\ AnswerTo(i, a)' /\ MayCome'
    BY <1>1, <1>2, <1>3, <2>1, KeepsGive DEF Waits, MayCome
  <2>3. CrossedAccepts'
    BY <1>2, <1>3, <2>1, <2>2 DEF CrossedAccepts
  <2>4. QED
    BY <2>3 DEF InPhase
<1>6. CASE RemoteAnswerSet(i)
  <2>1. /\ sig'[i] = "stable" /\ ops'[i] = <<>> /\ ops'[p] = <<>> /\ sig'[p] = sig[p]
        /\ making' = making /\ net' = net /\ offers' = offers /\ offered' = offered /\ crossed' = crossed
        /\ told'[p] = has'[i] /\ told'[i] = has'[p]
    BY <1>1, <1>2, <1>3, <1>4, <1>6, RemoteAnswerDoes, AnswerLevels
  <2>2. Waits(p)' /\ Free(i)' /\ Level'
    BY <1>1, <1>2, <2>1, EndsGive DEF Waits, Free, Idle, Level
  <2>3. CASE net[i] = <<>>
    <3>1. \A e \in End : net'[e] = <<>>
      BY <1>2, <2>1, <2>3 DEF End
    <3>2. Ignored'
      BY <1>2, <2>1, <2>2, <2>3, <3>1 DEF Ignored
    <3>3. QED
      BY <3>2 DEF InPhase
  <2>4. ASSUME NEW d \in Description, net[i] = <<d>>, OfferOf(p, d)
        PROVE  InPhase'
    <3>1. net'[i] = <<d>> /\ OfferOf(p, d)' /\ net'[p] = <<>>
      BY <1>2, <2>1, <2>4 DEF OfferOf
    <3>2. Asked(p)'
      BY <1>1, <2>1, <2>2, <3>1 DEF Asked
    <3>3. QED
      BY <1>1, <3>2 DEF InPhase
  <2>5. QED
    BY <1>2, <2>3, <2>4 DEF MayCome
<1>7. QED
  BY <1>1, <1>2, <1>4, <1>5, <1>6, WorksGive

(* Changes of the media leave an exchange as it is. *)
LEMMA QuietStep ==
  ASSUME InPhase, UNCHANGED <<sig, ops, making, offered, told, has, offers, heard, net, crossed>>
  PROVE  InPhase'
<1>1. /\ sig' = sig /\ ops' = ops /\ making' = making
      /\ offered' = offered /\ told' = told /\ has' = has
      /\ offers' = offers /\ heard' = heard /\ net' = net /\ crossed' = crossed
  OBVIOUS
<1>2. \A e \in End : Waits(e)' = Waits(e) /\ Free(e)' = Free(e) /\ Answering(e)' = Answering(e)
                     /\ Makes(e)' = Makes(e)
  BY <1>1 DEF Waits, Free, Idle, Makes, Answering
<1>3. \A e \in End, d \in Description : OfferOf(e, d)' = OfferOf(e, d) /\ AnswerTo(e, d)' = AnswerTo(e, d)
  BY <1>1 DEF OfferOf, AnswerTo
<1>4. Level' = Level
  BY <1>1 DEF Level
<1>5. (Settled => Settled') /\ (Ignored => Ignored')
  BY <1>1, <1>2, <1>4, EndsGive DEF Settled, Ignored
<1>6. \A e \in End : (Asked(e) => Asked(e)') /\ (Taken(e) => Taken(e)')
  BY <1>1, <1>2, <1>3, <1>4, EndsGive DEF Asked, Taken, Polite
<1>7. \A e \in End : (Told(e) => Told(e)') /\ (Answered(e) => Answered(e)') /\ (Accepts(e) => Accepts(e)')
  BY <1>1, <1>2, <1>3, EndsGive DEF Told, Answered, Accepts, Polite, AnOffer
<1>8. MayCome => MayCome'
  BY <1>1, <1>3, EndsGive DEF MayCome
<1>9. (CrossedAsked => CrossedAsked') /\ (CrossedTaken => CrossedTaken')
  BY <1>1, <1>2, <1>3, <1>8, <1>4, EndsGive DEF CrossedAsked, CrossedTaken
<1>10. (CrossedAnswered => CrossedAnswered') /\ (CrossedAccepts => CrossedAccepts')
  BY <1>1, <1>2, <1>3, <1>8, EndsGive DEF CrossedAnswered, CrossedAccepts, AnOffer
<1>11. QED
  BY <1>5, <1>6, <1>7, <1>9, <1>10 DEF InPhase

LEMMA PhaseStep == TypeOK /\ InPhase /\ [Next]_vars => InPhase'
<1> SUFFICES ASSUME TypeOK, InPhase, [Next]_vars PROVE InPhase'
  OBVIOUS
<1>1. ASSUME NEW g \in End, Works(g)
      PROVE  InPhase'
  BY <1>1, SettledStep, IgnoredStep, AskedStep, TakenStep, ToldStep, AnsweredStep, AcceptsStep,
     CrossedAskedStep, CrossedTakenStep, CrossedAnsweredStep, CrossedAcceptsStep DEF InPhase
<1>2. ASSUME NEW g \in End, Change(g)
      PROVE  InPhase'
  BY <1>2, QuietStep DEF Change
<1>3. CASE UNCHANGED vars
  BY <1>3, QuietStep DEF vars
<1>4. QED
  BY <1>1, <1>2, <1>3 DEF Next

-----------------------------------------------------------------------------
LEMMA PhaseMatches == InPhase => AnswersMatch
<1> SUFFICES ASSUME InPhase, NEW e \in End, Turn(e, "remote"), Head(ops[e]).desc.type = "answer"
             PROVE  sig[e] = "have-local-offer" /\ Head(ops[e]).desc.of = offers[e]
  BY DEF AnswersMatch
<1> DEFINE Empty(x) == ops[x] = <<>> \/ ops[x] = <<Local>>
           Matches == \E a \in Description : AnswerTo(e, a) /\ Head(ops[e]).desc = a
<1>1. ~ Empty(e)
  BY FirstRemote
<1>2. \A x \in End : (Free(x) \/ Answering(x)) => Empty(x)
  BY DEF Free, Idle, Makes, Answering
<1>3. ~ Settled /\ ~ Ignored /\ ~ CrossedAnswered
  BY <1>1, <1>2 DEF Settled, Ignored, CrossedAnswered, End
<1>4. ASSUME NEW x \in End, Asked(x) \/ Told(x) \/ Answered(x)
      PROVE  FALSE
  BY <1>1, <1>2, <1>4, EndsGive DEF Asked, Told, Answered
<1>5. ASSUME NEW x \in End, Taken(x)
      PROVE  FALSE
  <2>1. PICK d \in Description :
          OfferOf(x, d) /\ (ops[Other(x)] = <<Remote(d)>> \/ ops[Other(x)] = <<Local, Remote(d)>>)
    BY <1>5 DEF Taken
  <2>2. e = Other(x)
    BY <1>1, <1>5, EndsGive DEF Taken
  <2>3. ops[e] = <<Remote(d)>>
    BY <2>1, <2>2, FirstRemote
  <2>4. QED
    BY <2>1, <2>3, FirstRemote DEF OfferOf
<1>6. ASSUME NEW x \in End, Accepts(x)
      PROVE  Waits(e) /\ Matches
  <2>1. e = x
    BY <1>1, <1>2, <1>6, EndsGive DEF Accepts
  <2>2. QED
    BY <1>6, <2>1, FirstRemote DEF Accepts
<1>7. CASE CrossedAsked
  <2>1. e = "polite"
    BY <1>1, <1>7 DEF CrossedAsked, End
  <2>2. QED
    BY <1>1, <1>7, <2>1, FirstRemote DEF CrossedAsked, AnswerTo, Waits
<1>8. CASE CrossedTaken
  <2>1. e = "polite" /\ Waits(e)
    BY <1>1, <1>8 DEF CrossedTaken, End
  <2>2. PICK d \in Description :
          /\ OfferOf("impolite", d)
          /\ \/ ops[e] = <<Remote(d)>>
             \/ \E a \in Description : AnswerTo(e, a) /\ ops[e] = <<Remote(a), Remote(d)>>
    BY <1>8, <2>1 DEF CrossedTaken
  <2>3. ops[e] # <<Remote(d)>>
    BY <2>2, FirstRemote DEF OfferOf
  <2>4. Matches
    BY <2>2, <2>3, FirstRemote
  <2>5. QED
    BY <2>1, <2>4 DEF Waits, AnswerTo
<1>9. CASE CrossedAccepts
  <2>1. e = "impolite" /\ Waits(e)
    BY <1>1, <1>9 DEF CrossedAccepts, End
  <2>2. Matches
    BY <1>9, <2>1, FirstRemote DEF CrossedAccepts
  <2>3. QED
    BY <2>1, <2>2 DEF Waits, AnswerTo
<1>10. QED
  BY <1>3, <1>4, <1>5, <1>6, <1>7, <1>8, <1>9 DEF InPhase, Waits, AnswerTo

LEMMA AlwaysInPhase == Spec => []InPhase
<1>1. Init => InPhase
  BY EndsGive DEF Init, InPhase, Settled, Level, Free, Idle
<1>2. QED
  BY <1>1, PhaseStep, NegotiationTypeCorrect, PTL DEF Spec

(* An answer is set by an end that waits for one and answers the offer that *)
(* it waits with, however often the media change (handleSignal of call.ts). *)
THEOREM AnswersAlwaysMatch == Spec => []AnswersMatch
BY AlwaysInPhase, PhaseMatches, PTL
-----------------------------------------------------------------------------
(* What the queues say of an answer that has been sent. *)
LEMMA ShortQueues ==
  ASSUME NEW e \in End, NEW d \in Description, d.type = "offer"
  PROVE  /\ ops[e] \in {<<>>, <<Local>>, <<Remote(d)>>, <<Local, Remote(d)>>} => ~ SettingAnswer(e)
         /\ (ops[e] \in {<<>>, <<Local>>, <<Remote(d)>>, <<Local, Remote(d)>>} /\ net[e] \in {<<>>, <<d>>})
              => ~ AnswerSent(e)
<1>1. Local.do = "local" /\ Remote(d).desc = d
  BY OperationsGive
<1>2. ASSUME ops[e] = <<>>
      PROVE  ~ SettingAnswer(e)
  BY <1>2 DEF SettingAnswer
<1>3. ASSUME ops[e] = <<Local>>
      PROVE  ~ SettingAnswer(e)
  BY <1>1, <1>3 DEF SettingAnswer
<1>4. ASSUME ops[e] = <<Remote(d)>>
      PROVE  ~ SettingAnswer(e)
  BY <1>1, <1>4 DEF SettingAnswer
<1>5. ASSUME ops[e] = <<Local, Remote(d)>>
      PROVE  ~ SettingAnswer(e)
  <2>1. Len(ops[e]) = 2 /\ ops[e][1] = Local /\ ops[e][2] = Remote(d)
    BY <1>5
  <2>2. \A n \in 1 .. Len(ops[e]) : n = 1 \/ n = 2
    BY <2>1
  <2>3. QED
    BY <1>1, <2>1, <2>2 DEF SettingAnswer
<1>6. net[e] = <<>> \/ net[e] = <<d>> => ~ \E n \in 1 .. Len(net[e]) : net[e][n].type = "answer"
  OBVIOUS
<1>7. QED
  BY <1>2, <1>3, <1>4, <1>5, <1>6 DEF AnswerSent

LEMMA EmptyQueues ==
  ASSUME NEW e \in End, ops[e] \in {<<>>, <<Local>>}, net[e] = <<>>
  PROVE  ~ AnswerSent(e)
<1>1. Local.do = "local"
  BY DEF Local
<1>2. CASE ops[e] = <<>>
  BY <1>2 DEF AnswerSent, SettingAnswer
<1>3. CASE ops[e] = <<Local>>
  BY <1>1, <1>3 DEF AnswerSent, SettingAnswer
<1>4. QED
  BY <1>2, <1>3

(* An answer is sent only to an end that waits, and makes no offer before   *)
(* it has set it; an end that is to answer is waited for.                   *)
WaitsOn(e) == Waits(e) /\ ~ Turn(e, "local")
Awaited ==
  \A e \in End : /\ AnswerSent(e) => WaitsOn(e)
                 /\ sig[e] = "have-remote-offer" => sig[Other(e)] = "have-local-offer"

LEMMA PhaseAwaits == InPhase => Awaited
<1> SUFFICES ASSUME InPhase, NEW e \in End
             PROVE  /\ WaitsOn(e) \/ ~ AnswerSent(e)
                    /\ sig[e] = "have-remote-offer" => sig[Other(e)] = "have-local-offer"
  BY DEF Awaited
<1> DEFINE Fine(x) == /\ WaitsOn(x) \/ ~ AnswerSent(x)
                      /\ sig[x] = "have-remote-offer" => sig[Other(x)] = "have-local-offer"
<1>1. \A x \in End : Waits(x) /\ ops[x] = <<>> => Fine(x)
  BY DEF Waits, WaitsOn, Turn
<1>2. \A x \in End, d \in Description : Waits(x) /\ ops[x] = <<Remote(d)>> => Fine(x)
  BY OneGives, OperationsGive DEF Waits, WaitsOn, Turn
<1>3. \A x \in End, d, o \in Description : Waits(x) /\ ops[x] = <<Remote(d), Remote(o)>> => Fine(x)
  BY TwoGive, OperationsGive DEF Waits, WaitsOn, Turn
<1>4. \A x \in End : Free(x) /\ net[x] = <<>> => Fine(x)
  BY EmptyQueues DEF Free, Idle, Makes
<1>5. \A x \in End, d \in Description : Free(x) /\ net[x] = <<d>> /\ d.type = "offer" => Fine(x)
  BY ShortQueues DEF Free, Idle, Makes
<1>6. Settled => Fine(e)
  BY <1>4 DEF Settled
<1>7. Ignored => Fine(e)
  BY <1>1, <1>4 DEF Ignored, End
<1>8. ASSUME NEW x \in End, Asked(x)
      PROVE  Fine(e)
  BY <1>1, <1>5, <1>8, EndsGive DEF Asked, OfferOf
<1>9. ASSUME NEW x \in End, Taken(x)
      PROVE  Fine(e)
  <2>1. CASE e = x
    BY <1>1, <1>9, <2>1 DEF Taken
  <2>2. CASE e = Other(x)
    <3>1. PICK d \in Description :
            d.type = "offer" /\ (ops[e] = <<Remote(d)>> \/ ops[e] = <<Local, Remote(d)>>)
      BY <1>9, <2>2 DEF Taken, OfferOf
    <3>2. net[e] = <<>> /\ sig[e] = "stable"
      BY <1>9, <2>2 DEF Taken
    <3>3. QED
      BY <3>1, <3>2, ShortQueues
  <2>3. QED
    BY <2>1, <2>2, EndsGive
<1>10. ASSUME NEW x \in End, Told(x)
       PROVE  Fine(e)
  <2>1. CASE e = x
    BY <1>1, <1>10, <2>1 DEF Told
  <2>2. CASE e = Other(x)
    <3>1. ops[e] = <<Local>> /\ net[e] = <<>> /\ Other(e) = x /\ sig[x] = "have-local-offer"
      BY <1>10, <2>2, EndsGive DEF Told, Answering, Waits
    <3>2. QED
      BY <3>1, EmptyQueues
  <2>3. QED
    BY <2>1, <2>2, EndsGive
<1>11. ASSUME NEW x \in End, Answered(x)
       PROVE  Fine(e)
  BY <1>1, <1>4, <1>11, EndsGive DEF Answered
<1>12. ASSUME NEW x \in End, Accepts(x)
       PROVE  Fine(e)
  BY <1>2, <1>4, <1>12, EndsGive DEF Accepts
<1>13. CrossedAsked => Fine(e)
  BY <1>1, <1>2 DEF CrossedAsked, End
<1>14. CrossedTaken => Fine(e)
  BY <1>1, <1>2, <1>3 DEF CrossedTaken, End
<1>15. CrossedAnswered => Fine(e)
  BY <1>1 DEF CrossedAnswered, End
<1>16. CrossedAccepts => Fine(e)
  BY <1>1, <1>2 DEF CrossedAccepts, End
<1>17. QED
  BY <1>6, <1>7, <1>8, <1>9, <1>10, <1>11, <1>12, <1>13, <1>14, <1>15, <1>16 DEF InPhase

LEMMA PhaseRests == InPhase => RestsAgreed
<1> SUFFICES ASSUME InPhase, AtRest PROVE Agreed \/ Stuck
  BY DEF RestsAgreed
<1>1. \A e \in End : ops[e] = <<>> /\ net[e] = <<>> /\ (sig[e] = "stable" => told[e] = want[e])
  BY DEF AtRest
<1>2. \A a, b, c : <<a>> # <<>> /\ <<a, b>> # <<>> /\ <<a, b, c>> # <<>>
  BY OneGives, TwoGive, ThreeGive
<1>3. \A x \in End : ~ Asked(x) /\ ~ Taken(x) /\ ~ Told(x) /\ ~ Answered(x) /\ ~ Accepts(x)
  <2>1. \A x \in End : ~ Asked(x)
    BY <1>1, <1>2, EndsGive DEF Asked
  <2>2. \A x \in End : ~ Taken(x)
    BY <1>1, <1>2, EndsGive DEF Taken
  <2>3. \A x \in End : ~ Told(x)
    BY <1>1, <1>2, EndsGive DEF Told, Answering
  <2>4. \A x \in End : ~ Answered(x) /\ ~ Accepts(x)
    BY <1>1, <1>2, EndsGive DEF Answered, Accepts
  <2>5. QED
    BY <2>1, <2>2, <2>3, <2>4
<1>4. ~ CrossedAsked /\ ~ CrossedTaken /\ ~ CrossedAnswered /\ ~ CrossedAccepts
  BY <1>1, <1>2, EndsGive DEF CrossedAsked, CrossedTaken, CrossedAnswered, CrossedAccepts
<1>5. CASE Settled
  <2>1. \A e \in End : sig[e] = "stable" /\ told[e] = want[e]
    BY <1>1, <1>5 DEF Settled, Free, Idle, Makes
  <2>2. \A e \in End : has[Other(e)] = told[e]
    BY <1>5 DEF Settled, Level
  <2>3. QED
    BY <2>1, <2>2 DEF Agreed
<1>6. CASE Ignored
  <2>1. ~ Makes("impolite")
    BY <1>1, <1>2, EndsGive DEF Makes
  <2>2. crossed # {} /\ sig["polite"] = "have-local-offer" /\ sig["impolite"] = "stable"
    BY <1>6, <2>1 DEF Ignored, Waits, Free, Idle, Makes
  <2>3. QED
    BY <2>2 DEF Stuck
<1>7. QED
  BY <1>3, <1>4, <1>5, <1>6 DEF InPhase

(* When nothing runs, is on the way or is due, both ends have all of each  *)
(* other's media, or the polite end's offer has met the answer that the    *)
(* other was setting (createPeer and handleSignal of call.ts).             *)
THEOREM RestsInAgreement == Spec => []RestsAgreed
BY AlwaysInPhase, PhaseRests, PTL

-----------------------------------------------------------------------------
(* The negotiation as exchanges in one step. *)

(* No end has told more than it has, nor less than an offer it waits with. *)
Bounds ==
  \A e \in End : /\ told[e] <= want[e] /\ offered[e] <= want[e]
                 /\ sig[e] = "have-local-offer" => told[e] <= offered[e]

LEMMA BoundsStep == TypeOK /\ Bounds /\ [Next]_vars => Bounds'
<1> SUFFICES ASSUME TypeOK, Bounds, [Next]_vars PROVE Bounds'
  OBVIOUS
<1> DEFINE Within(x) == /\ told[x] <= want[x] /\ offered[x] <= want[x]
                        /\ sig[x] = "have-local-offer" => told[x] <= offered[x]
<1>1. \A x \in End : Within(x) /\ told[x] \in Nat /\ want[x] \in Nat /\ offered[x] \in Nat
  BY ChangesIsPositive DEF Bounds, TypeOK, Media
<1>2. ASSUME NEW e \in End, Change(e)
      PROVE  Bounds'
  <2>1. \A x \in End : want'[x] >= want[x] /\ want'[x] \in Nat
    BY <1>1, <1>2 DEF Change, TypeOK
  <2>2. told' = told /\ offered' = offered /\ sig' = sig
    BY <1>2 DEF Change
  <2>3. QED
    BY <1>1, <2>1, <2>2 DEF Bounds
<1>3. ASSUME NEW e \in End, NegotiationNeeded(e) \/ HandleSignal(e)
      PROVE  Bounds'
  BY <1>3 DEF NegotiationNeeded, HandleSignal, Bounds
<1>4. ASSUME NEW e \in End, OfferSet(e)
      PROVE  Bounds'
  <2>1. offered'[e] = want[e] /\ told' = told /\ want' = want
    BY <1>4 DEF OfferSet, Set, TypeOK
  <2>2. \A x \in End : x # e => offered'[x] = offered[x] /\ sig'[x] = sig[x]
    BY <1>4 DEF OfferSet, Set, TypeOK
  <2>3. QED
    BY <1>1, <2>1, <2>2 DEF Bounds
<1>5. ASSUME NEW e \in End, AnswerSet(e)
      PROVE  Bounds'
  <2>1. offered' = offered /\ want' = want /\ sig'[e] = "stable" /\ told'[e] \in {want[e], told[e]}
    BY <1>5 DEF AnswerSet, Set, TypeOK
  <2>2. \A x \in End : x # e => told'[x] = told[x] /\ sig'[x] = sig[x]
    BY <1>5 DEF AnswerSet, Set, TypeOK
  <2>3. QED
    BY <1>1, <2>1, <2>2 DEF Bounds
<1>6. ASSUME NEW e \in End, RemoteOfferSet(e)
      PROVE  Bounds'
  <2>1. offered' = offered /\ told' = told /\ want' = want /\ sig'[e] = "have-remote-offer"
    BY <1>6 DEF RemoteOfferSet, Set, TypeOK
  <2>2. \A x \in End : x # e => sig'[x] = sig[x]
    BY <1>6 DEF RemoteOfferSet, Set, TypeOK
  <2>3. QED
    BY <1>1, <2>1, <2>2 DEF Bounds
<1>7. ASSUME NEW e \in End, RemoteAnswerSet(e)
      PROVE  Bounds'
  <2>1. offered' = offered /\ want' = want
    BY <1>7 DEF RemoteAnswerSet
  <2>2. (told' = told /\ sig' = sig) \/ (told' = Set(told, e, offered[e]) /\ sig' = Set(sig, e, "stable"))
    BY <1>7 DEF RemoteAnswerSet
  <2>3. CASE told' = told /\ sig' = sig
    BY <1>1, <2>1, <2>3 DEF Bounds
  <2>4. CASE told' = Set(told, e, offered[e]) /\ sig' = Set(sig, e, "stable")
    <3>1. told'[e] = offered[e] /\ sig'[e] = "stable"
      BY <2>4 DEF Set, TypeOK
    <3>2. \A x \in End : x # e => told'[x] = told[x] /\ sig'[x] = sig[x]
      BY <2>4 DEF Set, TypeOK
    <3>3. QED
      BY <1>1, <2>1, <3>1, <3>2 DEF Bounds
  <2>5. QED
    BY <2>2, <2>3, <2>4
<1>8. CASE UNCHANGED vars
  BY <1>8 DEF Bounds, vars
<1>9. QED
  BY <1>2, <1>3, <1>4, <1>5, <1>6, <1>7, <1>8 DEF Next, Works

(* A signal on its way or taken in: an answer counts as sent in both places. *)
AnswerAmong(q) == \E n \in 1 .. Len(q) : q[n].type = "answer"
SetsAnswer(q) == \E n \in 1 .. Len(q) : q[n].do = "remote" /\ q[n].desc.type = "answer"

LEMMA SentGives ==
  ASSUME NEW e \in End
  PROVE  /\ AnswerSent(e) <=> SetsAnswer(ops[e]) \/ AnswerAmong(net[e])
         /\ AnswerSent(e)' <=> SetsAnswer(ops'[e]) \/ AnswerAmong(net'[e])
BY DEF AnswerSent, SettingAnswer, SetsAnswer, AnswerAmong

LEMMA SignalQueues ==
  ASSUME NEW q \in Seq(Description), NEW d \in Description
  PROVE  /\ AnswerAmong(Append(q, d)) <=> AnswerAmong(q) \/ d.type = "answer"
         /\ q # <<>> => (AnswerAmong(q) <=> Head(q).type = "answer" \/ AnswerAmong(Tail(q)))
<1>1. /\ Len(Append(q, d)) = Len(q) + 1 /\ Append(q, d)[Len(q) + 1] = d /\ Len(q) \in Nat
      /\ \A n \in 1 .. Len(q) : Append(q, d)[n] = q[n]
  OBVIOUS
<1>2. AnswerAmong(Append(q, d)) <=> AnswerAmong(q) \/ d.type = "answer"
  <2>1. \A n \in 1 .. Len(q) + 1 : n \in 1 .. Len(q) \/ n = Len(q) + 1
    BY <1>1
  <2>2. 1 .. Len(q) \subseteq 1 .. Len(q) + 1 /\ Len(q) + 1 \in 1 .. Len(q) + 1
    BY <1>1
  <2>3. QED
    BY <1>1, <2>1, <2>2 DEF AnswerAmong
<1>3. ASSUME q # <<>>
      PROVE  AnswerAmong(q) <=> Head(q).type = "answer" \/ AnswerAmong(Tail(q))
  <2>1. /\ Len(Tail(q)) = Len(q) - 1 /\ Head(q) = q[1] /\ Len(q) \in Nat /\ Len(q) > 0
        /\ \A n \in 1 .. Len(q) - 1 : Tail(q)[n] = q[n + 1]
    BY <1>3
  <2>2. \A n \in 1 .. Len(q) : n = 1 \/ (n - 1 \in 1 .. Len(q) - 1 /\ q[n] = Tail(q)[n - 1])
    BY <2>1
  <2>3. \A n \in 1 .. Len(q) - 1 : n + 1 \in 1 .. Len(q) /\ Tail(q)[n] = q[n + 1]
    BY <2>1
  <2>4. 1 \in 1 .. Len(q)
    BY <2>1
  <2>5. QED
    BY <2>1, <2>2, <2>3, <2>4 DEF AnswerAmong
<1>4. QED
  BY <1>2, <1>3

LEMMA OperationQueues ==
  ASSUME NEW q \in Seq(Operation), NEW o \in Operation
  PROVE  /\ SetsAnswer(Append(q, o)) <=> SetsAnswer(q) \/ (o.do = "remote" /\ o.desc.type = "answer")
         /\ q # <<>> => (SetsAnswer(q) <=> \/ Head(q).do = "remote" /\ Head(q).desc.type = "answer"
                                           \/ SetsAnswer(Tail(q)))
<1>1. /\ Len(Append(q, o)) = Len(q) + 1 /\ Append(q, o)[Len(q) + 1] = o /\ Len(q) \in Nat
      /\ \A n \in 1 .. Len(q) : Append(q, o)[n] = q[n]
  OBVIOUS
<1>2. SetsAnswer(Append(q, o)) <=> SetsAnswer(q) \/ (o.do = "remote" /\ o.desc.type = "answer")
  <2>1. \A n \in 1 .. Len(q) + 1 : n \in 1 .. Len(q) \/ n = Len(q) + 1
    BY <1>1
  <2>2. 1 .. Len(q) \subseteq 1 .. Len(q) + 1 /\ Len(q) + 1 \in 1 .. Len(q) + 1
    BY <1>1
  <2>3. QED
    BY <1>1, <2>1, <2>2 DEF SetsAnswer
<1>3. ASSUME q # <<>>
      PROVE  SetsAnswer(q) <=> \/ Head(q).do = "remote" /\ Head(q).desc.type = "answer"
                               \/ SetsAnswer(Tail(q))
  <2>1. /\ Len(Tail(q)) = Len(q) - 1 /\ Head(q) = q[1] /\ Len(q) \in Nat /\ Len(q) > 0
        /\ \A n \in 1 .. Len(q) - 1 : Tail(q)[n] = q[n + 1]
    BY <1>3
  <2>2. \A n \in 1 .. Len(q) : n = 1 \/ (n - 1 \in 1 .. Len(q) - 1 /\ q[n] = Tail(q)[n - 1])
    BY <2>1
  <2>3. \A n \in 1 .. Len(q) - 1 : n + 1 \in 1 .. Len(q) /\ Tail(q)[n] = q[n + 1]
    BY <2>1
  <2>4. 1 \in 1 .. Len(q)
    BY <2>1
  <2>5. QED
    BY <2>1, <2>2, <2>3, <2>4 DEF SetsAnswer
<1>4. QED
  BY <1>2, <1>3

(* What both ends have agreed to: with an answer sent, what was offered. *)
Accord(e) == IF AnswerSent(e) THEN offered[e] ELSE told[e]

LEMMA SendsOne ==
  ASSUME TypeOK, NEW e \in End, NEW f \in End, f = Other(e), OfferSet(e) \/ AnswerSet(e)
  PROVE  \E d \in Description :
           /\ ops[e] # <<>> /\ Head(ops[e]).do = "local" /\ ops'[e] = Tail(ops[e]) /\ ops'[f] = ops[f]
           /\ net'[e] = net[e] /\ net'[f] = Append(net[f], d)
           /\ OfferSet(e) => d.type = "offer"
           /\ AnswerSet(e) => d.type = "answer"
<1>1. ~ (OfferSet(e) /\ AnswerSet(e))
  BY DEF OfferSet, AnswerSet
<1>2. CASE OfferSet(e)
  BY <1>1, <1>2, OfferDoes DEF OfferOf
<1>3. CASE AnswerSet(e)
  BY <1>1, <1>3, AnswerDoes
<1>4. QED
  BY <1>2, <1>3

LEMMA SentStays ==
  ASSUME TypeOK, Awaited, NEW e \in End, NEW f \in End, f = Other(e)
  PROVE  /\ NegotiationNeeded(e) \/ HandleSignal(e)
              => (AnswerSent(e)' <=> AnswerSent(e)) /\ (AnswerSent(f)' <=> AnswerSent(f))
         /\ RemoteOfferSet(e)
              => (AnswerSent(e)' <=> AnswerSent(e)) /\ (AnswerSent(f)' <=> AnswerSent(f))
         /\ OfferSet(e) => ~ AnswerSent(e) /\ ~ AnswerSent(e)' /\ (AnswerSent(f)' <=> AnswerSent(f))
         /\ AnswerSet(e) => ~ AnswerSent(e) /\ ~ AnswerSent(e)' /\ AnswerSent(f)'
         /\ RemoteAnswerSet(e) => AnswerSent(e) /\ (AnswerSent(f)' <=> AnswerSent(f))
<1>1. /\ ops[e] \in Seq(Operation) /\ net[e] \in Seq(Description) /\ net[f] \in Seq(Description)
      /\ Local \in Operation /\ Local.do = "local"
  BY OperationsGive DEF TypeOK, Local, Operation
<1>2. /\ AnswerSent(e) <=> SetsAnswer(ops[e]) \/ AnswerAmong(net[e])
      /\ AnswerSent(f) <=> SetsAnswer(ops[f]) \/ AnswerAmong(net[f])
      /\ AnswerSent(e)' <=> SetsAnswer(ops'[e]) \/ AnswerAmong(net'[e])
      /\ AnswerSent(f)' <=> SetsAnswer(ops'[f]) \/ AnswerAmong(net'[f])
  BY SentGives
<1>3. ASSUME NegotiationNeeded(e)
      PROVE  (AnswerSent(e)' <=> AnswerSent(e)) /\ (AnswerSent(f)' <=> AnswerSent(f))
  <2>1. ops[e] = <<>> /\ ops'[e] = <<Local>> /\ ops'[f] = ops[f] /\ net' = net
    BY <1>3, NeededDoes DEF NegotiationNeeded
  <2>2. ~ SetsAnswer(<<>>) /\ ~ SetsAnswer(<<Local>>)
    BY <1>1 DEF SetsAnswer
  <2>3. QED
    BY <1>2, <2>1, <2>2
<1>4. ASSUME HandleSignal(e)
      PROVE  (AnswerSent(e)' <=> AnswerSent(e)) /\ (AnswerSent(f)' <=> AnswerSent(f))
  <2>1. /\ net[e] # <<>> /\ net'[e] = Tail(net[e]) /\ net'[f] = net[f] /\ ops'[f] = ops[f]
        /\ IgnoreOffer(e, Head(net[e])) => ops'[e] = ops[e]
        /\ ~ IgnoreOffer(e, Head(net[e])) => ops'[e] = Append(ops[e], Remote(Head(net[e])))
    BY <1>4, HandleDoes
  <2>2. PICK d \in Description : d = Head(net[e])
    BY <2>1, TypesGive
  <2>3. Remote(d) \in Operation /\ Remote(d).do = "remote" /\ Remote(d).desc = d
    BY OperationsGive
  <2>4. AnswerAmong(net[e]) <=> d.type = "answer" \/ AnswerAmong(net'[e])
    BY <1>1, <2>1, <2>2, SignalQueues
  <2>5. CASE IgnoreOffer(e, d)
    <3>1. d.type # "answer"
      BY <2>5 DEF IgnoreOffer
    <3>2. QED
      BY <1>2, <2>1, <2>2, <2>4, <2>5, <3>1
  <2>6. CASE ~ IgnoreOffer(e, d)
    <3>1. ops'[e] = Append(ops[e], Remote(d))
      BY <2>1, <2>2, <2>6
    <3>2. PICK o \in Operation : o = Remote(d)
      BY <2>3
    <3>3. SetsAnswer(Append(ops[e], o)) <=> SetsAnswer(ops[e]) \/ d.type = "answer"
      BY <1>1, <2>3, <3>2, OperationQueues
    <3>4. QED
      BY <1>2, <2>1, <2>4, <3>1, <3>2, <3>3
  <2>7. QED
    BY <2>5, <2>6
<1>5. ASSUME RemoteOfferSet(e)
      PROVE  (AnswerSent(e)' <=> AnswerSent(e)) /\ (AnswerSent(f)' <=> AnswerSent(f))
  <2>1. /\ ops[e] # <<>> /\ Head(ops[e]).desc.type = "offer"
        /\ ops'[e] = Append(Tail(ops[e]), Local) /\ ops'[f] = ops[f] /\ net' = net
    BY <1>5, RemoteOfferDoes
  <2>2. Tail(ops[e]) \in Seq(Operation)
    BY <2>1, TypesGive
  <2>3. SetsAnswer(ops[e]) <=> SetsAnswer(Tail(ops[e]))
    BY <1>1, <2>1, OperationQueues
  <2>4. SetsAnswer(ops'[e]) <=> SetsAnswer(Tail(ops[e]))
    <3>1. PICK o \in Operation : o = Local /\ o.do = "local"
      BY <1>1
    <3>2. SetsAnswer(Append(Tail(ops[e]), o)) <=> SetsAnswer(Tail(ops[e]))
      BY <2>2, <3>1, OperationQueues
    <3>3. QED
      BY <2>1, <3>1, <3>2
  <2>5. QED
    BY <1>2, <2>1, <2>3, <2>4
<1>6. ASSUME OfferSet(e) \/ AnswerSet(e)
      PROVE  /\ ~ AnswerSent(e) /\ ~ AnswerSent(e)'
             /\ OfferSet(e) => (AnswerSent(f)' <=> AnswerSent(f))
             /\ AnswerSet(e) => AnswerSent(f)'
  <2>1. PICK d \in Description :
          /\ ops[e] # <<>> /\ Head(ops[e]).do = "local" /\ ops'[e] = Tail(ops[e]) /\ ops'[f] = ops[f]
          /\ net'[e] = net[e] /\ net'[f] = Append(net[f], d)
          /\ OfferSet(e) => d.type = "offer"
          /\ AnswerSet(e) => d.type = "answer"
    BY <1>6, SendsOne
  <2>2. Turn(e, "local")
    BY <2>1 DEF Turn
  <2>3. ~ AnswerSent(e)
    BY <2>2 DEF Awaited, WaitsOn
  <2>4. SetsAnswer(ops[e]) <=> SetsAnswer(ops'[e])
    BY <1>1, <2>1, OperationQueues
  <2>5. AnswerAmong(net'[f]) <=> AnswerAmong(net[f]) \/ d.type = "answer"
    BY <1>1, <2>1, SignalQueues
  <2>6. QED
    BY <1>2, <2>1, <2>3, <2>4, <2>5
<1>7. ASSUME RemoteAnswerSet(e)
      PROVE  AnswerSent(e) /\ (AnswerSent(f)' <=> AnswerSent(f))
  <2>1. /\ ops[e] # <<>> /\ Head(ops[e]).do = "remote" /\ Head(ops[e]).desc.type = "answer"
        /\ ops'[f] = ops[f] /\ net' = net
    BY <1>7, RemoteAnswerDoes
  <2>2. SetsAnswer(ops[e])
    BY <1>1, <2>1, OperationQueues
  <2>3. QED
    BY <1>2, <2>1, <2>2
<1>8. QED
  BY <1>3, <1>4, <1>5, <1>6, <1>7

(* Answering is the exchange; else both ends keep what they agreed to. *)
LEMMA AccordStep ==
  ASSUME TypeOK, Awaited, AnswersMatch, Bounds, NEW e \in End, NEW f \in End, f = Other(e), Works(e)
  PROVE  \/ \A x \in End : Accord(x)' = Accord(x)
         \/ /\ Accord(f)' \in Accord(f) .. want[f] /\ Accord(e)' \in {Accord(e), want[e]}
            /\ AnswerSet(e)
<1>1. e # f /\ \A x \in End : x = e \/ x = f
  BY EndsGive
<1>2. CASE NegotiationNeeded(e) \/ HandleSignal(e) \/ RemoteOfferSet(e)
  <2>1. (AnswerSent(e)' <=> AnswerSent(e)) /\ (AnswerSent(f)' <=> AnswerSent(f))
    BY <1>2, SentStays
  <2>2. offered' = offered /\ told' = told
    BY <1>2 DEF NegotiationNeeded, HandleSignal, RemoteOfferSet
  <2>3. QED
    BY <1>1, <2>1, <2>2 DEF Accord
<1>3. CASE OfferSet(e)
  <2>1. ~ AnswerSent(e) /\ ~ AnswerSent(e)' /\ (AnswerSent(f)' <=> AnswerSent(f))
    BY <1>3, SentStays
  <2>2. told' = told /\ offered'[f] = offered[f]
    BY <1>3, OfferDoes
  <2>3. QED
    BY <1>1, <2>1, <2>2 DEF Accord
<1>4. CASE RemoteAnswerSet(e)
  <2>1. AnswerSent(e) /\ (AnswerSent(f)' <=> AnswerSent(f))
    BY <1>4, SentStays
  <2>2. Turn(e, "remote") /\ Head(ops[e]).desc.type = "answer"
    BY <1>4 DEF RemoteAnswerSet
  <2>3. sig[e] = "have-local-offer"
    BY <2>2 DEF AnswersMatch
  <2>4. told'[e] = offered[e] /\ told'[f] = told[f] /\ offered' = offered
    BY <1>4, <2>3, RemoteAnswerDoes
  <2>5. QED
    BY <1>1, <2>1, <2>4 DEF Accord
<1>5. CASE AnswerSet(e)
  <2>1. ~ AnswerSent(e) /\ ~ AnswerSent(e)' /\ AnswerSent(f)'
    BY <1>5, SentStays
  <2>2. /\ sig[e] = "have-remote-offer" /\ offered' = offered /\ told'[f] = told[f]
        /\ told'[e] \in {want[e], told[e]}
    BY <1>5, AnswerDoes
  <2>3. sig[f] = "have-local-offer"
    BY <2>2, EndsGive DEF Awaited
  <2>4. /\ told[f] <= offered[f] /\ offered[f] <= want[f]
        /\ told[f] \in Nat /\ offered[f] \in Nat /\ want[f] \in Nat
    BY <2>3, ChangesIsPositive DEF Bounds, TypeOK, Media
  <2>5. Accord(f)' = offered[f] /\ Accord(f) \in {offered[f], told[f]}
    BY <2>1, <2>2 DEF Accord
  <2>6. Accord(e)' = told'[e] /\ Accord(e) = told[e]
    BY <2>1 DEF Accord
  <2>7. QED
    BY <1>5, <2>2, <2>4, <2>5, <2>6
<1>6. QED
  BY <1>2, <1>3, <1>4, <1>5 DEF Works

LEMMA ExchangesStep ==
  ASSUME TypeOK, Awaited, AnswersMatch, Bounds, [Next]_vars
  PROVE  [Exchanges!Next]_(Exchanges!vars)
<1> DEFINE agreed == [x \in End |-> IF AnswerSent(x) THEN offered[x] ELSE told[x]]
<1>1. agreed = [x \in End |-> Accord(x)] /\ agreed' = [x \in End |-> Accord(x)']
  BY DEF Accord
<1>2. \A f, e \in End : Exchanges!Exchange(f, e) =
        (/\ \E offer \in agreed[f] .. want[f], answer \in {agreed[e], want[e]} :
              agreed' = [agreed EXCEPT ![f] = offer, ![e] = answer]
         /\ UNCHANGED want)
  BY DEF Exchanges!Exchange
<1>3. \A e \in End : Exchanges!Change(e) =
        (want[e] < MaxChanges /\ want' = [want EXCEPT ![e] = @ + 1] /\ agreed' = agreed)
  BY DEF Exchanges!Change
<1>4. UNCHANGED Exchanges!vars <=> want' = want /\ agreed' = agreed
  BY DEF Exchanges!vars
<1> HIDE DEF agreed
<1>5. ASSUME ops' = ops, net' = net, offered' = offered, told' = told
      PROVE  agreed' = agreed
  BY <1>1, <1>5 DEF Accord, AnswerSent, SettingAnswer
<1>6. ASSUME NEW e \in End, Change(e)
      PROVE  Exchanges!Change(e)
  BY <1>3, <1>5, <1>6 DEF Change
<1>7. ASSUME NEW e \in End, Works(e)
      PROVE  [Exchanges!Next]_(Exchanges!vars)
  <2>1. PICK f \in End : f = Other(e) /\ f # e /\ e \in End \ {f} /\ \A x \in End : x = e \/ x = f
    BY EndsGive
  <2>2. want' = want
    BY <1>7 DEF Works, NegotiationNeeded, HandleSignal, OfferSet, AnswerSet, RemoteOfferSet, RemoteAnswerSet
  <2>3. CASE \A x \in End : Accord(x)' = Accord(x)
    <3>1. agreed' = agreed
      BY <1>1, <2>3
    <3>2. QED
      BY <1>4, <2>2, <3>1
  <2>4. CASE Accord(f)' \in Accord(f) .. want[f] /\ Accord(e)' \in {Accord(e), want[e]}
    <3>1. agreed' = [agreed EXCEPT ![f] = Accord(f)', ![e] = Accord(e)']
      BY <1>1, <2>1
    <3>2. agreed[f] = Accord(f) /\ agreed[e] = Accord(e)
      BY <1>1
    <3>3. \E offer \in agreed[f] .. want[f], answer \in {agreed[e], want[e]} :
            agreed' = [agreed EXCEPT ![f] = offer, ![e] = answer]
      BY <2>4, <3>1, <3>2
    <3>4. Exchanges!Exchange(f, e)
      BY <1>2, <2>2, <3>3
    <3>5. QED
      BY <2>1, <3>4 DEF Exchanges!Next
  <2>5. QED
    BY <1>7, <2>1, <2>3, <2>4, AccordStep
<1>8. CASE UNCHANGED vars
  BY <1>4, <1>5, <1>8 DEF vars
<1>9. QED
  BY <1>6, <1>7, <1>8 DEF Next, Exchanges!Next

LEMMA AlwaysWithin == Spec => []Bounds
<1>1. Init => Bounds
  BY DEF Init, Bounds
<1>2. QED
  BY <1>1, BoundsStep, NegotiationTypeCorrect, PTL DEF Spec

(* However offers cross, are ignored and are rolled back, the negotiation   *)
(* amounts to exchanges in one step, in which both ends move on together    *)
(* and never back to older media (createPeer and handleSignal of call.ts).  *)
THEOREM NegotiationExchanges == Spec => ImplementsAgreement
<1>1. Init => Exchanges!Init
  <2>1. ASSUME Init, NEW x \in End
        PROVE  ~ AnswerSent(x) /\ told[x] = 0
    BY <2>1, EmptyQueues DEF Init
  <2>2. ASSUME Init
        PROVE  Exchanges!Init
    <3>1. [x \in End |-> IF AnswerSent(x) THEN offered[x] ELSE told[x]] = [x \in End |-> 0]
      BY <2>1, <2>2
    <3>2. want = [x \in End |-> 1]
      BY <2>2 DEF Init
    <3>3. QED
      BY <3>1, <3>2 DEF Exchanges!Init
  <2>3. QED
    BY <2>2
<1>2. TypeOK /\ Awaited /\ AnswersMatch /\ Bounds /\ [Next]_vars => [Exchanges!Next]_(Exchanges!vars)
  BY ExchangesStep
<1>3. QED
  BY <1>1, <1>2, NegotiationTypeCorrect, AlwaysInPhase, PhaseAwaits, AnswersAlwaysMatch, AlwaysWithin, PTL
     DEF Spec, ImplementsAgreement, Exchanges!Spec
=============================================================================
