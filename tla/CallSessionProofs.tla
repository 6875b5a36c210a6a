-------------------------- MODULE CallSessionProofs --------------------------
(***************************************************************************)
(* The properties of CallSession, proved for any number of joinCalls,      *)
(* broadcasts and users.                                                   *)
(***************************************************************************)
EXTENDS CallSession, TLAPS

(* The mixer is that of the call.                                          *)
MixerOfCall == mixer = call.mgr

(* A joinCall that has no call yet has touched nothing.                    *)
FreshAttempts ==
  \A m \in Manager : join[m] \in {"none", "turn"} =>
    /\ mgr[m] = Idle /\ m \notin silent /\ call.mgr # m
    /\ \A s \in Stream : pick[s].mgr # m

(* CallManager.join sets the microphone and listens in one step, and       *)
(* leave ends both; peers come from events only.                           *)
ManagersAgree ==
  \A m \in Manager :
    /\ mgr[m].mic # "none" <=> mgr[m].listens
    /\ mgr[m].listens => join[m] = "in"
    /\ ~ mgr[m].listens => mgr[m].peers = {}
    /\ mgr[m].tracks \subseteq mgr[m].peers

(* The call waits for its microphone or has it.                            *)
CallIsJoined ==
  InCall => \/ join[call.mgr] = "mic"
            \/ join[call.mgr] = "in" /\ Current.mic # "none"

(* Streams are of the manager whose startBroadcast asked for them.         *)
PicksAreOwned ==
  /\ \A s \in Stream : pick[s].st # "none" => pick[s].mgr \in Manager
  /\ \A m \in Manager : mgr[m].screen # None =>
       pick[mgr[m].screen].mgr = m /\ pick[mgr[m].screen].st \in {"applying", "over"}

(* No two joinCalls are under way, and none for a call that was left.      *)
OneJoins ==
  Without(Gone) =>
    /\ \A m \in Manager : join[m] = "mic" => call.mgr = m
    /\ \A m \in Manager : join[m] = "turn" => ~ InCall
    /\ \A m, k \in Manager : join[m] = "turn" /\ join[k] = "turn" => m = k

(* Who waits for the microphone has not muted it.                          *)
UnmutedAtFirst ==
  Without({"muted_joining"}) /\ InCall /\ join[call.mgr] = "mic" => ~ call.micMuted

(* DeafenedIsSilent, without the track.                                    *)
GainFollows ==
  InCall => /\ mixer = call.mgr
            /\ call.deafened <=> mixer \in silent
            /\ call.deafened => call.micMuted

(* A manager has one startBroadcast waiting, and the picker is open only   *)
(* without a screen.                                                       *)
OnePick ==
  Without({"picked_twice"}) =>
    /\ \A s, t \in Stream : s \in Waiting(pick[s].mgr) /\ t \in Waiting(pick[s].mgr) => s = t
    /\ \A s \in Stream : pick[s].st = "picking" => mgr[pick[s].mgr].screen = None

(* PeersAreSentAll, of every manager.                                      *)
SentAll ==
  Without({"picked_twice"}) =>
    \A m \in Manager : mgr[m].sends = mgr[m].peers \X Tracks(mgr[m])

(* A startBroadcast that waits is of the call.                             *)
PicksOfCall ==
  Without(Gone \cup {"left_picking", "denied_sharing"}) =>
    \A s \in Stream : pick[s].st \in {"picking", "applying"} => pick[s].mgr = call.mgr

(* While the picker is open the panel shows no broadcast; while the        *)
(* settings are applied there is the screen.                               *)
BroadcastStarts ==
  (Without(Gone \cup {"left_picking", "picked_twice", "stopped_applying", "denied_sharing"})
     /\ InCall) =>
    \A s \in Waiting(call.mgr) :
      IF pick[s].st = "picking" THEN ~ call.broadcasting ELSE Current.screen = s

-----------------------------------------------------------------------------
(* What a step does to the managers *)

LEMMA IdleType == Idle \in CallManager
BY DEF Idle, CallManager

(* A step that changes one manager only.                                   *)
LEMMA OneManager ==
  ASSUME mgr \in [Manager -> CallManager], NEW m \in Manager, NEW v \in CallManager,
         mgr' = [mgr EXCEPT ![m] = v]
  PROVE  /\ mgr' \in [Manager -> CallManager] /\ mgr'[m] = v
         /\ \A k \in Manager \ {m} : mgr'[k] = mgr[k]
OBVIOUS

(* setMicMuted of one manager.                                             *)
LEMMA MutedType ==
  ASSUME NEW v \in CallManager, NEW muted \in BOOLEAN
  PROVE  /\ Muted(v, muted) \in CallManager
         /\ v.mic = "none" => Muted(v, muted) = v
         /\ v.mic # "none" => Muted(v, muted).mic = IF muted THEN "off" ELSE "on"
         /\ Muted(v, muted).listens = v.listens /\ Muted(v, muted).screen = v.screen
         /\ Muted(v, muted).peers = v.peers /\ Muted(v, muted).sends = v.sends
         /\ Muted(v, muted).tracks = v.tracks
BY DEF Muted, CallManager

(* setMicMuted changes nothing but the microphone that is there.           *)
LEMMA MutingStep ==
  ASSUME TypeOK, ToggleMic \/ ToggleDeafen
  PROVE  /\ InCall /\ call.mgr \in Manager
         /\ call' \in ActiveCall /\ call'.mgr = call.mgr /\ call'.broadcasting = call.broadcasting
         /\ mgr' \in [Manager -> CallManager]
         /\ \A k \in Manager :
              /\ mgr'[k].listens = mgr[k].listens /\ mgr'[k].screen = mgr[k].screen
              /\ mgr'[k].peers = mgr[k].peers /\ mgr'[k].sends = mgr[k].sends
              /\ mgr'[k].tracks = mgr[k].tracks
              /\ mgr[k].mic = "none" <=> mgr'[k].mic = "none"
              /\ k # call.mgr => mgr'[k] = mgr[k]
         /\ UNCHANGED <<mixer, join, pick, live, plays>>
         /\ slips \subseteq slips'
         /\ join[call.mgr] = "mic" => "muted_joining" \in slips'
         /\ \/ /\ mgr'[call.mgr].mic = mgr[call.mgr].mic
               /\ call'.micMuted = call.micMuted
            \/ mgr[call.mgr].mic # "none" =>
                 mgr'[call.mgr].mic = IF call'.micMuted THEN "off" ELSE "on"
<1>1. call \in ActiveCall /\ call.mgr \in Manager /\ InCall
  BY DEF TypeOK, ToggleMic, ToggleDeafen, InCall, ActiveCall, NoCall
<1>2. mgr \in [Manager -> CallManager] /\ mgr[call.mgr] \in CallManager
  BY <1>1 DEF TypeOK
<1>3. \A muted \in BOOLEAN : Muted(mgr[call.mgr], muted) \in CallManager
  BY <1>2, MutedType
<1>4. /\ UNCHANGED <<mixer, join, pick, live, plays>>
      /\ slips \subseteq slips'
      /\ join[call.mgr] = "mic" => "muted_joining" \in slips'
  BY DEF ToggleMic, ToggleDeafen, SlipOfMuting
<1>5. CASE ToggleMic
  <2> DEFINE muted == ~ call.micMuted
  <2>1. muted \in BOOLEAN
    BY <1>1
  <2>2. /\ mgr' = [mgr EXCEPT ![call.mgr] = Muted(mgr[call.mgr], muted)]
        /\ call' \in ActiveCall /\ call'.mgr = call.mgr /\ call'.micMuted = muted
        /\ call'.broadcasting = call.broadcasting
    BY <1>1, <1>5 DEF ToggleMic, ActiveCall
  <2> HIDE DEF muted
  <2>3. QED
    BY <1>1, <1>2, <1>3, <1>4, <2>1, <2>2, MutedType
<1>6. CASE ToggleDeafen
  <2> DEFINE muted == ~ call.deafened \/ preDeafen
  <2>1. muted \in BOOLEAN
    BY <1>1 DEF TypeOK
  <2>2. /\ mgr' = IF muted # call.micMuted
                    THEN [mgr EXCEPT ![call.mgr] = Muted(mgr[call.mgr], muted)] ELSE mgr
        /\ call' \in ActiveCall /\ call'.mgr = call.mgr /\ call'.micMuted = muted
        /\ call'.broadcasting = call.broadcasting
    BY <1>1, <1>6 DEF ToggleDeafen, ActiveCall, TypeOK
  <2> HIDE DEF muted
  <2>3. CASE muted = call.micMuted
    BY <1>1, <1>2, <1>4, <2>2, <2>3
  <2>4. CASE muted # call.micMuted
    BY <1>1, <1>2, <1>3, <1>4, <2>1, <2>2, <2>4, MutedType
  <2>5. QED
    BY <2>3, <2>4
<1>7. QED
  BY <1>5, <1>6

(* stopBroadcast of a manager, wherever it is called from.                 *)
LEMMA StopStep ==
  ASSUME TypeOK, NEW m \in Manager, NEW ended, StopBroadcast(m, ended)
  PROVE  /\ mgr' \in [Manager -> CallManager]
         /\ \A k \in Manager \ {m} : mgr'[k] = mgr[k]
         /\ mgr'[m].mic = mgr[m].mic /\ mgr'[m].listens = mgr[m].listens
         /\ mgr'[m].peers = mgr[m].peers /\ mgr'[m].tracks = mgr[m].tracks
         /\ mgr'[m].screen = None
         /\ mgr'[m].sends = {x \in mgr[m].sends : x[2] # mgr[m].screen}
         /\ live' = live \ {mgr[m].screen, ended}
         /\ slips' \subseteq Slip
         /\ slips \subseteq slips'
         /\ ~ (mgr[m].screen # None /\ pick[mgr[m].screen].st = "applying"
                 /\ "stopped_applying" \notin slips')
<1> DEFINE v == [mgr[m] EXCEPT !.screen = None,
                               !.sends = {x \in mgr[m].sends : x[2] # mgr[m].screen}]
<1>1. mgr \in [Manager -> CallManager] /\ mgr[m] \in CallManager
  BY DEF TypeOK
<1>2. mgr' = [mgr EXCEPT ![m] = v]
  BY <1>1 DEF StopBroadcast
<1>3. /\ v \in CallManager /\ v.mic = mgr[m].mic /\ v.listens = mgr[m].listens
      /\ v.peers = mgr[m].peers /\ v.tracks = mgr[m].tracks /\ v.screen = None
      /\ v.sends = {x \in mgr[m].sends : x[2] # mgr[m].screen}
  BY <1>1 DEF CallManager
<1> HIDE DEF v
<1>4. /\ mgr' \in [Manager -> CallManager] /\ mgr'[m] = v
      /\ \A k \in Manager \ {m} : mgr'[k] = mgr[k]
  BY <1>1, <1>2, <1>3, OneManager
<1>5. QED
  BY <1>3, <1>4 DEF StopBroadcast, TypeOK, Slip

(* A manager's peers become the set S.                                     *)
LEMMA PeersStep ==
  ASSUME TypeOK, NEW m \in Manager, NEW S \in SUBSET User, PeersChange(m, S)
  PROVE  /\ mgr' \in [Manager -> CallManager]
         /\ \A k \in Manager \ {m} : mgr'[k] = mgr[k]
         /\ mgr[m].listens
         /\ mgr'[m].mic = mgr[m].mic /\ mgr'[m].listens = mgr[m].listens
         /\ mgr'[m].screen = mgr[m].screen /\ mgr'[m].peers = S
         /\ mgr'[m].tracks = mgr[m].tracks \cap S
         /\ mgr'[m].sends = {x \in mgr[m].sends : x[1] \in S}
                              \cup ((S \ mgr[m].peers) \X Tracks(mgr[m]))
         /\ UNCHANGED <<call, mixer, preDeafen, join, pick, live, silent, slips>>
<1> DEFINE sends == {x \in mgr[m].sends : x[1] \in S} \cup ((S \ mgr[m].peers) \X Tracks(mgr[m]))
           v == [mgr[m] EXCEPT !.peers = S, !.sends = sends, !.tracks = mgr[m].tracks \cap S]
<1>1. mgr \in [Manager -> CallManager] /\ mgr[m] \in CallManager
  BY DEF TypeOK
<1>2. mgr' = [mgr EXCEPT ![m] = v] /\ mgr[m].listens
  BY <1>1 DEF PeersChange
<1>3. Tracks(mgr[m]) \subseteq Sent
  BY <1>1 DEF Tracks, CallManager, Sent
<1>4. sends \subseteq User \X Sent
  BY <1>1, <1>3 DEF CallManager
<1> HIDE DEF sends
<1>5. /\ v \in CallManager /\ v.mic = mgr[m].mic /\ v.listens = mgr[m].listens
      /\ v.screen = mgr[m].screen /\ v.peers = S /\ v.sends = sends
      /\ v.tracks = mgr[m].tracks \cap S
  BY <1>1, <1>4 DEF CallManager
<1> HIDE DEF v
<1>6. /\ mgr' \in [Manager -> CallManager] /\ mgr'[m] = v
      /\ \A k \in Manager \ {m} : mgr'[k] = mgr[k]
  BY <1>1, <1>2, <1>5, OneManager
<1>7. UNCHANGED <<call, mixer, preDeafen, join, pick, live, silent, slips>>
  BY DEF PeersChange, store
<1>8. QED
  BY <1>2, <1>5, <1>6, <1>7 DEF sends

(* leaveCall, if there is a call: its manager is idle again and its mixer  *)
(* is closed.                                                              *)
LEMMA LeaveCallStep ==
  ASSUME TypeOK, MixerOfCall, LeaveCall
  PROVE  /\ call' = NoCall /\ mixer' = None
         /\ mgr' \in [Manager -> CallManager]
         /\ \A k \in Manager : mgr'[k] = IF k = call.mgr THEN Idle ELSE mgr[k]
         /\ plays' \in [Manager -> SUBSET (Manager \X User)]
         /\ \A k \in Manager : plays'[k] = IF k = call.mgr THEN {} ELSE plays[k]
         /\ live' \subseteq live
         /\ InCall => Current.screen \notin live'
         /\ InCall <=> call.mgr \in Manager
<1>1. CASE InCall
  <2>1. call \in ActiveCall /\ call.mgr \in Manager /\ mixer = call.mgr /\ mixer # None
    BY <1>1, NoneIsNew DEF TypeOK, MixerOfCall, InCall, ActiveCall
  <2>2. /\ mgr' = [mgr EXCEPT ![call.mgr] = Idle]
        /\ plays' = [plays EXCEPT ![call.mgr] = {}]
        /\ live' = live \ {Current.screen}
        /\ call' = NoCall /\ mixer' = None
    BY <1>1, <2>1 DEF LeaveCall, Closed
  <2>3. QED
    BY <1>1, <2>1, <2>2, IdleType DEF TypeOK
<1>2. CASE ~ InCall
  <2>1. call = NoCall /\ call.mgr = None
    BY <1>2 DEF InCall, NoCall
  <2>2. QED
    BY <1>2, <2>1, NoneIsNew DEF LeaveCall, TypeOK, MixerOfCall
<1>3. QED
  BY <1>1, <1>2

(* The call that is broadcasting stops.                                    *)
LEMMA BroadcastOffStep ==
  ASSUME TypeOK, BroadcastOff
  PROVE  /\ InCall /\ call.mgr \in Manager
         /\ call' = [call EXCEPT !.broadcasting = FALSE] /\ call' \in ActiveCall
         /\ call'.mgr = call.mgr /\ ~ call'.broadcasting
         /\ call'.micMuted = call.micMuted /\ call'.deafened = call.deafened
         /\ StopBroadcast(call.mgr, None)
         /\ UNCHANGED <<mixer, preDeafen, join, pick, plays, silent>>
<1>1. call \in ActiveCall /\ InCall
  BY DEF TypeOK, BroadcastOff, NoCall, InCall
<1>2. QED
  BY <1>1 DEF BroadcastOff, ActiveCall

(* The browser ends a screen, whoever has it now.                          *)
LEMMA ShareEndedStep ==
  ASSUME TypeOK, PicksAreOwned, NEW s \in Stream, ShareEnded(s)
  PROVE  /\ pick[s].mgr \in Manager /\ s \in live
         /\ call' \in ActiveCall \cup {NoCall}
         /\ call'.mgr = call.mgr /\ (call' # NoCall <=> InCall)
         /\ call'.micMuted = call.micMuted /\ call'.deafened = call.deafened
         /\ InCall => call'.broadcasting =
              (mgr[pick[s].mgr].screen = None /\ call.broadcasting)
         /\ StopBroadcast(pick[s].mgr, s)
         /\ UNCHANGED <<mixer, preDeafen, join, pick, plays, silent>>
<1>1. pick[s].mgr \in Manager /\ s \in live
  BY DEF TypeOK, PicksAreOwned, ShareEnded
<1>2. InCall => call \in ActiveCall /\ call.mgr # None
  BY NoneIsNew DEF TypeOK, InCall, ActiveCall
<1>3. call' = IF InCall /\ mgr[pick[s].mgr].screen # None
                THEN [call EXCEPT !.broadcasting = FALSE] ELSE call
  BY DEF ShareEnded
<1>4. CASE InCall /\ mgr[pick[s].mgr].screen # None
  <2>1. /\ call' \in ActiveCall /\ call'.mgr = call.mgr /\ call'.broadcasting = FALSE
        /\ call'.micMuted = call.micMuted /\ call'.deafened = call.deafened
    BY <1>2, <1>3, <1>4 DEF ActiveCall
  <2>2. call' # NoCall
    BY <1>2, <1>4, <2>1 DEF NoCall
  <2>3. QED
    BY <1>1, <1>4, <2>1, <2>2 DEF ShareEnded
<1>5. CASE ~ (InCall /\ mgr[pick[s].mgr].screen # None)
  <2>1. call' = call /\ (call' # NoCall <=> InCall) /\ call' \in ActiveCall \cup {NoCall}
    BY <1>3, <1>5 DEF InCall, TypeOK
  <2>2. InCall => call'.broadcasting = (mgr[pick[s].mgr].screen = None /\ call.broadcasting)
    BY <1>2, <1>5, <2>1 DEF ActiveCall
  <2>3. QED
    BY <1>1, <2>1, <2>2 DEF ShareEnded
<1>6. QED
  BY <1>4, <1>5

(* The rest of CallManager.join.                                           *)
LEMMA MicGrantedStep ==
  ASSUME TypeOK, NEW m \in Manager, MicGranted(m)
  PROVE  /\ mgr' \in [Manager -> CallManager]
         /\ \A k \in Manager \ {m} : mgr'[k] = mgr[k]
         /\ mgr'[m].mic = "on" /\ mgr'[m].listens
         /\ mgr'[m].screen = mgr[m].screen /\ mgr'[m].peers = mgr[m].peers
         /\ mgr'[m].sends = mgr[m].sends /\ mgr'[m].tracks = mgr[m].tracks
         /\ join[m] = "mic" /\ join' = [join EXCEPT ![m] = "in"]
         /\ UNCHANGED <<call, mixer, preDeafen, pick, live, plays, silent, slips>>
<1> DEFINE v == [mgr[m] EXCEPT !.mic = "on", !.listens = TRUE]
<1>1. mgr \in [Manager -> CallManager] /\ mgr[m] \in CallManager
  BY DEF TypeOK
<1>2. mgr' = [mgr EXCEPT ![m] = v]
  BY <1>1 DEF MicGranted
<1>3. /\ v \in CallManager /\ v.mic = "on" /\ v.listens /\ v.screen = mgr[m].screen
      /\ v.peers = mgr[m].peers /\ v.sends = mgr[m].sends /\ v.tracks = mgr[m].tracks
  BY <1>1 DEF CallManager
<1> HIDE DEF v
<1>4. QED
  BY <1>1, <1>2, <1>3, OneManager DEF MicGranted

(* The screen of a manager starts and goes to its peers.                   *)
LEMMA PickedStep ==
  ASSUME TypeOK, PicksAreOwned, NEW s \in Stream, Picked(s)
  PROVE  LET m == pick[s].mgr IN
         /\ m \in Manager
         /\ mgr' \in [Manager -> CallManager]
         /\ \A k \in Manager \ {m} : mgr'[k] = mgr[k]
         /\ mgr'[m].mic = mgr[m].mic /\ mgr'[m].listens = mgr[m].listens
         /\ mgr'[m].peers = mgr[m].peers /\ mgr'[m].tracks = mgr[m].tracks
         /\ mgr'[m].screen = s /\ mgr'[m].sends = mgr[m].sends \cup (mgr[m].peers \X {s})
         /\ pick[s].st = "picking" /\ live' = live \cup {s}
         /\ pick' \in [Stream -> Pick] /\ pick'[s].mgr = m /\ pick'[s].st = "applying"
         /\ \A t \in Stream \ {s} : pick'[t] = pick[t]
         /\ UNCHANGED <<call, mixer, preDeafen, join, plays, silent, slips>>
<1> DEFINE m == pick[s].mgr
           v == Started(mgr[m], s)
<1>1. m \in Manager
  BY DEF TypeOK, PicksAreOwned, Picked
<1>2. mgr \in [Manager -> CallManager] /\ mgr[m] \in CallManager /\ mgr' = [mgr EXCEPT ![m] = v]
  BY <1>1 DEF TypeOK, Picked
<1>3. /\ v \in CallManager /\ v.mic = mgr[m].mic /\ v.listens = mgr[m].listens
      /\ v.peers = mgr[m].peers /\ v.tracks = mgr[m].tracks
      /\ v.screen = s /\ v.sends = mgr[m].sends \cup (mgr[m].peers \X {s})
  BY <1>2 DEF Started, CallManager, Sent
<1> HIDE DEF v, m
<1>4. /\ mgr' \in [Manager -> CallManager] /\ mgr'[m] = v
      /\ \A k \in Manager \ {m} : mgr'[k] = mgr[k]
  BY <1>1, <1>2, <1>3, OneManager
<1>5. /\ pick' \in [Stream -> Pick] /\ pick'[s].mgr = pick[s].mgr /\ pick'[s].st = "applying"
      /\ \A t \in Stream \ {s} : pick'[t] = pick[t]
  BY DEF TypeOK, Pick, Picked
<1>6. /\ pick[s].st = "picking" /\ live' = live \cup {s}
      /\ UNCHANGED <<call, mixer, preDeafen, join, plays, silent, slips>>
  BY DEF Picked, store
<1>7. QED
  BY <1>1, <1>3, <1>4, <1>5, <1>6 DEF m

(* The sound of a peer arrives.                                            *)
LEMMA RemoteTrackStep ==
  ASSUME TypeOK, NEW m \in Manager, NEW u \in User, RemoteTrack(m, u)
  PROVE  /\ mgr' \in [Manager -> CallManager]
         /\ \A k \in Manager \ {m} : mgr'[k] = mgr[k]
         /\ u \in mgr[m].peers
         /\ mgr'[m].mic = mgr[m].mic /\ mgr'[m].listens = mgr[m].listens
         /\ mgr'[m].screen = mgr[m].screen /\ mgr'[m].peers = mgr[m].peers
         /\ mgr'[m].sends = mgr[m].sends /\ mgr'[m].tracks = mgr[m].tracks \cup {u}
         /\ UNCHANGED <<call, mixer, preDeafen, join, pick, live, silent, slips>>
<1> DEFINE v == [mgr[m] EXCEPT !.tracks = mgr[m].tracks \cup {u}]
<1>1. mgr \in [Manager -> CallManager] /\ mgr[m] \in CallManager
  BY DEF TypeOK
<1>2. mgr' = [mgr EXCEPT ![m] = v] /\ u \in mgr[m].peers
  BY <1>1 DEF RemoteTrack
<1>3. /\ v \in CallManager /\ v.mic = mgr[m].mic /\ v.listens = mgr[m].listens
      /\ v.screen = mgr[m].screen /\ v.peers = mgr[m].peers
      /\ v.sends = mgr[m].sends /\ v.tracks = mgr[m].tracks \cup {u}
  BY <1>1 DEF CallManager
<1> HIDE DEF v
<1>4. QED
  BY <1>1, <1>2, <1>3, OneManager DEF RemoteTrack, store

(* Only the callbacks of peers change what the current mixer plays.        *)
LEMMA PlaysType ==
  ASSUME TypeOK, MixerOfCall,
         \/ \E m \in Manager, S \in SUBSET User : PeersChange(m, S)
         \/ \E m \in Manager, u \in User : RemoteTrack(m, u)
  PROVE  /\ plays' \in [Manager -> SUBSET (Manager \X User)]
         /\ \A k \in Manager : k # call.mgr => plays'[k] = plays[k]
<1>1. CASE ~ InCall
  BY <1>1 DEF TypeOK, PeersChange, Unheard, RemoteTrack, Heard
<1>2. CASE InCall
  <2>1. mixer \in Manager /\ mixer = call.mgr /\ plays[mixer] \subseteq Manager \X User
    BY <1>2, NoneIsNew DEF TypeOK, InCall, MixerOfCall, ActiveCall
  <2>2. PICK P \in SUBSET (Manager \X User) : plays' = [plays EXCEPT ![mixer] = P]
    <3>1. CASE \E m \in Manager, S \in SUBSET User : PeersChange(m, S)
      <4>1. PICK m \in Manager, S \in SUBSET User : PeersChange(m, S)
        BY <3>1
      <4>2. plays' = [plays EXCEPT ![mixer] = {x \in plays[mixer] : x[2] \notin mgr[m].peers \ S}]
        BY <1>2, <4>1 DEF PeersChange, Unheard
      <4>3. {x \in plays[mixer] : x[2] \notin mgr[m].peers \ S} \in SUBSET (Manager \X User)
        BY <2>1
      <4>4. QED
        BY <4>2, <4>3
    <3>2. CASE \E m \in Manager, u \in User : RemoteTrack(m, u)
      <4>1. PICK m \in Manager, u \in User : RemoteTrack(m, u)
        BY <3>2
      <4>2. plays' = [plays EXCEPT ![mixer] = {x \in plays[mixer] : x[2] # u} \cup {<<m, u>>}]
        BY <1>2, <4>1 DEF RemoteTrack, Heard
      <4>3. {x \in plays[mixer] : x[2] # u} \cup {<<m, u>>} \in SUBSET (Manager \X User)
        BY <2>1
      <4>4. QED
        BY <4>2, <4>3
    <3>3. QED
      BY <3>1, <3>2
  <2>3. QED
    BY <2>1, <2>2 DEF TypeOK
<1>3. QED
  BY <1>1, <1>2

(* Either a picker opens, or the panel shows the screen there is.          *)
LEMMA BroadcastOnStep ==
  ASSUME TypeOK, NEW s \in Stream, BroadcastOn(s)
  PROVE  /\ InCall /\ call.mgr \in Manager /\ ~ call.broadcasting /\ pick[s].st = "none"
         /\ call' \in ActiveCall /\ call'.mgr = call.mgr
         /\ call'.micMuted = call.micMuted /\ call'.deafened = call.deafened
         /\ pick' \in [Stream -> Pick]
         /\ \A t \in Stream \ {s} : pick'[t] = pick[t]
         /\ slips \subseteq slips'
         /\ Current.screen = None =>
              /\ pick'[s].mgr = call.mgr /\ pick'[s].st = "picking" /\ call' = call
              /\ Waiting(call.mgr) # {} => "picked_twice" \in slips'
         /\ Current.screen # None => call'.broadcasting /\ UNCHANGED <<pick, slips>>
         /\ slips' \subseteq Slip
         /\ UNCHANGED <<mixer, preDeafen, join, mgr, live, plays, silent>>
<1>1. call \in ActiveCall /\ call.mgr \in Manager /\ InCall
  BY DEF TypeOK, BroadcastOn, InCall, ActiveCall
<1>2. slips' \subseteq Slip /\ slips \subseteq slips'
  BY DEF TypeOK, BroadcastOn, Slip
<1>3. CASE Current.screen = None
  <2>1. pick' = [pick EXCEPT ![s] = [mgr |-> call.mgr, st |-> "picking"]] /\ call' = call
    BY <1>3 DEF BroadcastOn
  <2>2. /\ pick' \in [Stream -> Pick] /\ pick'[s].mgr = call.mgr /\ pick'[s].st = "picking"
        /\ \A t \in Stream \ {s} : pick'[t] = pick[t]
    BY <1>1, <2>1 DEF TypeOK, Pick
  <2>3. QED
    BY <1>1, <1>2, <1>3, <2>1, <2>2 DEF BroadcastOn
<1>4. CASE Current.screen # None
  <2>1. call' = [call EXCEPT !.broadcasting = TRUE] /\ UNCHANGED <<pick, slips>>
    BY <1>4 DEF BroadcastOn
  <2>2. /\ call' \in ActiveCall /\ call'.mgr = call.mgr /\ call'.broadcasting
        /\ call'.micMuted = call.micMuted /\ call'.deafened = call.deafened
    BY <1>1, <2>1 DEF ActiveCall
  <2>3. QED
    BY <1>1, <1>2, <1>4, <2>1, <2>2 DEF BroadcastOn, TypeOK
<1>5. QED
  BY <1>3, <1>4

(* A start is over; the panel of the call there is says so.                *)
LEMMA AppliedStep ==
  ASSUME TypeOK, NEW s \in Stream, Applied(s)
  PROVE  /\ pick[s].st = "applying" /\ pick' \in [Stream -> Pick]
         /\ pick'[s].mgr = pick[s].mgr /\ pick'[s].st = "over"
         /\ \A t \in Stream \ {s} : pick'[t] = pick[t]
         /\ call' \in ActiveCall \cup {NoCall} /\ call'.mgr = call.mgr
         /\ call'.micMuted = call.micMuted /\ call'.deafened = call.deafened
         /\ InCall => call' # NoCall /\ call'.broadcasting
         /\ ~ InCall => call' = call
         /\ UNCHANGED <<mixer, preDeafen, join, mgr, live, plays, silent, slips>>
<1>1. /\ pick' \in [Stream -> Pick] /\ pick'[s].mgr = pick[s].mgr /\ pick'[s].st = "over"
      /\ \A t \in Stream \ {s} : pick'[t] = pick[t]
  BY DEF TypeOK, Pick, Applied
<1>2. CASE InCall
  <2>1. call \in ActiveCall /\ call' = [call EXCEPT !.broadcasting = TRUE]
    BY <1>2 DEF TypeOK, InCall, Applied
  <2>2. /\ call' \in ActiveCall /\ call'.mgr = call.mgr /\ call'.broadcasting
        /\ call'.micMuted = call.micMuted /\ call'.deafened = call.deafened
        /\ call' # NoCall
    BY <2>1 DEF ActiveCall, NoCall
  <2>3. QED
    BY <1>1, <1>2, <2>2 DEF Applied
<1>3. CASE ~ InCall
  BY <1>1, <1>3 DEF Applied, TypeOK
<1>4. QED
  BY <1>2, <1>3

(* The call ends, its mixer is closed, and the managers are left alone.    *)
LEMMA MicDeniedStep ==
  ASSUME TypeOK, MixerOfCall, NEW m \in Manager, MicDenied(m)
  PROVE  /\ join[m] = "mic" /\ join' = [join EXCEPT ![m] = "over"]
         /\ call' = NoCall /\ mixer' = None
         /\ plays' \in [Manager -> SUBSET (Manager \X User)]
         /\ \A k \in Manager : plays'[k] = IF k = call.mgr THEN {} ELSE plays[k]
         /\ slips \subseteq slips' /\ slips' \subseteq Slip
         /\ Waiting(m) # {} \/ mgr[m].screen # None => "denied_sharing" \in slips'
         /\ UNCHANGED <<preDeafen, mgr, pick, live, silent>>
<1>1. CASE mixer = None
  BY <1>1, NoneIsNew DEF MicDenied, Closed, TypeOK, MixerOfCall, Slip
<1>2. CASE mixer # None
  BY <1>2 DEF MicDenied, Closed, TypeOK, MixerOfCall, Slip
<1>3. QED
  BY <1>1, <1>2

-----------------------------------------------------------------------------
(* Each part of the invariant is kept by every step                        *)

(* Every action keeps the types.                                           *)
LEMMA TypesStep ==
  ASSUME TypeOK, PicksAreOwned, MixerOfCall, Next
  PROVE  TypeOK'
<1>1. ASSUME NEW m \in Manager, JoinCall(m)
      PROVE  TypeOK'
  BY <1>1, LeaveCallStep DEF JoinCall, SlipsOfLeaving, TypeOK, Slip
<1>2. ASSUME NEW m \in Manager, TurnFails(m)
      PROVE  TypeOK'
  BY <1>2 DEF TurnFails, TypeOK
<1>3. ASSUME NEW m \in Manager, TurnCredentials(m)
      PROVE  TypeOK'
  BY <1>3 DEF TurnCredentials, TypeOK, ActiveCall
<1>4. ASSUME NEW m \in Manager, MicGranted(m)
      PROVE  TypeOK'
  <2>1. join' \in [Manager -> {"none", "turn", "mic", "in", "over"}]
    BY <1>4 DEF TypeOK, MicGranted
  <2>2. QED
    BY <1>4, <2>1, MicGrantedStep DEF TypeOK
<1>5. ASSUME NEW m \in Manager, MicDenied(m)
      PROVE  TypeOK'
  <2>1. join' \in [Manager -> {"none", "turn", "mic", "in", "over"}]
    BY <1>5 DEF TypeOK, MicDenied
  <2>2. QED
    BY <1>5, <2>1, MicDeniedStep DEF TypeOK
<1>6. ASSUME Leave
      PROVE  TypeOK'
  BY <1>6, LeaveCallStep DEF Leave, SlipsOfLeaving, TypeOK, Slip
<1>7. ASSUME ToggleMic
      PROVE  TypeOK'
  <2>1. mixer \in Manager /\ call \in ActiveCall
    BY <1>7, MutingStep DEF MixerOfCall, TypeOK, InCall
  <2>2. /\ silent' \subseteq Manager /\ slips' \subseteq Slip
        /\ preDeafen' \in {preDeafen, call.micMuted}
    BY <1>7, <2>1 DEF TypeOK, ToggleMic, Deafened, SlipOfMuting, Slip
  <2>3. QED
    BY <1>7, <2>1, <2>2, MutingStep DEF TypeOK, ActiveCall
<1>8. ASSUME ToggleDeafen
      PROVE  TypeOK'
  <2>1. mixer \in Manager /\ call \in ActiveCall
    BY <1>8, MutingStep DEF MixerOfCall, TypeOK, InCall
  <2>2. /\ silent' \subseteq Manager /\ slips' \subseteq Slip
        /\ preDeafen' \in {preDeafen, call.micMuted}
    BY <1>8, <2>1 DEF TypeOK, ToggleDeafen, Deafened, SlipOfMuting, Slip
  <2>3. QED
    BY <1>8, <2>1, <2>2, MutingStep DEF TypeOK, ActiveCall
<1>9. ASSUME BroadcastOff
      PROVE  TypeOK'
  BY <1>9, BroadcastOffStep, StopStep DEF TypeOK
<1>10. ASSUME NEW s \in Stream, BroadcastOn(s)
      PROVE  TypeOK'
  BY <1>10, BroadcastOnStep DEF TypeOK
<1>11. ASSUME NEW s \in Stream, PickRefused(s)
      PROVE  TypeOK'
  BY <1>11 DEF PickRefused, TypeOK, Pick, Slip, store
<1>12. ASSUME NEW s \in Stream, Picked(s)
      PROVE  TypeOK'
  BY <1>12, PickedStep DEF TypeOK
<1>13. ASSUME NEW s \in Stream, Applied(s)
      PROVE  TypeOK'
  BY <1>13, AppliedStep DEF TypeOK
<1>14. ASSUME NEW s \in Stream, ShareEnded(s)
      PROVE  TypeOK'
  BY <1>14, ShareEndedStep, StopStep DEF TypeOK
<1>15. ASSUME NEW m \in Manager, NEW S \in SUBSET User, PeersChange(m, S)
      PROVE  TypeOK'
  <2>1. plays' \in [Manager -> SUBSET (Manager \X User)]
    BY <1>15, PlaysType
  <2>2. QED
    BY <1>15, <2>1, PeersStep DEF TypeOK
<1>16. ASSUME NEW m \in Manager, NEW u \in User, RemoteTrack(m, u)
      PROVE  TypeOK'
  <2>1. plays' \in [Manager -> SUBSET (Manager \X User)]
    BY <1>16, PlaysType
  <2>2. QED
    BY <1>16, <2>1, RemoteTrackStep DEF TypeOK
<1>17. QED
  BY <1>1, <1>2, <1>3, <1>4, <1>5, <1>6, <1>7, <1>8, <1>9, <1>10, <1>11, <1>12, <1>13, <1>14,
     <1>15, <1>16 DEF Next

(* joinCall makes the mixer with the call, and they end together.          *)
LEMMA MixerStep ==
  ASSUME TypeOK, MixerOfCall, PicksAreOwned, Next
  PROVE  MixerOfCall'
<1>1. CASE UNCHANGED <<mixer, call>>
  BY <1>1 DEF MixerOfCall
<1>2. ASSUME NEW m \in Manager, JoinCall(m)
      PROVE  MixerOfCall'
  BY <1>2, LeaveCallStep DEF JoinCall, SlipsOfLeaving, MixerOfCall, NoCall
<1>3. ASSUME NEW m \in Manager, TurnCredentials(m)
      PROVE  MixerOfCall'
  BY <1>3 DEF TurnCredentials, MixerOfCall
<1>4. ASSUME NEW m \in Manager, MicDenied(m)
      PROVE  MixerOfCall'
  BY <1>4, MicDeniedStep DEF MixerOfCall, NoCall
<1>5. ASSUME Leave
      PROVE  MixerOfCall'
  BY <1>5, LeaveCallStep DEF Leave, SlipsOfLeaving, MixerOfCall, NoCall
<1>6. ASSUME ToggleMic \/ ToggleDeafen
      PROVE  MixerOfCall'
  BY <1>6, MutingStep DEF MixerOfCall
<1>7. ASSUME BroadcastOff
      PROVE  MixerOfCall'
  BY <1>7, BroadcastOffStep, StopStep DEF MixerOfCall
<1>8. ASSUME NEW s \in Stream, BroadcastOn(s)
      PROVE  MixerOfCall'
  BY <1>8, BroadcastOnStep DEF MixerOfCall
<1>9. ASSUME NEW s \in Stream, Applied(s)
      PROVE  MixerOfCall'
  BY <1>9, AppliedStep DEF MixerOfCall
<1>10. ASSUME NEW s \in Stream, ShareEnded(s)
      PROVE  MixerOfCall'
  BY <1>10, ShareEndedStep, StopStep DEF MixerOfCall
<1>11. QED
  BY <1>1, <1>2, <1>3, <1>4, <1>5, <1>6, <1>7, <1>8, <1>9, <1>10 DEF Next, TurnFails,
     MicGranted, PickRefused, Picked, PeersChange, RemoteTrack, store

(* What awaits its credentials has no call, no picker and no sound yet.    *)
LEMMA FreshStep ==
  ASSUME TypeOK, MixerOfCall, FreshAttempts, ManagersAgree, PicksAreOwned, Next
  PROVE  FreshAttempts'
<1>1. ASSUME NEW m \in Manager, JoinCall(m)
      PROVE  FreshAttempts'
  BY <1>1, LeaveCallStep, NoneIsNew DEF JoinCall, SlipsOfLeaving, FreshAttempts, NoCall
<1>2. ASSUME NEW m \in Manager, TurnFails(m)
      PROVE  FreshAttempts'
  BY <1>2 DEF TurnFails, FreshAttempts
<1>3. ASSUME NEW m \in Manager, TurnCredentials(m)
      PROVE  FreshAttempts'
  BY <1>3 DEF TurnCredentials, FreshAttempts, TypeOK
<1>4. ASSUME NEW m \in Manager, MicGranted(m)
      PROVE  FreshAttempts'
  BY <1>4, MicGrantedStep DEF FreshAttempts, TypeOK
<1>5. ASSUME NEW m \in Manager, MicDenied(m)
      PROVE  FreshAttempts'
  BY <1>5, MicDeniedStep, NoneIsNew DEF FreshAttempts, TypeOK, NoCall
<1>6. ASSUME Leave
      PROVE  FreshAttempts'
  BY <1>6, LeaveCallStep, NoneIsNew DEF Leave, SlipsOfLeaving, FreshAttempts, NoCall
<1>7. ASSUME ToggleMic
      PROVE  FreshAttempts'
  BY <1>7 DEF ToggleMic, Muted, SlipOfMuting, Deafened, FreshAttempts
<1>8. ASSUME ToggleDeafen
      PROVE  FreshAttempts'
  BY <1>8 DEF ToggleDeafen, Muted, SlipOfMuting, Deafened, FreshAttempts, MixerOfCall
<1>9. ASSUME BroadcastOff
      PROVE  FreshAttempts'
  BY <1>9, BroadcastOffStep, StopStep DEF FreshAttempts
<1>10. ASSUME NEW s \in Stream, BroadcastOn(s)
      PROVE  FreshAttempts'
  BY <1>10, BroadcastOnStep DEF FreshAttempts
<1>11. ASSUME NEW s \in Stream, PickRefused(s)
      PROVE  FreshAttempts'
  BY <1>11 DEF PickRefused, FreshAttempts, store
<1>12. ASSUME NEW s \in Stream, Picked(s)
      PROVE  FreshAttempts'
  BY <1>12, PickedStep DEF FreshAttempts
<1>13. ASSUME NEW s \in Stream, Applied(s)
      PROVE  FreshAttempts'
  BY <1>13, AppliedStep DEF FreshAttempts
<1>14. ASSUME NEW s \in Stream, ShareEnded(s)
      PROVE  FreshAttempts'
  BY <1>14, ShareEndedStep, StopStep DEF FreshAttempts
<1>15. ASSUME NEW m \in Manager, NEW S \in SUBSET User, PeersChange(m, S)
      PROVE  FreshAttempts'
  BY <1>15, PeersStep DEF FreshAttempts, ManagersAgree
<1>16. ASSUME NEW m \in Manager, NEW u \in User, RemoteTrack(m, u)
      PROVE  FreshAttempts'
  BY <1>16, RemoteTrackStep DEF FreshAttempts, ManagersAgree
<1>17. QED
  BY <1>1, <1>2, <1>3, <1>4, <1>5, <1>6, <1>7, <1>8, <1>9, <1>10, <1>11, <1>12, <1>13, <1>14,
     <1>15, <1>16 DEF Next

(* Microphone, socket and peers of a manager come and go together.         *)
LEMMA AgreeStep ==
  ASSUME TypeOK, FreshAttempts, ManagersAgree, MixerOfCall, PicksAreOwned, Next
  PROVE  ManagersAgree'
<1>1. CASE UNCHANGED <<mgr, join>>
  BY <1>1 DEF ManagersAgree
<1>2. ASSUME NEW m \in Manager, JoinCall(m)
      PROVE  ManagersAgree'
  BY <1>2, LeaveCallStep DEF JoinCall, SlipsOfLeaving, FreshAttempts, ManagersAgree
<1>3. ASSUME NEW m \in Manager, TurnFails(m)
      PROVE  ManagersAgree'
  BY <1>3 DEF TurnFails, ManagersAgree
<1>4. ASSUME NEW m \in Manager, TurnCredentials(m)
      PROVE  ManagersAgree'
  BY <1>4 DEF TurnCredentials, ManagersAgree
<1>5. ASSUME NEW m \in Manager, MicGranted(m)
      PROVE  ManagersAgree'
  BY <1>5, MicGrantedStep DEF ManagersAgree, TypeOK
<1>6. ASSUME NEW m \in Manager, MicDenied(m)
      PROVE  ManagersAgree'
  BY <1>6, MicDeniedStep DEF ManagersAgree, TypeOK
<1>7. ASSUME Leave
      PROVE  ManagersAgree'
  BY <1>7, LeaveCallStep DEF Leave, SlipsOfLeaving, ManagersAgree, Idle
<1>8. ASSUME ToggleMic \/ ToggleDeafen
      PROVE  ManagersAgree'
  BY <1>8, MutingStep DEF ManagersAgree
<1>9. ASSUME BroadcastOff
      PROVE  ManagersAgree'
  BY <1>9, BroadcastOffStep, StopStep DEF ManagersAgree
<1>10. ASSUME NEW s \in Stream, Picked(s)
      PROVE  ManagersAgree'
  BY <1>10, PickedStep DEF ManagersAgree
<1>11. ASSUME NEW s \in Stream, ShareEnded(s)
      PROVE  ManagersAgree'
  BY <1>11, ShareEndedStep, StopStep DEF ManagersAgree
<1>12. ASSUME NEW m \in Manager, NEW S \in SUBSET User, PeersChange(m, S)
      PROVE  ManagersAgree'
  BY <1>12, PeersStep DEF ManagersAgree
<1>13. ASSUME NEW m \in Manager, NEW u \in User, RemoteTrack(m, u)
      PROVE  ManagersAgree'
  BY <1>13, RemoteTrackStep DEF ManagersAgree
<1>14. QED
  BY <1>1, <1>2, <1>3, <1>4, <1>5, <1>6, <1>7, <1>8, <1>9, <1>10, <1>11, <1>12, <1>13 DEF Next,
     BroadcastOn, PickRefused, Applied, store

(* The call on screen waits for its microphone or has it.                  *)
LEMMA JoinedStep ==
  ASSUME TypeOK, FreshAttempts, CallIsJoined, MixerOfCall, PicksAreOwned, Next
  PROVE  CallIsJoined'
<1>1. CASE UNCHANGED <<call, join, mgr>>
  BY <1>1 DEF CallIsJoined, InCall, Current
<1>2. ASSUME NEW m \in Manager, JoinCall(m)
      PROVE  CallIsJoined'
  BY <1>2, LeaveCallStep DEF JoinCall, SlipsOfLeaving, CallIsJoined, InCall
<1>3. ASSUME NEW m \in Manager, TurnFails(m)
      PROVE  CallIsJoined'
  BY <1>3 DEF TurnFails, CallIsJoined, Current, InCall
<1>4. ASSUME NEW m \in Manager, TurnCredentials(m)
      PROVE  CallIsJoined'
  BY <1>4 DEF TurnCredentials, CallIsJoined, TypeOK
<1>5. ASSUME NEW m \in Manager, MicGranted(m)
      PROVE  CallIsJoined'
  BY <1>5, MicGrantedStep DEF CallIsJoined, TypeOK, ActiveCall, Current, InCall
<1>6. ASSUME NEW m \in Manager, MicDenied(m)
      PROVE  CallIsJoined'
  BY <1>6, MicDeniedStep DEF CallIsJoined, InCall
<1>7. ASSUME Leave
      PROVE  CallIsJoined'
  BY <1>7, LeaveCallStep DEF Leave, SlipsOfLeaving, CallIsJoined, InCall
<1>8. ASSUME ToggleMic \/ ToggleDeafen
      PROVE  CallIsJoined'
  BY <1>8, MutingStep DEF CallIsJoined, Current
<1>9. ASSUME BroadcastOff
      PROVE  CallIsJoined'
  BY <1>9, BroadcastOffStep, StopStep DEF CallIsJoined, Current
<1>10. ASSUME NEW s \in Stream, BroadcastOn(s)
      PROVE  CallIsJoined'
  BY <1>10, BroadcastOnStep DEF CallIsJoined, Current
<1>11. ASSUME NEW s \in Stream, Picked(s)
      PROVE  CallIsJoined'
  BY <1>11, PickedStep DEF CallIsJoined, TypeOK, ActiveCall, Current, InCall
<1>12. ASSUME NEW s \in Stream, Applied(s)
      PROVE  CallIsJoined'
  BY <1>12, AppliedStep DEF CallIsJoined, Current, InCall
<1>13. ASSUME NEW s \in Stream, ShareEnded(s)
      PROVE  CallIsJoined'
  BY <1>13, ShareEndedStep, StopStep DEF CallIsJoined, ActiveCall, Current, InCall
<1>14. ASSUME NEW m \in Manager, NEW S \in SUBSET User, PeersChange(m, S)
      PROVE  CallIsJoined'
  BY <1>14, PeersStep DEF FreshAttempts, CallIsJoined, TypeOK, ActiveCall, Current, InCall
<1>15. ASSUME NEW m \in Manager, NEW u \in User, RemoteTrack(m, u)
      PROVE  CallIsJoined'
  BY <1>15, RemoteTrackStep DEF FreshAttempts, CallIsJoined, TypeOK, ActiveCall, Current, InCall
<1>16. QED
  BY <1>1, <1>2, <1>3, <1>4, <1>5, <1>6, <1>7, <1>8, <1>9, <1>10, <1>11, <1>12, <1>13, <1>14,
     <1>15 DEF Next, PickRefused, store

(* A screen stream is of the manager it was picked for.                    *)
LEMMA OwnedStep ==
  ASSUME TypeOK, PicksAreOwned, MixerOfCall, Next
  PROVE  PicksAreOwned'
<1>1. CASE UNCHANGED <<pick, mgr>>
  BY <1>1 DEF PicksAreOwned
<1>2. ASSUME NEW m \in Manager, JoinCall(m)
      PROVE  PicksAreOwned'
  BY <1>2, LeaveCallStep DEF JoinCall, SlipsOfLeaving, PicksAreOwned, Idle
<1>3. ASSUME NEW m \in Manager, MicGranted(m)
      PROVE  PicksAreOwned'
  BY <1>3, MicGrantedStep DEF PicksAreOwned
<1>4. ASSUME Leave
      PROVE  PicksAreOwned'
  BY <1>4, LeaveCallStep DEF Leave, SlipsOfLeaving, PicksAreOwned, Idle
<1>5. ASSUME ToggleMic \/ ToggleDeafen
      PROVE  PicksAreOwned'
  BY <1>5, MutingStep DEF PicksAreOwned
<1>6. ASSUME BroadcastOff
      PROVE  PicksAreOwned'
  BY <1>6, BroadcastOffStep, StopStep DEF PicksAreOwned
<1>7. ASSUME NEW s \in Stream, BroadcastOn(s)
      PROVE  PicksAreOwned'
  <2>1. \A t \in Stream : pick'[t].st # "none" => pick'[t].mgr \in Manager
    BY <1>7, BroadcastOnStep DEF PicksAreOwned
  <2>2. ASSUME NEW k \in Manager, mgr[k].screen # None
        PROVE  /\ pick'[mgr[k].screen].mgr = k
               /\ pick'[mgr[k].screen].st \in {"applying", "over"}
    <3>1. mgr[k].screen \in Stream
      BY <2>2 DEF TypeOK, CallManager
    <3>2. mgr[k].screen # s
      BY <1>7, <2>2, BroadcastOnStep DEF PicksAreOwned
    <3>3. QED
      BY <1>7, <2>2, <3>1, <3>2, BroadcastOnStep DEF PicksAreOwned
  <2>3. QED
    BY <1>7, <2>1, <2>2, BroadcastOnStep DEF PicksAreOwned
<1>8. ASSUME NEW s \in Stream, PickRefused(s)
      PROVE  PicksAreOwned'
  BY <1>8 DEF PickRefused, PicksAreOwned
<1>9. ASSUME NEW s \in Stream, Picked(s)
      PROVE  PicksAreOwned'
  BY <1>9 DEF Picked, Started, PicksAreOwned, TypeOK
<1>10. ASSUME NEW s \in Stream, Applied(s)
      PROVE  PicksAreOwned'
  BY <1>10 DEF Applied, PicksAreOwned
<1>11. ASSUME NEW s \in Stream, ShareEnded(s)
      PROVE  PicksAreOwned'
  BY <1>11, ShareEndedStep, StopStep DEF PicksAreOwned
<1>12. ASSUME NEW m \in Manager, NEW S \in SUBSET User, PeersChange(m, S)
      PROVE  PicksAreOwned'
  BY <1>12, PeersStep DEF PicksAreOwned
<1>13. ASSUME NEW m \in Manager, NEW u \in User, RemoteTrack(m, u)
      PROVE  PicksAreOwned'
  BY <1>13, RemoteTrackStep DEF PicksAreOwned
<1>14. QED
  BY <1>1, <1>2, <1>3, <1>4, <1>5, <1>6, <1>7, <1>8, <1>9, <1>10, <1>11, <1>12, <1>13 DEF Next,
     TurnFails, TurnCredentials, MicDenied, store

(* Without the two slips, what waits for its microphone is the call.       *)
LEMMA OneJoinsStep ==
  ASSUME TypeOK, OneJoins, MixerOfCall, PicksAreOwned, Next
  PROVE  OneJoins'
<1>1. CASE UNCHANGED <<slips, join, call>>
  BY <1>1 DEF OneJoins, Without, Gone, InCall
<1>2. ASSUME NEW m \in Manager, JoinCall(m)
      PROVE  OneJoins'
  BY <1>2, LeaveCallStep DEF JoinCall, SlipsOfLeaving, OneJoins, Without, Gone, InCall
<1>3. ASSUME NEW m \in Manager, TurnFails(m)
      PROVE  OneJoins'
  BY <1>3 DEF TurnFails, OneJoins, Without, InCall
<1>4. ASSUME NEW m \in Manager, TurnCredentials(m)
      PROVE  OneJoins'
  BY <1>4, NoneIsNew DEF TurnCredentials, OneJoins, Without, TypeOK, NoCall, InCall
<1>5. ASSUME NEW m \in Manager, MicGranted(m)
      PROVE  OneJoins'
  BY <1>5, MicGrantedStep DEF OneJoins, Without, TypeOK, InCall
<1>6. ASSUME NEW m \in Manager, MicDenied(m)
      PROVE  OneJoins'
  BY <1>6, MicDeniedStep DEF OneJoins, Without, TypeOK, InCall
<1>7. ASSUME Leave
      PROVE  OneJoins'
  BY <1>7, LeaveCallStep DEF Leave, SlipsOfLeaving, OneJoins, Without, Gone
<1>8. ASSUME ToggleMic \/ ToggleDeafen
      PROVE  OneJoins'
  BY <1>8, MutingStep DEF OneJoins, Without
<1>9. ASSUME BroadcastOff
      PROVE  OneJoins'
  BY <1>9, BroadcastOffStep, StopStep DEF OneJoins, Without
<1>10. ASSUME NEW s \in Stream, BroadcastOn(s)
      PROVE  OneJoins'
  BY <1>10, BroadcastOnStep DEF OneJoins, Without
<1>11. ASSUME NEW s \in Stream, Applied(s)
      PROVE  OneJoins'
  BY <1>11, AppliedStep DEF OneJoins, Without, InCall
<1>12. ASSUME NEW s \in Stream, ShareEnded(s)
      PROVE  OneJoins'
  BY <1>12, ShareEndedStep, StopStep DEF OneJoins, Without, InCall
<1>13. QED
  BY <1>1, <1>2, <1>3, <1>4, <1>5, <1>6, <1>7, <1>8, <1>9, <1>10, <1>11, <1>12 DEF Next,
     PickRefused, Picked, PeersChange, RemoteTrack, store

(* MicGranted is the step that could let another manager listen.           *)
LEMMA ListensStep ==
  ASSUME TypeOK, OneJoins, ManagersAgree, OnlyTheCallListens, MixerOfCall, PicksAreOwned, Next
  PROVE  OnlyTheCallListens'
<1>1. CASE UNCHANGED <<slips, mgr, call>>
  BY <1>1 DEF OnlyTheCallListens, Without
<1>2. ASSUME NEW m \in Manager, JoinCall(m)
      PROVE  OnlyTheCallListens'
  BY <1>2, LeaveCallStep DEF JoinCall, SlipsOfLeaving, OnlyTheCallListens, Without, Idle
<1>3. ASSUME NEW m \in Manager, TurnCredentials(m)
      PROVE  OnlyTheCallListens'
  BY <1>3, NoneIsNew DEF TurnCredentials, OneJoins, OnlyTheCallListens, Without, NoCall, InCall
<1>4. ASSUME NEW m \in Manager, MicGranted(m)
      PROVE  OnlyTheCallListens'
  BY <1>4, MicGrantedStep DEF OneJoins, OnlyTheCallListens, Without
<1>5. ASSUME NEW m \in Manager, MicDenied(m)
      PROVE  OnlyTheCallListens'
  BY <1>5, MicDeniedStep DEF OneJoins, ManagersAgree, OnlyTheCallListens, Without
<1>6. ASSUME Leave
      PROVE  OnlyTheCallListens'
  BY <1>6, LeaveCallStep DEF Leave, SlipsOfLeaving, OnlyTheCallListens, Without, Idle
<1>7. ASSUME ToggleMic \/ ToggleDeafen
      PROVE  OnlyTheCallListens'
  BY <1>7, MutingStep DEF OnlyTheCallListens, Without
<1>8. ASSUME BroadcastOff
      PROVE  OnlyTheCallListens'
  BY <1>8, BroadcastOffStep, StopStep DEF OnlyTheCallListens, Without
<1>9. ASSUME NEW s \in Stream, BroadcastOn(s)
      PROVE  OnlyTheCallListens'
  BY <1>9, BroadcastOnStep DEF OnlyTheCallListens, Without
<1>10. ASSUME NEW s \in Stream, Picked(s)
      PROVE  OnlyTheCallListens'
  BY <1>10, PickedStep DEF OnlyTheCallListens, Without
<1>11. ASSUME NEW s \in Stream, Applied(s)
      PROVE  OnlyTheCallListens'
  BY <1>11, AppliedStep DEF OnlyTheCallListens, Without
<1>12. ASSUME NEW s \in Stream, ShareEnded(s)
      PROVE  OnlyTheCallListens'
  BY <1>12, ShareEndedStep, StopStep DEF OnlyTheCallListens, Without
<1>13. ASSUME NEW m \in Manager, NEW S \in SUBSET User, PeersChange(m, S)
      PROVE  OnlyTheCallListens'
  BY <1>13, PeersStep DEF OnlyTheCallListens, Without
<1>14. ASSUME NEW m \in Manager, NEW u \in User, RemoteTrack(m, u)
      PROVE  OnlyTheCallListens'
  BY <1>14, RemoteTrackStep DEF OnlyTheCallListens, Without
<1>15. QED
  BY <1>1, <1>2, <1>3, <1>4, <1>5, <1>6, <1>7, <1>8, <1>9, <1>10, <1>11, <1>12, <1>13, <1>14 DEF
     Next, TurnFails, PickRefused, store

(* The callbacks of peers write to the mixer there is: it must be theirs.  *)
LEMMA HeardStep ==
  ASSUME TypeOK, MixerOfCall, OneJoins, ManagersAgree, OnlyTheCallListens, PeersAreHeard, Next
  PROVE  PeersAreHeard'
<1>1. CASE UNCHANGED <<slips, plays, call, mgr>>
  BY <1>1 DEF PeersAreHeard, Without
<1>2. ASSUME NEW m \in Manager, JoinCall(m)
      PROVE  PeersAreHeard'
  <2>1. /\ call' = NoCall /\ slips \subseteq slips'
        /\ \A k \in Manager : plays'[k] = IF k = call.mgr THEN {} ELSE plays[k]
    BY <1>2, LeaveCallStep DEF JoinCall
  <2>2. ASSUME Without(Gone)', NEW k \in Manager
        PROVE  plays'[k] = {}
    BY <2>1, <2>2 DEF PeersAreHeard, Without
  <2>3. QED
    BY <2>1, <2>2, NoneIsNew DEF PeersAreHeard, NoCall
<1>3. ASSUME NEW m \in Manager, TurnCredentials(m)
      PROVE  PeersAreHeard'
  BY <1>3, NoneIsNew DEF TurnCredentials, OneJoins, ManagersAgree, PeersAreHeard, Without,
     TypeOK, NoCall, InCall
<1>4. ASSUME NEW m \in Manager, MicGranted(m)
      PROVE  PeersAreHeard'
  BY <1>4 DEF MicGranted, PeersAreHeard, Without, TypeOK
<1>5. ASSUME NEW m \in Manager, MicDenied(m)
      PROVE  PeersAreHeard'
  <2>1. /\ call' = NoCall /\ slips \subseteq slips'
        /\ \A k \in Manager : plays'[k] = IF k = call.mgr THEN {} ELSE plays[k]
    BY <1>5, MicDeniedStep
  <2>2. ASSUME Without(Gone)', NEW k \in Manager
        PROVE  plays'[k] = {}
    BY <2>1, <2>2 DEF PeersAreHeard, Without
  <2>3. QED
    BY <2>1, <2>2, NoneIsNew DEF PeersAreHeard, NoCall
<1>6. ASSUME Leave
      PROVE  PeersAreHeard'
  <2>1. /\ call' = NoCall /\ slips \subseteq slips'
        /\ \A k \in Manager : plays'[k] = IF k = call.mgr THEN {} ELSE plays[k]
    BY <1>6, LeaveCallStep DEF Leave
  <2>2. ASSUME Without(Gone)', NEW k \in Manager
        PROVE  plays'[k] = {}
    BY <2>1, <2>2 DEF PeersAreHeard, Without
  <2>3. QED
    BY <2>1, <2>2, NoneIsNew DEF PeersAreHeard, NoCall
<1>7. ASSUME ToggleMic \/ ToggleDeafen
      PROVE  PeersAreHeard'
  <2>1. /\ \A k \in Manager : mgr'[k].tracks = mgr[k].tracks
        /\ call'.mgr = call.mgr /\ plays' = plays /\ slips \subseteq slips'
    BY <1>7, MutingStep
  <2>2. QED
    BY <2>1 DEF PeersAreHeard, Without
<1>8. ASSUME BroadcastOff
      PROVE  PeersAreHeard'
  BY <1>8 DEF BroadcastOff, StopBroadcast, PeersAreHeard, Without, TypeOK
<1>9. ASSUME NEW s \in Stream, BroadcastOn(s)
      PROVE  PeersAreHeard'
  BY <1>9 DEF BroadcastOn, PeersAreHeard, Without, TypeOK, ActiveCall, NoCall
<1>10. ASSUME NEW s \in Stream, Picked(s)
      PROVE  PeersAreHeard'
  BY <1>10 DEF Picked, Started, PeersAreHeard, Without, TypeOK, store
<1>11. ASSUME NEW s \in Stream, Applied(s)
      PROVE  PeersAreHeard'
  BY <1>11, AppliedStep DEF PeersAreHeard, Without
<1>12. ASSUME NEW s \in Stream, ShareEnded(s)
      PROVE  PeersAreHeard'
  BY <1>12 DEF ShareEnded, StopBroadcast, PeersAreHeard, Without, TypeOK
<1>13. ASSUME NEW m \in Manager, NEW S \in SUBSET User, PeersChange(m, S)
      PROVE  PeersAreHeard'
  <2> SUFFICES ASSUME Without(Gone), NEW k \in Manager
               PROVE  plays'[k] = IF call.mgr = k THEN {k} \X mgr'[k].tracks ELSE {}
    BY <1>13, PeersStep DEF PeersAreHeard, Without
  <2>1. call.mgr = m /\ InCall /\ mixer = m
    BY <1>13, PeersStep, NoneIsNew DEF OnlyTheCallListens, MixerOfCall, InCall, NoCall
  <2>2. plays[m] = {m} \X mgr[m].tracks /\ mgr[m].tracks \subseteq mgr[m].peers
    BY <2>1 DEF PeersAreHeard, ManagersAgree
  <2>3. CASE k = m
    <3>1. plays'[m] = {x \in plays[m] : x[2] \notin mgr[m].peers \ S}
      BY <1>13, <2>1 DEF PeersChange, Unheard, TypeOK
    <3>2. plays'[m] = {m} \X (mgr[m].tracks \cap S)
      BY <2>2, <3>1
    <3>3. QED
      BY <1>13, <2>1, <2>3, <3>2, PeersStep
  <2>4. CASE k # m
    BY <1>13, <2>1, <2>4, PlaysType DEF PeersAreHeard
  <2>5. QED
    BY <2>3, <2>4
<1>14. ASSUME NEW m \in Manager, NEW u \in User, RemoteTrack(m, u)
      PROVE  PeersAreHeard'
  <2> SUFFICES ASSUME Without(Gone), NEW k \in Manager
               PROVE  plays'[k] = IF call.mgr = k THEN {k} \X mgr'[k].tracks ELSE {}
    BY <1>14, RemoteTrackStep DEF PeersAreHeard, Without
  <2>1. call.mgr = m /\ InCall /\ mixer = m
    BY <1>14, RemoteTrackStep, NoneIsNew
    DEF OnlyTheCallListens, ManagersAgree, MixerOfCall, InCall, NoCall
  <2>2. plays[m] = {m} \X mgr[m].tracks
    BY <2>1 DEF PeersAreHeard
  <2>3. CASE k = m
    <3>1. plays'[m] = {x \in plays[m] : x[2] # u} \cup {<<m, u>>}
      BY <1>14, <2>1 DEF RemoteTrack, Heard, TypeOK
    <3>2. plays'[m] = {m} \X (mgr[m].tracks \cup {u})
      BY <2>2, <3>1
    <3>3. QED
      BY <1>14, <2>1, <2>3, <3>2, RemoteTrackStep
  <2>4. CASE k # m
    BY <1>14, <2>1, <2>4, PlaysType DEF PeersAreHeard
  <2>5. QED
    BY <2>3, <2>4
<1>15. QED
  BY <1>1, <1>2, <1>3, <1>4, <1>5, <1>6, <1>7, <1>8, <1>9, <1>10, <1>11, <1>12, <1>13, <1>14 DEF
     Next, TurnFails, PickRefused, store

(* The gain follows the button, and a new mixer is not deafened.           *)
LEMMA SilentStep ==
  ASSUME TypeOK, MixerOfCall, FreshAttempts, GainFollows, PicksAreOwned, Next
  PROVE  GainFollows'
<1>1. CASE UNCHANGED <<call, mixer, silent>>
  BY <1>1 DEF GainFollows, InCall
<1>2. ASSUME NEW m \in Manager, JoinCall(m)
      PROVE  GainFollows'
  BY <1>2, LeaveCallStep DEF JoinCall, SlipsOfLeaving, GainFollows, InCall
<1>3. ASSUME NEW m \in Manager, TurnCredentials(m)
      PROVE  GainFollows'
  BY <1>3 DEF TurnCredentials, FreshAttempts, GainFollows
<1>4. ASSUME NEW m \in Manager, MicDenied(m)
      PROVE  GainFollows'
  BY <1>4, MicDeniedStep DEF GainFollows, InCall
<1>5. ASSUME Leave
      PROVE  GainFollows'
  BY <1>5, LeaveCallStep DEF Leave, SlipsOfLeaving, GainFollows, InCall
<1>6. ASSUME ToggleMic
      PROVE  GainFollows'
  BY <1>6 DEF ToggleMic, Muted, SlipOfMuting, Deafened, GainFollows, TypeOK, ActiveCall,
     InCall
<1>7. ASSUME ToggleDeafen
      PROVE  GainFollows'
  BY <1>7 DEF ToggleDeafen, Muted, SlipOfMuting, Deafened, GainFollows, TypeOK, ActiveCall,
     InCall
<1>8. ASSUME BroadcastOff
      PROVE  GainFollows'
  BY <1>8, BroadcastOffStep, StopStep DEF GainFollows
<1>9. ASSUME NEW s \in Stream, BroadcastOn(s)
      PROVE  GainFollows'
  BY <1>9, BroadcastOnStep DEF GainFollows
<1>10. ASSUME NEW s \in Stream, Applied(s)
      PROVE  GainFollows'
  BY <1>10, AppliedStep DEF GainFollows, InCall
<1>11. ASSUME NEW s \in Stream, ShareEnded(s)
      PROVE  GainFollows'
  BY <1>11, ShareEndedStep, StopStep DEF GainFollows, InCall
<1>12. QED
  BY <1>1, <1>2, <1>3, <1>4, <1>5, <1>6, <1>7, <1>8, <1>9, <1>10, <1>11 DEF Next, TurnFails,
     MicGranted, PickRefused, Picked, PeersChange, RemoteTrack, store

(* Nobody has muted a call that still waits, without the slip.             *)
LEMMA UnmutedStep ==
  ASSUME TypeOK, UnmutedAtFirst, MixerOfCall, PicksAreOwned, Next
  PROVE  UnmutedAtFirst'
<1>1. CASE UNCHANGED <<slips, call, join>>
  BY <1>1 DEF UnmutedAtFirst, Without, InCall
<1>2. ASSUME NEW m \in Manager, JoinCall(m)
      PROVE  UnmutedAtFirst'
  BY <1>2, LeaveCallStep DEF JoinCall, SlipsOfLeaving, UnmutedAtFirst, InCall
<1>3. ASSUME NEW m \in Manager, TurnFails(m)
      PROVE  UnmutedAtFirst'
  BY <1>3 DEF TurnFails, UnmutedAtFirst, Without, InCall
<1>4. ASSUME NEW m \in Manager, TurnCredentials(m)
      PROVE  UnmutedAtFirst'
  BY <1>4 DEF TurnCredentials, UnmutedAtFirst
<1>5. ASSUME NEW m \in Manager, MicGranted(m)
      PROVE  UnmutedAtFirst'
  BY <1>5, MicGrantedStep DEF UnmutedAtFirst, Without, TypeOK, ActiveCall, InCall
<1>6. ASSUME NEW m \in Manager, MicDenied(m)
      PROVE  UnmutedAtFirst'
  BY <1>6, MicDeniedStep DEF UnmutedAtFirst, InCall
<1>7. ASSUME Leave
      PROVE  UnmutedAtFirst'
  BY <1>7, LeaveCallStep DEF Leave, SlipsOfLeaving, UnmutedAtFirst, InCall
<1>8. ASSUME ToggleMic \/ ToggleDeafen
      PROVE  UnmutedAtFirst'
  BY <1>8, MutingStep DEF UnmutedAtFirst, Without
<1>9. ASSUME BroadcastOff
      PROVE  UnmutedAtFirst'
  BY <1>9, BroadcastOffStep, StopStep DEF UnmutedAtFirst, Without
<1>10. ASSUME NEW s \in Stream, BroadcastOn(s)
      PROVE  UnmutedAtFirst'
  BY <1>10, BroadcastOnStep DEF UnmutedAtFirst, Without
<1>11. ASSUME NEW s \in Stream, Applied(s)
      PROVE  UnmutedAtFirst'
  BY <1>11, AppliedStep DEF UnmutedAtFirst, Without, InCall
<1>12. ASSUME NEW s \in Stream, ShareEnded(s)
      PROVE  UnmutedAtFirst'
  BY <1>12, ShareEndedStep, StopStep DEF UnmutedAtFirst, Without, InCall
<1>13. QED
  BY <1>1, <1>2, <1>3, <1>4, <1>5, <1>6, <1>7, <1>8, <1>9, <1>10, <1>11, <1>12 DEF Next,
     PickRefused, Picked, PeersChange, RemoteTrack, store

(* The track follows the button once there is a track.                     *)
LEMMA MuteStep ==
  ASSUME TypeOK, UnmutedAtFirst, MutedIsMute, MixerOfCall, PicksAreOwned, Next
  PROVE  MutedIsMute'
<1>1. CASE UNCHANGED <<slips, call, join, mgr>>
  BY <1>1 DEF MutedIsMute, Without, InCall, Current
<1>2. ASSUME NEW m \in Manager, JoinCall(m)
      PROVE  MutedIsMute'
  BY <1>2, LeaveCallStep DEF JoinCall, SlipsOfLeaving, MutedIsMute, InCall
<1>3. ASSUME NEW m \in Manager, TurnFails(m)
      PROVE  MutedIsMute'
  BY <1>3 DEF TurnFails, MutedIsMute, Without, InCall, Current
<1>4. ASSUME NEW m \in Manager, TurnCredentials(m)
      PROVE  MutedIsMute'
  BY <1>4 DEF TurnCredentials, MutedIsMute
<1>5. ASSUME NEW m \in Manager, MicGranted(m)
      PROVE  MutedIsMute'
  BY <1>5, MicGrantedStep DEF MutedIsMute, UnmutedAtFirst, Without, TypeOK, ActiveCall, InCall,
     Current
<1>6. ASSUME NEW m \in Manager, MicDenied(m)
      PROVE  MutedIsMute'
  BY <1>6, MicDeniedStep DEF MutedIsMute, InCall
<1>7. ASSUME Leave
      PROVE  MutedIsMute'
  BY <1>7, LeaveCallStep DEF Leave, SlipsOfLeaving, MutedIsMute, InCall
<1>8. ASSUME ToggleMic \/ ToggleDeafen
      PROVE  MutedIsMute'
  BY <1>8, MutingStep DEF MutedIsMute, Without, Current
<1>9. ASSUME BroadcastOff
      PROVE  MutedIsMute'
  BY <1>9, BroadcastOffStep, StopStep DEF MutedIsMute, Without, Current
<1>10. ASSUME NEW s \in Stream, BroadcastOn(s)
      PROVE  MutedIsMute'
  BY <1>10, BroadcastOnStep DEF MutedIsMute, Without, Current
<1>11. ASSUME NEW s \in Stream, Picked(s)
      PROVE  MutedIsMute'
  BY <1>11, PickedStep DEF MutedIsMute, Without, TypeOK, ActiveCall, InCall, Current
<1>12. ASSUME NEW s \in Stream, Applied(s)
      PROVE  MutedIsMute'
  BY <1>12, AppliedStep DEF MutedIsMute, Without, InCall, Current
<1>13. ASSUME NEW s \in Stream, ShareEnded(s)
      PROVE  MutedIsMute'
  <2>1. /\ call'.mgr = call.mgr /\ call'.micMuted = call.micMuted /\ (call' # NoCall <=> InCall)
        /\ join' = join /\ slips \subseteq slips'
    BY <1>13, ShareEndedStep, StopStep
  <2>2. InCall => mgr'[call.mgr].mic = mgr[call.mgr].mic
    BY <1>13, ShareEndedStep, StopStep DEF TypeOK, InCall, ActiveCall
  <2>3. QED
    BY <2>1, <2>2 DEF MutedIsMute, Without, InCall, Current
<1>14. ASSUME NEW m \in Manager, NEW S \in SUBSET User, PeersChange(m, S)
      PROVE  MutedIsMute'
  BY <1>14, PeersStep DEF MutedIsMute, Without, TypeOK, ActiveCall, InCall, Current
<1>15. ASSUME NEW m \in Manager, NEW u \in User, RemoteTrack(m, u)
      PROVE  MutedIsMute'
  BY <1>15, RemoteTrackStep DEF MutedIsMute, Without, TypeOK, ActiveCall, InCall, Current
<1>16. QED
  BY <1>1, <1>2, <1>3, <1>4, <1>5, <1>6, <1>7, <1>8, <1>9, <1>10, <1>11, <1>12, <1>13, <1>14,
     <1>15 DEF Next, PickRefused, store

(* Two starts of one manager wait at once only with the slip.              *)
LEMMA OnePickStep ==
  ASSUME TypeOK, OnePick, PicksAreOwned, MixerOfCall, Next
  PROVE  OnePick'
<1>1. CASE UNCHANGED <<slips, pick, mgr>>
  BY <1>1 DEF OnePick, Without, Waiting
<1>2. ASSUME NEW m \in Manager, JoinCall(m)
      PROVE  OnePick'
  BY <1>2, LeaveCallStep DEF JoinCall, SlipsOfLeaving, OnePick, PicksAreOwned, Waiting, Without,
     Idle
<1>3. ASSUME NEW m \in Manager, MicGranted(m)
      PROVE  OnePick'
  BY <1>3, MicGrantedStep DEF OnePick, PicksAreOwned, Waiting, Without
<1>4. ASSUME NEW m \in Manager, MicDenied(m)
      PROVE  OnePick'
  BY <1>4, MicDeniedStep DEF OnePick, Waiting, Without
<1>5. ASSUME Leave
      PROVE  OnePick'
  BY <1>5, LeaveCallStep DEF Leave, SlipsOfLeaving, OnePick, PicksAreOwned, Waiting, Without,
     Idle
<1>6. ASSUME ToggleMic \/ ToggleDeafen
      PROVE  OnePick'
  BY <1>6, MutingStep DEF OnePick, PicksAreOwned, Waiting, Without
<1>7. ASSUME BroadcastOff
      PROVE  OnePick'
  BY <1>7, BroadcastOffStep, StopStep DEF OnePick, PicksAreOwned, Waiting, Without
<1>8. ASSUME NEW s \in Stream, BroadcastOn(s)
      PROVE  OnePick'
  BY <1>8, BroadcastOnStep DEF OnePick, Waiting, Without, Current
<1>9. ASSUME NEW s \in Stream, PickRefused(s)
      PROVE  OnePick'
  BY <1>9 DEF PickRefused, OnePick, Waiting, Without
<1>10. ASSUME NEW s \in Stream, Picked(s)
      PROVE  OnePick'
  BY <1>10, PickedStep DEF OnePick, PicksAreOwned, Waiting, Without
<1>11. ASSUME NEW s \in Stream, Applied(s)
      PROVE  OnePick'
  BY <1>11, AppliedStep DEF OnePick, Waiting, Without
<1>12. ASSUME NEW s \in Stream, ShareEnded(s)
      PROVE  OnePick'
  BY <1>12, ShareEndedStep, StopStep DEF OnePick, PicksAreOwned, Waiting, Without
<1>13. ASSUME NEW m \in Manager, NEW S \in SUBSET User, PeersChange(m, S)
      PROVE  OnePick'
  BY <1>13, PeersStep DEF OnePick, PicksAreOwned, Waiting, Without
<1>14. ASSUME NEW m \in Manager, NEW u \in User, RemoteTrack(m, u)
      PROVE  OnePick'
  BY <1>14, RemoteTrackStep DEF OnePick, PicksAreOwned, Waiting, Without
<1>15. QED
  BY <1>1, <1>2, <1>3, <1>4, <1>5, <1>6, <1>7, <1>8, <1>9, <1>10, <1>11, <1>12, <1>13, <1>14 DEF
     Next, TurnFails, TurnCredentials, store

(* What a manager sends is the product of its peers and its tracks.        *)
LEMMA SentStep ==
  ASSUME TypeOK, OnePick, SentAll, ManagersAgree, PicksAreOwned, MixerOfCall, Next
  PROVE  SentAll'
<1>1. CASE UNCHANGED <<slips, mgr>>
  BY <1>1 DEF SentAll, Without
<1>2. ASSUME NEW m \in Manager, JoinCall(m)
      PROVE  SentAll'
  BY <1>2, LeaveCallStep DEF JoinCall, SlipsOfLeaving, SentAll, Without, Idle
<1>3. ASSUME NEW m \in Manager, MicGranted(m)
      PROVE  SentAll'
  BY <1>3, MicGrantedStep DEF SentAll, ManagersAgree, Without
<1>4. ASSUME NEW m \in Manager, MicDenied(m)
      PROVE  SentAll'
  BY <1>4, MicDeniedStep DEF SentAll, Without
<1>5. ASSUME Leave
      PROVE  SentAll'
  BY <1>5, LeaveCallStep DEF Leave, SlipsOfLeaving, SentAll, Without, Idle
<1>6. ASSUME ToggleMic \/ ToggleDeafen
      PROVE  SentAll'
  BY <1>6, MutingStep DEF SentAll, Tracks, Without
<1>7. ASSUME BroadcastOff
      PROVE  SentAll'
  BY <1>7, BroadcastOffStep, StopStep, NoneIsNew, MicIsNoStream DEF SentAll, PicksAreOwned,
     ManagersAgree, Tracks, Without, TypeOK, CallManager, ActiveCall, NoCall, InCall
<1>8. ASSUME NEW s \in Stream, BroadcastOn(s)
      PROVE  SentAll'
  BY <1>8, BroadcastOnStep DEF SentAll, Without
<1>9. ASSUME NEW s \in Stream, Picked(s)
      PROVE  SentAll'
  BY <1>9, PickedStep, NoneIsNew DEF SentAll, OnePick, Tracks, Without
<1>10. ASSUME NEW s \in Stream, ShareEnded(s)
      PROVE  SentAll'
  BY <1>10 DEF ShareEnded, StopBroadcast, SentAll, PicksAreOwned, ManagersAgree, Tracks,
     Without, TypeOK, Pick, CallManager, Sent, InCall
<1>11. ASSUME NEW m \in Manager, NEW S \in SUBSET User, PeersChange(m, S)
      PROVE  SentAll'
  BY <1>11, PeersStep DEF SentAll, Tracks, Without
<1>12. ASSUME NEW m \in Manager, NEW u \in User, RemoteTrack(m, u)
      PROVE  SentAll'
  BY <1>12, RemoteTrackStep DEF SentAll, Tracks, Without
<1>13. QED
  BY <1>1, <1>2, <1>3, <1>4, <1>5, <1>6, <1>7, <1>8, <1>9, <1>10, <1>11, <1>12 DEF Next,
     TurnFails, TurnCredentials, PickRefused, Applied, store

(* A start that waits is one of the call, without the slips.               *)
LEMMA PicksStep ==
  ASSUME TypeOK, PicksOfCall, PicksAreOwned, OneJoins, MixerOfCall, Next
  PROVE  PicksOfCall'
<1>1. CASE UNCHANGED <<slips, pick, call>>
  BY <1>1 DEF PicksOfCall, Without
<1>2. ASSUME NEW m \in Manager, JoinCall(m)
      PROVE  PicksOfCall'
  BY <1>2, LeaveCallStep DEF JoinCall, SlipsOfLeaving, PicksOfCall, Waiting, Without, InCall
<1>3. ASSUME NEW m \in Manager, TurnCredentials(m)
      PROVE  PicksOfCall'
  BY <1>3, NoneIsNew DEF TurnCredentials, PicksOfCall, OneJoins, PicksAreOwned, Without, NoCall,
     InCall
<1>4. ASSUME NEW m \in Manager, MicDenied(m)
      PROVE  PicksOfCall'
  BY <1>4, MicDeniedStep DEF PicksOfCall, OneJoins, Waiting, Without
<1>5. ASSUME Leave
      PROVE  PicksOfCall'
  BY <1>5, LeaveCallStep DEF Leave, SlipsOfLeaving, PicksOfCall, Waiting, Without
<1>6. ASSUME ToggleMic \/ ToggleDeafen
      PROVE  PicksOfCall'
  BY <1>6, MutingStep DEF PicksOfCall, Without
<1>7. ASSUME BroadcastOff
      PROVE  PicksOfCall'
  BY <1>7, BroadcastOffStep, StopStep DEF PicksOfCall, Without
<1>8. ASSUME NEW s \in Stream, BroadcastOn(s)
      PROVE  PicksOfCall'
  BY <1>8, BroadcastOnStep DEF PicksOfCall, Without
<1>9. ASSUME NEW s \in Stream, PickRefused(s)
      PROVE  PicksOfCall'
  BY <1>9 DEF PickRefused, PicksOfCall, Without, store
<1>10. ASSUME NEW s \in Stream, Picked(s)
      PROVE  PicksOfCall'
  BY <1>10, PickedStep DEF PicksOfCall, Without
<1>11. ASSUME NEW s \in Stream, Applied(s)
      PROVE  PicksOfCall'
  BY <1>11, AppliedStep DEF PicksOfCall, Without
<1>12. ASSUME NEW s \in Stream, ShareEnded(s)
      PROVE  PicksOfCall'
  BY <1>12, ShareEndedStep, StopStep DEF PicksOfCall, Without
<1>13. QED
  BY <1>1, <1>2, <1>3, <1>4, <1>5, <1>6, <1>7, <1>8, <1>9, <1>10, <1>11, <1>12 DEF Next,
     TurnFails, MicGranted, PeersChange, RemoteTrack, store

(* Picked is the step that starts to capture, and it is the call's.        *)
LEMMA CapturesStep ==
  ASSUME TypeOK, PicksOfCall, OnePick, PicksAreOwned, OneJoins, FreshAttempts,
         OnlyTheCallCaptures, MixerOfCall, Next
  PROVE  OnlyTheCallCaptures'
<1>1. CASE UNCHANGED <<slips, live, call, mgr>>
  BY <1>1 DEF OnlyTheCallCaptures, Without, InCall, Current
<1>2. ASSUME NEW m \in Manager, JoinCall(m)
      PROVE  OnlyTheCallCaptures'
  BY <1>2, LeaveCallStep DEF JoinCall, SlipsOfLeaving, OnlyTheCallCaptures, Without
<1>3. ASSUME NEW m \in Manager, TurnCredentials(m)
      PROVE  OnlyTheCallCaptures'
  BY <1>3 DEF TurnCredentials, OnlyTheCallCaptures, OneJoins, Without
<1>4. ASSUME NEW m \in Manager, MicGranted(m)
      PROVE  OnlyTheCallCaptures'
  BY <1>4, MicGrantedStep DEF OnlyTheCallCaptures, OneJoins, Without, InCall, Current
<1>5. ASSUME NEW m \in Manager, MicDenied(m)
      PROVE  OnlyTheCallCaptures'
  BY <1>5, MicDeniedStep, NoneIsNew DEF OnlyTheCallCaptures, OneJoins, Without, TypeOK, Current
<1>6. ASSUME Leave
      PROVE  OnlyTheCallCaptures'
  BY <1>6, LeaveCallStep DEF Leave, SlipsOfLeaving, OnlyTheCallCaptures, Without
<1>7. ASSUME ToggleMic \/ ToggleDeafen
      PROVE  OnlyTheCallCaptures'
  BY <1>7, MutingStep, NoneIsNew DEF OnlyTheCallCaptures, Without, NoCall, InCall, Current
<1>8. ASSUME BroadcastOff
      PROVE  OnlyTheCallCaptures'
  BY <1>8, BroadcastOffStep, StopStep DEF OnlyTheCallCaptures, Without, Current
<1>9. ASSUME NEW s \in Stream, BroadcastOn(s)
      PROVE  OnlyTheCallCaptures'
  BY <1>9, BroadcastOnStep DEF OnlyTheCallCaptures, Without, NoCall, InCall, Current
<1>10. ASSUME NEW s \in Stream, Picked(s)
      PROVE  OnlyTheCallCaptures'
  BY <1>10, PickedStep, NoneIsNew DEF OnlyTheCallCaptures, PicksOfCall, OnePick, Without,
     TypeOK, NoCall, InCall, Current
<1>11. ASSUME NEW s \in Stream, Applied(s)
      PROVE  OnlyTheCallCaptures'
  BY <1>11, AppliedStep DEF OnlyTheCallCaptures, Without, InCall, Current
<1>12. ASSUME NEW s \in Stream, ShareEnded(s)
      PROVE  OnlyTheCallCaptures'
  BY <1>12, ShareEndedStep, StopStep DEF OnlyTheCallCaptures, Without
<1>13. ASSUME NEW m \in Manager, NEW S \in SUBSET User, PeersChange(m, S)
      PROVE  OnlyTheCallCaptures'
  BY <1>13, PeersStep DEF OnlyTheCallCaptures, PicksAreOwned, FreshAttempts, Without, TypeOK,
     ActiveCall, InCall, Current
<1>14. ASSUME NEW m \in Manager, NEW u \in User, RemoteTrack(m, u)
      PROVE  OnlyTheCallCaptures'
  BY <1>14, RemoteTrackStep DEF OnlyTheCallCaptures, FreshAttempts, Without, Gone, TypeOK,
     ActiveCall, InCall, Current
<1>15. QED
  BY <1>1, <1>2, <1>3, <1>4, <1>5, <1>6, <1>7, <1>8, <1>9, <1>10, <1>11, <1>12, <1>13, <1>14 DEF
     Next, TurnFails, PickRefused, store

(* What the panel says while a start waits.                                *)
LEMMA StartsStep ==
  ASSUME TypeOK, PicksOfCall, OnePick, PicksAreOwned, FreshAttempts, BroadcastStarts,
         MixerOfCall, Next
  PROVE  BroadcastStarts'
<1>1. CASE UNCHANGED <<slips, call, pick, mgr>>
  BY <1>1 DEF BroadcastStarts, Without, InCall, Current, Waiting
<1>2. ASSUME NEW m \in Manager, JoinCall(m)
      PROVE  BroadcastStarts'
  BY <1>2, LeaveCallStep DEF JoinCall, SlipsOfLeaving, BroadcastStarts, InCall
<1>3. ASSUME NEW m \in Manager, TurnCredentials(m)
      PROVE  BroadcastStarts'
  BY <1>3 DEF TurnCredentials, BroadcastStarts, FreshAttempts, Waiting
<1>4. ASSUME NEW m \in Manager, MicGranted(m)
      PROVE  BroadcastStarts'
  BY <1>4, MicGrantedStep DEF BroadcastStarts, PicksAreOwned, Waiting, Without, InCall, Current
<1>5. ASSUME NEW m \in Manager, MicDenied(m)
      PROVE  BroadcastStarts'
  BY <1>5, MicDeniedStep DEF BroadcastStarts, InCall
<1>6. ASSUME Leave
      PROVE  BroadcastStarts'
  BY <1>6, LeaveCallStep DEF Leave, SlipsOfLeaving, BroadcastStarts, InCall
<1>7. ASSUME ToggleMic \/ ToggleDeafen
      PROVE  BroadcastStarts'
  BY <1>7, MutingStep DEF BroadcastStarts, Waiting, Without, Current
<1>8. ASSUME BroadcastOff
      PROVE  BroadcastStarts'
  BY <1>8, BroadcastOffStep, StopStep DEF BroadcastStarts, Waiting, Without, Current
<1>9. ASSUME NEW s \in Stream, BroadcastOn(s)
      PROVE  BroadcastStarts'
  BY <1>9, BroadcastOnStep DEF BroadcastStarts, OnePick, Waiting, Without, Current
<1>10. ASSUME NEW s \in Stream, PickRefused(s)
      PROVE  BroadcastStarts'
  BY <1>10 DEF PickRefused, BroadcastStarts, Waiting, Without, InCall, store, Current
<1>11. ASSUME NEW s \in Stream, Picked(s)
      PROVE  BroadcastStarts'
  BY <1>11, PickedStep DEF BroadcastStarts, OnePick, PicksAreOwned, Waiting, Without, InCall,
     Current
<1>12. ASSUME NEW s \in Stream, Applied(s)
      PROVE  BroadcastStarts'
  BY <1>12, AppliedStep DEF BroadcastStarts, PicksOfCall, OnePick, Waiting, Without
<1>13. ASSUME NEW s \in Stream, ShareEnded(s)
      PROVE  BroadcastStarts'
  BY <1>13, ShareEndedStep, StopStep DEF BroadcastStarts, Waiting, Without, ActiveCall, InCall,
     Current
<1>14. ASSUME NEW m \in Manager, NEW S \in SUBSET User, PeersChange(m, S)
      PROVE  BroadcastStarts'
  BY <1>14, PeersStep DEF BroadcastStarts, PicksAreOwned, Waiting, Without, InCall, Current
<1>15. ASSUME NEW m \in Manager, NEW u \in User, RemoteTrack(m, u)
      PROVE  BroadcastStarts'
  BY <1>15, RemoteTrackStep DEF BroadcastStarts, PicksAreOwned, Waiting, Without, InCall,
     Current
<1>16. QED
  BY <1>1, <1>2, <1>3, <1>4, <1>5, <1>6, <1>7, <1>8, <1>9, <1>10, <1>11, <1>12, <1>13, <1>14,
     <1>15 DEF Next, TurnFails, store

(* What the panel says when no start waits.                                *)
LEMMA ShownStep ==
  ASSUME TypeOK, PicksOfCall, OnePick, PicksAreOwned, OneJoins, FreshAttempts, BroadcastStarts,
         BroadcastIsShown, OnlyTheCallCaptures, MixerOfCall, Next
  PROVE  BroadcastIsShown'
<1>1. CASE UNCHANGED <<slips, call, pick, mgr>>
  BY <1>1 DEF BroadcastIsShown, Without, InCall, Current, Waiting
<1>2. ASSUME NEW m \in Manager, JoinCall(m)
      PROVE  BroadcastIsShown'
  BY <1>2, LeaveCallStep DEF JoinCall, SlipsOfLeaving, BroadcastIsShown, InCall
<1>3. ASSUME NEW m \in Manager, TurnCredentials(m)
      PROVE  BroadcastIsShown'
  BY <1>3 DEF TurnCredentials, BroadcastIsShown, FreshAttempts, Idle, Current
<1>4. ASSUME NEW m \in Manager, MicGranted(m)
      PROVE  BroadcastIsShown'
  BY <1>4, MicGrantedStep DEF BroadcastIsShown, OneJoins, Waiting, Without, InCall, Current
<1>5. ASSUME NEW m \in Manager, MicDenied(m)
      PROVE  BroadcastIsShown'
  BY <1>5, MicDeniedStep DEF BroadcastIsShown, InCall
<1>6. ASSUME Leave
      PROVE  BroadcastIsShown'
  BY <1>6, LeaveCallStep DEF Leave, SlipsOfLeaving, BroadcastIsShown, InCall
<1>7. ASSUME ToggleMic \/ ToggleDeafen
      PROVE  BroadcastIsShown'
  BY <1>7, MutingStep DEF BroadcastIsShown, Waiting, Without, Current
<1>8. ASSUME BroadcastOff
      PROVE  BroadcastIsShown'
  BY <1>8, BroadcastOffStep, StopStep DEF BroadcastIsShown, Current
<1>9. ASSUME NEW s \in Stream, BroadcastOn(s)
      PROVE  BroadcastIsShown'
  BY <1>9, BroadcastOnStep DEF BroadcastIsShown, Current
<1>10. ASSUME NEW s \in Stream, PickRefused(s)
      PROVE  BroadcastIsShown'
  BY <1>10 DEF PickRefused, BroadcastIsShown, BroadcastStarts, OnePick, Waiting, Without,
     InCall, store, Current
<1>11. ASSUME NEW s \in Stream, Picked(s)
      PROVE  BroadcastIsShown'
  BY <1>11, PickedStep DEF BroadcastIsShown, PicksOfCall, Waiting, Without
<1>12. ASSUME NEW s \in Stream, Applied(s)
      PROVE  BroadcastIsShown'
  BY <1>12, AppliedStep, NoneIsNew DEF BroadcastIsShown, BroadcastStarts, PicksOfCall, Waiting,
     Without, InCall, Current
<1>13. ASSUME NEW s \in Stream, ShareEnded(s)
      PROVE  BroadcastIsShown'
  BY <1>13, ShareEndedStep, StopStep DEF BroadcastIsShown, OnlyTheCallCaptures, PicksAreOwned,
     Waiting, Without, ActiveCall, Current
<1>14. ASSUME NEW m \in Manager, NEW S \in SUBSET User, PeersChange(m, S)
      PROVE  BroadcastIsShown'
  BY <1>14, PeersStep DEF BroadcastIsShown, FreshAttempts, Waiting, Without, TypeOK, ActiveCall,
     InCall, Current
<1>15. ASSUME NEW m \in Manager, NEW u \in User, RemoteTrack(m, u)
      PROVE  BroadcastIsShown'
  BY <1>15, RemoteTrackStep DEF BroadcastIsShown, FreshAttempts, Waiting, Without, TypeOK,
     ActiveCall, InCall, Current
<1>16. QED
  BY <1>1, <1>2, <1>3, <1>4, <1>5, <1>6, <1>7, <1>8, <1>9, <1>10, <1>11, <1>12, <1>13, <1>14,
     <1>15 DEF Next, TurnFails, store

-----------------------------------------------------------------------------
(* The theorems *)

Inv ==
  /\ TypeOK /\ MixerOfCall /\ FreshAttempts /\ ManagersAgree /\ CallIsJoined /\ PicksAreOwned
  /\ OneJoins /\ OnlyTheCallListens /\ PeersAreHeard
  /\ UnmutedAtFirst /\ MutedIsMute /\ GainFollows
  /\ OnePick /\ SentAll /\ PicksOfCall /\ OnlyTheCallCaptures
  /\ BroadcastStarts /\ BroadcastIsShown

(* There is neither a call nor a manager in use.                           *)
LEMMA InvAtFirst == Init => Inv
<1> SUFFICES ASSUME Init PROVE Inv
  OBVIOUS
<1>1. TypeOK
  BY IdleType DEF Init, TypeOK, Pick
<1>2. call = NoCall /\ call.mgr = None /\ ~ InCall /\ mixer = None /\ slips = {} /\ live = {}
  BY DEF Init, NoCall, InCall
<1>3. \A m \in Manager :
        /\ mgr[m] = Idle /\ join[m] = "none" /\ plays[m] = {} /\ m \notin silent /\ m # None
  BY NoneIsNew DEF Init
<1>4. \A s \in Stream : pick[s].mgr = None /\ pick[s].st = "none"
  BY DEF Init
<1>5. /\ Idle.mic = "none" /\ ~ Idle.listens /\ Idle.screen = None
      /\ Idle.peers = {} /\ Idle.sends = {} /\ Idle.tracks = {}
  BY DEF Idle
<1>6. MixerOfCall /\ CallIsJoined /\ PicksAreOwned
  BY <1>2, <1>3, <1>4, <1>5 DEF MixerOfCall, CallIsJoined, PicksAreOwned
<1>7. FreshAttempts /\ ManagersAgree
  BY <1>2, <1>3, <1>4, <1>5 DEF FreshAttempts, ManagersAgree
<1>8. OneJoins /\ UnmutedAtFirst /\ MutedIsMute /\ GainFollows
  BY <1>2, <1>3 DEF OneJoins, UnmutedAtFirst, MutedIsMute, GainFollows
<1>9. OnlyTheCallListens /\ PeersAreHeard
  BY <1>2, <1>3, <1>5 DEF OnlyTheCallListens, PeersAreHeard
<1>10. OnePick /\ PicksOfCall
  BY <1>4 DEF OnePick, PicksOfCall, Waiting
<1>11. SentAll
  BY <1>3, <1>5 DEF SentAll
<1>12. OnlyTheCallCaptures /\ BroadcastStarts /\ BroadcastIsShown
  BY <1>2 DEF OnlyTheCallCaptures, BroadcastStarts, BroadcastIsShown
<1>13. QED
  BY <1>1, <1>6, <1>7, <1>8, <1>9, <1>10, <1>11, <1>12 DEF Inv

LEMMA InvStep == Inv /\ [Next]_vars => Inv'
<1> SUFFICES ASSUME Inv, [Next]_vars PROVE Inv'
  OBVIOUS
<1>1. CASE Next
  <2>1. /\ TypeOK' /\ MixerOfCall' /\ FreshAttempts' /\ ManagersAgree'
        /\ CallIsJoined' /\ PicksAreOwned'
    BY <1>1, TypesStep, MixerStep, FreshStep, AgreeStep, JoinedStep, OwnedStep DEF Inv
  <2>2. OneJoins' /\ OnlyTheCallListens' /\ PeersAreHeard'
    BY <1>1, OneJoinsStep, ListensStep, HeardStep DEF Inv
  <2>3. UnmutedAtFirst' /\ MutedIsMute' /\ GainFollows'
    BY <1>1, UnmutedStep, MuteStep, SilentStep DEF Inv
  <2>4. OnePick' /\ SentAll' /\ PicksOfCall' /\ OnlyTheCallCaptures'
    BY <1>1, OnePickStep, SentStep, PicksStep, CapturesStep DEF Inv
  <2>5. BroadcastStarts' /\ BroadcastIsShown'
    BY <1>1, StartsStep, ShownStep DEF Inv
  <2>6. QED
    BY <2>1, <2>2, <2>3, <2>4, <2>5 DEF Inv
<1>2. CASE UNCHANGED vars
  <2>1. /\ TypeOK' /\ MixerOfCall' /\ FreshAttempts' /\ ManagersAgree'
        /\ CallIsJoined' /\ PicksAreOwned'
    BY <1>2 DEF Inv, vars, store, TypeOK, MixerOfCall, FreshAttempts, ManagersAgree,
                CallIsJoined, PicksAreOwned, InCall, Current
  <2>2. OneJoins' /\ OnlyTheCallListens' /\ PeersAreHeard'
    BY <1>2 DEF Inv, vars, store, OneJoins, OnlyTheCallListens, PeersAreHeard, Without, InCall
  <2>3. UnmutedAtFirst' /\ MutedIsMute' /\ GainFollows'
    BY <1>2 DEF Inv, vars, store, UnmutedAtFirst, MutedIsMute, GainFollows,
                Without, InCall, Current
  <2>4. OnePick' /\ SentAll' /\ PicksOfCall' /\ OnlyTheCallCaptures'
    BY <1>2 DEF Inv, vars, store, OnePick, SentAll, PicksOfCall, OnlyTheCallCaptures,
                Without, Waiting, InCall, Current
  <2>5. BroadcastStarts' /\ BroadcastIsShown'
    BY <1>2 DEF Inv, vars, store, BroadcastStarts, BroadcastIsShown,
                Without, Waiting, InCall, Current
  <2>6. QED
    BY <2>1, <2>2, <2>3, <2>4, <2>5 DEF Inv
<1>3. QED
  BY <1>1, <1>2

LEMMA InvAlways == Spec => []Inv
BY InvAtFirst, InvStep, PTL DEF Spec

(* The state of the store, of the call managers and of the mixers always   *)
(* has its type, however joinCall and the toggles overlap.                 *)
THEOREM SessionTypeCorrect == Spec => []TypeOK
<1>1. Inv => TypeOK
  BY DEF Inv
<1>2. QED
  BY <1>1, InvAlways, PTL

(* With any number of joinCalls, no manager but that of the call on screen *)
(* holds a microphone or listens on the socket, unless two joinCalls       *)
(* overlapped or a call was left before getUserMedia had answered.         *)
THEOREM OnlyCallListens == Spec => []OnlyTheCallListens
<1>1. Inv => OnlyTheCallListens
  BY DEF Inv
<1>2. QED
  BY <1>1, InvAlways, PTL

(* After leaveCall and stopBroadcast no screen is captured, and in a call  *)
(* only the one that is sent, with the exceptions the property names.      *)
THEOREM OnlyCallCaptures == Spec => []OnlyTheCallCaptures
<1>1. Inv => OnlyTheCallCaptures
  BY DEF Inv
<1>2. QED
  BY <1>1, InvAlways, PTL

(* In a call that has its microphone, toggleMic and toggleDeafen keep the  *)
(* track and the button in step, unless a button was used before it had.   *)
THEOREM MuteIsTrue == Spec => []MutedIsMute
<1>1. Inv => MutedIsMute
  BY DEF Inv
<1>2. QED
  BY <1>1, InvAlways, PTL

(* toggleMic and toggleDeafen keep the master gain, the two buttons and the *)
(* microphone's track in step, and the mixer is that of the call; the track *)
(* unless a button was used before there was a microphone.                 *)
THEOREM DeafenIsTrue == Spec => []DeafenedIsSilent
<1>1. Inv => DeafenedIsSilent
  <2> SUFFICES ASSUME Inv, InCall PROVE DeafenedIsSilent
    BY DEF DeafenedIsSilent
  <2>1. GainFollows /\ call.mgr \in Manager
    BY DEF Inv, TypeOK, InCall, ActiveCall
  <2>2. CASE join[call.mgr] = "mic"
    BY <2>1, <2>2 DEF Inv, ManagersAgree, GainFollows, DeafenedIsSilent, Current
  <2>3. CASE join[call.mgr] = "in"
    BY <2>1, <2>3 DEF Inv, MutedIsMute, GainFollows, DeafenedIsSilent, Current
  <2>4. QED
    BY <2>2, <2>3 DEF Inv, CallIsJoined
<1>2. QED
  BY <1>1, InvAlways, PTL

(* However startBroadcast, stopBroadcast and the browser's own stop button *)
(* overlap, the panel tells whether there is a screen stream, with the     *)
(* exceptions the property names.                                          *)
THEOREM BroadcastIsTrue == Spec => []BroadcastIsShown
<1>1. Inv => BroadcastIsShown
  BY DEF Inv
<1>2. QED
  BY <1>1, InvAlways, PTL

(* addStreamTracks and stopBroadcast send each peer of the call just the   *)
(* microphone and the screen there is, whoever came first, unless a second *)
(* picker was opened while one was.                                        *)
THEOREM AllPeersAreSent == Spec => []PeersAreSentAll
<1>1. Inv => PeersAreSentAll
  <2> SUFFICES ASSUME Inv, Without({"picked_twice"}), InCall
               PROVE  Current.sends = Current.peers \X Tracks(Current)
    BY DEF PeersAreSentAll
  <2>1. call.mgr \in Manager
    BY DEF Inv, TypeOK, InCall, ActiveCall
  <2>2. QED
    BY <2>1 DEF Inv, SentAll, Current
<1>2. QED
  BY <1>1, InvAlways, PTL

(* The mixer of the call plays each peer whose track has come, and no      *)
(* other mixer plays anything, whatever the order of tracks, rosters and   *)
(* calls, unless two joinCalls overlapped or a call was left before        *)
(* getUserMedia had answered.                                              *)
THEOREM AllPeersAreHeard == Spec => []PeersAreHeard
<1>1. Inv => PeersAreHeard
  BY DEF Inv
<1>2. QED
  BY <1>1, InvAlways, PTL
=============================================================================
