---------------------------- MODULE CallSession ----------------------------
(***************************************************************************)
(* The call of one client: joinCall, leaveCall and the toggles of the      *)
(* store (client/src/lib/store.svelte.ts) with the CallManager (call.ts)   *)
(* and the AudioMixer (mixer.ts) that each joinCall makes.                 *)
(*                                                                         *)
(* joinCall gives way while it waits for the TURN credentials and for the  *)
(* microphone, startBroadcast while it waits for the screen picker and for *)
(* the capture to be adjusted.  The user goes on meanwhile.                *)
(***************************************************************************)
EXTENDS FiniteSets

CONSTANTS Manager,    \* bound: calls of joinCall, each with its manager and its mixer
          Stream,     \* bound: calls of startBroadcast, each with its screen stream
          User,       \* the other users
          None

ASSUME NoneIsNew == None \notin Manager \cup Stream \cup {"mic"}
ASSUME MicIsNoStream == "mic" \notin Stream

VARIABLES
  (* store *)
  call,       \* the ActiveCall, or none
  mixer,      \* the manager whose joinCall made the mixer, or None
  preDeafen,  \* preDeafenMicMuted
  join,       \* manager -> where its joinCall is
  (* call managers *)
  mgr,
  pick,       \* stream -> its startBroadcast
  live,       \* screen streams that capture
  (* mixers, each named by its manager *)
  plays,      \* mixer -> the sources: whose manager, which user
  silent,     \* mixers with the master gain at 0
  (* history *)
  slips       \* what came between the steps of a joinCall or startBroadcast

store == <<call, mixer, preDeafen, join>>
vars  == <<store, mgr, pick, live, plays, silent, slips>>

ActiveCall == [mgr : Manager, micMuted : BOOLEAN, deafened : BOOLEAN, broadcasting : BOOLEAN]
NoCall == [mgr |-> None, micMuted |-> FALSE, deafened |-> FALSE, broadcasting |-> FALSE]

Sent == Stream \cup {"mic"}
CallManager ==
  [mic : {"none", "on", "off"},      \* micStream and whether its track is enabled
   listens : BOOLEAN,                \* on the socket, and in the server's roster
   screen : Stream \cup {None},      \* screenStream
   peers : SUBSET User,
   sends : SUBSET (User \X Sent),    \* the senders of each peer
   tracks : SUBSET User]             \* peers whose sound has arrived
Idle == [mic |-> "none", listens |-> FALSE, screen |-> None,
         peers |-> {}, sends |-> {}, tracks |-> {}]

Pick == [mgr : Manager \cup {None}, st : {"none", "picking", "applying", "over"}]
Slip == {"joined_twice", "left_joining", "muted_joining",
         "left_picking", "picked_twice", "stopped_applying", "denied_sharing"}

TypeOK ==
  /\ call \in ActiveCall \cup {NoCall}
  /\ mixer \in Manager \cup {None}
  /\ preDeafen \in BOOLEAN
  /\ join \in [Manager -> {"none", "turn", "mic", "in", "over"}]
  /\ mgr \in [Manager -> CallManager]
  /\ pick \in [Stream -> Pick]
  /\ live \subseteq {s \in Stream : pick[s].st \in {"applying", "over"}}
  /\ plays \in [Manager -> SUBSET (Manager \X User)]
  /\ silent \subseteq Manager
  /\ slips \subseteq Slip

Init ==
  /\ call = NoCall /\ mixer = None /\ preDeafen = FALSE
  /\ join = [m \in Manager |-> "none"]
  /\ mgr = [m \in Manager |-> Idle]
  /\ pick = [s \in Stream |-> [mgr |-> None, st |-> "none"]]
  /\ live = {}
  /\ plays = [m \in Manager |-> {}] /\ silent = {}
  /\ slips = {}

Current == mgr[call.mgr]
InCall == call # NoCall
Waiting(m) == {s \in Stream : pick[s].mgr = m /\ pick[s].st \in {"picking", "applying"}}

-----------------------------------------------------------------------------
(* joinCall *)

(* AudioMixer.close.                                                       *)
Closed == IF mixer = None THEN plays ELSE [plays EXCEPT ![mixer] = {}]

(* Mutants of LeaveCall: unsubscribe is not called; the tracks of the       *)
(* screen are not stopped.                                                 *)
LeaveListening ==
  IF InCall
    THEN /\ mgr' = [mgr EXCEPT ![call.mgr] = [Idle EXCEPT !.listens = Current.listens]]
         /\ live' = live \ {Current.screen}
         /\ plays' = Closed
         /\ call' = NoCall /\ mixer' = None
    ELSE UNCHANGED <<mgr, live, plays, call, mixer>>

LeaveCapturing ==
  IF InCall
    THEN /\ mgr' = [mgr EXCEPT ![call.mgr] = Idle]
         /\ plays' = Closed
         /\ call' = NoCall /\ mixer' = None
         /\ UNCHANGED live
    ELSE UNCHANGED <<mgr, live, plays, call, mixer>>

(* leaveCall, with CallManager.leave.                                      *)
LeaveCall ==
  IF InCall
    THEN /\ mgr' = [mgr EXCEPT ![call.mgr] = Idle]
         /\ live' = live \ {Current.screen}
         /\ plays' = Closed
         /\ call' = NoCall /\ mixer' = None
    ELSE UNCHANGED <<mgr, live, plays, call, mixer>>

SlipsOfLeaving ==
  IF ~ InCall THEN {}
  ELSE (IF join[call.mgr] = "mic" THEN {"left_joining"} ELSE {})
       \cup (IF Waiting(call.mgr) # {} THEN {"left_picking"} ELSE {})

Leave ==
  /\ InCall
  /\ LeaveCall
  /\ slips' = slips \cup SlipsOfLeaving
  /\ UNCHANGED <<preDeafen, join, pick, silent>>

(* joinCall up to the wait for the credentials.                            *)
JoinCall(m) ==
  /\ join[m] = "none"
  /\ LeaveCall
  /\ join' = [join EXCEPT ![m] = "turn"]
  /\ slips' = slips \cup SlipsOfLeaving
                    \cup (IF \E k \in Manager : join[k] = "turn" THEN {"joined_twice"} ELSE {})
  /\ UNCHANGED <<preDeafen, pick, silent>>

TurnFails(m) ==
  /\ join[m] = "turn"
  /\ join' = [join EXCEPT ![m] = "over"]
  /\ UNCHANGED <<call, mixer, preDeafen, mgr, pick, live, plays, silent, slips>>

(* On to the wait for the microphone, in CallManager.join.                 *)
TurnCredentials(m) ==
  /\ join[m] = "turn"
  /\ mixer' = m
  /\ call' = [mgr |-> m, micMuted |-> FALSE, deafened |-> FALSE, broadcasting |-> FALSE]
  /\ join' = [join EXCEPT ![m] = "mic"]
  /\ UNCHANGED <<preDeafen, mgr, pick, live, plays, silent, slips>>

(* The rest of CallManager.join, whatever has happened meanwhile.          *)
MicGranted(m) ==
  /\ join[m] = "mic"
  /\ mgr' = [mgr EXCEPT ![m].mic = "on", ![m].listens = TRUE]
  /\ join' = [join EXCEPT ![m] = "in"]
  /\ UNCHANGED <<call, mixer, preDeafen, pick, live, plays, silent, slips>>

(* The catch of joinCall: it ends whatever call there is, but does not     *)
(* leave it.                                                               *)
MicDenied(m) ==
  /\ join[m] = "mic"
  /\ plays' = Closed
  /\ mixer' = None /\ call' = NoCall
  /\ join' = [join EXCEPT ![m] = "over"]
  /\ slips' = IF Waiting(m) # {} \/ mgr[m].screen # None THEN slips \cup {"denied_sharing"} ELSE slips
  /\ UNCHANGED <<preDeafen, mgr, pick, live, silent>>

-----------------------------------------------------------------------------
(* Mute and deafen *)

(* setMicMuted: the tracks there are.                                      *)
Muted(m, muted) ==
  IF m.mic = "none" THEN m ELSE [m EXCEPT !.mic = IF muted THEN "off" ELSE "on"]

SlipOfMuting == IF join[call.mgr] = "mic" THEN {"muted_joining"} ELSE {}

Deafened(deafened) == IF deafened THEN silent \cup {mixer} ELSE silent \ {mixer}

(* Mutant: unmuting does not undeafen.                                     *)
ToggleMicOnly ==
  LET muted == ~ call.micMuted IN
  /\ InCall
  /\ call' = [call EXCEPT !.micMuted = muted]
  /\ mgr' = [mgr EXCEPT ![call.mgr] = Muted(@, muted)]
  /\ slips' = slips \cup SlipOfMuting
  /\ UNCHANGED <<mixer, preDeafen, join, pick, live, plays, silent>>

ToggleMic ==
  LET muted == ~ call.micMuted
      undeafen == ~ muted /\ call.deafened IN
  /\ InCall
  /\ call' = [call EXCEPT !.micMuted = muted, !.deafened = @ /\ ~ undeafen]
  /\ mgr' = [mgr EXCEPT ![call.mgr] = Muted(@, muted)]
  /\ silent' = IF undeafen THEN Deafened(FALSE) ELSE silent
  /\ slips' = slips \cup SlipOfMuting
  /\ UNCHANGED <<mixer, preDeafen, join, pick, live, plays>>

(* Mutant: undeafening changes the button and not the microphone.          *)
ToggleDeafenShownOnly ==
  LET deafened == ~ call.deafened
      muted == deafened \/ preDeafen IN
  /\ InCall
  /\ preDeafen' = IF deafened THEN call.micMuted ELSE preDeafen
  /\ call' = [call EXCEPT !.deafened = deafened, !.micMuted = muted]
  /\ mgr' = IF deafened THEN [mgr EXCEPT ![call.mgr] = Muted(@, muted)] ELSE mgr
  /\ silent' = Deafened(deafened)
  /\ slips' = slips \cup SlipOfMuting
  /\ UNCHANGED <<mixer, join, pick, live, plays>>

ToggleDeafen ==
  LET deafened == ~ call.deafened
      muted == deafened \/ preDeafen IN
  /\ InCall
  /\ preDeafen' = IF deafened THEN call.micMuted ELSE preDeafen
  /\ call' = [call EXCEPT !.deafened = deafened, !.micMuted = muted]
  /\ mgr' = IF muted # call.micMuted THEN [mgr EXCEPT ![call.mgr] = Muted(@, muted)] ELSE mgr
  /\ silent' = Deafened(deafened)
  /\ slips' = slips \cup SlipOfMuting
  /\ UNCHANGED <<mixer, join, pick, live, plays>>

-----------------------------------------------------------------------------
(* The screen broadcast *)

(* addStreamTracks of the screen, for every peer.                          *)
Started(m, s) == [m EXCEPT !.screen = s, !.sends = @ \cup (m.peers \X {s})]

(* stopBroadcast: without a stream it does nothing.                        *)
StopBroadcast(m, ended) ==
  LET s == mgr[m].screen IN
  /\ mgr' = [mgr EXCEPT ![m].screen = None, ![m].sends = {x \in @ : x[2] # s}]
  /\ live' = live \ {s, ended}
  /\ slips' = IF s # None /\ pick[s].st = "applying" THEN slips \cup {"stopped_applying"} ELSE slips

(* toggleBroadcast while it shows that there is one.                       *)
BroadcastOff ==
  /\ call.broadcasting
  /\ StopBroadcast(call.mgr, None)
  /\ call' = [call EXCEPT !.broadcasting = FALSE]
  /\ UNCHANGED <<mixer, preDeafen, join, pick, plays, silent>>

(* toggleBroadcast otherwise: startBroadcast opens the picker, unless      *)
(* there is a stream.                                                      *)
BroadcastOn(s) ==
  /\ InCall /\ ~ call.broadcasting
  /\ pick[s].st = "none"
  /\ IF Current.screen = None
       THEN /\ pick' = [pick EXCEPT ![s] = [mgr |-> call.mgr, st |-> "picking"]]
            /\ slips' = IF Waiting(call.mgr) # {} THEN slips \cup {"picked_twice"} ELSE slips
            /\ UNCHANGED call
       ELSE /\ call' = [call EXCEPT !.broadcasting = TRUE]
            /\ UNCHANGED <<pick, slips>>
  /\ UNCHANGED <<mixer, preDeafen, join, mgr, live, plays, silent>>

PickRefused(s) ==
  /\ pick[s].st = "picking"
  /\ pick' = [pick EXCEPT ![s].st = "over"]
  /\ UNCHANGED <<store, mgr, live, plays, silent, slips>>

(* startBroadcast, once the user has chosen, up to the wait for the        *)
(* capture to take the settings.                                           *)
Picked(s) ==
  /\ pick[s].st = "picking"
  /\ mgr' = [mgr EXCEPT ![pick[s].mgr] = Started(@, s)]
  /\ live' = live \cup {s}
  /\ pick' = [pick EXCEPT ![s].st = "applying"]
  /\ UNCHANGED <<store, plays, silent, slips>>

(* The rest of startBroadcast and of toggleBroadcast.                      *)
Applied(s) ==
  /\ pick[s].st = "applying"
  /\ pick' = [pick EXCEPT ![s].st = "over"]
  /\ call' = IF InCall THEN [call EXCEPT !.broadcasting = TRUE] ELSE call
  /\ UNCHANGED <<mixer, preDeafen, join, mgr, live, plays, silent, slips>>

(* Mutant: onBroadcastChanged is not called.                               *)
ShareEndedUntold(s) ==
  /\ s \in live
  /\ StopBroadcast(pick[s].mgr, s)
  /\ UNCHANGED <<store, pick, plays, silent>>

(* onended: the user stops sharing outside the program.                    *)
ShareEnded(s) ==
  /\ s \in live
  /\ StopBroadcast(pick[s].mgr, s)
  /\ call' = IF InCall /\ mgr[pick[s].mgr].screen # None
               THEN [call EXCEPT !.broadcasting = FALSE]
               ELSE call
  /\ UNCHANGED <<mixer, preDeafen, join, pick, plays, silent>>

-----------------------------------------------------------------------------
(* Peers and their sound *)

(* Mutant: the screen goes to those who were there when it started.        *)
TracksWithoutScreen(m) == IF m.mic = "none" THEN {} ELSE {"mic"}

(* createPeer: the tracks a new peer is sent.                              *)
Tracks(m) == (IF m.mic = "none" THEN {} ELSE {"mic"}) \cup ({m.screen} \ {None})

(* setUserStreams in the mixer there is now: the streams of users S are    *)
(* gone; the streams of u are its sources.                                 *)
Unheard(S) ==
  IF InCall THEN [plays EXCEPT ![mixer] = {x \in @ : x[2] \notin S}] ELSE plays

Heard(m, u) ==
  IF InCall THEN [plays EXCEPT ![mixer] = {x \in @ : x[2] # u} \cup {<<m, u>>}] ELSE plays

(* Mutant: onRemoteStreams is not called for those who are gone.           *)
PeersChangeUntold(m, S) ==
  LET old == mgr[m].peers IN
  /\ mgr[m].listens /\ S # old
  /\ mgr' = [mgr EXCEPT
       ![m].peers = S,
       ![m].sends = {x \in @ : x[1] \in S} \cup ((S \ old) \X Tracks(mgr[m])),
       ![m].tracks = @ \cap S]
  /\ UNCHANGED <<store, pick, live, plays, silent, slips>>

(* handleEvent: a roster, or a single peer that has left or has signalled, *)
(* leaves the manager with the peers S; onRemoteStreams of those who are   *)
(* gone.                                                                   *)
PeersChange(m, S) ==
  LET old == mgr[m].peers IN
  /\ mgr[m].listens /\ S # old
  /\ mgr' = [mgr EXCEPT
       ![m].peers = S,
       ![m].sends = {x \in @ : x[1] \in S} \cup ((S \ old) \X Tracks(mgr[m])),
       ![m].tracks = @ \cap S]
  /\ plays' = Unheard(old \ S)
  /\ UNCHANGED <<store, pick, live, silent, slips>>

(* ontrack, and refreshStreams.                                            *)
RemoteTrack(m, u) ==
  /\ u \in mgr[m].peers \ mgr[m].tracks
  /\ mgr' = [mgr EXCEPT ![m].tracks = @ \cup {u}]
  /\ plays' = Heard(m, u)
  /\ UNCHANGED <<store, pick, live, silent, slips>>

Next ==
  \/ \E m \in Manager :
       JoinCall(m) \/ TurnFails(m) \/ TurnCredentials(m) \/ MicGranted(m) \/ MicDenied(m)
  \/ Leave \/ ToggleMic \/ ToggleDeafen \/ BroadcastOff
  \/ \E s \in Stream : BroadcastOn(s) \/ PickRefused(s) \/ Picked(s) \/ Applied(s) \/ ShareEnded(s)
  \/ \E m \in Manager, S \in SUBSET User : PeersChange(m, S)
  \/ \E m \in Manager, u \in User : RemoteTrack(m, u)

Spec == Init /\ [][Next]_vars

-----------------------------------------------------------------------------
(* Properties *)

Without(some) == slips \cap some = {}
Gone == {"joined_twice", "left_joining"}

(* Outside the call nothing listens: the microphone is captured, and the   *)
(* client is in a roster, only for the call on screen.  The exceptions are *)
(* a joinCall that overlaps another and a call left before getUserMedia    *)
(* has answered.                                                           *)
OnlyTheCallListens ==
  Without(Gone) => \A m \in Manager :
    mgr[m].mic # "none" \/ mgr[m].listens => call.mgr = m

(* Outside the call no screen is captured, and in it one at most.  The     *)
(* exceptions are, besides those, a call left or a second broadcast started *)
(* while one is starting, and a microphone denied amid a broadcast.        *)
OnlyTheCallCaptures ==
  Without(Gone \cup {"left_picking", "picked_twice", "denied_sharing"}) =>
    live \subseteq (IF InCall THEN {Current.screen} ELSE {})

(* The mute button tells whether the microphone is heard, unless it was    *)
(* used before there was a microphone.                                     *)
MutedIsMute ==
  (Without({"muted_joining"}) /\ InCall /\ join[call.mgr] = "in") =>
    Current.mic = IF call.micMuted THEN "off" ELSE "on"

(* "Deafen mutes everyone you hear and forces your mic muted": the mixer is *)
(* silent when and only when the button says deafened; the microphone is    *)
(* then shown muted, and its track is off, unless it was muted or deafened  *)
(* before there was a microphone.                                          *)
DeafenedIsSilent ==
  InCall => /\ mixer = call.mgr
            /\ call.deafened <=> mixer \in silent
            /\ call.deafened => call.micMuted
            /\ Without({"muted_joining"}) /\ call.deafened => Current.mic # "on"

(* What the panel says of the broadcast is so when startBroadcast is done. *)
BroadcastIsShown ==
  (Without(Gone \cup {"left_picking", "picked_twice", "stopped_applying", "denied_sharing"})
     /\ InCall /\ Waiting(call.mgr) = {}) =>
    (call.broadcasting <=> Current.screen # None)

(* Every peer, old or new, is sent the microphone and the screen that is   *)
(* broadcast, and nothing that was, unless two pickers were open at once.  *)
PeersAreSentAll ==
  (Without({"picked_twice"}) /\ InCall /\ join[call.mgr] = "in") =>
    Current.sends = Current.peers \X Tracks(Current)

(* What plays is what the peers of the call send, each once; nothing does  *)
(* after the call.  The exceptions are those of OnlyTheCallListens.        *)
PeersAreHeard ==
  Without(Gone) => \A m \in Manager :
    plays[m] = IF call.mgr = m THEN {m} \X mgr[m].tracks ELSE {}
=============================================================================
