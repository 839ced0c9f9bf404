------------------------------ MODULE VoiceGrants ------------------------------
(***************************************************************************)
(* Who may speak and who may hear: every change of phase sends LiveKit one *)
(* request per player, which nobody waits for and nobody repeats.  A       *)
(* player gets into the voice room with a token that allows everything,    *)
(* whatever the phase.                                                     *)
(*                                                                         *)
(* LiveKit itself is outside the repository: here it carries out the       *)
(* requests about one player in the order they were sent, and refuses      *)
(* those about somebody who is not connected.  Left out: the tracks, the   *)
(* microphone button, and the nicknames.                                   *)
(***************************************************************************)
EXTENDS GameEngine, Sequences

CONSTANTS
  Talkers,      \* the players followed           (bounds the participants)
  MaxRequests   \* requests on the way for one    (bounds the delay)

ASSUME TalkersAssumption == Talkers \subseteq Players /\ MaxRequests \in Nat

VARIABLES
  connected,  \* the participants of the voice room
  grants,     \* what LiveKit lets each of them do
  requests,   \* the calls to updateParticipant it has not carried out
  touched     \* those whose grant was set otherwise since the phase began

voiceVars == <<connected, grants, requests, touched>>

Grant(publish, subscribe) == [canPublish |-> publish, canSubscribe |-> subscribe]

\* What a token issued by voice:token allows.
Token == Grant(TRUE, TRUE)

VoiceInit ==
  /\ Init
  /\ connected = {}
  /\ grants = [p \in Talkers |-> Grant(FALSE, FALSE)]
  /\ requests = [p \in Talkers |-> <<>>]
  /\ touched = {}

computeGrant(p, ph, living) ==
  IF p \notin living THEN Grant(FALSE, TRUE)
  ELSE IF ph \in NightPhases /\ ~(ph = "night_wolves" /\ role[p] = "werewolf")
  THEN Grant(FALSE, FALSE)
  ELSE Grant(TRUE, TRUE)

Send(p, grant) == requests' = [requests EXCEPT ![p] = Append(@, grant)]

\* Slip: the dead are not asked about.
applyGrants_OnlyTheLiving(ph, living) ==
  requests' = [p \in Talkers |-> IF p \in living THEN Append(requests[p], computeGrant(p, ph, living))
                                 ELSE requests[p]]

applyGrants(ph, living) ==
  requests' = [p \in Talkers |-> Append(requests[p], computeGrant(p, ph, living))]

\* Any step of the game.  Whoever leaves it without closing the phase keeps the
\* grant he had.
GameStep ==
  /\ Next
  /\ IF phase' # phase
     THEN applyGrants(phase', alive') /\ touched' = {}
     ELSE UNCHANGED requests /\ touched' = touched \cup (Talkers \cap (alive \ alive'))
  /\ \A p \in Talkers : Len(requests'[p]) <= MaxRequests
  /\ UNCHANGED <<connected, grants>>

\* The connection a token opens, in place of an earlier one.
joinVoice(p) ==
  /\ connected' = connected \cup {p}
  /\ grants' = [grants EXCEPT ![p] = Token]
  /\ touched' = touched \cup {p}
  /\ UNCHANGED <<vars, requests>>

leaveVoice(p) ==
  /\ p \in connected
  /\ connected' = connected \ {p}
  /\ UNCHANGED <<vars, grants, requests, touched>>

\* voice:test_force_mute, the host's button.
ForceMute(p) ==
  /\ Len(requests[p]) < MaxRequests
  /\ Send(p, Grant(FALSE, TRUE))
  /\ touched' = touched \cup {p}
  /\ UNCHANGED <<vars, connected, grants>>

\* LiveKit carries out a request, or refuses it.
updateParticipantGrants(p) ==
  /\ requests[p] # <<>>
  /\ requests' = [requests EXCEPT ![p] = Tail(@)]
  /\ grants' = [grants EXCEPT ![p] = IF p \in connected THEN Head(requests[p]) ELSE @]
  /\ UNCHANGED <<vars, connected, touched>>

VoiceNext ==
  \/ GameStep
  \/ \E p \in Talkers : \/ joinVoice(p) \/ leaveVoice(p)
                        \/ ForceMute(p) \/ updateParticipantGrants(p)

VoiceSpec == VoiceInit /\ [][VoiceNext]_<<vars, voiceVars>>
-------------------------------------------------------------------------------
(***************************************************************************)
(* Properties                                                              *)
(***************************************************************************)

\* Once LiveKit has caught up, everybody who came in before the phase began speaks
\* and hears as his role, his life and the phase allow: the village is silent at
\* night but for the pack, the dead listen, and the day gives the living the floor.
\* Every way into a phase, the end of the game included, must have asked for it.
VoiceFollowsThePhase ==
  \A p \in connected :
    (requests[p] = <<>> /\ p \notin touched /\ phase # "lobby") =>
      grants[p] = computeGrant(p, phase, alive)
===============================================================================
