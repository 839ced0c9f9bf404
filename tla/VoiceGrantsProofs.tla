--------------------------- MODULE VoiceGrantsProofs ---------------------------
(***************************************************************************)
(* The grants follow the phases for every table, every deal and any number *)
(* of talkers.                                                             *)
(*                                                                         *)
(* Nobody comes back to life and no role changes during a game, so within  *)
(* a phase the grant of a player changes only by his own death, which      *)
(* touches him; and the last request about him, when one is on its way, is *)
(* that of the current phase.                                              *)
(***************************************************************************)
EXTENDS VoiceGrants, GameEngineSteps

Grants == [canPublish : BOOLEAN, canSubscribe : BOOLEAN]

\* What the phase asks for is granted, or is the last request on its way.
Asked(p) ==
  LET due == computeGrant(p, phase, alive)
  IN  IF requests[p] = <<>> THEN p \in connected => grants[p] = due
      ELSE requests[p][Len(requests[p])] = due

VoiceInv ==
  /\ connected \subseteq Talkers
  /\ grants \in [Talkers -> Grants]
  /\ requests \in [Talkers -> Seq(Grants)]
  /\ phase # "lobby" => \A p \in Talkers \ touched : Asked(p)

LEMMA GrantType ==
  ASSUME NEW p, NEW ph, NEW living
  PROVE  computeGrant(p, ph, living) \in Grants
BY DEF computeGrant, Grant, Grants

LEMMA Appended ==
  ASSUME NEW q \in Seq(Grants), NEW g \in Grants
  PROVE  /\ Append(q, g) \in Seq(Grants) /\ Append(q, g) # <<>>
         /\ Append(q, g)[Len(Append(q, g))] = g
OBVIOUS

LEMMA Shifted ==
  ASSUME NEW q \in Seq(Grants), q # <<>>
  PROVE  /\ Head(q) \in Grants /\ Tail(q) \in Seq(Grants)
         /\ Tail(q) = <<>> => q[Len(q)] = Head(q)
         /\ Tail(q) # <<>> => Tail(q)[Len(Tail(q))] = q[Len(q)]
<1> DEFINE t == Tail(q)
<1>1. /\ Head(q) \in Grants /\ t \in Seq(Grants) /\ Len(t) = Len(q) - 1
      /\ \A i \in 1 .. Len(t) : t[i] = q[i + 1]
      /\ Head(q) = q[1]
  BY HeadTailProperties
<1>2. Len(q) \in Nat \ {0}
  BY EmptySeq
<1> HIDE DEF t
<1>3. (t = <<>> => Len(t) = 0) /\ (t # <<>> => Len(t) \in Nat \ {0})
  BY <1>1, EmptySeq
<1>4. t = <<>> => q[Len(q)] = Head(q)
  BY <1>1, <1>2, <1>3
<1>5. t # <<>> => t[Len(t)] = q[Len(q)]
  BY <1>1, <1>2, <1>3
<1> QED
  BY <1>1, <1>4, <1>5 DEF t

LEMMA GameStepVoice ==
  ASSUME VoiceInv, GameStep
  PROVE  VoiceInv'
<1>1. /\ role' = role /\ alive' \subseteq alive
      /\ connected' = connected /\ grants' = grants
  BY NobodyComesBack DEF GameStep, Mortal
<1>2. CASE phase' # phase
  <2>1. requests' = [p \in Talkers |-> Append(requests[p], computeGrant(p, phase', alive'))]
    BY <1>2 DEF GameStep, applyGrants
  <2>2. ASSUME NEW p \in Talkers
        PROVE  requests'[p] \in Seq(Grants) /\ Asked(p)'
    <3> DEFINE due == computeGrant(p, phase', alive')
    <3>1. due \in Grants /\ requests[p] \in Seq(Grants) /\ requests'[p] = Append(requests[p], due)
      BY <2>1, GrantType DEF VoiceInv
    <3>2. computeGrant(p, phase, alive)' = due
      BY <1>1 DEF computeGrant
    <3> HIDE DEF due
    <3>3. /\ requests'[p] \in Seq(Grants) /\ requests'[p] # <<>>
          /\ requests'[p][Len(requests'[p])] = due
      BY <3>1, Appended
    <3> QED BY <3>2, <3>3 DEF Asked
  <2>3. requests' \in [Talkers -> Seq(Grants)]
    BY <2>1, <2>2
  <2> QED BY <1>1, <2>2, <2>3 DEF VoiceInv
<1>3. CASE phase' = phase
  <2>1. requests' = requests /\ touched' = touched \cup (Talkers \cap (alive \ alive'))
    BY <1>3 DEF GameStep
  <2>2. ASSUME NEW p \in Talkers \ touched', phase # "lobby"
        PROVE  Asked(p)'
    <3>1. Asked(p)
      BY <2>1, <2>2 DEF VoiceInv
    <3>2. p \in alive' <=> p \in alive
      BY <1>1, <2>1
    <3>3. computeGrant(p, phase, alive)' = computeGrant(p, phase, alive)
      BY <1>1, <1>3, <3>2 DEF computeGrant
    <3> QED BY <1>1, <2>1, <3>1, <3>3 DEF Asked
  <2> QED BY <1>1, <1>3, <2>1, <2>2 DEF VoiceInv
<1> QED
  BY <1>2, <1>3

LEMMA TalkerVoice ==
  ASSUME VoiceInv, NEW p \in Talkers,
         joinVoice(p) \/ leaveVoice(p) \/ ForceMute(p) \/ updateParticipantGrants(p)
  PROVE  VoiceInv'
<1>1. UNCHANGED <<role, alive, phase>>
  BY DEF joinVoice, leaveVoice, ForceMute, updateParticipantGrants, vars
<1>2. \A q : computeGrant(q, phase, alive)' = computeGrant(q, phase, alive)
  BY <1>1 DEF computeGrant
<1>3. CASE joinVoice(p)
  <2>1. Token \in Grants
    BY DEF Token, Grant, Grants
  <2> QED BY <1>1, <1>2, <1>3, <2>1 DEF VoiceInv, joinVoice, Asked
<1>4. CASE leaveVoice(p)
  BY <1>1, <1>2, <1>4 DEF VoiceInv, leaveVoice, Asked
<1>5. CASE ForceMute(p)
  <2> DEFINE mute == Grant(FALSE, TRUE)
  <2>1. mute \in Grants
    BY DEF Grant, Grants
  <2>2. requests' = [requests EXCEPT ![p] = Append(@, mute)] /\ UNCHANGED <<connected, grants>>
        /\ touched' = touched \cup {p}
    BY <1>5 DEF ForceMute, Send
  <2> HIDE DEF mute
  <2>3. requests' \in [Talkers -> Seq(Grants)]
    BY <2>1, <2>2, Appended DEF VoiceInv
  <2> QED BY <1>1, <1>2, <2>2, <2>3 DEF VoiceInv, Asked
<1>6. CASE updateParticipantGrants(p)
  <2> DEFINE head == Head(requests[p])
             rest == Tail(requests[p])
             g == IF p \in connected THEN head ELSE grants[p]
  <2>1. requests[p] \in Seq(Grants) /\ requests[p] # <<>>
    BY <1>6 DEF updateParticipantGrants, VoiceInv
  <2>2. /\ head \in Grants /\ rest \in Seq(Grants)
        /\ rest = <<>> => requests[p][Len(requests[p])] = head
        /\ rest # <<>> => rest[Len(rest)] = requests[p][Len(requests[p])]
    BY <2>1, Shifted
  <2>3. /\ requests' = [requests EXCEPT ![p] = rest]
        /\ grants' = [grants EXCEPT ![p] = g]
        /\ UNCHANGED <<connected, touched>>
    BY <1>6 DEF updateParticipantGrants
  <2> HIDE DEF head, rest
  <2>4. g \in Grants
    BY <2>2 DEF VoiceInv
  <2>5. requests' \in [Talkers -> Seq(Grants)] /\ grants' \in [Talkers -> Grants]
    BY <2>2, <2>3, <2>4 DEF VoiceInv
  <2>6. ASSUME NEW q \in Talkers \ touched, phase # "lobby"
        PROVE  Asked(q)'
    <3>1. Asked(q)
      BY <2>6 DEF VoiceInv
    <3>2. CASE q # p
      BY <1>2, <2>3, <3>1, <3>2 DEF VoiceInv, Asked
    <3>3. CASE q = p
      <4>1. requests[p][Len(requests[p])] = computeGrant(p, phase, alive)
        BY <2>1, <3>1, <3>3 DEF Asked
      <4>2. requests'[p] = rest /\ grants'[p] = g
        BY <2>3 DEF VoiceInv
      <4> QED BY <1>2, <2>2, <2>3, <3>3, <4>1, <4>2 DEF Asked
    <3> QED BY <3>2, <3>3
  <2> QED BY <1>1, <2>3, <2>5, <2>6 DEF VoiceInv
<1> QED
  BY <1>3, <1>4, <1>5, <1>6

\* The invariant of the voice room: what the phase asks for is granted or on its way.
THEOREM VoiceInvariant == VoiceSpec => []VoiceInv
<1>1. VoiceInit => VoiceInv
  BY DEF VoiceInit, Init, VoiceInv, Grant, Grants
<1>2. VoiceInv /\ [VoiceNext]_<<vars, voiceVars>> => VoiceInv'
  <2> SUFFICES ASSUME VoiceInv, [VoiceNext]_<<vars, voiceVars>> PROVE VoiceInv'
    OBVIOUS
  <2>1. CASE UNCHANGED <<vars, voiceVars>>
    BY <2>1 DEF VoiceInv, vars, voiceVars, Asked, computeGrant
  <2>2. CASE VoiceNext
    BY <2>2, GameStepVoice, TalkerVoice DEF VoiceNext
  <2> QED BY <2>1, <2>2
<1> QED
  BY <1>1, <1>2, PTL DEF VoiceSpec

\* Whatever the table, the deal and the talkers, and however late LiveKit is: once it
\* has caught up, who came in before the phase began has the grant of the phase.
THEOREM VoiceFollowsAlways == VoiceSpec => []VoiceFollowsThePhase
<1>1. VoiceInv => VoiceFollowsThePhase
  BY DEF VoiceInv, Asked, VoiceFollowsThePhase
<1> QED
  BY <1>1, VoiceInvariant, PTL
===============================================================================
