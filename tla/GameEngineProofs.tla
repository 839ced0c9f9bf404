--------------------------- MODULE GameEngineProofs ---------------------------
(***************************************************************************)
(* The safety invariants of GameEngine, for every table, every deal and    *)
(* every choice of the input bounds.                                       *)
(*                                                                         *)
(* A handler is a cascade of methods, so the proof follows the methods:    *)
(* Ready says what holds while a call is in flight (the timer is cleared   *)
(* or clearable, the dead are buried, the verdict is asked for), Good what *)
(* holds between calls, and each method of the phase machine turns Ready   *)
(* into Good.  One lemma per handler then closes the induction.            *)
(***************************************************************************)
EXTENDS GameEngine, OperatorLemmas

\* Between calls one timer is outstanding exactly while a timed phase runs.
Timed(s) ==
  IF s.phase \in TimedPhases THEN s.timers = {s.phase} /\ s.phaseTimer = s.phase
  ELSE s.timers = {} /\ s.phaseTimer = "none"

Settled(s) ==
  /\ s.phase \in TimedPhases \cup {"lobby"} => s.winner = "none"
  /\ s.phase \in TimedPhases => checkWinner(s) = "none"
  /\ s.phase = "ended" => s.winner # "none" /\ s.winner = checkWinner(s)

Awaiting(s) ==
  /\ s.phase \in NightPhases => phaseHasActor(s, s.phase) /\ ~PhaseDone(s)
  /\ s.phase = "day_main" => ~allSkipped(s)

\* The ballots of the night come from living wolves, name outsiders, and have
\* been counted.
PackInOrder(s) ==
  LET n == s.night_state
  IN  /\ \A p \in Players : n.wolfVotes[p] # Undecided => p \in AliveAs(s, "werewolf")
      /\ \A p \in Players : n.wolfVotes[p] \in Players => role[n.wolfVotes[p]] # "werewolf"
      /\ n.wolfKillTargetId = recomputeWolfTarget(n.wolfVotes)

\* The night phases of rank above r have not been played yet.
Unplayed(n, r) ==
  /\ r < 1 => n.guardProtectedId = None
  /\ r < 2 => n.wolfVotes = NoBallots
  /\ r < 3 => n.seerChecked = FALSE
  /\ r < 4 => n.witchActed = FALSE

Balloted(s) ==
  /\ s.phase = "day_main" => \A p \in Players \ s.alive : s.votes[p] = Undecided
  /\ s.phase \in NightPhases => PackInOrder(s) /\ Unplayed(s.night_state, Rank[s.phase])

Good(s) ==
  s \in EngineState /\ s.phase # "lobby" /\ Timed(s) /\ Settled(s) /\ Awaiting(s) /\ Balloted(s)

\* In flight: whatever timer is left is the one the engine can clear.
Running(s) ==
  s \in EngineState /\ s.timers \subseteq {s.phaseTimer} /\ s.winner = "none"

Ready(s) == Running(s) /\ checkWinner(s) = "none" /\ PackInOrder(s)

IInv ==
  /\ TypeOK
  /\ Settled(state) /\ Awaiting(state) /\ Balloted(state)
  /\ IF live THEN Timed(state) ELSE timers = {}
  /\ role \in Deals
  /\ phase = "lobby" => alive = Players /\ night_state = freshNightState(None)
-------------------------------------------------------------------------------
LEMMA EnterPhaseFields ==
  ASSUME NEW s \in EngineState, NEW ph \in TimedPhases
  PROVE  /\ enterPhase(s, ph) \in EngineState
         /\ enterPhase(s, ph).alive = s.alive
         /\ enterPhase(s, ph).phase = ph
         /\ enterPhase(s, ph).phaseTimer = ph
         /\ enterPhase(s, ph).timers = (s.timers \ {s.phaseTimer}) \cup {ph}
         /\ enterPhase(s, ph).votes = IF ph = "day_main" THEN NoBallots ELSE s.votes
         /\ enterPhase(s, ph).night_state = s.night_state
         /\ enterPhase(s, ph).witchPotions = s.witchPotions
         /\ enterPhase(s, ph).winner = s.winner
BY DEF enterPhase, clearPhaseTimer, EngineState, NightState, Ballots, PlayerOrNone,
       NoBallots, Phases, TimedPhases, NightPhases

LEMMA EndGameFields ==
  ASSUME NEW s \in EngineState, NEW team \in {"village", "wolves"}
  PROVE  /\ endGame(s, team) \in EngineState
         /\ endGame(s, team).alive = s.alive
         /\ endGame(s, team).phase = "ended"
         /\ endGame(s, team).phaseTimer = "none"
         /\ endGame(s, team).timers = s.timers \ {s.phaseTimer}
         /\ endGame(s, team).winner = team
         /\ endGame(s, team).night_state = s.night_state
         /\ endGame(s, team).witchPotions = s.witchPotions
BY DEF endGame, clearPhaseTimer, EngineState, Phases

\* The verdict depends on who is alive and on nothing else.
LEMMA VerdictOfTheLiving ==
  ASSUME NEW s, NEW t, s.alive = t.alive
  PROVE  checkWinner(s) = checkWinner(t) /\ \A r : AliveAs(s, r) = AliveAs(t, r)
BY DEF checkWinner, AliveAs

LEMMA VerdictType ==
  ASSUME NEW s
  PROVE  checkWinner(s) \in {"none", "village", "wolves"}
BY DEF checkWinner

\* The recount names a player some ballot names, or nobody.
LEMMA RecountType ==
  ASSUME NEW ballots
  PROVE  recomputeWolfTarget(ballots) \in Named(ballots) \cup {None}
BY DEF recomputeWolfTarget, Top

LEMMA EmptyRecount == recomputeWolfTarget(NoBallots) = None
<1>1. Named(NoBallots) = {}
  BY PlayersAssumption DEF Named, NoBallots
<1> QED
  BY <1>1 DEF recomputeWolfTarget, Top

LEMMA EnterPhaseGood ==
  ASSUME NEW s, Running(s), checkWinner(s) = "none", NEW ph \in TimedPhases,
         ph \in NightPhases =>
           /\ PackInOrder(s)
           /\ phaseHasActor(s, ph)
           /\ \E r \in 0..3 : r < Rank[ph] /\ Unplayed(s.night_state, r)
  PROVE  Good(enterPhase(s, ph))
<1> DEFINE t == enterPhase(s, ph)
<1>1. /\ t \in EngineState /\ t.alive = s.alive /\ t.phase = ph /\ t.phaseTimer = ph
      /\ t.timers = {ph} /\ t.night_state = s.night_state /\ t.winner = "none"
      /\ t.witchPotions = s.witchPotions
      /\ ph = "day_main" => t.votes = NoBallots
  BY EnterPhaseFields DEF Running
<1>2. checkWinner(t) = "none" /\ \A r : AliveAs(t, r) = AliveAs(s, r)
  BY <1>1, VerdictOfTheLiving
<1> HIDE DEF t
<1>3. Timed(t) /\ Settled(t)
  BY <1>1, <1>2 DEF Timed, Settled, TimedPhases, NightPhases
<1>4. Awaiting(t)
  <2>1. CASE ph \in NightPhases
    <3>1. phaseHasActor(t, ph)
      BY <1>1, <1>2, <2>1 DEF phaseHasActor
    <3>2. ~PhaseDone(t)
      BY <1>1, <1>2, <2>1, PlayersAssumption
      DEF PhaseDone, Unplayed, allWolvesDecided, NoBallots, Rank, NightPhases, AliveAs, EngineState
    <3> QED BY <1>1, <2>1, <3>1, <3>2 DEF Awaiting, NightPhases
  <2>2. CASE ph = "day_main"
    <3>1. ~allSkipped(t)
      BY <1>1, <2>2, PlayersAssumption DEF allSkipped, NoBallots, EngineState
    <3> QED BY <1>1, <2>2, <3>1 DEF Awaiting, NightPhases
  <2> QED BY <1>1, <2>1, <2>2 DEF Awaiting
<1>5. Balloted(t)
  <2>1. CASE ph \in NightPhases
    <3>1. PackInOrder(t)
      BY <1>1, <1>2, <2>1 DEF PackInOrder
    <3>2. Unplayed(t.night_state, Rank[ph])
      BY <1>1, <2>1 DEF Unplayed, Rank, NightPhases
    <3> QED BY <1>1, <2>1, <3>1, <3>2 DEF Balloted, NightPhases
  <2>2. CASE ph = "day_main"
    BY <1>1, <2>2, PlayersAssumption DEF Balloted, NoBallots, NightPhases
  <2> QED BY <1>1, <2>1, <2>2 DEF Balloted
<1> QED BY <1>1, <1>3, <1>4, <1>5 DEF Good, TimedPhases, NightPhases, t

LEMMA EndOrGood ==
  ASSUME NEW s, Running(s), NEW next, checkWinner(s) = "none" => Good(next)
  PROVE  Good(EndOr(s, next))
<1>1. CASE checkWinner(s) = "none"
  BY <1>1 DEF EndOr
<1>2. CASE checkWinner(s) # "none"
  <2> DEFINE t == endGame(s, checkWinner(s))
  <2>1. checkWinner(s) \in {"village", "wolves"}
    BY <1>2, VerdictType
  <2>2. /\ t \in EngineState /\ t.alive = s.alive /\ t.phase = "ended"
        /\ t.phaseTimer = "none" /\ t.timers = {} /\ t.winner = checkWinner(s)
    BY <2>1, EndGameFields DEF Running
  <2>3. checkWinner(t) = checkWinner(s)
    BY <2>2, VerdictOfTheLiving
  <2> HIDE DEF t
  <2>4. Good(t)
    BY <1>2, <2>2, <2>3
    DEF Good, Timed, Settled, Awaiting, Balloted, TimedPhases, NightPhases
  <2> QED BY <1>2, <2>4 DEF EndOr, t
<1> QED BY <1>1, <1>2

LEMMA DawnGood ==
  ASSUME NEW s, Running(s)
  PROVE  Good(resolveNightAndAdvanceToDay(s))
<1> DEFINE dawn == [s EXCEPT !.alive = @ \ computeNightDeaths(s)]
<1>1. Running(dawn)
  BY DEF Running, EngineState
<1>2. checkWinner(dawn) = "none" => Good(enterPhase(dawn, "day_reveal"))
  BY <1>1, EnterPhaseGood DEF TimedPhases, NightPhases
<1> QED
  BY <1>1, <1>2, EndOrGood DEF resolveNightAndAdvanceToDay

\* Of the phases still to be played one comes first.
LEMMA FirstAwake ==
  ASSUME NEW awake \in SUBSET NightPhases, awake # {}
  PROVE  (CHOOSE ph \in awake : \A q \in awake : Rank[ph] <= Rank[q]) \in awake
<1>1. \E ph \in awake : \A q \in awake : Rank[ph] <= Rank[q]
  <2>1. CASE "night_guard" \in awake
    BY <2>1 DEF NightPhases, Rank
  <2>2. CASE "night_guard" \notin awake /\ "night_wolves" \in awake
    BY <2>2 DEF NightPhases, Rank
  <2>3. CASE "night_guard" \notin awake /\ "night_wolves" \notin awake
    <3>1. CASE "night_seer" \in awake
      BY <2>3, <3>1 DEF NightPhases, Rank
    <3>2. CASE "night_seer" \notin awake
      <4>1. \A q \in awake : q = "night_witch"
        BY <2>3, <3>2 DEF NightPhases
      <4> QED BY <4>1 DEF Rank
    <3> QED BY <3>1, <3>2
  <2> QED BY <2>1, <2>2, <2>3
<1> QED
  BY <1>1

LEMMA WakeAfterGood ==
  ASSUME NEW s, Ready(s), NEW r \in 0..4, Unplayed(s.night_state, r)
  PROVE  Good(WakeAfter(s, r))
<1> DEFINE awake == {ph \in NightPhases : Rank[ph] > r /\ phaseHasActor(s, ph)}
           first == CHOOSE ph \in awake : \A q \in awake : Rank[ph] <= Rank[q]
<1>1. CASE awake = {}
  BY <1>1, DawnGood DEF WakeAfter, Ready
<1>2. CASE awake # {}
  <2>1. awake \in SUBSET NightPhases
    OBVIOUS
  <2> HIDE DEF awake
  <2>2. first \in awake
    BY <1>2, <2>1, FirstAwake
  <2> USE DEF awake
  <2> HIDE DEF first
  <2>3. r \in 0..3 /\ r < Rank[first]
    BY <2>2 DEF NightPhases, Rank
  <2>4. Good(enterPhase(s, first))
    BY <2>2, <2>3, EnterPhaseGood DEF Ready, TimedPhases
  <2> QED BY <1>2, <2>4 DEF WakeAfter, first
<1> QED BY <1>1, <1>2

LEMMA AdvanceGood ==
  ASSUME NEW s, Ready(s), s.phase \in NightPhases \cup {"lobby"},
         Unplayed(s.night_state, Rank[s.phase])
  PROVE  Good(advanceToNextNightPhase(s))
<1>1. Rank[s.phase] \in 0..4
  BY DEF Rank, NightPhases
<1> QED
  BY <1>1, WakeAfterGood DEF advanceToNextNightPhase

LEMMA DuskGood ==
  ASSUME NEW s, Running(s)
  PROVE  Good(resolveDayVoteAndAdvanceToNight(s))
<1> DEFINE dusk == [s EXCEPT !.alive = @ \ Top(s.votes)]
           next == [dusk EXCEPT !.night_state = freshNightState(@.guardProtectedId)]
<1>1. Running(dusk)
  BY DEF Running, EngineState
<1>2. /\ next \in EngineState /\ next.alive = dusk.alive /\ next.winner = "none"
      /\ next.timers = dusk.timers /\ next.phaseTimer = dusk.phaseTimer
      /\ next.night_state = freshNightState(dusk.night_state.guardProtectedId)
  BY <1>1 DEF Running, EngineState, freshNightState, NightState, NoBallots, Ballots, PlayerOrNone
<1> HIDE DEF next, dusk
<1>3. PackInOrder(next) /\ Unplayed(next.night_state, 0)
  BY <1>2, EmptyRecount, PlayersAssumption DEF PackInOrder, Unplayed, freshNightState, NoBallots
<1>4. ASSUME checkWinner(dusk) = "none" PROVE Good(WakeAfter(next, 0))
  <2>1. checkWinner(next) = "none"
    BY <1>2, <1>4, VerdictOfTheLiving
  <2>2. Ready(next)
    BY <1>1, <1>2, <1>3, <2>1 DEF Ready, Running
  <2> QED BY <1>3, <2>2, WakeAfterGood
<1> QED
  BY <1>1, <1>4, EndOrGood DEF resolveDayVoteAndAdvanceToNight, next, dusk

LEMMA TryAdvanceGood ==
  ASSUME NEW s, Ready(s), Timed(s), s.phase \in NightPhases, Unplayed(s.night_state, Rank[s.phase])
  PROVE  Good(tryAdvancePhase(s))
<1>1. CASE ~phaseHasActor(s, s.phase) \/ PhaseDone(s)
  BY <1>1, AdvanceGood DEF tryAdvancePhase
<1>2. CASE phaseHasActor(s, s.phase) /\ ~PhaseDone(s)
  BY <1>2 DEF tryAdvancePhase, Good, Ready, Running, Settled, Awaiting, Balloted, NightPhases
<1> QED BY <1>1, <1>2

LEMMA TryAutoSkipGood ==
  ASSUME NEW s, Running(s), Timed(s), checkWinner(s) = "none", s.phase = "day_main",
         \A p \in Players \ s.alive : s.votes[p] = Undecided
  PROVE  Good(tryAutoSkipDayVote(s))
<1>1. CASE allSkipped(s)
  <2>1. Running(clearPhaseTimer(s))
    BY DEF Running, clearPhaseTimer, EngineState
  <2> QED BY <1>1, <2>1, DuskGood DEF tryAutoSkipDayVote
<1>2. CASE ~allSkipped(s)
  BY <1>2 DEF tryAutoSkipDayVote, Good, Running, Settled, Awaiting, Balloted, NightPhases
<1> QED BY <1>1, <1>2
-------------------------------------------------------------------------------
LEMMA BecomeGood ==
  ASSUME IInv, live, NEW s, Good(s), Become(s)
  PROVE  IInv'
<1>1. state' = s /\ role' = role /\ live' = live
  BY DEF Become, state, Good, EngineState
<1>2. TypeOK' /\ (role \in Deals)' /\ phase' # "lobby"
  BY <1>1 DEF TypeOK, Good, state, IInv
<1>3. Settled(state)'
  BY <1>1 DEF Good, Settled, checkWinner, AliveAs
<1>4. Awaiting(state)'
  BY <1>1 DEF Good, Awaiting, phaseHasActor, PhaseDone, allWolvesDecided, allSkipped, AliveAs
<1>5. Balloted(state)'
  BY <1>1 DEF Good, Balloted, PackInOrder, Unplayed, AliveAs
<1>6. Timed(state)'
  BY <1>1 DEF Good, Timed
<1> QED BY <1>1, <1>2, <1>3, <1>4, <1>5, <1>6 DEF IInv

\* What a handler may rely on while a game is being played.
LEMMA InPlay ==
  ASSUME IInv, live, phase \in TimedPhases
  PROVE  /\ state \in EngineState /\ Running(state) /\ Timed(state)
         /\ checkWinner(state) = "none" /\ role \in [Players -> Roles]
         /\ phase \in NightPhases => PackInOrder(state) /\ Unplayed(night_state, Rank[phase])
         /\ phase = "day_main" => \A p \in Players \ alive : votes[p] = Undecided
BY DEF IInv, TypeOK, Running, Timed, Settled, Balloted, state

\* A night handler that leaves the living, the phase and the timer alone and
\* keeps the pack's ballots in order ends well.
LEMMA NightMove ==
  ASSUME IInv, live, phase \in NightPhases, NEW t \in EngineState,
         t.alive = alive, t.phase = phase, t.timers = timers,
         t.phaseTimer = phaseTimer, t.winner = winner,
         PackInOrder(t), Unplayed(t.night_state, Rank[phase])
  PROVE  Good(tryAdvancePhase(t))
<1>1. /\ Running(state) /\ Timed(state) /\ checkWinner(state) = "none"
  BY InPlay DEF TimedPhases
<1>2. checkWinner(t) = "none"
  BY <1>1, VerdictOfTheLiving DEF state
<1>3. Ready(t) /\ Timed(t)
  BY <1>1, <1>2 DEF Ready, Running, Timed, state
<1> QED
  BY <1>3, TryAdvanceGood

\* The same for a handler that does not touch the pack's ballots: n is the
\* night's record it leaves.
LEMMA OtherNightMove ==
  ASSUME IInv, live, phase \in NightPhases, NEW n \in NightState, NEW t \in EngineState,
         t.alive = alive, t.phase = phase, t.timers = timers,
         t.phaseTimer = phaseTimer, t.winner = winner, t.night_state = n,
         n.wolfVotes = night_state.wolfVotes,
         n.wolfKillTargetId = night_state.wolfKillTargetId,
         Unplayed(n, Rank[phase])
  PROVE  Good(tryAdvancePhase(t))
<1>1. PackInOrder(state)
  BY InPlay DEF TimedPhases
<1>2. PackInOrder(t)
  BY <1>1 DEF PackInOrder, AliveAs, state
<1> QED
  BY <1>2, NightMove

LEMMA GuardProtectInv ==
  ASSUME IInv, NEW p \in Players, NEW target \in Players, GuardProtect(p, target)
  PROVE  IInv'
<1> DEFINE n == [night_state EXCEPT !.guardProtectedId = target]
           t == [state EXCEPT !.night_state.guardProtectedId = target]
<1>1. /\ live /\ phase = "night_guard" /\ state \in EngineState
      /\ Unplayed(night_state, 1)
  BY InPlay DEF GuardProtect, CanProtect, MayAct, Actor, NightPhases, TimedPhases, Rank, state
<1>2. /\ night_state \in NightState
  BY <1>1 DEF EngineState, state
<1>3. /\ n \in NightState
      /\ n.wolfVotes = night_state.wolfVotes
      /\ n.wolfKillTargetId = night_state.wolfKillTargetId
      /\ n.seerChecked = night_state.seerChecked
      /\ n.witchActed = night_state.witchActed
  BY <1>2 DEF NightState, PlayerOrNone
<1>4. t = [state EXCEPT !.night_state = n]
  BY <1>1 DEF EngineState, state
<1>5. Good(tryAdvancePhase(t))
  <2> HIDE DEF n
  <2>1. /\ t \in EngineState /\ t.alive = alive /\ t.phase = phase /\ t.timers = timers
        /\ t.phaseTimer = phaseTimer /\ t.winner = winner /\ t.night_state = n
    BY <1>1, <1>3, <1>4 DEF EngineState, state
  <2> HIDE DEF t
  <2>2. Unplayed(n, 1)
    BY <1>1, <1>3 DEF Unplayed
  <2> QED BY <1>1, <1>3, <2>1, <2>2, OtherNightMove DEF NightPhases, Rank
<1> QED
  BY <1>1, <1>5, BecomeGood DEF GuardProtect

LEMMA SeerCheckInv ==
  ASSUME IInv, NEW p \in Players, NEW target \in Players, SeerCheck(p, target)
  PROVE  IInv'
<1> DEFINE n == [night_state EXCEPT !.seerChecked = TRUE]
           t == [state EXCEPT !.night_state.seerChecked = TRUE]
<1>1. /\ live /\ phase = "night_seer" /\ state \in EngineState
      /\ Unplayed(night_state, 3)
  BY InPlay DEF SeerCheck, CanCheck, MayAct, Actor, NightPhases, TimedPhases, Rank, state
<1>2. /\ night_state \in NightState
  BY <1>1 DEF EngineState, state
<1>3. /\ n \in NightState
      /\ n.wolfVotes = night_state.wolfVotes
      /\ n.wolfKillTargetId = night_state.wolfKillTargetId
      /\ n.witchActed = night_state.witchActed
  BY <1>2 DEF NightState, PlayerOrNone
<1>4. t = [state EXCEPT !.night_state = n]
  BY <1>1 DEF EngineState, state
<1>5. Good(tryAdvancePhase(t))
  <2> HIDE DEF n
  <2>1. /\ t \in EngineState /\ t.alive = alive /\ t.phase = phase /\ t.timers = timers
        /\ t.phaseTimer = phaseTimer /\ t.winner = winner /\ t.night_state = n
    BY <1>1, <1>3, <1>4 DEF EngineState, state
  <2> HIDE DEF t
  <2>2. Unplayed(n, 3)
    BY <1>1, <1>3 DEF Unplayed
  <2> QED BY <1>1, <1>3, <2>1, <2>2, OtherNightMove DEF NightPhases, Rank
<1> QED
  BY <1>1, <1>5, BecomeGood DEF SeerCheck

LEMMA WitchHealInv ==
  ASSUME IInv, NEW p \in Players, WitchHeal(p)
  PROVE  IInv'
<1> DEFINE n == [night_state EXCEPT !.witchHealUsed = TRUE, !.witchActed = TRUE]
           b == [witchPotions EXCEPT !.heal = FALSE]
           t == [state EXCEPT !.night_state.witchHealUsed = TRUE,
                              !.night_state.witchActed = TRUE,
                              !.witchPotions.heal = FALSE]
<1>1. /\ live /\ phase = "night_witch" /\ state \in EngineState
      /\ Unplayed(night_state, 4)
  BY InPlay DEF WitchHeal, CanHeal, MayAct, Actor, NightPhases, TimedPhases, Rank, state
<1>2. /\ night_state \in NightState
      /\ witchPotions \in [heal : BOOLEAN, poison : BOOLEAN]
  BY <1>1 DEF EngineState, state
<1>3. /\ n \in NightState /\ b \in [heal : BOOLEAN, poison : BOOLEAN]
      /\ n.wolfVotes = night_state.wolfVotes
      /\ n.wolfKillTargetId = night_state.wolfKillTargetId
  BY <1>2 DEF NightState, PlayerOrNone
<1>4. t = [state EXCEPT !.night_state = n, !.witchPotions = b]
  BY <1>1 DEF EngineState, state
<1>5. Good(tryAdvancePhase(t))
  <2> HIDE DEF n, b
  <2>1. /\ t \in EngineState /\ t.alive = alive /\ t.phase = phase /\ t.timers = timers
        /\ t.phaseTimer = phaseTimer /\ t.winner = winner /\ t.night_state = n
    BY <1>1, <1>3, <1>4 DEF EngineState, state
  <2> HIDE DEF t
  <2>2. Unplayed(n, 4)
    BY <1>1, <1>3 DEF Unplayed
  <2> QED BY <1>1, <1>3, <2>1, <2>2, OtherNightMove DEF NightPhases, Rank
<1> QED
  BY <1>1, <1>5, BecomeGood DEF WitchHeal

LEMMA WitchPoisonInv ==
  ASSUME IInv, NEW p \in Players, NEW target \in Players, WitchPoison(p, target)
  PROVE  IInv'
<1> DEFINE n == [night_state EXCEPT !.witchPoisonTargetId = target, !.witchActed = TRUE]
           b == [witchPotions EXCEPT !.poison = FALSE]
           t == [state EXCEPT !.night_state.witchPoisonTargetId = target,
                              !.night_state.witchActed = TRUE,
                              !.witchPotions.poison = FALSE]
<1>1. /\ live /\ phase = "night_witch" /\ state \in EngineState
      /\ Unplayed(night_state, 4)
  BY InPlay DEF WitchPoison, CanPoison, MayAct, Actor, NightPhases, TimedPhases, Rank, state
<1>2. /\ night_state \in NightState
      /\ witchPotions \in [heal : BOOLEAN, poison : BOOLEAN]
  BY <1>1 DEF EngineState, state
<1>3. /\ n \in NightState /\ b \in [heal : BOOLEAN, poison : BOOLEAN]
      /\ n.wolfVotes = night_state.wolfVotes
      /\ n.wolfKillTargetId = night_state.wolfKillTargetId
  BY <1>2 DEF NightState, PlayerOrNone
<1>4. t = [state EXCEPT !.night_state = n, !.witchPotions = b]
  BY <1>1 DEF EngineState, state
<1>5. Good(tryAdvancePhase(t))
  <2> HIDE DEF n, b
  <2>1. /\ t \in EngineState /\ t.alive = alive /\ t.phase = phase /\ t.timers = timers
        /\ t.phaseTimer = phaseTimer /\ t.winner = winner /\ t.night_state = n
    BY <1>1, <1>3, <1>4 DEF EngineState, state
  <2> HIDE DEF t
  <2>2. Unplayed(n, 4)
    BY <1>1, <1>3 DEF Unplayed
  <2> QED BY <1>1, <1>3, <2>1, <2>2, OtherNightMove DEF NightPhases, Rank
<1> QED
  BY <1>1, <1>5, BecomeGood DEF WitchPoison

LEMMA WitchPassInv ==
  ASSUME IInv, NEW p \in Players, WitchPass(p)
  PROVE  IInv'
<1> DEFINE n == [night_state EXCEPT !.witchActed = TRUE]
           t == [state EXCEPT !.night_state.witchActed = TRUE]
<1>1. /\ live /\ phase = "night_witch" /\ state \in EngineState
      /\ Unplayed(night_state, 4)
  BY InPlay DEF WitchPass, MayAct, Actor, NightPhases, TimedPhases, Rank, state
<1>2. /\ night_state \in NightState
  BY <1>1 DEF EngineState, state
<1>3. /\ n \in NightState
      /\ n.wolfVotes = night_state.wolfVotes
      /\ n.wolfKillTargetId = night_state.wolfKillTargetId
  BY <1>2 DEF NightState, PlayerOrNone
<1>4. t = [state EXCEPT !.night_state = n]
  BY <1>1 DEF EngineState, state
<1>5. Good(tryAdvancePhase(t))
  <2> HIDE DEF n
  <2>1. /\ t \in EngineState /\ t.alive = alive /\ t.phase = phase /\ t.timers = timers
        /\ t.phaseTimer = phaseTimer /\ t.winner = winner /\ t.night_state = n
    BY <1>1, <1>3, <1>4 DEF EngineState, state
  <2> HIDE DEF t
  <2>2. Unplayed(n, 4)
    BY <1>1, <1>3 DEF Unplayed
  <2> QED BY <1>1, <1>3, <2>1, <2>2, OtherNightMove DEF NightPhases, Rank
<1> QED
  BY <1>1, <1>5, BecomeGood DEF WitchPass

\* A ballot of a living wolf for an outsider, or for nobody.
LEMMA CastWolfVoteInv ==
  ASSUME IInv, NEW p \in Players, MayAct(p, "night_wolves"), NEW choice \in PlayerOrNone,
         choice \in Players => role[choice] # "werewolf", CastWolfVote(p, choice)
  PROVE  IInv'
<1> DEFINE ballots == [night_state.wolfVotes EXCEPT ![p] = choice]
           t == [state EXCEPT !.night_state.wolfVotes = ballots,
                              !.night_state.wolfKillTargetId = recomputeWolfTarget(ballots)]
<1>1. /\ live /\ phase = "night_wolves" /\ state \in EngineState /\ Unplayed(night_state, 2)
      /\ PackInOrder(state) /\ p \in AliveAs(state, "werewolf")
  BY InPlay DEF MayAct, Actor, NightPhases, TimedPhases, Rank, AliveAs, state
<1>2. ballots \in Ballots
  BY <1>1 DEF Ballots, PlayerOrNone, EngineState, NightState, state
<1>3. recomputeWolfTarget(ballots) \in PlayerOrNone
  BY RecountType DEF Named, PlayerOrNone
<1>4. /\ t \in EngineState /\ t.alive = alive /\ t.phase = phase /\ t.timers = timers
      /\ t.phaseTimer = phaseTimer /\ t.winner = winner
      /\ t.night_state.wolfVotes = ballots
      /\ t.night_state.wolfKillTargetId = recomputeWolfTarget(ballots)
      /\ Unplayed(t.night_state, 2)
  <2> DEFINE n == [night_state EXCEPT !.wolfVotes = ballots,
                                      !.wolfKillTargetId = recomputeWolfTarget(ballots)]
  <2>1. night_state \in NightState
    BY <1>1 DEF EngineState, state
  <2> HIDE DEF ballots
  <2>2. t = [state EXCEPT !.night_state = n]
    BY <1>1 DEF EngineState, state
  <2>3. /\ n \in NightState /\ n.wolfVotes = ballots
        /\ n.wolfKillTargetId = recomputeWolfTarget(ballots)
        /\ n.seerChecked = night_state.seerChecked
        /\ n.witchActed = night_state.witchActed
    BY <1>2, <1>3, <2>1 DEF NightState
  <2> HIDE DEF n
  <2>4. Unplayed(n, 2)
    BY <1>1, <2>3 DEF Unplayed
  <2> QED BY <1>1, <2>2, <2>3, <2>4 DEF EngineState, state
<1>5. PackInOrder(t)
  <2>1. AliveAs(t, "werewolf") = AliveAs(state, "werewolf")
    BY <1>4 DEF AliveAs, state
  <2>2. \A q \in Players : ballots[q] = IF q = p THEN choice ELSE night_state.wolfVotes[q]
    BY <1>1 DEF EngineState, NightState, Ballots, state
  <2> HIDE DEF t, ballots
  <2>3. \A q \in Players : ballots[q] # Undecided => q \in AliveAs(t, "werewolf")
    BY <1>1, <2>1, <2>2 DEF PackInOrder, state
  <2>4. \A q \in Players : ballots[q] \in Players => role[ballots[q]] # "werewolf"
    BY <1>1, <2>2 DEF PackInOrder, state
  <2> QED BY <1>4, <2>3, <2>4 DEF PackInOrder
<1> HIDE DEF t, ballots
<1>6. Good(tryAdvancePhase(t))
  BY <1>1, <1>4, <1>5, NightMove DEF NightPhases, Rank
\* With the pack incomplete tryAdvancePhase would change nothing either.
<1>7. ~allWolvesDecided(t) => tryAdvancePhase(t) = t
  <2>1. AliveAs(t, "werewolf") # {}
    BY <1>1, <1>4 DEF AliveAs, state
  <2> QED BY <1>1, <1>4, <2>1 DEF tryAdvancePhase, phaseHasActor, PhaseDone, Actor
<1>8. Become(IF allWolvesDecided(t) THEN tryAdvancePhase(t) ELSE t)
  BY DEF CastWolfVote, t, ballots
<1>9. Become(tryAdvancePhase(t))
  BY <1>7, <1>8
<1> QED
  BY <1>1, <1>6, <1>9, BecomeGood

LEMMA SubmitVoteInv ==
  ASSUME IInv, NEW voter \in Players, NEW choice \in PlayerOrNone, submitVote(voter, choice)
  PROVE  IInv'
<1> DEFINE t == [state EXCEPT !.votes[voter] = choice]
<1>1. /\ live /\ phase = "day_main" /\ voter \in alive /\ state \in EngineState
      /\ Running(state) /\ Timed(state) /\ checkWinner(state) = "none"
      /\ \A p \in Players \ alive : votes[p] = Undecided
  BY InPlay DEF submitVote, CanVote, TimedPhases
<1>2. /\ t \in EngineState /\ t.alive = alive /\ t.phase = phase /\ t.timers = timers
      /\ t.phaseTimer = phaseTimer /\ t.winner = winner
      /\ \A p \in Players \ alive : t.votes[p] = votes[p]
  BY <1>1 DEF EngineState, Ballots, PlayerOrNone, state
<1>3. checkWinner(t) = "none"
  BY <1>1, <1>2, VerdictOfTheLiving DEF state
<1>4. Good(tryAutoSkipDayVote(t))
  <2> HIDE DEF t
  <2>1. Running(t) /\ Timed(t)
    BY <1>1, <1>2 DEF Running, Timed, state
  <2> QED BY <1>1, <1>2, <1>3, <2>1, TryAutoSkipGood
<1> QED
  BY <1>1, <1>4, BecomeGood DEF submitVote

LEMMA PlayerLeftInv ==
  ASSUME IInv, NEW p \in Players, handlePlayerLeft(p)
  PROVE  IInv'
<1> DEFINE ballots == [night_state.wolfVotes EXCEPT ![p] = Undecided]
           n == [night_state EXCEPT !.wolfVotes = ballots,
                                    !.wolfKillTargetId = recomputeWolfTarget(ballots)]
           gone == [state EXCEPT !.alive = @ \ {p},
                                 !.votes[p] = Undecided,
                                 !.night_state.wolfVotes = ballots,
                                 !.night_state.wolfKillTargetId = recomputeWolfTarget(ballots)]
           next == IF phase = "day_main" THEN tryAutoSkipDayVote(gone)
                   ELSE tryAdvancePhase(gone)
<1>1. /\ live /\ phase \in TimedPhases /\ p \in alive /\ state \in EngineState
      /\ Running(state) /\ Timed(state) /\ role \in [Players -> Roles]
      /\ phase \in NightPhases => PackInOrder(state) /\ Unplayed(night_state, Rank[phase])
      /\ phase = "day_main" => \A q \in Players \ alive : votes[q] = Undecided
  <2>1. live /\ p \in alive /\ phase \in TimedPhases
    BY DEF handlePlayerLeft, IInv, TypeOK, EngineState, state, Phases
  <2> QED BY <2>1, InPlay DEF state
<1>2. night_state \in NightState /\ night_state.wolfVotes \in Ballots /\ votes \in Ballots
  BY <1>1 DEF EngineState, NightState, state
<1>3. /\ ballots \in Ballots
      /\ ballots[p] = Undecided
      /\ \A q \in Players \ {p} : ballots[q] = night_state.wolfVotes[q]
  BY <1>2 DEF Ballots
<1>4. recomputeWolfTarget(ballots) \in PlayerOrNone
  BY RecountType DEF Named, PlayerOrNone
<1>5. gone = [state EXCEPT !.alive = alive \ {p}, !.votes = [votes EXCEPT ![p] = Undecided],
                           !.night_state = n]
  <2> HIDE DEF ballots
  <2> QED BY <1>1 DEF EngineState, state
<1> HIDE DEF ballots
<1>6. /\ n \in NightState /\ n.wolfVotes = ballots
      /\ n.wolfKillTargetId = recomputeWolfTarget(ballots)
      /\ n.guardProtectedId = night_state.guardProtectedId
      /\ n.seerChecked = night_state.seerChecked
      /\ n.witchActed = night_state.witchActed
  BY <1>2, <1>3, <1>4 DEF NightState
<1> HIDE DEF n
<1>7. /\ gone \in EngineState /\ gone.alive = alive \ {p} /\ gone.phase = phase
      /\ gone.timers = timers /\ gone.phaseTimer = phaseTimer /\ gone.winner = winner
      /\ gone.votes = [votes EXCEPT ![p] = Undecided] /\ gone.night_state = n
  BY <1>1, <1>2, <1>5, <1>6 DEF EngineState, Ballots, state
<1> HIDE DEF gone
<1>8. Running(gone) /\ Timed(gone)
  BY <1>1, <1>7 DEF Running, Timed, state
<1>9. ASSUME checkWinner(gone) = "none" PROVE Good(next)
  <2>1. CASE phase = "day_main"
    <3>1. \A q \in Players \ gone.alive : gone.votes[q] = Undecided
      BY <1>1, <1>2, <1>7, <2>1 DEF Ballots
    <3> QED BY <1>7, <1>8, <1>9, <2>1, <3>1, TryAutoSkipGood
  <2>2. CASE phase = "day_reveal"
    <3>1. next = gone
      BY <1>7, <2>2 DEF tryAdvancePhase, NightPhases
    <3> QED
      BY <1>7, <1>8, <1>9, <2>2, <3>1
      DEF Good, Running, Settled, Awaiting, Balloted, NightPhases
  <2>3. CASE phase \in NightPhases
    <3>1. PackInOrder(gone)
      <4>1. \A q \in Players : q # p /\ q \in AliveAs(state, "werewolf") => q \in AliveAs(gone, "werewolf")
        BY <1>7 DEF AliveAs, state
      <4>2. \A q \in Players : ballots[q] # Undecided => q \in AliveAs(gone, "werewolf")
        BY <1>1, <1>3, <2>3, <4>1 DEF PackInOrder, state
      <4>3. \A q \in Players : ballots[q] \in Players => role[ballots[q]] # "werewolf"
        BY <1>1, <1>3, <2>3, PlayersAssumption DEF PackInOrder, state
      <4> QED BY <1>6, <1>7, <4>2, <4>3 DEF PackInOrder
    <3>2. Unplayed(n, Rank[phase])
      <4>1. Rank[phase] < 2 => ballots = NoBallots
        <5>1. ASSUME Rank[phase] < 2 PROVE \A q \in Players : ballots[q] = Undecided
          <6>1. night_state.wolfVotes = NoBallots
            BY <1>1, <2>3, <5>1 DEF Unplayed
          <6> QED BY <1>3, <6>1 DEF NoBallots
        <5> QED BY <1>3, <5>1 DEF NoBallots, Ballots
      <4> QED BY <1>1, <1>6, <2>3, <4>1 DEF Unplayed
    <3>3. Ready(gone)
      BY <1>8, <1>9, <3>1 DEF Ready
    <3>4. Good(tryAdvancePhase(gone))
      BY <1>7, <1>8, <2>3, <3>2, <3>3, TryAdvanceGood
    <3> QED BY <2>3, <3>4 DEF NightPhases
  <2> QED BY <1>1, <2>1, <2>2, <2>3 DEF TimedPhases
<1> HIDE DEF next
<1>10. Good(EndOr(gone, next))
  BY <1>8, <1>9, EndOrGood
<1>11. Become(EndOr(gone, next))
  BY DEF handlePlayerLeft, gone, next, ballots
<1> QED
  BY <1>1, <1>10, <1>11, BecomeGood

LEMMA PhaseTimeoutInv ==
  ASSUME IInv, NEW t, PhaseTimeout(t)
  PROVE  IInv'
<1> DEFINE s == [state EXCEPT !.timers = @ \ {t}, !.phaseTimer = "none"]
<1>1. live /\ phase \in TimedPhases /\ timers = {phase} /\ t = phase
  BY DEF PhaseTimeout, IInv, Timed, state
<1>2. /\ state \in EngineState /\ Running(state) /\ checkWinner(state) = "none"
      /\ phase \in NightPhases => PackInOrder(state) /\ Unplayed(night_state, Rank[phase])
  BY <1>1, InPlay DEF state
<1>3. /\ s \in EngineState /\ s.alive = alive /\ s.phase = phase /\ s.timers = {}
      /\ s.winner = winner /\ s.night_state = night_state
  BY <1>1, <1>2 DEF EngineState, state
<1> HIDE DEF s
<1>4. Running(s) /\ checkWinner(s) = "none"
  BY <1>2, <1>3, VerdictOfTheLiving DEF Running, state
<1>5. Good(onPhaseTimeout(s))
  <2>1. CASE phase \in NightPhases
    <3>1. PackInOrder(s)
      BY <1>2, <1>3, <2>1 DEF PackInOrder, AliveAs, state
    <3> QED BY <1>2, <1>3, <1>4, <2>1, <3>1, AdvanceGood DEF Ready, onPhaseTimeout
  <2>2. CASE phase = "day_reveal"
    BY <1>3, <1>4, <2>2, EnterPhaseGood DEF onPhaseTimeout, NightPhases, TimedPhases
  <2>3. CASE phase = "day_main"
    BY <1>3, <1>4, <2>3, DuskGood DEF onPhaseTimeout, NightPhases
  <2> QED BY <1>1, <2>1, <2>2, <2>3 DEF TimedPhases
<1> QED
  BY <1>1, <1>5, BecomeGood DEF PhaseTimeout, s

\* start() finds a table of at least four whose deal is open.
LEMMA OpenTable ==
  ASSUME IInv, Start
  PROVE  /\ live /\ state.phase = "lobby" /\ state.night_state = freshNightState(None)
         /\ Running(state) /\ checkWinner(state) = "none" /\ role \in assignRoles(Players)
<1>1. /\ live /\ state.phase = "lobby" /\ state.alive = Players /\ state \in EngineState
      /\ state.night_state = freshNightState(None) /\ role \in assignRoles(Players)
      /\ Cardinality(Players) >= MIN_PLAYERS_TO_START /\ state.timers = {} /\ state.winner = "none"
  BY DealsAssumption DEF Start, IInv, TypeOK, Settled, Timed, TimedPhases, NightPhases, state
<1>2. checkWinner(state) = "none"
  <2> DEFINE wolves == {p \in Players : role[p] = "werewolf"}
  <2>1. /\ Cardinality(wolves) >= 1
        /\ Cardinality(wolves) < Cardinality(Players \ wolves)
    BY <1>1, DealIsOpen, PlayersAssumption
  <2>2. Cardinality(wolves) \in Nat /\ Cardinality(Players \ wolves) \in Nat
    BY PlayersAssumption, FS_Subset, FS_CardinalityType
  <2>3. AliveAs(state, "werewolf") = wolves
    BY <1>1 DEF AliveAs
  <2> HIDE DEF wolves
  <2> QED BY <1>1, <2>1, <2>2, <2>3 DEF checkWinner
<1> QED
  BY <1>1, <1>2 DEF Running

LEMMA StartInv ==
  ASSUME IInv, Start
  PROVE  IInv'
<1>1. /\ live /\ state.phase = "lobby" /\ state.night_state = freshNightState(None)
      /\ Running(state) /\ checkWinner(state) = "none"
  BY OpenTable
<1>2. PackInOrder(state) /\ Unplayed(state.night_state, 0)
  BY <1>1, EmptyRecount, PlayersAssumption DEF PackInOrder, Unplayed, freshNightState, NoBallots
<1>3. Good(advanceToNextNightPhase(state))
  BY <1>1, <1>2, AdvanceGood DEF Ready, Rank
<1> QED
  BY <1>1, <1>3, BecomeGood DEF Start

LEMMA DestroyInv ==
  ASSUME IInv, destroy
  PROVE  IInv'
<1>1. /\ live' = FALSE /\ timers' = {} /\ role' = role /\ alive' = alive /\ phase' = phase
      /\ phaseTimer' = phaseTimer /\ votes' = votes /\ night_state' = night_state
      /\ witchPotions' = witchPotions /\ winner' = winner /\ witchView' = witchView
  BY DEF destroy, IInv, Timed, state
<1>2. TypeOK'
  BY <1>1 DEF IInv, TypeOK, EngineState, state
<1>3. Settled(state)' /\ Awaiting(state)' /\ Balloted(state)'
  BY <1>1 DEF IInv, Settled, checkWinner, AliveAs, Awaiting, phaseHasActor, PhaseDone,
              allWolvesDecided, allSkipped, Balloted, PackInOrder, Unplayed, state
<1> QED
  BY <1>1, <1>2, <1>3 DEF IInv
-------------------------------------------------------------------------------
LEMMA InitInv == Init => IInv
<1> SUFFICES ASSUME Init PROVE IInv
  OBVIOUS
<1>1. TypeOK
  BY DealsAssumption
  DEF Init, TypeOK, EngineState, NightState, Ballots, PlayerOrNone, Phases, assignRoles,
      freshNightState, NoBallots, state
<1> QED
  BY <1>1
  DEF Init, IInv, Settled, Awaiting, Balloted, Timed, TimedPhases, NightPhases, state

LEMMA StutterInv ==
  ASSUME IInv, UNCHANGED vars
  PROVE  IInv'
BY DEF vars, IInv, TypeOK, Settled, checkWinner, AliveAs, Awaiting, phaseHasActor, PhaseDone,
       allWolvesDecided, allSkipped, Balloted, PackInOrder, Unplayed, Timed, state

LEMMA StepInv == IInv /\ [Next]_vars => IInv'
<1> SUFFICES ASSUME IInv, [Next]_vars PROVE IInv'
  OBVIOUS
<1>1. ASSUME NEW p \in Players, NEW t \in NightTargets, GuardProtect(p, t) PROVE IInv'
  BY <1>1, GuardProtectInv, InputsAssumption
<1>2. ASSUME NEW p \in Players, NEW t \in NightTargets, WolfKill(p, t) PROVE IInv'
  BY <1>2, CastWolfVoteInv, InputsAssumption DEF WolfKill, CanKill, PlayerOrNone
<1>3. ASSUME NEW p \in Players, NEW t \in NightTargets, SeerCheck(p, t) PROVE IInv'
  BY <1>3, SeerCheckInv, InputsAssumption
<1>4. ASSUME NEW p \in Players, NEW t \in NightTargets, WitchPoison(p, t) PROVE IInv'
  BY <1>4, WitchPoisonInv, InputsAssumption
<1>5. ASSUME NEW p \in Players, WolfSkip(p) PROVE IInv'
  BY <1>5, CastWolfVoteInv, PlayersAssumption DEF WolfSkip, PlayerOrNone
<1>6. ASSUME NEW p \in Players, WitchHeal(p) PROVE IInv'
  BY <1>6, WitchHealInv
<1>7. ASSUME NEW p \in Players, WitchPass(p) PROVE IInv'
  BY <1>7, WitchPassInv
<1>8. ASSUME NEW p \in Players, NEW t \in DayTargets \cup {None}, submitVote(p, t) PROVE IInv'
  BY <1>8, SubmitVoteInv, InputsAssumption DEF PlayerOrNone
<1>9. ASSUME NEW p \in Quitters, handlePlayerLeft(p) PROVE IInv'
  BY <1>9, PlayerLeftInv, InputsAssumption
<1>10. ASSUME NEW t \in TimedPhases, PhaseTimeout(t) PROVE IInv'
  BY <1>10, PhaseTimeoutInv
<1>11. CASE Start
  BY <1>11, StartInv
<1>12. CASE destroy
  BY <1>12, DestroyInv
<1>13. CASE UNCHANGED vars
  BY <1>13, StutterInv
<1> QED
  BY <1>1, <1>2, <1>3, <1>4, <1>5, <1>6, <1>7, <1>8, <1>9, <1>10, <1>11, <1>12, <1>13 DEF Next

\* The inductive invariant holds in every state of every behaviour of the engine.
THEOREM Invariance == Spec => []IInv
BY InitInv, StepInv, PTL DEF Spec

\* Every field keeps the type the source declares for it.
THEOREM TypeCorrect == Spec => []TypeOK
<1>1. IInv => TypeOK
  BY DEF IInv
<1> QED
  BY <1>1, Invariance, PTL

\* No timer leaks: a running game has exactly the timeout of its current phase
\* outstanding, and an idle, ended or destroyed one has none.
THEOREM NoTimerLeaks == Spec => []TimerGuardsPhase
<1>1. IInv => TimerGuardsPhase
  BY DEF IInv, Timed, TimerGuardsPhase, state
<1> QED
  BY <1>1, Invariance, PTL

\* The game runs while it is undecided and no longer, and its winner is the one
\* the survivors make.
THEOREM VerdictIsPrompt == Spec => []NoUnnoticedWin
<1>1. IInv => NoUnnoticedWin
  BY DEF IInv, Settled, NoUnnoticedWin, state
<1> QED
  BY <1>1, Invariance, PTL

\* No phase waits for somebody who is dead, gone or already done.
THEOREM NobodyWaitsInVain == Spec => []EveryPhaseAwaitsSomeone
<1>1. IInv => EveryPhaseAwaitsSomeone
  BY DEF IInv, Awaiting, EveryPhaseAwaitsSomeone, state
<1> QED
  BY <1>1, Invariance, PTL

\* Ballots are those of the living, and the victim on record is their recount.
THEOREM BallotsAreOfTheLiving == Spec => []OnlyTheLivingVote
<1>1. IInv => OnlyTheLivingVote
  <2> SUFFICES ASSUME IInv PROVE OnlyTheLivingVote
    OBVIOUS
  <2>1. CASE phase \in NightPhases
    <3>1. PackInOrder(state)
      BY <2>1 DEF IInv, Balloted, state
    <3>2. /\ \A p \in Players : night_state.wolfVotes[p] # Undecided => p \in AliveAs(state, "werewolf")
          /\ \A p \in Players : night_state.wolfVotes[p] \in Players => role[night_state.wolfVotes[p]] # "werewolf"
          /\ night_state.wolfKillTargetId = recomputeWolfTarget(night_state.wolfVotes)
      BY <3>1 DEF PackInOrder, state
    <3>3. night_state.wolfKillTargetId # None => role[night_state.wolfKillTargetId] # "werewolf"
      BY <3>2, RecountType DEF Named
    <3> QED BY <2>1, <3>2, <3>3 DEF OnlyTheLivingVote, NightPhases
  <2>2. CASE phase \notin NightPhases
    BY <2>2 DEF OnlyTheLivingVote, IInv, Balloted, state
  <2> QED BY <2>1, <2>2
<1> QED
  BY <1>1, Invariance, PTL
===============================================================================
