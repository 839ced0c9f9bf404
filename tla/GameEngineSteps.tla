--------------------------- MODULE GameEngineSteps ---------------------------
(***************************************************************************)
(* What a step of GameEngine may do, for every table: one lemma per method *)
(* of the phase machine, then one per handler.  The roles and the living   *)
(* come first; then every step is shown to be of one of eight kinds        *)
(* (EveryStep), from which the action properties of GameEngine follow, and *)
(* at the end that GameEngine implements the game of WerewolfGame.         *)
(***************************************************************************)
EXTENDS GameEngineProofs

\* t has the fields of s, the same or fewer living.
Fewer(s, t) == "alive" \in DOMAIN t /\ t.alive \subseteq s.alive

LEMMA FewerStill ==
  ASSUME NEW s, NEW t, NEW u, Fewer(s, t), Fewer(t, u)
  PROVE  Fewer(s, u)
BY DEF Fewer

LEMMA EnterPhaseFewer ==
  ASSUME NEW s, "alive" \in DOMAIN s, NEW ph
  PROVE  Fewer(s, enterPhase(s, ph))
<1> DEFINE t == clearPhaseTimer(s)
<1>1. "alive" \in DOMAIN t /\ t.alive = s.alive
  BY DEF clearPhaseTimer
<1> HIDE DEF t
<1>2. "alive" \in DOMAIN enterPhase(s, ph) /\ enterPhase(s, ph).alive = t.alive
  BY <1>1 DEF enterPhase, t
<1> QED
  BY <1>1, <1>2 DEF Fewer

LEMMA EndGameFewer ==
  ASSUME NEW s, "alive" \in DOMAIN s, NEW team
  PROVE  Fewer(s, endGame(s, team))
BY DEF endGame, clearPhaseTimer, Fewer

\* The living may die before the verdict.
LEMMA EndOrFewer ==
  ASSUME NEW s, "alive" \in DOMAIN s, NEW next, Fewer(s, next)
  PROVE  Fewer(s, EndOr(s, next))
BY EndGameFewer DEF EndOr

LEMMA DawnFewer ==
  ASSUME NEW s, "alive" \in DOMAIN s
  PROVE  Fewer(s, resolveNightAndAdvanceToDay(s))
<1> DEFINE dawn == [s EXCEPT !.alive = @ \ computeNightDeaths(s)]
<1>1. Fewer(s, dawn)
  BY DEF Fewer
<1> HIDE DEF dawn
<1>2. Fewer(dawn, EndOr(dawn, enterPhase(dawn, "day_reveal")))
  BY <1>1, EnterPhaseFewer, EndOrFewer DEF Fewer
<1>3. resolveNightAndAdvanceToDay(s) = EndOr(dawn, enterPhase(dawn, "day_reveal"))
  BY DEF resolveNightAndAdvanceToDay, dawn
<1> QED
  BY <1>1, <1>2, <1>3, FewerStill

LEMMA WakeAfterFewer ==
  ASSUME NEW s, "alive" \in DOMAIN s, NEW r
  PROVE  Fewer(s, WakeAfter(s, r))
BY DawnFewer, EnterPhaseFewer DEF WakeAfter

LEMMA AdvanceFewer ==
  ASSUME NEW s, "alive" \in DOMAIN s
  PROVE  Fewer(s, advanceToNextNightPhase(s)) /\ Fewer(s, tryAdvancePhase(s))
BY WakeAfterFewer DEF advanceToNextNightPhase, tryAdvancePhase, Fewer

LEMMA DuskFewer ==
  ASSUME NEW s, "alive" \in DOMAIN s
  PROVE  Fewer(s, resolveDayVoteAndAdvanceToNight(s))
<1> DEFINE dusk == [s EXCEPT !.alive = @ \ Top(s.votes)]
           next == [dusk EXCEPT !.night_state = freshNightState(@.guardProtectedId)]
<1>1. Fewer(s, dusk)
  BY DEF Fewer
<1>2. resolveDayVoteAndAdvanceToNight(s) = EndOr(dusk, WakeAfter(next, 0))
  BY DEF resolveDayVoteAndAdvanceToNight
<1> HIDE DEF dusk
<1>3. Fewer(dusk, next)
  BY <1>1 DEF Fewer
<1> HIDE DEF next
<1>4. Fewer(dusk, EndOr(dusk, WakeAfter(next, 0)))
  <2>1. Fewer(next, WakeAfter(next, 0))
    BY <1>3, WakeAfterFewer DEF Fewer
  <2> QED BY <1>1, <1>3, <2>1, FewerStill, EndOrFewer DEF Fewer
<1> QED
  BY <1>1, <1>2, <1>4, FewerStill

LEMMA AutoSkipFewer ==
  ASSUME NEW s, "alive" \in DOMAIN s
  PROVE  Fewer(s, tryAutoSkipDayVote(s))
<1> DEFINE t == clearPhaseTimer(s)
<1>1. Fewer(s, t)
  BY DEF clearPhaseTimer, Fewer
<1> HIDE DEF t
<1>2. Fewer(t, resolveDayVoteAndAdvanceToNight(t))
  BY <1>1, DuskFewer DEF Fewer
<1>3. tryAutoSkipDayVote(s) \in {s, resolveDayVoteAndAdvanceToNight(t)}
  BY DEF tryAutoSkipDayVote, t
<1> QED
  BY <1>1, <1>2, <1>3, FewerStill DEF Fewer

LEMMA TimeoutFewer ==
  ASSUME NEW s, "alive" \in DOMAIN s
  PROVE  Fewer(s, onPhaseTimeout(s))
BY AdvanceFewer, EnterPhaseFewer, DuskFewer DEF onPhaseTimeout, Fewer
-------------------------------------------------------------------------------
\* What a step does to the roles and the living.
Mortal == role' = role /\ alive' \subseteq alive

LEMMA Became ==
  ASSUME NEW s, Fewer(state, s), Become(s)
  PROVE  Mortal
BY DEF Become, Fewer, state, Mortal

\* A handler that first writes down what the player did.
LEMMA BecameFrom ==
  ASSUME NEW s, Fewer(state, s), NEW t, Fewer(s, t), Become(t)
  PROVE  Mortal
BY FewerStill, Became

LEMMA NightActionsSpare ==
  ASSUME NEW p \in Players, NEW t,
         \/ GuardProtect(p, t) \/ SeerCheck(p, t) \/ WitchPoison(p, t)
         \/ WitchHeal(p) \/ WitchPass(p)
  PROVE  Mortal
<1>1. CASE GuardProtect(p, t)
  <2> DEFINE s == [state EXCEPT !.night_state.guardProtectedId = t]
  <2>1. Fewer(state, s)
    BY DEF Fewer, state
  <2>2. Become(tryAdvancePhase(s))
    BY <1>1 DEF GuardProtect
  <2> HIDE DEF s
  <2> QED BY <2>1, <2>2, AdvanceFewer, BecameFrom DEF Fewer
<1>2. CASE SeerCheck(p, t)
  <2> DEFINE s == [state EXCEPT !.night_state.seerChecked = TRUE]
  <2>1. Fewer(state, s)
    BY DEF Fewer, state
  <2>2. Become(tryAdvancePhase(s))
    BY <1>2 DEF SeerCheck
  <2> HIDE DEF s
  <2> QED BY <2>1, <2>2, AdvanceFewer, BecameFrom DEF Fewer
<1>3. CASE WitchPoison(p, t)
  <2> DEFINE s == [state EXCEPT !.night_state.witchPoisonTargetId = t,
                                !.night_state.witchActed = TRUE,
                                !.witchPotions.poison = FALSE]
  <2>1. Fewer(state, s)
    BY DEF Fewer, state
  <2>2. Become(tryAdvancePhase(s))
    BY <1>3 DEF WitchPoison
  <2> HIDE DEF s
  <2> QED BY <2>1, <2>2, AdvanceFewer, BecameFrom DEF Fewer
<1>4. CASE WitchHeal(p)
  <2> DEFINE s == [state EXCEPT !.night_state.witchHealUsed = TRUE,
                                !.night_state.witchActed = TRUE,
                                !.witchPotions.heal = FALSE]
  <2>1. Fewer(state, s)
    BY DEF Fewer, state
  <2>2. Become(tryAdvancePhase(s))
    BY <1>4 DEF WitchHeal
  <2> HIDE DEF s
  <2> QED BY <2>1, <2>2, AdvanceFewer, BecameFrom DEF Fewer
<1>5. CASE WitchPass(p)
  <2> DEFINE s == [state EXCEPT !.night_state.witchActed = TRUE]
  <2>1. Fewer(state, s)
    BY DEF Fewer, state
  <2>2. Become(tryAdvancePhase(s))
    BY <1>5 DEF WitchPass
  <2> HIDE DEF s
  <2> QED BY <2>1, <2>2, AdvanceFewer, BecameFrom DEF Fewer
<1> QED
  BY <1>1, <1>2, <1>3, <1>4, <1>5

LEMMA WolfVotesSpare ==
  ASSUME NEW p, NEW choice, CastWolfVote(p, choice)
  PROVE  Mortal
<1> DEFINE ballots == [night_state.wolfVotes EXCEPT ![p] = choice]
           s == [state EXCEPT !.night_state.wolfVotes = ballots,
                              !.night_state.wolfKillTargetId = recomputeWolfTarget(ballots)]
<1>1. Fewer(state, s)
  BY DEF Fewer, state
<1>2. Become(IF allWolvesDecided(s) THEN tryAdvancePhase(s) ELSE s)
  BY DEF CastWolfVote
<1> HIDE DEF s
<1>3. Fewer(s, IF allWolvesDecided(s) THEN tryAdvancePhase(s) ELSE s)
  BY <1>1, AdvanceFewer DEF Fewer
<1> QED
  BY <1>1, <1>2, <1>3, BecameFrom

LEMMA VotesSpare ==
  ASSUME NEW p, NEW choice, submitVote(p, choice)
  PROVE  Mortal
<1> DEFINE s == [state EXCEPT !.votes[p] = choice]
<1>1. Fewer(state, s)
  BY DEF Fewer, state
<1>2. Become(tryAutoSkipDayVote(s))
  BY DEF submitVote
<1> HIDE DEF s
<1> QED
  BY <1>1, <1>2, AutoSkipFewer, BecameFrom DEF Fewer

LEMMA DeparturesSpare ==
  ASSUME NEW p, handlePlayerLeft(p)
  PROVE  Mortal
<1> DEFINE ballots == [night_state.wolfVotes EXCEPT ![p] = Undecided]
           gone == [state EXCEPT !.alive = @ \ {p},
                                 !.votes[p] = Undecided,
                                 !.night_state.wolfVotes = ballots,
                                 !.night_state.wolfKillTargetId = recomputeWolfTarget(ballots)]
           next == IF phase = "day_main" THEN tryAutoSkipDayVote(gone) ELSE tryAdvancePhase(gone)
<1>1. Fewer(state, gone)
  BY DEF Fewer, state
<1>2. Become(EndOr(gone, next))
  BY DEF handlePlayerLeft
<1> HIDE DEF gone
<1>3. Fewer(gone, next)
  BY <1>1, AutoSkipFewer, AdvanceFewer DEF Fewer
<1> HIDE DEF next
<1>4. Fewer(gone, EndOr(gone, next))
  BY <1>1, <1>3, EndOrFewer DEF Fewer
<1> QED
  BY <1>1, <1>2, <1>4, BecameFrom

LEMMA TimeoutsSpare ==
  ASSUME NEW t, PhaseTimeout(t)
  PROVE  Mortal
<1> DEFINE s == [state EXCEPT !.timers = @ \ {t}, !.phaseTimer = "none"]
<1>1. Fewer(state, s)
  BY DEF Fewer, state
<1>2. Become(onPhaseTimeout(s))
  BY DEF PhaseTimeout
<1> HIDE DEF s
<1> QED
  BY <1>1, <1>2, TimeoutFewer, BecameFrom DEF Fewer

\* Nobody comes back to life, and no role changes.
LEMMA NobodyComesBack == Next => Mortal
<1> SUFFICES ASSUME Next PROVE Mortal
  OBVIOUS
<1>1. CASE Start
  <2>1. "alive" \in DOMAIN state
    BY DEF state
  <2> QED BY <1>1, <2>1, AdvanceFewer, Became DEF Start
<1>2. ASSUME NEW p \in Players, NEW t \in NightTargets,
             GuardProtect(p, t) \/ WolfKill(p, t) \/ SeerCheck(p, t) \/ WitchPoison(p, t)
      PROVE  Mortal
  BY <1>2, NightActionsSpare, WolfVotesSpare DEF WolfKill
<1>3. ASSUME NEW p \in Players, WolfSkip(p) \/ WitchHeal(p) \/ WitchPass(p)
      PROVE  Mortal
  BY <1>3, NightActionsSpare, WolfVotesSpare DEF WolfSkip
<1>4. ASSUME NEW p \in Players, NEW t \in DayTargets \cup {None}, submitVote(p, t)
      PROVE  Mortal
  BY <1>4, VotesSpare
<1>5. ASSUME NEW p \in Quitters, handlePlayerLeft(p)
      PROVE  Mortal
  BY <1>5, DeparturesSpare
<1>6. ASSUME NEW t \in TimedPhases, PhaseTimeout(t)
      PROVE  Mortal
  BY <1>6, TimeoutsSpare
<1>7. CASE destroy
  BY <1>7 DEF destroy, Mortal
<1> QED
  BY <1>1, <1>2, <1>3, <1>4, <1>5, <1>6, <1>7 DEF Next

\* Nobody comes back to life in a game, and nobody's role changes: in no handler and
\* through no cascade of phases.
THEOREM TheDeadStayDead == Spec => [][role' = role /\ alive' \subseteq alive]_vars
BY NobodyComesBack, PTL DEF Spec, Mortal
-------------------------------------------------------------------------------
(***************************************************************************)
(* What becomes of a call: for every method the part of its result that    *)
(* the game's promises are about (the living, the verdict, the record of   *)
(* the night and the bottles), whatever the cascade went through.          *)
(***************************************************************************)
Bottles == [heal : BOOLEAN, poison : BOOLEAN]

\* The table survives the deaths, or the verdict ends the game: either way the
\* verdict is the one the survivors make.
Buried(s, dead, days, t) ==
  /\ t.alive = s.alive \ dead
  /\ t.winner = checkWinner(t)
  /\ t.phase \in IF t.winner = "none" THEN days ELSE {"ended"}

\* The night goes on: nobody has died, at most the phase is another one.
GoesOn(s, t) == t.phase \in NightPhases /\ t.alive = s.alive /\ t.winner = "none"

SameRecord(s, t) == t.night_state = s.night_state /\ t.witchPotions = s.witchPotions

\* What becomes of a night: it goes on, or dawn buries the dead it computed.
NightFrom(s, t) ==
  SameRecord(s, t) /\ (GoesOn(s, t) \/ Buried(s, computeNightDeaths(s), {"day_reveal"}, t))

LEMMA EndOrBuries ==
  ASSUME NEW s, Running(s), NEW next, NEW days,
         checkWinner(s) = "none" =>
           next.alive = s.alive /\ next.winner = "none" /\ next.phase \in days
  PROVE  Buried(s, {}, days, EndOr(s, next))
<1> DEFINE t == EndOr(s, next)
<1>1. CASE checkWinner(s) = "none"
  <2>1. t = next
    BY <1>1 DEF EndOr
  <2>2. checkWinner(next) = "none"
    BY <1>1, VerdictOfTheLiving
  <2> QED BY <1>1, <2>1, <2>2 DEF Buried
<1>2. CASE checkWinner(s) # "none"
  <2>1. checkWinner(s) \in {"village", "wolves"}
    BY <1>2, VerdictType
  <2>2. t = endGame(s, checkWinner(s))
    BY <1>2 DEF EndOr
  <2>3. t.alive = s.alive /\ t.phase = "ended" /\ t.winner = checkWinner(s)
    BY <2>1, <2>2, EndGameFields DEF Running
  <2>4. checkWinner(t) = checkWinner(s)
    BY <2>3, VerdictOfTheLiving
  <2> HIDE DEF t
  <2> QED BY <1>2, <2>3, <2>4 DEF Buried, t
<1> QED
  BY <1>1, <1>2

\* endGame and enterPhase leave the record of the night and the bottles alone.
LEMMA EndOrRecord ==
  ASSUME NEW s \in EngineState, NEW next, SameRecord(s, next)
  PROVE  SameRecord(s, EndOr(s, next))
BY VerdictType, EndGameFields DEF EndOr, SameRecord

LEMMA DawnOutcome ==
  ASSUME NEW s, Running(s)
  PROVE  LET t == resolveNightAndAdvanceToDay(s)
         IN  SameRecord(s, t) /\ Buried(s, computeNightDeaths(s), {"day_reveal"}, t)
<1> DEFINE dawn == [s EXCEPT !.alive = @ \ computeNightDeaths(s)]
           next == enterPhase(dawn, "day_reveal")
<1>1. /\ Running(dawn) /\ dawn \in EngineState
      /\ dawn.alive = s.alive \ computeNightDeaths(s) /\ SameRecord(s, dawn)
  BY DEF Running, EngineState, SameRecord
<1> HIDE DEF dawn
<1>2. /\ next.alive = dawn.alive /\ next.winner = "none" /\ next.phase = "day_reveal"
      /\ SameRecord(dawn, next)
  BY <1>1, EnterPhaseFields DEF Running, TimedPhases, SameRecord
<1> HIDE DEF next
<1>3. /\ Buried(dawn, {}, {"day_reveal"}, EndOr(dawn, next))
      /\ SameRecord(dawn, EndOr(dawn, next))
  BY <1>1, <1>2, EndOrBuries, EndOrRecord
<1> QED
  BY <1>1, <1>3 DEF resolveNightAndAdvanceToDay, dawn, next, Buried, SameRecord

LEMMA WakeOutcome ==
  ASSUME NEW s, Running(s), NEW r \in 0..4
  PROVE  /\ NightFrom(s, WakeAfter(s, r))
         /\ r = 4 => Buried(s, computeNightDeaths(s), {"day_reveal"}, WakeAfter(s, r))
         /\ r = 0 /\ checkWinner(s) = "none" => GoesOn(s, WakeAfter(s, r))
<1> DEFINE awake == {ph \in NightPhases : Rank[ph] > r /\ phaseHasActor(s, ph)}
           first == CHOOSE ph \in awake : \A q \in awake : Rank[ph] <= Rank[q]
<1>1. awake \in SUBSET NightPhases
  OBVIOUS
<1>2. r = 4 => awake = {}
  BY DEF NightPhases, Rank
<1>3. r = 0 /\ checkWinner(s) = "none" => awake # {}
  <2>1. checkWinner(s) = "none" => AliveAs(s, "werewolf") # {}
    BY FS_EmptySet DEF checkWinner
  <2>2. AliveAs(s, "werewolf") # {} => phaseHasActor(s, "night_wolves")
    BY DEF phaseHasActor, Actor
  <2> QED BY <2>1, <2>2 DEF NightPhases, Rank
<1>4. WakeAfter(s, r) = IF awake = {} THEN resolveNightAndAdvanceToDay(s) ELSE enterPhase(s, first)
  BY DEF WakeAfter
<1> HIDE DEF awake
<1>5. awake # {} => first \in NightPhases
  BY <1>1, FirstAwake
<1> HIDE DEF first
<1>6. awake # {} => GoesOn(s, WakeAfter(s, r)) /\ SameRecord(s, WakeAfter(s, r))
  BY <1>4, <1>5, EnterPhaseFields DEF GoesOn, SameRecord, Running, TimedPhases
<1> QED
  BY <1>2, <1>3, <1>4, <1>6, DawnOutcome DEF NightFrom

LEMMA AdvanceOutcome ==
  ASSUME NEW s, Running(s), s.phase \in NightPhases
  PROVE  /\ NightFrom(s, advanceToNextNightPhase(s))
         /\ NightFrom(s, tryAdvancePhase(s))
         /\ s.phase = "night_witch" /\ PhaseDone(s) =>
              Buried(s, computeNightDeaths(s), {"day_reveal"}, tryAdvancePhase(s))
<1>1. Rank[s.phase] \in 0..4 /\ (s.phase = "night_witch" => Rank[s.phase] = 4)
  BY DEF Rank, NightPhases
<1>2. /\ NightFrom(s, advanceToNextNightPhase(s))
      /\ s.phase = "night_witch" =>
           Buried(s, computeNightDeaths(s), {"day_reveal"}, advanceToNextNightPhase(s))
  BY <1>1, WakeOutcome DEF advanceToNextNightPhase
<1>3. NightFrom(s, s)
  BY DEF NightFrom, GoesOn, SameRecord, Running
<1> QED
  BY <1>2, <1>3 DEF tryAdvancePhase

\* Dusk hangs the top of the ballots; a new night starts from a fresh record that
\* remembers the protection, unless the verdict ends the game.
DuskFrom(s, t) ==
  /\ Buried(s, Top(s.votes), NightPhases, t)
  /\ t.witchPotions = s.witchPotions
  /\ t.night_state = IF t.winner = "none" THEN freshNightState(s.night_state.guardProtectedId)
                     ELSE s.night_state

LEMMA DuskOutcome ==
  ASSUME NEW s, Running(s)
  PROVE  DuskFrom(s, resolveDayVoteAndAdvanceToNight(s))
<1> DEFINE dusk == [s EXCEPT !.alive = @ \ Top(s.votes)]
           next == [dusk EXCEPT !.night_state = freshNightState(@.guardProtectedId)]
           t == EndOr(dusk, WakeAfter(next, 0))
<1>1. Running(dusk) /\ dusk.alive = s.alive \ Top(s.votes) /\ SameRecord(s, dusk)
  BY DEF Running, EngineState, SameRecord
<1>2. /\ Running(next) /\ next.alive = dusk.alive /\ next.witchPotions = s.witchPotions
      /\ next.night_state = freshNightState(s.night_state.guardProtectedId)
  <2>1. /\ next \in EngineState /\ next.alive = dusk.alive /\ next.winner = dusk.winner
        /\ next.timers = dusk.timers /\ next.phaseTimer = dusk.phaseTimer
        /\ next.witchPotions = dusk.witchPotions
        /\ next.night_state = freshNightState(dusk.night_state.guardProtectedId)
    BY <1>1 DEF Running, EngineState, freshNightState, NightState, NoBallots, Ballots, PlayerOrNone
  <2> HIDE DEF next, dusk
  <2> QED BY <1>1, <2>1 DEF Running, SameRecord
<1>3. resolveDayVoteAndAdvanceToNight(s) = t
  BY DEF resolveDayVoteAndAdvanceToNight
<1> HIDE DEF next, dusk
<1>4. checkWinner(dusk) = checkWinner(next)
  BY <1>2, VerdictOfTheLiving
<1>5. ASSUME checkWinner(dusk) = "none"
      PROVE  GoesOn(next, WakeAfter(next, 0)) /\ SameRecord(next, WakeAfter(next, 0))
  <2>1. checkWinner(next) = "none" /\ 0 \in 0..4
    BY <1>4, <1>5
  <2> QED BY ONLY <1>2, <2>1, WakeOutcome DEF NightFrom
<1>6. Buried(dusk, {}, NightPhases, t)
  BY <1>1, <1>2, <1>5, EndOrBuries DEF GoesOn
<1>7. CASE checkWinner(dusk) = "none"
  <2>1. t = WakeAfter(next, 0)
    BY <1>7 DEF EndOr
  <2>2. t.winner = "none"
    BY <1>5, <1>7, <2>1 DEF GoesOn
  <2> QED BY <1>1, <1>2, <1>3, <1>5, <1>6, <1>7, <2>1, <2>2 DEF DuskFrom, SameRecord, Buried
<1>8. CASE checkWinner(dusk) # "none"
  <2>1. t = endGame(dusk, checkWinner(dusk)) /\ checkWinner(dusk) \in {"village", "wolves"}
    BY <1>8, VerdictType DEF EndOr
  <2>2. t.winner # "none" /\ SameRecord(dusk, t)
    BY <1>1, <2>1, EndGameFields DEF Running, SameRecord
  <2> QED BY <1>1, <1>3, <1>6, <2>2 DEF DuskFrom, SameRecord, Buried
<1> QED
  BY <1>7, <1>8

\* The day goes on, or dusk falls because every living player skips.
LEMMA AutoSkipOutcome ==
  ASSUME NEW s, Running(s)
  PROVE  \/ tryAutoSkipDayVote(s) = s
         \/ s.phase = "day_main" /\ allSkipped(s) /\ DuskFrom(s, tryAutoSkipDayVote(s))
<1> DEFINE c == clearPhaseTimer(s)
<1>1. /\ Running(c) /\ c.alive = s.alive /\ c.votes = s.votes /\ SameRecord(s, c)
  BY DEF Running, EngineState, clearPhaseTimer, SameRecord
<1> HIDE DEF c
<1>2. DuskFrom(c, resolveDayVoteAndAdvanceToNight(c))
  BY <1>1, DuskOutcome
<1>3. DuskFrom(s, resolveDayVoteAndAdvanceToNight(c))
  BY <1>1, <1>2 DEF DuskFrom, Buried, SameRecord
<1> QED
  BY <1>3 DEF tryAutoSkipDayVote, c
-------------------------------------------------------------------------------
(***************************************************************************)
(* What the handlers write down, and what becomes of it.                   *)
(***************************************************************************)

\* The night's record says nothing it should not: tonight's protection is not
\* last night's, and both bottles are sealed until the witch's phase closes.
Guarded(n) == n.guardProtectedId # None => n.guardProtectedId # n.guardLastNightProtectedId
Sealed(n) == ~n.witchHealUsed /\ n.witchPoisonTargetId = None
NightInv == Guarded(night_state) /\ (phase \in NightPhases => Sealed(night_state))

\* The engine with the night's record n and the bottles b.
Noted(n, b) == [state EXCEPT !.night_state = n, !.witchPotions = b]

\* A step of a night handler: it writes n and b, and the night goes on or ends.
NightStep(n, b) ==
  /\ phase \in NightPhases /\ live
  /\ role' = role /\ live' = live
  /\ night_state' = n /\ witchPotions' = b
  /\ GoesOn(state, state') \/ Buried(state, computeNightDeaths(state'), {"day_reveal"}, state')

LEMMA InTheNight ==
  ASSUME IInv, NEW p, NEW ph \in NightPhases, MayAct(p, ph)
  PROVE  /\ live /\ phase = ph /\ phase \in NightPhases /\ p \in alive /\ role[p] = Actor[ph]
         /\ state \in EngineState /\ Running(state) /\ checkWinner(state) = "none"
         /\ night_state \in NightState /\ witchPotions \in Bottles
BY InPlay DEF MayAct, TimedPhases, EngineState, Bottles, state

LEMMA NotedFields ==
  ASSUME state \in EngineState, Running(state), NEW n \in NightState, NEW b \in Bottles
  PROVE  /\ Running(Noted(n, b))
         /\ Noted(n, b).alive = alive /\ Noted(n, b).phase = phase
         /\ Noted(n, b).night_state = n /\ Noted(n, b).witchPotions = b
BY DEF Noted, Running, EngineState, Bottles, state

\* A handler that leaves the bottles alone.
LEMMA BottlesAlone ==
  ASSUME state \in EngineState, NEW n \in NightState
  PROVE  Noted(n, witchPotions) = [state EXCEPT !.night_state = n]
<1> DEFINE t == [state EXCEPT !.night_state = n]
<1>1. t \in EngineState /\ t.witchPotions = witchPotions
  BY DEF EngineState, state
<1>2. Noted(n, witchPotions) = [t EXCEPT !.witchPotions = witchPotions]
  BY DEF Noted, EngineState, state
<1> HIDE DEF t
<1>3. [t EXCEPT !.witchPotions = t.witchPotions] = t
  BY <1>1 DEF EngineState
<1> QED
  BY <1>1, <1>2, <1>3 DEF t

LEMMA NightStepOf ==
  ASSUME IInv, phase \in NightPhases, live, NEW n \in NightState, NEW b \in Bottles,
         NEW t \in {Noted(n, b), tryAdvancePhase(Noted(n, b))}, Become(t)
  PROVE  /\ NightStep(n, b)
         /\ phase = "night_witch" /\ n.witchActed /\ t = tryAdvancePhase(Noted(n, b)) =>
              Buried(state, computeNightDeaths(state'), {"day_reveal"}, state')
<1> DEFINE s == Noted(n, b)
<1>1. state \in EngineState /\ Running(state)
  BY InPlay DEF TimedPhases
<1>2. /\ Running(s) /\ s.alive = alive /\ s.phase = phase
      /\ s.night_state = n /\ s.witchPotions = b
  BY <1>1, NotedFields
<1> HIDE DEF s
<1>3. /\ NightFrom(s, t)
      /\ phase = "night_witch" /\ n.witchActed /\ t = tryAdvancePhase(s) =>
           Buried(s, computeNightDeaths(s), {"day_reveal"}, t)
  <2>1. NightFrom(s, s)
    BY <1>2 DEF NightFrom, GoesOn, SameRecord, Running
  <2>2. s.phase = "night_witch" /\ n.witchActed => PhaseDone(s)
    BY <1>2 DEF PhaseDone
  <2> QED BY <1>2, <2>1, <2>2, AdvanceOutcome DEF s
<1>4. /\ role' = role /\ live' = live
      /\ state'.alive = t.alive /\ state'.phase = t.phase /\ state'.winner = t.winner
      /\ night_state' = t.night_state /\ state'.night_state = t.night_state
      /\ witchPotions' = t.witchPotions
  BY DEF Become, state
<1>5. t.night_state = n /\ t.witchPotions = b
  BY <1>2, <1>3 DEF NightFrom, SameRecord
<1>6. computeNightDeaths(state') = computeNightDeaths(s)
  BY <1>2, <1>4, <1>5 DEF computeNightDeaths
<1>7. GoesOn(s, t) => GoesOn(state, state')
  BY <1>2, <1>4 DEF GoesOn, state
<1>8. Buried(s, computeNightDeaths(s), {"day_reveal"}, t) =>
        Buried(state, computeNightDeaths(state'), {"day_reveal"}, state')
  <2>1. checkWinner(t) = checkWinner(state')
    BY <1>4, VerdictOfTheLiving
  <2> QED BY <1>2, <1>4, <1>6, <2>1 DEF Buried, state
<1> QED
  BY <1>3, <1>4, <1>5, <1>7, <1>8 DEF NightStep, NightFrom, s

LEMMA GuardProtectStep ==
  ASSUME IInv, NEW p \in Players, NEW target \in Players, GuardProtect(p, target)
  PROVE  NightStep([night_state EXCEPT !.guardProtectedId = target], witchPotions)
<1> DEFINE n == [night_state EXCEPT !.guardProtectedId = target]
<1>1. /\ live /\ phase \in NightPhases /\ state \in EngineState
      /\ night_state \in NightState /\ witchPotions \in Bottles
  BY InTheNight DEF GuardProtect, CanProtect, NightPhases
<1>2. n \in NightState
  BY <1>1 DEF NightState, PlayerOrNone
<1>3. [state EXCEPT !.night_state.guardProtectedId = target] = Noted(n, witchPotions)
  BY <1>1, <1>2, BottlesAlone DEF EngineState, state
<1> QED
  BY <1>1, <1>2, <1>3, NightStepOf DEF GuardProtect

LEMMA SeerCheckStep ==
  ASSUME IInv, NEW p \in Players, NEW target \in Players, SeerCheck(p, target)
  PROVE  NightStep([night_state EXCEPT !.seerChecked = TRUE], witchPotions)
<1> DEFINE n == [night_state EXCEPT !.seerChecked = TRUE]
<1>1. /\ live /\ phase \in NightPhases /\ state \in EngineState
      /\ night_state \in NightState /\ witchPotions \in Bottles
  BY InTheNight DEF SeerCheck, CanCheck, NightPhases
<1>2. n \in NightState
  BY <1>1 DEF NightState
<1>3. [state EXCEPT !.night_state.seerChecked = TRUE] = Noted(n, witchPotions)
  BY <1>1, <1>2, BottlesAlone DEF EngineState, state
<1> QED
  BY <1>1, <1>2, <1>3, NightStepOf DEF SeerCheck

\* Whatever the witch does, dawn follows in the same call.
WitchStep(n, b) ==
  NightStep(n, b) /\ Buried(state, computeNightDeaths(state'), {"day_reveal"}, state')

LEMMA WitchHealStep ==
  ASSUME IInv, NEW p \in Players, WitchHeal(p)
  PROVE  WitchStep([night_state EXCEPT !.witchHealUsed = TRUE, !.witchActed = TRUE],
                   [witchPotions EXCEPT !.heal = FALSE])
<1> DEFINE n == [night_state EXCEPT !.witchHealUsed = TRUE, !.witchActed = TRUE]
           b == [witchPotions EXCEPT !.heal = FALSE]
<1>1. /\ live /\ phase = "night_witch" /\ phase \in NightPhases /\ state \in EngineState
      /\ night_state \in NightState /\ witchPotions \in Bottles
  BY InTheNight DEF WitchHeal, CanHeal, NightPhases
<1>2. n \in NightState /\ n.witchActed /\ b \in Bottles
  BY <1>1 DEF NightState, Bottles
<1>3. [state EXCEPT !.night_state.witchHealUsed = TRUE, !.night_state.witchActed = TRUE,
                    !.witchPotions.heal = FALSE] = Noted(n, b)
  BY <1>1 DEF Noted, EngineState, state
<1> QED
  BY <1>1, <1>2, <1>3, NightStepOf DEF WitchHeal, WitchStep

LEMMA WitchPoisonStep ==
  ASSUME IInv, NEW p \in Players, NEW target \in Players, WitchPoison(p, target)
  PROVE  WitchStep([night_state EXCEPT !.witchPoisonTargetId = target, !.witchActed = TRUE],
                   [witchPotions EXCEPT !.poison = FALSE])
<1> DEFINE n == [night_state EXCEPT !.witchPoisonTargetId = target, !.witchActed = TRUE]
           b == [witchPotions EXCEPT !.poison = FALSE]
<1>1. /\ live /\ phase = "night_witch" /\ phase \in NightPhases /\ state \in EngineState
      /\ night_state \in NightState /\ witchPotions \in Bottles
  BY InTheNight DEF WitchPoison, CanPoison, NightPhases
<1>2. n \in NightState /\ n.witchActed /\ b \in Bottles
  BY <1>1 DEF NightState, PlayerOrNone, Bottles
<1>3. [state EXCEPT !.night_state.witchPoisonTargetId = target, !.night_state.witchActed = TRUE,
                    !.witchPotions.poison = FALSE] = Noted(n, b)
  BY <1>1 DEF Noted, EngineState, state
<1> QED
  BY <1>1, <1>2, <1>3, NightStepOf DEF WitchPoison, WitchStep

LEMMA WitchPassStep ==
  ASSUME IInv, NEW p \in Players, WitchPass(p)
  PROVE  WitchStep([night_state EXCEPT !.witchActed = TRUE], witchPotions)
<1> DEFINE n == [night_state EXCEPT !.witchActed = TRUE]
<1>1. /\ live /\ phase = "night_witch" /\ phase \in NightPhases /\ state \in EngineState
      /\ night_state \in NightState /\ witchPotions \in Bottles
  BY InTheNight DEF WitchPass, NightPhases
<1>2. n \in NightState /\ n.witchActed
  BY <1>1 DEF NightState
<1>3. [state EXCEPT !.night_state.witchActed = TRUE] = Noted(n, witchPotions)
  BY <1>1, <1>2, BottlesAlone DEF EngineState, state
<1> QED
  BY <1>1, <1>2, <1>3, NightStepOf DEF WitchPass, WitchStep

\* The night's record with the ballots counted.
Counted(ballots) ==
  [night_state EXCEPT !.wolfVotes = ballots, !.wolfKillTargetId = recomputeWolfTarget(ballots)]

LEMMA CountedFields ==
  ASSUME night_state \in NightState, NEW ballots \in Ballots
  PROVE  /\ Counted(ballots) \in NightState
         /\ Counted(ballots).wolfVotes = ballots
         /\ Counted(ballots).wolfKillTargetId = recomputeWolfTarget(ballots)
         /\ Counted(ballots).guardProtectedId = night_state.guardProtectedId
         /\ Counted(ballots).guardLastNightProtectedId = night_state.guardLastNightProtectedId
         /\ Counted(ballots).witchHealUsed = night_state.witchHealUsed
         /\ Counted(ballots).witchPoisonTargetId = night_state.witchPoisonTargetId
<1>1. recomputeWolfTarget(ballots) \in PlayerOrNone
  BY RecountType DEF Named, PlayerOrNone
<1> QED
  BY <1>1 DEF Counted, NightState

LEMMA CastWolfVoteStep ==
  ASSUME IInv, NEW p \in Players, MayAct(p, "night_wolves"), NEW choice \in PlayerOrNone,
         CastWolfVote(p, choice)
  PROVE  NightStep(Counted([night_state.wolfVotes EXCEPT ![p] = choice]), witchPotions)
<1> DEFINE ballots == [night_state.wolfVotes EXCEPT ![p] = choice]
           cast == [state EXCEPT !.night_state.wolfVotes = ballots,
                                 !.night_state.wolfKillTargetId = recomputeWolfTarget(ballots)]
<1>1. /\ live /\ phase \in NightPhases /\ state \in EngineState
      /\ night_state \in NightState /\ witchPotions \in Bottles
  BY InTheNight DEF NightPhases
<1>2. ballots \in Ballots
  BY <1>1 DEF Ballots, PlayerOrNone, NightState
<1>3. Become(IF allWolvesDecided(cast) THEN tryAdvancePhase(cast) ELSE cast)
  BY DEF CastWolfVote
<1> HIDE DEF ballots
<1>4. Counted(ballots) \in NightState
  BY <1>1, <1>2, CountedFields
<1>5. cast = Noted(Counted(ballots), witchPotions)
  BY <1>1, <1>4, BottlesAlone DEF Counted, EngineState, state
<1> HIDE DEF cast
<1> QED
  BY <1>1, <1>3, <1>4, <1>5, NightStepOf DEF ballots
-------------------------------------------------------------------------------
(***************************************************************************)
(* The other handlers.                                                     *)
(***************************************************************************)

\* start() opens the first night.
StartStep ==
  /\ phase = "lobby" /\ Cardinality(Players) >= MIN_PLAYERS_TO_START
  /\ role' = role /\ SameRecord(state, state') /\ GoesOn(state, state')

LEMMA StartOutcome ==
  ASSUME IInv, Start
  PROVE  StartStep
<1> DEFINE t == advanceToNextNightPhase(state)
<1>1. state.phase = "lobby" /\ Running(state) /\ checkWinner(state) = "none"
  BY OpenTable
<1>2. t = WakeAfter(state, 0) /\ 0 \in 0..4
  BY <1>1 DEF advanceToNextNightPhase, Rank
<1>3. GoesOn(state, t) /\ NightFrom(state, t)
  BY ONLY <1>1, <1>2, WakeOutcome
<1>4. Become(t)
  BY DEF Start
<1> HIDE DEF t
<1> QED
  BY <1>1, <1>3, <1>4 DEF Start, Become, StartStep, GoesOn, NightFrom, SameRecord, state

\* Nothing happens to the living, the verdict, the night's record or the bottles.
QuietStep ==
  /\ role' = role /\ alive' = alive /\ winner' = winner /\ SameRecord(state, state')
  /\ phase' = phase \/ (phase = "day_reveal" /\ phase' = "day_main")

\* The ballots of the day fall: at most one is hanged.
DuskStep ==
  /\ phase = "day_main" /\ role' = role
  /\ \E hanged \in {{}} \cup {{q} : q \in Players} : Buried(state, hanged, NightPhases, state')
  /\ witchPotions' = witchPotions
  /\ night_state' = IF winner' = "none" THEN freshNightState(night_state.guardProtectedId)
                    ELSE night_state

LEMMA OnlyOneOnTop ==
  ASSUME NEW ballots
  PROVE  Top(ballots) \in {{}} \cup {{q} : q \in Players}
<1>1. ASSUME NEW t \in Top(ballots), NEW u \in Top(ballots) PROVE t = u
  <2> SUFFICES ASSUME t # u PROVE FALSE
    OBVIOUS
  <2>1. Tally(ballots, t) < Tally(ballots, u) /\ Tally(ballots, u) < Tally(ballots, t)
    BY <1>1 DEF Top
  <2>2. Tally(ballots, t) \in Nat /\ Tally(ballots, u) \in Nat
    BY PlayersAssumption, FS_Subset, FS_CardinalityType DEF Tally
  <2> QED BY <2>1, <2>2
<1>2. Top(ballots) \subseteq Players
  BY DEF Top, Named
<1> QED
  BY <1>1, <1>2

\* When every living player skips nobody is on top.
LEMMA SkipsNameNobody ==
  ASSUME NEW s \in EngineState, allSkipped(s),
         \A p \in Players \ s.alive : s.votes[p] = Undecided
  PROVE  Top(s.votes) = {}
<1>1. \A p \in Players : s.votes[p] \notin Players
  BY PlayersAssumption DEF allSkipped
<1>2. Named(s.votes) = {}
  BY <1>1 DEF Named
<1> QED
  BY <1>2 DEF Top

LEMMA DuskStepOf ==
  ASSUME phase = "day_main", NEW s, s.alive = alive, s.night_state = night_state,
         s.witchPotions = witchPotions, NEW t, DuskFrom(s, t), Become(t)
  PROVE  DuskStep
<1> DEFINE hanged == Top(s.votes)
<1>1. /\ role' = role /\ alive' = t.alive /\ phase' = t.phase /\ winner' = t.winner
      /\ night_state' = t.night_state /\ witchPotions' = t.witchPotions
      /\ state'.alive = t.alive /\ state'.phase = t.phase /\ state'.winner = t.winner
  BY DEF Become, state
<1>2. hanged \in {{}} \cup {{q} : q \in Players}
  BY OnlyOneOnTop
<1> HIDE DEF hanged
<1>3. Buried(s, hanged, NightPhases, t)
  BY DEF DuskFrom, hanged
<1>4. checkWinner(state') = checkWinner(t)
  BY <1>1, VerdictOfTheLiving
<1>5. Buried(state, hanged, NightPhases, state')
  BY <1>1, <1>3, <1>4 DEF Buried, state
<1> QED
  BY <1>1, <1>2, <1>5 DEF DuskFrom, DuskStep

LEMMA SubmitVoteStep ==
  ASSUME IInv, NEW voter \in Players, NEW choice \in PlayerOrNone, submitVote(voter, choice)
  PROVE  QuietStep \/ DuskStep
<1> DEFINE s == [state EXCEPT !.votes[voter] = choice]
<1>1. phase = "day_main" /\ Running(state)
  BY InPlay DEF submitVote, CanVote, TimedPhases
<1>2. /\ Running(s) /\ s.alive = alive /\ s.phase = phase /\ s.winner = winner
      /\ s.night_state = night_state /\ s.witchPotions = witchPotions
  BY <1>1 DEF Running, EngineState, Ballots, PlayerOrNone, state
<1>3. Become(tryAutoSkipDayVote(s))
  BY DEF submitVote
<1> HIDE DEF s
<1>4. CASE tryAutoSkipDayVote(s) = s
  <2>1. /\ role' = role /\ alive' = s.alive /\ phase' = s.phase /\ winner' = s.winner
        /\ night_state' = s.night_state /\ witchPotions' = s.witchPotions
    BY <1>3, <1>4 DEF Become
  <2> QED BY <1>2, <2>1 DEF QuietStep, SameRecord, state
<1>5. CASE DuskFrom(s, tryAutoSkipDayVote(s))
  BY <1>1, <1>2, <1>3, <1>5, DuskStepOf
<1> QED
  BY <1>2, <1>4, <1>5, AutoSkipOutcome

LEMMA TimeoutStep ==
  ASSUME IInv, NEW t, PhaseTimeout(t)
  PROVE  NightStep(night_state, witchPotions) \/ QuietStep \/ DuskStep
<1> DEFINE s == [state EXCEPT !.timers = @ \ {t}, !.phaseTimer = "none"]
           u == onPhaseTimeout(s)
<1>1. live /\ phase \in TimedPhases /\ timers = {phase} /\ t = phase
  BY DEF PhaseTimeout, IInv, Timed, state
<1>2. /\ Running(state) /\ night_state \in NightState /\ witchPotions \in Bottles
  BY <1>1, InPlay DEF EngineState, Bottles, state
<1>3. /\ Running(s) /\ s.alive = alive /\ s.phase = phase /\ s.winner = winner
      /\ s.night_state = night_state /\ s.witchPotions = witchPotions
  BY <1>1, <1>2 DEF Running, EngineState, state
<1>4. Become(u)
  BY DEF PhaseTimeout
<1> HIDE DEF s
<1>5. /\ role' = role /\ live' = live /\ alive' = u.alive /\ phase' = u.phase /\ winner' = u.winner
      /\ night_state' = u.night_state /\ witchPotions' = u.witchPotions
  BY <1>4 DEF Become
<1>6. CASE phase \in NightPhases
  <2>1. NightFrom(s, u)
    BY <1>3, <1>6, AdvanceOutcome DEF onPhaseTimeout
  <2> HIDE DEF u
  <2>2. computeNightDeaths(state') = computeNightDeaths(s) /\ checkWinner(state') = checkWinner(u)
    BY <1>3, <1>5, <2>1, VerdictOfTheLiving DEF computeNightDeaths, NightFrom, SameRecord, state
  <2> QED
    BY <1>1, <1>3, <1>5, <1>6, <2>1, <2>2
    DEF NightStep, NightFrom, SameRecord, GoesOn, Buried, state
<1>7. CASE phase = "day_reveal"
  <2>1. u = enterPhase(s, "day_main")
    BY <1>3, <1>7 DEF onPhaseTimeout, NightPhases
  <2>2. /\ u.alive = alive /\ u.winner = winner /\ u.phase = "day_main"
        /\ u.night_state = night_state /\ u.witchPotions = witchPotions
    BY <1>3, <2>1, EnterPhaseFields DEF Running, TimedPhases
  <2> HIDE DEF u
  <2> QED BY <1>5, <1>7, <2>2 DEF QuietStep, SameRecord, state
<1>8. CASE phase = "day_main"
  <2>1. DuskFrom(s, u)
    BY <1>3, <1>8, DuskOutcome DEF onPhaseTimeout, NightPhases
  <2> HIDE DEF u
  <2> QED BY <1>3, <1>4, <1>8, <2>1, DuskStepOf
<1> QED
  BY <1>1, <1>6, <1>7, <1>8 DEF TimedPhases

\* Somebody leaves during the night: his ballot is withdrawn and the pack's
\* recounted, and the night goes on or ends with dawn.
LeftAtNight(p) ==
  /\ phase \in NightPhases
  /\ night_state' = Counted([night_state.wolfVotes EXCEPT ![p] = Undecided])
  /\ \/ Buried(state, {p}, NightPhases, state')
     \/ Buried(state, {p} \cup computeNightDeaths(state'), {"day_reveal"}, state')

\* Somebody leaves during the day, which may end it without a hanging.
LeftByDay(p) ==
  LET n == Counted([night_state.wolfVotes EXCEPT ![p] = Undecided])
  IN  /\ phase \in {"day_reveal", "day_main"}
      /\ \/ Buried(state, {p}, {phase}, state') /\ night_state' = n
         \/ /\ phase = "day_main"
            /\ Buried(state, {p}, NightPhases, state')
            /\ night_state' = IF winner' = "none" THEN freshNightState(n.guardProtectedId) ELSE n

LeaveStep(p) ==
  /\ p \in alive /\ role' = role /\ witchPotions' = witchPotions
  /\ LeftAtNight(p) \/ LeftByDay(p)

LEMMA PlayerLeftStep ==
  ASSUME IInv, NEW p \in Players, handlePlayerLeft(p)
  PROVE  LeaveStep(p)
<1> DEFINE ballots == [night_state.wolfVotes EXCEPT ![p] = Undecided]
           n == Counted(ballots)
           gone == [state EXCEPT !.alive = @ \ {p},
                                 !.votes[p] = Undecided,
                                 !.night_state.wolfVotes = ballots,
                                 !.night_state.wolfKillTargetId = recomputeWolfTarget(ballots)]
           next == IF phase = "day_main" THEN tryAutoSkipDayVote(gone) ELSE tryAdvancePhase(gone)
           t == EndOr(gone, next)
<1>1. /\ live /\ phase \in TimedPhases /\ p \in alive /\ state \in EngineState /\ Running(state)
      /\ phase = "day_main" => \A q \in Players \ alive : votes[q] = Undecided
  <2>1. live /\ p \in alive /\ phase \in TimedPhases
    BY DEF handlePlayerLeft, IInv, TypeOK, EngineState, state, Phases
  <2> QED BY <2>1, InPlay DEF state
<1>2. night_state \in NightState /\ votes \in Ballots /\ ballots \in Ballots
  BY <1>1 DEF EngineState, NightState, Ballots, state
<1>3. gone = [state EXCEPT !.alive = alive \ {p}, !.votes = [votes EXCEPT ![p] = Undecided],
                           !.night_state = n]
  <2> HIDE DEF ballots
  <2> QED BY <1>1 DEF Counted, EngineState, state
<1> HIDE DEF ballots
<1>4. n \in NightState
  BY <1>2, CountedFields
<1> HIDE DEF n
<1>5. /\ gone \in EngineState /\ Running(gone) /\ gone.alive = alive \ {p}
      /\ gone.phase = phase /\ gone.winner = "none" /\ gone.night_state = n
      /\ gone.witchPotions = witchPotions /\ gone.votes = [votes EXCEPT ![p] = Undecided]
  BY <1>1, <1>2, <1>3, <1>4 DEF Running, EngineState, Ballots, state
<1>6. Become(t)
  BY DEF handlePlayerLeft, ballots
<1> HIDE DEF gone
<1>7. /\ role' = role /\ alive' = t.alive /\ phase' = t.phase /\ winner' = t.winner
      /\ night_state' = t.night_state /\ witchPotions' = t.witchPotions
      /\ state'.alive = t.alive /\ state'.phase = t.phase /\ state'.winner = t.winner
      /\ state'.night_state = t.night_state
  BY <1>6 DEF Become, state
<1>8. checkWinner(state') = checkWinner(t)
  BY <1>7, VerdictOfTheLiving
<1>9. CASE checkWinner(gone) # "none"
  <2>1. t = endGame(gone, checkWinner(gone)) /\ checkWinner(gone) \in {"village", "wolves"}
    BY <1>9, VerdictType DEF EndOr
  <2>2. /\ t.alive = gone.alive /\ t.phase = "ended" /\ t.winner = checkWinner(gone)
        /\ t.night_state = n /\ t.witchPotions = witchPotions
    BY <1>5, <2>1, EndGameFields
  <2>3. checkWinner(t) = checkWinner(gone)
    BY <2>2, VerdictOfTheLiving
  <2> HIDE DEF t
  <2>4. /\ Buried(state, {p}, NightPhases, state') /\ Buried(state, {p}, {phase}, state')
        /\ night_state' = n /\ witchPotions' = witchPotions
    BY <1>5, <1>7, <1>8, <1>9, <2>2, <2>3 DEF Buried, state
  <2> QED BY <1>1, <1>7, <2>4 DEF LeaveStep, LeftAtNight, LeftByDay, TimedPhases, n, ballots
<1>10. CASE checkWinner(gone) = "none"
  <2>1. t = next
    BY <1>10 DEF EndOr
  <2> HIDE DEF t
  <2>2. CASE phase \in NightPhases
    <3>1. NightFrom(gone, t)
      BY <1>5, <2>1, <2>2, AdvanceOutcome DEF NightPhases
    <3>2. night_state' = n /\ witchPotions' = witchPotions
      BY <1>5, <1>7, <3>1 DEF NightFrom, SameRecord
    <3>3. computeNightDeaths(state') = computeNightDeaths(gone)
      BY <1>5, <1>7, <3>2 DEF computeNightDeaths, state
    <3>4. CASE GoesOn(gone, t)
      <4>1. checkWinner(t) = "none"
        BY <1>10, <3>4, VerdictOfTheLiving DEF GoesOn
      <4>2. Buried(state, {p}, NightPhases, state')
        BY <1>5, <1>7, <1>8, <3>4, <4>1 DEF GoesOn, Buried, state
      <4> QED BY <1>1, <1>7, <2>2, <3>2, <4>2 DEF LeaveStep, LeftAtNight, n, ballots
    <3>5. CASE Buried(gone, computeNightDeaths(gone), {"day_reveal"}, t)
      <4>1. Buried(state, {p} \cup computeNightDeaths(state'), {"day_reveal"}, state')
        BY <1>5, <1>7, <1>8, <3>3, <3>5 DEF Buried, state
      <4> QED BY <1>1, <1>7, <2>2, <3>2, <4>1 DEF LeaveStep, LeftAtNight, n, ballots
    <3> QED BY <3>1, <3>4, <3>5 DEF NightFrom
  <2>3. CASE t = gone /\ phase \in {"day_reveal", "day_main"}
    <3>1. Buried(state, {p}, {phase}, state') /\ night_state' = n /\ witchPotions' = witchPotions
      BY <1>5, <1>7, <1>8, <1>10, <2>3 DEF Buried, state
    <3> QED BY <1>1, <1>7, <2>3, <3>1 DEF LeaveStep, LeftByDay, n, ballots
  <2>4. CASE phase = "day_main" /\ allSkipped(gone) /\ DuskFrom(gone, t)
    <3>1. Top(gone.votes) = {}
      <4>1. \A q \in Players \ gone.alive : gone.votes[q] = Undecided
        BY <1>1, <1>2, <1>5, <2>4 DEF Ballots
      <4> QED BY <1>5, <2>4, <4>1, SkipsNameNobody
    <3>2. Buried(state, {p}, NightPhases, state')
      BY <1>5, <1>7, <1>8, <2>4, <3>1 DEF DuskFrom, Buried, state
    <3>3. /\ witchPotions' = witchPotions
          /\ night_state' = IF winner' = "none" THEN freshNightState(n.guardProtectedId) ELSE n
      BY <1>5, <1>7, <2>4 DEF DuskFrom
    <3> QED BY <1>1, <1>7, <2>4, <3>2, <3>3 DEF LeaveStep, LeftByDay, n, ballots
  <2>5. phase = "day_reveal" => t = gone
    BY <1>5, <2>1 DEF tryAdvancePhase, NightPhases
  <2>6. phase = "day_main" => t = gone \/ (allSkipped(gone) /\ DuskFrom(gone, t))
    BY <1>5, <2>1, AutoSkipOutcome
  <2> QED BY <1>1, <2>2, <2>3, <2>4, <2>5, <2>6 DEF TimedPhases
<1> QED
  BY <1>9, <1>10
-------------------------------------------------------------------------------
(***************************************************************************)
(* The kinds of step, and the action properties.                           *)
(***************************************************************************)

\* The pack's victim is not one of the pack.
Outsider(n) == n.wolfKillTargetId \in Players => role[n.wolfKillTargetId] # "werewolf"

GuardStep ==
  \E target \in Players :
    /\ phase = "night_guard" /\ target # night_state.guardLastNightProtectedId
    /\ NightStep([night_state EXCEPT !.guardProtectedId = target], witchPotions)

\* Moves and timeouts of the night that concern neither the guard nor the bottles.
OtherNightStep ==
  \E n \in NightState :
    /\ NightStep(n, witchPotions)
    /\ n.guardProtectedId = night_state.guardProtectedId
    /\ n.guardLastNightProtectedId = night_state.guardLastNightProtectedId
    /\ n.witchHealUsed = night_state.witchHealUsed
    /\ n.witchPoisonTargetId = night_state.witchPoisonTargetId
    /\ phase # "night_wolves" => n.wolfKillTargetId = night_state.wolfKillTargetId
    /\ Outsider(n)

HealStep ==
  /\ phase = "night_witch" /\ witchPotions.heal
  /\ WitchStep([night_state EXCEPT !.witchHealUsed = TRUE, !.witchActed = TRUE],
               [witchPotions EXCEPT !.heal = FALSE])

PoisonStep ==
  \E p \in alive : \E target \in alive \ {p} :
    /\ phase = "night_witch" /\ role[p] = "witch" /\ witchPotions.poison
    /\ WitchStep([night_state EXCEPT !.witchPoisonTargetId = target, !.witchActed = TRUE],
                 [witchPotions EXCEPT !.poison = FALSE])

\* No ballot names a wolf, so neither does the recount.
LEMMA RecountSparesWolves ==
  ASSUME NEW ballots, \A q \in Players : ballots[q] \in Players => role[ballots[q]] # "werewolf"
  PROVE  /\ recomputeWolfTarget(ballots) \in Players =>
              role[recomputeWolfTarget(ballots)] # "werewolf"
BY RecountType, PlayersAssumption DEF Named

LEMMA PackSparesWolves ==
  ASSUME IInv, phase \in NightPhases
  PROVE  /\ Outsider(night_state)
         /\ \A q \in Players : night_state.wolfVotes[q] \in Players =>
              role[night_state.wolfVotes[q]] # "werewolf"
<1>1. PackInOrder(state)
  BY DEF IInv, Balloted, state
<1> QED
  BY <1>1, RecountSparesWolves DEF PackInOrder, Outsider, state

LEMMA OtherNightMoves ==
  ASSUME IInv,
         \/ \E p \in Players, t \in NightTargets : WolfKill(p, t) \/ SeerCheck(p, t)
         \/ \E p \in Players : WolfSkip(p) \/ WitchPass(p)
         \/ NightStep(night_state, witchPotions)
  PROVE  OtherNightStep
<1>1. night_state \in NightState
  BY DEF IInv, TypeOK, EngineState, state
<1>2. ASSUME NEW p \in Players, NEW choice \in PlayerOrNone, MayAct(p, "night_wolves"),
             choice \in Players => role[choice] # "werewolf", CastWolfVote(p, choice)
      PROVE  OtherNightStep
  <2> DEFINE ballots == [night_state.wolfVotes EXCEPT ![p] = choice]
  <2>1. NightStep(Counted(ballots), witchPotions) /\ phase = "night_wolves"
    BY <1>2, CastWolfVoteStep DEF MayAct
  <2>2. ballots \in Ballots
    BY <1>1 DEF NightState, Ballots, PlayerOrNone
  <2>3. \A q \in Players : ballots[q] \in Players => role[ballots[q]] # "werewolf"
    <3>1. \A q \in Players : ballots[q] = IF q = p THEN choice ELSE night_state.wolfVotes[q]
      BY <1>1 DEF NightState, Ballots
    <3> HIDE DEF ballots
    <3> QED BY <1>2, <2>1, <3>1, PackSparesWolves DEF NightPhases
  <2> HIDE DEF ballots
  <2>4. Outsider(Counted(ballots))
    BY <1>1, <2>2, <2>3, CountedFields, RecountSparesWolves DEF Outsider
  <2> QED BY <1>1, <2>1, <2>2, <2>4, CountedFields DEF OtherNightStep
<1>3. ASSUME NEW p \in Players, NEW t \in NightTargets, WolfKill(p, t) PROVE OtherNightStep
  BY <1>2, <1>3, InputsAssumption DEF WolfKill, CanKill, PlayerOrNone
<1>4. ASSUME NEW p \in Players, WolfSkip(p) PROVE OtherNightStep
  BY <1>2, <1>4, PlayersAssumption DEF WolfSkip, PlayerOrNone
<1>5. ASSUME NEW p \in Players, NEW t \in NightTargets, SeerCheck(p, t) PROVE OtherNightStep
  <2> DEFINE n == [night_state EXCEPT !.seerChecked = TRUE]
  <2>1. NightStep(n, witchPotions)
    BY <1>5, SeerCheckStep, InputsAssumption
  <2>2. /\ n \in NightState
        /\ n.guardProtectedId = night_state.guardProtectedId
        /\ n.guardLastNightProtectedId = night_state.guardLastNightProtectedId
        /\ n.witchHealUsed = night_state.witchHealUsed
        /\ n.witchPoisonTargetId = night_state.witchPoisonTargetId
        /\ n.wolfKillTargetId = night_state.wolfKillTargetId
    BY <1>1 DEF NightState
  <2> HIDE DEF n
  <2>3. Outsider(n)
    BY <2>1, <2>2, PackSparesWolves DEF NightStep, Outsider
  <2> QED BY <2>1, <2>2, <2>3 DEF OtherNightStep
<1>6. ASSUME NEW p \in Players, WitchPass(p) PROVE OtherNightStep
  <2> DEFINE n == [night_state EXCEPT !.witchActed = TRUE]
  <2>1. NightStep(n, witchPotions)
    BY <1>6, WitchPassStep DEF WitchStep
  <2>2. /\ n \in NightState
        /\ n.guardProtectedId = night_state.guardProtectedId
        /\ n.guardLastNightProtectedId = night_state.guardLastNightProtectedId
        /\ n.witchHealUsed = night_state.witchHealUsed
        /\ n.witchPoisonTargetId = night_state.witchPoisonTargetId
        /\ n.wolfKillTargetId = night_state.wolfKillTargetId
    BY <1>1 DEF NightState
  <2> HIDE DEF n
  <2>3. Outsider(n)
    BY <2>1, <2>2, PackSparesWolves DEF NightStep, Outsider
  <2> QED BY <2>1, <2>2, <2>3 DEF OtherNightStep
<1>7. CASE NightStep(night_state, witchPotions)
  BY <1>1, <1>7, PackSparesWolves DEF OtherNightStep, NightStep
<1> QED
  BY <1>3, <1>4, <1>5, <1>6, <1>7

\* Every step of the engine is of one of eight kinds.
LEMMA EveryStep ==
  ASSUME IInv, [Next]_vars
  PROVE  \/ StartStep \/ QuietStep \/ DuskStep
         \/ GuardStep \/ OtherNightStep \/ HealStep \/ PoisonStep
         \/ \E p \in Players : LeaveStep(p)
<1>1. CASE Start
  BY <1>1, StartOutcome
<1>2. ASSUME NEW p \in Players, NEW t \in NightTargets, GuardProtect(p, t) PROVE GuardStep
  BY <1>2, GuardProtectStep, InputsAssumption DEF GuardStep, GuardProtect, CanProtect, MayAct
<1>3. ASSUME NEW p \in Players, NEW t \in NightTargets, WitchPoison(p, t) PROVE PoisonStep
  BY <1>3, WitchPoisonStep, InputsAssumption DEF PoisonStep, WitchPoison, CanPoison, MayAct, Actor
<1>4. ASSUME NEW p \in Players, WitchHeal(p) PROVE HealStep
  BY <1>4, WitchHealStep DEF HealStep, WitchHeal, CanHeal, MayAct
<1>5. ASSUME \/ \E p \in Players, t \in NightTargets : WolfKill(p, t) \/ SeerCheck(p, t)
             \/ \E p \in Players : WolfSkip(p) \/ WitchPass(p)
      PROVE  OtherNightStep
  BY <1>5, OtherNightMoves
<1>6. ASSUME NEW p \in Players, NEW t \in DayTargets \cup {None}, submitVote(p, t)
      PROVE  QuietStep \/ DuskStep
  BY <1>6, SubmitVoteStep, InputsAssumption DEF PlayerOrNone
<1>7. ASSUME NEW p \in Quitters, handlePlayerLeft(p) PROVE p \in Players /\ LeaveStep(p)
  BY <1>7, PlayerLeftStep, InputsAssumption
<1>8. ASSUME NEW t \in TimedPhases, PhaseTimeout(t)
      PROVE  OtherNightStep \/ QuietStep \/ DuskStep
  BY <1>8, TimeoutStep, OtherNightMoves
<1>9. CASE destroy \/ UNCHANGED vars
  BY <1>9 DEF destroy, vars, QuietStep, SameRecord, state
<1> QED
  BY <1>1, <1>2, <1>3, <1>4, <1>5, <1>6, <1>7, <1>8, <1>9 DEF Next

LEMMA FreshNight ==
  ASSUME NEW last
  PROVE  Guarded(freshNightState(last)) /\ Sealed(freshNightState(last))
BY DEF Guarded, Sealed, freshNightState

\* A departure withdraws a ballot and leaves the rest of the record alone.
LEMMA Withdrawn ==
  ASSUME IInv, NEW p
  PROVE  LET n == Counted([night_state.wolfVotes EXCEPT ![p] = Undecided])
         IN  /\ n.guardProtectedId = night_state.guardProtectedId
             /\ n.guardLastNightProtectedId = night_state.guardLastNightProtectedId
             /\ n.witchHealUsed = night_state.witchHealUsed
             /\ n.witchPoisonTargetId = night_state.witchPoisonTargetId
<1>1. night_state \in NightState
  BY DEF IInv, TypeOK, EngineState, state
<1>2. [night_state.wolfVotes EXCEPT ![p] = Undecided] \in Ballots
  BY <1>1 DEF NightState, Ballots
<1> QED
  BY <1>1, <1>2, CountedFields

LEMMA NightInvStep == IInv /\ NightInv /\ [Next]_vars => NightInv'
<1> SUFFICES ASSUME IInv, NightInv, [Next]_vars PROVE NightInv'
  OBVIOUS
<1>1. night_state \in NightState
  BY DEF IInv, TypeOK, EngineState, state
<1>2. CASE StartStep
  <2>1. night_state' = freshNightState(None)
    BY <1>2 DEF StartStep, SameRecord, IInv, state
  <2> QED BY <2>1, FreshNight DEF NightInv
<1>3. CASE QuietStep
  BY <1>3 DEF QuietStep, SameRecord, NightInv, NightPhases, state
<1>4. CASE DuskStep
  <2>1. CASE winner' = "none"
    BY <1>4, <2>1, FreshNight DEF DuskStep, NightInv
  <2>2. CASE winner' # "none"
    BY <1>4, <2>2 DEF DuskStep, Buried, NightInv, NightPhases, state
  <2> QED BY <2>1, <2>2
<1>5. CASE GuardStep
  BY <1>1, <1>5 DEF GuardStep, NightStep, NightInv, Guarded, Sealed, NightState
<1>6. CASE OtherNightStep
  BY <1>6 DEF OtherNightStep, NightStep, NightInv, Guarded, Sealed
<1>7. CASE HealStep \/ PoisonStep
  <2>1. PICK n, b : WitchStep(n, b) /\ Guarded(n)
    <3>1. CASE HealStep
      <4>1. Guarded([night_state EXCEPT !.witchHealUsed = TRUE, !.witchActed = TRUE])
        BY <1>1 DEF NightInv, Guarded, NightState
      <4> QED BY <3>1, <4>1 DEF HealStep
    <3>2. CASE PoisonStep
      <4>1. \A t : Guarded([night_state EXCEPT !.witchPoisonTargetId = t, !.witchActed = TRUE])
        BY <1>1 DEF NightInv, Guarded, NightState
      <4> QED BY <3>2, <4>1 DEF PoisonStep
    <3> QED BY <1>7, <3>1, <3>2
  <2> QED BY <2>1 DEF WitchStep, NightStep, Buried, NightInv, NightPhases, state
<1>8. ASSUME NEW p \in Players, LeaveStep(p) PROVE NightInv'
  <2> DEFINE n == Counted([night_state.wolfVotes EXCEPT ![p] = Undecided])
  <2>1. Guarded(n) /\ (phase \in NightPhases => Sealed(n))
    BY Withdrawn DEF NightInv, Guarded, Sealed
  <2> HIDE DEF n
  <2>2. CASE LeftAtNight(p)
    BY <2>1, <2>2 DEF LeftAtNight, NightInv, n
  <2>3. CASE LeftByDay(p)
    <3>1. \/ phase' \notin NightPhases /\ night_state' = n
          \/ night_state' = freshNightState(n.guardProtectedId)
      BY <2>3 DEF LeftByDay, Buried, NightPhases, state, n
    <3> QED BY <2>1, <3>1, FreshNight DEF NightInv
  <2> QED BY <1>8, <2>2, <2>3 DEF LeaveStep
<1> QED
  BY <1>2, <1>3, <1>4, <1>5, <1>6, <1>7, <1>8, EveryStep

LEMMA NightInvariance == Spec => [](IInv /\ NightInv)
<1>1. Init => NightInv
  BY FreshNight DEF Init, NightInv
<1> QED
  BY <1>1, InitInv, StepInv, NightInvStep, PTL DEF Spec

\* The guard never shields one player two nights in a row, and each dusk hands the
\* protection of the past night on to the next, through every cascade of the engine.
THEOREM ShieldMovesOn == Spec => GuardNeverRepeats
<1> DEFINE A == /\ night_state'.guardProtectedId # None =>
                     night_state'.guardProtectedId # night_state'.guardLastNightProtectedId
                /\ phase = "day_main" /\ phase' \in NightPhases =>
                     night_state'.guardLastNightProtectedId = night_state.guardProtectedId
                /\ phase' \notin NightPhases \/ phase \in NightPhases =>
                     night_state'.guardLastNightProtectedId = night_state.guardLastNightProtectedId
<1>1. IInv /\ NightInv /\ [Next]_vars /\ NightInv' => A
  <2> SUFFICES ASSUME IInv, NightInv, [Next]_vars, NightInv' PROVE A
    OBVIOUS
  <2>1. night_state \in NightState
    BY DEF IInv, TypeOK, EngineState, state
  <2>2. night_state'.guardProtectedId # None =>
          night_state'.guardProtectedId # night_state'.guardLastNightProtectedId
    BY DEF NightInv, Guarded
  <2>3. CASE StartStep
    BY <2>2, <2>3 DEF StartStep, SameRecord, GoesOn, NightPhases, state
  <2>4. CASE QuietStep
    BY <2>2, <2>4 DEF QuietStep, SameRecord, NightPhases, state
  <2>5. CASE DuskStep
    BY <2>2, <2>5 DEF DuskStep, Buried, freshNightState, NightPhases, state
  <2>6. CASE GuardStep
    BY <2>1, <2>2, <2>6 DEF GuardStep, NightStep, NightState, NightPhases
  <2>7. CASE OtherNightStep
    BY <2>2, <2>7 DEF OtherNightStep, NightStep, NightPhases
  <2>8. CASE HealStep \/ PoisonStep
    BY <2>1, <2>2, <2>8 DEF HealStep, PoisonStep, WitchStep, NightStep, NightState, NightPhases
  <2>9. ASSUME NEW p \in Players, LeaveStep(p) PROVE A
    <3> DEFINE n == Counted([night_state.wolfVotes EXCEPT ![p] = Undecided])
    <3>1. /\ n.guardProtectedId = night_state.guardProtectedId
          /\ n.guardLastNightProtectedId = night_state.guardLastNightProtectedId
      BY Withdrawn
    <3> HIDE DEF n
    <3>2. CASE LeftAtNight(p)
      BY <2>2, <3>1, <3>2 DEF LeftAtNight, NightPhases, n
    <3>3. CASE LeftByDay(p)
      BY <2>2, <3>1, <3>3 DEF LeftByDay, Buried, freshNightState, NightPhases, state, n
    <3> QED BY <2>9, <3>2, <3>3 DEF LeaveStep
  <2> QED
    BY <2>3, <2>4, <2>5, <2>6, <2>7, <2>8, <2>9, EveryStep
<1> QED
  BY <1>1, NightInvariance, PTL DEF Spec, GuardNeverRepeats

\* A deal holds one witch at most.
LEMMA OneWitch ==
  ASSUME IInv, NEW p \in Players, NEW q \in Players, role[p] = "witch", role[q] = "witch"
  PROVE  p = q
<1> DEFINE W == {x \in Players : role[x] = "witch"}
<1>1. Cardinality(W) = computeRoleDistribution(Cardinality(Players)).witch
  BY DealsAssumption DEF IInv, assignRoles, Roles
<1>2. IsFiniteSet(W) /\ Cardinality(W) \in Nat /\ Cardinality(W) <= 1
  BY <1>1, PlayersAssumption, FS_Subset, FS_CardinalityType DEF computeRoleDistribution
<1>3. p \in W /\ q \in W
  OBVIOUS
<1> HIDE DEF W
<1>4. Cardinality(W) = 1
  <2>1. Cardinality(W) # 0
    BY <1>2, <1>3, FS_EmptySet
  <2> QED BY <1>2, <2>1
<1>5. \E x : W = {x}
  BY <1>2, <1>4, FS_Singleton
<1> QED
  BY <1>3, <1>5

\* A bottle is emptied once and does its work by dawn: the antidote's night kills
\* nobody, the poison's kills its target, never the witch, and at most the pack's
\* victim besides.
THEOREM PotionsKeepTheirPromise == Spec => PotionsWorkOnce
<1> DEFINE A == /\ \A bottle \in {"heal", "poison"} : witchPotions'[bottle] => witchPotions[bottle]
                /\ Emptied("heal") => alive' = alive /\ phase' = "day_reveal"
                /\ Emptied("poison") => \E t \in alive \ alive' :
                     /\ role[t] # "witch"
                     /\ alive \ alive' \subseteq
                          {t} \cup ({night_state.wolfKillTargetId} \ {night_state.guardProtectedId})
<1>1. IInv /\ NightInv /\ [Next]_vars => A
  <2> SUFFICES ASSUME IInv, NightInv, [Next]_vars PROVE A
    OBVIOUS
  <2>1. night_state \in NightState /\ witchPotions \in Bottles /\ alive \subseteq Players
    BY DEF IInv, TypeOK, EngineState, Bottles, state
  <2>2. CASE witchPotions' = witchPotions
    BY <2>2 DEF Emptied
  <2>3. CASE HealStep
    <3> DEFINE n == [night_state EXCEPT !.witchHealUsed = TRUE, !.witchActed = TRUE]
               b == [witchPotions EXCEPT !.heal = FALSE]
    <3>1. /\ WitchStep(n, b) /\ n.witchHealUsed /\ n.witchPoisonTargetId = None
          /\ ~b.heal /\ b.poison = witchPotions.poison /\ phase \in NightPhases
      BY <2>1, <2>3 DEF HealStep, NightInv, Sealed, NightState, Bottles, NightPhases
    <3> HIDE DEF n, b
    <3>2. computeNightDeaths(state') = {}
      BY <3>1 DEF WitchStep, NightStep, computeNightDeaths, state
    <3>3. alive' = alive
      BY <3>1, <3>2 DEF WitchStep, Buried, state
    <3>4. checkWinner(state') = "none"
      <4>1. checkWinner(state) = "none"
        BY <3>1 DEF IInv, Settled, TimedPhases, state
      <4>2. state.alive = state'.alive
        BY <3>3 DEF state
      <4> QED BY <4>1, <4>2, VerdictOfTheLiving
    <3>5. phase' = "day_reveal"
      BY <3>1, <3>4 DEF WitchStep, Buried, state
    <3>6. witchPotions' = b
      BY <3>1 DEF WitchStep, NightStep
    <3> QED BY <3>1, <3>3, <3>5, <3>6 DEF Emptied
  <2>4. CASE PoisonStep
    <3>1. PICK p \in alive : \E target \in alive \ {p} :
            /\ phase = "night_witch" /\ role[p] = "witch"
            /\ WitchStep([night_state EXCEPT !.witchPoisonTargetId = target, !.witchActed = TRUE],
                         [witchPotions EXCEPT !.poison = FALSE])
      BY <2>4 DEF PoisonStep
    <3>2. PICK target \in alive \ {p} :
            /\ phase = "night_witch"
            /\ WitchStep([night_state EXCEPT !.witchPoisonTargetId = target, !.witchActed = TRUE],
                         [witchPotions EXCEPT !.poison = FALSE])
      BY <3>1
    <3> DEFINE n == [night_state EXCEPT !.witchPoisonTargetId = target, !.witchActed = TRUE]
               b == [witchPotions EXCEPT !.poison = FALSE]
    <3>3. /\ n.witchPoisonTargetId = target /\ n.wolfKillTargetId = night_state.wolfKillTargetId
          /\ n.guardProtectedId = night_state.guardProtectedId
          /\ ~b.poison /\ b.heal = witchPotions.heal
      BY <2>1 DEF NightState, Bottles
    <3>4. night_state' = n /\ witchPotions' = b /\ alive' = alive \ computeNightDeaths(state')
      BY <3>2 DEF WitchStep, NightStep, Buried, state
    <3> HIDE DEF n, b
    <3>5. /\ target \in computeNightDeaths(state')
          /\ computeNightDeaths(state') \subseteq
               {target} \cup ({night_state.wolfKillTargetId} \ {night_state.guardProtectedId})
      BY <2>1, <3>3, <3>4, PlayersAssumption DEF computeNightDeaths, state
    <3>6. role[target] # "witch"
      BY <2>1, <3>1, <3>2, OneWitch
    <3> QED BY <3>3, <3>4, <3>5, <3>6 DEF Emptied
  <2>5. StartStep \/ QuietStep \/ DuskStep \/ GuardStep \/ OtherNightStep => witchPotions' = witchPotions
    BY DEF StartStep, QuietStep, DuskStep, GuardStep, OtherNightStep, NightStep, SameRecord, state
  <2>6. \A p \in Players : LeaveStep(p) => witchPotions' = witchPotions
    BY DEF LeaveStep
  <2> QED
    BY <2>2, <2>3, <2>4, <2>5, <2>6, EveryStep
<1> QED
  BY <1>1, NightInvariance, PTL DEF Spec, PotionsWorkOnce

\* Once the pack has decided, only the departure of a living wolf changes its victim
\* in the same night: whoever else leaves, the recount gives the same answer.
THEOREM TheKillStands == Spec => OnlyADepartureReopensTheKill
<1> DEFINE A == (/\ {phase, phase'} \subseteq {"night_seer", "night_witch"}
                 /\ night_state'.wolfKillTargetId # night_state.wolfKillTargetId)
                => \E w \in alive \ alive' : role[w] = "werewolf"
<1>1. IInv /\ [Next]_vars => A
  <2> SUFFICES ASSUME IInv, [Next]_vars, {phase, phase'} \subseteq {"night_seer", "night_witch"},
                      night_state'.wolfKillTargetId # night_state.wolfKillTargetId
               PROVE  \E w \in alive \ alive' : role[w] = "werewolf"
    OBVIOUS
  <2>1. night_state \in NightState /\ phase \in NightPhases /\ PackInOrder(state)
    BY DEF IInv, TypeOK, EngineState, Balloted, NightPhases, state
  <2>2. ~StartStep /\ ~QuietStep /\ ~DuskStep
    BY DEF StartStep, QuietStep, DuskStep, SameRecord, state
  <2>3. ~GuardStep /\ ~OtherNightStep
    BY <2>1 DEF GuardStep, OtherNightStep, NightStep
  <2>4. ~HealStep /\ ~PoisonStep
    BY <2>1 DEF HealStep, PoisonStep, WitchStep, NightStep, NightState
  <2>5. PICK p \in Players : LeaveStep(p)
    BY <2>2, <2>3, <2>4, EveryStep
  <2> DEFINE ballots == [night_state.wolfVotes EXCEPT ![p] = Undecided]
  <2>6. /\ p \in alive \ alive'
        /\ night_state'.wolfKillTargetId = recomputeWolfTarget(ballots)
    <3>1. LeftAtNight(p)
      BY <2>5 DEF LeaveStep, LeftByDay
    <3>2. ballots \in Ballots
      BY <2>1 DEF NightState, Ballots
    <3>3. p \in alive \ alive'
      BY <2>5, <3>1 DEF LeaveStep, LeftAtNight, Buried, state
    <3> HIDE DEF ballots
    <3>4. Counted(ballots).wolfKillTargetId = recomputeWolfTarget(ballots)
      BY <2>1, <3>2, CountedFields
    <3> QED BY <3>1, <3>3, <3>4 DEF LeftAtNight, ballots
  <2>7. ASSUME role[p] # "werewolf" PROVE FALSE
    <3>1. night_state.wolfVotes[p] = Undecided
      BY <2>1, <2>7 DEF PackInOrder, AliveAs, state
    <3>2. ballots = night_state.wolfVotes
      BY <2>1, <3>1 DEF NightState, Ballots
    <3> QED BY <2>1, <2>6, <3>2 DEF PackInOrder, state
  <2> QED BY <2>6, <2>7
<1> QED
  BY <1>1, Invariance, PTL DEF Spec, OnlyADepartureReopensTheKill

(***************************************************************************)
(* GameEngine implements WerewolfGame: its initial states are initial      *)
(* states of the game the players were promised, and each of the eight     *)
(* kinds of step is one step of that game or leaves it where it was.       *)
(***************************************************************************)

\* The game counts as the engine does.
LEMMA SameCount ==
  ASSUME NEW S
  PROVE  Game!Cardinality(S) = Cardinality(S)
BY Zenon DEF Game!Cardinality, Cardinality

LEMMA SameVerdict ==
  ASSUME NEW s
  PROVE  Game!Verdict(s.alive) = checkWinner(s)
<1>1. Game!WolvesIn(s.alive) = AliveAs(s, "werewolf")
  BY DEF Game!WolvesIn, AliveAs
<1> QED
  BY <1>1, SameCount DEF Game!Verdict, checkWinner

\* The stage a set of phases belongs to.
StageIs(days, next) ==
  \/ days \subseteq NightPhases /\ next = "night"
  \/ days \subseteq {"day_reveal", "day_main"} /\ next = "day"

LEMMA Burial ==
  ASSUME NEW dead, NEW days, NEW next, StageIs(days, next),
         Buried(state, dead, days, state')
  PROVE  Game!Bury(dead, next)
<1>1. /\ alive' = alive \ dead /\ winner' = checkWinner(state')
      /\ phase' \in IF winner' = "none" THEN days ELSE {"ended"}
  BY DEF Buried, state
<1>2. winner' = Game!Verdict(alive')
  BY <1>1, SameVerdict DEF state
<1>3. Stage' = IF winner' = "none" THEN next ELSE "over"
  BY <1>1 DEF StageIs, Stage, NightPhases
<1> QED
  BY <1>1, <1>2, <1>3 DEF Game!Bury

\* What the pack buries at dawn is nobody, or one player who is not of the pack.
LEMMA PackBites ==
  ASSUME alive \subseteq Players, NEW s, Outsider(s.night_state), NEW bitten,
         bitten \subseteq {s.night_state.wolfKillTargetId} \cap alive
  PROVE  bitten \in Game!Bites
BY DEF Outsider, Game!Bites, Game!Nobody, Game!OneOf, Game!WolvesIn

LEMMA DawnRefines ==
  ASSUME phase \in NightPhases, alive \subseteq Players, role' = role,
         Buried(state, computeNightDeaths(state'), {"day_reveal"}, state'),
         night_state'.witchPoisonTargetId = None, Outsider(night_state'),
         witchPotions'.poison = witchPotions.poison
  PROVE  Game!Dawn
<1> DEFINE bitten == computeNightDeaths(state') \cap alive
<1>1. bitten \in Game!Bites
  <2>1. bitten \subseteq {state'.night_state.wolfKillTargetId} \cap alive
    BY DEF computeNightDeaths, state
  <2>2. Outsider(state'.night_state)
    BY DEF state
  <2> HIDE DEF bitten
  <2> QED BY <2>1, <2>2, PackBites
<1>2. Buried(state, bitten, {"day_reveal"}, state')
  BY DEF Buried, state
<1> HIDE DEF bitten
<1>3. Game!Bury(bitten, "day")
  BY <1>2, Burial DEF StageIs
<1>4. Stage = "night"
  BY DEF Stage, NightPhases
<1> QED
  BY <1>1, <1>3, <1>4 DEF Game!Dawn

LEMMA PoisonRefines ==
  ASSUME IInv, NightInv, PoisonStep
  PROVE  Game!PoisonedDawn
<1>1. /\ night_state \in NightState /\ alive \subseteq Players /\ witchPotions \in Bottles
      /\ phase \in NightPhases /\ phase = "night_witch" /\ Outsider(night_state)
  BY PackSparesWolves DEF IInv, TypeOK, EngineState, Bottles, PoisonStep, NightPhases, state
<1>2. PICK p \in alive : \E target \in alive \ {p} :
        /\ role[p] = "witch" /\ witchPotions.poison
        /\ WitchStep([night_state EXCEPT !.witchPoisonTargetId = target, !.witchActed = TRUE],
                     [witchPotions EXCEPT !.poison = FALSE])
  BY DEF PoisonStep
<1>3. PICK target \in alive \ {p} :
        /\ witchPotions.poison
        /\ WitchStep([night_state EXCEPT !.witchPoisonTargetId = target, !.witchActed = TRUE],
                     [witchPotions EXCEPT !.poison = FALSE])
  BY <1>2
<1> DEFINE n == [night_state EXCEPT !.witchPoisonTargetId = target, !.witchActed = TRUE]
           b == [witchPotions EXCEPT !.poison = FALSE]
           bitten == (computeNightDeaths(state') \ {target}) \cap alive
<1>4. /\ n.witchPoisonTargetId = target /\ n.wolfKillTargetId = night_state.wolfKillTargetId
      /\ b.poison = FALSE
  BY <1>1 DEF NightState, Bottles
<1>5. /\ role' = role /\ night_state' = n /\ witchPotions' = b
      /\ Buried(state, computeNightDeaths(state'), {"day_reveal"}, state')
  BY <1>3 DEF WitchStep, NightStep
<1> HIDE DEF n, b
<1>6. target \in computeNightDeaths(state')
  BY <1>1, <1>4, <1>5, PlayersAssumption DEF computeNightDeaths, state
<1>7. bitten \in Game!Bites
  <2>1. bitten \subseteq {state'.night_state.wolfKillTargetId} \cap alive
    BY <1>4, <1>5 DEF computeNightDeaths, state
  <2>2. Outsider(state'.night_state)
    BY <1>1, <1>4, <1>5 DEF Outsider, state
  <2> HIDE DEF bitten
  <2> QED BY <1>1, <2>1, <2>2, PackBites
<1>8. Buried(state, bitten \cup {target}, {"day_reveal"}, state')
  BY <1>5, <1>6 DEF Buried, state
<1> HIDE DEF bitten
<1>9. Game!Bury(bitten \cup {target}, "day")
  BY <1>8, Burial DEF StageIs
<1>10. Stage = "night"
  BY <1>1 DEF Stage, NightPhases
<1>11. role[target] # "witch"
  BY <1>1, <1>2, <1>3, OneWitch
<1> QED
  BY <1>3, <1>4, <1>5, <1>7, <1>9, <1>10, <1>11 DEF Game!PoisonedDawn

LEMMA LeaveRefines ==
  ASSUME IInv, NightInv, NEW p \in Players, LeaveStep(p)
  PROVE  Game!Leave(p)
<1> DEFINE ballots == [night_state.wolfVotes EXCEPT ![p] = Undecided]
<1>1. night_state \in NightState /\ alive \subseteq Players
  BY DEF IInv, TypeOK, EngineState, state
<1>2. p \in alive /\ role' = role /\ witchPotions' = witchPotions
  BY DEF LeaveStep
<1>3. CASE LeftAtNight(p) /\ Buried(state, {p}, NightPhases, state')
  <2>1. Stage = "night"
    BY <1>3 DEF LeftAtNight, Stage, NightPhases
  <2>2. Game!Bury({p}, "night")
    BY <1>3, Burial DEF StageIs
  <2> QED BY <1>2, <2>1, <2>2 DEF Game!Leave
<1>4. CASE /\ LeftAtNight(p)
           /\ Buried(state, {p} \cup computeNightDeaths(state'), {"day_reveal"}, state')
  <2> DEFINE bitten == computeNightDeaths(state') \cap alive
  <2>1. Stage = "night"
    BY <1>4 DEF LeftAtNight, Stage, NightPhases
  <2>2. ballots \in Ballots /\ phase \in NightPhases
    BY <1>1, <1>4 DEF LeftAtNight, NightState, Ballots
  <2>3. \A q \in Players : ballots[q] \in Players => role[ballots[q]] # "werewolf"
    <3>1. \A q \in Players : ballots[q] = IF q = p THEN Undecided ELSE night_state.wolfVotes[q]
      BY <1>1 DEF NightState, Ballots
    <3> HIDE DEF ballots
    <3> QED BY <2>2, <3>1, PackSparesWolves, PlayersAssumption
  <2> HIDE DEF ballots
  <2>4. /\ Outsider(Counted(ballots))
        /\ Counted(ballots).witchPoisonTargetId = None
    BY <1>1, <2>2, <2>3, CountedFields, RecountSparesWolves DEF Outsider, NightInv, Sealed
  <2>5. state'.night_state = Counted(ballots)
    BY <1>4 DEF LeftAtNight, ballots, state
  <2>6. bitten \subseteq {state'.night_state.wolfKillTargetId} \cap alive
    BY <2>4, <2>5 DEF computeNightDeaths
  <2>7. Buried(state, {p} \cup bitten, {"day_reveal"}, state')
    BY <1>4 DEF Buried, state
  <2> HIDE DEF bitten
  <2>8. bitten \in Game!Bites
    BY <1>1, <2>4, <2>5, <2>6, PackBites
  <2>9. Game!Bury({p} \cup bitten, "day")
    BY <2>7, Burial DEF StageIs
  <2> QED BY <1>2, <2>1, <2>8, <2>9 DEF Game!Leave
<1>5. CASE LeftByDay(p) /\ Buried(state, {p}, {phase}, state')
  <2>1. Stage = "day" /\ StageIs({phase}, "day")
    BY <1>5 DEF LeftByDay, Stage, StageIs, NightPhases
  <2>2. Game!Bury({p}, "day")
    BY <1>5, <2>1, Burial
  <2> QED BY <1>2, <2>1, <2>2 DEF Game!Leave
<1>6. CASE LeftByDay(p) /\ Buried(state, {p}, NightPhases, state')
  <2>1. Stage = "day"
    BY <1>6 DEF LeftByDay, Stage, NightPhases
  <2>2. Game!Bury({p}, "night")
    BY <1>6, Burial DEF StageIs
  <2> QED BY <1>2, <2>1, <2>2 DEF Game!Leave
<1> QED
  BY <1>3, <1>4, <1>5, <1>6 DEF LeaveStep, LeftAtNight, LeftByDay

LEMMA DuskRefines ==
  ASSUME IInv, DuskStep
  PROVE  Game!Dusk
<1>1. PICK hanged \in {{}} \cup {{q} : q \in Players} : Buried(state, hanged, NightPhases, state')
  BY DEF DuskStep
<1>2. hanged \cap alive \in Game!Nobody \cup Game!OneOf(alive)
  BY DEF Game!Nobody, Game!OneOf
<1>3. Buried(state, hanged \cap alive, NightPhases, state')
  BY <1>1 DEF Buried, state
<1>4. Game!Bury(hanged \cap alive, "night")
  BY <1>3, Burial DEF StageIs
<1>5. Stage = "day" /\ role' = role /\ witchPotions' = witchPotions
  BY DEF DuskStep, Stage, NightPhases
<1> QED
  BY <1>2, <1>4, <1>5 DEF Game!Dusk

\* A night that goes on leaves the game where it was.
LEMMA NightGoesOn ==
  ASSUME IInv, phase \in NightPhases, GoesOn(state, state'), role' = role,
         witchPotions'.poison = witchPotions.poison
  PROVE  UNCHANGED Game!vars
<1>1. winner = "none"
  BY DEF IInv, Settled, TimedPhases, state
<1>2. alive' = alive /\ winner' = winner /\ Stage = "night" /\ Stage' = "night"
  BY <1>1 DEF GoesOn, Stage, NightPhases, state
<1> QED
  BY <1>2 DEF Game!vars

LEMMA StepRefines == IInv /\ NightInv /\ [Next]_vars => [Game!Next]_Game!vars
<1> SUFFICES ASSUME IInv, NightInv, [Next]_vars PROVE [Game!Next]_Game!vars
  OBVIOUS
<1>1. /\ night_state \in NightState /\ alive \subseteq Players /\ witchPotions \in Bottles
  BY DEF IInv, TypeOK, EngineState, Bottles, state
<1>2. CASE StartStep
  <2>1. winner = "none"
    BY <1>2 DEF StartStep, IInv, Settled, state
  <2>2. /\ Stage = "lobby" /\ Stage' = "night" /\ alive' = alive /\ winner' = winner
        /\ witchPotions' = witchPotions /\ role' = role
    BY <1>2, <2>1 DEF StartStep, GoesOn, SameRecord, Stage, NightPhases, state
  <2>3. Cardinality(Players) >= Game!MIN_PLAYERS_TO_START
    BY <1>2 DEF StartStep, MIN_PLAYERS_TO_START, Game!MIN_PLAYERS_TO_START
  <2>4. Game!Begin
    BY <2>2, <2>3, SameCount DEF Game!Begin
  <2> QED
    BY <2>4 DEF Game!Next
<1>3. CASE QuietStep
  <2>1. Stage' = Stage
    BY <1>3 DEF QuietStep, Stage, NightPhases
  <2> QED BY <1>3, <2>1 DEF QuietStep, SameRecord, Game!vars, state
<1>4. CASE DuskStep
  BY <1>4, DuskRefines DEF Game!Next
<1>5. ASSUME NEW n, NEW b, NightStep(n, b), b.poison = witchPotions.poison,
             n.witchPoisonTargetId = None, Outsider(n)
      PROVE  Game!Next \/ UNCHANGED Game!vars
  <2>1. /\ phase \in NightPhases /\ role' = role /\ night_state' = n
        /\ witchPotions'.poison = witchPotions.poison
    BY <1>5 DEF NightStep
  <2>2. CASE GoesOn(state, state')
    BY <2>1, <2>2, NightGoesOn
  <2>3. CASE Buried(state, computeNightDeaths(state'), {"day_reveal"}, state')
    BY <1>1, <1>5, <2>1, <2>3, DawnRefines DEF Game!Next
  <2> QED BY <1>5, <2>2, <2>3 DEF NightStep
<1>6. CASE GuardStep
  <2>1. PICK target : NightStep([night_state EXCEPT !.guardProtectedId = target], witchPotions)
    BY <1>6 DEF GuardStep
  <2> DEFINE n == [night_state EXCEPT !.guardProtectedId = target]
  <2>2. phase \in NightPhases
    BY <2>1 DEF NightStep
  <2>3. n.witchPoisonTargetId = None /\ Outsider(n)
    BY <1>1, <2>2, PackSparesWolves DEF NightInv, Sealed, Outsider, NightState
  <2> HIDE DEF n
  <2> QED BY <1>5, <2>1, <2>3 DEF n
<1>7. CASE OtherNightStep
  <2>1. PICK n : /\ NightStep(n, witchPotions) /\ Outsider(n)
                 /\ n.witchPoisonTargetId = night_state.witchPoisonTargetId
    BY <1>7 DEF OtherNightStep
  <2>2. n.witchPoisonTargetId = None
    BY <2>1 DEF NightStep, NightInv, Sealed
  <2> QED BY <1>5, <2>1, <2>2
<1>8. CASE HealStep
  <2> DEFINE n == [night_state EXCEPT !.witchHealUsed = TRUE, !.witchActed = TRUE]
             b == [witchPotions EXCEPT !.heal = FALSE]
  <2>1. NightStep(n, b)
    BY <1>8 DEF HealStep, WitchStep
  <2>2. phase \in NightPhases
    BY <2>1 DEF NightStep
  <2>3. n.witchPoisonTargetId = None /\ Outsider(n) /\ b.poison = witchPotions.poison
    BY <1>1, <2>2, PackSparesWolves DEF NightInv, Sealed, Outsider, NightState, Bottles
  <2> HIDE DEF n, b
  <2> QED BY <1>5, <2>1, <2>3
<1>9. CASE PoisonStep
  BY <1>9, PoisonRefines DEF Game!Next
<1>10. ASSUME NEW p \in Players, LeaveStep(p) PROVE Game!Next
  BY <1>10, LeaveRefines DEF Game!Next
<1> QED
  BY <1>2, <1>3, <1>4, <1>6, <1>7, <1>8, <1>9, <1>10, EveryStep

\* The engine, with its phases, ballots, timers and cascades, plays the game its
\* players were promised: nobody comes back, a night buries at most one victim of
\* the pack, who is no wolf, and the poisoned, a day hangs at most one, whoever
\* leaves only leaves, and the first deciding death ends the game for good.
THEOREM EngineImplementsGame == Spec => ImplementsGame
<1>1. Init => Game!Init
  <2>1. phase = "lobby" => Stage = "lobby"
    BY DEF Stage, NightPhases
  <2> QED BY <2>1 DEF Init, Game!Init
<1> QED
  BY <1>1, StepRefines, NightInvariance, PTL DEF Spec, ImplementsGame, Game!Spec
===============================================================================
