------------------------------ MODULE GameEngine ------------------------------
(***************************************************************************)
(* One GameEngine object: the phase machine of a game, its night actions,  *)
(* the day vote, departures, and the one setTimeout that drives it.        *)
(*                                                                         *)
(* A handler of the engine is synchronous and cascades: a wolf's vote may  *)
(* close the phase, resolve the night and end the game in one call.  Each  *)
(* method is therefore an operator from engine state to engine state (the  *)
(* record `state' gathers the variables a method may change), and each     *)
(* action is one whole handler: its early returns are its guard and its    *)
(* cascade is the operator applied in Become.                              *)
(*                                                                         *)
(* Definitions named after another one and a slip (clearPhaseTimer_Leaks)   *)
(* are not part of the specification: each is a mistake one could make in  *)
(* the code it is named after, and breaks the property that guards it.     *)
(*                                                                         *)
(* Left out: nicknames, log texts, phaseEndsAt and the night counter, none *)
(* of which the code ever reads back.                                      *)
(***************************************************************************)
EXTENDS RoleDistribution

CONSTANTS
  Players,       \* ids of the players handed to the constructor
  Deals,         \* the deals to explore
  None,          \* the null of the code, where a player id may stand
  Undecided,     \* the absent key of the two ballot records
  NightTargets,  \* players a night action may name   (bounds the inputs)
  DayTargets,    \* players a day vote may name       (bounds the inputs)
  Quitters       \* players who may leave the room    (bounds the inputs)

ASSUME PlayersAssumption ==
  /\ IsFiniteSet(Players)
  /\ None \notin Players
  /\ Undecided \notin Players \cup {None}
ASSUME DealsAssumption == Deals \subseteq assignRoles(Players)
ASSUME InputsAssumption ==
  /\ NightTargets \subseteq Players
  /\ DayTargets \subseteq Players
  /\ Quitters \subseteq Players

VARIABLES
  role,         \* player -> role, fixed by the constructor
  alive,        \* the players whose alive flag is set
  phase,        \* this.phase; this.ended holds exactly when it is "ended"
  timers,       \* outstanding setTimeout callbacks, named by the phase that armed them
  phaseTimer,   \* the handle the engine keeps, "none" for null
  votes,        \* player -> id | None (skip) | Undecided (no key)
  night_state,  \* the record of the current night
  witchPotions, \* the two bottles
  winner,       \* "none" until endGame
  witchView,    \* the victim named in the last witch_view message
  live          \* the sessions still hold this engine (it was not destroyed)

vars == <<role, alive, phase, timers, phaseTimer, votes, night_state,
          witchPotions, winner, witchView, live>>

NightPhases == {"night_guard", "night_wolves", "night_seer", "night_witch"}
TimedPhases == NightPhases \cup {"day_reveal", "day_main"}
Phases      == TimedPhases \cup {"lobby", "ended"}

\* NIGHT_PHASE_ORDER, with the lobby before all of it.
Rank == [lobby |-> 0, night_guard |-> 1, night_wolves |-> 2, night_seer |-> 3,
         night_witch |-> 4]

Actor == [night_guard |-> "guard", night_wolves |-> "werewolf",
          night_seer |-> "seer", night_witch |-> "witch"]

state == [alive |-> alive, phase |-> phase, timers |-> timers,
          phaseTimer |-> phaseTimer, votes |-> votes, night_state |-> night_state,
          witchPotions |-> witchPotions, winner |-> winner, witchView |-> witchView]

Become(next) ==
  \E s \in {next} :
    /\ alive' = s.alive
    /\ phase' = s.phase
    /\ timers' = s.timers
    /\ phaseTimer' = s.phaseTimer
    /\ votes' = s.votes
    /\ night_state' = s.night_state
    /\ witchPotions' = s.witchPotions
    /\ winner' = s.winner
    /\ witchView' = s.witchView
    /\ UNCHANGED <<role, live>>

NoBallots == [p \in Players |-> Undecided]

freshNightState(lastProtected) ==
  [guardProtectedId |-> None, guardLastNightProtectedId |-> lastProtected,
   wolfKillTargetId |-> None, wolfVotes |-> NoBallots, seerChecked |-> FALSE,
   witchHealUsed |-> FALSE, witchPoisonTargetId |-> None, witchActed |-> FALSE]
-------------------------------------------------------------------------------
(***************************************************************************)
(* Counting                                                                *)
(***************************************************************************)

Named(ballots) == {ballots[p] : p \in Players} \cap Players

Tally(ballots, choice) == Cardinality({p \in Players : ballots[p] = choice})

\* The player with strictly more votes than any other, if there is one.
Top(ballots) == {t \in Named(ballots) : \A u \in Named(ballots) \ {t} :
                                          Tally(ballots, u) < Tally(ballots, t)}

\* Slip: the wolves who have not voted yet are counted as one more choice.
recomputeWolfTarget_CountsUndecided(ballots) ==
  LET top == {t \in {ballots[p] : p \in Players} :
                \A u \in {ballots[p] : p \in Players} \ {t} : Tally(ballots, u) < Tally(ballots, t)}
  IN  IF top = {} THEN None ELSE CHOOSE t \in top : TRUE

\* A tie at the top, or as many skips as votes for the top, and nobody is bitten.
recomputeWolfTarget(ballots) ==
  LET bitten == {t \in Top(ballots) : Tally(ballots, None) < Tally(ballots, t)}
  IN  IF bitten = {} THEN None ELSE CHOOSE t \in bitten : TRUE

AliveAs(s, r) == {p \in s.alive : role[p] = r}

phaseHasActor(s, ph) ==
  /\ AliveAs(s, Actor[ph]) # {}
  /\ ph = "night_witch" => s.witchPotions.heal \/ s.witchPotions.poison

allWolvesDecided(s) ==
  /\ AliveAs(s, "werewolf") # {}
  /\ \A w \in AliveAs(s, "werewolf") : s.night_state.wolfVotes[w] # Undecided

allSkipped(s) == s.alive # {} /\ \A p \in s.alive : s.votes[p] = None

\* Slip: the wolves win only once they outnumber the others.
checkWinner_OffByOne(s) ==
  LET wolves == Cardinality(AliveAs(s, "werewolf"))
      others == Cardinality(s.alive \ AliveAs(s, "werewolf"))
  IN  IF wolves = 0 THEN "village"
      ELSE IF wolves > others THEN "wolves" ELSE "none"

checkWinner(s) ==
  LET wolves == Cardinality(AliveAs(s, "werewolf"))
      others == Cardinality(s.alive \ AliveAs(s, "werewolf"))
  IN  IF wolves = 0 THEN "village"
      ELSE IF wolves >= others THEN "wolves" ELSE "none"

\* Slip: the antidote is not looked at.
computeNightDeaths_NoAntidote(s) ==
  LET n == s.night_state
  IN  (({n.wolfKillTargetId} \ {n.guardProtectedId}) \cup {n.witchPoisonTargetId}) \ {None}

computeNightDeaths(s) ==
  LET n == s.night_state
      bitten == IF n.wolfKillTargetId # n.guardProtectedId /\ ~n.witchHealUsed
                THEN {n.wolfKillTargetId} ELSE {}
  IN  (bitten \cup {n.witchPoisonTargetId}) \ {None}
-------------------------------------------------------------------------------
(***************************************************************************)
(* The phase machine                                                       *)
(***************************************************************************)

\* Slip: the handle is dropped without clearTimeout.
clearPhaseTimer_Leaks(s) == [s EXCEPT !.phaseTimer = "none"]

clearPhaseTimer(s) ==
  [s EXCEPT !.timers = @ \ {s.phaseTimer}, !.phaseTimer = "none"]

enterPhase(s, ph) ==
  [clearPhaseTimer(s) EXCEPT
     !.phase      = ph,
     !.timers     = @ \cup {ph},
     !.phaseTimer = ph,
     !.votes      = IF ph = "day_main" THEN NoBallots ELSE @,
     !.witchView  = IF ph = "night_witch" /\ AliveAs(s, "witch") # {}
                    THEN s.night_state.wolfKillTargetId ELSE @]

endGame(s, team) ==
  [clearPhaseTimer(s) EXCEPT !.phase = "ended", !.winner = team]

\* checkWinner after a death, and endGame if it has an answer.
EndOr(s, next) ==
  IF checkWinner(s) = "none" THEN next ELSE endGame(s, checkWinner(s))

\* Slip: the dead of the night are buried without asking for a winner.
resolveNightAndAdvanceToDay_NoVerdict(s) ==
  enterPhase([s EXCEPT !.alive = @ \ computeNightDeaths(s)], "day_reveal")

resolveNightAndAdvanceToDay(s) ==
  LET dawn == [s EXCEPT !.alive = @ \ computeNightDeaths(s)]
  IN  EndOr(dawn, enterPhase(dawn, "day_reveal"))

\* The first phase of the night order after rank r that a living actor can
\* play; with none left the night is over.
WakeAfter(s, r) ==
  LET awake == {ph \in NightPhases : Rank[ph] > r /\ phaseHasActor(s, ph)}
  IN  IF awake = {} THEN resolveNightAndAdvanceToDay(s)
      ELSE enterPhase(s, CHOOSE ph \in awake : \A q \in awake : Rank[ph] <= Rank[q])

advanceToNextNightPhase(s) == WakeAfter(s, Rank[s.phase])

\* Slip: the new night starts from freshNightState(null).
resolveDayVoteAndAdvanceToNight_Forgets(s) ==
  LET dusk == [s EXCEPT !.alive = @ \ Top(s.votes)]
  IN  EndOr(dusk, WakeAfter([dusk EXCEPT !.night_state = freshNightState(None)], 0))

resolveDayVoteAndAdvanceToNight(s) ==
  LET dusk == [s EXCEPT !.alive = @ \ Top(s.votes)]
      next == [dusk EXCEPT !.night_state = freshNightState(@.guardProtectedId)]
  IN  EndOr(dusk, WakeAfter(next, 0))

PhaseDone(s) ==
  \/ s.phase = "night_guard" /\ s.night_state.guardProtectedId # None
  \/ s.phase = "night_wolves" /\ allWolvesDecided(s)
  \/ s.phase = "night_seer" /\ s.night_state.seerChecked
  \/ s.phase = "night_witch" /\ s.night_state.witchActed

\* Slip: a phase whose actor has left is not skipped.
tryAdvancePhase_WaitsForTheGone(s) ==
  IF s.phase \in NightPhases /\ PhaseDone(s) THEN advanceToNextNightPhase(s) ELSE s

tryAdvancePhase(s) ==
  IF s.phase \in NightPhases /\ (~phaseHasActor(s, s.phase) \/ PhaseDone(s))
  THEN advanceToNextNightPhase(s) ELSE s

tryAutoSkipDayVote(s) ==
  IF s.phase = "day_main" /\ allSkipped(s)
  THEN resolveDayVoteAndAdvanceToNight(clearPhaseTimer(s)) ELSE s

\* Slip: the morning has no timeout of its own.
onPhaseTimeout_NoMorning(s) ==
  IF s.phase \in NightPhases THEN advanceToNextNightPhase(s)
  ELSE IF s.phase = "day_main" THEN resolveDayVoteAndAdvanceToNight(s)
  ELSE s

onPhaseTimeout(s) ==
  IF s.phase \in NightPhases THEN advanceToNextNightPhase(s)
  ELSE IF s.phase = "day_reveal" THEN enterPhase(s, "day_main")
  ELSE IF s.phase = "day_main" THEN resolveDayVoteAndAdvanceToNight(s)
  ELSE s
-------------------------------------------------------------------------------
(***************************************************************************)
(* The handlers                                                            *)
(***************************************************************************)

Init ==
  /\ role \in Deals
  /\ alive = Players
  /\ phase = "lobby"
  /\ timers = {}
  /\ phaseTimer = "none"
  /\ votes = NoBallots
  /\ night_state = freshNightState(None)
  /\ witchPotions = [heal |-> TRUE, poison |-> TRUE]
  /\ winner = "none"
  /\ witchView = None
  /\ live = TRUE

\* start(): a table too small to play throws before anything changes.
Start ==
  /\ live /\ phase = "lobby"
  /\ Cardinality(Players) >= MIN_PLAYERS_TO_START
  /\ Become(advanceToNextNightPhase(state))

\* Slip: the caller's own life is not checked.
MayAct_EvenDead(p, ph) == live /\ phase = ph /\ role[p] = Actor[ph]

\* The checks every night action makes first.  What a handler accepts is named apart
\* from what it does (CanKill and WolfKill): the pages are held against the former.
MayAct(p, ph) == live /\ p \in alive /\ phase = ph /\ role[p] = Actor[ph]

CanProtect(p, target) ==
  MayAct(p, "night_guard") /\ target \in alive \ {night_state.guardLastNightProtectedId}

GuardProtect(p, target) ==
  /\ CanProtect(p, target)
  /\ Become(tryAdvancePhase([state EXCEPT !.night_state.guardProtectedId = target]))

\* wolfVotes[p] = choice; recomputeWolfTarget(); advance if the pack is complete.
CastWolfVote(p, choice) ==
  LET ballots == [night_state.wolfVotes EXCEPT ![p] = choice]
      cast == [state EXCEPT !.night_state.wolfVotes = ballots,
                            !.night_state.wolfKillTargetId = recomputeWolfTarget(ballots)]
  IN  Become(IF allWolvesDecided(cast) THEN tryAdvancePhase(cast) ELSE cast)

CanKill(p, target) ==
  MayAct(p, "night_wolves") /\ target \in alive /\ role[target] # "werewolf"

WolfKill(p, target) == CanKill(p, target) /\ CastWolfVote(p, target)

\* Slip: a skip is accepted in any phase of the night.
WolfSkip_AnyTime(p) ==
  /\ live /\ p \in alive /\ phase \in NightPhases /\ role[p] = "werewolf"
  /\ CastWolfVote(p, None)

WolfSkip(p) ==
  /\ MayAct(p, "night_wolves")
  /\ CastWolfVote(p, None)

CanCheck(p, target) == MayAct(p, "night_seer") /\ target \in alive \ {p}

SeerCheck(p, target) ==
  /\ CanCheck(p, target)
  /\ Become(tryAdvancePhase([state EXCEPT !.night_state.seerChecked = TRUE]))

CanHeal(p) ==
  MayAct(p, "night_witch") /\ witchPotions.heal /\ night_state.wolfKillTargetId # None

WitchHeal(p) ==
  /\ CanHeal(p)
  /\ Become(tryAdvancePhase([state EXCEPT !.night_state.witchHealUsed = TRUE,
                                          !.night_state.witchActed = TRUE,
                                          !.witchPotions.heal = FALSE]))

CanPoison(p, target) ==
  MayAct(p, "night_witch") /\ witchPotions.poison /\ target \in alive \ {p}

WitchPoison(p, target) ==
  /\ CanPoison(p, target)
  /\ Become(tryAdvancePhase([state EXCEPT !.night_state.witchPoisonTargetId = target,
                                          !.night_state.witchActed = TRUE,
                                          !.witchPotions.poison = FALSE]))

WitchPass(p) ==
  /\ MayAct(p, "night_witch")
  /\ Become(tryAdvancePhase([state EXCEPT !.night_state.witchActed = TRUE]))

CanVote(voter, choice) ==
  live /\ phase = "day_main" /\ voter \in alive /\ choice \in alive \cup {None}

submitVote(voter, choice) ==
  /\ CanVote(voter, choice)
  /\ Become(tryAutoSkipDayVote([state EXCEPT !.votes[voter] = choice]))

handlePlayerLeft(p) ==
  LET ballots == [night_state.wolfVotes EXCEPT ![p] = Undecided]
      gone == [state EXCEPT !.alive = @ \ {p},
                            !.votes[p] = Undecided,
                            !.night_state.wolfVotes = ballots,
                            !.night_state.wolfKillTargetId = recomputeWolfTarget(ballots)]
  IN  /\ live /\ phase \notin {"lobby", "ended"} /\ p \in alive
      /\ Become(EndOr(gone, IF phase = "day_main" THEN tryAutoSkipDayVote(gone)
                            ELSE tryAdvancePhase(gone)))

\* An outstanding callback fires.  It acts on whatever phase it finds.
PhaseTimeout(t) ==
  /\ t \in timers
  /\ Become(onPhaseTimeout([state EXCEPT !.timers = @ \ {t}, !.phaseTimer = "none"]))

\* destroy() clears the timer; the sessions forget the engine in the same call.
destroy ==
  /\ live
  /\ live' = FALSE
  /\ timers' = timers \ {phaseTimer}
  /\ UNCHANGED <<role, alive, phase, phaseTimer, votes, night_state, witchPotions,
                 winner, witchView>>

Next ==
  \/ Start
  \/ \E p \in Players :
       \/ \E t \in NightTargets : \/ GuardProtect(p, t)
                                  \/ WolfKill(p, t)
                                  \/ SeerCheck(p, t)
                                  \/ WitchPoison(p, t)
       \/ WolfSkip(p)
       \/ WitchHeal(p)
       \/ WitchPass(p)
       \/ \E t \in DayTargets \cup {None} : submitVote(p, t)
  \/ \E p \in Quitters : handlePlayerLeft(p)
  \/ \E t \in TimedPhases : PhaseTimeout(t)
  \/ destroy

\* startGameForRoom calls start() right after the constructor, and a timer that
\* is not cleared fires: nothing else is owed a step, players may idle for ever.
Fairness == WF_vars(Start) /\ \A t \in TimedPhases : WF_vars(PhaseTimeout(t))

Spec == Init /\ [][Next]_vars

FairSpec == Spec /\ Fairness
-------------------------------------------------------------------------------
(***************************************************************************)
(* Properties                                                              *)
(***************************************************************************)

PlayerOrNone == Players \cup {None}
Ballots      == [Players -> Players \cup {None, Undecided}]

NightState ==
  [guardProtectedId : PlayerOrNone, guardLastNightProtectedId : PlayerOrNone,
   wolfKillTargetId : PlayerOrNone, wolfVotes : Ballots, seerChecked : BOOLEAN,
   witchHealUsed : BOOLEAN, witchPoisonTargetId : PlayerOrNone, witchActed : BOOLEAN]

EngineState ==
  [alive : SUBSET Players, phase : Phases, timers : SUBSET TimedPhases,
   phaseTimer : TimedPhases \cup {"none"}, votes : Ballots, night_state : NightState,
   witchPotions : [heal : BOOLEAN, poison : BOOLEAN],
   winner : {"none", "village", "wolves"}, witchView : PlayerOrNone]

\* The type invariant.
TypeOK == role \in [Players -> Roles] /\ state \in EngineState /\ live \in BOOLEAN

\* A running game has exactly one outstanding timeout, the one its current phase
\* armed and the engine holds the handle of; a game not yet started, ended or
\* destroyed has none.  A callback left over from an earlier phase (cleared by
\* enterPhase, endGame, tryAutoSkipDayVote and destroy) would cut a later phase
\* short, since onPhaseTimeout acts on the phase it finds.
TimerGuardsPhase ==
  IF live /\ phase \in TimedPhases
  THEN timers = {phase} /\ phaseTimer = phase
  ELSE timers = {}

\* While the game runs neither side has won, and a game that ended has the winner
\* its survivors make: no path that kills (dawn, hanging, departure) forgets
\* checkWinner, and nobody dies after the verdict.
NoUnnoticedWin ==
  /\ phase \in TimedPhases => checkWinner(state) = "none" /\ winner = "none"
  /\ phase = "ended" => winner # "none" /\ winner = checkWinner(state)

\* Between two calls the engine is never in a phase it should have left already:
\* a night phase has a living actor who still owes it something, and the day vote
\* is open only while some living player has not skipped (the comment above
\* tryAutoSkipDayVote: "Khi 100% nguoi song deu skip -> cat pha ngay").  Departures
\* are what could leave the table waiting for somebody who is gone.
EveryPhaseAwaitsSomeone ==
  /\ phase \in NightPhases => phaseHasActor(state, phase) /\ ~PhaseDone(state)
  /\ phase = "day_main" => ~allSkipped(state)

\* Only the living weigh in a ballot: handlePlayerLeft takes the ballots of the one
\* who leaves, and at any time of the night the victim on record is the recount of
\* the ballots of the living wolves, never of one of the pack.
OnlyTheLivingVote ==
  /\ phase = "day_main" => \A p \in Players \ alive : votes[p] = Undecided
  /\ phase \in NightPhases =>
       /\ \A p \in Players : night_state.wolfVotes[p] # Undecided => p \in AliveAs(state, "werewolf")
       /\ night_state.wolfKillTargetId = recomputeWolfTarget(night_state.wolfVotes)
       /\ night_state.wolfKillTargetId # None => role[night_state.wolfKillTargetId] # "werewolf"

Emptied(bottle) == witchPotions[bottle] /\ ~witchPotions'[bottle]

\* Each bottle is emptied at most once, and what it does is done by dawn: the night
\* of the antidote kills nobody, the night of the poison kills its target and at
\* most the pack's victim besides, so that no night sees both.
PotionsWorkOnce ==
  [][/\ \A bottle \in {"heal", "poison"} : witchPotions'[bottle] => witchPotions[bottle]
     /\ Emptied("heal") => alive' = alive /\ phase' = "day_reveal"
     /\ Emptied("poison") => \E t \in alive \ alive' :
          /\ role[t] # "witch"
          /\ alive \ alive' \subseteq
               {t} \cup ({night_state.wolfKillTargetId} \ {night_state.guardProtectedId})]_vars

\* The guard never shields one player on two consecutive nights: a protection is
\* refused when it repeats last night's, and each dusk remembers the protection of
\* the night before whatever happened to the guard or the protected in between.
GuardNeverRepeats ==
  [][/\ night_state'.guardProtectedId # None =>
          night_state'.guardProtectedId # night_state'.guardLastNightProtectedId
     /\ phase = "day_main" /\ phase' \in NightPhases =>
          night_state'.guardLastNightProtectedId = night_state.guardProtectedId
     /\ phase' \notin NightPhases \/ phase \in NightPhases =>
          night_state'.guardLastNightProtectedId = night_state.guardLastNightProtectedId]_vars

\* What the pack decided stands for the rest of the night, unless a wolf leaves the
\* room: only the departure of a wolf reopens the decision.
OnlyADepartureReopensTheKill ==
  [][(/\ {phase, phase'} \subseteq {"night_seer", "night_witch"}
      /\ night_state'.wolfKillTargetId # night_state.wolfKillTargetId)
     => (\E w \in alive \ alive' : role[w] = "werewolf")]_vars

\* The witch's screen: while she is awake, the victim she was told of
\* (NightActionPanel.tsx: "Dem nay soi can X", "Dem nay khong ai bi soi can") is the
\* victim her antidote would save.
WitchKnowsTheVictim ==
  phase = "night_witch" => witchView = night_state.wolfKillTargetId

\* However little the players do, timeouts alone bring another day vote, for as long
\* as the game is neither over nor destroyed.
DayKeepsComing == []<>(phase \in {"day_main", "ended"} \/ ~live)

\* The stage of the game a phase belongs to.
Stage ==
  CASE phase = "lobby" -> "lobby"
    [] phase \in NightPhases -> "night"
    [] phase \in {"day_reveal", "day_main"} -> "day"
    [] phase = "ended" -> "over"

Game == INSTANCE WerewolfGame WITH stage <- Stage, poison <- witchPotions.poison

\* The engine implements the game its players were promised: nobody comes back,
\* a night kills at most the pack's victim and the poisoned, a wolf never falls to
\* the pack, a day hangs at most one, and the first deciding death ends the game.
ImplementsGame == Game!Spec
===============================================================================
