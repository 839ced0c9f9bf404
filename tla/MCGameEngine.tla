----------------------------- MODULE MCGameEngine -----------------------------
(***************************************************************************)
(* Small tables for TLC.  The engine never compares two ids except for     *)
(* equality, so one deal stands for all deals of the same table, and the   *)
(* wolves (and the villagers) of a fixed deal are interchangeable as far   *)
(* as the input bounds treat them alike.                                   *)
(***************************************************************************)
EXTENDS GameEngine, TLC

CONSTANTS w1, w2, v1, v2, v3, seer1, witch1, guard1

TheDeal == [p \in Players |-> CASE p \in {w1, w2} -> "werewolf" [] p = seer1 -> "seer"
                                  [] p = witch1 -> "witch" [] p = guard1 -> "guard"
                                  [] OTHER -> "villager"]

OneDeal == {TheDeal}

\* The renamings under which TheDeal and the input bounds stay what they are.
Symmetry ==
  {f \in Permutations(Players) :
     /\ \A p \in Players : TheDeal[f[p]] = TheDeal[p]
     /\ \A S \in {NightTargets, DayTargets, Quitters} : {f[p] : p \in S} = S}

\* The part of the state the code can still read: ballots matter only while the
\* vote is open, the night's record only until dawn, except for the protection
\* that the next dusk remembers.
Readable ==
  <<role, alive, phase, timers, phaseTimer, witchPotions, winner, live,
    IF phase = "day_main" THEN votes ELSE NoBallots,
    IF phase \in NightPhases THEN night_state
    ELSE freshNightState(night_state.guardProtectedId),
    IF phase = "night_witch" THEN witchView ELSE None>>
===============================================================================
