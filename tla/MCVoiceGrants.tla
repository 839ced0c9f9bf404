----------------------------- MODULE MCVoiceGrants -----------------------------
(***************************************************************************)
(* A table of five for TLC: a wolf and a villager talk.                    *)
(***************************************************************************)
EXTENDS VoiceGrants, TLC

CONSTANTS w1, v1, v2, v3, seer1

TheDeal == [p \in Players |-> CASE p = w1 -> "werewolf" [] p = seer1 -> "seer"
                                  [] OTHER -> "villager"]

OneDeal == {TheDeal}

\* The part of the engine's state that is still read (see MCGameEngine).
Readable ==
  <<role, alive, phase, timers, winner, live,
    IF phase = "day_main" THEN votes ELSE NoBallots,
    IF phase \in NightPhases THEN night_state ELSE freshNightState(None),
    voiceVars>>
===============================================================================
