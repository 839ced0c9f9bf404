----------------------------- MODULE MCClientView -----------------------------
(***************************************************************************)
(* Small tables with a few open pages for TLC.  Tabs are model values; the *)
(* seer may have two of them.                                              *)
(***************************************************************************)
EXTENDS ClientView

CONSTANTS w1, v1, v2, v3, seer1, witch1, tabW, tabS, tabS2, tabH

TheDeal == [p \in Players |-> CASE p = w1 -> "werewolf" [] p = seer1 -> "seer"
                                  [] p = witch1 -> "witch" [] OTHER -> "villager"]

OneDeal == {TheDeal}

ThePlayer == [t \in Tabs |-> CASE t = tabW -> w1 [] t = tabH -> witch1 [] OTHER -> seer1]

\* The seer's tabs are interchangeable.
Symmetry == Permutations(Tabs \ {tabW, tabH})

\* The part of the state that is still read (see MCGameEngine); of the order of the
\* tabs, what concerns those of one player.
Readable ==
  <<role, alive, phase, timers, witchPotions, winner,
    IF phase = "day_main" THEN votes ELSE NoBallots,
    IF phase \in NightPhases THEN night_state
    ELSE freshNightState(night_state.guardProtectedId),
    IF phase = "night_witch" THEN witchView ELSE None,
    wire, screen, request, SelectSeq(order, LAMBDA t : t \notin {tabW, tabH})>>
===============================================================================
