----------------------------- MODULE WerewolfGame -----------------------------
(***************************************************************************)
(* What the engine promises its players, with no phases, ballots or        *)
(* timers: night and day alternate; a night buries at most one victim of   *)
(* the pack, who is not a wolf, and one of the poison, which works once; a *)
(* day buries at most one; anyone may walk out at any time; and the game   *)
(* is over, for good, at the first burial that decides it.                 *)
(***************************************************************************)
EXTENDS RoleDistribution

CONSTANTS Players, Deals

VARIABLES
  role,
  alive,
  stage,   \* "lobby", "night", "day" or "over"
  winner,
  poison   \* the poison has not been used

vars == <<role, alive, stage, winner, poison>>

WolvesIn(S) == {p \in S : role[p] = "werewolf"}

Verdict(S) ==
  LET wolves == Cardinality(WolvesIn(S))
      others == Cardinality(S \ WolvesIn(S))
  IN  IF wolves = 0 THEN "village"
      ELSE IF wolves >= others THEN "wolves" ELSE "none"

Init ==
  /\ role \in Deals
  /\ alive = Players
  /\ stage = "lobby"
  /\ winner = "none"
  /\ poison = TRUE

Bury(dead, next) ==
  /\ alive' = alive \ dead
  /\ winner' = Verdict(alive')
  /\ stage' = IF winner' = "none" THEN next ELSE "over"

Nobody == {{}}
OneOf(S) == {{p} : p \in S}

Bites == Nobody \cup OneOf(alive \ WolvesIn(alive))

Begin ==
  /\ stage = "lobby" /\ Cardinality(Players) >= MIN_PLAYERS_TO_START
  /\ stage' = "night"
  /\ UNCHANGED <<role, alive, winner, poison>>

Dawn ==
  /\ stage = "night"
  /\ \E bitten \in Bites : Bury(bitten, "day")
  /\ UNCHANGED <<role, poison>>

PoisonedDawn ==
  /\ stage = "night" /\ poison
  /\ \E bitten \in Bites, target \in alive :
       /\ role[target] # "witch"
       /\ Bury(bitten \cup {target}, "day")
  /\ poison' = FALSE
  /\ UNCHANGED role

Dusk ==
  /\ stage = "day"
  /\ \E hanged \in Nobody \cup OneOf(alive) : Bury(hanged, "night")
  /\ UNCHANGED <<role, poison>>

\* Somebody walks out; if the table was waiting for them only, night or day ends
\* in the same step (a day that ends so hangs nobody).
Leave(p) ==
  /\ stage \in {"night", "day"} /\ p \in alive
  /\ \/ Bury({p}, stage)
     \/ stage = "night" /\ \E bitten \in Bites : Bury({p} \cup bitten, "day")
     \/ stage = "day" /\ Bury({p}, "night")
  /\ UNCHANGED <<role, poison>>

Next == Begin \/ Dawn \/ PoisonedDawn \/ Dusk \/ \E p \in Players : Leave(p)

Spec == Init /\ [][Next]_vars
===============================================================================
