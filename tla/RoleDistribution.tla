--------------------------- MODULE RoleDistribution ---------------------------
(***************************************************************************)
(* How many of each role a table of n players gets, and which deals the    *)
(* shuffle of the engine's constructor can produce.                        *)
(***************************************************************************)
EXTENDS Integers, FiniteSets

Roles == {"werewolf", "seer", "witch", "guard", "villager"}

MIN_PLAYERS_TO_START == 4

AtLeast(bound, n) == IF n < bound THEN bound ELSE n

computeRoleDistribution(n) ==
  LET werewolf == AtLeast(1, n \div 4)
      seer     == IF n >= 5 THEN 1 ELSE 0
      witch    == IF n >= 6 THEN 1 ELSE 0
      guard    == IF n >= 7 THEN 1 ELSE 0
  IN  [werewolf |-> werewolf, seer |-> seer, witch |-> witch, guard |-> guard,
       villager |-> AtLeast(0, n - (werewolf + seer + witch + guard))]

\* The Fisher-Yates shuffle of the pool: every arrangement of the roles that
\* the distribution prescribes, and nothing else.
assignRoles(players) ==
  LET dist == computeRoleDistribution(Cardinality(players))
  IN  {role \in [players -> Roles] :
         \A r \in Roles : Cardinality({p \in players : role[p] = r}) = dist[r]}

===============================================================================
