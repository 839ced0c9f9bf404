------------------------------- MODULE RoleDeal -------------------------------
(***************************************************************************)
(* assignRoles, swap by swap: the pool is filled in the order of the       *)
(* source and shuffled from its last place down.  The game itself uses the *)
(* set of deals (assignRoles in RoleDistribution); this module shows that  *)
(* the loop produces nothing else.                                         *)
(***************************************************************************)
EXTENDS RoleDistribution, Sequences

CONSTANT TableSizes   \* the numbers of players to deal to

\* A game is created for a room, and a room has a player.
ASSUME DealAssumption == TableSizes \subseteq Nat \ {0}

VARIABLES
  pool,   \* the roles, player idx receives pool[idx] at the end
  i       \* the place the loop is about to fill (one more than the code's i)

Copies(r, k) == [idx \in 1..k |-> r]

FullPool(n) ==
  LET dist == computeRoleDistribution(n)
  IN  Copies("werewolf", dist.werewolf) \o Copies("seer", dist.seer)
      \o Copies("witch", dist.witch) \o Copies("guard", dist.guard)
      \o Copies("villager", dist.villager)

Init == \E n \in TableSizes : pool = FullPool(n) /\ i = n

\* Slip: the first assignment of the swap overwrites what the second one needs.
Swap_Overwrites(j) ==
  /\ i > 1
  /\ pool' = [pool EXCEPT ![i] = pool[j]]
  /\ i' = i - 1

Swap(j) ==
  /\ i > 1
  /\ pool' = [pool EXCEPT ![i] = pool[j], ![j] = pool[i]]
  /\ i' = i - 1

Next == \E j \in 1..i : Swap(j)

Spec == Init /\ [][Next]_<<pool, i>>

\* At every step of the loop the pool is a deal that the distribution prescribes:
\* a shuffle loses no role and invents none.
ShuffleKeepsTheRoles == pool \in assignRoles(1..Len(pool))
===============================================================================
