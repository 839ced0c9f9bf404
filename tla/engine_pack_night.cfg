CONSTANTS
  w1 = w1
  w2 = w2
  v1 = v1
  v2 = v2
  v3 = v3
  seer1 = seer1
  witch1 = witch1
  guard1 = guard1
  None = None
  Undecided = Undecided
  Deals <- OneDeal
  Players = {w1, w2, v1, v2, v3, seer1, witch1, guard1}
  NightTargets = {w1, w2, v1, v2, v3}
  DayTargets = {w1}
  Quitters = {w1, v1, v2, v3, seer1, witch1}
SPECIFICATION Spec
VIEW Readable
SYMMETRY Symmetry
CHECK_DEADLOCK FALSE
INVARIANTS
  TypeOK
  TimerGuardsPhase
  NoUnnoticedWin
  EveryPhaseAwaitsSomeone
  OnlyTheLivingVote
PROPERTIES
  PotionsWorkOnce
  GuardNeverRepeats
  OnlyADepartureReopensTheKill
