CONSTANTS
  w1 = w1
  w2 = w2
  v1 = v1
  v2 = v2
  v3 = v3
  seer1 = seer1
  witch1 = witch1
  guard1 = guard1
  None = None
  Undecided = Undecided
  Deals <- OneDeal
  Players = {w1, v1, v2, v3, seer1, witch1}
  NightTargets = {w1, v1}
  DayTargets = {w1}
  Quitters = {w1, seer1}
SPECIFICATION FairSpec
CHECK_DEADLOCK FALSE
PROPERTIES
  DayKeepsComing
