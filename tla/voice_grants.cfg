CONSTANTS
  w1 = w1
  v1 = v1
  v2 = v2
  v3 = v3
  seer1 = seer1
  None = None
  Undecided = Undecided
  Deals <- OneDeal
  Players = {w1, v1, v2, v3, seer1}
  NightTargets = {v1}
  DayTargets = {v1}
  Quitters = {v1, v2}
  Talkers = {w1, v1}
  MaxRequests = 2
SPECIFICATION VoiceSpec
VIEW Readable
CHECK_DEADLOCK FALSE
INVARIANTS
  VoiceFollowsThePhase
