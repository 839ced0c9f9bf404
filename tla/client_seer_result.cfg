CONSTANTS
  w1 = w1
  v1 = v1
  v2 = v2
  v3 = v3
  seer1 = seer1
  witch1 = witch1
  tabW = tabW
  tabS = tabS
  tabS2 = tabS2
  tabH = tabH
  None = None
  Undecided = Undecided
  Deals <- OneDeal
  Players = {w1, v1, v2, v3, seer1}
  NightTargets = {v1, v3}
  DayTargets = {}
  Quitters = {v2}
  Tabs = {tabS}
  PlayerOf <- ThePlayer
  Reloaders = {}
  Unseen = {w1}
  MaxLag = 2
SPECIFICATION ViewSpec
VIEW Readable
CHECK_DEADLOCK FALSE
PROPERTIES
  SeerReadsTheResult
