CONSTANTS
  w1 = w1
  v1 = v1
  v2 = v2
  v3 = v3
  seer1 = seer1
  witch1 = witch1
  tabW = tabW
  tabS = tabS
  tabS2 = tabS2
  tabH = tabH
  None = None
  Undecided = Undecided
  Deals <- OneDeal
  Players = {w1, v1, v2, v3, seer1, witch1}
  NightTargets = {v3}
  DayTargets = {}
  Quitters = {v3, w1}
  Tabs = {tabS, tabS2, tabH}
  PlayerOf <- ThePlayer
  Reloaders = {tabS, tabS2}
  Unseen = {w1}
  MaxLag = 2
SPECIFICATION ViewSpec
VIEW Readable
SYMMETRY Symmetry
CHECK_DEADLOCK FALSE
INVARIANTS
  ViewTypeOK
  ScreensFollowTheEngine
  EveryMoveIsOffered
  EveryOfferIsAccepted
