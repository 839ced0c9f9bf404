CONSTANTS
  ann = ann
  bob = bob
  a1 = a1
  a2 = a2
  b1 = b1
  tabA = tabA
  tabB = tabB
  None = None
  Players = {ann, bob}
  Sockets = {a1, a2, b1}
  Owner <- TheOwner
  Tabs = {tabA, tabB}
  TabOf <- TheTab
  Rooms = {r1}
  Codes = {k1}
  ChatLimit = 1
  MinPlayers = 2
  Interleaved = FALSE
  MaxCalls = 1
SPECIFICATION TabSpec
CHECK_DEADLOCK FALSE
PROPERTIES
  GraceSparesTheReconnected
