CONSTANTS
  ann = ann
  bob = bob
  cat = cat
  a1 = a1
  a2 = a2
  a3 = a3
  b1 = b1
  b2 = b2
  c1 = c1
  None = None
  Players = {ann, bob}
  Sockets = {a1, a2, b1}
  Owner <- TheOwner
  Rooms = {r1, r2}
  Codes = {k1, k2}
  ChatLimit = 1
  MinPlayers = 2
  Interleaved = FALSE
  MaxCalls = 1
SPECIFICATION Spec
SYMMETRY Symmetry
CHECK_DEADLOCK FALSE
PROPERTIES
  LatecomersStayOut
