CONSTANTS
  ann = ann
  bob = bob
  a1 = a1
  a2 = a2
  b1 = b1
  b2 = b2
  None = None
  Players = {ann, bob}
  Sockets = {a1, a2, b1, b2}
  Owner <- TheOwner
  Rooms = {r1, r2}
  Codes = {k1, k2}
  ChatLimit = 1
  MinPlayers = 2
  Interleaved = FALSE
  MaxCalls = 1
SPECIFICATION ViewSpec
VIEW Readable
SYMMETRY Symmetry
CHECK_DEADLOCK FALSE
INVARIANTS
  TypeOK
  OneHost
  CodesLead
  SeatsAgree
  GraceIffAway
  NoOrphanGames
  GamesFollowRooms
  PagesShowTheRoom
PROPERTIES
  GamesRunOut
