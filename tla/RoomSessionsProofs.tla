-------------------------- MODULE RoomSessionsProofs --------------------------
(***************************************************************************)
(* What RoomStore and RoomSessions keep for any number of players, rooms,  *)
(* codes and connections, and whether or not other events run while a      *)
(* handler awaits.                                                         *)
(*                                                                         *)
(* Two facts carry the induction: a room once deleted stays deleted (ids   *)
(* are never used again), and every room a suspended handler, a seat or a  *)
(* grace timer still names has existed.                                    *)
(***************************************************************************)
EXTENDS RoomSessions, OperatorLemmas

\* A room has the fields the code gives it; what the players are is left open.
RoomShape(x) ==
  /\ x = [joinCode |-> x.joinCode, hostId |-> x.hostId, players |-> x.players,
          isHost |-> x.isHost, isOnline |-> x.isOnline, chat |-> x.chat]
  /\ x.joinCode \in Codes

StoreInv(s) ==
  /\ s = [rooms |-> s.rooms, codeIndex |-> s.codeIndex, used |-> s.used]
  /\ s.rooms = [r \in Rooms |-> s.rooms[r]]
  /\ \A r \in Rooms : Exists(s, r) => RoomShape(s.rooms[r]) /\ r \in s.used
  /\ s.codeIndex \in [Codes -> Rooms \cup {None}]
  /\ s.used \subseteq Rooms
  /\ IndexAgrees(s)

\* What a call of the store does to the rooms there have been.
Grows(s, t) ==
  /\ s.used \subseteq t.used
  /\ \A r \in s.used : Exists(t, r) => Exists(s, r)

Keeps(s, t) == \A r \in Rooms : Exists(s, r) => Exists(t, r)
-------------------------------------------------------------------------------
(***************************************************************************)
(* The store                                                               *)
(***************************************************************************)

LEMMA NoRoomHasNoCode == NoRoom.joinCode = None
BY DEF NoRoom

LEMMA EmptyStore == StoreInv(NoRooms)
<1> DEFINE s == NoRooms
<1>1. /\ s = [rooms |-> s.rooms, codeIndex |-> s.codeIndex, used |-> s.used]
      /\ s.rooms = [r \in Rooms |-> NoRoom]
      /\ s.codeIndex = [c \in Codes |-> None]
      /\ s.used = {}
  BY DEF NoRooms
<1> HIDE DEF s
<1>2. \A r \in Rooms : ~Exists(s, r)
  BY <1>1 DEF Exists, getById
<1>3. IndexAgrees(s)
  BY <1>1, <1>2 DEF IndexAgrees, getByJoinCode
<1>4. StoreInv(s)
  BY <1>1, <1>2, <1>3 DEF StoreInv
<1> QED
  BY <1>4 DEF s

\* A room that keeps its code may change otherwise as it likes.
LEMMA RoomReplaced ==
  ASSUME NEW s, StoreInv(s), NEW r \in Rooms, Exists(s, r),
         NEW room, RoomShape(room), room.joinCode = s.rooms[r].joinCode
  PROVE  LET t == [s EXCEPT !.rooms[r] = room]
         IN  StoreInv(t) /\ t.used = s.used /\ Grows(s, t) /\ Keeps(s, t)
<1> DEFINE t == [s EXCEPT !.rooms[r] = room]
<1>1. /\ t = [rooms |-> t.rooms, codeIndex |-> t.codeIndex, used |-> t.used]
      /\ t.rooms = [s.rooms EXCEPT ![r] = room]
      /\ t.codeIndex = s.codeIndex
      /\ t.used = s.used
  BY DEF StoreInv
<1>2. /\ t.rooms = [q \in Rooms |-> t.rooms[q]]
      /\ t.rooms[r] = room
      /\ \A q \in Rooms \ {r} : t.rooms[q] = s.rooms[q]
  BY <1>1 DEF StoreInv
<1> HIDE DEF t
<1>3. Exists(t, r)
  BY <1>2, NoRoomHasNoCode, StoreAssumption DEF Exists, getById, RoomShape
<1>4. \A q \in Rooms \ {r} : Exists(t, q) <=> Exists(s, q)
  BY <1>2 DEF Exists, getById
<1>5. \A q \in Rooms : t.rooms[q].joinCode = s.rooms[q].joinCode
  BY <1>2
<1>6. IndexAgrees(t)
  BY <1>1, <1>3, <1>4, <1>5 DEF IndexAgrees, getByJoinCode, StoreInv
<1>7. \A q \in Rooms : Exists(t, q) => RoomShape(t.rooms[q]) /\ q \in t.used
  BY <1>1, <1>2, <1>3, <1>4 DEF StoreInv
<1>8. StoreInv(t)
  BY <1>1, <1>2, <1>6, <1>7 DEF StoreInv
<1>9. Grows(s, t) /\ Keeps(s, t)
  BY <1>1, <1>3, <1>4 DEF Grows, Keeps, StoreInv
<1> QED
  BY <1>1, <1>8, <1>9 DEF t

LEMMA NothingHappened ==
  ASSUME NEW s, StoreInv(s)
  PROVE  Grows(s, s) /\ Keeps(s, s)
BY DEF Grows, Keeps

LEMMA FieldKept ==
  ASSUME NEW x, RoomShape(x), NEW v
  PROVE  /\ RoomShape([x EXCEPT !.chat = v]) /\ [x EXCEPT !.chat = v].joinCode = x.joinCode
         /\ RoomShape([x EXCEPT !.players = v]) /\ [x EXCEPT !.players = v].joinCode = x.joinCode
         /\ RoomShape([x EXCEPT !.isOnline = v]) /\ [x EXCEPT !.isOnline = v].joinCode = x.joinCode
         /\ RoomShape([x EXCEPT !.hostId = v]) /\ [x EXCEPT !.hostId = v].joinCode = x.joinCode
         /\ RoomShape([x EXCEPT !.isHost = v]) /\ [x EXCEPT !.isHost = v].joinCode = x.joinCode
<1>1. RoomShape([x EXCEPT !.chat = v]) /\ [x EXCEPT !.chat = v].joinCode = x.joinCode
  BY DEF RoomShape
<1>2. RoomShape([x EXCEPT !.players = v]) /\ [x EXCEPT !.players = v].joinCode = x.joinCode
  BY DEF RoomShape
<1>3. RoomShape([x EXCEPT !.isOnline = v]) /\ [x EXCEPT !.isOnline = v].joinCode = x.joinCode
  BY DEF RoomShape
<1>4. RoomShape([x EXCEPT !.hostId = v]) /\ [x EXCEPT !.hostId = v].joinCode = x.joinCode
  BY DEF RoomShape
<1>5. RoomShape([x EXCEPT !.isHost = v]) /\ [x EXCEPT !.isHost = v].joinCode = x.joinCode
  BY DEF RoomShape
<1> QED
  BY <1>1, <1>2, <1>3, <1>4, <1>5

LEMMA CreateStep ==
  ASSUME NEW s, StoreInv(s), NEW rc \in FreshRooms(s), NEW p
  PROVE  LET t == create(s, p, rc[1], rc[2])
         IN  StoreInv(t) /\ Grows(s, t) /\ Keeps(s, t) /\ rc[1] \in t.used /\ rc[1] \in Rooms
<1> DEFINE r == rc[1]
           c == rc[2]
           t == create(s, p, r, c)
           room == [joinCode |-> c, hostId |-> p, players |-> <<p>>,
                    isHost |-> {p}, isOnline |-> {p}, chat |-> 0]
<1>1. r \in Rooms /\ r \notin s.used /\ c \in Codes /\ s.codeIndex[c] = None
  BY DEF FreshRooms
<1>2. /\ t = [rooms |-> t.rooms, codeIndex |-> t.codeIndex, used |-> t.used]
      /\ t.rooms = [s.rooms EXCEPT ![r] = room]
      /\ t.codeIndex = [s.codeIndex EXCEPT ![c] = r]
      /\ t.used = s.used \cup {r}
  BY DEF create
<1>3. RoomShape(room) /\ room.joinCode = c
  BY <1>1 DEF RoomShape
<1> HIDE DEF t, room, r, c
<1>4. /\ t.rooms = [q \in Rooms |-> t.rooms[q]]
      /\ t.rooms[r] = room
      /\ \A q \in Rooms \ {r} : t.rooms[q] = s.rooms[q]
  BY <1>1, <1>2 DEF StoreInv
<1>5. /\ t.codeIndex \in [Codes -> Rooms \cup {None}]
      /\ t.codeIndex[c] = r
      /\ \A d \in Codes \ {c} : t.codeIndex[d] = s.codeIndex[d]
  BY <1>1, <1>2 DEF StoreInv
<1>6. ~Exists(s, r) /\ Exists(t, r)
  <2>1. ~Exists(s, r)
    BY <1>1 DEF StoreInv
  <2>2. Exists(t, r)
    BY <1>1, <1>3, <1>4, NoRoomHasNoCode, StoreAssumption DEF Exists, getById
  <2> QED BY <2>1, <2>2
<1>7. \A q \in Rooms \ {r} : Exists(t, q) <=> Exists(s, q)
  BY <1>4 DEF Exists, getById
<1>8. IndexAgrees(t)
  <2>1. ASSUME NEW q \in Rooms, Exists(t, q)
        PROVE  getByJoinCode(t, t.rooms[q].joinCode) = q
    <3>1. CASE q = r
      BY <1>3, <1>4, <1>5, <3>1 DEF getByJoinCode
    <3>2. CASE q # r
      <4>1. Exists(s, q) /\ t.rooms[q] = s.rooms[q]
        BY <1>4, <1>7, <2>1, <3>2
      <4>2. s.codeIndex[s.rooms[q].joinCode] = q /\ s.rooms[q].joinCode \in Codes
        BY <4>1 DEF StoreInv, IndexAgrees, getByJoinCode, RoomShape
      <4>3. s.rooms[q].joinCode # c
        BY <1>1, <4>2, StoreAssumption
      <4> QED BY <1>5, <4>1, <4>2, <4>3 DEF getByJoinCode
    <3> QED BY <3>1, <3>2
  <2>2. ASSUME NEW d \in Codes, getByJoinCode(t, d) # None
        PROVE  t.rooms[getByJoinCode(t, d)].joinCode = d
    <3>1. CASE d = c
      BY <1>3, <1>4, <1>5, <3>1 DEF getByJoinCode
    <3>2. CASE d # c
      <4>1. s.codeIndex[d] = t.codeIndex[d] /\ s.codeIndex[d] \in Rooms
        BY <1>5, <2>2, <3>2 DEF getByJoinCode, StoreInv
      <4>2. s.rooms[s.codeIndex[d]].joinCode = d
        BY <2>2, <4>1 DEF StoreInv, IndexAgrees, getByJoinCode
      <4>3. s.codeIndex[d] # r
        BY <1>1, <1>6, <4>2, NoRoomHasNoCode, StoreAssumption DEF Exists, getById
      <4> QED BY <1>4, <4>1, <4>2, <4>3 DEF getByJoinCode
    <3> QED BY <3>1, <3>2
  <2> QED BY <2>1, <2>2 DEF IndexAgrees
<1>9. \A q \in Rooms : Exists(t, q) => RoomShape(t.rooms[q]) /\ q \in t.used
  BY <1>2, <1>3, <1>4, <1>7 DEF StoreInv
<1>10. t.used \subseteq Rooms
  BY <1>1, <1>2 DEF StoreInv
<1>11. StoreInv(t)
  BY <1>2, <1>4, <1>5, <1>8, <1>9, <1>10 DEF StoreInv
<1>12. Grows(s, t) /\ Keeps(s, t)
  BY <1>1, <1>2, <1>6, <1>7 DEF Grows, Keeps, StoreInv
<1> QED
  BY <1>1, <1>2, <1>11, <1>12 DEF t, r, c

LEMMA AddStep ==
  ASSUME NEW s, StoreInv(s), NEW r \in Rooms, NEW p
  PROVE  LET t == addPlayer(s, r, p) IN StoreInv(t) /\ Grows(s, t) /\ Keeps(s, t)
<1>1. CASE ~Exists(s, r) \/ p \in Members(s, r)
  BY <1>1, NothingHappened DEF addPlayer
<1>2. CASE Exists(s, r) /\ p \notin Members(s, r)
  <2> DEFINE list == Append(s.rooms[r].players, p)
             online == s.rooms[r].isOnline \cup {p}
             room == [s.rooms[r] EXCEPT !.players = list, !.isOnline = online]
  <2>1. addPlayer(s, r, p) = [s EXCEPT !.rooms[r] = room]
    BY <1>2 DEF addPlayer, StoreInv, RoomShape
  <2>2. RoomShape(room) /\ room.joinCode = s.rooms[r].joinCode
    <3> DEFINE x1 == [s.rooms[r] EXCEPT !.players = list]
    <3> HIDE DEF list, online
    <3>1. RoomShape(x1) /\ x1.joinCode = s.rooms[r].joinCode
      BY <1>2, FieldKept DEF StoreInv
    <3>2. room = [x1 EXCEPT !.isOnline = online]
      OBVIOUS
    <3> HIDE DEF x1, room
    <3> QED BY <3>1, <3>2, FieldKept
  <2> HIDE DEF room
  <2> QED BY <1>2, <2>1, <2>2, RoomReplaced
<1> QED
  BY <1>1, <1>2

LEMMA OnlineStep ==
  ASSUME NEW s, StoreInv(s), NEW r \in Rooms, NEW p, NEW on \in BOOLEAN
  PROVE  LET t == setPlayerOnline(s, r, p, on) IN StoreInv(t) /\ Grows(s, t) /\ Keeps(s, t)
<1>1. CASE p \notin Members(s, r)
  BY <1>1, NothingHappened DEF setPlayerOnline
<1>2. CASE p \in Members(s, r)
  <2> DEFINE online == IF on THEN s.rooms[r].isOnline \cup {p} ELSE s.rooms[r].isOnline \ {p}
             room == [s.rooms[r] EXCEPT !.isOnline = online]
  <2>1. Exists(s, r)
    BY <1>2 DEF Members, Exists, getById, NoRoom, ToSet
  <2>2. setPlayerOnline(s, r, p, on) = [s EXCEPT !.rooms[r] = room]
    BY <1>2 DEF setPlayerOnline
  <2>3. RoomShape(room) /\ room.joinCode = s.rooms[r].joinCode
    <3> HIDE DEF online
    <3> QED BY <2>1, FieldKept DEF StoreInv
  <2> HIDE DEF room
  <2> QED BY <2>1, <2>2, <2>3, RoomReplaced
<1> QED
  BY <1>1, <1>2

LEMMA ChatStep ==
  ASSUME NEW s, StoreInv(s), NEW r \in Rooms
  PROVE  LET t == addChatMessage(s, r) IN StoreInv(t) /\ Grows(s, t) /\ Keeps(s, t)
<1>1. CASE ~Exists(s, r)
  BY <1>1, NothingHappened DEF addChatMessage
<1>2. CASE Exists(s, r)
  <2> DEFINE n == IF s.rooms[r].chat < ChatLimit THEN s.rooms[r].chat + 1 ELSE s.rooms[r].chat
             room == [s.rooms[r] EXCEPT !.chat = n]
  <2>1. addChatMessage(s, r) = [s EXCEPT !.rooms[r] = room]
    BY <1>2 DEF addChatMessage
  <2>2. RoomShape(room) /\ room.joinCode = s.rooms[r].joinCode
    <3> HIDE DEF n
    <3> QED BY <1>2, FieldKept DEF StoreInv
  <2> HIDE DEF room
  <2> QED BY <1>2, <2>1, <2>2, RoomReplaced
<1> QED
  BY <1>1, <1>2

LEMMA RemoveStep ==
  ASSUME NEW s, StoreInv(s), NEW r \in Rooms, NEW p
  PROVE  LET t == removePlayer(s, r, p)
         IN  /\ StoreInv(t) /\ Grows(s, t) /\ t.used = s.used
             /\ \A q \in Rooms \ {r} : Exists(s, q) => Exists(t, q)
<1> DEFINE t == removePlayer(s, r, p)
<1>1. CASE ~Exists(s, r)
  BY <1>1, NothingHappened DEF removePlayer, Keeps
<1>2. CASE Exists(s, r) /\ ~(Members(s, r) \subseteq {p})
  <2> DEFINE rest == RemoveFirst(s.rooms[r].players, p)
             host == IF s.rooms[r].hostId = p THEN Head(rest) ELSE s.rooms[r].hostId
             flags == (s.rooms[r].isHost \ {p}) \cup IF s.rooms[r].hostId = p THEN {host} ELSE {}
             online == s.rooms[r].isOnline \ {p}
             room == Without(s.rooms[r], p)
  <2>1. t = [s EXCEPT !.rooms[r] = room]
    BY <1>2 DEF removePlayer
  <2>2. room = [s.rooms[r] EXCEPT !.players = rest, !.isOnline = online, !.hostId = host, !.isHost = flags]
    BY DEF Without
  <2> HIDE DEF rest, host, flags, online
  <2>3. RoomShape(room) /\ room.joinCode = s.rooms[r].joinCode
    <3> DEFINE x1 == [s.rooms[r] EXCEPT !.players = rest]
               x2 == [x1 EXCEPT !.isOnline = online]
               x3 == [x2 EXCEPT !.hostId = host]
               x4 == [x3 EXCEPT !.isHost = flags]
    <3> HIDE DEF room
    <3>1. room = x4
      BY <2>2
    <3>2. RoomShape(x1) /\ x1.joinCode = s.rooms[r].joinCode
      BY <1>2, FieldKept DEF StoreInv
    <3> HIDE DEF x1
    <3>3. RoomShape(x2) /\ x2.joinCode = x1.joinCode
      BY <3>2, FieldKept
    <3> HIDE DEF x2
    <3>4. RoomShape(x3) /\ x3.joinCode = x2.joinCode
      BY <3>3, FieldKept
    <3> HIDE DEF x3
    <3>5. RoomShape(x4) /\ x4.joinCode = x3.joinCode
      BY <3>4, FieldKept
    <3> HIDE DEF x4
    <3> QED BY <3>1, <3>2, <3>3, <3>4, <3>5
  <2> HIDE DEF room, t
  <2>4. StoreInv(t) /\ t.used = s.used /\ Grows(s, t) /\ Keeps(s, t)
    BY <1>2, <2>1, <2>3, RoomReplaced
  <2>5. QED
    BY <2>4 DEF Keeps, t
<1>3. CASE Exists(s, r) /\ Members(s, r) \subseteq {p}
  <2> DEFINE code == s.rooms[r].joinCode
  <2>1. t = delete(s, r)
    BY <1>3 DEF removePlayer
  <2>2. code \in Codes /\ r \in s.used /\ s.codeIndex[code] = r
    BY <1>3 DEF StoreInv, RoomShape, IndexAgrees, getByJoinCode
  <2>3. /\ t = [rooms |-> t.rooms, codeIndex |-> t.codeIndex, used |-> t.used]
        /\ t.rooms = [s.rooms EXCEPT ![r] = NoRoom]
        /\ t.codeIndex = [s.codeIndex EXCEPT ![code] = None]
        /\ t.used = s.used
    BY <2>1 DEF delete, StoreInv
  <2> HIDE DEF t, code
  <2>4. /\ t.rooms = [q \in Rooms |-> t.rooms[q]]
        /\ t.rooms[r] = NoRoom
        /\ \A q \in Rooms \ {r} : t.rooms[q] = s.rooms[q]
    BY <2>3 DEF StoreInv
  <2>5. /\ t.codeIndex \in [Codes -> Rooms \cup {None}]
        /\ t.codeIndex[code] = None
        /\ \A c \in Codes \ {code} : t.codeIndex[c] = s.codeIndex[c]
    BY <2>2, <2>3 DEF StoreInv
  <2>6. ~Exists(t, r) /\ \A q \in Rooms \ {r} : Exists(t, q) <=> Exists(s, q)
    BY <2>4 DEF Exists, getById
  <2>7. IndexAgrees(t)
    <3>1. ASSUME NEW q \in Rooms, Exists(t, q)
          PROVE  getByJoinCode(t, t.rooms[q].joinCode) = q
      <4>1. q # r /\ Exists(s, q) /\ t.rooms[q] = s.rooms[q]
        BY <2>4, <2>6, <3>1
      <4>2. s.codeIndex[s.rooms[q].joinCode] = q /\ s.rooms[q].joinCode \in Codes
        BY <4>1 DEF StoreInv, IndexAgrees, getByJoinCode, RoomShape
      <4>3. s.rooms[q].joinCode # code
        BY <2>2, <4>1, <4>2
      <4> QED BY <2>5, <4>1, <4>2, <4>3 DEF getByJoinCode
    <3>2. ASSUME NEW c \in Codes, getByJoinCode(t, c) # None
          PROVE  t.rooms[getByJoinCode(t, c)].joinCode = c
      <4>1. c # code /\ t.codeIndex[c] = s.codeIndex[c] /\ s.codeIndex[c] \in Rooms
        BY <2>5, <3>2 DEF getByJoinCode, StoreInv
      <4>2. s.rooms[s.codeIndex[c]].joinCode = c
        BY <3>2, <4>1 DEF StoreInv, IndexAgrees, getByJoinCode
      <4>3. s.codeIndex[c] # r
        BY <4>1, <4>2 DEF code
      <4> QED BY <2>4, <4>1, <4>2, <4>3 DEF getByJoinCode
    <3> QED BY <3>1, <3>2 DEF IndexAgrees
  <2>8. \A q \in Rooms : Exists(t, q) => RoomShape(t.rooms[q]) /\ q \in t.used
    BY <2>3, <2>4, <2>6 DEF StoreInv
  <2>9. StoreInv(t)
    BY <2>3, <2>4, <2>5, <2>7, <2>8 DEF StoreInv
  <2>10. Grows(s, t)
    BY <2>3, <2>6 DEF Grows, StoreInv
  <2> QED
    BY <2>3, <2>6, <2>9, <2>10 DEF t
<1> QED
  BY <1>1, <1>2, <1>3
-------------------------------------------------------------------------------
(***************************************************************************)
(* The invariant of the sessions                                           *)
(***************************************************************************)

\* The labels of handlers on the way out of a room, and on the way into one.
Leaving  == {"left", "counted", "removed", "lost", "lost:marked", "gone", "gone:found"}
Entering == {"create:made", "join:found", "join", "join:added", "get:found", "get",
             "get:joined", "seated", "start:found", "start:again"}

CallShape(c) ==
  c = [at |-> c.at, p |-> c.p, s |-> c.s, r |-> c.r, from |-> c.from, answer |-> c.answer,
       then |-> c.then]

\* d is c with field f changed.
SameBut(d, c, f) ==
  /\ CallShape(d)
  /\ f # "at" => d.at = c.at
  /\ f # "from" => d.from = c.from
  /\ f # "answer" => d.answer = c.answer
  /\ f # "then" => d.then = c.then
  /\ d.p = c.p /\ d.s = c.s /\ d.r = c.r

CallInv(c, s) ==
  /\ CallShape(c) /\ c.p \in Players /\ c.answer \in BOOLEAN
  /\ c.at \in Leaving => c.from \in s.used
  /\ c.at \in Entering => c.r \in s.used
  /\ c.at \in Entering \cup {"create"} => c.s \in Sockets
  /\ c.then \in {"join", "get"} => c.r \in s.used
  /\ c.then \in {"create", "join", "get"} => c.s \in Sockets
  /\ c.then \in {"done", "create", "join", "get"}
  /\ c.at = "removed" /\ c.answer = FALSE => ~Exists(s, c.from)

SeatInv == seat \in [Sockets -> store.used \cup {None}]

\* The map holds the handle of every timer that is armed.
TimerInv ==
  /\ pendingLeaves \subseteq Keys
  /\ \A k \in pendingLeaves : k[1] \in store.used
  /\ graceTimers = [k \in Keys |-> IF k \in pendingLeaves THEN 1 ELSE 0]

EngineShape(e) ==
  e = [status |-> e.status, alive |-> e.alive] /\ e.status \in {"none", "lobby", "running", "ended"}

EngineInv ==
  /\ engines = [r \in Rooms |-> engines[r]]
  /\ \A r \in Rooms : EngineShape(engines[r])

\* A handler that has removed the last player will destroy the game.
Doomed(r) == \E c \in calls : c.at = "removed" /\ c.from = r /\ c.answer = FALSE

OrphanInv == \A r \in Rooms : engines[r].status # "none" => Exists(store, r) \/ Doomed(r)

IInv ==
  /\ StoreInv(store) /\ SeatInv /\ TimerInv /\ EngineInv /\ OrphanInv
  /\ \A c \in calls : CallInv(c, store)

\* What a step may do to the games.
GamesStep ==
  \A r \in Rooms : engines[r].status = "running" =>
    \/ engines'[r].status \in {"running", "ended"} /\ engines'[r].alive \subseteq engines[r].alive
    \/ ~Exists(store', r)

LEMMA CallStays ==
  ASSUME NEW c, NEW s, NEW t, CallInv(c, s), StoreInv(s), StoreInv(t), Grows(s, t)
  PROVE  CallInv(c, t)
BY DEF CallInv, Grows, Leaving

\* Steps that neither touch the games nor remove anybody.
LEMMA KeepsInv ==
  ASSUME IInv, StoreInv(store'), Grows(store, store'), Keeps(store, store'),
         SeatInv', TimerInv', UNCHANGED engines,
         \A c \in calls' : c \in calls \/ CallInv(c, store'),
         \A c \in calls : c.at = "removed" => c \in calls'
  PROVE  IInv' /\ GamesStep
<1>1. EngineInv'
  BY DEF IInv, EngineInv
<1>2. \A c \in calls' : CallInv(c, store')
  BY CallStays DEF IInv
<1>3. OrphanInv'
  BY DEF IInv, OrphanInv, Doomed, Keeps
<1>4. GamesStep
  BY DEF GamesStep
<1> QED
  BY <1>1, <1>2, <1>3, <1>4 DEF IInv

\* Steps that leave the store, the seats and the timers alone as well.
LEMMA OnlyCalls ==
  ASSUME IInv, UNCHANGED <<store, seat, pendingLeaves, graceTimers, engines>>,
         \A c \in calls' : c \in calls \/ CallInv(c, store),
         \A c \in calls : c.at = "removed" => c \in calls'
  PROVE  IInv' /\ GamesStep
<1>1. StoreInv(store') /\ Grows(store, store') /\ Keeps(store, store')
  BY NothingHappened DEF IInv
<1>2. SeatInv' /\ TimerInv'
  BY DEF IInv, SeatInv, TimerInv
<1> QED
  BY <1>1, <1>2, KeepsInv

\* The store has grown: seats and timers that did not change still name its rooms.
LEMMA OnlyStore ==
  ASSUME IInv, StoreInv(store'), Grows(store, store'), Keeps(store, store'),
         UNCHANGED <<seat, pendingLeaves, graceTimers, engines>>,
         \A c \in calls' : c \in calls \/ CallInv(c, store'),
         \A c \in calls : c.at = "removed" => c \in calls'
  PROVE  IInv' /\ GamesStep
<1>1. SeatInv' /\ TimerInv'
  BY DEF IInv, SeatInv, TimerInv, Grows
<1> QED
  BY <1>1, KeepsInv
-------------------------------------------------------------------------------
(***************************************************************************)
(* The handlers                                                            *)
(***************************************************************************)

LEMMA CallField ==
  ASSUME NEW c, CallShape(c), c.answer \in BOOLEAN, NEW v
  PROVE  /\ SameBut([c EXCEPT !.at = v], c, "at") /\ [c EXCEPT !.at = v].at = v
         /\ SameBut([c EXCEPT !.from = v], c, "from") /\ [c EXCEPT !.from = v].from = v
         /\ SameBut([c EXCEPT !.then = v], c, "then") /\ [c EXCEPT !.then = v].then = v
<1>1. SameBut([c EXCEPT !.at = v], c, "at") /\ [c EXCEPT !.at = v].at = v
  BY DEF CallShape, SameBut
<1>2. SameBut([c EXCEPT !.from = v], c, "from") /\ [c EXCEPT !.from = v].from = v
  BY DEF CallShape, SameBut
<1>3. SameBut([c EXCEPT !.then = v], c, "then") /\ [c EXCEPT !.then = v].then = v
  BY DEF CallShape, SameBut
<1> QED
  BY <1>1, <1>2, <1>3

LEMMA CallAnswer ==
  ASSUME NEW c, CallShape(c), NEW v
  PROVE  SameBut([c EXCEPT !.answer = v], c, "answer") /\ [c EXCEPT !.answer = v].answer = v
BY DEF CallShape, SameBut

LEMMA LeaveBegins ==
  ASSUME IInv, NEW done, NEW s \in Sockets, NEW r, NEW then, seat[s] # None,
         then \in {"done", "create", "join", "get"},
         then \in {"join", "get"} => r \in store.used,
         \A c \in done : c.at # "removed",
         leaveCurrentRoom(done, s, r, then)
  PROVE  IInv' /\ GamesStep
<1> DEFINE owner == Owner[s]
           room == seat[s]
           c0 == Call("left", owner, s, r)
           c1 == [c0 EXCEPT !.from = room]
           d == [c1 EXCEPT !.then = then]
<1>1. calls' = (calls \ done) \cup {d}
  BY DEF leaveCurrentRoom, Await
<1>2. room \in store.used /\ owner \in Players
  BY SessionsAssumption DEF IInv, SeatInv
<1> HIDE DEF owner, room
<1>3. CallShape(c0) /\ c0.at = "left" /\ c0.p = owner /\ c0.s = s /\ c0.r = r /\ c0.answer = FALSE
  BY DEF Call, CallShape
<1> HIDE DEF c0
<1>4. SameBut(c1, c0, "from") /\ c1.from = room
  BY <1>3, CallField
<1> HIDE DEF c1
<1>5. CallShape(c1) /\ c1.at = "left" /\ c1.p = owner /\ c1.s = s /\ c1.r = r /\ c1.answer = FALSE
  BY <1>3, <1>4 DEF SameBut
<1>6. SameBut(d, c1, "then") /\ d.then = then
  BY <1>5, CallField
<1> HIDE DEF d
<1>7. CallInv(d, store)
  BY <1>2, <1>4, <1>5, <1>6 DEF SameBut, CallInv, Leaving, Entering
<1> QED
  BY <1>1, <1>7, OnlyCalls DEF leaveCurrentRoom

\* A call that has just begun knows its player and perhaps its socket and room.
LEMMA NewCall ==
  ASSUME NEW at, NEW p \in Players, NEW s, NEW r, NEW u, at \notin Leaving,
         at \in Entering => r \in u.used,
         at \in Entering \cup {"create"} => s \in Sockets
  PROVE  CallInv(Call(at, p, s, r), u)
<1> DEFINE d == Call(at, p, s, r)
<1>1. /\ CallShape(d) /\ d.at = at /\ d.p = p /\ d.s = s /\ d.r = r /\ d.answer = FALSE
      /\ d.then = "done"
  BY DEF Call, CallShape
<1> HIDE DEF d
<1>2. CallInv(d, u)
  BY <1>1 DEF CallInv, Leaving
<1> QED
  BY <1>2 DEF d

LEMMA MovesOn ==
  ASSUME NEW c, NEW u, CallInv(c, u), NEW at, at # "removed",
         at \in Leaving => c.from \in u.used,
         at \in Entering => c.r \in u.used,
         at \in Entering \cup {"create"} => c.s \in Sockets
  PROVE  CallInv([c EXCEPT !.at = at], u) /\ [c EXCEPT !.at = at].at = at
<1> DEFINE d == [c EXCEPT !.at = at]
<1>1. SameBut(d, c, "at") /\ d.at = at
  BY CallField DEF CallInv
<1> HIDE DEF d
<1>2. CallInv(d, u)
  BY <1>1 DEF SameBut, CallInv
<1> QED
  BY <1>1, <1>2 DEF d

LEMMA Answered ==
  ASSUME NEW c, NEW u, CallInv(c, u), c.at # "removed", NEW v \in BOOLEAN
  PROVE  CallInv([c EXCEPT !.answer = v], u)
<1> DEFINE d == [c EXCEPT !.answer = v]
<1>1. SameBut(d, c, "answer") /\ d.answer = v
  BY CallAnswer DEF CallInv
<1> HIDE DEF d
<1>2. CallInv(d, u)
  BY <1>1 DEF SameBut, CallInv
<1> QED
  BY <1>2 DEF d

LEMMA GoneOn ==
  ASSUME NEW c, NEW u, CallInv(c, u), GoesOn(c)
  PROVE  /\ \A d \in calls' : d \in calls \/ CallInv(d, u)
         /\ \A d \in calls \ {c} : d \in calls'
<1>1. CASE c.then = "done"
  BY <1>1 DEF GoesOn, Return
<1>2. CASE c.then # "done"
  <2> DEFINE d == Call(c.then, c.p, c.s, c.r)
  <2>1. CallInv(d, u)
    <3>1. c.p \in Players /\ c.then \in {"create", "join", "get"}
          /\ (c.then \in Entering => c.r \in u.used) /\ c.s \in Sockets
      BY <1>2 DEF CallInv, Entering
    <3>2. c.then \notin Leaving
      BY <3>1 DEF Leaving
    <3> QED BY <3>1, <3>2, NewCall
  <2>2. calls' = (calls \ {c}) \cup {d}
    BY <1>2 DEF GoesOn, Await
  <2> HIDE DEF d
  <2> QED BY <2>1, <2>2
<1> QED
  BY <1>1, <1>2

LEMMA LeftChannelInv ==
  ASSUME IInv, NEW c \in calls, LeftChannel(c)
  PROVE  IInv' /\ GamesStep
<1> DEFINE v == countOtherUserSockets(c.from, c.p) = 0
           c1 == [c EXCEPT !.at = "counted"]
           d == [c1 EXCEPT !.answer = v]
<1>1. CallInv(c, store) /\ c.at = "left" /\ c.from \in store.used
  BY DEF LeftChannel, At, IInv, CallInv, Leaving
<1>2. calls' = (calls \ {c}) \cup {d}
  BY DEF LeftChannel, Await
<1>3. v \in BOOLEAN
  OBVIOUS
<1> HIDE DEF v
<1>4. CallInv(c1, store) /\ c1.at = "counted"
  BY <1>1, MovesOn DEF Entering
<1> HIDE DEF c1
<1>5. CallInv(d, store)
  BY <1>3, <1>4, Answered
<1> HIDE DEF d
<1>6. SeatInv' /\ TimerInv'
  BY DEF IInv, SeatInv, TimerInv, LeftChannel
<1>7. StoreInv(store') /\ Grows(store, store') /\ Keeps(store, store')
  BY NothingHappened DEF IInv, LeftChannel
<1> QED
  BY <1>1, <1>2, <1>5, <1>6, <1>7, KeepsInv DEF LeftChannel

\* The last step of leaving for a player with another tab.
LEMMA LeftForAnotherTab ==
  ASSUME IInv, NEW c \in calls, c.at # "removed", GoesOn(c),
         UNCHANGED <<store, seat, pendingLeaves, graceTimers, engines>>
  PROVE  IInv' /\ GamesStep
<1>1. CallInv(c, store)
  BY DEF IInv
<1> QED
  BY <1>1, GoneOn, OnlyCalls

LEMMA RemovePlayerInv ==
  ASSUME IInv, NEW c \in calls, c.at \in {"counted", "gone:found"}, RemovePlayer(c),
         UNCHANGED <<seat, pendingLeaves, graceTimers, engines>>
  PROVE  IInv' /\ GamesStep
<1> DEFINE v == Exists(store', c.from)
           c1 == [c EXCEPT !.at = "removed"]
           d == [c1 EXCEPT !.answer = v]
<1>1. CallInv(c, store) /\ c.from \in store.used /\ c.from \in Rooms /\ c.answer \in BOOLEAN
  BY DEF IInv, CallInv, Leaving, StoreInv
<1>2. calls' = (calls \ {c}) \cup {d} /\ store' = removePlayer(store, c.from, c.p)
  BY DEF RemovePlayer, Await
<1>3. v \in BOOLEAN /\ (v <=> Exists(store', c.from))
  BY DEF Exists
<1>4. /\ StoreInv(store') /\ Grows(store, store') /\ store'.used = store.used
      /\ \A q \in Rooms \ {c.from} : Exists(store, q) => Exists(store', q)
  BY <1>1, <1>2, RemoveStep DEF IInv
<1> HIDE DEF v
<1>5. SameBut(c1, c, "at") /\ c1.at = "removed"
  BY <1>1, CallField DEF CallInv
<1> HIDE DEF c1
<1>6. CallShape(c1) /\ c1.answer \in BOOLEAN
  BY <1>1, <1>5 DEF SameBut
<1>7. SameBut(d, c1, "answer") /\ d.answer = v
  BY <1>6, CallAnswer
<1> HIDE DEF d
<1>8. /\ d.at = "removed" /\ d.from = c.from /\ d.p = c.p /\ d.s = c.s /\ d.r = c.r
      /\ d.then = c.then /\ CallShape(d)
  BY <1>5, <1>7 DEF SameBut
<1>9. CallInv(d, store')
  BY <1>1, <1>3, <1>4, <1>7, <1>8 DEF CallInv, Entering
<1>10. SeatInv' /\ TimerInv' /\ EngineInv'
  BY <1>4 DEF IInv, SeatInv, TimerInv, EngineInv
<1>11. \A e \in calls' : CallInv(e, store')
  BY <1>2, <1>4, <1>9, CallStays DEF IInv
<1>12. OrphanInv'
  <2> SUFFICES ASSUME NEW r \in Rooms, engines[r].status # "none"
               PROVE  Exists(store', r) \/ Doomed(r)'
    BY DEF OrphanInv
  <2>1. CASE r = c.from
    BY <1>2, <1>3, <1>7, <1>8, <2>1 DEF Doomed
  <2>2. CASE r # c.from
    BY <1>2, <1>4, <2>2 DEF IInv, OrphanInv, Doomed
  <2> QED BY <2>1, <2>2
<1>13. GamesStep
  BY DEF GamesStep
<1> QED
  BY <1>4, <1>10, <1>11, <1>12, <1>13 DEF IInv

LEMMA LeftCountedInv ==
  ASSUME IInv, NEW c \in calls, LeftCounted(c)
  PROVE  IInv' /\ GamesStep
<1>1. CASE c.answer
  BY <1>1, RemovePlayerInv DEF LeftCounted, At
<1>2. CASE ~c.answer
  BY <1>2, LeftForAnotherTab DEF LeftCounted, At
<1> QED
  BY <1>1, <1>2

LEMMA LeftRemovedInv ==
  ASSUME IInv, NEW c \in calls, LeftRemoved(c)
  PROVE  IInv' /\ GamesStep
<1> DEFINE f == c.from
<1>1. CallInv(c, store) /\ c.at = "removed" /\ f \in Rooms /\ c.answer \in BOOLEAN
  BY DEF IInv, CallInv, LeftRemoved, At, Leaving, StoreInv
<1>2. PICK e \in IF c.answer THEN handlePlayerLeft(engines[f], c.p) ELSE {NoEngine} :
        engines' = [engines EXCEPT ![f] = e]
  BY DEF LeftRemoved
<1>3. EngineShape(engines[f])
  BY <1>1 DEF IInv, EngineInv
<1>4. c.answer = FALSE => e.status = "none" /\ ~Exists(store, f)
  BY <1>1, <1>2 DEF CallInv, NoEngine
<1>5. EngineShape(e)
  BY <1>1, <1>2, <1>3 DEF handlePlayerLeft, EngineShape, NoEngine
<1>6. \/ e = engines[f]
      \/ engines[f].status = "running" /\ e.status \in {"running", "ended"}
           /\ e.alive \subseteq engines[f].alive
      \/ c.answer = FALSE /\ e.status = "none" /\ ~Exists(store, f)
  BY <1>1, <1>2, <1>3 DEF handlePlayerLeft, NoEngine, CallInv
<1>7. /\ engines' = [r \in Rooms |-> engines'[r]]
      /\ engines'[f] = e
      /\ \A r \in Rooms \ {f} : engines'[r] = engines[r]
  BY <1>1, <1>2 DEF IInv, EngineInv
<1> HIDE DEF f
<1>8. EngineInv'
  BY <1>1, <1>5, <1>7 DEF IInv, EngineInv
<1>9. UNCHANGED <<store, seat, pendingLeaves, graceTimers>>
  BY DEF LeftRemoved
<1>10. SeatInv' /\ TimerInv' /\ StoreInv(store')
  BY <1>9 DEF IInv, SeatInv, TimerInv
<1>11. /\ \A d \in calls' : CallInv(d, store')
       /\ \A d \in calls \ {c} : d \in calls'
  BY <1>1, <1>9, GoneOn DEF IInv, LeftRemoved
<1>12. OrphanInv'
  <2> SUFFICES ASSUME NEW r \in Rooms, engines'[r].status # "none", ~Exists(store, r)
               PROVE  Doomed(r)'
    BY <1>9 DEF OrphanInv
  <2>1. engines[r].status # "none" /\ (r = f => c.answer # FALSE)
    <3>1. CASE r = f
      BY <1>4, <1>6, <1>7, <3>1
    <3>2. CASE r # f
      BY <1>7, <3>2
    <3> QED BY <3>1, <3>2
  <2>2. PICK d \in calls : d.at = "removed" /\ d.from = r /\ d.answer = FALSE
    BY <2>1 DEF IInv, OrphanInv, Doomed
  <2>3. d # c
    BY <2>1, <2>2 DEF f
  <2> QED BY <1>11, <2>2, <2>3 DEF Doomed
<1>13. GamesStep
  BY <1>6, <1>7, <1>9 DEF GamesStep
<1> QED
  BY <1>8, <1>10, <1>11, <1>12, <1>13 DEF IInv

LEMMA TakeSeatInv ==
  ASSUME IInv, NEW c \in calls, c.at \in Entering, NEW next \in {"done", "seated", "get:joined"},
         TakeSeat(c, next)
  PROVE  IInv' /\ GamesStep
<1> DEFINE d == [c EXCEPT !.at = next]
<1>1. CallInv(c, store) /\ c.r \in store.used /\ c.s \in Sockets
  BY DEF IInv, CallInv
<1>2. CallInv(d, store)
  BY <1>1, MovesOn DEF Leaving, Entering
<1>3. calls' = (calls \ {c}) \cup {d}
  BY DEF TakeSeat, Await
<1> HIDE DEF d
<1>4. SeatInv' /\ TimerInv'
  BY <1>1 DEF IInv, SeatInv, TimerInv, TakeSeat
<1>5. StoreInv(store') /\ Grows(store, store') /\ Keeps(store, store')
  BY NothingHappened DEF IInv, TakeSeat
<1>6. \A e \in calls : e.at = "removed" => e \in calls'
  BY <1>3 DEF Entering
<1> QED
  BY <1>2, <1>3, <1>4, <1>5, <1>6, KeepsInv DEF TakeSeat

LEMMA CreateInInv ==
  ASSUME IInv, NEW done, NEW s \in Sockets, \A c \in done : c.at # "removed", CreateIn(done, s)
  PROVE  IInv' /\ GamesStep
<1>1. PICK rc \in FreshRooms(store) :
        /\ store' = create(store, Owner[s], rc[1], rc[2])
        /\ Await(done, Call("create:made", Owner[s], s, rc[1]))
  BY DEF CreateIn
<1>2. StoreInv(store') /\ Grows(store, store') /\ Keeps(store, store') /\ rc[1] \in store'.used
  BY <1>1, CreateStep DEF IInv
<1>3. CallInv(Call("create:made", Owner[s], s, rc[1]), store')
  BY <1>2, NewCall, SessionsAssumption DEF Leaving, Entering
<1> QED
  BY <1>1, <1>2, <1>3, OnlyStore DEF Await, CreateIn

\* A handler that is over, and was not about to destroy a game.
LEMMA Returned ==
  ASSUME IInv, NEW c \in calls, c.at # "removed", Return({c}),
         UNCHANGED <<store, seat, pendingLeaves, graceTimers, engines>>
  PROVE  IInv' /\ GamesStep
BY OnlyCalls DEF Return

LEMMA RoomCreateInv ==
  ASSUME IInv, NEW s \in Sockets, RoomCreate(s)
  PROVE  IInv' /\ GamesStep
<1>1. CASE seat[s] # None
  BY <1>1, LeaveBegins DEF RoomCreate
<1>2. CASE seat[s] = None
  BY <1>2, CreateInInv DEF RoomCreate
<1> QED
  BY <1>1, <1>2

LEMMA CreateResumes ==
  ASSUME IInv, NEW c \in calls, CreateResumed(c) \/ CreateFails(c) \/ CreateMade(c)
  PROVE  IInv' /\ GamesStep
<1>1. CASE CreateResumed(c)
  <2>1. c.s \in Sockets /\ c.at # "removed"
    BY <1>1 DEF IInv, CallInv, CreateResumed, At
  <2> QED
    BY <1>1, <2>1, CreateInInv DEF CreateResumed
<1>2. CASE CreateFails(c)
  BY <1>2, Returned DEF CreateFails, At
<1>3. CASE CreateMade(c)
  BY <1>3, TakeSeatInv DEF CreateMade, At, Entering
<1> QED
  BY <1>1, <1>2, <1>3

\* A code leads to a room that has existed.
LEMMA CodesAreOfRooms ==
  ASSUME NEW s, StoreInv(s), NEW c \in Codes, getByJoinCode(s, c) # None
  PROVE  getByJoinCode(s, c) \in s.used
<1> DEFINE r == s.codeIndex[c]
<1>1. r \in Rooms /\ s.rooms[r].joinCode = c
  BY DEF getByJoinCode, StoreInv, IndexAgrees
<1>2. Exists(s, r)
  BY <1>1, NoRoomHasNoCode, StoreAssumption DEF Exists, getById
<1> QED
  BY <1>1, <1>2 DEF StoreInv, getByJoinCode

LEMMA RoomJoinInv ==
  ASSUME IInv, NEW s \in Sockets, NEW code \in Codes, RoomJoin(s, code)
  PROVE  IInv' /\ GamesStep
<1> DEFINE r == getByJoinCode(store, code)
           d == Call("join:found", Owner[s], s, r)
<1>1. r \in store.used
  BY CodesAreOfRooms DEF RoomJoin, IInv
<1> HIDE DEF r
<1>2. CallInv(d, store)
  BY <1>1, NewCall, SessionsAssumption DEF Leaving
<1>3. calls' = (calls \ {}) \cup {d}
  BY DEF RoomJoin, Await, r
<1> HIDE DEF d
<1> QED
  BY <1>2, <1>3, OnlyCalls DEF RoomJoin

LEMMA RoomGetInv ==
  ASSUME IInv, NEW s \in Sockets, NEW r \in Rooms, RoomGet(s, r)
  PROVE  IInv' /\ GamesStep
<1> DEFINE d == Call("get:found", Owner[s], s, r)
<1>1. r \in store.used
  BY DEF RoomGet, IInv, StoreInv
<1>2. CallInv(d, store)
  BY <1>1, NewCall, SessionsAssumption DEF Leaving
<1>3. calls' = (calls \ {}) \cup {d}
  BY DEF RoomGet, Await
<1> HIDE DEF d
<1> QED
  BY <1>2, <1>3, OnlyCalls DEF RoomGet

LEMMA JoinAsInv ==
  ASSUME IInv, NEW c \in calls, c.at \in {"join:found", "join"}, JoinAs(c)
  PROVE  IInv' /\ GamesStep
<1> DEFINE v == Exists(store, c.r)
           c1 == [c EXCEPT !.at = "join:added"]
           d == [c1 EXCEPT !.answer = v]
<1>1. CallInv(c, store) /\ c.r \in store.used /\ c.r \in Rooms /\ c.s \in Sockets
  BY DEF IInv, CallInv, Entering, StoreInv
<1>2. StoreInv(store') /\ Grows(store, store') /\ Keeps(store, store')
  <2>1. CASE c.p \in Members(store, c.r)
    BY <1>1, <2>1, OnlineStep DEF JoinAs, IInv
  <2>2. CASE c.p \notin Members(store, c.r)
    BY <1>1, <2>2, AddStep DEF JoinAs, IInv
  <2> QED BY <2>1, <2>2
<1>3. CallInv(c, store') /\ c.r \in store'.used
  BY <1>1, <1>2, CallStays DEF IInv, Grows
<1>4. CallInv(c1, store') /\ c1.at = "join:added"
  BY <1>1, <1>3, MovesOn DEF Leaving
<1>5. v \in BOOLEAN
  BY DEF Exists
<1>6. calls' = (calls \ {c}) \cup {d}
  BY DEF JoinAs, Await
<1> HIDE DEF c1, v
<1>7. CallInv(d, store')
  BY <1>4, <1>5, Answered
<1> HIDE DEF d
<1> QED
  BY <1>2, <1>6, <1>7, OnlyStore DEF JoinAs

LEMMA JoinResumes ==
  ASSUME IInv, NEW c \in calls, JoinFound(c) \/ JoinResumed(c) \/ JoinAdded(c)
  PROVE  IInv' /\ GamesStep
<1>1. CASE JoinFound(c)
  <2>1. c.at = "join:found" /\ c.r \in store.used /\ c.s \in Sockets
    BY <1>1 DEF JoinFound, At, IInv, CallInv, Entering
  <2>2. CASE seat[c.s] \in {None, c.r}
    BY <1>1, <2>1, <2>2, JoinAsInv DEF JoinFound
  <2>3. CASE seat[c.s] \notin {None, c.r}
    BY <1>1, <2>1, <2>3, LeaveBegins DEF JoinFound
  <2> QED BY <2>2, <2>3
<1>2. CASE JoinResumed(c)
  BY <1>2, JoinAsInv DEF JoinResumed, At
<1>3. CASE JoinAdded(c)
  <2>1. c.at = "join:added"
    BY <1>3 DEF JoinAdded, At
  <2>2. TakeSeat(c, "seated") \/
          (Return({c}) /\ UNCHANGED <<store, conn, seat, joined, pendingLeaves, graceTimers, engines>>)
    BY <1>3 DEF JoinAdded
  <2>3. CASE TakeSeat(c, "seated")
    BY <2>1, <2>3, TakeSeatInv DEF Entering
  <2>4. CASE Return({c}) /\ UNCHANGED <<store, conn, seat, joined, pendingLeaves, graceTimers, engines>>
    BY <2>1, <2>4, Returned
  <2> QED BY <2>2, <2>3, <2>4
<1> QED
  BY <1>1, <1>2, <1>3

\* Clearing a timer takes its handle out of the map, arming one puts it in.
LEMMA TimerCleared ==
  ASSUME TimerInv, NEW k \in Keys, cancelPendingLeave(k), UNCHANGED store
  PROVE  TimerInv'
<1>1. pendingLeaves' = pendingLeaves \ {k}
  BY DEF cancelPendingLeave
<1>2. graceTimers' = [q \in Keys |-> IF q = k THEN 0 ELSE graceTimers[q]]
  BY DEF cancelPendingLeave, TimerInv
<1>3. graceTimers' = [q \in Keys |-> IF q \in pendingLeaves' THEN 1 ELSE 0]
  BY <1>1, <1>2 DEF TimerInv
<1> QED
  BY <1>1, <1>3 DEF TimerInv

LEMMA TimerArmed ==
  ASSUME TimerInv, NEW k \in Keys, k[1] \in store.used, Schedule(k), UNCHANGED store
  PROVE  TimerInv'
<1>1. pendingLeaves' = pendingLeaves \cup {k}
  BY DEF Schedule
<1>2. graceTimers' = [q \in Keys |-> IF q = k THEN 1 ELSE graceTimers[q]]
  BY DEF Schedule, TimerInv
<1>3. graceTimers' = [q \in Keys |-> IF q \in pendingLeaves' THEN 1 ELSE 0]
  BY <1>1, <1>2 DEF TimerInv
<1> QED
  BY <1>1, <1>3 DEF TimerInv

LEMMA TimerFired ==
  ASSUME TimerInv, NEW k \in Keys, GraceTimeout(k)
  PROVE  TimerInv' /\ k \in pendingLeaves
<1>1. k \in pendingLeaves
  BY DEF TimerInv, GraceTimeout
<1>2. pendingLeaves' = pendingLeaves \ {k} /\ UNCHANGED store
  BY DEF GraceTimeout
<1>3. graceTimers' = [q \in Keys |-> IF q = k THEN 0 ELSE graceTimers[q]]
  BY <1>1 DEF GraceTimeout, TimerInv
<1>4. graceTimers' = [q \in Keys |-> IF q \in pendingLeaves' THEN 1 ELSE 0]
  BY <1>2, <1>3 DEF TimerInv
<1> QED
  BY <1>1, <1>2, <1>4 DEF TimerInv

\* The end of a handler that clears or arms a timer.
LEMMA EndsWithTimer ==
  ASSUME IInv, NEW c \in calls, c.at # "removed", Return({c}), TimerInv',
         UNCHANGED <<store, seat, engines>>
  PROVE  IInv' /\ GamesStep
<1>1. SeatInv' /\ StoreInv(store') /\ Grows(store, store') /\ Keeps(store, store')
  BY NothingHappened DEF IInv, SeatInv
<1> QED
  BY <1>1, KeepsInv DEF Return

LEMMA KeyOf ==
  ASSUME NEW r \in Rooms, NEW p \in Players
  PROVE  <<r, p>> \in Keys /\ <<r, p>>[1] = r /\ <<r, p>>[2] = p
BY DEF Keys

LEMMA GetResumes ==
  ASSUME IInv, NEW c \in calls,
         GetFound(c) \/ GetResumed(c) \/ GetJoined(c) \/ Seated(c) \/ Done(c)
  PROVE  IInv' /\ GamesStep
<1>1. CallInv(c, store) /\ c.p \in Players
  BY DEF IInv, CallInv
<1>2. CASE GetFound(c)
  <2>1. c.at = "get:found" /\ c.r \in store.used /\ c.r \in Rooms /\ c.s \in Sockets
    BY <1>1, <1>2 DEF GetFound, At, CallInv, Entering, IInv, StoreInv
  <2>2. CASE c.p \notin Members(store, c.r)
    BY <1>2, <2>1, <2>2, Returned DEF GetFound
  <2>3. CASE c.p \in Members(store, c.r) /\ seat[c.s] = c.r
    <3>1. cancelPendingLeave(<<c.r, c.p>>) /\ Return({c}) /\ UNCHANGED <<store, seat, engines>>
      BY <1>2, <2>3 DEF GetFound
    <3>2. TimerInv'
      BY <1>1, <2>1, <3>1, KeyOf, TimerCleared DEF IInv
    <3> QED BY <2>1, <3>1, <3>2, EndsWithTimer
  <2>4. CASE c.p \in Members(store, c.r) /\ seat[c.s] # c.r /\ seat[c.s] = None
    BY <1>2, <2>1, <2>4, TakeSeatInv DEF GetFound, Entering
  <2>5. CASE c.p \in Members(store, c.r) /\ seat[c.s] # c.r /\ seat[c.s] # None
    BY <1>2, <2>1, <2>5, LeaveBegins DEF GetFound
  <2> QED BY <2>2, <2>3, <2>4, <2>5
<1>3. CASE GetResumed(c)
  BY <1>3, TakeSeatInv DEF GetResumed, At, Entering
<1>4. CASE GetJoined(c)
  <2> DEFINE d == [c EXCEPT !.at = "seated"]
  <2>1. c.at = "get:joined" /\ c.r \in store.used /\ c.r \in Rooms /\ c.s \in Sockets
    BY <1>1, <1>4 DEF GetJoined, At, CallInv, Entering, IInv, StoreInv
  <2>2. StoreInv(store') /\ Grows(store, store') /\ Keeps(store, store')
    BY <1>4, <2>1, OnlineStep DEF GetJoined, IInv
  <2>3. CallInv(c, store') /\ c.r \in store'.used
    BY <1>1, <2>1, <2>2, CallStays DEF IInv, Grows
  <2>4. CallInv(d, store')
    BY <2>1, <2>3, MovesOn DEF Leaving
  <2>5. calls' = (calls \ {c}) \cup {d}
    BY <1>4 DEF GetJoined, Await
  <2> HIDE DEF d
  <2> QED BY <1>4, <2>1, <2>2, <2>4, <2>5, OnlyStore DEF GetJoined
<1>5. CASE Seated(c)
  <2>1. c.at = "seated" /\ c.r \in Rooms
    BY <1>1, <1>5 DEF Seated, At, CallInv, Entering, IInv, StoreInv
  <2>2. cancelPendingLeave(<<c.r, c.p>>) /\ Return({c}) /\ UNCHANGED <<store, seat, engines>>
    BY <1>5 DEF Seated
  <2>3. TimerInv'
    BY <1>1, <2>1, <2>2, KeyOf, TimerCleared DEF IInv
  <2> QED BY <2>1, <2>2, <2>3, EndsWithTimer
<1>6. CASE Done(c)
  BY <1>6, Returned DEF Done, At
<1> QED
  BY <1>2, <1>3, <1>4, <1>5, <1>6

LEMMA SeatedRequests ==
  ASSUME IInv, NEW s \in Sockets, RoomLeave(s) \/ ChatSend(s) \/ GameStart(s)
  PROVE  IInv' /\ GamesStep
<1>1. seat[s] # None /\ seat[s] \in store.used /\ seat[s] \in Rooms
  BY DEF RoomLeave, ChatSend, GameStart, IInv, SeatInv, StoreInv
<1>2. CASE RoomLeave(s)
  BY <1>1, <1>2, LeaveBegins DEF RoomLeave
<1>3. CASE ChatSend(s)
  BY <1>1, <1>3, ChatStep, OnlyStore DEF ChatSend, IInv
<1>4. CASE GameStart(s)
  <2> DEFINE d == Call("start:found", Owner[s], s, seat[s])
  <2>1. CallInv(d, store)
    BY <1>1, NewCall, SessionsAssumption DEF Leaving
  <2>2. calls' = (calls \ {}) \cup {d}
    BY <1>4 DEF GameStart, Await
  <2> HIDE DEF d
  <2> QED BY <1>4, <2>1, <2>2, OnlyCalls DEF GameStart
<1> QED
  BY <1>2, <1>3, <1>4

\* A game starts where there is none, or goes on.
LEMMA EngineChanges ==
  ASSUME IInv, NEW f \in Rooms, NEW e, EngineShape(e), engines' = [engines EXCEPT ![f] = e],
         engines[f].status # "none" \/ Exists(store, f),
         engines[f].status = "running" =>
           e.status \in {"running", "ended"} /\ e.alive \subseteq engines[f].alive,
         UNCHANGED <<store, seat, pendingLeaves, graceTimers>>,
         calls' \subseteq calls, \A c \in calls : c.at = "removed" => c \in calls'
  PROVE  IInv' /\ GamesStep
<1>1. /\ engines' = [r \in Rooms |-> engines'[r]]
      /\ engines'[f] = e
      /\ \A r \in Rooms \ {f} : engines'[r] = engines[r]
  BY DEF IInv, EngineInv
<1>2. EngineInv'
  BY <1>1 DEF IInv, EngineInv
<1>3. SeatInv' /\ TimerInv' /\ StoreInv(store')
  BY DEF IInv, SeatInv, TimerInv
<1>4. \A d \in calls' : CallInv(d, store')
  BY DEF IInv
<1>5. OrphanInv'
  BY <1>1 DEF IInv, OrphanInv, Doomed
<1>6. GamesStep
  BY <1>1 DEF GamesStep
<1> QED
  BY <1>2, <1>3, <1>4, <1>5, <1>6 DEF IInv

LEMMA GameStarts ==
  ASSUME IInv, NEW c \in calls, StartFound(c) \/ startGameForRoom(c)
  PROVE  IInv' /\ GamesStep
<1>1. CallInv(c, store)
  BY DEF IInv
<1>2. CASE StartFound(c)
  <2> DEFINE d == [c EXCEPT !.at = "start:again"]
  <2>1. c.at = "start:found" /\ c.r \in store.used /\ c.s \in Sockets
    BY <1>1, <1>2 DEF StartFound, At, CallInv, Entering
  <2>2. CallInv(d, store)
    BY <1>1, <2>1, MovesOn DEF Leaving
  <2>3. CASE calls' = (calls \ {c}) \cup {d}
    <3> HIDE DEF d
    <3> QED BY <1>2, <2>1, <2>2, <2>3, OnlyCalls DEF StartFound
  <2>4. CASE Return({c})
    BY <1>2, <2>1, <2>4, Returned DEF StartFound
  <2>5. calls' = (calls \ {c}) \cup {d} \/ Return({c})
    BY <1>2 DEF StartFound, Await
  <2> QED BY <2>3, <2>4, <2>5
<1>3. CASE startGameForRoom(c)
  <2>1. /\ c.at = "start:again" /\ c.r \in Rooms /\ Return({c})
        /\ UNCHANGED <<store, seat, pendingLeaves, graceTimers>>
    BY <1>1, <1>3 DEF startGameForRoom, At, CallInv, Entering, IInv, StoreInv
  <2>2. CASE Exists(store, c.r) /\ engines[c.r].status \in {"none", "ended"}
    <3> DEFINE table == Members(store, c.r)
               status == IF Cardinality(table) >= MinPlayers THEN "running" ELSE "lobby"
               e == [status |-> status, alive |-> table]
    <3>1. engines' = [engines EXCEPT ![c.r] = e]
      BY <1>3, <2>2 DEF startGameForRoom
    <3>2. status \in {"lobby", "running"}
      OBVIOUS
    <3> HIDE DEF table, status
    <3>3. EngineShape(e)
      BY <3>2 DEF EngineShape
    <3>4. calls' \subseteq calls /\ \A q \in calls : q.at = "removed" => q \in calls'
      BY <2>1 DEF Return
    <3> HIDE DEF e
    <3> QED BY <2>1, <2>2, <3>1, <3>3, <3>4, EngineChanges
  <2>3. CASE ~(Exists(store, c.r) /\ engines[c.r].status \in {"none", "ended"})
    <3>1. UNCHANGED engines
      BY <1>3, <2>3 DEF startGameForRoom
    <3> QED BY <2>1, <3>1, Returned
  <2> QED BY <2>2, <2>3
<1> QED
  BY <1>2, <1>3

LEMMA GameGoesOnInv ==
  ASSUME IInv, NEW r \in Rooms, GameGoesOn(r)
  PROVE  IInv' /\ GamesStep
<1>1. PICK S \in SUBSET engines[r].alive, st \in {"running", "ended"} :
        engines' = [engines EXCEPT ![r] = [status |-> st, alive |-> S]]
  BY DEF GameGoesOn
<1> DEFINE e == [status |-> st, alive |-> S]
<1>2. EngineShape(e) /\ e.status \in {"running", "ended"} /\ e.alive \subseteq engines[r].alive
  BY DEF EngineShape
<1>3. engines' = [engines EXCEPT ![r] = e]
  BY <1>1
<1> HIDE DEF e
<1> QED
  BY <1>2, <1>3, EngineChanges DEF GameGoesOn

\* The call of a lost player, and that of a grace timer.
LEMMA AbsenceCall ==
  ASSUME NEW at \in {"lost", "gone"}, NEW p \in Players, NEW s, NEW room, NEW v \in BOOLEAN,
         NEW u, room \in u.used
  PROVE  CallInv([Call(at, p, s, None) EXCEPT !.from = room, !.answer = v], u)
<1> DEFINE c0 == Call(at, p, s, None)
           c1 == [c0 EXCEPT !.from = room]
           d == [c1 EXCEPT !.answer = v]
<1>1. CallShape(c0) /\ c0.at = at /\ c0.p = p /\ c0.answer = FALSE /\ c0.then = "done"
  BY DEF Call, CallShape
<1> HIDE DEF c0
<1>2. SameBut(c1, c0, "from") /\ c1.from = room
  BY <1>1, CallField
<1> HIDE DEF c1
<1>3. CallShape(c1) /\ c1.at = at /\ c1.p = p /\ c1.then = "done"
  BY <1>1, <1>2 DEF SameBut
<1>4. SameBut(d, c1, "answer") /\ d.answer = v
  BY <1>3, CallAnswer
<1> HIDE DEF d
<1>5. CallInv(d, u)
  BY <1>2, <1>3, <1>4 DEF SameBut, CallInv, Leaving, Entering
<1>6. [Call(at, p, s, None) EXCEPT !.from = room, !.answer = v] = d
  BY DEF d, c1, c0
<1> QED
  BY <1>5, <1>6

LEMMA DisconnectInv ==
  ASSUME IInv, NEW s \in Sockets, Connect(s) \/ Disconnect(s)
  PROVE  IInv' /\ GamesStep
<1>1. CASE Connect(s)
  BY <1>1, OnlyCalls DEF Connect
<1>2. CASE Disconnect(s) /\ seat[s] = None
  BY <1>2, OnlyCalls DEF Disconnect, Return
<1>3. CASE Disconnect(s) /\ seat[s] # None
  <2> DEFINE room == seat[s]
             v == SocketsOf(Owner[s], seat[s]) \ {s} = {}
             d == [Call("lost", Owner[s], s, None) EXCEPT !.from = room, !.answer = v]
  <2>1. calls' = (calls \ {}) \cup {d}
    BY <1>3 DEF Disconnect, Await
  <2>2. v \in BOOLEAN /\ room \in store.used /\ Owner[s] \in Players
    BY <1>3, SessionsAssumption DEF IInv, SeatInv
  <2> HIDE DEF room, v
  <2>3. CallInv(d, store)
    BY <2>2, AbsenceCall
  <2> HIDE DEF d
  <2> QED BY <1>3, <2>1, <2>3, OnlyCalls DEF Disconnect
<1> QED
  BY <1>1, <1>2, <1>3

LEMMA GraceTimeoutInv ==
  ASSUME IInv, NEW k \in Keys, GraceTimeout(k)
  PROVE  IInv' /\ GamesStep
<1> DEFINE room == k[1]
           p == k[2]
           v == countOtherUserSockets(k[1], k[2]) = 0
           d == [Call("gone", p, None, None) EXCEPT !.from = room, !.answer = v]
<1>1. calls' = (calls \ {}) \cup {d}
  BY DEF GraceTimeout, Await
<1>2. TimerInv' /\ k \in pendingLeaves
  BY TimerFired DEF IInv
<1>3. v \in BOOLEAN /\ room \in store.used /\ p \in Players
  BY <1>2 DEF IInv, TimerInv, Keys
<1>4. UNCHANGED <<store, seat, engines>>
  BY DEF GraceTimeout
<1> HIDE DEF room, p, v
<1>5. CallInv(d, store)
  BY <1>3, AbsenceCall
<1> HIDE DEF d
<1>6. SeatInv' /\ StoreInv(store') /\ Grows(store, store') /\ Keeps(store, store')
  BY <1>4, NothingHappened DEF IInv, SeatInv
<1> QED
  BY <1>1, <1>2, <1>4, <1>5, <1>6, KeepsInv

LEMMA AbsenceGoesOn ==
  ASSUME IInv, NEW c \in calls,
         LostCounted(c) \/ LostMarked(c) \/ GoneCounted(c) \/ GoneFound(c)
  PROVE  IInv' /\ GamesStep
<1>1. CallInv(c, store) /\ c.p \in Players /\ c.answer \in BOOLEAN
  BY DEF IInv, CallInv
<1>2. /\ c.at \in {"lost", "lost:marked", "gone", "gone:found"}
      /\ c.from \in store.used /\ c.from \in Rooms
  BY <1>1 DEF LostCounted, LostMarked, GoneCounted, GoneFound, At, CallInv, Leaving, IInv, StoreInv
<1>3. CASE LostCounted(c)
  <2>1. CASE c.answer = TRUE
    <3> DEFINE d == [c EXCEPT !.at = "lost:marked"]
    <3>1. store' = setPlayerOnline(store, c.from, c.p, FALSE) /\ calls' = (calls \ {c}) \cup {d}
      BY <1>3, <2>1 DEF LostCounted, Await
    <3>2. StoreInv(store') /\ Grows(store, store') /\ Keeps(store, store')
      BY <1>2, <3>1, OnlineStep DEF IInv
    <3>3. CallInv(c, store') /\ c.from \in store'.used
      BY <1>1, <1>2, <3>2, CallStays DEF IInv, Grows
    <3>4. CallInv(d, store')
      BY <3>3, MovesOn DEF Entering
    <3> HIDE DEF d
    <3> QED BY <1>2, <1>3, <3>1, <3>2, <3>4, OnlyStore DEF LostCounted
  <2>2. CASE c.answer = FALSE
    BY <1>2, <1>3, <2>2, Returned DEF LostCounted
  <2> QED BY <1>1, <2>1, <2>2
<1>4. CASE LostMarked(c)
  <2>1. Schedule(<<c.from, c.p>>) /\ Return({c}) /\ UNCHANGED <<store, seat, engines>>
    BY <1>4 DEF LostMarked
  <2>2. TimerInv'
    BY <1>1, <1>2, <2>1, KeyOf, TimerArmed DEF IInv
  <2> QED BY <1>2, <2>1, <2>2, EndsWithTimer
<1>5. CASE GoneCounted(c)
  <2> DEFINE d == [c EXCEPT !.at = "gone:found"]
  <2>1. CallInv(d, store)
    BY <1>1, <1>2, MovesOn DEF Entering
  <2>2. calls' = (calls \ {c}) \cup {d} \/ Return({c})
    BY <1>5 DEF GoneCounted, Await
  <2> HIDE DEF d
  <2>3. CASE calls' = (calls \ {c}) \cup {d}
    BY <1>2, <1>5, <2>1, <2>3, OnlyCalls DEF GoneCounted
  <2>4. CASE Return({c})
    BY <1>2, <1>5, <2>4, Returned DEF GoneCounted
  <2> QED BY <2>2, <2>3, <2>4
<1>6. CASE GoneFound(c)
  <2>1. c.at = "gone:found"
    BY <1>6 DEF GoneFound, At
  <2>2. CASE RemovePlayer(c)
    BY <1>6, <2>1, <2>2, RemovePlayerInv DEF GoneFound
  <2>3. CASE Return({c}) /\ UNCHANGED store
    BY <1>2, <1>6, <2>3, Returned DEF GoneFound
  <2> QED BY <1>6, <2>2, <2>3 DEF GoneFound
<1> QED
  BY <1>3, <1>4, <1>5, <1>6
-------------------------------------------------------------------------------
(***************************************************************************)
(* The theorems                                                            *)
(***************************************************************************)

LEMMA InitInv == Init => IInv
<1> SUFFICES ASSUME Init PROVE IInv
  OBVIOUS
<1>1. StoreInv(store)
  BY EmptyStore DEF Init
<1>2. SeatInv /\ TimerInv
  BY DEF Init, SeatInv, TimerInv
<1>3. EngineInv /\ OrphanInv
  BY DEF Init, EngineInv, EngineShape, NoEngine, OrphanInv
<1>4. \A c \in calls : CallInv(c, store)
  BY DEF Init
<1> QED
  BY <1>1, <1>2, <1>3, <1>4 DEF IInv

LEMMA ResumeInv ==
  ASSUME IInv, NEW c \in calls, Resume(c)
  PROVE  IInv' /\ GamesStep
BY LeftChannelInv, LeftCountedInv, LeftRemovedInv, CreateResumes, JoinResumes, GetResumes,
   GameStarts, AbsenceGoesOn DEF Resume

LEMMA ReceiveInv ==
  ASSUME IInv, NEW s \in Sockets, Receive(s)
  PROVE  IInv' /\ GamesStep
BY RoomCreateInv, SeatedRequests, RoomJoinInv, RoomGetInv DEF Receive

LEMMA StutterInv ==
  ASSUME IInv, UNCHANGED vars
  PROVE  IInv' /\ GamesStep
BY OnlyCalls DEF vars

LEMMA StepInv ==
  ASSUME IInv, [Next]_vars
  PROVE  IInv' /\ GamesStep
<1>1. CASE UNCHANGED vars
  BY <1>1, StutterInv
<1>2. CASE Next
  <2>1. ASSUME NEW s \in Sockets, Connect(s) \/ Disconnect(s) \/ Receive(s)
        PROVE  IInv' /\ GamesStep
    BY <2>1, DisconnectInv, ReceiveInv
  <2>2. ASSUME NEW c \in calls, Resume(c)
        PROVE  IInv' /\ GamesStep
    BY <2>2, ResumeInv
  <2>3. ASSUME NEW k \in Keys, GraceTimeout(k)
        PROVE  IInv' /\ GamesStep
    BY <2>3, GraceTimeoutInv
  <2>4. ASSUME NEW r \in Rooms, GameGoesOn(r)
        PROVE  IInv' /\ GamesStep
    BY <2>4, GameGoesOnInv
  <2> QED BY <1>2, <2>1, <2>2, <2>3, <2>4 DEF Next
<1> QED
  BY <1>1, <1>2

\* The invariant of the sessions, for any number of players, sockets, rooms and codes and
\* with handlers that run one at a time or interleave at every await.
THEOREM SessionsInvariant == Spec => []IInv
<1>1. Init => IInv
  BY InitInv
<1>2. IInv /\ [Next]_vars => IInv'
  BY StepInv
<1> QED
  BY <1>1, <1>2, PTL DEF Spec

\* A code leads to one room and back, in every reachable state and whatever runs
\* between the awaits of a handler: the rooms and the index of MemoryRoomStore agree.
THEOREM CodesLeadAlways == Spec => []CodesLead
<1>1. IInv => CodesLead
  BY DEF IInv, StoreInv, CodesLead
<1> QED
  BY <1>1, SessionsInvariant, PTL

\* A running game is neither replaced nor restarted, and nobody enters it, by however
\* many handlers of game:start, join and leave at once.
THEOREM GamesRunOutAlways == Spec => GamesRunOut
<1>1. IInv /\ [Next]_vars =>
        [\A r \in Rooms : engines[r].status = "running" =>
           \/ engines'[r].status \in {"running", "ended"} /\ engines'[r].alive \subseteq engines[r].alive
           \/ ~Exists(store', r)]_vars
  BY StepInv DEF GamesStep
<1> QED
  BY <1>1, SessionsInvariant, PTL DEF Spec, GamesRunOut

\* Between two events every engine has a room, by whatever way and in whatever order
\* its players left: the handler that removes the last one destroys the game.
THEOREM NoOrphanGamesEver == Spec => []NoOrphanGames
<1>1. IInv => NoOrphanGames
  BY DEF IInv, OrphanInv, Doomed, NoOrphanGames
<1> QED
  BY <1>1, SessionsInvariant, PTL

\* A player has at most one grace timer per room, and the map holds its handle as long
\* as it is armed, so that a return always finds the timer it must clear; of a timer
\* that fired the map keeps nothing.
THEOREM OneTimerEach ==
  Spec => [](graceTimers = [k \in Keys |-> IF k \in pendingLeaves THEN 1 ELSE 0])
<1>1. IInv => graceTimers = [k \in Keys |-> IF k \in pendingLeaves THEN 1 ELSE 0]
  BY DEF IInv, TimerInv
<1> QED
  BY <1>1, SessionsInvariant, PTL
-------------------------------------------------------------------------------
(***************************************************************************)
(* The lists of the rooms: one host, the eldest, whatever the handlers     *)
(* call and whatever runs between their awaits; and the types of what the  *)
(* handlers keep.                                                          *)
(***************************************************************************)

\* A list that holds nobody twice.
Listed(x) == x.players \in Seq(Players) /\ IsInjective(x.players)

RoomInv(x) ==
  /\ Listed(x) /\ x.players # <<>>
  /\ x.hostId = Head(x.players) /\ x.isHost = {x.hostId}
  /\ x.isOnline \subseteq ToSet(x.players)
  /\ x.chat \in 0 .. ChatLimit

RoomsInv(s) == \A r \in Rooms : Exists(s, r) => RoomInv(s.rooms[r])

\* A room that is gone has no members.
LEMMA NobodyInNoRoom ==
  ASSUME NEW s, NEW r, ~Exists(s, r)
  PROVE  s.rooms[r] = NoRoom /\ Members(s, r) = {} /\ s.rooms[r].isOnline = {}
<1>1. s.rooms[r] = NoRoom
  BY DEF Exists, getById
<1> QED
  BY <1>1 DEF Members, NoRoom, ToSet

\* A room replaced by one that keeps what a room keeps.
LEMMA RoomPut ==
  ASSUME NEW s, RoomsInv(s), NEW r \in Rooms, NEW t, RoomInv(t.rooms[r]) \/ t.rooms[r] = NoRoom,
         \A q \in Rooms \ {r} : t.rooms[q] = s.rooms[q]
  PROVE  RoomsInv(t)
BY DEF RoomsInv, Exists, getById

\* The fields of a room, one by one.
LEMMA Fields ==
  ASSUME NEW x, RoomShape(x), NEW l, NEW o, NEW h, NEW f, NEW n
  PROVE  /\ LET y == [x EXCEPT !.players = l, !.isOnline = o]
            IN  /\ y.players = l /\ y.isOnline = o /\ y.hostId = x.hostId /\ y.isHost = x.isHost
                /\ y.chat = x.chat
         /\ LET y == [x EXCEPT !.players = l, !.isOnline = o, !.hostId = h, !.isHost = f]
            IN  y.players = l /\ y.isOnline = o /\ y.hostId = h /\ y.isHost = f /\ y.chat = x.chat
         /\ LET y == [x EXCEPT !.isOnline = o]
            IN  /\ y.players = x.players /\ y.isOnline = o /\ y.hostId = x.hostId
                /\ y.isHost = x.isHost /\ y.chat = x.chat
         /\ LET y == [x EXCEPT !.chat = n]
            IN  /\ y.players = x.players /\ y.isOnline = x.isOnline /\ y.hostId = x.hostId
                /\ y.isHost = x.isHost /\ y.chat = n
<1>1. LET y == [x EXCEPT !.players = l, !.isOnline = o]
      IN  /\ y.players = l /\ y.isOnline = o /\ y.hostId = x.hostId /\ y.isHost = x.isHost
          /\ y.chat = x.chat
  BY DEF RoomShape
<1>2. LET y == [x EXCEPT !.players = l, !.isOnline = o, !.hostId = h, !.isHost = f]
      IN  y.players = l /\ y.isOnline = o /\ y.hostId = h /\ y.isHost = f /\ y.chat = x.chat
  BY DEF RoomShape
<1>3. LET y == [x EXCEPT !.isOnline = o]
      IN  /\ y.players = x.players /\ y.isOnline = o /\ y.hostId = x.hostId
          /\ y.isHost = x.isHost /\ y.chat = x.chat
  BY DEF RoomShape
<1>4. LET y == [x EXCEPT !.chat = n]
      IN  /\ y.players = x.players /\ y.isOnline = x.isOnline /\ y.hostId = x.hostId
          /\ y.isHost = x.isHost /\ y.chat = n
  BY DEF RoomShape
<1> QED
  BY <1>1, <1>2, <1>3, <1>4

\* A new room holds its host alone, and the other rooms are as they were.
LEMMA Created ==
  ASSUME NEW s, StoreInv(s), RoomsInv(s), NEW rc \in FreshRooms(s), NEW p \in Players
  PROVE  LET t == create(s, p, rc[1], rc[2])
         IN  /\ RoomsInv(t) /\ ~Exists(s, rc[1]) /\ rc[1] \notin s.used
             /\ \A q \in Rooms \ {rc[1]} : t.rooms[q] = s.rooms[q]
             /\ t.rooms[rc[1]].isOnline = {p} /\ Members(t, rc[1]) = {p}
<1> DEFINE r == rc[1]
           c == rc[2]
           t == create(s, p, r, c)
           room == [joinCode |-> c, hostId |-> p, players |-> <<p>>,
                    isHost |-> {p}, isOnline |-> {p}, chat |-> 0]
<1>1. r \in Rooms /\ r \notin s.used /\ ~Exists(s, r)
  BY DEF FreshRooms, StoreInv
<1>2. t.rooms = [s.rooms EXCEPT ![r] = room]
  BY DEF create
<1>3. /\ room.hostId = p /\ room.players = <<p>> /\ room.isHost = {p} /\ room.isOnline = {p}
      /\ room.chat = 0
  OBVIOUS
<1>4. ToSet(<<p>>) = {p} /\ <<p>> \in Seq(Players) /\ IsInjective(<<p>>) /\ Head(<<p>>) = p
  BY DEF ToSet, IsInjective
<1>5. <<p>> # <<>> /\ 0 \in 0 .. ChatLimit
  BY StoreAssumption
<1> HIDE DEF r, c, t, room
<1>6. RoomInv(room)
  BY <1>3, <1>4, <1>5 DEF RoomInv, Listed
<1>7. RoomsInv(t) /\ t.rooms[r] = room /\ \A q \in Rooms \ {r} : t.rooms[q] = s.rooms[q]
  <2>1. t.rooms[r] = room /\ \A q \in Rooms \ {r} : t.rooms[q] = s.rooms[q]
    BY <1>1, <1>2, <1>6 DEF StoreInv
  <2> QED BY <1>1, <1>2, <1>6, <2>1, RoomPut
<1> QED
  BY <1>1, <1>3, <1>4, <1>7 DEF Members, r, c, t

\* A newcomer stands at the end of the list and is online.
LEMMA Added ==
  ASSUME NEW s, StoreInv(s), RoomsInv(s), NEW r \in Rooms, NEW p \in Players
  PROVE  LET t == addPlayer(s, r, p)
         IN  /\ RoomsInv(t)
             /\ \A q \in Rooms \ {r} : t.rooms[q] = s.rooms[q]
             /\ ~Exists(s, r) => t = s
             /\ Exists(s, r) /\ p \notin Members(s, r) =>
                  /\ t.rooms[r].isOnline = s.rooms[r].isOnline \cup {p}
                  /\ t.rooms[r].players = Append(s.rooms[r].players, p)
                  /\ Members(t, r) = Members(s, r) \cup {p}
                  /\ t.rooms[r].hostId = s.rooms[r].hostId
                  /\ t.rooms[r].isHost = s.rooms[r].isHost
<1> DEFINE t == addPlayer(s, r, p)
<1>1. CASE ~Exists(s, r) \/ p \in Members(s, r)
  BY <1>1 DEF addPlayer
<1>2. CASE Exists(s, r) /\ p \notin Members(s, r)
  <2> DEFINE x == s.rooms[r]
             l == Append(x.players, p)
             o == x.isOnline \cup {p}
             room == [x EXCEPT !.players = l, !.isOnline = o]
  <2>1. RoomShape(x) /\ RoomInv(x)
    BY <1>2 DEF StoreInv, RoomsInv
  <2>2. t.rooms = [s.rooms EXCEPT ![r] = room]
    BY <1>2, <2>1 DEF addPlayer, StoreInv, RoomShape
  <2>3. p \notin ToSet(x.players)
    BY <1>2 DEF Members
  <2>4. /\ l \in Seq(Players) /\ IsInjective(l) /\ l # <<>> /\ ToSet(l) = ToSet(x.players) \cup {p}
        /\ Head(l) = Head(x.players)
    BY <2>1, <2>3, Put DEF RoomInv, Listed
  <2> HIDE DEF x, l, o, t
  <2>5. /\ room.players = l /\ room.isOnline = o /\ room.hostId = x.hostId /\ room.isHost = x.isHost
        /\ room.chat = x.chat
    BY <2>1, Fields
  <2> HIDE DEF room
  <2>6. RoomInv(room)
    BY <2>1, <2>4, <2>5 DEF RoomInv, Listed, o
  <2>7. RoomsInv(t) /\ t.rooms[r] = room /\ \A q \in Rooms \ {r} : t.rooms[q] = s.rooms[q]
    <3>1. t.rooms[r] = room /\ \A q \in Rooms \ {r} : t.rooms[q] = s.rooms[q]
      BY <2>2, <2>6 DEF StoreInv
    <3> QED BY <2>2, <2>6, <3>1, RoomPut
  <2> QED BY <1>2, <2>4, <2>5, <2>7 DEF Members, t, x, l, o
<1> QED
  BY <1>1, <1>2

\* From s to t, room r comes to show the players in o online.
ShowsOnline(s, t, r, o) ==
  /\ RoomsInv(t)
  /\ \A q \in Rooms \ {r} : t.rooms[q] = s.rooms[q]
  /\ t.rooms[r].isOnline = o
  /\ t.rooms[r].players = s.rooms[r].players
  /\ Members(t, r) = Members(s, r)
  /\ t.rooms[r].hostId = s.rooms[r].hostId
  /\ t.rooms[r].isHost = s.rooms[r].isHost

\* A room that shows other members online.
LEMMA Marked ==
  ASSUME NEW s, StoreInv(s), RoomsInv(s), NEW r \in Rooms, Exists(s, r),
         NEW o, o \subseteq Members(s, r), NEW room,
         room.players = s.rooms[r].players, room.isOnline = o, room.hostId = s.rooms[r].hostId,
         room.isHost = s.rooms[r].isHost, room.chat = s.rooms[r].chat,
         NEW t, t.rooms[r] = room, \A q \in Rooms \ {r} : t.rooms[q] = s.rooms[q]
  PROVE  RoomsInv(t) /\ Members(t, r) = Members(s, r)
<1>1. RoomInv(s.rooms[r])
  BY DEF RoomsInv
<1>2. RoomInv(room)
  BY <1>1 DEF RoomInv, Listed, Members
<1> QED
  BY <1>2, RoomPut DEF Members

\* A member who is back is online.
LEMMA Shown ==
  ASSUME NEW s, StoreInv(s), RoomsInv(s), NEW r \in Rooms, NEW p, p \in Members(s, r)
  PROVE  ShowsOnline(s, setPlayerOnline(s, r, p, TRUE), r, s.rooms[r].isOnline \cup {p})
<1> DEFINE t == setPlayerOnline(s, r, p, TRUE)
           x == s.rooms[r]
           o == IF TRUE THEN x.isOnline \cup {p} ELSE x.isOnline \ {p}
           room == [x EXCEPT !.isOnline = o]
<1>1. Exists(s, r)
  BY NobodyInNoRoom
<1>2. RoomShape(x) /\ RoomInv(x)
  BY <1>1 DEF StoreInv, RoomsInv
<1>3. t.rooms = [s.rooms EXCEPT ![r] = room]
  BY <1>2 DEF setPlayerOnline, StoreInv, RoomShape
<1>4. o = x.isOnline \cup {p}
  OBVIOUS
<1>5. o \subseteq Members(s, r)
  BY <1>2, <1>4 DEF RoomInv, Members
<1> HIDE DEF t, o
<1>6. /\ room.players = x.players /\ room.isOnline = o /\ room.hostId = x.hostId
      /\ room.isHost = x.isHost /\ room.chat = x.chat
  BY <1>2, Fields
<1>7. t.rooms[r] = room /\ \A q \in Rooms \ {r} : t.rooms[q] = s.rooms[q]
  BY <1>3 DEF StoreInv
<1> HIDE DEF room
<1>8. RoomsInv(t) /\ Members(t, r) = Members(s, r)
  BY <1>1, <1>5, <1>6, <1>7, Marked
<1> QED
  BY <1>4, <1>6, <1>7, <1>8 DEF t, x, ShowsOnline

\* A member who is lost is not.
LEMMA Hidden ==
  ASSUME NEW s, StoreInv(s), RoomsInv(s), NEW r \in Rooms, NEW p, p \in Members(s, r)
  PROVE  ShowsOnline(s, setPlayerOnline(s, r, p, FALSE), r, s.rooms[r].isOnline \ {p})
<1> DEFINE t == setPlayerOnline(s, r, p, FALSE)
           x == s.rooms[r]
           o == IF FALSE THEN x.isOnline \cup {p} ELSE x.isOnline \ {p}
           room == [x EXCEPT !.isOnline = o]
<1>1. Exists(s, r)
  BY NobodyInNoRoom
<1>2. RoomShape(x) /\ RoomInv(x)
  BY <1>1 DEF StoreInv, RoomsInv
<1>3. t.rooms = [s.rooms EXCEPT ![r] = room]
  BY <1>2 DEF setPlayerOnline, StoreInv, RoomShape
<1>4. o = x.isOnline \ {p}
  OBVIOUS
<1>5. o \subseteq Members(s, r)
  BY <1>2, <1>4 DEF RoomInv, Members
<1> HIDE DEF t, o
<1>6. /\ room.players = x.players /\ room.isOnline = o /\ room.hostId = x.hostId
      /\ room.isHost = x.isHost /\ room.chat = x.chat
  BY <1>2, Fields
<1>7. t.rooms[r] = room /\ \A q \in Rooms \ {r} : t.rooms[q] = s.rooms[q]
  BY <1>3 DEF StoreInv
<1> HIDE DEF room
<1>8. RoomsInv(t) /\ Members(t, r) = Members(s, r)
  BY <1>1, <1>5, <1>6, <1>7, Marked
<1> QED
  BY <1>4, <1>6, <1>7, <1>8 DEF t, x, ShowsOnline

\* A message changes the chat only.
LEMMA Chatted ==
  ASSUME NEW s, StoreInv(s), RoomsInv(s), NEW r \in Rooms
  PROVE  LET t == addChatMessage(s, r)
         IN  /\ RoomsInv(t)
             /\ \A q \in Rooms :
                  /\ t.rooms[q].isOnline = s.rooms[q].isOnline
                  /\ t.rooms[q].players = s.rooms[q].players
                  /\ t.rooms[q].hostId = s.rooms[q].hostId
                  /\ t.rooms[q].isHost = s.rooms[q].isHost
<1> DEFINE t == addChatMessage(s, r)
<1>1. CASE ~Exists(s, r)
  BY <1>1 DEF addChatMessage
<1>2. CASE Exists(s, r)
  <2> DEFINE x == s.rooms[r]
             n == IF x.chat < ChatLimit THEN x.chat + 1 ELSE x.chat
             room == [x EXCEPT !.chat = n]
  <2>1. RoomShape(x) /\ RoomInv(x)
    BY <1>2 DEF StoreInv, RoomsInv
  <2>2. t.rooms = [s.rooms EXCEPT ![r] = room]
    BY <1>2, <2>1 DEF addChatMessage, StoreInv, RoomShape
  <2> HIDE DEF x, t
  <2>3. n \in 0 .. ChatLimit
    BY <2>1, StoreAssumption DEF RoomInv
  <2> HIDE DEF n
  <2>4. /\ room.players = x.players /\ room.isOnline = x.isOnline /\ room.hostId = x.hostId
        /\ room.isHost = x.isHost /\ room.chat = n
    BY <2>1, Fields
  <2> HIDE DEF room
  <2>5. RoomInv(room)
    BY <2>1, <2>3, <2>4 DEF RoomInv, Listed
  <2>6. RoomsInv(t) /\ t.rooms[r] = room /\ \A q \in Rooms \ {r} : t.rooms[q] = s.rooms[q]
    <3>1. t.rooms[r] = room /\ \A q \in Rooms \ {r} : t.rooms[q] = s.rooms[q]
      BY <2>2, <2>5 DEF StoreInv
    <3> QED BY <2>2, <2>5, <3>1, RoomPut
  <2>7. ASSUME NEW q \in Rooms
        PROVE  /\ t.rooms[q].isOnline = s.rooms[q].isOnline
               /\ t.rooms[q].players = s.rooms[q].players
               /\ t.rooms[q].hostId = s.rooms[q].hostId
               /\ t.rooms[q].isHost = s.rooms[q].isHost
    BY <2>4, <2>6 DEF x
  <2> QED BY <2>6, <2>7 DEF t
<1> QED
  BY <1>1, <1>2

\* A departure takes one player out of one room.
LEMMA Removed ==
  ASSUME NEW s, StoreInv(s), RoomsInv(s), NEW r \in Rooms, NEW p
  PROVE  LET t == removePlayer(s, r, p)
         IN  /\ RoomsInv(t)
             /\ \A q \in Rooms \ {r} : t.rooms[q] = s.rooms[q]
             /\ t.rooms[r].isOnline = s.rooms[r].isOnline \ {p}
             /\ Members(t, r) = Members(s, r) \ {p}
<1> DEFINE t == removePlayer(s, r, p)
           x == s.rooms[r]
<1>1. CASE ~Exists(s, r)
  <2>1. Members(s, r) = {} /\ x.isOnline = {}
    BY <1>1, NobodyInNoRoom
  <2>2. t = s
    BY <1>1 DEF removePlayer
  <2> QED BY <2>1, <2>2
<1>2. CASE Exists(s, r) /\ Members(s, r) \subseteq {p}
  <2>1. RoomInv(x)
    BY <1>2 DEF RoomsInv
  <2>2. t.rooms = [s.rooms EXCEPT ![r] = NoRoom]
    BY <1>2 DEF removePlayer, delete, StoreInv
  <2> HIDE DEF t
  <2>3. RoomsInv(t) /\ t.rooms[r] = NoRoom /\ \A q \in Rooms \ {r} : t.rooms[q] = s.rooms[q]
    <3>1. t.rooms[r] = NoRoom /\ \A q \in Rooms \ {r} : t.rooms[q] = s.rooms[q]
      BY <2>2 DEF StoreInv
    <3> QED BY <2>2, <3>1, RoomPut
  <2>4. ~Exists(t, r)
    BY <2>3 DEF Exists, getById
  <2>5. Members(t, r) = {} /\ t.rooms[r].isOnline = {}
    BY <2>4, NobodyInNoRoom
  <2>6. x.isOnline \subseteq {p}
    BY <1>2, <2>1 DEF RoomInv, Members
  <2> QED BY <1>2, <2>3, <2>5, <2>6 DEF t
<1>3. CASE Exists(s, r) /\ ~(Members(s, r) \subseteq {p})
  <2> DEFINE l == RemoveFirst(x.players, p)
             h == IF x.hostId = p THEN Head(l) ELSE x.hostId
             f == (x.isHost \ {p}) \cup IF x.hostId = p THEN {h} ELSE {}
             o == x.isOnline \ {p}
             room == [x EXCEPT !.players = l, !.isOnline = o, !.hostId = h, !.isHost = f]
  <2>1. RoomShape(x) /\ RoomInv(x)
    BY <1>3 DEF StoreInv, RoomsInv
  <2>2. t.rooms = [s.rooms EXCEPT ![r] = room]
    BY <1>3 DEF removePlayer, Without, StoreInv
  <2>3. /\ l \in Seq(Players) /\ IsInjective(l) /\ ToSet(l) = ToSet(x.players) \ {p}
        /\ Head(x.players) # p => Head(l) = Head(x.players)
        /\ l # <<>>
    BY <1>3, <2>1, TakenOff DEF RoomInv, Listed, Members
  <2> HIDE DEF x, l, t
  <2>4. h = Head(l) /\ f = {h}
    BY <2>1, <2>3 DEF RoomInv
  <2>5. o \subseteq ToSet(l)
    BY <2>1, <2>3 DEF RoomInv
  <2> HIDE DEF h, f, o
  <2>6. room.players = l /\ room.isOnline = o /\ room.hostId = h /\ room.isHost = f /\ room.chat = x.chat
    BY <2>1, Fields
  <2> HIDE DEF room
  <2>7. RoomInv(room)
    BY <2>1, <2>3, <2>4, <2>5, <2>6 DEF RoomInv, Listed
  <2>8. RoomsInv(t) /\ t.rooms[r] = room /\ \A q \in Rooms \ {r} : t.rooms[q] = s.rooms[q]
    <3>1. t.rooms[r] = room /\ \A q \in Rooms \ {r} : t.rooms[q] = s.rooms[q]
      BY <2>2, <2>7 DEF StoreInv
    <3> QED BY <2>2, <2>7, <3>1, RoomPut
  <2> QED BY <2>3, <2>6, <2>8 DEF Members, t, x, o
<1> QED
  BY <1>1, <1>2, <1>3
-------------------------------------------------------------------------------
\* What the store becomes: one call of it at most.
StoreCalled ==
  \/ UNCHANGED store
  \/ \E rc \in FreshRooms(store), p \in Players : store' = create(store, p, rc[1], rc[2])
  \/ \E r \in Rooms, p \in Players :
       \/ store' = addPlayer(store, r, p)
       \/ store' = setPlayerOnline(store, r, p, TRUE)
       \/ store' = setPlayerOnline(store, r, p, FALSE)
       \/ store' = removePlayer(store, r, p)
  \/ \E r \in Rooms : store' = addChatMessage(store, r)

\* A handler that resumes calls the store once at most.
LEMMA StoreResumes ==
  ASSUME IInv, NEW c \in calls, Resume(c)
  PROVE  StoreCalled
<1>1. c.p \in Players /\ (c.at \in Leaving => c.from \in Rooms) /\ (c.at \in Entering => c.r \in Rooms)
      /\ (c.at = "create" => c.s \in Sockets)
  BY DEF IInv, CallInv, StoreInv
<1>2. CASE LeftCounted(c) \/ GoneFound(c)
  <2>1. c.at \in {"counted", "gone:found"}
    BY <1>2 DEF LeftCounted, GoneFound, At
  <2>2. UNCHANGED store \/ store' = removePlayer(store, c.from, c.p)
    BY <1>2 DEF LeftCounted, GoneFound, RemovePlayer
  <2> QED BY <1>1, <2>1, <2>2 DEF StoreCalled, Leaving
<1>3. CASE CreateResumed(c)
  <2>1. c.s \in Sockets
    BY <1>1, <1>3 DEF CreateResumed, At
  <2> QED BY <1>3, <2>1, SessionsAssumption DEF CreateResumed, CreateIn, StoreCalled
<1>4. CASE JoinFound(c) \/ JoinResumed(c)
  <2>1. c.at \in {"join:found", "join"}
    BY <1>4 DEF JoinFound, JoinResumed, At
  <2>2. \/ UNCHANGED store \/ store' = addPlayer(store, c.r, c.p)
        \/ store' = setPlayerOnline(store, c.r, c.p, TRUE)
    BY <1>4 DEF JoinFound, JoinResumed, JoinAs, leaveCurrentRoom
  <2> QED BY <1>1, <2>1, <2>2 DEF StoreCalled, Entering
<1>5. CASE GetJoined(c) \/ LostCounted(c)
  <2>1. \/ UNCHANGED store
        \/ c.r \in Rooms /\ store' = setPlayerOnline(store, c.r, c.p, TRUE)
        \/ c.from \in Rooms /\ store' = setPlayerOnline(store, c.from, c.p, FALSE)
    BY <1>1, <1>5 DEF GetJoined, LostCounted, At, Entering, Leaving
  <2> QED BY <1>1, <2>1 DEF StoreCalled
<1>6. CASE \/ LeftChannel(c) \/ LeftRemoved(c) \/ CreateFails(c) \/ CreateMade(c) \/ JoinAdded(c)
           \/ GetFound(c) \/ GetResumed(c) \/ Seated(c) \/ Done(c) \/ StartFound(c)
           \/ startGameForRoom(c) \/ LostMarked(c) \/ GoneCounted(c)
  <2>1. UNCHANGED store
    BY <1>6 DEF LeftChannel, LeftRemoved, CreateFails, CreateMade, JoinAdded, GetFound, GetResumed,
         Seated, Done, StartFound, startGameForRoom, LostMarked, GoneCounted, TakeSeat, leaveCurrentRoom
  <2> QED BY <2>1 DEF StoreCalled
<1> QED
  BY <1>2, <1>3, <1>4, <1>5, <1>6 DEF Resume

\* So does every step.
LEMMA StoreSteps ==
  ASSUME IInv, [Next]_vars
  PROVE  StoreCalled
<1>1. ASSUME NEW s \in Sockets, Connect(s) \/ Disconnect(s) \/ Receive(s)
      PROVE  StoreCalled
  <2>1. CASE ChatSend(s)
    <3>1. seat[s] \in Rooms
      BY <2>1 DEF ChatSend, IInv, SeatInv, StoreInv
    <3> QED BY <2>1, <3>1 DEF ChatSend, StoreCalled
  <2>2. CASE RoomCreate(s)
    BY <2>2, SessionsAssumption DEF RoomCreate, leaveCurrentRoom, CreateIn, StoreCalled
  <2>3. CASE Connect(s) \/ Disconnect(s) \/ RoomLeave(s) \/ GameStart(s)
             \/ (\E code \in Codes : RoomJoin(s, code)) \/ (\E r \in Rooms : RoomGet(s, r))
    BY <2>3 DEF Connect, Disconnect, RoomLeave, GameStart, RoomJoin, RoomGet, leaveCurrentRoom, StoreCalled
  <2> QED BY <1>1, <2>1, <2>2, <2>3 DEF Receive
<1>2. ASSUME NEW c \in calls, Resume(c)
      PROVE  StoreCalled
  BY <1>2, StoreResumes
<1>3. CASE UNCHANGED vars \/ (\E k \in Keys : GraceTimeout(k)) \/ (\E r \in Rooms : GameGoesOn(r))
  BY <1>3 DEF vars, GraceTimeout, GameGoesOn, StoreCalled
<1> QED
  BY <1>1, <1>2, <1>3 DEF Next

\* Every call of the store keeps one host, the eldest, in every room.
LEMMA RoomsStep ==
  ASSUME IInv, RoomsInv(store), StoreCalled
  PROVE  RoomsInv(store')
<1>1. StoreInv(store)
  BY DEF IInv
<1>2. CASE UNCHANGED store
  BY <1>2
<1>3. ASSUME NEW rc \in FreshRooms(store), NEW p \in Players, store' = create(store, p, rc[1], rc[2])
      PROVE  RoomsInv(store')
  BY <1>1, <1>3, Created
<1>4. ASSUME NEW r \in Rooms, NEW p \in Players, store' = addPlayer(store, r, p)
      PROVE  RoomsInv(store')
  BY <1>1, <1>4, Added
<1>5. ASSUME NEW r \in Rooms, NEW p \in Players,
             \/ store' = setPlayerOnline(store, r, p, TRUE)
             \/ store' = setPlayerOnline(store, r, p, FALSE)
      PROVE  RoomsInv(store')
  <2>1. CASE p \notin Members(store, r)
    BY <1>5, <2>1 DEF setPlayerOnline
  <2>2. CASE p \in Members(store, r)
    <3>1. RoomsInv(setPlayerOnline(store, r, p, TRUE))
      BY <1>1, <2>2, Shown, Zenon DEF ShowsOnline
    <3>2. RoomsInv(setPlayerOnline(store, r, p, FALSE))
      BY <1>1, <2>2, Hidden, Zenon DEF ShowsOnline
    <3> QED BY <1>5, <3>1, <3>2
  <2> QED BY <2>1, <2>2
<1>6. ASSUME NEW r \in Rooms, NEW p \in Players, store' = removePlayer(store, r, p)
      PROVE  RoomsInv(store')
  BY <1>1, <1>6, Removed
<1>7. ASSUME NEW r \in Rooms, store' = addChatMessage(store, r)
      PROVE  RoomsInv(store')
  BY <1>1, <1>7, Chatted
<1> QED
  BY <1>2, <1>3, <1>4, <1>5, <1>6, <1>7 DEF StoreCalled

\* There are no rooms at first.
LEMMA NoRoomsYet == Init => RoomsInv(store)
<1>1. Init => \A r \in Rooms : ~Exists(store, r)
  BY DEF Init, NoRooms, Exists, getById
<1> QED
  BY <1>1 DEF RoomsInv

\* The rooms are in order in every reachable state.
LEMMA RoomsInvariance == Spec => [](IInv /\ RoomsInv(store))
<1>1. Init => IInv /\ RoomsInv(store)
  BY InitInv, NoRoomsYet
<1>2. IInv /\ RoomsInv(store) /\ [Next]_vars => (IInv /\ RoomsInv(store))'
  <2> SUFFICES ASSUME IInv, RoomsInv(store), [Next]_vars PROVE IInv' /\ RoomsInv(store')
    OBVIOUS
  <2> QED BY StepInv, StoreSteps, RoomsStep
<1> QED
  BY <1>1, <1>2, PTL DEF Spec

\* A room has one host, who has been in it longest, and nobody sits in it twice: whoever
\* left before him and in whatever order, and whatever runs between the awaits.
THEOREM TheEldestIsHost == Spec => []OneHost
<1>1. RoomsInv(store) => OneHost
  BY DEF RoomsInv, RoomInv, Listed, OneHost, HostIsEldest
<1> QED
  BY <1>1, RoomsInvariance, PTL
-------------------------------------------------------------------------------
\* The fields of a suspended handler.
Is(d, at, p, s, r, from, answer, then) ==
  /\ d.at = at /\ d.p = p /\ d.s = s /\ d.r = r
  /\ d.from = from /\ d.answer = answer /\ d.then = then

\* What a handler that has just been suspended holds.
LEMMA CallIs ==
  ASSUME NEW at, NEW p, NEW s, NEW r
  PROVE  Is(Call(at, p, s, r), at, p, s, r, None, FALSE, "done")
BY DEF Call, Is

\* What it holds when it is suspended again.
LEMMA MovedIs ==
  ASSUME NEW c, CallShape(c), NEW at
  PROVE  Is([c EXCEPT !.at = at], at, c.p, c.s, c.r, c.from, c.answer, c.then)
BY DEF CallShape, Is

\* The same, with an answer it awaits.
LEMMA AnsweredIs ==
  ASSUME NEW c, CallShape(c), NEW at, NEW v
  PROVE  Is([c EXCEPT !.at = at, !.answer = v], at, c.p, c.s, c.r, c.from, v, c.then)
BY DEF CallShape, Is

\* What leaveCurrentRoom holds.
LEMMA LeaveIs ==
  ASSUME NEW p, NEW s, NEW r, NEW from, NEW then
  PROVE  Is([Call("left", p, s, r) EXCEPT !.from = from, !.then = then],
            "left", p, s, r, from, FALSE, then)
BY DEF Call, Is

\* What the handlers of a lost connection and of a grace timer hold.
LEMMA AbsenceIs ==
  ASSUME NEW at, NEW p, NEW s, NEW r, NEW from, NEW v
  PROVE  Is([Call(at, p, s, r) EXCEPT !.from = from, !.answer = v], at, p, s, r, from, v, "done")
BY DEF Call, Is

CallTyped(c) ==
  /\ c.at \in Labels
  /\ c.s \in Sockets \cup {None} /\ c.r \in Rooms \cup {None} /\ c.from \in Rooms \cup {None}

SocketsTyped ==
  /\ conn \in [Sockets -> {"new", "open", "closed"}]
  /\ joined \in [Sockets -> SUBSET Rooms]

GamesTyped == \A r \in Rooms : engines[r].alive \subseteq Players

TypedInv == SocketsTyped /\ GamesTyped /\ \A c \in calls : CallTyped(c)

\* Connections and Socket.IO rooms keep their types.
LEMMA SocketsStep ==
  ASSUME IInv, SocketsTyped, [Next]_vars
  PROVE  SocketsTyped'
<1>1. \A s \in Sockets : seat[s] \in Rooms \cup {None}
  BY DEF IInv, SeatInv, StoreInv
<1>2. ASSUME NEW done, NEW s \in Sockets, NEW r, NEW then, leaveCurrentRoom(done, s, r, then)
      PROVE  SocketsTyped'
  BY <1>2 DEF leaveCurrentRoom, SocketsTyped
<1>3. ASSUME NEW c \in calls, c.at \in Entering, NEW next, TakeSeat(c, next)
      PROVE  SocketsTyped'
  <2>1. c.s \in Sockets /\ c.r \in Rooms
    BY <1>3 DEF IInv, CallInv, StoreInv
  <2> QED BY <1>3, <2>1 DEF TakeSeat, SocketsTyped
<1>4. ASSUME UNCHANGED <<conn, joined>>
      PROVE  SocketsTyped'
  BY <1>4 DEF SocketsTyped
<1>5. ASSUME NEW s \in Sockets, Connect(s) \/ Disconnect(s) \/ Receive(s)
      PROVE  SocketsTyped'
  <2>1. CASE Connect(s) \/ Disconnect(s)
    BY <2>1 DEF Connect, Disconnect, SocketsTyped
  <2>2. CASE RoomCreate(s) \/ RoomLeave(s)
    BY <1>2, <1>4, <2>2 DEF RoomCreate, RoomLeave, CreateIn
  <2>3. CASE ChatSend(s) \/ GameStart(s) \/ (\E code \in Codes : RoomJoin(s, code))
             \/ (\E r \in Rooms : RoomGet(s, r))
    BY <1>4, <2>3 DEF ChatSend, GameStart, RoomJoin, RoomGet
  <2> QED BY <1>5, <2>1, <2>2, <2>3 DEF Receive
<1>6. ASSUME NEW c \in calls, Resume(c)
      PROVE  SocketsTyped'
  <2>1. CASE JoinFound(c) \/ GetFound(c)
    <3>1. c.s \in Sockets /\ c.at \in Entering
      BY <2>1 DEF JoinFound, GetFound, At, Entering, IInv, CallInv
    <3> QED BY <1>2, <1>3, <1>4, <2>1, <3>1 DEF JoinFound, GetFound, JoinAs
  <2>2. CASE CreateMade(c) \/ JoinAdded(c) \/ GetResumed(c)
    BY <1>3, <1>4, <2>2 DEF CreateMade, JoinAdded, GetResumed, At, Entering
  <2>3. CASE \/ LeftChannel(c) \/ LeftCounted(c) \/ LeftRemoved(c) \/ CreateResumed(c)
             \/ CreateFails(c) \/ JoinResumed(c) \/ GetJoined(c) \/ Seated(c) \/ Done(c)
             \/ StartFound(c) \/ startGameForRoom(c) \/ LostCounted(c) \/ LostMarked(c)
             \/ GoneCounted(c) \/ GoneFound(c)
    BY <1>4, <2>3 DEF LeftChannel, LeftCounted, LeftRemoved, CreateResumed, CreateIn, CreateFails,
       JoinResumed, JoinAs, GetJoined, Seated, Done, StartFound, startGameForRoom, LostCounted,
       LostMarked, GoneCounted, GoneFound
  <2> QED BY <1>6, <2>1, <2>2, <2>3 DEF Resume
<1>7. CASE UNCHANGED vars \/ (\E k \in Keys : GraceTimeout(k)) \/ (\E r \in Rooms : GameGoesOn(r))
  BY <1>4, <1>7 DEF vars, GraceTimeout, GameGoesOn
<1> QED
  BY <1>5, <1>6, <1>7 DEF Next

\* The living of a game are players.
LEMMA GamesTypedStep ==
  ASSUME IInv, RoomsInv(store), GamesTyped, [Next]_vars
  PROVE  GamesTyped'
<1>1. engines = [r \in Rooms |-> engines[r]]
  BY DEF IInv, EngineInv
<1>2. ASSUME NEW f \in Rooms, NEW e, e.alive \subseteq Players, engines' = [engines EXCEPT ![f] = e]
      PROVE  GamesTyped'
  BY <1>1, <1>2 DEF GamesTyped
<1>3. ASSUME UNCHANGED engines PROVE GamesTyped'
  BY <1>3 DEF GamesTyped
<1>4. \A r \in Rooms : Members(store, r) \subseteq Players
  <2> SUFFICES ASSUME NEW r \in Rooms PROVE Members(store, r) \subseteq Players
    OBVIOUS
  <2>1. CASE ~Exists(store, r)
    BY <2>1, NobodyInNoRoom
  <2>2. CASE Exists(store, r)
    <3>1. store.rooms[r].players \in Seq(Players)
      BY <2>2 DEF RoomsInv, RoomInv, Listed
    <3> QED BY <3>1, LenProperties, ElementOfSeq DEF Members, ToSet
  <2> QED BY <2>1, <2>2
<1>5. ASSUME NEW c \in calls, LeftRemoved(c)
      PROVE  GamesTyped'
  <2>1. c.from \in Rooms
    BY <1>5 DEF LeftRemoved, At, Leaving, IInv, CallInv, StoreInv
  <2>2. PICK e \in IF c.answer THEN handlePlayerLeft(engines[c.from], c.p) ELSE {NoEngine} :
          engines' = [engines EXCEPT ![c.from] = e]
    BY <1>5 DEF LeftRemoved
  <2>3. engines[c.from].alive \subseteq Players
    BY <2>1 DEF GamesTyped
  <2>4. e.alive \subseteq Players
    BY <2>2, <2>3 DEF handlePlayerLeft, NoEngine
  <2> QED BY <1>2, <2>1, <2>2, <2>4
<1>6. ASSUME NEW c \in calls, startGameForRoom(c)
      PROVE  GamesTyped'
  <2> DEFINE status == IF Cardinality(Members(store, c.r)) >= MinPlayers THEN "running" ELSE "lobby"
             e == [status |-> status, alive |-> Members(store, c.r)]
  <2>1. c.r \in Rooms
    BY <1>6 DEF startGameForRoom, At, Entering, IInv, CallInv, StoreInv
  <2>2. e.alive \subseteq Players
    BY <1>4, <2>1
  <2>3. UNCHANGED engines \/ engines' = [engines EXCEPT ![c.r] = e]
    BY <1>6 DEF startGameForRoom
  <2> HIDE DEF e
  <2> QED BY <1>2, <1>3, <2>1, <2>2, <2>3
<1>7. ASSUME NEW r \in Rooms, GameGoesOn(r)
      PROVE  GamesTyped'
  <2>1. PICK S \in SUBSET engines[r].alive, st \in {"running", "ended"} :
          engines' = [engines EXCEPT ![r] = [status |-> st, alive |-> S]]
    BY <1>7 DEF GameGoesOn
  <2> DEFINE e == [status |-> st, alive |-> S]
  <2>2. e.alive \subseteq Players
    BY DEF GamesTyped
  <2>3. engines' = [engines EXCEPT ![r] = e]
    BY <2>1
  <2> HIDE DEF e
  <2> QED BY <1>2, <2>2, <2>3
<1>8. ASSUME NEW s \in Sockets, Connect(s) \/ Disconnect(s) \/ Receive(s)
      PROVE  GamesTyped'
  <2>1. UNCHANGED engines
    BY <1>8 DEF Connect, Disconnect, Receive, RoomCreate, RoomLeave, ChatSend, GameStart, RoomJoin,
         RoomGet, leaveCurrentRoom, CreateIn
  <2> QED BY <1>3, <2>1
<1>9. ASSUME NEW c \in calls, Resume(c)
      PROVE  GamesTyped'
  <2>1. CASE \/ LeftChannel(c) \/ LeftCounted(c) \/ CreateResumed(c) \/ CreateFails(c)
             \/ CreateMade(c) \/ JoinFound(c) \/ JoinResumed(c) \/ JoinAdded(c) \/ GetFound(c)
             \/ GetResumed(c) \/ GetJoined(c) \/ Seated(c) \/ Done(c) \/ StartFound(c)
             \/ LostCounted(c) \/ LostMarked(c) \/ GoneCounted(c) \/ GoneFound(c)
    <3>1. UNCHANGED engines
      BY <2>1 DEF LeftChannel, LeftCounted, CreateResumed, CreateIn, CreateFails, CreateMade,
           JoinFound, JoinResumed, JoinAs, JoinAdded, GetFound, GetResumed, GetJoined, Seated,
           Done, StartFound, LostCounted, LostMarked, GoneCounted, GoneFound, TakeSeat,
           leaveCurrentRoom
    <3> QED BY <1>3, <3>1
  <2> QED BY <1>5, <1>6, <1>9, <2>1 DEF Resume
<1>10. CASE UNCHANGED vars \/ (\E k \in Keys : GraceTimeout(k))
  BY <1>3, <1>10 DEF vars, GraceTimeout
<1> QED
  BY <1>7, <1>8, <1>9, <1>10 DEF Next
-------------------------------------------------------------------------------
\* The handler that goes on, or begins, when a step suspends one.
LEMMA LeaveCall ==
  ASSUME NEW done, NEW s, NEW r, NEW then, leaveCurrentRoom(done, s, r, then)
  PROVE  \E d : /\ calls' = (calls \ done) \cup {d}
                /\ Is(d, "left", Owner[s], s, r, seat[s], FALSE, then)
BY LeaveIs DEF leaveCurrentRoom, Await

\* A room has been left: nothing is left to do, or the next room is entered.
LEMMA GoesOnCall ==
  ASSUME NEW c, GoesOn(c)
  PROVE  \/ c.then = "done" /\ calls' = calls \ {c}
         \/ c.then # "done" /\ \E d : /\ calls' = (calls \ {c}) \cup {d}
                                      /\ Is(d, c.then, c.p, c.s, c.r, None, FALSE, "done")
BY CallIs DEF GoesOn, Await, Return

\* A player is taken off the list of a room.
LEMMA RemoveCall ==
  ASSUME NEW c, CallShape(c), RemovePlayer(c)
  PROVE  \E d : /\ calls' = (calls \ {c}) \cup {d}
                /\ Is(d, "removed", c.p, c.s, c.r, c.from, Exists(store', c.from), c.then)
BY AnsweredIs DEF RemovePlayer, Await

\* A handler goes on to its next label.
LEMMA NextLabel ==
  ASSUME NEW c, CallShape(c), NEW at, Await({c}, [c EXCEPT !.at = at])
  PROVE  \E d : /\ calls' = (calls \ {c}) \cup {d}
                /\ Is(d, at, c.p, c.s, c.r, c.from, c.answer, c.then)
BY MovedIs DEF Await

\* The same, with an answer it awaits.
LEMMA NextAnswer ==
  ASSUME NEW c, CallShape(c), NEW at, NEW v, Await({c}, [c EXCEPT !.at = at, !.answer = v])
  PROVE  \E d : /\ calls' = (calls \ {c}) \cup {d}
                /\ Is(d, at, c.p, c.s, c.r, c.from, v, c.then)
BY AnsweredIs DEF Await

\* A handler begins.
LEMMA FirstLabel ==
  ASSUME NEW done, NEW at, NEW p, NEW s, NEW r, Await(done, Call(at, p, s, r))
  PROVE  \E d : calls' = (calls \ done) \cup {d} /\ Is(d, at, p, s, r, None, FALSE, "done")
BY CallIs DEF Await

\* A handler begins, and awaits an answer.
LEMMA FirstAnswer ==
  ASSUME NEW at, NEW p, NEW s, NEW from, NEW v,
         Await({}, [Call(at, p, s, None) EXCEPT !.from = from, !.answer = v])
  PROVE  \E d : calls' = calls \cup {d} /\ Is(d, at, p, s, None, from, v, "done")
<1> DEFINE d == [Call(at, p, s, None) EXCEPT !.from = from, !.answer = v]
<1>1. Is(d, at, p, s, None, from, v, "done")
  BY AbsenceIs
<1> HIDE DEF d
<1>2. calls' = (calls \ {}) \cup {d}
  BY DEF Await, d
<1> QED
  BY <1>1, <1>2

\* Only a removal or a lost connection tells the room of a departure afterwards.
Marks(c, at) == at \in {"removed", "lost:marked"} => c.at \in {"counted", "gone:found", "lost"}

Follows(c, d) == CallTyped(d) /\ d.s = c.s /\ Marks(c, d.at)

\* A step suspends the handler it resumes, or none.
LEMMA CallsFollow ==
  ASSUME IInv, NEW c \in calls, CallTyped(c), Resume(c)
  PROVE  \A d \in calls' : d \in calls \ {c} \/ Follows(c, d)
<1>1. CallInv(c, store) /\ CallShape(c)
  BY DEF IInv, CallInv
<1>2. \A s \in Sockets : seat[s] \in Rooms \cup {None}
  BY DEF IInv, SeatInv, StoreInv
<1>3. ASSUME NEW d, NEW at \in Labels, Marks(c, at), NEW p, NEW v, NEW then, calls' = (calls \ {c}) \cup {d},
             Is(d, at, p, c.s, c.r, c.from, v, then) \/ Is(d, at, p, c.s, c.r, None, v, then)
      PROVE  \A e \in calls' : e \in calls \ {c} \/ Follows(c, e)
  BY <1>3 DEF Follows, Marks, CallTyped, Is
<1>4. ASSUME NEW at \in Labels, Marks(c, at), Await({c}, [c EXCEPT !.at = at])
      PROVE  \A d \in calls' : d \in calls \ {c} \/ Follows(c, d)
  BY <1>1, <1>3, <1>4, NextLabel
<1>5. ASSUME NEW at \in Labels, Marks(c, at), NEW v, Await({c}, [c EXCEPT !.at = at, !.answer = v])
      PROVE  \A d \in calls' : d \in calls \ {c} \/ Follows(c, d)
  BY <1>1, <1>3, <1>5, NextAnswer
<1>6. ASSUME Return({c})
      PROVE  \A d \in calls' : d \in calls \ {c} \/ Follows(c, d)
  BY <1>6 DEF Return
<1>7. ASSUME NEW then, c.s \in Sockets, leaveCurrentRoom({c}, c.s, c.r, then)
      PROVE  \A d \in calls' : d \in calls \ {c} \/ Follows(c, d)
  <2>1. PICK d : /\ calls' = (calls \ {c}) \cup {d}
                 /\ Is(d, "left", Owner[c.s], c.s, c.r, seat[c.s], FALSE, then)
    BY <1>7, LeaveCall
  <2> QED BY <1>2, <1>7, <2>1 DEF Follows, Marks, CallTyped, Is, Labels
<1>8. ASSUME GoesOn(c)
      PROVE  \A d \in calls' : d \in calls \ {c} \/ Follows(c, d)
  <2>1. c.then \in {"done", "create", "join", "get"}
    BY <1>1 DEF CallInv
  <2>2. CASE c.then = "done"
    BY <1>8, <2>2, GoesOnCall
  <2>3. CASE c.then # "done"
    <3>1. PICK d : /\ calls' = (calls \ {c}) \cup {d}
                   /\ Is(d, c.then, c.p, c.s, c.r, None, FALSE, "done")
      BY <1>8, <2>3, GoesOnCall
    <3>2. c.then \in Labels
      BY <2>1 DEF Labels
    <3> QED BY <1>3, <2>1, <3>1, <3>2 DEF Marks
  <2> QED BY <2>2, <2>3
<1>9. ASSUME RemovePlayer(c), c.at \in {"counted", "gone:found"}
      PROVE  \A d \in calls' : d \in calls \ {c} \/ Follows(c, d)
  BY <1>1, <1>3, <1>9, RemoveCall DEF Labels, Marks
<1>10. CASE LeftChannel(c) \/ LeftCounted(c) \/ LeftRemoved(c)
  BY <1>5, <1>8, <1>9, <1>10 DEF LeftChannel, LeftCounted, LeftRemoved, Labels, Marks, At
<1>11. CASE CreateResumed(c)
  <2>1. PICK rc \in FreshRooms(store) : Await({c}, Call("create:made", Owner[c.s], c.s, rc[1]))
    BY <1>11 DEF CreateResumed, CreateIn
  <2>2. rc[1] \in Rooms
    BY DEF FreshRooms
  <2>3. PICK d : calls' = (calls \ {c}) \cup {d}
                 /\ Is(d, "create:made", Owner[c.s], c.s, rc[1], None, FALSE, "done")
    BY <2>1, FirstLabel
  <2> QED BY <2>2, <2>3 DEF Follows, Marks, CallTyped, Is, Labels
<1>12. CASE CreateFails(c) \/ CreateMade(c) \/ JoinResumed(c) \/ JoinAdded(c)
  BY <1>4, <1>5, <1>6, <1>12 DEF CreateFails, CreateMade, JoinResumed, JoinAdded, JoinAs, TakeSeat, Labels, Marks, At
<1>13. CASE JoinFound(c) \/ GetFound(c)
  <2>1. c.s \in Sockets
    BY <1>1, <1>13 DEF JoinFound, GetFound, At, Entering, CallInv
  <2> QED BY <1>4, <1>5, <1>6, <1>7, <1>13, <2>1 DEF JoinFound, GetFound, JoinAs, TakeSeat, Labels, Marks, At
<1>14. CASE GetResumed(c) \/ GetJoined(c) \/ Seated(c) \/ Done(c)
  BY <1>4, <1>6, <1>14 DEF GetResumed, GetJoined, Seated, Done, TakeSeat, Labels, Marks, At
<1>15. CASE StartFound(c) \/ startGameForRoom(c)
  BY <1>4, <1>6, <1>15 DEF StartFound, startGameForRoom, Labels, Marks, At
<1>16. CASE LostCounted(c) \/ LostMarked(c) \/ GoneCounted(c) \/ GoneFound(c)
  BY <1>4, <1>6, <1>9, <1>16 DEF LostCounted, LostMarked, GoneCounted, GoneFound, Labels, Marks, At
<1> QED
  BY <1>10, <1>11, <1>12, <1>13, <1>14, <1>15, <1>16 DEF Resume

\* A request begins a handler that knows its socket and its rooms.
LEMMA CallsTypedReceives ==
  ASSUME IInv, NEW s \in Sockets, Connect(s) \/ Disconnect(s) \/ Receive(s)
  PROVE  \A d \in calls' : d \in calls \/ CallTyped(d)
<1>1. seat[s] \in Rooms \cup {None}
  BY DEF IInv, SeatInv, StoreInv
<1>2. ASSUME NEW at \in Labels, NEW p, NEW r \in Rooms, Await({}, Call(at, p, s, r))
      PROVE  \A d \in calls' : d \in calls \/ CallTyped(d)
  <2>1. PICK d : calls' = (calls \ {}) \cup {d} /\ Is(d, at, p, s, r, None, FALSE, "done")
    BY <1>2, FirstLabel
  <2> QED BY <1>2, <2>1 DEF CallTyped, Is
<1>3. CASE RoomCreate(s) \/ RoomLeave(s)
  <2>1. ASSUME NEW then, leaveCurrentRoom({}, s, None, then)
        PROVE  \A d \in calls' : d \in calls \/ CallTyped(d)
    <3>1. PICK d : /\ calls' = (calls \ {}) \cup {d}
                   /\ Is(d, "left", Owner[s], s, None, seat[s], FALSE, then)
      BY <2>1, LeaveCall
    <3> QED BY <1>1, <3>1 DEF CallTyped, Is, Labels
  <2>2. ASSUME CreateIn({}, s)
        PROVE  \A d \in calls' : d \in calls \/ CallTyped(d)
    <3>1. PICK rc \in FreshRooms(store) : Await({}, Call("create:made", Owner[s], s, rc[1]))
      BY <2>2 DEF CreateIn
    <3>2. rc[1] \in Rooms
      BY DEF FreshRooms
    <3> QED BY <1>2, <3>1, <3>2 DEF Labels
  <2> QED BY <1>3, <2>1, <2>2 DEF RoomCreate, RoomLeave
<1>4. CASE GameStart(s) \/ (\E code \in Codes : RoomJoin(s, code)) \/ (\E r \in Rooms : RoomGet(s, r))
  <2>1. \A code \in Codes : getByJoinCode(store, code) # None => getByJoinCode(store, code) \in Rooms
    BY DEF getByJoinCode, IInv, StoreInv
  <2> QED BY <1>1, <1>2, <1>4, <2>1 DEF GameStart, RoomJoin, RoomGet, Labels
<1>5. CASE Disconnect(s)
  <2>1. CASE seat[s] = None
    BY <1>5, <2>1 DEF Disconnect, Return
  <2>2. CASE seat[s] # None
    <3>1. PICK d : calls' = calls \cup {d}
            /\ Is(d, "lost", Owner[s], s, None, seat[s], SocketsOf(Owner[s], seat[s]) \ {s} = {}, "done")
      BY <1>5, <2>2, FirstAnswer DEF Disconnect
    <3> QED BY <1>1, <3>1 DEF CallTyped, Is, Labels
  <2> QED BY <2>1, <2>2
<1>6. CASE Connect(s) \/ ChatSend(s)
  BY <1>6 DEF Connect, ChatSend
<1> QED
  BY <1>3, <1>4, <1>5, <1>6 DEF Receive

\* The handlers in flight keep their types.
LEMMA CallsTypedStep ==
  ASSUME IInv, \A c \in calls : CallTyped(c), [Next]_vars
  PROVE  \A c \in calls' : CallTyped(c)
<1>1. ASSUME NEW k \in Keys, GraceTimeout(k)
      PROVE  \A d \in calls' : d \in calls \/ CallTyped(d)
  <2>1. PICK d : calls' = calls \cup {d}
          /\ Is(d, "gone", k[2], None, None, k[1], countOtherUserSockets(k[1], k[2]) = 0, "done")
    BY <1>1, FirstAnswer DEF GraceTimeout
  <2>2. k[1] \in Rooms
    BY DEF Keys
  <2> QED BY <2>1, <2>2 DEF CallTyped, Is, Labels
<1>2. CASE UNCHANGED vars \/ (\E r \in Rooms : GameGoesOn(r))
  BY <1>2 DEF vars, GameGoesOn
<1> QED
  BY <1>1, <1>2, CallsFollow, CallsTypedReceives DEF Next, Follows

\* The types hold in every reachable state.
LEMMA TypedInvariance == Spec => [](IInv /\ RoomsInv(store) /\ TypedInv)
<1>1. Init => IInv /\ RoomsInv(store) /\ TypedInv
  <2>1. Init => TypedInv
    BY DEF Init, TypedInv, SocketsTyped, GamesTyped, NoEngine
  <2> QED BY <2>1, InitInv, NoRoomsYet
<1>2. IInv /\ RoomsInv(store) /\ TypedInv /\ [Next]_vars => (IInv /\ RoomsInv(store) /\ TypedInv)'
  <2> SUFFICES ASSUME IInv, RoomsInv(store), TypedInv, [Next]_vars
               PROVE  IInv' /\ RoomsInv(store') /\ TypedInv'
    OBVIOUS
  <2>1. SocketsTyped' /\ GamesTyped' /\ \A c \in calls' : CallTyped(c)
    BY SocketsStep, GamesTypedStep, CallsTypedStep DEF TypedInv
  <2> QED BY <2>1, StepInv, StoreSteps, RoomsStep DEF TypedInv
<1> QED
  BY <1>1, <1>2, PTL DEF Spec

\* The type invariant of the sessions.
THEOREM SessionsTyped == Spec => []TypeOK
<1>1. IInv /\ RoomsInv(store) /\ TypedInv => TypeOK
  <2> SUFFICES ASSUME IInv, RoomsInv(store), TypedInv PROVE TypeOK
    OBVIOUS
  <2>1. StoreTyped(store)
    <3>1. ASSUME NEW r \in Rooms PROVE store.rooms[r] \in RoomState \cup {NoRoom}
      <4>1. CASE ~Exists(store, r)
        BY <4>1 DEF Exists, getById
      <4>2. CASE Exists(store, r)
        <5> DEFINE x == store.rooms[r]
        <5>1. RoomShape(x) /\ RoomInv(x)
          BY <4>2 DEF IInv, StoreInv, RoomsInv
        <5> HIDE DEF x
        <5>2. x.players \in Seq(Players) /\ x.players # <<>>
          BY <5>1 DEF RoomInv, Listed
        <5>3. x.hostId \in Players
          BY <5>1, <5>2, HeadTailProperties DEF RoomInv
        <5>4. ToSet(x.players) \subseteq Players
          BY <5>2, LenProperties, ElementOfSeq DEF ToSet
        <5>5. /\ x.joinCode \in Codes /\ x.isHost \in SUBSET Players
              /\ x.isOnline \in SUBSET Players /\ x.chat \in 0 .. ChatLimit
          BY <5>1, <5>3, <5>4 DEF RoomInv, RoomShape
        <5>6. x \in RoomState
          BY <5>1, <5>2, <5>3, <5>5 DEF RoomShape, RoomState
        <5> QED BY <5>6 DEF x
      <4> QED BY <4>1, <4>2
    <3>2. store.rooms \in [Rooms -> RoomState \cup {NoRoom}]
      BY <3>1 DEF IInv, StoreInv
    <3> QED BY <3>2 DEF IInv, StoreInv, StoreTyped
  <2>2. seat \in [Sockets -> Rooms \cup {None}]
    BY DEF IInv, SeatInv, StoreInv
  <2>3. pendingLeaves \subseteq Keys /\ graceTimers \in [Keys -> Nat]
    BY DEF IInv, TimerInv
  <2>4. engines \in [Rooms -> EngineSeen]
    <3>1. \A r \in Rooms : engines[r] \in EngineSeen
      BY DEF IInv, EngineInv, EngineShape, EngineSeen, TypedInv, GamesTyped
    <3> QED BY <3>1 DEF IInv, EngineInv
  <2>5. ASSUME NEW c \in calls PROVE c \in CallState
    <3>1. CallInv(c, store) /\ CallTyped(c)
      BY DEF IInv, TypedInv
    <3> QED BY <3>1 DEF CallInv, CallShape, CallTyped, CallState
  <2> QED BY <2>1, <2>2, <2>3, <2>4, <2>5 DEF TypeOK, TypedInv, SocketsTyped
<1> QED
  BY <1>1, TypedInvariance, PTL
===============================================================================
