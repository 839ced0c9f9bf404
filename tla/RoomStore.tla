------------------------------- MODULE RoomStore -------------------------------
(***************************************************************************)
(* MemoryRoomStore: the rooms and the index of their join codes.  Every    *)
(* method takes effect where it is called, so each is an operator from the *)
(* state of the store (a record) to its state after the call; handlers     *)
(* hold a live reference to a room, never a copy.                          *)
(*                                                                         *)
(* A deleted room is NoRoom: its object, still held by some handler, has   *)
(* an empty players array.  Left out: nicknames, texts, createdAt, and     *)
(* status, which create sets to 'lobby' and nothing ever changes.          *)
(***************************************************************************)
EXTENDS Naturals, SequencesExt

CONSTANTS
  Players,
  Rooms,      \* the ids randomUUID yields (bounds the rooms ever created)
  Codes,      \* the join codes
  None,
  ChatLimit   \* 200 in the code: the messages a room keeps

ASSUME StoreAssumption ==
  /\ None \notin Players \cup Rooms \cup Codes
  /\ ChatLimit \in Nat

NoRoom == [joinCode |-> None, hostId |-> None, players |-> <<>>, isHost |-> {},
           isOnline |-> {}, chat |-> 0]

NoRooms == [rooms |-> [r \in Rooms |-> NoRoom], codeIndex |-> [c \in Codes |-> None],
            used |-> {}]

getById(s, r) == s.rooms[r]

Exists(s, r) == getById(s, r) # NoRoom

getByJoinCode(s, c) == s.codeIndex[c]

Members(s, r) == ToSet(s.rooms[r].players)

\* What create may yield: an id nobody has had and a code nobody has.  With every
\* code taken the thousand attempts fail and create throws.
FreshRooms(s) == {rc \in (Rooms \ s.used) \X Codes : s.codeIndex[rc[2]] = None}

create(s, host, r, c) ==
  [rooms |-> [s.rooms EXCEPT ![r] = [joinCode |-> c, hostId |-> host, players |-> <<host>>,
                                     isHost |-> {host}, isOnline |-> {host}, chat |-> 0]],
   codeIndex |-> [s.codeIndex EXCEPT ![c] = r],
   used |-> s.used \cup {r}]

addPlayer(s, r, p) ==
  IF ~Exists(s, r) \/ p \in Members(s, r) THEN s
  ELSE [s EXCEPT !.rooms[r].players = Append(@, p), !.rooms[r].isOnline = @ \cup {p}]

\* Slip: the code of the emptied room stays in the index.
delete_KeepsTheCode(s, r) == [s EXCEPT !.rooms[r] = NoRoom]

delete(s, r) ==
  [s EXCEPT !.codeIndex[s.rooms[r].joinCode] = None, !.rooms[r] = NoRoom]

\* Slip: a room that loses its host has none.
Without_NoHeir(room, p) ==
  [room EXCEPT !.players = RemoveFirst(@, p), !.isOnline = @ \ {p}, !.isHost = @ \ {p},
               !.hostId = IF @ = p THEN None ELSE @]

\* Slip: the new host does not get the flag.
Without_NoFlag(room, p) ==
  LET rest == RemoveFirst(room.players, p)
  IN  [room EXCEPT !.players = rest, !.isOnline = @ \ {p}, !.isHost = @ \ {p},
                   !.hostId = IF @ = p THEN Head(rest) ELSE @]

\* The room without p, handed to the next in the list if p was its host.  (The filter
\* takes out one entry: nobody is in the list twice, which HostIsEldest checks.)
Without(room, p) ==
  LET rest == RemoveFirst(room.players, p)
      host == IF room.hostId = p THEN Head(rest) ELSE room.hostId
  IN  [room EXCEPT !.players = rest, !.isOnline = @ \ {p}, !.hostId = host,
                   !.isHost = (@ \ {p}) \cup IF room.hostId = p THEN {host} ELSE {}]

removePlayer(s, r, p) ==
  IF ~Exists(s, r) THEN s
  ELSE IF Members(s, r) \subseteq {p} THEN delete(s, r)
  ELSE [s EXCEPT !.rooms[r] = Without(@, p)]

setPlayerOnline(s, r, p, on) ==
  IF p \notin Members(s, r) THEN s
  ELSE [s EXCEPT !.rooms[r].isOnline = IF on THEN @ \cup {p} ELSE @ \ {p}]

addChatMessage(s, r) ==
  IF ~Exists(s, r) THEN s
  ELSE [s EXCEPT !.rooms[r].chat = IF @ < ChatLimit THEN @ + 1 ELSE @]
-------------------------------------------------------------------------------
RoomState ==
  [joinCode : Codes, hostId : Players, players : Seq(Players), isHost : SUBSET Players,
   isOnline : SUBSET Players, chat : 0 .. ChatLimit]

StoreTyped(s) ==
  /\ s.rooms \in [Rooms -> RoomState \cup {NoRoom}]
  /\ s.codeIndex \in [Codes -> Rooms \cup {None}]
  /\ s.used \subseteq Rooms

\* One host, who is in the room and has been there longest: everybody else joined
\* behind him, and his departure hands the room to the next in the list.
HostIsEldest(s) ==
  \A r \in Rooms : Exists(s, r) =>
    LET room == s.rooms[r]
    IN  /\ room.players # <<>> /\ IsInjective(room.players)
        /\ room.hostId = Head(room.players)
        /\ room.isHost = {room.hostId}

\* The rooms and the index of codes are inverse to one another.
IndexAgrees(s) ==
  /\ \A r \in Rooms : Exists(s, r) => getByJoinCode(s, s.rooms[r].joinCode) = r
  /\ \A c \in Codes : getByJoinCode(s, c) # None => s.rooms[getByJoinCode(s, c)].joinCode = c
===============================================================================
