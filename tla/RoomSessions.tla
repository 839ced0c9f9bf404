------------------------------ MODULE RoomSessions ------------------------------
(***************************************************************************)
(* The socket handlers over the room store and the registry of engines:    *)
(* who sits in which room, the grace period of a lost player, and what     *)
(* joining, leaving and starting do to a game.                             *)
(*                                                                         *)
(* A handler is cut at its awaits: `calls' holds the handlers in flight,   *)
(* each with the label of what it does when it resumes and the values it   *)
(* has read.  The awaited calls (store, socket.join, socket.leave,         *)
(* fetchSockets) take effect where they are called; the answer is used     *)
(* after the next resumption.  With MemoryRoomStore and the in-memory      *)
(* adapter an await yields to the microtask queue only, which is empty     *)
(* again before the next packet, timer or disconnect: Interleaved = FALSE. *)
(* With TRUE every await lets other events in, as with a store that        *)
(* answers over a network.                                                 *)
(*                                                                         *)
(* A socket object lives from one connection to its loss: "new", "open",   *)
(* "closed".  The engine is reduced to what the sessions see of it.        *)
(***************************************************************************)
EXTENDS RoomStore

CONSTANTS
  Sockets,
  Owner,        \* socket -> the player its token names
  MinPlayers,   \* MIN_PLAYERS_TO_START
  Interleaved,  \* TRUE: other events run while a handler awaits
  MaxCalls      \* bounds the handlers in flight

ASSUME SessionsAssumption ==
  /\ Owner \in [Sockets -> Players]
  /\ None \notin Sockets
  /\ MinPlayers \in Nat /\ MaxCalls \in Nat
  /\ Interleaved \in BOOLEAN

VARIABLES
  store,
  conn,           \* socket -> "new" | "open" | "closed"
  seat,           \* socket.data.roomId
  joined,         \* the Socket.IO rooms a socket is in
  pendingLeaves,  \* the keys of the map
  graceTimers,    \* <<room, player>> -> outstanding timeouts
  engines,        \* room -> [status, alive]
  calls           \* handlers suspended at an await

vars == <<store, conn, seat, joined, pendingLeaves, graceTimers, engines, calls>>

NoEngine == [status |-> "none", alive |-> {}]

Keys == Rooms \X Players

Init ==
  /\ store = NoRooms
  /\ conn = [s \in Sockets |-> "new"]
  /\ seat = [s \in Sockets |-> None]
  /\ joined = [s \in Sockets |-> {}]
  /\ pendingLeaves = {}
  /\ graceTimers = [k \in Keys |-> 0]
  /\ engines = [r \in Rooms |-> NoEngine]
  /\ calls = {}
-------------------------------------------------------------------------------
(***************************************************************************)
(* Suspension and resumption                                               *)
(***************************************************************************)

\* A packet, a lost connection or a timer may be handled now.
CanBegin == calls = {} \/ (Interleaved /\ Cardinality(calls) < MaxCalls)

\* A handler suspended at an await: its label, its player and socket (None for
\* the grace timer), the room it is about, the room it is leaving on the way,
\* the answer it awaits, and where it goes when leaveCurrentRoom returns.
Call(at, p, s, r) ==
  [at |-> at, p |-> p, s |-> s, r |-> r, from |-> None, answer |-> FALSE, then |-> "done"]

\* done = {} when the handler has just been entered, {c} when c is resumed.
Await(done, c) == calls' = (calls \ done) \cup {c}
Return(done)   == calls' = calls \ done

At(c, label) == c \in calls /\ c.at = label

SocketsOf(p, r) == {s \in Sockets : r \in joined[s] /\ Owner[s] = p}

countOtherUserSockets(r, p) == Cardinality(SocketsOf(p, r))
-------------------------------------------------------------------------------
(***************************************************************************)
(* Games and grace timers                                                  *)
(***************************************************************************)

\* Slip: the player who leaves stays alive in the game.
handlePlayerLeft_Forgets(e, p) == {e}

\* What the engine may have become: unless it runs and the player lives, itself.
handlePlayerLeft(e, p) ==
  IF e.status = "running" /\ p \in e.alive
  THEN {[status |-> st, alive |-> e.alive \ {p}] : st \in {"running", "ended"}}
  ELSE {e}

\* Slip: a timer already armed is not looked for.
cancelPendingLeave_NoClear(k) ==
  /\ pendingLeaves' = pendingLeaves \ {k}
  /\ UNCHANGED graceTimers

cancelPendingLeave(k) ==
  /\ pendingLeaves' = pendingLeaves \ {k}
  /\ graceTimers' = [graceTimers EXCEPT ![k] = IF k \in pendingLeaves THEN @ - 1 ELSE @]

\* cancelPendingLeave(k) and then setTimeout: the old timer, if any, is replaced.
Schedule(k) ==
  /\ pendingLeaves' = pendingLeaves \cup {k}
  /\ graceTimers' = [graceTimers EXCEPT ![k] = IF k \in pendingLeaves THEN @ ELSE @ + 1]
-------------------------------------------------------------------------------
(***************************************************************************)
(* leaveCurrentRoom, also on the way into another room                     *)
(***************************************************************************)

\* await socket.leave(roomId)
leaveCurrentRoom(done, s, r, then) ==
  /\ joined' = [joined EXCEPT ![s] = @ \ {seat[s]}]
  /\ Await(done, [Call("left", Owner[s], s, r) EXCEPT !.from = seat[s], !.then = then])
  /\ UNCHANGED <<store, conn, seat, pendingLeaves, graceTimers, engines>>

GoesOn(c) == IF c.then = "done" THEN Return({c}) ELSE Await({c}, Call(c.then, c.p, c.s, c.r))

\* socket.data.roomId = undefined; await countOtherUserSockets
LeftChannel(c) ==
  /\ At(c, "left")
  /\ seat' = [seat EXCEPT ![c.s] = None]
  /\ Await({c}, [c EXCEPT !.at = "counted", !.answer = countOtherUserSockets(c.from, c.p) = 0])
  /\ UNCHANGED <<store, conn, joined, pendingLeaves, graceTimers, engines>>

\* await store.removePlayer, unless another tab keeps the player in the room
RemovePlayer(c) ==
  /\ store' = removePlayer(store, c.from, c.p)
  /\ Await({c}, [c EXCEPT !.at = "removed", !.answer = Exists(store', c.from)])

LeftCounted(c) ==
  /\ At(c, "counted")
  /\ IF c.answer THEN RemovePlayer(c) ELSE GoesOn(c) /\ UNCHANGED store
  /\ UNCHANGED <<conn, seat, joined, pendingLeaves, graceTimers, engines>>

\* Slip: the engine of a room that is gone stays registered.
LeftRemoved_NoDestroy(c) ==
  /\ At(c, "removed")
  /\ \E e \in IF c.answer THEN handlePlayerLeft(engines[c.from], c.p) ELSE {engines[c.from]} :
       engines' = [engines EXCEPT ![c.from] = e]
  /\ GoesOn(c)
  /\ UNCHANGED <<store, conn, seat, joined, pendingLeaves, graceTimers>>

\* engine.handlePlayerLeft, or destroyGameForRoom when nobody is left
LeftRemoved(c) ==
  /\ At(c, "removed")
  /\ \E e \in IF c.answer THEN handlePlayerLeft(engines[c.from], c.p) ELSE {NoEngine} :
       engines' = [engines EXCEPT ![c.from] = e]
  /\ GoesOn(c)
  /\ UNCHANGED <<store, conn, seat, joined, pendingLeaves, graceTimers>>
-------------------------------------------------------------------------------
(***************************************************************************)
(* Entering a room                                                         *)
(***************************************************************************)

\* await socket.join(r), a no-op on a socket that is gone; then the label `next'.
TakeSeat(c, next) ==
  /\ seat' = [seat EXCEPT ![c.s] = c.r]
  /\ joined' = [joined EXCEPT ![c.s] = IF conn[c.s] = "open" THEN @ \cup {c.r} ELSE @]
  /\ Await({c}, [c EXCEPT !.at = next])
  /\ UNCHANGED <<store, conn, pendingLeaves, graceTimers, engines>>

CreateIn(done, s) ==
  /\ \E rc \in FreshRooms(store) :
       /\ store' = create(store, Owner[s], rc[1], rc[2])
       /\ Await(done, Call("create:made", Owner[s], s, rc[1]))
  /\ UNCHANGED <<conn, seat, joined, pendingLeaves, graceTimers, engines>>

RoomCreate(s) ==
  /\ conn[s] = "open" /\ CanBegin
  /\ IF seat[s] # None THEN leaveCurrentRoom({}, s, None, "create") ELSE CreateIn({}, s)

CreateResumed(c) == At(c, "create") /\ CreateIn({c}, c.s)

\* With every code taken create throws: the socket is in no room, and knows it.
\* (Here also when Rooms, which bounds the ids, is used up.)
CreateFails(c) ==
  /\ At(c, "create") /\ FreshRooms(store) = {}
  /\ Return({c})
  /\ UNCHANGED <<store, conn, seat, joined, pendingLeaves, graceTimers, engines>>

CreateMade(c) == At(c, "create:made") /\ TakeSeat(c, "done")

\* await store.getByJoinCode: a room is found (otherwise the handler is over).
RoomJoin(s, code) ==
  /\ conn[s] = "open" /\ CanBegin
  /\ getByJoinCode(store, code) # None
  /\ Await({}, Call("join:found", Owner[s], s, getByJoinCode(store, code)))
  /\ UNCHANGED <<store, conn, seat, joined, pendingLeaves, graceTimers, engines>>

\* setPlayerOnline for a member, addPlayer for a newcomer
JoinAs(c) ==
  /\ store' = IF c.p \in Members(store, c.r) THEN setPlayerOnline(store, c.r, c.p, TRUE)
              ELSE addPlayer(store, c.r, c.p)
  /\ Await({c}, [c EXCEPT !.at = "join:added", !.answer = Exists(store, c.r)])
  /\ UNCHANGED <<conn, seat, joined, pendingLeaves, graceTimers, engines>>

JoinFound(c) ==
  /\ At(c, "join:found")
  /\ IF seat[c.s] \in {None, c.r} THEN JoinAs(c)
     ELSE leaveCurrentRoom({c}, c.s, c.r, "join")

JoinResumed(c) == At(c, "join") /\ JoinAs(c)

JoinAdded(c) ==
  /\ At(c, "join:added")
  /\ IF c.answer THEN TakeSeat(c, "seated")
     ELSE /\ Return({c})
          /\ UNCHANGED <<store, conn, seat, joined, pendingLeaves, graceTimers, engines>>

\* await store.getById
RoomGet(s, r) ==
  /\ conn[s] = "open" /\ CanBegin
  /\ Exists(store, r)
  /\ Await({}, Call("get:found", Owner[s], s, r))
  /\ UNCHANGED <<store, conn, seat, joined, pendingLeaves, graceTimers, engines>>

GetFound(c) ==
  /\ At(c, "get:found")
  /\ IF c.p \notin Members(store, c.r)
     THEN /\ Return({c})
          /\ UNCHANGED <<store, conn, seat, joined, pendingLeaves, graceTimers, engines>>
     ELSE IF seat[c.s] = c.r
     THEN /\ cancelPendingLeave(<<c.r, c.p>>)
          /\ Return({c})
          /\ UNCHANGED <<store, conn, seat, joined, engines>>
     ELSE IF seat[c.s] = None THEN TakeSeat(c, "get:joined")
     ELSE leaveCurrentRoom({c}, c.s, c.r, "get")

GetResumed(c) == At(c, "get") /\ TakeSeat(c, "get:joined")

GetJoined(c) ==
  /\ At(c, "get:joined")
  /\ store' = setPlayerOnline(store, c.r, c.p, TRUE)
  /\ Await({c}, [c EXCEPT !.at = "seated"])
  /\ UNCHANGED <<conn, seat, joined, pendingLeaves, graceTimers, engines>>

\* The end of room:join and room:get.
Seated(c) ==
  /\ At(c, "seated")
  /\ cancelPendingLeave(<<c.r, c.p>>)
  /\ Return({c})
  /\ UNCHANGED <<store, conn, seat, joined, engines>>

\* The end of room:create.
Done(c) ==
  /\ At(c, "done")
  /\ Return({c})
  /\ UNCHANGED <<store, conn, seat, joined, pendingLeaves, graceTimers, engines>>
-------------------------------------------------------------------------------
(***************************************************************************)
(* Leaving, chatting, starting                                             *)
(***************************************************************************)

RoomLeave(s) ==
  /\ conn[s] = "open" /\ CanBegin /\ seat[s] # None
  /\ leaveCurrentRoom({}, s, None, "done")

ChatSend(s) ==
  /\ conn[s] = "open" /\ CanBegin /\ seat[s] # None
  /\ store' = addChatMessage(store, seat[s])
  /\ UNCHANGED <<conn, seat, joined, pendingLeaves, graceTimers, engines, calls>>

GameStart(s) ==
  /\ conn[s] = "open" /\ CanBegin /\ seat[s] # None
  /\ Exists(store, seat[s])
  /\ Await({}, Call("start:found", Owner[s], s, seat[s]))
  /\ UNCHANGED <<store, conn, seat, joined, pendingLeaves, graceTimers, engines>>

\* The checks of the handler, then startGameForRoom asks for the room again.
StartFound(c) ==
  /\ At(c, "start:found")
  /\ IF /\ store.rooms[c.r].hostId = c.p
        /\ Cardinality(Members(store, c.r)) >= MinPlayers
     THEN Await({c}, [c EXCEPT !.at = "start:again"])
     ELSE Return({c})
  /\ UNCHANGED <<store, conn, seat, joined, pendingLeaves, graceTimers, engines>>

\* Slip: a running game is replaced.
startGameForRoom_Restarts(c) ==
  /\ At(c, "start:again")
  /\ engines' = IF Exists(store, c.r)
                THEN [engines EXCEPT ![c.r] = [status |-> "running", alive |-> Members(store, c.r)]]
                ELSE engines
  /\ Return({c})
  /\ UNCHANGED <<store, conn, seat, joined, pendingLeaves, graceTimers>>

\* The engine is registered, then started: a table grown too small in between
\* leaves an engine that never starts and never ends.
startGameForRoom(c) ==
  /\ At(c, "start:again")
  /\ LET table == Members(store, c.r)
         status == IF Cardinality(table) >= MinPlayers THEN "running" ELSE "lobby"
     IN  engines' = IF Exists(store, c.r) /\ engines[c.r].status \in {"none", "ended"}
                    THEN [engines EXCEPT ![c.r] = [status |-> status, alive |-> table]]
                    ELSE engines
  /\ Return({c})
  /\ UNCHANGED <<store, conn, seat, joined, pendingLeaves, graceTimers>>

\* A night, a vote or a phase timeout kills somebody or ends the game.
GameGoesOn(r) ==
  /\ CanBegin /\ engines[r].status = "running"
  /\ \E S \in SUBSET engines[r].alive, st \in {"running", "ended"} :
       engines' = [engines EXCEPT ![r] = [status |-> st, alive |-> S]]
  /\ UNCHANGED <<store, conn, seat, joined, pendingLeaves, graceTimers, calls>>
-------------------------------------------------------------------------------
(***************************************************************************)
(* Connections and the grace period                                        *)
(***************************************************************************)

Connect(s) ==
  /\ conn[s] = "new" /\ CanBegin
  /\ conn' = [conn EXCEPT ![s] = "open"]
  /\ UNCHANGED <<store, seat, joined, pendingLeaves, graceTimers, engines, calls>>

\* Slip: a closed tab takes its player offline, whatever other tabs there are.
Disconnect_AnyTab(s) ==
  /\ conn[s] = "open" /\ CanBegin
  /\ conn' = [conn EXCEPT ![s] = "closed"]
  /\ joined' = [joined EXCEPT ![s] = {}]
  /\ IF seat[s] = None THEN Return({})
     ELSE Await({}, [Call("lost", Owner[s], s, None) EXCEPT !.from = seat[s], !.answer = TRUE])
  /\ UNCHANGED <<store, seat, pendingLeaves, graceTimers, engines>>

\* The socket has left all its rooms when the handler runs.
Disconnect(s) ==
  /\ conn[s] = "open" /\ CanBegin
  /\ conn' = [conn EXCEPT ![s] = "closed"]
  /\ joined' = [joined EXCEPT ![s] = {}]
  /\ IF seat[s] = None THEN Return({})
     ELSE Await({}, [Call("lost", Owner[s], s, None) EXCEPT
                       !.from = seat[s],
                       !.answer = SocketsOf(Owner[s], seat[s]) \ {s} = {}])
  /\ UNCHANGED <<store, seat, pendingLeaves, graceTimers, engines>>

LostCounted(c) ==
  /\ At(c, "lost")
  /\ IF c.answer
     THEN /\ store' = setPlayerOnline(store, c.from, c.p, FALSE)
          /\ Await({c}, [c EXCEPT !.at = "lost:marked"])
     ELSE Return({c}) /\ UNCHANGED store
  /\ UNCHANGED <<conn, seat, joined, pendingLeaves, graceTimers, engines>>

LostMarked(c) ==
  /\ At(c, "lost:marked")
  /\ Schedule(<<c.from, c.p>>)
  /\ Return({c})
  /\ UNCHANGED <<store, conn, seat, joined, engines>>

GraceTimeout(k) ==
  /\ graceTimers[k] > 0 /\ CanBegin
  /\ graceTimers' = [graceTimers EXCEPT ![k] = @ - 1]
  /\ pendingLeaves' = pendingLeaves \ {k}
  /\ Await({}, [Call("gone", k[2], None, None) EXCEPT
                  !.from = k[1], !.answer = countOtherUserSockets(k[1], k[2]) = 0])
  /\ UNCHANGED <<store, conn, seat, joined, engines>>

\* if (!stillGone) return; await store.getById
GoneCounted(c) ==
  /\ At(c, "gone")
  /\ IF c.answer /\ Exists(store, c.from) THEN Await({c}, [c EXCEPT !.at = "gone:found"])
     ELSE Return({c})
  /\ UNCHANGED <<store, conn, seat, joined, pendingLeaves, graceTimers, engines>>

GoneFound(c) ==
  /\ At(c, "gone:found")
  /\ IF c.p \in Members(store, c.from) THEN RemovePlayer(c) ELSE Return({c}) /\ UNCHANGED store
  /\ UNCHANGED <<conn, seat, joined, pendingLeaves, graceTimers, engines>>
-------------------------------------------------------------------------------
\* Where a handler resumes.
Resume(c) ==
  \/ LeftChannel(c) \/ LeftCounted(c) \/ LeftRemoved(c)
  \/ CreateResumed(c) \/ CreateFails(c) \/ CreateMade(c)
  \/ JoinFound(c) \/ JoinResumed(c) \/ JoinAdded(c)
  \/ GetFound(c) \/ GetResumed(c) \/ GetJoined(c)
  \/ Seated(c) \/ Done(c)
  \/ StartFound(c) \/ startGameForRoom(c)
  \/ LostCounted(c) \/ LostMarked(c)
  \/ GoneCounted(c) \/ GoneFound(c)

Receive(s) ==
  \/ RoomCreate(s) \/ RoomLeave(s) \/ ChatSend(s) \/ GameStart(s)
  \/ \E code \in Codes : RoomJoin(s, code)
  \/ \E r \in Rooms : RoomGet(s, r)

Next ==
  \/ \E s \in Sockets : Connect(s) \/ Disconnect(s) \/ Receive(s)
  \/ \E c \in calls : Resume(c)
  \/ \E k \in Keys : GraceTimeout(k)
  \/ \E r \in Rooms : GameGoesOn(r)

Spec == Init /\ [][Next]_vars
-------------------------------------------------------------------------------
(***************************************************************************)
(* Properties                                                              *)
(***************************************************************************)

Labels ==
  {"left", "counted", "removed", "create", "create:made", "join:found", "join",
   "join:added", "get:found", "get", "get:joined", "seated", "done", "start:found",
   "start:again", "lost", "lost:marked", "gone", "gone:found"}

CallState ==
  [at : Labels, p : Players, s : Sockets \cup {None}, r : Rooms \cup {None},
   from : Rooms \cup {None}, answer : BOOLEAN, then : {"done", "create", "join", "get"}]

EngineSeen == [status : {"none", "lobby", "running", "ended"}, alive : SUBSET Players]

\* The type invariant.
TypeOK ==
  /\ StoreTyped(store)
  /\ conn \in [Sockets -> {"new", "open", "closed"}]
  /\ seat \in [Sockets -> Rooms \cup {None}]
  /\ joined \in [Sockets -> SUBSET Rooms]
  /\ pendingLeaves \subseteq Keys
  /\ graceTimers \in [Keys -> Nat]
  /\ engines \in [Rooms -> EngineSeen]
  /\ calls \subseteq CallState

OneHost == HostIsEldest(store)

CodesLead == IndexAgrees(store)

\* Between two events the three records of who is where agree: a connected socket
\* is in the one Socket.IO room its data names, its player is a member there, and
\* the members shown online are those with a socket in the room, whatever tabs came
\* and went (disconnect and leave both spare a player who has another tab).
SeatsAgree ==
  calls = {} =>
    /\ \A s \in Sockets : joined[s] = IF conn[s] = "open" THEN {seat[s]} \ {None} ELSE {}
    /\ \A r \in Rooms :
         store.rooms[r].isOnline = {p \in Players : SocketsOf(p, r) # {}}

\* Between two events exactly the members without a socket have a grace timer, one
\* each, and the map holds its handle: nobody is forgotten in a room, and no timer
\* outlives the absence that armed it.
GraceIffAway ==
  calls = {} =>
    \A r \in Rooms, p \in Players :
      LET away == p \in Members(store, r) /\ SocketsOf(p, r) = {}
      IN  /\ graceTimers[<<r, p>>] = IF away THEN 1 ELSE 0
          /\ <<r, p>> \in pendingLeaves <=> away

\* Between two events every engine has a room: with the last player gone, by whatever
\* way, the engine is destroyed, or its phase timer would go on unseen.
NoOrphanGames ==
  calls = {} => \A r \in Rooms : engines[r].status # "none" => Exists(store, r)

\* Between two events the living of a running game are members of its room, by
\* whatever way the others left.
GamesFollowRooms ==
  calls = {} =>
    \A r \in Rooms :
      engines[r].status = "running" => engines[r].alive \subseteq Members(store, r)

\* A running game is neither replaced nor restarted, and nobody enters it: it ends,
\* or it dies with its room.
GamesRunOut ==
  [][\A r \in Rooms : engines[r].status = "running" =>
       \/ engines'[r].status \in {"running", "ended"} /\ engines'[r].alive \subseteq engines[r].alive
       \/ ~Exists(store', r)]_vars

\* "Phong da bat dau choi" (handlers.ts:71): nobody joins the room of a running game.
LatecomersStayOut ==
  [][\A r \in Rooms :
       engines[r].status = "running" => Members(store', r) \subseteq Members(store, r)]_vars
===============================================================================
