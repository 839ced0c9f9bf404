--------------------------- MODULE RoomSeatsProofs ----------------------------
(***************************************************************************)
(* Who is where: the rooms the store keeps, the seats, the Socket.IO       *)
(* rooms, the grace timers, the games and the room pages agree between two *)
(* events, for any number of players, connections, rooms and codes.        *)
(***************************************************************************)
EXTENDS RoomViews, RoomSessionsProofs

Online(r) == store.rooms[r].isOnline

\* The entry of player p in room r is what the records of it agree on.
Settled(r, p) ==
  /\ p \in Online(r) <=> SocketsOf(p, r) # {}
  /\ <<r, p>> \in pendingLeaves <=> p \in Members(store, r) /\ SocketsOf(p, r) = {}

OutOf == {"left", "counted", "lost", "lost:marked", "gone", "gone:found"}
Into  == {"create:made", "join:added", "get:joined", "seated"}

\* A handler in flight is about to settle it.
About(c, r, p) ==
  /\ c.p = p
  /\ \/ c.at \in OutOf /\ c.from = r
     \/ c.at \in Into /\ c.r = r /\ (c.at = "join:added" => c.answer)

Unsettled(r, p) == \E c \in calls : About(c, r, p)

Absent(r, p) == p \in Members(store, r) /\ p \notin Online(r) /\ SocketsOf(p, r) = {}

\* The socket of a handler that is not over is open and its player's.
AtHand(c) == c.s \in Sockets /\ conn[c.s] = "open" /\ Owner[c.s] = c.p

CallKnows(c) ==
  LET k == <<c.from, c.p>>
  IN
  /\ c.at = "left" =>
       AtHand(c) /\ seat[c.s] = c.from /\ c.p \in Online(c.from) /\ k \notin pendingLeaves
  /\ c.at = "counted" =>
       /\ AtHand(c) /\ seat[c.s] = None /\ c.p \in Online(c.from) /\ k \notin pendingLeaves
       /\ c.answer <=> SocketsOf(c.p, c.from) = {}
  /\ c.at \in {"left", "counted", "removed"} /\ c.then # "done" =>
       /\ AtHand(c) /\ (c.at # "left" => seat[c.s] = None)
       /\ c.then = "get" => c.r # c.from /\ c.p \in Members(store, c.r)
  /\ c.at = "removed" => c.p \notin Members(store, c.from)
  /\ c.at \in {"create", "join", "get", "create:made"} => AtHand(c) /\ seat[c.s] = None
  /\ c.at \in {"get", "get:joined"} => c.p \in Members(store, c.r)
  /\ c.at = "create:made" => c.p \in Online(c.r) /\ <<c.r, c.p>> \notin pendingLeaves
  /\ c.at \in {"join:found", "get:found"} => AtHand(c)
  /\ c.at = "join:added" =>
       AtHand(c) /\ seat[c.s] \in {None, c.r} /\ (c.answer => c.p \in Online(c.r))
  /\ c.at \in {"get:joined", "seated"} => AtHand(c) /\ seat[c.s] = c.r
  /\ c.at = "seated" => c.p \in Online(c.r)
  /\ c.at = "start:again" => Cardinality(Members(store, c.r)) >= MinPlayers
  /\ c.at = "lost" =>
       /\ c.p \in Online(c.from) /\ k \notin pendingLeaves
       /\ c.answer <=> SocketsOf(c.p, c.from) = {}
  /\ c.at = "lost:marked" => Absent(c.from, c.p)
  /\ c.at \in {"gone", "gone:found"} =>
       c.answer /\ c.then = "done" /\ Absent(c.from, c.p) /\ k \notin pendingLeaves

\* A socket on its way out of a room has left the Socket.IO room first.
OnTheWayOut(s) == \E c \in calls : c.at = "left" /\ c.s = s

JoinedInv ==
  joined = [s \in Sockets |-> IF conn[s] = "open" /\ ~OnTheWayOut(s) THEN {seat[s]} \ {None} ELSE {}]

SettledInv == \A r \in Rooms, p \in Players : Settled(r, p) \/ Unsettled(r, p)

\* The players who have been removed from r and whose death the game has not seen.
Leavers(r) == {c.p : c \in {d \in calls : d.at = "removed" /\ d.from = r}}

TableInv ==
  \A r \in Rooms :
    /\ engines[r].status # "lobby"
    /\ engines[r].status = "running" => engines[r].alive \subseteq Members(store, r) \cup Leavers(r)

OneAtATime == calls = {} \/ \E c \in calls : calls = {c}

\* A socket that has not connected sits nowhere, and those connected can be counted.
ConnInv ==
  /\ \A s \in Sockets : conn[s] = "new" => seat[s] = None
  /\ IsFiniteSet({s \in Sockets : conn[s] = "open"})

SeatsInv ==
  /\ OneAtATime /\ ConnInv /\ JoinedInv /\ SettledInv /\ TableInv
  /\ \A c \in calls : CallKnows(c)
-------------------------------------------------------------------------------
Whole == IInv /\ RoomsInv(store) /\ TypedInv /\ SeatsInv

\* A step leaves the entry of p in r as it was.
Same(r, p) ==
  /\ p \in Online(r)' <=> p \in Online(r)
  /\ p \in Members(store', r) <=> p \in Members(store, r)
  /\ SocketsOf(p, r)' = {} <=> SocketsOf(p, r) = {}
  /\ <<r, p>> \in pendingLeaves' <=> <<r, p>> \in pendingLeaves

\* What has not changed stays settled.
LEMMA StaysSettled ==
  ASSUME NEW r, NEW p, Settled(r, p), Same(r, p)
  PROVE  Settled(r, p)'
BY DEF Settled, Same

\* One entry changes, the one in hand.
LEMMA Settles ==
  ASSUME SettledInv, NEW r0, NEW p0,
         \A r \in Rooms, p \in Players : r # r0 \/ p # p0 => Same(r, p),
         \A c \in calls, r \in Rooms, p \in Players : About(c, r, p) => r = r0 /\ p = p0,
         r0 \in Rooms /\ p0 \in Players => Settled(r0, p0)' \/ Unsettled(r0, p0)'
  PROVE  SettledInv'
<1> SUFFICES ASSUME NEW r \in Rooms, NEW p \in Players
             PROVE  Settled(r, p)' \/ Unsettled(r, p)'
  BY DEF SettledInv
<1>1. CASE r = r0 /\ p = p0
  BY <1>1
<1>2. CASE r # r0 \/ p # p0
  <2>1. Settled(r, p) /\ Same(r, p)
    BY <1>2 DEF SettledInv, Unsettled
  <2> QED BY <2>1, StaysSettled
<1> QED
  BY <1>1, <1>2

\* No entry changes, and none is in hand.
LEMMA NothingToSettle ==
  ASSUME SettledInv, \A r \in Rooms, p \in Players : Same(r, p),
         \A c \in calls, r \in Rooms, p \in Players : ~About(c, r, p)
  PROVE  SettledInv'
BY StaysSettled DEF SettledInv, Unsettled

\* Whose sockets are in which room, when s leaves one room or enters it.
LEMMA SocketsKept ==
  ASSUME UNCHANGED joined
  PROVE  \A r, p : SocketsOf(p, r)' = SocketsOf(p, r)
BY DEF SocketsOf

\* The socket leaves.
LEMMA SocketLeaves ==
  ASSUME SocketsTyped, NEW s \in Sockets, NEW room, joined' = [joined EXCEPT ![s] = @ \ {room}]
  PROVE  /\ \A r, p : r # room \/ p # Owner[s] => SocketsOf(p, r)' = SocketsOf(p, r)
         /\ SocketsOf(Owner[s], room)' = SocketsOf(Owner[s], room) \ {s}
<1>1. joined'[s] = joined[s] \ {room} /\ \A q \in Sockets \ {s} : joined'[q] = joined[q]
  BY DEF SocketsTyped
<1>2. ASSUME NEW r, NEW p, r # room \/ p # Owner[s]
      PROVE  SocketsOf(p, r)' = SocketsOf(p, r)
  BY <1>1, <1>2 DEF SocketsOf
<1>3. SocketsOf(Owner[s], room)' = SocketsOf(Owner[s], room) \ {s}
  BY <1>1 DEF SocketsOf
<1> QED
  BY <1>2, <1>3

\* The socket enters.
LEMMA SocketEnters ==
  ASSUME SocketsTyped, NEW s \in Sockets, NEW room, joined' = [joined EXCEPT ![s] = @ \cup {room}]
  PROVE  /\ \A r, p : r # room \/ p # Owner[s] => SocketsOf(p, r)' = SocketsOf(p, r)
         /\ s \in SocketsOf(Owner[s], room)'
<1>1. joined'[s] = joined[s] \cup {room} /\ \A q \in Sockets \ {s} : joined'[q] = joined[q]
  BY DEF SocketsTyped
<1>2. ASSUME NEW r, NEW p, r # room \/ p # Owner[s]
      PROVE  SocketsOf(p, r)' = SocketsOf(p, r)
  BY <1>1, <1>2 DEF SocketsOf
<1>3. s \in SocketsOf(Owner[s], room)'
  BY <1>1 DEF SocketsOf
<1> QED
  BY <1>2, <1>3

\* A connected socket is in the Socket.IO room of its seat, unless it is on its way out.
LEMMA InItsRoom ==
  ASSUME JoinedInv, NEW s \in Sockets, conn[s] = "open", ~OnTheWayOut(s)
  PROVE  /\ joined[s] = {seat[s]} \ {None}
         /\ seat[s] # None => s \in SocketsOf(Owner[s], seat[s])
BY DEF JoinedInv, SocketsOf

\* fetchSockets finds nobody exactly when there is nobody: open sockets are finitely many.
LEMMA NoneCounted ==
  ASSUME ConnInv, JoinedInv, NEW r, NEW p
  PROVE  countOtherUserSockets(r, p) = 0 <=> SocketsOf(p, r) = {}
<1>1. SocketsOf(p, r) \subseteq {s \in Sockets : conn[s] = "open"}
  BY DEF JoinedInv, SocketsOf
<1>2. IsFiniteSet(SocketsOf(p, r))
  BY <1>1, FS_Subset DEF ConnInv
<1> QED
  BY <1>2, FS_EmptySet DEF countOtherUserSockets

\* Nothing is unsettled while no handler runs.
LEMMA AllSettled ==
  ASSUME SettledInv, NEW r \in Rooms, NEW p \in Players, \A c \in calls : ~About(c, r, p)
  PROVE  Settled(r, p)
BY DEF SettledInv, Unsettled

\* Who is online is a member of a room that exists.
LEMMA OnlineAreMembers ==
  ASSUME NEW s, RoomsInv(s), NEW r \in Rooms, NEW p, p \in s.rooms[r].isOnline
  PROVE  p \in Members(s, r) /\ Exists(s, r)
<1>1. Exists(s, r)
  BY NobodyInNoRoom
<1> QED
  BY <1>1 DEF RoomsInv, RoomInv, Members

\* With a store in memory a handler is over before the next event.
LEMMA Alone ==
  ASSUME ~Interleaved, OneAtATime
  PROVE  /\ CanBegin => calls = {}
         /\ \A c \in calls : calls = {c}
BY DEF CanBegin, OneAtATime

\* The steps that end or begin a handler and change nothing else of what SeatsInv says.
LEMMA JoinedKept ==
  ASSUME JoinedInv, UNCHANGED <<conn, seat, joined>>,
         \A s \in Sockets : OnTheWayOut(s)' <=> OnTheWayOut(s)
  PROVE  JoinedInv'
BY DEF JoinedInv

\* Connections that stay as they are.
LEMMA ConnKept ==
  ASSUME ConnInv, UNCHANGED <<conn, seat>>
  PROVE  ConnInv'
BY DEF ConnInv

\* A handler that has removed nobody leaves the games as they are.
LEMMA TablesKept ==
  ASSUME TableInv, UNCHANGED engines, \A c \in calls : c.at # "removed",
         \A r \in Rooms : Members(store, r) \subseteq Members(store', r)
  PROVE  TableInv'
BY DEF TableInv, Leavers

\* A step that touches neither the room nor the sockets nor the timer of a player.
LEMMA SameIf ==
  ASSUME NEW r, NEW p, SocketsOf(p, r)' = SocketsOf(p, r), store'.rooms[r] = store.rooms[r],
         <<r, p>> \in pendingLeaves' <=> <<r, p>> \in pendingLeaves
  PROVE  Same(r, p)
BY DEF Same, Online, Members
-------------------------------------------------------------------------------
\* No handler in flight has the entry of a player in hand.
Idle == \A c \in calls : c.at \notin OutOf \cup Into

\* Nobody is about to be settled.
LEMMA NothingInHand ==
  ASSUME Idle, NEW c \in calls, NEW r, NEW p
  PROVE  ~About(c, r, p)
BY DEF Idle, About

\* A request that begins with a call of the store and changes nothing.
LEMMA Begins ==
  ASSUME Whole, calls = {}, NEW d, calls' = {d}, d.at \in {"join:found", "get:found", "start:found"},
         UNCHANGED <<store, conn, seat, joined, pendingLeaves, graceTimers, engines>>,
         d.at # "start:found" => AtHand(d)
  PROVE  SeatsInv'
<1>1. OneAtATime'
  BY DEF OneAtATime
<1>2. JoinedInv' /\ ConnInv'
  BY JoinedKept, ConnKept DEF OnTheWayOut, Whole, SeatsInv
<1>3. SettledInv'
  BY NothingToSettle, SocketsKept, SameIf DEF Whole, SeatsInv
<1>4. TableInv'
  BY TablesKept DEF Whole, SeatsInv
<1>5. CallKnows(d)'
  BY DEF CallKnows, AtHand
<1> QED
  BY <1>1, <1>2, <1>3, <1>4, <1>5 DEF SeatsInv

\* A handler with nothing in hand is over.
LEMMA Ends ==
  ASSUME Whole, NEW c, calls = {c}, Return({c}), c.at # "removed", c.at # "left",
         UNCHANGED <<store, conn, seat, joined, engines>>,
         \A r \in Rooms, p \in Players : Settled(r, p)'
  PROVE  SeatsInv'
<1>1. calls' = {}
  BY DEF Return
<1>2. OneAtATime'
  BY <1>1 DEF OneAtATime
<1>3. JoinedInv' /\ ConnInv'
  BY <1>1, JoinedKept, ConnKept DEF OnTheWayOut, Whole, SeatsInv
<1>4. SettledInv'
  BY DEF SettledInv
<1>5. TableInv'
  BY TablesKept DEF Whole, SeatsInv
<1> QED
  BY <1>1, <1>2, <1>3, <1>4, <1>5 DEF SeatsInv

\* The socket leaves the Socket.IO room: its player is still online there.
LEMMA LeaveBeginsSeats ==
  ASSUME Whole, NEW done, calls = done, OneAtATime, Idle, \A c \in calls : c.at # "removed",
         NEW s \in Sockets, conn[s] = "open", seat[s] # None, NEW r, NEW then,
         then = "get" => r # seat[s] /\ Owner[s] \in Members(store, r),
         leaveCurrentRoom(done, s, r, then)
  PROVE  SeatsInv'
<1>0. PICK room \in Rooms, p \in Players : room = seat[s] /\ p = Owner[s]
  BY SessionsAssumption DEF Whole, IInv, SeatInv, StoreInv
<1>1. PICK d : calls' = {d} /\ Is(d, "left", p, s, r, room, FALSE, then)
  <2>1. PICK d : /\ calls' = (calls \ done) \cup {d}
                 /\ Is(d, "left", Owner[s], s, r, seat[s], FALSE, then)
    BY LeaveCall
  <2>2. calls' = {d}
    BY <2>1
  <2> QED BY <1>0, <2>1, <2>2
<1>2. /\ joined' = [joined EXCEPT ![s] = @ \ {room}]
      /\ UNCHANGED <<store, conn, seat, pendingLeaves, graceTimers, engines>>
  BY <1>0 DEF leaveCurrentRoom
<1>4. ~OnTheWayOut(s) /\ \A q \in Sockets : ~OnTheWayOut(q)
  BY DEF OnTheWayOut, Idle, OutOf
<1>5. joined[s] = {room} /\ s \in SocketsOf(p, room)
  BY <1>0, <1>4, InItsRoom, StoreAssumption DEF Whole, SeatsInv
<1>6. Settled(room, p)
  BY AllSettled, NothingInHand DEF Whole, SeatsInv
<1>7. p \in Online(room) /\ <<room, p>> \notin pendingLeaves
  BY <1>5, <1>6 DEF Settled
<1>8. OneAtATime' /\ ConnInv'
  BY <1>1, <1>2, ConnKept DEF OneAtATime, Whole, SeatsInv
<1>9. JoinedInv'
  <2>1. \A q \in Sockets : OnTheWayOut(q)' <=> q = s
    BY <1>1 DEF OnTheWayOut, Is
  <2>2. joined' = [q \in Sockets |-> IF q = s THEN {} ELSE joined[q]]
    BY <1>2, <1>5 DEF Whole, TypedInv, SocketsTyped
  <2> QED BY <1>0, <1>2, <1>4, <2>1, <2>2 DEF JoinedInv, Whole, SeatsInv
<1>10. SettledInv'
  <2>1. \A q, x : q # room \/ x # p => SocketsOf(x, q)' = SocketsOf(x, q)
    BY <1>0, <1>2, SocketLeaves DEF Whole, TypedInv
  <2>2. \A q \in Rooms, x \in Players : q # room \/ x # p => Same(q, x)
    BY <1>2, <2>1, SameIf
  <2>3. Unsettled(room, p)'
    BY <1>1 DEF Unsettled, About, Is, OutOf
  <2> QED BY <2>2, <2>3, Settles, NothingInHand DEF Whole, SeatsInv
<1>11. TableInv'
  BY <1>2, TablesKept DEF Whole, SeatsInv
<1>12. CallKnows(d)'
  <2>1. AtHand(d)' /\ seat'[d.s] = d.from /\ (d.p \in Online(d.from))' /\ <<d.from, d.p>> \notin pendingLeaves'
    BY <1>0, <1>1, <1>2, <1>7 DEF Is, AtHand, Online
  <2>2. d.then = "get" => d.r # d.from /\ d.p \in Members(store', d.r)
    BY <1>0, <1>1, <1>2 DEF Is
  <2> QED BY <1>1, <2>1, <2>2 DEF CallKnows, Is
<1> QED
  BY <1>1, <1>8, <1>9, <1>10, <1>11, <1>12 DEF SeatsInv

\* The seat is given up, and the other tabs are counted.
LEMMA LeftChannelSeats ==
  ASSUME Whole, NEW c, calls = {c}, LeftChannel(c)
  PROVE  SeatsInv'
<1>1. /\ CallInv(c, store) /\ CallShape(c) /\ CallKnows(c) /\ c.at = "left"
      /\ c.p \in Players /\ c.from \in Rooms
  BY DEF LeftChannel, At, Whole, IInv, SeatsInv, CallInv, Leaving, StoreInv
<1>2. AtHand(c) /\ seat[c.s] = c.from /\ c.p \in Online(c.from) /\ <<c.from, c.p>> \notin pendingLeaves
  BY <1>1 DEF CallKnows
<1> DEFINE v == countOtherUserSockets(c.from, c.p) = 0
<1>3. PICK d : calls' = {d} /\ Is(d, "counted", c.p, c.s, c.r, c.from, v, c.then)
  <2>1. PICK d : /\ calls' = (calls \ {c}) \cup {d}
                 /\ Is(d, "counted", c.p, c.s, c.r, c.from, v, c.then)
    BY <1>1, NextAnswer DEF LeftChannel
  <2>2. calls' = {d}
    BY <2>1
  <2> QED BY <2>1, <2>2
<1>4. v <=> SocketsOf(c.p, c.from) = {}
  BY NoneCounted DEF Whole, SeatsInv
<1> HIDE DEF v
<1>5. /\ seat' = [seat EXCEPT ![c.s] = None]
      /\ UNCHANGED <<store, conn, joined, pendingLeaves, graceTimers, engines>>
  BY DEF LeftChannel
<1>6. /\ seat'[c.s] = None
      /\ \A s \in Sockets : s # c.s => seat'[s] = seat[s]
  BY <1>2, <1>5 DEF AtHand, Whole, IInv, SeatInv
<1>7. OneAtATime' /\ ConnInv'
  BY <1>3, <1>5, <1>6 DEF OneAtATime, ConnInv, Whole, SeatsInv
<1>8. JoinedInv'
  <2>1. \A s \in Sockets : ~OnTheWayOut(s)' /\ (OnTheWayOut(s) <=> s = c.s)
    BY <1>1, <1>3 DEF OnTheWayOut, Is
  <2>2. \A s \in Sockets : joined[s] = IF conn[s] = "open" /\ s # c.s THEN {seat[s]} \ {None} ELSE {}
    BY <2>1 DEF JoinedInv, Whole, SeatsInv
  <2>3. \A s \in Sockets : joined[s] = IF conn[s] = "open" THEN {seat'[s]} \ {None} ELSE {}
    BY <1>6, <2>2
  <2>4. joined = [s \in Sockets |-> joined[s]]
    BY DEF JoinedInv, Whole, SeatsInv
  <2> QED BY <1>5, <2>1, <2>3, <2>4 DEF JoinedInv
<1>9. SettledInv'
  <2>1. \A r \in Rooms, p \in Players : Same(r, p)
    BY <1>5, SocketsKept, SameIf
  <2>2. Unsettled(c.from, c.p)'
    BY <1>3 DEF Unsettled, About, Is, OutOf
  <2>3. \A r, p : About(c, r, p) => r = c.from /\ p = c.p
    BY <1>1 DEF About, Into
  <2> QED BY <2>1, <2>2, <2>3, Settles DEF Whole, SeatsInv
<1>10. TableInv'
  BY <1>1, <1>5, TablesKept DEF Whole, SeatsInv
<1>11. CallKnows(d)'
  <2>1. /\ AtHand(d)' /\ seat'[d.s] = None /\ (d.p \in Online(d.from))'
        /\ <<d.from, d.p>> \notin pendingLeaves'
        /\ d.answer <=> SocketsOf(d.p, d.from)' = {}
    BY <1>2, <1>3, <1>4, <1>5, <1>6, SocketsKept DEF Is, AtHand, Online
  <2>2. d.then = "get" => d.r # d.from /\ d.p \in Members(store', d.r)
    BY <1>1, <1>3, <1>5 DEF Is, CallKnows
  <2> QED BY <1>3, <2>1, <2>2 DEF CallKnows, Is
<1> QED
  BY <1>3, <1>7, <1>8, <1>9, <1>10, <1>11 DEF SeatsInv
-------------------------------------------------------------------------------
\* What leaves alone who is where, and whom the game may have alive.
LEMMA Rest ==
  ASSUME Whole, UNCHANGED <<conn, seat, joined>>,
         \A s \in Sockets : OnTheWayOut(s)' <=> OnTheWayOut(s),
         SettledInv', TableInv', calls' = {} \/ \E d : calls' = {d} /\ CallKnows(d)'
  PROVE  SeatsInv'
<1>1. JoinedInv' /\ ConnInv'
  BY JoinedKept, ConnKept DEF Whole, SeatsInv
<1>2. OneAtATime' /\ \A c \in calls' : CallKnows(c)'
  BY DEF OneAtATime
<1> QED
  BY <1>1, <1>2 DEF SeatsInv

\* The room has been left: the handler is over, or goes on into the next one.
LEMMA GoesOnSeats ==
  ASSUME Whole, NEW c, calls = {c}, c.at \in {"counted", "removed"}, GoesOn(c),
         UNCHANGED <<store, conn, seat, joined>>,
         SettledInv', TableInv'
  PROVE  SeatsInv'
<1>1. CallInv(c, store) /\ CallKnows(c) /\ c.then \in {"done", "create", "join", "get"}
  BY DEF Whole, IInv, SeatsInv, CallInv
<1>2. CASE c.then = "done"
  <2>1. calls' = {}
    BY <1>2, GoesOnCall
  <2> QED BY <2>1, Rest DEF OnTheWayOut
<1>3. CASE c.then # "done"
  <2>1. PICK d : calls' = {d} /\ Is(d, c.then, c.p, c.s, c.r, None, FALSE, "done")
    <3>1. PICK d : calls' = (calls \ {c}) \cup {d} /\ Is(d, c.then, c.p, c.s, c.r, None, FALSE, "done")
      BY <1>3, GoesOnCall
    <3>2. calls' = {d}
      BY <3>1
    <3> QED BY <3>1, <3>2
  <2>2. AtHand(c) /\ seat[c.s] = None /\ (c.then = "get" => c.p \in Members(store, c.r))
    BY <1>1, <1>3 DEF CallKnows
  <2>3. AtHand(d)' /\ seat'[d.s] = None /\ (d.at = "get" => d.p \in Members(store', d.r))
    BY <2>1, <2>2 DEF AtHand, Is
  <2>4. d.at \in {"create", "join", "get"}
    BY <1>1, <1>3, <2>1 DEF Is
  <2>5. CallKnows(d)'
    BY <2>3, <2>4 DEF CallKnows
  <2>6. \A s \in Sockets : OnTheWayOut(s)' <=> OnTheWayOut(s)
    BY <2>1, <2>4 DEF OnTheWayOut, Is
  <2> QED BY <2>1, <2>5, <2>6, Rest
<1> QED
  BY <1>2, <1>3

\* The game has seen the departure, or is gone with its room.
LEMMA LeftRemovedSeats ==
  ASSUME Whole, NEW c, calls = {c}, LeftRemoved(c)
  PROVE  SeatsInv'
<1>1. /\ CallInv(c, store) /\ CallShape(c) /\ CallKnows(c) /\ c.at = "removed"
      /\ c.p \in Players /\ c.from \in Rooms
  BY DEF LeftRemoved, At, Whole, IInv, SeatsInv, CallInv, Leaving, StoreInv
<1>2. GoesOn(c) /\ UNCHANGED <<store, conn, seat, joined, pendingLeaves, graceTimers>>
  BY DEF LeftRemoved
<1>3. SettledInv'
  <2>1. \A r \in Rooms, p \in Players : Same(r, p)
    BY <1>2, SocketsKept, SameIf
  <2>2. \A r, p : ~About(c, r, p)
    BY <1>1 DEF About, OutOf, Into
  <2> QED BY <2>1, <2>2, NothingToSettle DEF Whole, SeatsInv
<1>4. TableInv'
  <2>1. \A d \in calls' : d.at # "removed"
    <3>1. c.then \in {"done", "create", "join", "get"}
      BY <1>1 DEF CallInv
    <3>2. CASE c.then = "done"
      BY <1>2, <3>2, GoesOnCall
    <3>3. CASE c.then # "done"
      <4>1. PICK d : calls' = (calls \ {c}) \cup {d} /\ Is(d, c.then, c.p, c.s, c.r, None, FALSE, "done")
        BY <1>2, <3>3, GoesOnCall
      <4> QED BY <3>1, <4>1 DEF Is
    <3> QED BY <3>2, <3>3
  <2>2. PICK e : /\ e \in IF c.answer THEN handlePlayerLeft(engines[c.from], c.p) ELSE {NoEngine}
                 /\ engines' = [engines EXCEPT ![c.from] = e]
    BY DEF LeftRemoved
  <2>3. engines'[c.from] = e /\ \A r \in Rooms \ {c.from} : engines'[r] = engines[r]
    BY <1>1, <2>2 DEF Whole, IInv, EngineInv
  <2>4. \A r \in Rooms : Leavers(r) = IF r = c.from THEN {c.p} ELSE {}
    BY <1>1 DEF Leavers
  <2>5. \A r \in Rooms : Leavers(r)' = {}
    BY <2>1 DEF Leavers
  <2>6. e.status # "lobby" /\ (e.status = "running" => e.alive \subseteq Members(store, c.from))
    <3>1. /\ engines[c.from].status # "lobby"
          /\ engines[c.from].status = "running" =>
               engines[c.from].alive \subseteq Members(store, c.from) \cup {c.p}
      BY <1>1, <2>4 DEF TableInv, Whole, SeatsInv
    <3>2. CASE c.answer
      BY <2>2, <3>1, <3>2 DEF handlePlayerLeft
    <3>3. CASE ~c.answer
      BY <2>2, <3>3 DEF NoEngine
    <3> QED BY <3>2, <3>3
  <2>7. ASSUME NEW r \in Rooms \ {c.from}
        PROVE  /\ engines'[r].status # "lobby"
               /\ engines'[r].status = "running" => engines'[r].alive \subseteq Members(store, r)
    BY <2>3, <2>4 DEF TableInv, Whole, SeatsInv
  <2>8. \A r \in Rooms : Members(store', r) = Members(store, r)
    BY <1>2
  <2> QED BY <1>1, <2>3, <2>5, <2>6, <2>7, <2>8 DEF TableInv
<1> QED
  BY <1>1, <1>2, <1>3, <1>4, GoesOnSeats

\* A player without a socket in the room is taken off its list.
LEMMA RemoveSeats ==
  ASSUME Whole, NEW c, calls = {c}, c.at \in {"counted", "gone:found"}, RemovePlayer(c),
         SocketsOf(c.p, c.from) = {}, <<c.from, c.p>> \notin pendingLeaves,
         c.then # "done" =>
           AtHand(c) /\ seat[c.s] = None /\ (c.then = "get" => c.r # c.from /\ c.p \in Members(store, c.r)),
         UNCHANGED <<conn, seat, joined, pendingLeaves, graceTimers, engines>>
  PROVE  SeatsInv'
<1>1. /\ CallInv(c, store) /\ CallShape(c)
      /\ c.p \in Players /\ c.from \in Rooms /\ (c.then = "get" => c.r \in Rooms)
      /\ StoreInv(store) /\ RoomsInv(store)
  BY DEF Whole, IInv, SeatsInv, CallInv, Leaving, StoreInv
<1>2. PICK d : calls' = {d} /\ Is(d, "removed", c.p, c.s, c.r, c.from, Exists(store', c.from), c.then)
  <2>1. PICK d : /\ calls' = (calls \ {c}) \cup {d}
                 /\ Is(d, "removed", c.p, c.s, c.r, c.from, Exists(store', c.from), c.then)
    BY <1>1, RemoveCall
  <2>2. calls' = {d}
    BY <2>1
  <2> QED BY <2>1, <2>2
<1>3. /\ \A q \in Rooms \ {c.from} : store'.rooms[q] = store.rooms[q]
      /\ store'.rooms[c.from].isOnline = store.rooms[c.from].isOnline \ {c.p}
      /\ Members(store', c.from) = Members(store, c.from) \ {c.p}
  BY <1>1, Removed DEF RemovePlayer
<1>4. \A q \in Rooms \ {c.from} : Members(store', q) = Members(store, q)
  BY <1>3 DEF Members
<1>5. SettledInv'
  <2>1. ASSUME NEW r \in Rooms, NEW p \in Players, r # c.from \/ p # c.p
        PROVE  Same(r, p)
    BY <1>3, <1>4, <2>1, SocketsKept DEF Same, Online
  <2>2. Settled(c.from, c.p)'
    BY <1>3, SocketsKept DEF Settled, Online
  <2>3. \A r, p : About(c, r, p) => r = c.from /\ p = c.p
    BY DEF About, Into
  <2> QED BY <2>1, <2>2, <2>3, Settles DEF Whole, SeatsInv
<1>6. TableInv'
  <2>1. \A r \in Rooms : Leavers(r) = {}
    BY DEF Leavers
  <2>2. \A r \in Rooms : Leavers(r)' = IF r = c.from THEN {c.p} ELSE {}
    BY <1>2 DEF Leavers, Is
  <2>3. \A r \in Rooms : Members(store, r) \subseteq Members(store', r) \cup Leavers(r)'
    BY <1>3, <1>4, <2>2
  <2> QED BY <2>1, <2>3 DEF TableInv, Whole, SeatsInv
<1>7. CallKnows(d)'
  <2>1. d.p \notin Members(store', d.from)
    BY <1>2, <1>3 DEF Is
  <2>2. d.then # "done" =>
          AtHand(d)' /\ seat'[d.s] = None /\ (d.then = "get" => d.r # d.from /\ d.p \in Members(store', d.r))
    BY <1>1, <1>2, <1>4 DEF Is, AtHand
  <2>3. d.at = "removed"
    BY <1>2 DEF Is
  <2> QED BY <2>1, <2>2, <2>3 DEF CallKnows
<1>8. \A s \in Sockets : OnTheWayOut(s)' <=> OnTheWayOut(s)
  BY <1>2 DEF OnTheWayOut, Is
<1> QED
  BY <1>2, <1>5, <1>6, <1>7, <1>8, Rest

\* The player is taken off the list, unless another tab keeps the place.
LEMMA LeftCountedSeats ==
  ASSUME Whole, NEW c, calls = {c}, LeftCounted(c)
  PROVE  SeatsInv'
<1>1. /\ CallInv(c, store) /\ CallKnows(c) /\ c.at = "counted"
      /\ c.p \in Players /\ c.from \in Rooms
  BY DEF LeftCounted, At, Whole, IInv, SeatsInv, CallInv, Leaving, StoreInv
<1>2. /\ AtHand(c) /\ seat[c.s] = None /\ c.p \in Online(c.from)
      /\ <<c.from, c.p>> \notin pendingLeaves
      /\ c.answer <=> SocketsOf(c.p, c.from) = {}
      /\ c.then = "get" => c.r # c.from /\ c.p \in Members(store, c.r)
  BY <1>1 DEF CallKnows
<1>3. UNCHANGED <<conn, seat, joined, pendingLeaves, graceTimers, engines>>
  BY DEF LeftCounted
<1>4. CASE c.answer
  BY <1>1, <1>2, <1>3, <1>4, RemoveSeats DEF LeftCounted
<1>5. CASE ~c.answer
  <2>1. GoesOn(c) /\ UNCHANGED store
    BY <1>5 DEF LeftCounted
  <2>2. SettledInv'
    <3>1. \A r \in Rooms, p \in Players : Same(r, p)
      BY <1>3, <2>1, SocketsKept, SameIf
    <3>2. Settled(c.from, c.p)
      BY <1>2, <1>5 DEF Settled
    <3>3. Settled(c.from, c.p)'
      BY <1>1, <3>1, <3>2, StaysSettled
    <3>4. \A r, p : About(c, r, p) => r = c.from /\ p = c.p
      BY <1>1 DEF About, Into
    <3> QED BY <3>1, <3>3, <3>4, Settles DEF Whole, SeatsInv
  <2>3. TableInv'
    BY <1>1, <1>3, <2>1, TablesKept DEF Whole, SeatsInv
  <2> QED BY <1>1, <1>3, <2>1, <2>2, <2>3, GoesOnSeats
<1> QED
  BY <1>4, <1>5
-------------------------------------------------------------------------------
\* A room is created: its host is online before the socket is in it.
LEMMA CreateInSeats ==
  ASSUME Whole, NEW done, calls = done, OneAtATime, Idle,
         \A c \in calls : c.at # "removed" /\ c.at # "left",
         NEW s \in Sockets, conn[s] = "open", seat[s] = None, CreateIn(done, s)
  PROVE  SeatsInv'
<1>1. PICK rc \in FreshRooms(store) :
        /\ store' = create(store, Owner[s], rc[1], rc[2])
        /\ Await(done, Call("create:made", Owner[s], s, rc[1]))
  BY DEF CreateIn
<1>2. PICK p \in Players, r \in Rooms : p = Owner[s] /\ r = rc[1]
  BY SessionsAssumption DEF FreshRooms
<1>3. StoreInv(store) /\ RoomsInv(store) /\ TimerInv
  BY DEF Whole, IInv
<1>4. /\ ~Exists(store, r) /\ r \notin store.used
      /\ \A q \in Rooms \ {r} : store'.rooms[q] = store.rooms[q]
      /\ store'.rooms[r].isOnline = {p} /\ Members(store', r) = {p}
  <2> DEFINE t == create(store, p, rc[1], rc[2])
  <2>1. /\ ~Exists(store, rc[1]) /\ rc[1] \notin store.used
        /\ \A q \in Rooms \ {rc[1]} : t.rooms[q] = store.rooms[q]
        /\ t.rooms[rc[1]].isOnline = {p} /\ Members(t, rc[1]) = {p}
    BY <1>3, Created
  <2>2. store' = t
    BY <1>1, <1>2
  <2> HIDE DEF t
  <2> QED BY <1>2, <2>1, <2>2
<1>5. Members(store, r) = {} /\ Online(r) = {}
  BY <1>4, NobodyInNoRoom DEF Online
<1>6. <<r, p>> \notin pendingLeaves
  BY <1>3, <1>4 DEF TimerInv
<1>7. PICK d : calls' = {d} /\ Is(d, "create:made", p, s, r, None, FALSE, "done")
  <2>1. PICK d : /\ calls' = (calls \ done) \cup {d}
                 /\ Is(d, "create:made", Owner[s], s, rc[1], None, FALSE, "done")
    BY <1>1, FirstLabel
  <2>2. calls' = {d}
    BY <2>1
  <2> QED BY <1>2, <2>1, <2>2
<1>8. UNCHANGED <<conn, seat, joined, pendingLeaves, graceTimers, engines>>
  BY DEF CreateIn
<1>9. \A q \in Rooms \ {r} : Members(store', q) = Members(store, q)
  BY <1>4 DEF Members
<1>10. SettledInv'
  <2>1. ASSUME NEW q \in Rooms, NEW x \in Players, q # r \/ x # p
        PROVE  Same(q, x)
    BY <1>4, <1>5, <1>8, <1>9, <2>1, SocketsKept DEF Same, Online
  <2>2. Unsettled(r, p)'
    BY <1>7 DEF Unsettled, About, Is, Into
  <2> QED BY <2>1, <2>2, Settles, NothingInHand DEF Whole, SeatsInv
<1>11. TableInv'
  BY <1>5, <1>8, <1>9, TablesKept DEF Whole, SeatsInv
<1>12. CallKnows(d)'
  <2>1. AtHand(d)' /\ seat'[d.s] = None /\ (d.p \in Online(d.r))' /\ <<d.r, d.p>> \notin pendingLeaves'
    BY <1>2, <1>4, <1>6, <1>7, <1>8 DEF Is, AtHand, Online
  <2>2. d.at = "create:made"
    BY <1>7 DEF Is
  <2> QED BY <2>1, <2>2 DEF CallKnows
<1>13. \A q \in Sockets : OnTheWayOut(q)' <=> OnTheWayOut(q)
  BY <1>7 DEF OnTheWayOut, Is
<1> QED
  BY <1>7, <1>8, <1>10, <1>11, <1>12, <1>13, Rest

\* The socket enters the Socket.IO room.
LEMMA TakeSeatSeats ==
  ASSUME Whole, NEW c, calls = {c}, c.at \in {"create:made", "join:added", "get", "get:found"},
         AtHand(c), seat[c.s] \in {None, c.r}, NEW next, TakeSeat(c, next),
         \/ next = "done" /\ c.p \in Online(c.r) /\ <<c.r, c.p>> \notin pendingLeaves
         \/ next = "seated" /\ c.p \in Online(c.r)
         \/ next = "get:joined" /\ c.p \in Members(store, c.r)
  PROVE  SeatsInv'
<1>1. /\ CallInv(c, store) /\ CallShape(c) /\ c.p \in Players /\ c.r \in Rooms
      /\ c.s \in Sockets /\ conn[c.s] = "open" /\ Owner[c.s] = c.p
  BY DEF Whole, IInv, CallInv, Entering, StoreInv, AtHand
<1>2. PICK d : calls' = {d} /\ Is(d, next, c.p, c.s, c.r, c.from, c.answer, c.then)
  <2>1. PICK d : /\ calls' = (calls \ {c}) \cup {d}
                 /\ Is(d, next, c.p, c.s, c.r, c.from, c.answer, c.then)
    BY <1>1, NextLabel DEF TakeSeat
  <2>2. calls' = {d}
    BY <2>1
  <2> QED BY <2>1, <2>2
<1>3. /\ seat' = [seat EXCEPT ![c.s] = c.r]
      /\ joined' = [joined EXCEPT ![c.s] = @ \cup {c.r}]
      /\ UNCHANGED <<store, conn, pendingLeaves, graceTimers, engines>>
  BY <1>1 DEF TakeSeat
<1>4. seat'[c.s] = c.r /\ \A s \in Sockets \ {c.s} : seat'[s] = seat[s]
  BY <1>1, <1>3 DEF Whole, IInv, SeatInv
<1>5. OneAtATime' /\ ConnInv'
  BY <1>1, <1>2, <1>3, <1>4 DEF OneAtATime, ConnInv, Whole, SeatsInv
<1>6. JoinedInv'
  <2>1. \A s \in Sockets : ~OnTheWayOut(s) /\ ~OnTheWayOut(s)'
    BY <1>2 DEF OnTheWayOut, Is
  <2>2. \A s \in Sockets : joined[s] = IF conn[s] = "open" THEN {seat[s]} \ {None} ELSE {}
    BY <2>1 DEF JoinedInv, Whole, SeatsInv
  <2>3. joined' = [s \in Sockets |-> IF s = c.s THEN joined[s] \cup {c.r} ELSE joined[s]]
    BY <1>1, <1>3 DEF Whole, TypedInv, SocketsTyped
  <2>4. joined[c.s] \cup {c.r} = {c.r} \ {None}
    BY <1>1, <2>2, StoreAssumption
  <2>5. \A s \in Sockets : joined'[s] = IF conn[s] = "open" THEN {seat'[s]} \ {None} ELSE {}
    BY <1>1, <1>4, <2>2, <2>3, <2>4
  <2> QED BY <1>3, <2>1, <2>3, <2>5 DEF JoinedInv
<1>7. SettledInv'
  <2>1. /\ \A r, p : r # c.r \/ p # c.p => SocketsOf(p, r)' = SocketsOf(p, r)
        /\ c.s \in SocketsOf(c.p, c.r)'
    <3>1. PICK s \in Sockets : \E p, r : s = c.s /\ p = c.p /\ r = c.r /\ p = Owner[s]
      BY <1>1
    <3>2. PICK p, r : s = c.s /\ p = c.p /\ r = c.r /\ p = Owner[s]
      BY <3>1
    <3>3. joined' = [joined EXCEPT ![s] = @ \cup {r}]
      BY <1>3, <3>2
    <3>4. SocketsTyped
      BY DEF Whole, TypedInv
    <3>5. /\ \A q, x : q # r \/ x # Owner[s] => SocketsOf(x, q)' = SocketsOf(x, q)
          /\ s \in SocketsOf(Owner[s], r)'
      BY <3>3, <3>4, SocketEnters
    <3> QED BY <3>2, <3>5
  <2>2. \A r \in Rooms, p \in Players : r # c.r \/ p # c.p => Same(r, p)
    BY <1>3, <2>1, SameIf
  <2>3. Settled(c.r, c.p)' \/ Unsettled(c.r, c.p)'
    <3>1. CASE next = "done"
      BY <1>3, <2>1, <3>1 DEF Settled, Online
    <3>2. CASE next # "done"
      BY <1>2, <3>2 DEF Unsettled, About, Is, Into
    <3> QED BY <3>1, <3>2
  <2>4. \A r, p : About(c, r, p) => r = c.r /\ p = c.p
    BY DEF About, OutOf
  <2> QED BY <2>2, <2>3, <2>4, Settles DEF Whole, SeatsInv
<1>8. TableInv'
  BY <1>3, TablesKept DEF Whole, SeatsInv
<1>9. CallKnows(d)'
  <2>1. AtHand(d)' /\ seat'[d.s] = d.r
    BY <1>1, <1>2, <1>3, <1>4 DEF Is, AtHand
  <2>2. CASE next = "done"
    BY <1>2, <2>2 DEF Is, CallKnows
  <2>3. CASE next = "seated"
    <3>1. (d.p \in Online(d.r))' /\ d.at = "seated"
      BY <1>2, <1>3, <2>3 DEF Is, Online
    <3> QED BY <2>1, <3>1 DEF CallKnows
  <2>4. CASE next = "get:joined"
    <3>1. d.p \in Members(store', d.r) /\ d.at = "get:joined"
      BY <1>2, <1>3, <2>4 DEF Is
    <3> QED BY <2>1, <3>1 DEF CallKnows
  <2> QED BY <2>2, <2>3, <2>4
<1> QED
  BY <1>2, <1>5, <1>6, <1>7, <1>8, <1>9 DEF SeatsInv

\* A player is on the list and online before the socket is in the room.
LEMMA JoinAsSeats ==
  ASSUME Whole, NEW c, calls = {c}, c.at \in {"join:found", "join"},
         AtHand(c), seat[c.s] \in {None, c.r}, JoinAs(c)
  PROVE  SeatsInv'
<1>1. /\ CallInv(c, store) /\ CallShape(c) /\ c.p \in Players /\ c.r \in Rooms
      /\ StoreInv(store) /\ RoomsInv(store)
  BY DEF Whole, IInv, CallInv, Entering, StoreInv
<1>2. PICK d : calls' = {d} /\ Is(d, "join:added", c.p, c.s, c.r, c.from, Exists(store, c.r), c.then)
  <2>1. PICK d : /\ calls' = (calls \ {c}) \cup {d}
                 /\ Is(d, "join:added", c.p, c.s, c.r, c.from, Exists(store, c.r), c.then)
    BY <1>1, NextAnswer DEF JoinAs
  <2>2. calls' = {d}
    BY <2>1
  <2> QED BY <2>1, <2>2
<1>3. /\ store' = IF c.p \in Members(store, c.r) THEN setPlayerOnline(store, c.r, c.p, TRUE)
                  ELSE addPlayer(store, c.r, c.p)
      /\ UNCHANGED <<conn, seat, joined, pendingLeaves, graceTimers, engines>>
  BY DEF JoinAs
<1>4. /\ \A q \in Rooms \ {c.r} : store'.rooms[q] = store.rooms[q]
      /\ ~Exists(store, c.r) => store' = store
      /\ Exists(store, c.r) =>
           /\ store'.rooms[c.r].isOnline = store.rooms[c.r].isOnline \cup {c.p}
           /\ Members(store', c.r) = Members(store, c.r) \cup {c.p}
  <2>1. CASE c.p \in Members(store, c.r)
    <3>1. store' = setPlayerOnline(store, c.r, c.p, TRUE) /\ Exists(store, c.r)
      BY <1>3, <2>1, NobodyInNoRoom
    <3>2. Members(store, c.r) \cup {c.p} = Members(store, c.r)
      BY <2>1
    <3>3. ShowsOnline(store, setPlayerOnline(store, c.r, c.p, TRUE), c.r,
                      store.rooms[c.r].isOnline \cup {c.p})
      BY <1>1, <2>1, Shown, Zenon
    <3>4. ShowsOnline(store, store', c.r, store.rooms[c.r].isOnline \cup {c.p})
      BY <3>1, <3>3
    <3> QED BY <3>1, <3>2, <3>4 DEF ShowsOnline
  <2>2. CASE c.p \notin Members(store, c.r)
    <3>1. store' = addPlayer(store, c.r, c.p)
      BY <1>3, <2>2
    <3> QED BY <1>1, <2>2, <3>1, Added
  <2> QED BY <2>1, <2>2
<1>5. \A q \in Rooms \ {c.r} : Members(store', q) = Members(store, q)
  BY <1>4 DEF Members
<1>6. SettledInv'
  <2>1. ASSUME NEW r \in Rooms, NEW p \in Players, r # c.r \/ p # c.p
        PROVE  Same(r, p)
    BY <1>3, <1>4, <1>5, <2>1, SocketsKept DEF Same, Online
  <2>2. \A r, p : ~About(c, r, p)
    BY DEF About, OutOf, Into
  <2>3. CASE Exists(store, c.r)
    <3>1. Unsettled(c.r, c.p)'
      BY <1>2, <2>3 DEF Unsettled, About, Is, Into
    <3> QED BY <2>1, <2>2, <3>1, Settles DEF Whole, SeatsInv
  <2>4. CASE ~Exists(store, c.r)
    <3>1. Same(c.r, c.p)
      BY <1>3, <1>4, <2>4, SocketsKept, SameIf
    <3> QED BY <2>1, <2>2, <3>1, NothingToSettle DEF Whole, SeatsInv
  <2> QED BY <2>3, <2>4
<1>7. TableInv'
  <2>1. \A q \in Rooms : Members(store, q) \subseteq Members(store', q)
    BY <1>4, <1>5
  <2> QED BY <1>3, <2>1, TablesKept DEF Whole, SeatsInv
<1>8. CallKnows(d)'
  <2>1. AtHand(d)' /\ seat'[d.s] \in {None, d.r} /\ (d.answer => (d.p \in Online(d.r))')
    BY <1>2, <1>3, <1>4 DEF Is, AtHand, Online
  <2>2. d.at = "join:added"
    BY <1>2 DEF Is
  <2> QED BY <2>1, <2>2 DEF CallKnows
<1>9. \A q \in Sockets : OnTheWayOut(q)' <=> OnTheWayOut(q)
  BY <1>2 DEF OnTheWayOut, Is
<1> QED
  BY <1>2, <1>3, <1>6, <1>7, <1>8, <1>9, Rest
-------------------------------------------------------------------------------
\* A handler that leaves everything as it is is over.
LEMMA EndsIdle ==
  ASSUME Whole, NEW c, calls = {c}, Return({c}), c.at # "removed", c.at # "left",
         \A r \in Rooms, p \in Players : ~About(c, r, p),
         UNCHANGED <<store, conn, seat, joined, pendingLeaves, engines>>
  PROVE  SeatsInv'
<1>1. ASSUME NEW r \in Rooms, NEW p \in Players
      PROVE  Settled(r, p)'
  <2>1. Settled(r, p)
    BY AllSettled DEF Whole, SeatsInv
  <2> QED BY <2>1, SocketsKept, SameIf, StaysSettled
<1> QED
  BY <1>1, Ends

\* A handler that has settled one entry is over.
LEMMA EndsSettling ==
  ASSUME Whole, NEW c, calls = {c}, Return({c}), c.at # "removed", c.at # "left",
         UNCHANGED <<store, conn, seat, joined, engines>>,
         NEW r0 \in Rooms, NEW p0 \in Players,
         \A k : k # <<r0, p0>> => (k \in pendingLeaves' <=> k \in pendingLeaves),
         \A r \in Rooms, p \in Players : About(c, r, p) => r = r0 /\ p = p0,
         Settled(r0, p0)'
  PROVE  SeatsInv'
<1>1. ASSUME NEW r \in Rooms, NEW p \in Players, r # r0 \/ p # p0
      PROVE  Settled(r, p)'
  <2>1. Settled(r, p)
    BY <1>1, AllSettled DEF Whole, SeatsInv
  <2>2. <<r, p>> # <<r0, p0>>
    BY <1>1
  <2>3. <<r, p>> \in pendingLeaves' <=> <<r, p>> \in pendingLeaves
    BY <2>2
  <2>4. SocketsOf(p, r)' = SocketsOf(p, r) /\ store'.rooms[r] = store.rooms[r]
    BY SocketsKept
  <2>5. Same(r, p)
    BY <2>3, <2>4, SameIf
  <2> QED BY <2>1, <2>5, StaysSettled
<1>2. \A r \in Rooms, p \in Players : Settled(r, p)'
  BY <1>1
<1> QED
  BY <1>2, Ends

\* What is known of a handler that resumes.
LEMMA Resuming ==
  ASSUME Whole, NEW c \in calls
  PROVE  /\ CallInv(c, store) /\ CallShape(c) /\ CallKnows(c) /\ c.p \in Players
         /\ c.at \in Leaving => c.from \in Rooms
         /\ c.at \in Entering => c.r \in Rooms
         /\ StoreInv(store) /\ RoomsInv(store)
BY DEF Whole, IInv, SeatsInv, CallInv, StoreInv

\* The handlers of room:create,
LEMMA CreateSeats ==
  ASSUME Whole, NEW c, calls = {c}, CreateResumed(c) \/ CreateFails(c) \/ CreateMade(c)
  PROVE  SeatsInv'
<1>1. CallInv(c, store) /\ CallShape(c) /\ CallKnows(c) /\ c.p \in Players
  BY Resuming
<1>2. CASE CreateResumed(c)
  <2>1. c.at = "create" /\ CreateIn({c}, c.s)
    BY <1>2 DEF CreateResumed, At
  <2>2. AtHand(c) /\ seat[c.s] = None
    BY <1>1, <2>1 DEF CallKnows
  <2>3. Idle /\ OneAtATime /\ c.s \in Sockets /\ conn[c.s] = "open"
    BY <2>1, <2>2 DEF Idle, OutOf, Into, OneAtATime, AtHand
  <2>4. \A d \in calls : d.at # "removed" /\ d.at # "left"
    BY <2>1
  <2> QED BY <2>1, <2>2, <2>3, <2>4, CreateInSeats
<1>3. CASE CreateFails(c)
  <2>1. /\ c.at = "create" /\ Return({c})
        /\ UNCHANGED <<store, conn, seat, joined, pendingLeaves, engines>>
    BY <1>3 DEF CreateFails, At
  <2>2. \A r, p : ~About(c, r, p)
    BY <2>1 DEF About, OutOf, Into
  <2> QED BY <2>1, <2>2, EndsIdle
<1>4. CASE CreateMade(c)
  <2>1. c.at = "create:made" /\ TakeSeat(c, "done")
    BY <1>4 DEF CreateMade, At
  <2>2. AtHand(c) /\ seat[c.s] = None /\ c.p \in Online(c.r) /\ <<c.r, c.p>> \notin pendingLeaves
    BY <1>1, <2>1 DEF CallKnows
  <2> QED BY <2>1, <2>2, TakeSeatSeats
<1> QED
  BY <1>2, <1>3, <1>4

\* of room:join,
LEMMA JoinSeats ==
  ASSUME Whole, NEW c, calls = {c}, JoinFound(c) \/ JoinResumed(c) \/ JoinAdded(c)
  PROVE  SeatsInv'
<1>1. CallInv(c, store) /\ CallShape(c) /\ CallKnows(c) /\ c.p \in Players
  BY Resuming
<1>2. CASE JoinFound(c)
  <2>1. c.at = "join:found"
    BY <1>2 DEF JoinFound, At
  <2>2. AtHand(c)
    BY <1>1, <2>1 DEF CallKnows
  <2>3. CASE seat[c.s] \in {None, c.r}
    <3>1. JoinAs(c)
      BY <1>2, <2>3 DEF JoinFound
    <3> QED BY <2>1, <2>2, <2>3, <3>1, JoinAsSeats
  <2>4. CASE seat[c.s] \notin {None, c.r}
    <3>1. leaveCurrentRoom({c}, c.s, c.r, "join")
      BY <1>2, <2>4 DEF JoinFound
    <3>2. Idle /\ OneAtATime /\ c.s \in Sockets /\ conn[c.s] = "open"
      BY <2>1, <2>2 DEF Idle, OutOf, Into, OneAtATime, AtHand
    <3>3. \A d \in calls : d.at # "removed"
      BY <2>1
    <3> QED BY <2>4, <3>1, <3>2, <3>3, LeaveBeginsSeats
  <2> QED BY <2>3, <2>4
<1>3. CASE JoinResumed(c)
  <2>1. c.at = "join" /\ JoinAs(c)
    BY <1>3 DEF JoinResumed, At
  <2>2. AtHand(c) /\ seat[c.s] = None
    BY <1>1, <2>1 DEF CallKnows
  <2> QED BY <2>1, <2>2, JoinAsSeats
<1>4. CASE JoinAdded(c)
  <2>1. c.at = "join:added"
    BY <1>4 DEF JoinAdded, At
  <2>2. AtHand(c) /\ seat[c.s] \in {None, c.r} /\ (c.answer => c.p \in Online(c.r))
    BY <1>1, <2>1 DEF CallKnows
  <2>3. CASE c.answer
    <3>1. TakeSeat(c, "seated")
      BY <1>4, <2>3 DEF JoinAdded
    <3> QED BY <2>1, <2>2, <2>3, <3>1, TakeSeatSeats
  <2>4. CASE ~c.answer
    <3>1. Return({c}) /\ UNCHANGED <<store, conn, seat, joined, pendingLeaves, engines>>
      BY <1>4, <2>4 DEF JoinAdded
    <3>2. \A r, p : ~About(c, r, p)
      BY <2>1, <2>4 DEF About, OutOf
    <3> QED BY <2>1, <3>1, <3>2, EndsIdle
  <2> QED BY <2>3, <2>4
<1> QED
  BY <1>2, <1>3, <1>4

\* of room:get, once the room is found,
LEMMA GetFoundSeats ==
  ASSUME Whole, NEW c, calls = {c}, GetFound(c)
  PROVE  SeatsInv'
<1>1. /\ CallInv(c, store) /\ CallShape(c) /\ CallKnows(c) /\ c.p \in Players
      /\ c.at = "get:found" /\ c.r \in Rooms
  BY Resuming DEF GetFound, At, Entering
<1>2. AtHand(c) /\ c.s \in Sockets /\ conn[c.s] = "open" /\ Owner[c.s] = c.p
  BY <1>1 DEF CallKnows, AtHand
<1>3. \A r, p : ~About(c, r, p)
  BY <1>1 DEF About, OutOf, Into
<1>4. CASE c.p \notin Members(store, c.r)
  <2>1. Return({c}) /\ UNCHANGED <<store, conn, seat, joined, pendingLeaves, engines>>
    BY <1>4 DEF GetFound
  <2> QED BY <1>1, <1>3, <2>1, EndsIdle
<1>5. CASE c.p \in Members(store, c.r) /\ seat[c.s] = c.r
  <2>1. cancelPendingLeave(<<c.r, c.p>>) /\ Return({c}) /\ UNCHANGED <<store, conn, seat, joined, engines>>
    BY <1>5 DEF GetFound
  <2>2. ~OnTheWayOut(c.s)
    BY <1>1 DEF OnTheWayOut
  <2>3. c.s \in SocketsOf(c.p, c.r)
    BY <1>1, <1>2, <1>5, <2>2, InItsRoom, StoreAssumption DEF Whole, SeatsInv
  <2>4. Settled(c.r, c.p)
    BY <1>1, <1>3, AllSettled DEF Whole, SeatsInv
  <2>5. pendingLeaves' = pendingLeaves
    BY <2>1, <2>3, <2>4 DEF cancelPendingLeave, Settled
  <2> QED BY <1>1, <1>3, <2>1, <2>5, EndsIdle
<1>6. CASE c.p \in Members(store, c.r) /\ seat[c.s] = None
  <2>1. TakeSeat(c, "get:joined")
    BY <1>1, <1>6, StoreAssumption DEF GetFound
  <2> QED BY <1>1, <1>2, <1>6, <2>1, TakeSeatSeats
<1>7. CASE c.p \in Members(store, c.r) /\ seat[c.s] \notin {None, c.r}
  <2>1. leaveCurrentRoom({c}, c.s, c.r, "get")
    BY <1>7 DEF GetFound
  <2>2. Idle /\ OneAtATime /\ \A d \in calls : d.at # "removed"
    BY <1>1 DEF Idle, OutOf, Into, OneAtATime
  <2> QED BY <1>2, <1>7, <2>1, <2>2, LeaveBeginsSeats
<1> QED
  BY <1>4, <1>5, <1>6, <1>7

\* once the socket is in it,
LEMMA GetJoinedSeats ==
  ASSUME Whole, NEW c, calls = {c}, GetJoined(c)
  PROVE  SeatsInv'
<1>1. /\ CallInv(c, store) /\ CallShape(c) /\ CallKnows(c) /\ c.p \in Players
      /\ c.at = "get:joined" /\ c.r \in Rooms /\ StoreInv(store) /\ RoomsInv(store)
  BY Resuming DEF GetJoined, At, Entering
<1>2. AtHand(c) /\ seat[c.s] = c.r /\ c.p \in Members(store, c.r)
  BY <1>1 DEF CallKnows
<1>3. PICK d : calls' = {d} /\ Is(d, "seated", c.p, c.s, c.r, c.from, c.answer, c.then)
  <2>1. PICK d : /\ calls' = (calls \ {c}) \cup {d}
                 /\ Is(d, "seated", c.p, c.s, c.r, c.from, c.answer, c.then)
    BY <1>1, NextLabel DEF GetJoined
  <2>2. calls' = {d}
    BY <2>1
  <2> QED BY <2>1, <2>2
<1>4. /\ store' = setPlayerOnline(store, c.r, c.p, TRUE)
      /\ UNCHANGED <<conn, seat, joined, pendingLeaves, graceTimers, engines>>
  BY DEF GetJoined
<1>5. ShowsOnline(store, store', c.r, store.rooms[c.r].isOnline \cup {c.p})
  <2>1. ShowsOnline(store, setPlayerOnline(store, c.r, c.p, TRUE), c.r,
                    store.rooms[c.r].isOnline \cup {c.p})
    BY <1>1, <1>2, Shown, Zenon
  <2> QED BY <1>4, <2>1
<1>6. /\ \A q \in Rooms \ {c.r} : store'.rooms[q] = store.rooms[q]
      /\ store'.rooms[c.r].isOnline = store.rooms[c.r].isOnline \cup {c.p}
      /\ \A q \in Rooms : Members(store', q) = Members(store, q)
  BY <1>5 DEF ShowsOnline, Members
<1>7. SettledInv'
  <2>1. ASSUME NEW r \in Rooms, NEW p \in Players, r # c.r \/ p # c.p
        PROVE  Same(r, p)
    BY <1>4, <1>6, <2>1, SocketsKept DEF Same, Online
  <2>2. Unsettled(c.r, c.p)'
    BY <1>3 DEF Unsettled, About, Is, Into
  <2>3. \A r, p : About(c, r, p) => r = c.r /\ p = c.p
    BY <1>1 DEF About, OutOf
  <2> QED BY <2>1, <2>2, <2>3, Settles DEF Whole, SeatsInv
<1>8. TableInv'
  BY <1>1, <1>4, <1>6, TablesKept DEF Whole, SeatsInv
<1>9. CallKnows(d)'
  <2>1. AtHand(d)' /\ seat'[d.s] = d.r /\ (d.p \in Online(d.r))' /\ d.at = "seated"
    BY <1>2, <1>3, <1>4, <1>6 DEF Is, AtHand, Online
  <2> QED BY <2>1 DEF CallKnows
<1>10. \A q \in Sockets : OnTheWayOut(q)' <=> OnTheWayOut(q)
  BY <1>1, <1>3 DEF OnTheWayOut, Is
<1> QED
  BY <1>3, <1>4, <1>7, <1>8, <1>9, <1>10, Rest

\* and all of it.
LEMMA GetSeats ==
  ASSUME Whole, NEW c, calls = {c}, GetResumed(c) \/ Seated(c) \/ Done(c)
  PROVE  SeatsInv'
<1>1. CallInv(c, store) /\ CallShape(c) /\ CallKnows(c) /\ c.p \in Players
  BY Resuming
<1>2. CASE GetResumed(c)
  <2>1. c.at = "get" /\ TakeSeat(c, "get:joined")
    BY <1>2 DEF GetResumed, At
  <2>2. AtHand(c) /\ seat[c.s] = None /\ c.p \in Members(store, c.r)
    BY <1>1, <2>1 DEF CallKnows
  <2> QED BY <2>1, <2>2, TakeSeatSeats
<1>3. CASE Seated(c)
  <2>1. /\ c.at = "seated" /\ cancelPendingLeave(<<c.r, c.p>>) /\ Return({c})
        /\ UNCHANGED <<store, conn, seat, joined, engines>>
    BY <1>3 DEF Seated, At
  <2>2. AtHand(c) /\ seat[c.s] = c.r /\ c.p \in Online(c.r) /\ c.r \in Rooms
    BY <2>1, Resuming DEF CallKnows, Entering
  <2>3. ~OnTheWayOut(c.s)
    BY <2>1 DEF OnTheWayOut
  <2>4. c.s \in SocketsOf(c.p, c.r)
    BY <2>2, <2>3, InItsRoom, StoreAssumption DEF Whole, SeatsInv, AtHand
  <2>5. pendingLeaves' = pendingLeaves \ {<<c.r, c.p>>}
    BY <2>1 DEF cancelPendingLeave
  <2>6. Settled(c.r, c.p)'
    BY <2>1, <2>2, <2>4, <2>5, SocketsKept DEF Settled, Online
  <2>7. \A r, p : About(c, r, p) => r = c.r /\ p = c.p
    BY <2>1 DEF About, OutOf
  <2> QED BY <1>1, <2>1, <2>2, <2>5, <2>6, <2>7, EndsSettling
<1>4. CASE Done(c)
  <2>1. /\ c.at = "done" /\ Return({c})
        /\ UNCHANGED <<store, conn, seat, joined, pendingLeaves, engines>>
    BY <1>4 DEF Done, At
  <2>2. \A r, p : ~About(c, r, p)
    BY <2>1 DEF About, OutOf, Into
  <2> QED BY <2>1, <2>2, EndsIdle
<1> QED
  BY <1>2, <1>3, <1>4
-------------------------------------------------------------------------------
\* A game starts with the members of its room.
LEMMA StartSeats ==
  ASSUME Whole, NEW c, calls = {c}, StartFound(c) \/ startGameForRoom(c)
  PROVE  SeatsInv'
<1>1. /\ CallInv(c, store) /\ CallShape(c) /\ CallKnows(c)
      /\ c.at \in {"start:found", "start:again"} /\ c.r \in Rooms
  BY Resuming DEF StartFound, startGameForRoom, At, Entering
<1>2. \A r, p : ~About(c, r, p)
  BY <1>1 DEF About, OutOf, Into
<1>3. UNCHANGED <<store, conn, seat, joined, pendingLeaves, graceTimers>>
  BY DEF StartFound, startGameForRoom
<1>4. SettledInv'
  <2>1. \A r \in Rooms, p \in Players : Same(r, p)
    BY <1>3, SocketsKept, SameIf
  <2> QED BY <1>2, <2>1, NothingToSettle DEF Whole, SeatsInv
<1>5. CASE StartFound(c)
  <2>1. CASE Return({c})
    BY <1>1, <1>2, <1>3, <1>5, <2>1, EndsIdle DEF StartFound
  <2>2. CASE ~Return({c})
    <3>1. /\ Cardinality(Members(store, c.r)) >= MinPlayers
          /\ Await({c}, [c EXCEPT !.at = "start:again"])
          /\ UNCHANGED engines
      BY <1>5, <2>2 DEF StartFound
    <3>2. PICK d : /\ calls' = (calls \ {c}) \cup {d}
                   /\ Is(d, "start:again", c.p, c.s, c.r, c.from, c.answer, c.then)
      BY <1>1, <3>1, NextLabel
    <3>3. calls' = {d}
      BY <3>2
    <3>4. d.at = "start:again" /\ Cardinality(Members(store', d.r)) >= MinPlayers
      BY <1>3, <3>1, <3>2 DEF Is
    <3>5. CallKnows(d)'
      BY <3>4 DEF CallKnows
    <3>6. TableInv'
      BY <1>1, <1>3, <3>1, TablesKept DEF Whole, SeatsInv
    <3>7. \A q \in Sockets : OnTheWayOut(q)' <=> OnTheWayOut(q)
      BY <1>1, <3>3, <3>4 DEF OnTheWayOut
    <3> QED BY <1>3, <1>4, <3>3, <3>5, <3>6, <3>7, Rest
  <2> QED BY <2>1, <2>2
<1>6. CASE startGameForRoom(c)
  <2>1. c.at = "start:again" /\ calls' = {}
    BY <1>6 DEF startGameForRoom, At, Return
  <2>2. Cardinality(Members(store, c.r)) >= MinPlayers
    BY <1>1, <2>1 DEF CallKnows
  <2>3. \/ UNCHANGED engines
        \/ engines' = [engines EXCEPT ![c.r] = [status |-> "running", alive |-> Members(store, c.r)]]
    BY <1>6, <2>2 DEF startGameForRoom
  <2>4. \A r \in Rooms : Leavers(r) = {}
    BY <1>1 DEF Leavers
  <2>5. \A r \in Rooms : Members(store', r) = Members(store, r)
    BY <1>3
  <2>6. ASSUME NEW r \in Rooms
        PROVE  /\ engines'[r].status # "lobby"
               /\ engines'[r].status = "running" => engines'[r].alive \subseteq Members(store', r)
    <3>1. /\ engines[r].status # "lobby"
          /\ engines[r].status = "running" => engines[r].alive \subseteq Members(store, r)
      BY <2>4 DEF TableInv, Whole, SeatsInv
    <3>2. CASE UNCHANGED engines
      BY <2>5, <3>1, <3>2
    <3>3. CASE engines' = [engines EXCEPT ![c.r] = [status |-> "running", alive |-> Members(store, c.r)]]
      <4>1. engines = [q \in Rooms |-> engines[q]]
        BY DEF Whole, IInv, EngineInv
      <4>2. CASE r = c.r
        <5>1. engines'[r] = [status |-> "running", alive |-> Members(store, c.r)]
          BY <3>3, <4>1, <4>2
        <5> QED BY <2>5, <4>2, <5>1
      <4>3. CASE r # c.r
        <5>1. engines'[r] = engines[r]
          BY <3>3, <4>1, <4>3
        <5> QED BY <2>5, <3>1, <5>1
      <4> QED BY <4>2, <4>3
    <3> QED BY <2>3, <3>2, <3>3
  <2>7. TableInv'
    BY <2>6 DEF TableInv
  <2>8. \A q \in Sockets : OnTheWayOut(q)' <=> OnTheWayOut(q)
    BY <1>1, <2>1 DEF OnTheWayOut
  <2> QED BY <1>3, <1>4, <2>1, <2>7, <2>8, Rest
<1> QED
  BY <1>5, <1>6

\* The member is shown offline, unless another tab keeps the place.
LEMMA LostCountedSeats ==
  ASSUME Whole, NEW c, calls = {c}, LostCounted(c)
  PROVE  SeatsInv'
<1>1. /\ CallInv(c, store) /\ CallShape(c) /\ CallKnows(c) /\ c.p \in Players
      /\ c.at = "lost" /\ c.from \in Rooms /\ StoreInv(store) /\ RoomsInv(store)
  BY Resuming DEF LostCounted, At, Leaving
<1>2. /\ c.p \in Online(c.from) /\ <<c.from, c.p>> \notin pendingLeaves
      /\ c.answer <=> SocketsOf(c.p, c.from) = {}
  BY <1>1 DEF CallKnows
<1>3. UNCHANGED <<conn, seat, joined, pendingLeaves, graceTimers, engines>>
  BY DEF LostCounted
<1>4. c.p \in Members(store, c.from)
  BY <1>1, <1>2, OnlineAreMembers DEF Online
<1>5. \A r, p : About(c, r, p) => r = c.from /\ p = c.p
  BY <1>1 DEF About, Into
<1>6. CASE ~c.answer
  <2>1. Return({c}) /\ UNCHANGED store
    BY <1>6 DEF LostCounted
  <2>2. Settled(c.from, c.p)
    BY <1>2, <1>6 DEF Settled
  <2>3. Settled(c.from, c.p)'
    BY <1>1, <1>3, <2>1, <2>2, SocketsKept, SameIf, StaysSettled
  <2>4. \A k : k \in pendingLeaves' <=> k \in pendingLeaves
    BY <1>3
  <2> QED BY <1>1, <1>3, <1>5, <2>1, <2>3, <2>4, EndsSettling
<1>7. CASE c.answer
  <2>1. store' = setPlayerOnline(store, c.from, c.p, FALSE)
        /\ Await({c}, [c EXCEPT !.at = "lost:marked"])
    BY <1>7 DEF LostCounted
  <2>2. PICK d : calls' = {d} /\ Is(d, "lost:marked", c.p, c.s, c.r, c.from, c.answer, c.then)
    <3>1. PICK d : /\ calls' = (calls \ {c}) \cup {d}
                   /\ Is(d, "lost:marked", c.p, c.s, c.r, c.from, c.answer, c.then)
      BY <1>1, <2>1, NextLabel
    <3>2. calls' = {d}
      BY <3>1
    <3> QED BY <3>1, <3>2
  <2>3. ShowsOnline(store, store', c.from, store.rooms[c.from].isOnline \ {c.p})
    <3>1. ShowsOnline(store, setPlayerOnline(store, c.from, c.p, FALSE), c.from,
                      store.rooms[c.from].isOnline \ {c.p})
      BY <1>1, <1>4, Hidden, Zenon
    <3> QED BY <2>1, <3>1
  <2>4. /\ \A q \in Rooms \ {c.from} : store'.rooms[q] = store.rooms[q]
        /\ store'.rooms[c.from].isOnline = store.rooms[c.from].isOnline \ {c.p}
        /\ \A q \in Rooms : Members(store', q) = Members(store, q)
    BY <2>3 DEF ShowsOnline, Members
  <2>5. SettledInv'
    <3>1. ASSUME NEW r \in Rooms, NEW p \in Players, r # c.from \/ p # c.p
          PROVE  Same(r, p)
      BY <1>3, <2>4, <3>1, SocketsKept DEF Same, Online
    <3>2. Unsettled(c.from, c.p)'
      BY <2>2 DEF Unsettled, About, Is, OutOf
    <3> QED BY <1>5, <3>1, <3>2, Settles DEF Whole, SeatsInv
  <2>6. TableInv'
    BY <1>1, <1>3, <2>4, TablesKept DEF Whole, SeatsInv
  <2>7. CallKnows(d)'
    <3>1. Absent(c.from, c.p)'
      BY <1>1, <1>2, <1>3, <1>4, <1>7, <2>4, SocketsKept DEF Absent, Online
    <3>2. Absent(d.from, d.p)' /\ d.at = "lost:marked"
      BY <2>2, <3>1 DEF Is
    <3> QED BY <3>2 DEF CallKnows
  <2>8. \A q \in Sockets : OnTheWayOut(q)' <=> OnTheWayOut(q)
    BY <1>1, <2>2 DEF OnTheWayOut, Is
  <2> QED BY <1>3, <2>2, <2>5, <2>6, <2>7, <2>8, Rest
<1> QED
  BY <1>6, <1>7

\* The grace timer is armed.
LEMMA LostMarkedSeats ==
  ASSUME Whole, NEW c, calls = {c}, LostMarked(c)
  PROVE  SeatsInv'
<1>1. /\ CallInv(c, store) /\ CallKnows(c) /\ c.p \in Players
      /\ c.at = "lost:marked" /\ c.from \in Rooms
  BY Resuming DEF LostMarked, At, Leaving
<1>2. Absent(c.from, c.p)
  BY <1>1 DEF CallKnows
<1>3. /\ Return({c}) /\ UNCHANGED <<store, conn, seat, joined, engines>>
      /\ pendingLeaves' = pendingLeaves \cup {<<c.from, c.p>>}
  BY DEF LostMarked, Schedule
<1>4. Settled(c.from, c.p)'
  BY <1>2, <1>3, SocketsKept DEF Settled, Absent, Online
<1>5. \A r, p : About(c, r, p) => r = c.from /\ p = c.p
  BY <1>1 DEF About, Into
<1> QED
  BY <1>1, <1>3, <1>4, <1>5, EndsSettling

\* The grace period is over, and the player still gone.
LEMMA GoneSeats ==
  ASSUME Whole, NEW c, calls = {c}, GoneCounted(c) \/ GoneFound(c)
  PROVE  SeatsInv'
<1>1. /\ CallInv(c, store) /\ CallShape(c) /\ CallKnows(c) /\ c.p \in Players
      /\ c.at \in {"gone", "gone:found"} /\ c.from \in Rooms
  BY Resuming DEF GoneCounted, GoneFound, At, Leaving
<1>2. /\ c.answer /\ c.then = "done" /\ Absent(c.from, c.p)
      /\ <<c.from, c.p>> \notin pendingLeaves
  BY <1>1 DEF CallKnows
<1>3. UNCHANGED <<conn, seat, joined, pendingLeaves, graceTimers, engines>>
  BY DEF GoneCounted, GoneFound
<1>4. CASE GoneCounted(c)
  <2>1. Exists(store, c.from)
    BY <1>2, NobodyInNoRoom DEF Absent
  <2>2. Await({c}, [c EXCEPT !.at = "gone:found"]) /\ UNCHANGED store
    BY <1>2, <1>4, <2>1 DEF GoneCounted
  <2>3. PICK d : calls' = {d} /\ Is(d, "gone:found", c.p, c.s, c.r, c.from, c.answer, c.then)
    <3>1. PICK d : /\ calls' = (calls \ {c}) \cup {d}
                   /\ Is(d, "gone:found", c.p, c.s, c.r, c.from, c.answer, c.then)
      BY <1>1, <2>2, NextLabel
    <3>2. calls' = {d}
      BY <3>1
    <3> QED BY <3>1, <3>2
  <2>4. SettledInv'
    <3>1. \A r \in Rooms, p \in Players : Same(r, p)
      BY <1>3, <2>2, SocketsKept, SameIf
    <3>2. Unsettled(c.from, c.p)'
      BY <2>3 DEF Unsettled, About, Is, OutOf
    <3>3. \A r, p : About(c, r, p) => r = c.from /\ p = c.p
      BY <1>1 DEF About, Into
    <3> QED BY <3>1, <3>2, <3>3, Settles DEF Whole, SeatsInv
  <2>5. TableInv'
    BY <1>1, <1>3, <2>2, TablesKept DEF Whole, SeatsInv
  <2>6. CallKnows(d)'
    <3>1. Absent(d.from, d.p)'
      BY <1>2, <1>3, <2>2, <2>3, SocketsKept DEF Is, Absent, Online
    <3>2. d.at = "gone:found" /\ d.answer /\ d.then = "done" /\ <<d.from, d.p>> \notin pendingLeaves'
      BY <1>2, <1>3, <2>3 DEF Is
    <3> QED BY <3>1, <3>2 DEF CallKnows
  <2>7. \A q \in Sockets : OnTheWayOut(q)' <=> OnTheWayOut(q)
    BY <1>1, <2>3 DEF OnTheWayOut, Is
  <2> QED BY <1>3, <2>3, <2>4, <2>5, <2>6, <2>7, Rest
<1>5. CASE GoneFound(c)
  <2>1. c.at = "gone:found" /\ RemovePlayer(c)
    BY <1>2, <1>5 DEF GoneFound, At, Absent
  <2> QED BY <1>2, <1>3, <2>1, RemoveSeats DEF Absent
<1> QED
  BY <1>4, <1>5
-------------------------------------------------------------------------------
\* Between two events everything is settled.
LEMMA NoCalls ==
  ASSUME Whole, calls = {}
  PROVE  /\ Idle /\ OneAtATime /\ \A c \in calls : c.at # "removed" /\ c.at # "left"
         /\ \A c \in calls, r \in Rooms, p \in Players : ~About(c, r, p)
         /\ \A r \in Rooms, p \in Players : Settled(r, p)
         /\ \A s : ~OnTheWayOut(s)
         /\ \A r : Leavers(r) = {}
BY DEF Idle, OneAtATime, SeatsInv, SettledInv, Unsettled, Whole, OnTheWayOut, Leavers

\* A connection is made: its socket sits nowhere.
LEMMA ConnectSeats ==
  ASSUME Whole, calls = {}, NEW s \in Sockets, Connect(s)
  PROVE  SeatsInv'
<1>1. /\ conn[s] = "new" /\ conn' = [conn EXCEPT ![s] = "open"]
      /\ UNCHANGED <<store, seat, joined, pendingLeaves, graceTimers, engines, calls>>
  BY DEF Connect
<1>2. conn'[s] = "open" /\ \A q \in Sockets \ {s} : conn'[q] = conn[q]
  BY <1>1 DEF Whole, TypedInv, SocketsTyped
<1>3. seat[s] = None
  BY <1>1 DEF Whole, SeatsInv, ConnInv
<1>4. ConnInv'
  <2>1. {q \in Sockets : conn'[q] = "open"} = {q \in Sockets : conn[q] = "open"} \cup {s}
    BY <1>2
  <2>2. IsFiniteSet({q \in Sockets : conn[q] = "open"})
    BY DEF Whole, SeatsInv, ConnInv
  <2>3. IsFiniteSet({q \in Sockets : conn'[q] = "open"})
    BY <2>1, <2>2, FS_AddElement
  <2>4. \A q \in Sockets : conn'[q] = "new" => seat'[q] = None
    BY <1>1, <1>2 DEF Whole, SeatsInv, ConnInv
  <2> QED BY <2>3, <2>4 DEF ConnInv
<1>5. JoinedInv'
  <2>1. \A q \in Sockets : ~OnTheWayOut(q) /\ ~OnTheWayOut(q)'
    BY <1>1 DEF OnTheWayOut
  <2>2. \A q \in Sockets : joined[q] = IF conn[q] = "open" THEN {seat[q]} \ {None} ELSE {}
    BY <2>1 DEF JoinedInv, Whole, SeatsInv
  <2>3. \A q \in Sockets : joined[q] = IF conn'[q] = "open" THEN {seat[q]} \ {None} ELSE {}
    BY <1>1, <1>2, <1>3, <2>2
  <2>4. joined = [q \in Sockets |-> joined[q]]
    BY DEF JoinedInv, Whole, SeatsInv
  <2> QED BY <1>1, <2>1, <2>3, <2>4 DEF JoinedInv
<1>6. SettledInv'
  <2>1. \A r \in Rooms, p \in Players : Same(r, p)
    BY <1>1, SocketsKept, SameIf
  <2> QED BY <2>1, NoCalls, NothingToSettle DEF Whole, SeatsInv
<1>7. TableInv'
  BY <1>1, TablesKept DEF Whole, SeatsInv
<1> QED
  BY <1>1, <1>4, <1>5, <1>6, <1>7 DEF SeatsInv, OneAtATime

\* A connection is lost, and its socket is out of its Socket.IO room.
LEMMA DisconnectSeats ==
  ASSUME Whole, calls = {}, NEW s \in Sockets, Disconnect(s)
  PROVE  SeatsInv'
<1>1. /\ conn[s] = "open" /\ conn' = [conn EXCEPT ![s] = "closed"]
      /\ joined' = [joined EXCEPT ![s] = {}]
      /\ UNCHANGED <<store, seat, pendingLeaves, graceTimers, engines>>
  BY DEF Disconnect
<1>2. conn'[s] = "closed" /\ \A q \in Sockets \ {s} : conn'[q] = conn[q]
  BY <1>1 DEF Whole, TypedInv, SocketsTyped
<1>3. \A q \in Sockets : joined[q] = IF conn[q] = "open" THEN {seat[q]} \ {None} ELSE {}
  BY NoCalls DEF JoinedInv, Whole, SeatsInv
<1>4. joined' = [q \in Sockets |-> IF q = s THEN {} ELSE joined[q]]
  BY <1>1 DEF Whole, TypedInv, SocketsTyped
<1>5. ConnInv'
  <2>1. {q \in Sockets : conn'[q] = "open"} \subseteq {q \in Sockets : conn[q] = "open"}
    BY <1>2
  <2>2. IsFiniteSet({q \in Sockets : conn'[q] = "open"})
    BY <2>1, FS_Subset DEF Whole, SeatsInv, ConnInv
  <2>3. \A q \in Sockets : conn'[q] = "new" => seat'[q] = None
    BY <1>1, <1>2 DEF Whole, SeatsInv, ConnInv
  <2> QED BY <2>2, <2>3 DEF ConnInv
<1>6. ASSUME \A q : ~OnTheWayOut(q)' PROVE JoinedInv'
  <2>1. \A q \in Sockets : joined'[q] = IF conn'[q] = "open" THEN {seat'[q]} \ {None} ELSE {}
    BY <1>1, <1>2, <1>3, <1>4
  <2> QED BY <1>4, <1>6, <2>1 DEF JoinedInv
<1>7. TableInv'
  BY <1>1, TablesKept DEF Whole, SeatsInv
<1>8. CASE seat[s] = None
  <2>1. calls' = {}
    BY <1>8 DEF Disconnect, Return
  <2>2. joined'= joined
    BY <1>1, <1>3, <1>4, <1>8 DEF Whole, TypedInv, SocketsTyped
  <2>3. SettledInv'
    <3>1. \A r \in Rooms, p \in Players : Same(r, p)
      BY <1>1, <2>2, SocketsKept, SameIf
    <3> QED BY <3>1, NoCalls, NothingToSettle DEF Whole, SeatsInv
  <2>4. JoinedInv'
    BY <1>6, <2>1 DEF OnTheWayOut
  <2> QED BY <1>5, <1>7, <2>1, <2>3, <2>4 DEF SeatsInv, OneAtATime
<1>9. CASE seat[s] # None
  <2>1. PICK room \in Rooms, p \in Players : room = seat[s] /\ p = Owner[s]
    BY <1>9, SessionsAssumption DEF Whole, IInv, SeatInv, StoreInv
  <2> DEFINE v == SocketsOf(Owner[s], seat[s]) \ {s} = {}
  <2>2. PICK d : calls' = {d} /\ Is(d, "lost", p, s, None, room, v, "done")
    <3>1. PICK d : calls' = calls \cup {d} /\ Is(d, "lost", Owner[s], s, None, seat[s], v, "done")
      BY <1>9, FirstAnswer DEF Disconnect
    <3>2. calls' = {d}
      BY <3>1
    <3> QED BY <2>1, <3>1, <3>2
  <2>3. v <=> SocketsOf(p, room) \ {s} = {}
    BY <2>1
  <2> HIDE DEF v
  <2>4. joined[s] = {room} /\ s \in SocketsOf(p, room)
    BY <1>1, <1>3, <2>1, StoreAssumption DEF SocketsOf
  <2>5. joined' = [joined EXCEPT ![s] = @ \ {room}]
    BY <1>1, <2>4 DEF Whole, TypedInv, SocketsTyped
  <2>6. /\ \A r, x : r # room \/ x # p => SocketsOf(x, r)' = SocketsOf(x, r)
        /\ SocketsOf(p, room)' = SocketsOf(p, room) \ {s}
    <3>1. /\ \A r, x : r # room \/ x # Owner[s] => SocketsOf(x, r)' = SocketsOf(x, r)
          /\ SocketsOf(Owner[s], room)' = SocketsOf(Owner[s], room) \ {s}
      BY <2>5, SocketLeaves DEF Whole, TypedInv
    <3> QED BY <2>1, <3>1
  <2>7. p \in Online(room) /\ <<room, p>> \notin pendingLeaves
    BY <2>4, NoCalls DEF Settled
  <2>8. SettledInv'
    <3>1. \A r \in Rooms, x \in Players : r # room \/ x # p => Same(r, x)
      BY <1>1, <2>6, SameIf
    <3>2. Unsettled(room, p)'
      BY <2>2 DEF Unsettled, About, Is, OutOf
    <3> QED BY <3>1, <3>2, NoCalls, Settles DEF Whole, SeatsInv
  <2>9. CallKnows(d)'
    <3>1. /\ d.at = "lost" /\ (d.p \in Online(d.from))' /\ <<d.from, d.p>> \notin pendingLeaves'
          /\ d.answer <=> SocketsOf(d.p, d.from)' = {}
      BY <1>1, <2>2, <2>3, <2>6, <2>7 DEF Is, Online
    <3> QED BY <3>1 DEF CallKnows
  <2>10. JoinedInv'
    BY <1>6, <2>2 DEF OnTheWayOut, Is
  <2> QED BY <1>5, <1>7, <2>2, <2>8, <2>9, <2>10 DEF SeatsInv, OneAtATime
<1> QED
  BY <1>8, <1>9

\* A request is received.
LEMMA RequestSeats ==
  ASSUME Whole, calls = {}, NEW s \in Sockets, Receive(s)
  PROVE  SeatsInv'
<1>1. conn[s] = "open" /\ (seat[s] # None => seat[s] \in Rooms)
  BY DEF Receive, RoomCreate, RoomLeave, ChatSend, GameStart, RoomJoin, RoomGet,
         Whole, IInv, SeatInv, StoreInv
<1>2. ASSUME NEW at \in {"join:found", "get:found", "start:found"}, NEW r,
             Await({}, Call(at, Owner[s], s, r)),
             UNCHANGED <<store, conn, seat, joined, pendingLeaves, graceTimers, engines>>
      PROVE  SeatsInv'
  <2>1. PICK d : calls' = (calls \ {}) \cup {d} /\ Is(d, at, Owner[s], s, r, None, FALSE, "done")
    BY <1>2, FirstLabel
  <2>2. calls' = {d}
    BY <2>1
  <2>3. AtHand(d) /\ d.at = at
    BY <1>1, <2>1 DEF AtHand, Is
  <2> QED BY <1>2, <2>2, <2>3, Begins
<1>3. CASE RoomCreate(s)
  <2>1. CASE seat[s] = None
    BY <1>1, <1>3, <2>1, NoCalls, CreateInSeats DEF RoomCreate
  <2>2. CASE seat[s] # None
    BY <1>1, <1>3, <2>2, NoCalls, LeaveBeginsSeats DEF RoomCreate
  <2> QED BY <2>1, <2>2
<1>4. CASE RoomLeave(s)
  BY <1>1, <1>4, NoCalls, LeaveBeginsSeats DEF RoomLeave
<1>5. CASE ChatSend(s)
  <2>1. /\ store' = addChatMessage(store, seat[s]) /\ seat[s] \in Rooms
        /\ UNCHANGED <<conn, seat, joined, pendingLeaves, graceTimers, engines, calls>>
    BY <1>1, <1>5 DEF ChatSend
  <2>2. \A q \in Rooms : /\ store'.rooms[q].isOnline = store.rooms[q].isOnline
                         /\ Members(store', q) = Members(store, q)
    BY <2>1, Chatted DEF Members, Whole, IInv
  <2>3. SettledInv'
    <3>1. \A r \in Rooms, p \in Players : Same(r, p)
      BY <2>1, <2>2, SocketsKept DEF Same, Online
    <3> QED BY <3>1, NoCalls, NothingToSettle DEF Whole, SeatsInv
  <2>4. TableInv'
    BY <2>1, <2>2, TablesKept DEF Whole, SeatsInv
  <2> QED BY <2>1, <2>3, <2>4, Rest DEF OnTheWayOut
<1>6. CASE GameStart(s)
  BY <1>2, <1>6 DEF GameStart
<1>7. ASSUME NEW code \in Codes, RoomJoin(s, code) PROVE SeatsInv'
  BY <1>2, <1>7 DEF RoomJoin
<1>8. ASSUME NEW r \in Rooms, RoomGet(s, r) PROVE SeatsInv'
  BY <1>2, <1>8 DEF RoomGet
<1> QED
  BY <1>3, <1>4, <1>5, <1>6, <1>7, <1>8 DEF Receive

\* A grace timer fires: the player is away, and there is no timer any more.
LEMMA GraceTimeoutSeats ==
  ASSUME Whole, calls = {}, NEW k \in Keys, GraceTimeout(k)
  PROVE  SeatsInv'
<1>1. PICK r \in Rooms, p \in Players : r = k[1] /\ p = k[2] /\ k = <<r, p>>
  BY DEF Keys
<1>2. /\ pendingLeaves' = pendingLeaves \ {k} /\ k \in pendingLeaves
      /\ UNCHANGED <<store, conn, seat, joined, engines>>
  BY TimerFired DEF GraceTimeout, Whole, IInv
<1>3. Absent(r, p)
  BY <1>1, <1>2, NoCalls DEF Settled, Absent
<1> DEFINE v == countOtherUserSockets(k[1], k[2]) = 0
<1>4. PICK d : calls' = {d} /\ Is(d, "gone", p, None, None, r, v, "done")
  <2>1. PICK d : calls' = calls \cup {d} /\ Is(d, "gone", k[2], None, None, k[1], v, "done")
    BY FirstAnswer DEF GraceTimeout
  <2>2. calls' = {d}
    BY <2>1
  <2> QED BY <1>1, <2>1, <2>2
<1>5. v
  BY <1>1, <1>3, NoneCounted DEF Absent, Whole, SeatsInv
<1> HIDE DEF v
<1>6. SettledInv'
  <2>1. ASSUME NEW q \in Rooms, NEW x \in Players, q # r \/ x # p
        PROVE  Same(q, x)
    <3>1. <<q, x>> # k
      BY <1>1, <2>1
    <3>2. <<q, x>> \in pendingLeaves' <=> <<q, x>> \in pendingLeaves
      BY <1>2, <3>1
    <3> QED BY <1>2, <3>2, SocketsKept, SameIf
  <2>2. Unsettled(r, p)'
    BY <1>4 DEF Unsettled, About, Is, OutOf
  <2> QED BY <2>1, <2>2, NoCalls, Settles DEF Whole, SeatsInv
<1>7. TableInv'
  BY <1>2, TablesKept DEF Whole, SeatsInv
<1>8. CallKnows(d)'
  <2>1. Absent(d.from, d.p)'
    BY <1>2, <1>3, <1>4, SocketsKept DEF Is, Absent, Online
  <2>2. d.at = "gone" /\ d.answer /\ d.then = "done" /\ <<d.from, d.p>> \notin pendingLeaves'
    BY <1>1, <1>2, <1>4, <1>5 DEF Is
  <2> QED BY <2>1, <2>2 DEF CallKnows
<1>9. \A q \in Sockets : OnTheWayOut(q)' <=> OnTheWayOut(q)
  BY <1>4 DEF OnTheWayOut, Is
<1> QED
  BY <1>2, <1>4, <1>6, <1>7, <1>8, <1>9, Rest

\* The game kills somebody or ends.
LEMMA GameGoesOnSeats ==
  ASSUME Whole, calls = {}, NEW r \in Rooms, GameGoesOn(r)
  PROVE  SeatsInv'
<1>1. PICK S \in SUBSET engines[r].alive, st \in {"running", "ended"} :
        engines' = [engines EXCEPT ![r] = [status |-> st, alive |-> S]]
  BY DEF GameGoesOn
<1>2. /\ engines[r].status = "running"
      /\ UNCHANGED <<store, conn, seat, joined, pendingLeaves, graceTimers, calls>>
  BY DEF GameGoesOn
<1>3. /\ engines'[r] = [status |-> st, alive |-> S]
      /\ \A q \in Rooms \ {r} : engines'[q] = engines[q]
  BY <1>1 DEF Whole, IInv, EngineInv
<1>4. TableInv'
  <2>1. \A q \in Rooms : engines[q].status = "running" => engines[q].alive \subseteq Members(store, q)
    BY NoCalls DEF TableInv, Whole, SeatsInv
  <2>2. \A q \in Rooms : engines'[q].status = "running" => engines'[q].alive \subseteq Members(store', q)
    BY <1>2, <1>3, <2>1
  <2>3. \A q \in Rooms : engines'[q].status # "lobby"
    BY <1>3 DEF TableInv, Whole, SeatsInv
  <2> QED BY <2>2, <2>3 DEF TableInv
<1>5. SettledInv'
  <2>1. \A q \in Rooms, p \in Players : Same(q, p)
    BY <1>2, SocketsKept, SameIf
  <2> QED BY <2>1, NoCalls, NothingToSettle DEF Whole, SeatsInv
<1> QED
  BY <1>2, <1>4, <1>5, Rest DEF OnTheWayOut

\* Every step keeps the records of who is where in step.
LEMMA SeatsStep ==
  ASSUME ~Interleaved, Whole, [Next]_vars
  PROVE  SeatsInv'
<1>1. ASSUME NEW c \in calls, Resume(c) PROVE SeatsInv'
  <2>1. calls = {c}
    BY Alone DEF Whole, SeatsInv
  <2> QED
    BY <1>1, <2>1, LeftChannelSeats, LeftCountedSeats, LeftRemovedSeats, CreateSeats, JoinSeats,
       GetFoundSeats, GetJoinedSeats, GetSeats, StartSeats, LostCountedSeats, LostMarkedSeats,
       GoneSeats DEF Resume
<1>2. ASSUME CanBegin PROVE calls = {}
  BY <1>2, Alone DEF Whole, SeatsInv
<1>3. ASSUME NEW s \in Sockets, Connect(s) \/ Disconnect(s) \/ Receive(s) PROVE SeatsInv'
  <2>1. CanBegin
    BY <1>3 DEF Connect, Disconnect, Receive, RoomCreate, RoomLeave, ChatSend, GameStart, RoomJoin, RoomGet
  <2> QED BY <1>2, <1>3, <2>1, ConnectSeats, DisconnectSeats, RequestSeats
<1>4. ASSUME NEW k \in Keys, GraceTimeout(k) PROVE SeatsInv'
  <2>1. CanBegin
    BY <1>4 DEF GraceTimeout
  <2> QED BY <1>2, <1>4, <2>1, GraceTimeoutSeats
<1>5. ASSUME NEW r \in Rooms, GameGoesOn(r) PROVE SeatsInv'
  <2>1. CanBegin
    BY <1>5 DEF GameGoesOn
  <2> QED BY <1>2, <1>5, <2>1, GameGoesOnSeats
<1>6. CASE UNCHANGED vars
  <2>1. UNCHANGED <<store, conn, seat, joined, pendingLeaves, graceTimers, engines, calls>>
    BY <1>6 DEF vars
  <2>2. OneAtATime' /\ ConnInv' /\ JoinedInv'
    BY <2>1 DEF OneAtATime, ConnInv, JoinedInv, OnTheWayOut, Whole, SeatsInv
  <2>3. SettledInv' /\ TableInv'
    BY <2>1 DEF SettledInv, TableInv, Settled, Unsettled, Online, SocketsOf, Leavers, Whole, SeatsInv
  <2>4. \A c \in calls' : CallKnows(c)'
    <3>1. /\ \A c : AtHand(c)' <=> AtHand(c)
          /\ \A r : Online(r)' = Online(r)
          /\ \A r, p : SocketsOf(p, r)' = SocketsOf(p, r)
      BY <2>1 DEF AtHand, Online, SocketsOf
    <3>2. \A r, p : Absent(r, p)' <=> Absent(r, p)
      BY <2>1, <3>1 DEF Absent
    <3>3. ASSUME NEW c \in calls, CallKnows(c) PROVE CallKnows(c)'
      BY <2>1, <3>1, <3>2, <3>3 DEF CallKnows
    <3> QED BY <2>1, <3>3 DEF Whole, SeatsInv
  <2> QED BY <2>2, <2>3, <2>4 DEF SeatsInv
<1> QED
  BY <1>1, <1>3, <1>4, <1>5, <1>6 DEF Next

\* Nobody is anywhere at first.
LEMMA SeatsInit == Init => SeatsInv
<1> SUFFICES ASSUME Init PROVE SeatsInv
  OBVIOUS
<1>1. /\ store = NoRooms /\ conn = [s \in Sockets |-> "new"] /\ seat = [s \in Sockets |-> None]
      /\ joined = [s \in Sockets |-> {}] /\ pendingLeaves = {} /\ calls = {}
      /\ engines = [r \in Rooms |-> NoEngine]
  BY DEF Init
<1>2. ConnInv
  <2>1. {s \in Sockets : conn[s] = "open"} = {}
    BY <1>1
  <2> QED BY <1>1, <2>1, FS_EmptySet DEF ConnInv
<1>3. JoinedInv /\ OneAtATime
  BY <1>1 DEF JoinedInv, OneAtATime
<1>4. SettledInv
  <2>1. ASSUME NEW r \in Rooms, NEW p \in Players PROVE Settled(r, p)
    <3>1. ~Exists(store, r)
      BY <1>1 DEF NoRooms, Exists, getById
    <3>2. Members(store, r) = {} /\ Online(r) = {}
      BY <3>1, NobodyInNoRoom DEF Online
    <3>3. SocketsOf(p, r) = {}
      BY <1>1 DEF SocketsOf
    <3> QED BY <1>1, <3>2, <3>3 DEF Settled
  <2> QED BY <2>1 DEF SettledInv
<1>5. TableInv
  BY <1>1 DEF TableInv, NoEngine
<1> QED
  BY <1>1, <1>2, <1>3, <1>4, <1>5 DEF SeatsInv

\* Without interleaving the records are in step in every reachable state.
LEMMA SeatsInvariance ==
  ASSUME ~Interleaved
  PROVE  Spec => []Whole
<1>1. Init => Whole
  <2>1. Init => IInv /\ RoomsInv(store) /\ TypedInv
    BY InitInv, NoRoomsYet DEF Init, TypedInv, SocketsTyped, GamesTyped, NoEngine
  <2> QED BY <2>1, SeatsInit DEF Whole
<1>2. Whole /\ [Next]_vars => Whole'
  <2> SUFFICES ASSUME Whole, [Next]_vars PROVE Whole'
    OBVIOUS
  <2>1. SocketsTyped' /\ GamesTyped' /\ \A c \in calls' : CallTyped(c)
    BY SocketsStep, GamesTypedStep, CallsTypedStep DEF TypedInv, Whole
  <2>2. IInv' /\ RoomsInv(store')
    BY StepInv, StoreSteps, RoomsStep DEF Whole
  <2>3. SeatsInv'
    BY SeatsStep
  <2> QED BY <2>1, <2>2, <2>3 DEF Whole, TypedInv
<1> QED
  BY <1>1, <1>2, PTL DEF Spec

\* Between two events the seat of a socket, the Socket.IO room it is in and the members
\* shown online tell the same, whatever tabs came and went and in whatever order
\* (handlers.ts: join, get, leave, disconnect), for any number of players and tabs.
THEOREM SeatsStayTrue ==
  ASSUME ~Interleaved
  PROVE  Spec => []SeatsAgree
<1>1. Whole => SeatsAgree
  <2> SUFFICES ASSUME Whole, calls = {}
               PROVE  /\ \A s \in Sockets : joined[s] = IF conn[s] = "open" THEN {seat[s]} \ {None} ELSE {}
                      /\ \A r \in Rooms :
                           store.rooms[r].isOnline = {p \in Players : SocketsOf(p, r) # {}}
    BY DEF SeatsAgree
  <2>1. \A s \in Sockets : joined[s] = IF conn[s] = "open" THEN {seat[s]} \ {None} ELSE {}
    BY NoCalls DEF JoinedInv, Whole, SeatsInv
  <2>2. ASSUME NEW r \in Rooms
        PROVE  store.rooms[r].isOnline = {p \in Players : SocketsOf(p, r) # {}}
    <3>1. \A p \in Players : p \in Online(r) <=> SocketsOf(p, r) # {}
      BY NoCalls DEF Settled
    <3>2. Online(r) \subseteq Players
      <4>1. CASE ~Exists(store, r)
        BY <4>1, NobodyInNoRoom DEF Online
      <4>2. CASE Exists(store, r)
        <5>1. RoomInv(store.rooms[r])
          BY <4>2 DEF Whole, RoomsInv
        <5>2. ToSet(store.rooms[r].players) \subseteq Players
          BY <5>1, LenProperties, ElementOfSeq DEF ToSet, RoomInv, Listed
        <5> QED BY <5>1, <5>2 DEF RoomInv, Online
      <4> QED BY <4>1, <4>2
    <3> QED BY <3>1, <3>2 DEF Online
  <2> QED BY <2>1, <2>2
<1> QED
  BY <1>1, SeatsInvariance, PTL

\* Between two events exactly the members without a socket have a grace timer, one each:
\* no reconnection leaves a timer behind and no loss goes without one.
THEOREM GraceStaysTrue ==
  ASSUME ~Interleaved
  PROVE  Spec => []GraceIffAway
<1>1. Whole => GraceIffAway
  <2> SUFFICES ASSUME Whole, calls = {}, NEW r \in Rooms, NEW p \in Players
               PROVE  LET away == p \in Members(store, r) /\ SocketsOf(p, r) = {}
                      IN  /\ graceTimers[<<r, p>>] = IF away THEN 1 ELSE 0
                          /\ <<r, p>> \in pendingLeaves <=> away
    BY DEF GraceIffAway
  <2>1. <<r, p>> \in pendingLeaves <=> p \in Members(store, r) /\ SocketsOf(p, r) = {}
    BY NoCalls DEF Settled
  <2>2. graceTimers[<<r, p>>] = IF <<r, p>> \in pendingLeaves THEN 1 ELSE 0
    BY DEF Whole, IInv, TimerInv, Keys
  <2> QED BY <2>1, <2>2
<1> QED
  BY <1>1, SeatsInvariance, PTL

\* Between two events the living of a running game are members of its room, whoever left
\* or was removed by a grace timer.
THEOREM GamesStayWithTheirRooms ==
  ASSUME ~Interleaved
  PROVE  Spec => []GamesFollowRooms
<1>1. Whole => GamesFollowRooms
  BY NoCalls DEF GamesFollowRooms, TableInv, Whole, SeatsInv
<1> QED
  BY <1>1, SeatsInvariance, PTL
-------------------------------------------------------------------------------
\* What a handler may be doing for a page that shows its room.
Quiet == {"seated", "done", "start:found", "start:again"}

\* What a handler may be doing for a page that has lost its connection.
Lost == {"lost", "lost:marked"}

\* What the page of s shows: a departure and a loss reach it when the await is over.
PageInv(s) ==
  /\ conn[s] = "open" /\ seat[s] \in Rooms
  /\ \A c \in calls : c.s = s => c.at \in Quiet
  /\ \A c \in calls : c.at = "lost:marked" /\ c.from = seat[s] =>
       onOnlineChanged(pages[s], c.p, FALSE) = Copy(store, seat[s])
  /\ (\A c \in calls : c.at \in {"removed", "lost:marked"} => c.from # seat[s]) =>
       pages[s] = Copy(store, seat[s])

\* The pages that are told show what there is to show.
RightInv ==
  /\ pages = [s \in Sockets |-> pages[s]]
  /\ \A s \in Attached : PageInv(s)

\* A handler that may give a socket its seat was called by a page that shows nothing.
BlankInv ==
  \A c \in calls : c.at \notin Quiet \cup Lost /\ c.s \in Sockets => pages[c.s] = NoView

ViewInv == RightInv /\ BlankInv
-------------------------------------------------------------------------------
\* What a page is sent.
LEMMA CopyIs ==
  ASSUME NEW s, NEW r
  PROVE  Copy(s, r) = [hostId |-> s.rooms[r].hostId, players |-> s.rooms[r].players,
                       isHost |-> s.rooms[r].isHost, isOnline |-> s.rooms[r].isOnline]
BY DEF Copy, Restrict, getById, NoView

\* A room that has not changed is shown as it was.
LEMMA CopySame ==
  ASSUME NEW s, NEW t, NEW r, t.rooms[r] = s.rooms[r]
  PROVE  Copy(t, r) = Copy(s, r)
BY DEF Copy, getById

\* What the pages make of the messages is what the store has become.
LEMMA ToldOnline ==
  ASSUME NEW s, NEW t, NEW r, NEW p, p \in Members(s, r),
         ShowsOnline(s, t, r, s.rooms[r].isOnline \cup {p})
  PROVE  onOnlineChanged(Copy(s, r), p, TRUE) = Copy(t, r)
<1>1. Copy(s, r) = [hostId |-> s.rooms[r].hostId, players |-> s.rooms[r].players,
                    isHost |-> s.rooms[r].isHost, isOnline |-> s.rooms[r].isOnline]
  BY CopyIs
<1>2. Copy(t, r) = [hostId |-> s.rooms[r].hostId, players |-> s.rooms[r].players,
                    isHost |-> s.rooms[r].isHost, isOnline |-> s.rooms[r].isOnline \cup {p}]
  BY CopyIs DEF ShowsOnline
<1> QED
  BY <1>1, <1>2 DEF onOnlineChanged, Members

\* A loss.
LEMMA ToldOffline ==
  ASSUME NEW s, NEW t, NEW r, NEW p, p \in Members(s, r),
         ShowsOnline(s, t, r, s.rooms[r].isOnline \ {p})
  PROVE  onOnlineChanged(Copy(s, r), p, FALSE) = Copy(t, r)
<1>1. Copy(s, r) = [hostId |-> s.rooms[r].hostId, players |-> s.rooms[r].players,
                    isHost |-> s.rooms[r].isHost, isOnline |-> s.rooms[r].isOnline]
  BY CopyIs
<1>2. Copy(t, r) = [hostId |-> s.rooms[r].hostId, players |-> s.rooms[r].players,
                    isHost |-> s.rooms[r].isHost, isOnline |-> s.rooms[r].isOnline \ {p}]
  BY CopyIs DEF ShowsOnline
<1> QED
  BY <1>1, <1>2 DEF onOnlineChanged, Members

\* A newcomer on the page of a room.
LEMMA PageFields ==
  ASSUME NEW h, NEW l, NEW f, NEW o, NEW p
  PROVE  onPlayerJoined([hostId |-> h, players |-> l, isHost |-> f, isOnline |-> o], p)
           = [hostId |-> h, players |-> Append(RemoveFirst(l, p), p),
              isHost |-> f \ {p}, isOnline |-> o \cup {p}]
<1>1. ASSUME NEW l1, NEW f1, NEW o1
      PROVE  [[hostId |-> h, players |-> l, isHost |-> f, isOnline |-> o]
                EXCEPT !.players = l1, !.isOnline = o1, !.isHost = f1]
               = [hostId |-> h, players |-> l1, isHost |-> f1, isOnline |-> o1]
  <2>1. [[hostId |-> h, players |-> l, isHost |-> f, isOnline |-> o] EXCEPT !.players = l1]
          = [hostId |-> h, players |-> l1, isHost |-> f, isOnline |-> o]
    OBVIOUS
  <2>2. [[hostId |-> h, players |-> l1, isHost |-> f, isOnline |-> o] EXCEPT !.isOnline = o1]
          = [hostId |-> h, players |-> l1, isHost |-> f, isOnline |-> o1]
    OBVIOUS
  <2>3. [[hostId |-> h, players |-> l1, isHost |-> f, isOnline |-> o1] EXCEPT !.isHost = f1]
          = [hostId |-> h, players |-> l1, isHost |-> f1, isOnline |-> o1]
    OBVIOUS
  <2>4. [[hostId |-> h, players |-> l, isHost |-> f, isOnline |-> o]
           EXCEPT !.players = l1, !.isOnline = o1, !.isHost = f1]
          = [[[[hostId |-> h, players |-> l, isHost |-> f, isOnline |-> o]
                 EXCEPT !.players = l1] EXCEPT !.isOnline = o1] EXCEPT !.isHost = f1]
    OBVIOUS
  <2> QED BY <2>1, <2>2, <2>3, <2>4
<1> DEFINE v == [hostId |-> h, players |-> l, isHost |-> f, isOnline |-> o]
           l1 == Append(RemoveFirst(l, p), p)
<1>2. onPlayerJoined(v, p)
        = [v EXCEPT !.players = l1, !.isOnline = o \cup {p}, !.isHost = f \ {p}]
  BY DEF onPlayerJoined
<1> HIDE DEF l1
<1>3. onPlayerJoined(v, p) = [hostId |-> h, players |-> l1, isHost |-> f \ {p}, isOnline |-> o \cup {p}]
  BY <1>1, <1>2
<1> QED
  BY <1>3 DEF l1

\* A newcomer.
LEMMA ToldJoined ==
  ASSUME NEW s, NEW t, NEW r, NEW p, p \notin Members(s, r), RoomInv(s.rooms[r]),
         t.rooms[r].isOnline = s.rooms[r].isOnline \cup {p},
         t.rooms[r].players = Append(s.rooms[r].players, p),
         t.rooms[r].hostId = s.rooms[r].hostId, t.rooms[r].isHost = s.rooms[r].isHost
  PROVE  onPlayerJoined(Copy(s, r), p) = Copy(t, r)
<1> DEFINE x == s.rooms[r]
<1>1. Copy(s, r) = [hostId |-> x.hostId, players |-> x.players,
                    isHost |-> x.isHost, isOnline |-> x.isOnline]
  BY CopyIs
<1>2. Copy(t, r) = [hostId |-> x.hostId, players |-> Append(x.players, p),
                    isHost |-> x.isHost, isOnline |-> x.isOnline \cup {p}]
  BY CopyIs
<1>3. p \notin ToSet(x.players) /\ x.players \in Seq(Players) /\ IsInjective(x.players)
  BY DEF Members, RoomInv, Listed
<1>4. RemoveFirst(x.players, p) = x.players
  BY <1>3, TakenOff
<1>5. x.isHost \ {p} = x.isHost
  <2>1. x.players # <<>> /\ x.isHost = {Head(x.players)}
    BY DEF RoomInv
  <2>2. Head(x.players) \in ToSet(x.players)
    BY <1>3, <2>1, LenProperties, EmptySeq, HeadTailProperties DEF ToSet
  <2> QED BY <1>3, <2>1, <2>2
<1> HIDE DEF x
<1>6. onPlayerJoined(Copy(s, r), p)
        = [hostId |-> x.hostId, players |-> Append(RemoveFirst(x.players, p), p),
           isHost |-> x.isHost \ {p}, isOnline |-> x.isOnline \cup {p}]
  BY <1>1, PageFields
<1> QED
  BY <1>2, <1>4, <1>5, <1>6

\* The socket of a page that shows its room is in that room.
LEMMA InTheRoom ==
  ASSUME Whole, ViewInv, NEW s \in Attached
  PROVE  /\ PageInv(s) /\ s \in Sockets /\ conn[s] = "open" /\ seat[s] \in Rooms
         /\ joined[s] = {seat[s]} /\ s \in SocketsOf(Owner[s], seat[s])
         /\ \A r : s \in Listeners(r) <=> r = seat[s]
<1>1. PageInv(s) /\ s \in Sockets /\ conn[s] = "open" /\ seat[s] \in Rooms
  BY DEF ViewInv, RightInv, PageInv, Attached
<1>2. ~OnTheWayOut(s)
  BY <1>1 DEF OnTheWayOut, PageInv, Quiet
<1>3. joined[s] = {seat[s]} /\ s \in SocketsOf(Owner[s], seat[s])
  BY <1>1, <1>2, InItsRoom, StoreAssumption DEF Whole, SeatsInv
<1>4. \A r : s \in Listeners(r) <=> r = seat[s]
  BY <1>1, <1>3 DEF Listeners, Attached
<1> QED
  BY <1>1, <1>3, <1>4

\* The page of s stays right: its room has not changed, or changes and it will be told.
LEMMA PageKept ==
  ASSUME ViewInv, NEW s \in Attached, UNCHANGED <<pages[s], conn[s], seat[s]>>,
         \A c \in calls : c.at \notin {"removed", "lost:marked"},
         \A d \in calls' : d.s = s => d.at \in Quiet,
         \/ /\ Copy(store', seat[s]) = Copy(store, seat[s])
            /\ \A d \in calls' : d.at \in {"removed", "lost:marked"} => d.from # seat[s]
         \/ \E d : calls' = {d} /\ d.at = "removed" /\ d.from = seat[s]
         \/ \E d : /\ calls' = {d} /\ d.at = "lost:marked" /\ d.from = seat[s]
                  /\ onOnlineChanged(pages[s], d.p, FALSE) = Copy(store', seat[s])
  PROVE  PageInv(s)'
<1>1. pages[s] = Copy(store, seat[s]) /\ conn[s] = "open" /\ seat[s] \in Rooms
  BY DEF ViewInv, RightInv, PageInv
<1>2. \/ (\A d \in calls' : d.at \in {"removed", "lost:marked"} => d.from # seat'[s]) /\ pages'[s] = Copy(store', seat'[s])
      \/ \E d : calls' = {d} /\ d.at = "removed" /\ d.from = seat'[s]
      \/ \E d : /\ calls' = {d} /\ d.at = "lost:marked" /\ d.from = seat'[s]
               /\ onOnlineChanged(pages'[s], d.p, FALSE) = Copy(store', seat'[s])
  BY <1>1
<1> QED
  BY <1>1, <1>2 DEF PageInv
-------------------------------------------------------------------------------
\* A seat is in a room that has been created.
LEMMA CopyElsewhere ==
  ASSUME Whole, NEW rc \in FreshRooms(store), NEW p, store' = create(store, p, rc[1], rc[2]),
         NEW s \in Sockets, seat[s] \in Rooms
  PROVE  Copy(store', seat[s]) = Copy(store, seat[s])
<1>1. rc[1] \in Rooms /\ rc[1] \notin store.used /\ seat[s] \in store.used
  BY StoreAssumption DEF FreshRooms, Whole, IInv, SeatInv
<1>2. store'.rooms[seat[s]] = store.rooms[seat[s]]
  <2>1. store'.rooms = [store.rooms EXCEPT ![rc[1]] =
          [joinCode |-> rc[2], hostId |-> p, players |-> <<p>>,
           isHost |-> {p}, isOnline |-> {p}, chat |-> 0]]
    BY DEF create
  <2>2. seat[s] # rc[1]
    BY <1>1
  <2> QED BY <2>1, <2>2 DEF Whole, IInv, StoreInv
<1> QED
  BY <1>2, CopySame

\* The handler that a handler goes on as.
LEMMA OnlyOne ==
  ASSUME Whole, NEW c, calls = {c}, Resume(c)
  PROVE  \A d \in calls' : Follows(c, d)
<1>1. CallTyped(c)
  BY DEF Whole, TypedInv
<1>2. \A d \in calls' : d \in calls \ {c} \/ Follows(c, d)
  BY <1>1, CallsFollow DEF Whole
<1> QED
  BY <1>2

\* A handler goes on without a word, and what the pages show has not changed.
LEMMA NothingToTell ==
  ASSUME Whole, ViewInv, NEW c, calls = {c}, Resume(c), UNCHANGED <<pages, conn>>,
         c.at \notin {"removed", "lost:marked", "counted", "gone:found", "lost"},
         \A s \in Sockets : seat[s] \in Rooms => Copy(store', seat[s]) = Copy(store, seat[s]),
         \A s \in Sockets : s # c.s => seat'[s] = seat[s],
         c.at \notin Quiet \/ (seat' = seat /\ \A d \in calls' : d.at \in Quiet)
  PROVE  RightInv'
<1>1. ASSUME NEW s \in Attached'
      PROVE  PageInv(s)'
  <2>1. s \in Attached /\ s \in Sockets /\ seat'[s] = seat[s]
    <3>1. s \in Sockets /\ pages[s] # NoView /\ conn[s] = "open" /\ seat'[s] # None
      BY <1>1 DEF Attached
    <3>2. c.s = s => c.at \in Quiet
      BY <3>1 DEF ViewInv, BlankInv, Lost
    <3> QED BY <3>1, <3>2 DEF Attached
  <2>2. PageInv(s) /\ seat[s] \in Rooms /\ (c.s = s => c.at \in Quiet)
    BY <2>1 DEF ViewInv, RightInv, PageInv
  <2>3. UNCHANGED <<pages[s], conn[s], seat[s]>>
    BY <2>1
  <2>4. \A d \in calls' : /\ d.s = s => d.at \in Quiet
                          /\ d.at \notin {"removed", "lost:marked"}
    BY <2>2, OnlyOne DEF Follows, Marks
  <2> QED BY <2>1, <2>2, <2>3, <2>4, PageKept
<1> QED
  BY <1>1 DEF ViewInv, RightInv

\* A player has been taken off a list: those of that room will be told.
LEMMA RemovePages ==
  ASSUME Whole, ViewInv, NEW c, calls = {c}, c.at \in {"counted", "gone:found"}, Resume(c),
         RemovePlayer(c), UNCHANGED <<pages, conn, seat>>
  PROVE  RightInv'
<1>1. CallInv(c, store) /\ CallShape(c) /\ c.from \in Rooms /\ c.p \in Players
  BY DEF Whole, IInv, CallInv, Leaving, StoreInv
<1>2. PICK d : /\ calls' = (calls \ {c}) \cup {d}
               /\ Is(d, "removed", c.p, c.s, c.r, c.from, Exists(store', c.from), c.then)
  BY <1>1, RemoveCall
<1>3. calls' = {d} /\ d.at = "removed" /\ d.from = c.from /\ d.s = c.s
  BY <1>2 DEF Is
<1>4. \A q \in Rooms \ {c.from} : store'.rooms[q] = store.rooms[q]
  BY <1>1, Removed DEF RemovePlayer, Whole, IInv
<1>5. ASSUME NEW s \in Attached'
      PROVE  PageInv(s)'
  <2>1. s \in Attached /\ PageInv(s)
    BY <1>5 DEF ViewInv, RightInv, Attached
  <2>2. seat[s] \in Rooms /\ c.s # s
    BY <2>1 DEF PageInv, Quiet
  <2>3. \A e \in calls' : e.s = s => e.at \in Quiet
    BY <1>3, <2>2
  <2>4. CASE seat[s] = c.from
    BY <1>3, <2>1, <2>3, <2>4, PageKept
  <2>5. CASE seat[s] # c.from
    <3>1. Copy(store', seat[s]) = Copy(store, seat[s])
      BY <1>4, <2>2, <2>5, CopySame
    <3> QED BY <1>3, <2>1, <2>3, <2>5, <3>1, PageKept
  <2> QED BY <2>4, <2>5
<1> QED
  BY <1>5 DEF ViewInv, RightInv

\* A departure: the seat is given up, and the list may change.
LEMMA LeftCountedPages ==
  ASSUME Whole, ViewInv, NEW c, calls = {c}, LeftCounted(c), UNCHANGED pages
  PROVE  RightInv'
<1>1. c.at = "counted" /\ Resume(c) /\ UNCHANGED <<conn, seat>>
  BY DEF LeftCounted, At, Resume
<1>2. CASE c.answer
  BY <1>1, <1>2, RemovePages DEF LeftCounted
<1>3. CASE ~c.answer
  <2>1. GoesOn(c) /\ UNCHANGED store
    BY <1>3 DEF LeftCounted
  <2>2. c.then \in {"done", "create", "join", "get"}
    BY DEF Whole, IInv, CallInv
  <2>3. \A d \in calls' : d.s = c.s /\ d.at \notin {"removed", "lost:marked"}
    <3>1. CASE c.then = "done"
      BY <2>1, <3>1, GoesOnCall
    <3>2. CASE c.then # "done"
      <4>1. PICK d : calls' = (calls \ {c}) \cup {d} /\ Is(d, c.then, c.p, c.s, c.r, None, FALSE, "done")
        BY <2>1, <3>2, GoesOnCall
      <4>2. calls' = {d}
        BY <4>1
      <4> QED BY <2>2, <4>1, <4>2 DEF Is
    <3> QED BY <3>1, <3>2
  <2>4. ASSUME NEW s \in Attached'
        PROVE  PageInv(s)'
    <3>1. s \in Attached /\ c.s # s
      BY <1>1, <2>4 DEF ViewInv, RightInv, PageInv, Quiet, Attached
    <3>2. Copy(store', seat[s]) = Copy(store, seat[s])
      BY <2>1
    <3> QED BY <1>1, <2>3, <3>1, <3>2, PageKept
  <2> QED BY <2>4 DEF ViewInv, RightInv
<1> QED
  BY <1>2, <1>3

\* The grace period is over.
LEMMA GoneFoundPages ==
  ASSUME Whole, ViewInv, NEW c, calls = {c}, GoneFound(c), UNCHANGED pages
  PROVE  RightInv'
<1>1. c.at = "gone:found" /\ Resume(c) /\ UNCHANGED <<conn, seat>>
  BY DEF GoneFound, At, Resume
<1>2. CASE c.p \in Members(store, c.from)
  BY <1>1, <1>2, RemovePages DEF GoneFound
<1>3. CASE c.p \notin Members(store, c.from)
  <2>1. calls' = {} /\ UNCHANGED store
    BY <1>3 DEF GoneFound, Return
  <2>2. ASSUME NEW s \in Attached'
        PROVE  PageInv(s)'
    <3>1. s \in Attached
      BY <1>1, <2>2 DEF Attached
    <3> QED BY <1>1, <2>1, <3>1, PageKept
  <2> QED BY <2>2 DEF ViewInv, RightInv
<1> QED
  BY <1>2, <1>3

\* A member is shown offline in the store: those of the room will be told.
LEMMA LostCountedPages ==
  ASSUME Whole, ViewInv, NEW c, calls = {c}, LostCounted(c), UNCHANGED pages
  PROVE  RightInv'
<1>1. c.at = "lost" /\ Resume(c) /\ UNCHANGED <<conn, seat>>
  BY DEF LostCounted, At, Resume
<1>2. CASE ~c.answer
  <2>1. calls' = {} /\ UNCHANGED store
    BY <1>2 DEF LostCounted, Return
  <2>2. ASSUME NEW s \in Attached'
        PROVE  PageInv(s)'
    <3>1. s \in Attached
      BY <1>1, <2>2 DEF Attached
    <3> QED BY <1>1, <2>1, <3>1, PageKept
  <2> QED BY <2>2 DEF ViewInv, RightInv
<1>3. CASE c.answer
  <2>1. CallShape(c) /\ c.from \in Rooms /\ c.p \in Players /\ c.p \in Online(c.from)
    BY <1>1 DEF Whole, IInv, CallInv, Leaving, StoreInv, SeatsInv, CallKnows
  <2>2. c.p \in Members(store, c.from)
    BY <2>1, OnlineAreMembers DEF Online, Whole
  <2>3. store' = setPlayerOnline(store, c.from, c.p, FALSE) /\ Await({c}, [c EXCEPT !.at = "lost:marked"])
    BY <1>3 DEF LostCounted
  <2>4. PICK d : /\ calls' = (calls \ {c}) \cup {d}
                 /\ Is(d, "lost:marked", c.p, c.s, c.r, c.from, c.answer, c.then)
    BY <2>1, <2>3, NextLabel
  <2>5. calls' = {d} /\ d.at = "lost:marked" /\ d.from = c.from /\ d.s = c.s /\ d.p = c.p
    BY <2>4 DEF Is
  <2>6. ShowsOnline(store, setPlayerOnline(store, c.from, c.p, FALSE), c.from,
                    store.rooms[c.from].isOnline \ {c.p})
    BY <2>1, <2>2, Hidden, Zenon DEF Whole, IInv
  <2>7. ShowsOnline(store, store', c.from, store.rooms[c.from].isOnline \ {c.p})
    BY <2>3, <2>6, Zenon
  <2>8. onOnlineChanged(Copy(store, c.from), c.p, FALSE) = Copy(store', c.from)
    BY <2>2, <2>7, ToldOffline, Zenon
  <2>9. ASSUME NEW s \in Attached'
        PROVE  PageInv(s)'
    <3>1. s \in Attached /\ PageInv(s)
      BY <1>1, <2>9 DEF ViewInv, RightInv, Attached
    <3>2. seat[s] \in Rooms /\ c.s # s /\ pages[s] = Copy(store, seat[s])
      BY <1>1, <3>1 DEF PageInv, Quiet
    <3>3. \A e \in calls' : e.s = s => e.at \in Quiet
      BY <2>5, <3>2
    <3>4. CASE seat[s] = c.from
      <4>1. onOnlineChanged(pages[s], d.p, FALSE) = Copy(store', seat[s])
        BY <2>5, <2>8, <3>2, <3>4, Zenon
      <4> QED BY <1>1, <2>5, <3>1, <3>3, <3>4, <4>1, PageKept
    <3>5. CASE seat[s] # c.from
      <4>1. Copy(store', seat[s]) = Copy(store, seat[s])
        BY <2>7, <3>2, <3>5, CopySame DEF ShowsOnline
      <4> QED BY <1>1, <2>5, <3>1, <3>3, <3>5, <4>1, PageKept
    <3> QED BY <3>4, <3>5
  <2> QED BY <2>9 DEF ViewInv, RightInv
<1> QED
  BY <1>2, <1>3

\* A handler that says nothing leaves the pages right.
LEMMA SilentPages ==
  ASSUME Whole, ViewInv, NEW c, calls = {c}, Silent(c)
  PROVE  RightInv'
<1>1. UNCHANGED pages /\ Resume(c)
  BY DEF Silent, Resume
<1>2. CASE Seated(c) \/ Done(c) \/ startGameForRoom(c)
  <2>1. /\ c.at \in {"seated", "done", "start:again"}
        /\ UNCHANGED <<store, conn, seat>> /\ Return({c})
    BY <1>2 DEF Seated, Done, startGameForRoom, At
  <2>2. calls' = {}
    BY <2>1 DEF Return
  <2> QED BY <1>1, <2>1, <2>2, NothingToTell
<1>3. CASE StartFound(c)
  <2>1. c.at = "start:found" /\ UNCHANGED <<store, conn, seat>>
    BY <1>3 DEF StartFound, At
  <2>2. Return({c}) \/ Await({c}, [c EXCEPT !.at = "start:again"])
    BY <1>3 DEF StartFound
  <2>3. CallShape(c)
    BY DEF Whole, IInv, CallInv
  <2>4. \A d \in calls' : d.at \in Quiet
    <3>1. CASE Return({c})
      BY <3>1 DEF Return
    <3>2. CASE Await({c}, [c EXCEPT !.at = "start:again"])
      <4>1. PICK d : /\ calls' = (calls \ {c}) \cup {d}
                     /\ Is(d, "start:again", c.p, c.s, c.r, c.from, c.answer, c.then)
        BY <2>3, <3>2, NextLabel
      <4> QED BY <4>1 DEF Is, Quiet
    <3> QED BY <2>2, <3>1, <3>2
  <2> QED BY <1>1, <2>1, <2>4, NothingToTell
<1>4. CASE CreateResumed(c)
  <2>1. c.at = "create" /\ CreateIn({c}, c.s) /\ UNCHANGED <<conn, seat>>
    BY <1>4 DEF CreateResumed, CreateIn, At
  <2>2. PICK rc \in FreshRooms(store) : store' = create(store, Owner[c.s], rc[1], rc[2])
    BY <2>1 DEF CreateIn
  <2>3. \A s \in Sockets : seat[s] \in Rooms => Copy(store', seat[s]) = Copy(store, seat[s])
    BY <2>2, CopyElsewhere
  <2> QED BY <1>1, <2>1, <2>3, NothingToTell DEF Quiet
<1>5. CASE LeftChannel(c) \/ CreateFails(c) \/ CreateMade(c) \/ JoinAdded(c) \/ GetResumed(c)
           \/ GoneCounted(c)
  <2>1. /\ c.at \in {"left", "create", "create:made", "join:added", "get", "gone"}
        /\ UNCHANGED <<store, conn>>
    BY <1>5 DEF LeftChannel, CreateFails, CreateMade, JoinAdded, GetResumed, GoneCounted, TakeSeat, At
  <2>2. \/ UNCHANGED seat \/ seat' = [seat EXCEPT ![c.s] = None]
        \/ seat' = [seat EXCEPT ![c.s] = c.r]
    BY <1>5 DEF LeftChannel, CreateFails, CreateMade, JoinAdded, GetResumed, GoneCounted, TakeSeat
  <2>3. \A s \in Sockets : s # c.s => seat'[s] = seat[s]
    BY <2>2 DEF Whole, IInv, SeatInv
  <2> QED BY <1>1, <2>1, <2>3, NothingToTell DEF Quiet
<1> QED
  BY <1>1, <1>2, <1>3, <1>4, <1>5, LeftCountedPages, GoneFoundPages, LostCountedPages DEF Silent
-------------------------------------------------------------------------------
\* What is emitted reaches the pages of the room and no other.
LEMMA Emitted ==
  ASSUME Whole, ViewInv, NEW r, NEW s \in Attached
  PROVE  s \in Listeners(r) <=> r = seat[s]
BY InTheRoom

\* A handler works for a page that shows no room.
LEMMA ForAnother ==
  ASSUME ViewInv, NEW c \in calls, c.at \notin Quiet, NEW s \in Attached
  PROVE  c.s # s /\ seat[s] \in Rooms /\ conn[s] = "open"
BY DEF ViewInv, RightInv, PageInv

\* A room whose page is shown exists.
LEMMA ShownRoomExists ==
  ASSUME Whole, ViewInv, NEW c, calls = {c}, c.at \notin OutOf \cup Into,
         NEW s \in Attached
  PROVE  Exists(store, seat[s])
<1>1. PICK r \in Rooms, p \in Players : r = seat[s] /\ p = Owner[s] /\ s \in SocketsOf(p, r)
  BY InTheRoom, SessionsAssumption
<1>2. Settled(r, p)
  <2>1. \A d \in calls : ~About(d, r, p)
    BY DEF About
  <2> QED BY <2>1, AllSettled DEF Whole, SeatsInv
<1>3. p \in store.rooms[r].isOnline
  BY <1>1, <1>2 DEF Settled, Online
<1> QED
  BY <1>1, <1>3, OnlineAreMembers DEF Whole

\* A departure is told, with the room as it is now.
LEMMA SendDeparturePages ==
  ASSUME Whole, ViewInv, NEW c, calls = {c}, SendDeparture(c)
  PROVE  RightInv'
<1>1. /\ c.at = "removed" /\ Resume(c) /\ CallInv(c, store) /\ GoesOn(c)
      /\ UNCHANGED <<store, conn, seat>>
  BY DEF SendDeparture, LeftRemoved, At, Resume, Whole, IInv
<1>2. \A d \in calls' : Follows(c, d) /\ d.at \notin {"removed", "lost:marked"}
  BY <1>1, OnlyOne DEF Follows, Marks
<1>3. pages' = [s \in Sockets |-> IF c.answer /\ s \in Listeners(c.from)
                                 THEN Copy(store, c.from) ELSE pages[s]]
  <2>1. CASE c.answer
    <3>1. pages' = Emit(c.from, [s \in Sockets |-> onState(onPlayerLeft(pages[s], c.p), Copy(store, c.from))])
      BY <2>1 DEF SendDeparture
    <3> QED BY <2>1, <3>1 DEF Emit, onState
  <2>2. CASE ~c.answer
    BY <2>2 DEF SendDeparture, ViewInv, RightInv
  <2> QED BY <2>1, <2>2
<1>4. ASSUME NEW s \in Attached'
      PROVE  PageInv(s)'
  <2>1. s \in Attached /\ s \in Sockets
    BY <1>1, <1>3, <1>4 DEF Listeners, Attached
  <2>2. c.s # s /\ seat[s] \in Rooms /\ conn[s] = "open"
    BY <1>1, <2>1, ForAnother DEF Quiet
  <2>3. s \in Listeners(c.from) <=> c.from = seat[s]
    BY <2>1, Emitted
  <2>4. \A d \in calls' : d.s # s /\ d.at \notin {"removed", "lost:marked"}
    BY <1>2, <2>2 DEF Follows
  <2>5. pages'[s] = Copy(store, seat[s])
    <3>1. CASE c.from = seat[s]
      <4>1. Exists(store, c.from)
        BY <1>1, <2>1, <3>1, ShownRoomExists DEF OutOf, Into
      <4>2. c.answer
        BY <1>1, <4>1 DEF CallInv
      <4> QED BY <1>3, <2>1, <2>3, <3>1, <4>2
    <3>2. CASE c.from # seat[s]
      <4>1. pages'[s] = pages[s]
        BY <1>3, <2>1, <2>3, <3>2
      <4>2. PageInv(s)
        BY <2>1 DEF ViewInv, RightInv
      <4> QED BY <1>1, <3>2, <4>1, <4>2 DEF PageInv
    <3> QED BY <3>1, <3>2
  <2>6. Copy(store', seat'[s]) = Copy(store, seat[s])
    BY <1>1
  <2> QED BY <1>1, <2>2, <2>4, <2>5, <2>6 DEF PageInv
<1> QED
  BY <1>3, <1>4 DEF ViewInv, RightInv

\* A loss is told.
LEMMA SendLossPages ==
  ASSUME Whole, ViewInv, NEW c, calls = {c}, SendLoss(c)
  PROVE  RightInv'
<1>1. c.at = "lost:marked" /\ calls' = {} /\ UNCHANGED <<store, conn, seat>>
  BY DEF SendLoss, LostMarked, At, Return
<1>2. pages' = [s \in Sockets |-> IF s \in Listeners(c.from) THEN onOnlineChanged(pages[s], c.p, FALSE)
                                 ELSE pages[s]]
  BY DEF SendLoss, Emit
<1>3. ASSUME NEW s \in Attached'
      PROVE  PageInv(s)'
  <2>1. s \in Attached /\ s \in Sockets
    BY <1>1, <1>2, <1>3 DEF Listeners, Attached
  <2>2. PageInv(s) /\ (s \in Listeners(c.from) <=> c.from = seat[s])
    BY <2>1, Emitted DEF ViewInv, RightInv
  <2>3. pages'[s] = Copy(store, seat[s])
    <3>1. CASE c.from = seat[s]
      <4>1. pages'[s] = onOnlineChanged(pages[s], c.p, FALSE)
        BY <1>2, <2>1, <2>2, <3>1
      <4>2. onOnlineChanged(pages[s], c.p, FALSE) = Copy(store, seat[s])
        BY <1>1, <2>2, <3>1 DEF PageInv
      <4> QED BY <4>1, <4>2, Zenon
    <3>2. CASE c.from # seat[s]
      BY <1>1, <1>2, <2>1, <2>2, <3>2 DEF PageInv
    <3> QED BY <3>1, <3>2
  <2>4. Copy(store', seat'[s]) = Copy(store, seat[s])
    BY <1>1
  <2> QED BY <1>1, <2>2, <2>3, <2>4 DEF PageInv
<1> QED
  BY <1>2, <1>3 DEF ViewInv, RightInv

\* A member is shown online: those of the room are told at once.
LEMMA ToldTheRoom ==
  ASSUME Whole, ViewInv, NEW c, calls = {c}, c.at \notin Quiet,
         c.at \notin {"removed", "lost:marked", "counted", "gone:found", "lost"},
         Resume(c), UNCHANGED <<conn, seat>>,
         \A q \in Rooms \ {c.r} : store'.rooms[q] = store.rooms[q],
         NEW s \in Attached,
         seat[s] # c.r => pages'[s] = pages[s],
         seat[s] = c.r => pages'[s] = Copy(store', c.r)
  PROVE  PageInv(s)'
<1>1. PageInv(s) /\ c.s # s /\ seat[s] \in Rooms /\ conn[s] = "open"
  BY ForAnother DEF ViewInv, RightInv
<1>2. \A d \in calls' : d.s # s /\ d.at \notin {"removed", "lost:marked"}
  BY <1>1, OnlyOne DEF Follows, Marks
<1>3. pages'[s] = Copy(store', seat[s])
  <2>1. CASE seat[s] = c.r
    BY <2>1
  <2>2. CASE seat[s] # c.r
    <3>1. Copy(store', seat[s]) = Copy(store, seat[s])
      BY <1>1, <2>2, CopySame
    <3> QED BY <1>1, <2>2, <3>1 DEF PageInv
  <2> QED BY <2>1, <2>2
<1>4. Copy(store', seat'[s]) = Copy(store', seat[s])
  OBVIOUS
<1> QED
  BY <1>1, <1>2, <1>3, <1>4 DEF PageInv
-------------------------------------------------------------------------------
\* The pages of the room are told who has come, or come back.
LEMMA SendArrivalPages ==
  ASSUME Whole, ViewInv, NEW c, calls = {c}, SendArrival(c)
  PROVE  RightInv'
<1>1. c.at \in {"join:found", "join"} /\ Resume(c) /\ UNCHANGED <<conn, seat>>
  BY DEF SendArrival, JoinFound, JoinResumed, JoinAs, leaveCurrentRoom, At, Resume
<1>2. /\ CallInv(c, store) /\ c.s \in Sockets /\ c.p \in Players /\ c.r \in Rooms
      /\ StoreInv(store) /\ RoomsInv(store)
  BY <1>1 DEF Whole, IInv, CallInv, Entering, StoreInv
<1>3. CASE ~(c.at = "join" \/ seat[c.s] \in {None, c.r})
  <2>1. UNCHANGED <<store, pages>>
    BY <1>3 DEF SendArrival, JoinFound, JoinResumed, leaveCurrentRoom, At
  <2> QED BY <1>1, <2>1, NothingToTell DEF Quiet
<1>4. CASE c.at = "join" \/ seat[c.s] \in {None, c.r}
  <2>1. store' = IF c.p \in Members(store, c.r) THEN setPlayerOnline(store, c.r, c.p, TRUE)
                 ELSE addPlayer(store, c.r, c.p)
    BY <1>4 DEF SendArrival, JoinFound, JoinResumed, JoinAs, At
  <2>2. CASE ~Exists(store, c.r)
    <3>1. c.p \notin Members(store, c.r)
      BY <2>2, NobodyInNoRoom
    <3>2. UNCHANGED <<store, pages>>
      BY <2>1, <2>2, <3>1 DEF addPlayer, SendArrival
    <3> QED BY <1>1, <3>2, NothingToTell DEF Quiet
  <2>3. CASE Exists(store, c.r)
    <3> DEFINE said(v) == IF c.p \in Members(store, c.r) THEN onOnlineChanged(v, c.p, TRUE)
                          ELSE onPlayerJoined(v, c.p)
    <3>1. pages' = [s \in Sockets |-> IF s \in Listeners(c.r) THEN said(pages[s]) ELSE pages[s]]
      BY <1>4, <2>3 DEF SendArrival, Emit
    <3>2. said(Copy(store, c.r)) = Copy(store', c.r) /\ \A q \in Rooms \ {c.r} : store'.rooms[q] = store.rooms[q]
      <4>1. CASE c.p \in Members(store, c.r)
        <5>1. ShowsOnline(store, setPlayerOnline(store, c.r, c.p, TRUE), c.r,
                          store.rooms[c.r].isOnline \cup {c.p})
          BY <1>2, <4>1, Shown, Zenon
        <5>2. store' = setPlayerOnline(store, c.r, c.p, TRUE)
          BY <2>1, <4>1, Zenon
        <5>3. ShowsOnline(store, store', c.r, store.rooms[c.r].isOnline \cup {c.p})
          BY <5>1, <5>2, Zenon
        <5>4. onOnlineChanged(Copy(store, c.r), c.p, TRUE) = Copy(store', c.r)
          BY <4>1, <5>3, ToldOnline, Zenon
        <5>5. said(Copy(store, c.r)) = Copy(store', c.r)
          BY <4>1, <5>4, Zenon
        <5> QED BY <5>3, <5>5 DEF ShowsOnline
      <4>2. CASE c.p \notin Members(store, c.r)
        <5>1. store' = addPlayer(store, c.r, c.p)
          BY <2>1, <4>2, Zenon
        <5>2. /\ \A q \in Rooms \ {c.r} : store'.rooms[q] = store.rooms[q]
              /\ store'.rooms[c.r].isOnline = store.rooms[c.r].isOnline \cup {c.p}
              /\ store'.rooms[c.r].players = Append(store.rooms[c.r].players, c.p)
              /\ store'.rooms[c.r].hostId = store.rooms[c.r].hostId
              /\ store'.rooms[c.r].isHost = store.rooms[c.r].isHost
          <6>1. LET t == addPlayer(store, c.r, c.p)
                IN  /\ \A q \in Rooms \ {c.r} : t.rooms[q] = store.rooms[q]
                    /\ t.rooms[c.r].isOnline = store.rooms[c.r].isOnline \cup {c.p}
                    /\ t.rooms[c.r].players = Append(store.rooms[c.r].players, c.p)
                    /\ t.rooms[c.r].hostId = store.rooms[c.r].hostId
                    /\ t.rooms[c.r].isHost = store.rooms[c.r].isHost
            <7> HIDE DEF said
            <7> QED BY <1>2, <2>3, <4>2, Added
          <6> QED BY <5>1, <6>1
        <5>3. RoomInv(store.rooms[c.r])
          BY <1>2, <2>3 DEF RoomsInv
        <5>4. onPlayerJoined(Copy(store, c.r), c.p) = Copy(store', c.r)
          BY <4>2, <5>2, <5>3, ToldJoined
        <5>5. said(Copy(store, c.r)) = onPlayerJoined(Copy(store, c.r), c.p)
          BY <4>2
        <5> QED BY <5>2, <5>4, <5>5
      <4> QED BY <4>1, <4>2
    <3> HIDE DEF said
    <3>3. ASSUME NEW s \in Attached'
          PROVE  PageInv(s)'
      <4>1. s \in Attached /\ s \in Sockets
        BY <1>1, <3>1, <3>3 DEF Listeners, Attached
      <4>2. PageInv(s) /\ (s \in Listeners(c.r) <=> c.r = seat[s])
        BY <4>1, Emitted DEF ViewInv, RightInv
      <4>3. seat[s] # c.r => pages'[s] = pages[s]
        BY <3>1, <4>1, <4>2
      <4>4. seat[s] = c.r => pages'[s] = Copy(store', c.r)
        <5>1. pages[s] = Copy(store, seat[s])
          BY <1>1, <4>2 DEF PageInv
        <5> QED BY <3>1, <3>2, <4>1, <4>2, <5>1
      <4> QED BY <1>1, <3>2, <4>1, <4>3, <4>4, ToldTheRoom DEF Quiet
    <3> QED BY <3>1, <3>3 DEF ViewInv, RightInv
  <2> QED BY <2>2, <2>3
<1> QED
  BY <1>3, <1>4

\* Who comes back to a page is sent the room, and the others are told.
LEMMA SendReturnPages ==
  ASSUME Whole, ViewInv, NEW c, calls = {c}, SendReturn(c)
  PROVE  RightInv'
<1>1. c.at = "get:joined" /\ Resume(c) /\ UNCHANGED <<conn, seat>>
  BY DEF SendReturn, GetJoined, At, Resume
<1>2. /\ CallShape(c) /\ c.s \in Sockets /\ c.p \in Players /\ c.r \in Rooms
      /\ StoreInv(store) /\ RoomsInv(store)
  BY <1>1 DEF Whole, IInv, CallInv, Entering, StoreInv
<1>3. c.p \in Members(store, c.r) /\ conn[c.s] = "open" /\ seat[c.s] = c.r
  BY <1>1 DEF Whole, SeatsInv, CallKnows, AtHand
<1>4. /\ store' = setPlayerOnline(store, c.r, c.p, TRUE)
      /\ Await({c}, [c EXCEPT !.at = "seated"])
      /\ pages' = [Emit(c.r, [s \in Sockets |-> onOnlineChanged(pages[s], c.p, TRUE)])
                    EXCEPT ![c.s] = Copy(store', c.r)]
  BY DEF SendReturn, GetJoined
<1>5. pages' = [s \in Sockets |-> IF s = c.s THEN Copy(store', c.r)
                                 ELSE IF s \in Listeners(c.r) THEN onOnlineChanged(pages[s], c.p, TRUE)
                                 ELSE pages[s]]
  BY <1>2, <1>4 DEF Emit
<1>6. ShowsOnline(store, setPlayerOnline(store, c.r, c.p, TRUE), c.r,
                  store.rooms[c.r].isOnline \cup {c.p})
  BY <1>2, <1>3, Shown, Zenon
<1>7. ShowsOnline(store, store', c.r, store.rooms[c.r].isOnline \cup {c.p})
  BY <1>4, <1>6, Zenon
<1>8. onOnlineChanged(Copy(store, c.r), c.p, TRUE) = Copy(store', c.r)
  <2>1. c.p \in Members(store, c.r)
    BY <1>3
  <2> QED BY <1>7, <2>1, ToldOnline, Zenon
<1>9. \A q \in Rooms \ {c.r} : store'.rooms[q] = store.rooms[q]
  BY <1>7 DEF ShowsOnline
<1>10. PICK d : /\ calls' = (calls \ {c}) \cup {d}
                /\ Is(d, "seated", c.p, c.s, c.r, c.from, c.answer, c.then)
  BY <1>2, <1>4, NextLabel
<1>11. calls' = {d} /\ d.at = "seated"
  BY <1>10 DEF Is
<1>12. PageInv(c.s)'
  <2>1. pages'[c.s] = Copy(store', c.r)
    BY <1>2, <1>5
  <2>2. Copy(store', seat'[c.s]) = Copy(store', c.r)
    BY <1>1, <1>3
  <2> QED BY <1>1, <1>2, <1>3, <1>11, <2>1, <2>2 DEF PageInv, Quiet
<1>13. ASSUME NEW s \in Attached', s # c.s
       PROVE  PageInv(s)'
  <2>1. s \in Attached /\ s \in Sockets
    BY <1>1, <1>5, <1>13 DEF Listeners, Attached
  <2>2. PageInv(s) /\ (s \in Listeners(c.r) <=> c.r = seat[s])
    BY <2>1, Emitted DEF ViewInv, RightInv
  <2>3. seat[s] # c.r => pages'[s] = pages[s]
    BY <1>5, <1>13, <2>1, <2>2
  <2>4. seat[s] = c.r => pages'[s] = Copy(store', c.r)
    <3>1. ASSUME seat[s] = c.r PROVE pages'[s] = Copy(store', c.r)
      <4>1. pages[s] = Copy(store, c.r)
        BY <1>1, <2>2, <3>1 DEF PageInv
      <4>2. pages'[s] = onOnlineChanged(pages[s], c.p, TRUE)
        BY <1>5, <1>13, <2>1, <2>2, <3>1
      <4> QED BY <1>8, <4>1, <4>2, Zenon
    <3> QED BY <3>1
  <2> QED BY <1>1, <1>9, <2>1, <2>3, <2>4, ToldTheRoom DEF Quiet
<1>14. pages' = [s \in Sockets |-> pages'[s]]
  BY <1>5
<1> QED
  BY <1>12, <1>13, <1>14 DEF ViewInv, RightInv

\* Who is in the room already is sent it once more.
LEMMA SendRoomPages ==
  ASSUME Whole, ViewInv, NEW c, calls = {c}, SendRoom(c)
  PROVE  RightInv'
<1>1. c.at = "get:found" /\ Resume(c) /\ UNCHANGED <<store, conn>>
  BY DEF SendRoom, GetFound, TakeSeat, leaveCurrentRoom, At, Resume
<1>2. c.s \in Sockets /\ c.r \in Rooms /\ conn[c.s] = "open"
  BY <1>1 DEF Whole, IInv, CallInv, Entering, StoreInv, SeatsInv, CallKnows, AtHand
<1>3. CASE ~(seat[c.s] = c.r /\ c.p \in Members(store, c.r))
  <2>1. UNCHANGED pages
    BY <1>3 DEF SendRoom
  <2>2. UNCHANGED seat \/ seat' = [seat EXCEPT ![c.s] = c.r]
    BY DEF SendRoom, GetFound, TakeSeat, leaveCurrentRoom
  <2>3. \A s \in Sockets : s # c.s => seat'[s] = seat[s]
    BY <2>2 DEF Whole, IInv, SeatInv
  <2> QED BY <1>1, <2>1, <2>3, NothingToTell DEF Quiet
<1>4. CASE seat[c.s] = c.r /\ c.p \in Members(store, c.r)
  <2>1. /\ pages' = [pages EXCEPT ![c.s] = Copy(store, c.r)]
        /\ calls' = {} /\ UNCHANGED seat
    BY <1>4 DEF SendRoom, GetFound, Return
  <2>2. pages' = [s \in Sockets |-> IF s = c.s THEN Copy(store, c.r) ELSE pages[s]]
    BY <2>1 DEF ViewInv, RightInv
  <2>3. ASSUME NEW s \in Attached'
        PROVE  PageInv(s)'
    <3> s \in Sockets
      BY <2>3 DEF Attached
    <3>1. Copy(store', seat'[s]) = Copy(store, seat[s])
      BY <1>1, <2>1
    <3>2. conn[s] = "open" /\ seat[s] \in Rooms /\ pages'[s] = Copy(store, seat[s])
      <4>1. CASE s = c.s
        BY <1>2, <1>4, <2>2, <4>1
      <4>2. CASE s # c.s
        <5>1. s \in Attached /\ pages'[s] = pages[s]
          BY <1>1, <2>1, <2>2, <2>3, <4>2 DEF Attached
        <5> QED BY <1>1, <5>1 DEF ViewInv, RightInv, PageInv
      <4> QED BY <4>1, <4>2
    <3> QED BY <1>1, <2>1, <3>1, <3>2 DEF PageInv
  <2> QED BY <2>2, <2>3 DEF ViewInv, RightInv
<1> QED
  BY <1>3, <1>4
-------------------------------------------------------------------------------
\* A request begins one handler for its socket, which has told nobody yet.
LEMMA PageLeftCalls ==
  ASSUME calls = {}, NEW s \in Sockets, PageLeft(s)
  PROVE  \A d \in calls' : d.s = s /\ d.at \notin {"removed", "lost:marked"}
<1>1. ASSUME NEW at, at \notin {"removed", "lost:marked"}, NEW r, Await({}, Call(at, Owner[s], s, r))
      PROVE  \A d \in calls' : d.s = s /\ d.at \notin {"removed", "lost:marked"}
  <2>1. PICK d : calls' = (calls \ {}) \cup {d} /\ Is(d, at, Owner[s], s, r, None, FALSE, "done")
    BY <1>1, FirstLabel
  <2>2. calls' = {d}
    BY <2>1
  <2> QED BY <1>1, <2>1, <2>2 DEF Is
<1>2. ASSUME NEW r, NEW then, leaveCurrentRoom({}, s, r, then)
      PROVE  \A d \in calls' : d.s = s /\ d.at \notin {"removed", "lost:marked"}
  <2>1. PICK d : /\ calls' = (calls \ {}) \cup {d}
                 /\ Is(d, "left", Owner[s], s, r, seat[s], FALSE, then)
    BY <1>2, LeaveCall
  <2>2. calls' = {d}
    BY <2>1
  <2> QED BY <2>1, <2>2 DEF Is
<1>3. CASE RoomCreate(s)
  <2>1. CASE seat[s] = None
    <3>1. PICK rc \in FreshRooms(store) : Await({}, Call("create:made", Owner[s], s, rc[1]))
      BY <1>3, <2>1 DEF RoomCreate, CreateIn
    <3> QED BY <1>1, <3>1
  <2>2. CASE seat[s] # None
    BY <1>2, <1>3, <2>2 DEF RoomCreate
  <2> QED BY <2>1, <2>2
<1>4. CASE RoomLeave(s)
  BY <1>2, <1>4 DEF RoomLeave
<1>5. ASSUME NEW code \in Codes, RoomJoin(s, code)
      PROVE  \A d \in calls' : d.s = s /\ d.at \notin {"removed", "lost:marked"}
  BY <1>1, <1>5 DEF RoomJoin
<1>6. ASSUME NEW r \in Rooms, RoomGet(s, r)
      PROVE  \A d \in calls' : d.s = s /\ d.at \notin {"removed", "lost:marked"}
  BY <1>1, <1>6 DEF RoomGet
<1> QED
  BY <1>3, <1>4, <1>5, <1>6 DEF PageLeft

\* A page is left, or asks for its room: the others stay right.
LEMMA PageLeftPages ==
  ASSUME Whole, ViewInv, calls = {}, NEW p \in Sockets, PageLeft(p)
  PROVE  ViewInv'
<1>1. pages' = [s \in Sockets |-> IF s = p THEN NoView ELSE pages[s]]
  BY DEF PageLeft, ViewInv, RightInv
<1>2. ASSUME NEW s \in Sockets, seat[s] \in Rooms
      PROVE  conn' = conn /\ seat' = seat /\ Copy(store', seat[s]) = Copy(store, seat[s])
  <2>1. CASE RoomCreate(p) /\ seat[p] = None
    <3>1. PICK rc \in FreshRooms(store) : store' = create(store, Owner[p], rc[1], rc[2])
      BY <2>1 DEF RoomCreate, CreateIn
    <3>2. UNCHANGED <<conn, seat>>
      BY <2>1 DEF RoomCreate, CreateIn
    <3> QED BY <1>2, <3>1, <3>2, CopyElsewhere
  <2>2. CASE ~(RoomCreate(p) /\ seat[p] = None)
    <3>1. UNCHANGED <<store, conn, seat>>
      BY <2>2 DEF PageLeft, RoomCreate, RoomLeave, RoomJoin, RoomGet, leaveCurrentRoom
    <3> QED BY <3>1
  <2> QED BY <2>1, <2>2
<1>3. UNCHANGED <<conn, seat>>
  BY DEF PageLeft, RoomCreate, CreateIn, RoomLeave, RoomJoin, RoomGet, leaveCurrentRoom
<1>4. ASSUME NEW s \in Attached'
      PROVE  PageInv(s)'
  <2>1. s # p /\ s \in Attached /\ pages'[s] = pages[s]
    BY <1>1, <1>3, <1>4 DEF Attached
  <2>2. \A d \in calls' : d.s # s /\ d.at \notin {"removed", "lost:marked"}
    BY <2>1, PageLeftCalls
  <2>3. s \in Sockets /\ seat[s] \in Rooms
    BY <2>1, InTheRoom
  <2> QED BY <1>2, <2>1, <2>2, <2>3, PageKept
<1>5. BlankInv'
  BY <1>1, PageLeftCalls DEF BlankInv
<1> QED
  BY <1>1, <1>4, <1>5 DEF ViewInv, RightInv

\* A connection is lost: its page is told nothing any more, and the others stay right.
LEMMA PageLostPages ==
  ASSUME Whole, ViewInv, calls = {}, NEW p \in Sockets, PageLost(p)
  PROVE  ViewInv'
<1>1. conn' = [conn EXCEPT ![p] = "closed"] /\ UNCHANGED <<store, seat, pages>>
  BY DEF PageLost, Disconnect
<1>2. \A d \in calls' : d.s = p /\ d.at = "lost"
  <2>1. CASE seat[p] = None
    BY <2>1 DEF PageLost, Disconnect, Return
  <2>2. CASE seat[p] # None
    <3> DEFINE v == SocketsOf(Owner[p], seat[p]) \ {p} = {}
    <3>1. PICK d : calls' = calls \cup {d} /\ Is(d, "lost", Owner[p], p, None, seat[p], v, "done")
      BY <2>2, FirstAnswer DEF PageLost, Disconnect
    <3> HIDE DEF v
    <3>2. calls' = {d}
      BY <3>1
    <3> QED BY <3>1, <3>2 DEF Is
  <2> QED BY <2>1, <2>2
<1>3. ASSUME NEW s \in Attached'
      PROVE  PageInv(s)'
  <2>1. s # p /\ s \in Attached /\ conn'[s] = conn[s]
    BY <1>1, <1>3 DEF Attached, Whole, TypedInv, SocketsTyped
  <2>2. Copy(store', seat[s]) = Copy(store, seat[s])
    BY <1>1
  <2> QED BY <1>1, <1>2, <2>1, <2>2, PageKept
<1>4. BlankInv'
  BY <1>2 DEF BlankInv, Lost
<1> QED
  BY <1>1, <1>3, <1>4 DEF ViewInv, RightInv

\* A connection is made, for a new page or for one that has lost its own: it is in no
\* room yet.
LEMMA PageConnectsPages ==
  ASSUME Whole, ViewInv, calls = {}, NEW p \in Sockets, PageConnects(p)
  PROVE  ViewInv'
<1>1. /\ conn[p] = "new" /\ conn' = [conn EXCEPT ![p] = "open"] /\ UNCHANGED <<store, seat, calls>>
      /\ seat[p] = None
  BY DEF PageConnects, Connect, Whole, SeatsInv, ConnInv
<1>2. \/ UNCHANGED pages
      \/ \E lost \in Sockets :
           conn[lost] = "closed" /\ pages' = [pages EXCEPT ![p] = pages[lost], ![lost] = NoView]
  BY DEF PageConnects
<1>3. ASSUME NEW s \in Attached'
      PROVE  PageInv(s)'
  <2>1. s \in Sockets /\ s # p /\ conn[s] = "open" /\ conn'[s] = conn[s]
    BY <1>1, <1>3 DEF Attached, Whole, TypedInv, SocketsTyped
  <2>2. pages'[s] = pages[s]
    BY <1>2, <2>1 DEF ViewInv, RightInv
  <2>3. s \in Attached
    BY <1>1, <1>3, <2>1, <2>2 DEF Attached
  <2>4. Copy(store', seat[s]) = Copy(store, seat[s])
    BY <1>1
  <2> QED BY <1>1, <2>1, <2>2, <2>3, <2>4, PageKept
<1>4. pages' = [s \in Sockets |-> pages'[s]] /\ BlankInv'
  BY <1>1, <1>2 DEF ViewInv, RightInv, BlankInv
<1> QED
  BY <1>3, <1>4 DEF ViewInv, RightInv

\* What happens without a word to the pages, while no handler runs.
LEMMA QuietEvent ==
  ASSUME ViewInv, calls = {}, UNCHANGED <<pages, conn, seat>>,
         \A s \in Sockets : seat[s] \in Rooms => Copy(store', seat[s]) = Copy(store, seat[s]),
         \A d \in calls' : /\ d.at \notin {"removed", "lost:marked"}
                           /\ d.at \in Quiet \/ d.s \notin Sockets
  PROVE  ViewInv'
<1>1. ASSUME NEW s \in Attached'
      PROVE  PageInv(s)'
  <2>1. s \in Sockets /\ s \in Attached
    BY <1>1 DEF Attached
  <2>2. seat[s] \in Rooms
    BY <2>1 DEF ViewInv, RightInv, PageInv
  <2> QED BY <2>1, <2>2, PageKept
<1>2. BlankInv'
  BY DEF BlankInv
<1> QED
  BY <1>1, <1>2 DEF ViewInv, RightInv

\* The events the pages are not told of.
LEMMA EventPages ==
  ASSUME Whole, ViewInv, calls = {}, UNCHANGED pages,
         \/ \E s \in Sockets : ChatSend(s) \/ GameStart(s)
         \/ \E k \in Keys : GraceTimeout(k)
         \/ \E r \in Rooms : GameGoesOn(r)
  PROVE  ViewInv'
<1>1. ASSUME NEW s \in Sockets, ChatSend(s) PROVE ViewInv'
  <2>1. /\ store' = addChatMessage(store, seat[s]) /\ seat[s] \in Rooms
        /\ UNCHANGED <<conn, seat, calls>>
    BY <1>1 DEF ChatSend, Whole, IInv, SeatInv, StoreInv
  <2>2. \A r \in Rooms : Copy(store', r) = Copy(store, r)
    <3>1. \A r \in Rooms : /\ store'.rooms[r].isOnline = store.rooms[r].isOnline
                           /\ store'.rooms[r].players = store.rooms[r].players
                           /\ store'.rooms[r].hostId = store.rooms[r].hostId
                           /\ store'.rooms[r].isHost = store.rooms[r].isHost
      BY <2>1, Chatted DEF Whole, IInv
    <3> QED BY <3>1, CopyIs
  <2> QED BY <2>1, <2>2, QuietEvent
<1>2. ASSUME NEW s \in Sockets, GameStart(s) PROVE ViewInv'
  <2>1. Await({}, Call("start:found", Owner[s], s, seat[s])) /\ UNCHANGED <<store, conn, seat>>
    BY <1>2 DEF GameStart
  <2>2. PICK d : /\ calls' = (calls \ {}) \cup {d}
                 /\ Is(d, "start:found", Owner[s], s, seat[s], None, FALSE, "done")
    BY <2>1, FirstLabel
  <2>3. calls' = {d} /\ d.at = "start:found"
    BY <2>2 DEF Is
  <2> QED BY <2>1, <2>3, QuietEvent DEF Quiet
<1>3. ASSUME NEW k \in Keys, GraceTimeout(k) PROVE ViewInv'
  <2> DEFINE v == countOtherUserSockets(k[1], k[2]) = 0
  <2>1. UNCHANGED <<store, conn, seat>>
    BY <1>3 DEF GraceTimeout
  <2>2. PICK d : calls' = calls \cup {d} /\ Is(d, "gone", k[2], None, None, k[1], v, "done")
    BY <1>3, FirstAnswer DEF GraceTimeout
  <2> HIDE DEF v
  <2>3. calls' = {d} /\ d.at = "gone" /\ d.s \notin Sockets
    BY <2>2, SessionsAssumption DEF Is
  <2> QED BY <2>1, <2>3, QuietEvent
<1>4. ASSUME NEW r \in Rooms, GameGoesOn(r) PROVE ViewInv'
  <2>1. UNCHANGED <<store, conn, seat, calls>>
    BY <1>4 DEF GameGoesOn
  <2> QED BY <2>1, QuietEvent
<1> QED
  BY <1>1, <1>2, <1>3, <1>4

\* What follows a handler that gives no socket its seat gives none either.
LEMMA StaysQuiet ==
  ASSUME Whole, NEW c, calls = {c}, Resume(c), c.at \in Quiet \cup Lost
  PROVE  \A d \in calls' : d.at \in Quiet \cup Lost
<1>1. CallShape(c)
  BY DEF Whole, IInv, CallInv
<1>2. ASSUME NEW at \in Quiet \cup Lost, Await({c}, [c EXCEPT !.at = at])
      PROVE  \A d \in calls' : d.at \in Quiet \cup Lost
  <2>1. PICK d : calls' = (calls \ {c}) \cup {d} /\ Is(d, at, c.p, c.s, c.r, c.from, c.answer, c.then)
    BY <1>1, <1>2, NextLabel
  <2> QED BY <1>2, <2>1 DEF Is
<1>3. CASE Return({c})
  BY <1>3 DEF Return
<1>4. CASE c.at \in {"seated", "done", "start:again", "lost:marked"}
  <2>1. Seated(c) \/ Done(c) \/ startGameForRoom(c) \/ LostMarked(c)
    BY <1>4 DEF Resume, LeftChannel, LeftCounted, LeftRemoved, CreateResumed, CreateFails, CreateMade,
       JoinFound, JoinResumed, JoinAdded, GetFound, GetResumed, GetJoined, Seated, Done, StartFound,
       startGameForRoom, LostCounted, LostMarked, GoneCounted, GoneFound, At
  <2> QED BY <1>3, <2>1 DEF Seated, Done, startGameForRoom, LostMarked
<1>5. CASE c.at \in {"start:found", "lost"}
  <2>1. StartFound(c) \/ LostCounted(c)
    BY <1>5 DEF Resume, LeftChannel, LeftCounted, LeftRemoved, CreateResumed, CreateFails, CreateMade,
       JoinFound, JoinResumed, JoinAdded, GetFound, GetResumed, GetJoined, Seated, Done, StartFound,
       startGameForRoom, LostCounted, LostMarked, GoneCounted, GoneFound, At
  <2>2. \/ Return({c}) \/ Await({c}, [c EXCEPT !.at = "start:again"])
        \/ Await({c}, [c EXCEPT !.at = "lost:marked"])
    BY <2>1 DEF StartFound, LostCounted
  <2> QED BY <1>2, <1>3, <2>2 DEF Quiet, Lost
<1> QED
  BY <1>4, <1>5 DEF Quiet, Lost

\* A handler goes on: who is to be given a seat still shows nothing.
LEMMA BlankStep ==
  ASSUME Whole, ViewInv, NEW c, calls = {c},
         \/ SendDeparture(c) \/ SendArrival(c) \/ SendReturn(c)
         \/ SendRoom(c) \/ SendLoss(c) \/ Silent(c)
  PROVE  BlankInv'
<1>1. Resume(c)
  BY DEF SendDeparture, SendArrival, SendReturn, SendRoom, SendLoss, Silent, Resume
<1>2. \A d \in calls' : d.s = c.s
  BY <1>1, OnlyOne DEF Follows
<1>3. CASE c.at \in Quiet \cup Lost
  BY <1>1, <1>3, StaysQuiet DEF BlankInv
<1>4. CASE c.at \notin Quiet \cup Lost
  <2> SUFFICES ASSUME c.s \in Sockets, NEW d \in calls', d.at \notin Quiet
               PROVE  pages'[c.s] = NoView
    BY <1>2 DEF BlankInv
  <2>1. pages[c.s] = NoView
    BY <1>4 DEF ViewInv, BlankInv
  <2>2. \A r : c.s \notin Listeners(r)
    BY <2>1 DEF Listeners
  <2>3. ASSUME NEW r, NEW shown, pages' = Emit(r, shown) PROVE pages'[c.s] = NoView
    BY <2>1, <2>2, <2>3 DEF Emit
  <2>4. CASE SendDeparture(c) \/ SendArrival(c) \/ SendLoss(c) \/ Silent(c)
    BY <2>1, <2>3, <2>4 DEF SendDeparture, SendArrival, SendLoss, Silent
  <2>5. CASE SendReturn(c)
    <3>1. Await({c}, [c EXCEPT !.at = "seated"]) /\ CallShape(c)
      BY <2>5 DEF SendReturn, GetJoined, Whole, IInv, CallInv
    <3>2. PICK e : /\ calls' = (calls \ {c}) \cup {e}
                   /\ Is(e, "seated", c.p, c.s, c.r, c.from, c.answer, c.then)
      BY <3>1, NextLabel
    <3> QED BY <3>2 DEF Is, Quiet
  <2>6. CASE SendRoom(c)
    <3>1. CASE seat[c.s] = c.r /\ c.p \in Members(store, c.r)
      BY <2>6, <3>1 DEF SendRoom, GetFound, Return
    <3>2. CASE ~(seat[c.s] = c.r /\ c.p \in Members(store, c.r))
      BY <2>1, <2>6, <3>2 DEF SendRoom
    <3> QED BY <3>1, <3>2
  <2> QED BY <2>4, <2>5, <2>6
<1> QED
  BY <1>3, <1>4

\* Every step keeps the pages right.
LEMMA ViewStep ==
  ASSUME ~Interleaved, Whole, ViewInv, [ViewNext]_<<vars, pages>>
  PROVE  ViewInv'
<1>1. (CanBegin => calls = {}) /\ \A c \in calls : calls = {c}
  BY Alone DEF Whole, SeatsInv
<1>2. ASSUME NEW c \in calls,
             \/ SendDeparture(c) \/ SendArrival(c) \/ SendReturn(c)
             \/ SendRoom(c) \/ SendLoss(c) \/ Silent(c)
      PROVE  ViewInv'
  <2>1. RightInv'
    BY <1>1, <1>2, SendDeparturePages, SendArrivalPages, SendReturnPages, SendRoomPages,
       SendLossPages, SilentPages
  <2>2. BlankInv'
    BY <1>1, <1>2, BlankStep
  <2> QED BY <2>1, <2>2 DEF ViewInv
<1>3. ASSUME NEW s \in Sockets, PageLeft(s) \/ PageLost(s) \/ PageConnects(s)
      PROVE  ViewInv'
  <2>1. CanBegin
    BY <1>3 DEF PageLeft, RoomCreate, RoomLeave, RoomJoin, RoomGet, PageLost, Disconnect,
                PageConnects, Connect
  <2> QED BY <1>1, <1>3, <2>1, PageLeftPages, PageLostPages, PageConnectsPages
<1>4. ASSUME UNCHANGED pages,
             \/ \E s \in Sockets : ChatSend(s) \/ GameStart(s)
             \/ \E k \in Keys : GraceTimeout(k)
             \/ \E r \in Rooms : GameGoesOn(r)
      PROVE  ViewInv'
  <2>1. CanBegin
    BY <1>4 DEF ChatSend, GameStart, GraceTimeout, GameGoesOn
  <2> QED BY <1>1, <1>4, <2>1, EventPages
<1>5. CASE UNCHANGED <<vars, pages>>
  BY <1>5 DEF vars, ViewInv, RightInv, BlankInv, PageInv, Attached
<1> QED
  BY <1>2, <1>3, <1>4, <1>5 DEF ViewNext

\* The pages watch the handlers: what they see are steps of the sessions.
LEMMA ViewsAreSessions == ViewSpec => Spec
<1>1. ViewInit => Init
  BY DEF ViewInit
<1>2. [ViewNext]_<<vars, pages>> => [Next]_vars
  <2> SUFFICES ASSUME ViewNext PROVE Next
    OBVIOUS
  <2>1. ASSUME NEW s \in Sockets,
               \/ PageLeft(s) \/ PageLost(s) \/ PageConnects(s) \/ ChatSend(s) \/ GameStart(s)
        PROVE  Next
    BY <2>1 DEF PageLeft, PageLost, PageConnects, Next, Receive
  <2>2. ASSUME NEW c \in calls,
               \/ SendDeparture(c) \/ SendArrival(c) \/ SendReturn(c)
               \/ SendRoom(c) \/ SendLoss(c) \/ Silent(c)
        PROVE  Resume(c)
    BY <2>2 DEF SendDeparture, SendArrival, SendReturn, SendRoom, SendLoss, Silent, Resume
  <2> QED BY <2>1, <2>2 DEF ViewNext, Next
<1> QED
  BY <1>1, <1>2, PTL DEF ViewSpec, Spec

\* Between two events every page whose connection is in a room shows the players of that
\* room as the store has them, in their order, with their host and who is online: what the
\* handlers broadcast (handlers.ts: join, get, leave, disconnect, grace timer) and the
\* page makes of it (room/[id]/page.tsx) keeps up with the store, for any number of pages
\* and rooms, and whatever the pages keep that have lost their connection.
THEOREM ThePagesShowTheRoom ==
  ASSUME ~Interleaved
  PROVE  ViewSpec => []PagesShowTheRoom
<1>1. ViewInit => ViewInv
  BY DEF ViewInit, Init, ViewInv, RightInv, BlankInv, Attached
<1>2. Whole /\ ViewInv /\ [ViewNext]_<<vars, pages>> => ViewInv'
  BY ViewStep
<1>3. Whole /\ ViewInv => PagesShowTheRoom
  BY DEF PagesShowTheRoom, ViewInv, RightInv, PageInv
<1> QED
  BY <1>1, <1>2, <1>3, ViewsAreSessions, SeatsInvariance, PTL DEF ViewSpec
===============================================================================
