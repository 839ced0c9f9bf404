------------------------------- MODULE RoomViews -------------------------------
(***************************************************************************)
(* The room as the pages show it: the copy each room page fetches once, by *)
(* room:get, and then keeps up to date from what the handlers broadcast.   *)
(*                                                                         *)
(* A socket's messages arrive in the order they were sent, the ack among   *)
(* them, so a copy is taken to change when the message is sent; and a      *)
(* message sent when an await returns is shown with the step that awaits,  *)
(* which is the same as long as handlers are not interleaved.  A page that *)
(* has not had its answer yet ignores the broadcasts.  Left out: the chat. *)
(***************************************************************************)
EXTENDS RoomSessions

VARIABLE pages   \* socket -> the state `room' of its page, NoView while it is null

NoView == [hostId |-> None, players |-> <<>>, isHost |-> {}, isOnline |-> {}]

\* What an ack or a room:state message carries.
Copy(s, r) == Restrict(getById(s, r), DOMAIN NoView)

ViewInit == Init /\ pages = [s \in Sockets |-> NoView]

\* The sockets in room r whose pages have a copy.
Listeners(r) == {s \in Sockets : r \in joined[s] /\ pages[s] # NoView}

\* io.to(r).emit: what the pages show when those in r have made of it what shown says.
Emit(r, shown) == [s \in Sockets |-> IF s \in Listeners(r) THEN shown[s] ELSE pages[s]]

onPlayerJoined(v, p) ==
  [v EXCEPT !.players = Append(RemoveFirst(@, p), p),
            !.isOnline = @ \cup {p}, !.isHost = @ \ {p}]

onPlayerLeft(v, p) ==
  [v EXCEPT !.players = RemoveFirst(@, p), !.isOnline = @ \ {p}, !.isHost = @ \ {p}]

onState(v, next) == next

onOnlineChanged(v, p, on) ==
  IF p \notin ToSet(v.players) THEN v
  ELSE [v EXCEPT !.isOnline = IF on THEN @ \cup {p} ELSE @ \ {p}]
-------------------------------------------------------------------------------
\* The page is left for another one, or mounted anew and asks for the room (and goes
\* home if it is refused).  A page that goes without a word counts as open until then.
PageLeft(s) ==
  /\ \/ RoomCreate(s) \/ RoomLeave(s)
     \/ \E code \in Codes : RoomJoin(s, code)
     \/ \E r \in Rooms : RoomGet(s, r)
  /\ pages' = [pages EXCEPT ![s] = NoView]

\* The transport is lost under a page, which keeps what it shows.
PageLost(s) == Disconnect(s) /\ UNCHANGED pages

\* A connection, of a page that shows nothing yet or the new one of a page that has lost
\* its own: that page does not ask again.
PageConnects(s) ==
  /\ Connect(s)
  /\ \/ UNCHANGED pages
     \/ \E lost \in Sockets :
          /\ conn[lost] = "closed" /\ Owner[lost] = Owner[s]
          /\ pages' = [pages EXCEPT ![s] = pages[lost], ![lost] = NoView]

\* Slip: the departure is told, but not who is host now.
SendDeparture_NoState(c) ==
  /\ LeftRemoved(c)
  /\ pages' = IF c.answer
             THEN Emit(c.from, [s \in Sockets |-> onPlayerLeft(pages[s], c.p)]) ELSE pages

\* room:player_left and then room:state, if anybody is left.
SendDeparture(c) ==
  /\ LeftRemoved(c)
  /\ pages' = IF c.answer
             THEN Emit(c.from, [s \in Sockets |->
                                  onState(onPlayerLeft(pages[s], c.p), Copy(store, c.from))])
             ELSE pages

\* room:player_joined for a newcomer, room:player_online_changed for a member.
SendArrival(c) ==
  /\ JoinFound(c) \/ JoinResumed(c)
  /\ pages' = IF (c.at = "join" \/ seat[c.s] \in {None, c.r}) /\ Exists(store, c.r)
             THEN Emit(c.r, [s \in Sockets |-> IF c.p \in Members(store, c.r)
                                            THEN onOnlineChanged(pages[s], c.p, TRUE)
                                            ELSE onPlayerJoined(pages[s], c.p)])
             ELSE pages  \* another room is left first

\* room:player_online_changed and the ack.
SendReturn(c) ==
  /\ GetJoined(c)
  /\ pages' = [Emit(c.r, [s \in Sockets |-> onOnlineChanged(pages[s], c.p, TRUE)])
                EXCEPT ![c.s] = Copy(store', c.r)]

\* The ack to a socket that is in the room already.
SendRoom(c) ==
  /\ GetFound(c)
  /\ pages' = IF seat[c.s] = c.r /\ c.p \in Members(store, c.r)
             THEN [pages EXCEPT ![c.s] = Copy(store, c.r)] ELSE pages

\* room:player_online_changed, when the last socket of a player is lost.
SendLoss(c) ==
  /\ LostMarked(c)
  /\ pages' = Emit(c.from, [s \in Sockets |-> onOnlineChanged(pages[s], c.p, FALSE)])

Silent(c) ==
  /\ \/ LeftChannel(c) \/ LeftCounted(c)
     \/ CreateResumed(c) \/ CreateFails(c) \/ CreateMade(c)
     \/ JoinAdded(c) \/ GetResumed(c) \/ Seated(c) \/ Done(c)
     \/ StartFound(c) \/ startGameForRoom(c)
     \/ LostCounted(c) \/ GoneCounted(c) \/ GoneFound(c)
  /\ UNCHANGED pages

ViewNext ==
  \/ \E s \in Sockets : \/ PageLeft(s) \/ PageLost(s) \/ PageConnects(s)
                       \/ ((ChatSend(s) \/ GameStart(s)) /\ UNCHANGED pages)
  \/ \E c \in calls : \/ SendDeparture(c) \/ SendArrival(c) \/ SendReturn(c)
                      \/ SendRoom(c) \/ SendLoss(c) \/ Silent(c)
  \/ \E k \in Keys : GraceTimeout(k) /\ UNCHANGED pages
  \/ \E r \in Rooms : GameGoesOn(r) /\ UNCHANGED pages

ViewSpec == ViewInit /\ [][ViewNext]_<<vars, pages>>
-------------------------------------------------------------------------------
\* The pages whose connection is in a room, so that they are sent what happens there.
Attached == {s \in Sockets : conn[s] = "open" /\ seat[s] # None /\ pages[s] # NoView}

\* Between two events every page whose connection is in a room shows the players of
\* that room as the store has them, the host, the order and who is online included.
\* A page that has lost its connection shows what it last knew, and goes on showing it
\* over the new one, which is in no room until it asks for one.
PagesShowTheRoom ==
  calls = {} => \A s \in Attached : pages[s] = Copy(store, seat[s])
===============================================================================
