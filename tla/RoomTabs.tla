-------------------------------- MODULE RoomTabs --------------------------------
(***************************************************************************)
(* The browser tabs over RoomSessions: what the home page and the room     *)
(* page send, and when.  A tab holds one client socket, which Socket.IO    *)
(* reconnects by itself; to the server every connection is a new socket    *)
(* that sits nowhere until the page says room:create, room:join or         *)
(* room:get.                                                               *)
(*                                                                         *)
(* A click on a socket that is still connecting is buffered by Socket.IO   *)
(* until it is connected: it is the click made then.  Left out: the form   *)
(* fields, and errors shown without leaving the page.                      *)
(***************************************************************************)
EXTENDS RoomSessions

CONSTANTS
  Tabs,
  TabOf    \* socket -> the tab that opens it; the sockets of a tab have one owner

VARIABLES
  page,     \* "home", "room" or "closed"
  roomId,   \* the room in the path of the room page
  current,  \* the tab's socket, as the server knows it
  fetch,    \* fetchRoom has to run when the socket is connected
  busy      \* the request whose ack the page waits for, "none" for none

tabVars == <<page, roomId, current, fetch, busy>>

TabInit ==
  /\ Init
  /\ page = [t \in Tabs |-> "home"]
  /\ roomId = [t \in Tabs |-> None]
  /\ current = [t \in Tabs |-> None]
  /\ fetch = [t \in Tabs |-> FALSE]
  /\ busy = [t \in Tabs |-> "none"]

Connected(t) == current[t] # None /\ conn[current[t]] = "open"

\* The handler of the tab's last request has returned: the ack is delivered.
Acked(t) == Connected(t) /\ \A c \in calls : c.s # current[t]

\* getSocket, or the reconnection of the transport.
OpenSocket(t) ==
  /\ page[t] # "closed" /\ ~Connected(t)
  /\ \E s \in Sockets : /\ TabOf[s] = t
                        /\ Connect(s)
                        /\ current' = [current EXCEPT ![t] = s]
  /\ UNCHANGED <<page, roomId, fetch, busy>>

ClickCreate(t) ==
  /\ page[t] = "home" /\ busy[t] = "none" /\ Connected(t)
  /\ RoomCreate(current[t])
  /\ busy' = [busy EXCEPT ![t] = "enter"]
  /\ UNCHANGED <<page, roomId, current, fetch>>

ClickJoin(t) ==
  /\ page[t] = "home" /\ busy[t] = "none" /\ Connected(t)
  /\ \E code \in Codes : RoomJoin(current[t], code)
  /\ busy' = [busy EXCEPT ![t] = "enter"]
  /\ UNCHANGED <<page, roomId, current, fetch>>

\* The ack of create or join: the room page is mounted, or the error is shown.
Entered(t) ==
  /\ busy[t] = "enter" /\ Acked(t)
  /\ busy' = [busy EXCEPT ![t] = "none"]
  /\ IF seat[current[t]] # None
     THEN /\ page' = [page EXCEPT ![t] = "room"]
          /\ roomId' = [roomId EXCEPT ![t] = seat[current[t]]]
          /\ fetch' = [fetch EXCEPT ![t] = TRUE]
     ELSE UNCHANGED <<page, roomId, fetch>>
  /\ UNCHANGED <<vars, current>>

\* fetchRoom, as soon as the socket is connected and only once: the server seats
\* a member; anybody else is sent home.
FetchRoom(t) ==
  /\ fetch[t] /\ Connected(t)
  /\ fetch' = [fetch EXCEPT ![t] = FALSE]
  /\ IF Owner[current[t]] \in Members(store, roomId[t])
     THEN RoomGet(current[t], roomId[t]) /\ UNCHANGED page
     ELSE page' = [page EXCEPT ![t] = "home"] /\ UNCHANGED vars
  /\ UNCHANGED <<roomId, current, busy>>

\* leave(): home once the server has answered, which it does at once for a socket
\* that sits nowhere.
ClickLeave(t) ==
  /\ page[t] = "room" /\ busy[t] = "none" /\ Connected(t)
  /\ IF seat[current[t]] # None
     THEN RoomLeave(current[t]) /\ busy' = [busy EXCEPT ![t] = "leave"] /\ UNCHANGED page
     ELSE page' = [page EXCEPT ![t] = "home"] /\ UNCHANGED <<vars, busy>>
  /\ UNCHANGED <<roomId, current, fetch>>

Left(t) ==
  /\ busy[t] = "leave" /\ Acked(t)
  /\ busy' = [busy EXCEPT ![t] = "none"]
  /\ page' = [page EXCEPT ![t] = "home"]
  /\ UNCHANGED <<vars, roomId, current, fetch>>

ClickStart(t) ==
  /\ page[t] = "room" /\ Connected(t)
  /\ GameStart(current[t])
  /\ UNCHANGED tabVars

SendChat(t) ==
  /\ page[t] = "room" /\ Connected(t)
  /\ ChatSend(current[t])
  /\ UNCHANGED tabVars

\* The network fails under the tab, which will reconnect.
LoseTransport(t) ==
  /\ Connected(t)
  /\ Disconnect(current[t])
  /\ UNCHANGED tabVars

\* F5: the page is mounted anew, with no socket, no pending ack, and fetchRoom to do.
Reload(t) ==
  /\ page[t] # "closed" /\ Connected(t)
  /\ Disconnect(current[t])
  /\ current' = [current EXCEPT ![t] = None]
  /\ fetch' = [fetch EXCEPT ![t] = (page[t] = "room")]
  /\ busy' = [busy EXCEPT ![t] = "none"]
  /\ UNCHANGED <<page, roomId>>

\* The tab is closed, or its user logs out and comes back as somebody else.
Close(t) ==
  /\ Connected(t)
  /\ Disconnect(current[t])
  /\ current' = [current EXCEPT ![t] = None]
  /\ page' = [page EXCEPT ![t] = "closed"]
  /\ fetch' = [fetch EXCEPT ![t] = FALSE]
  /\ UNCHANGED <<roomId, busy>>

TabNext ==
  \/ \E t \in Tabs :
       \/ OpenSocket(t) \/ ClickCreate(t) \/ ClickJoin(t) \/ Entered(t)
       \/ FetchRoom(t) \/ ClickLeave(t) \/ Left(t) \/ ClickStart(t) \/ SendChat(t)
       \/ LoseTransport(t) \/ Reload(t) \/ Close(t)
  \/ UNCHANGED tabVars /\ \/ \E c \in calls : Resume(c)
                          \/ \E k \in Keys : GraceTimeout(k)
                          \/ \E r \in Rooms : GameGoesOn(r)

TabSpec == TabInit /\ [][TabNext]_<<vars, tabVars>>
-------------------------------------------------------------------------------
\* The page of tab t shows room r over an open connection, and has nothing left to ask.
Watching(t, r) == page[t] = "room" /\ roomId[t] = r /\ Connected(t) /\ ~fetch[t]

\* "Schedule 'treat as left' after the grace period if no reconnect" (handlers.ts:269):
\* the grace timer removes nobody who is connected again and looking at the room.
GraceSparesTheReconnected ==
  [][\A c \in calls, t \in Tabs :
       (c.at = "gone:found" /\ c \notin calls' /\ Watching(t, c.from))
         => Owner[current[t]] # c.p]_<<vars, tabVars>>
===============================================================================
