----------------------------- MODULE MCRoomViews -----------------------------
(***************************************************************************)
(* Small tables of rooms, players and connections for TLC, as in           *)
(* MCRoomSessions, with a page over every connection.                      *)
(***************************************************************************)
EXTENDS RoomViews

CONSTANTS ann, bob, a1, a2, b1, b2

TheOwner == [s \in Sockets |-> IF s \in {a1, a2} THEN ann ELSE bob]

Symmetry ==
  Permutations(Rooms) \cup Permutations(Codes)
    \cup {f \in Permutations(Sockets) : \A s \in Sockets : TheOwner[f[s]] = TheOwner[s]}

\* All but the length of the chats, which nothing else depends on, and what a page shows
\* while its connection is in no room: a seat is taken with a request, which empties it.
Readable ==
  <<[store EXCEPT !.rooms = [r \in Rooms |-> [store.rooms[r] EXCEPT !.chat = 0]]],
    conn, seat, joined, pendingLeaves, graceTimers, engines, calls,
    [s \in Sockets |-> IF s \in Attached THEN pages[s] ELSE NoView]>>
===============================================================================
