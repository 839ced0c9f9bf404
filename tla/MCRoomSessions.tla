---------------------------- MODULE MCRoomSessions ----------------------------
(***************************************************************************)
(* Small tables of rooms, players and connections for TLC.  Rooms, codes   *)
(* and the connections of one player are interchangeable.                  *)
(***************************************************************************)
EXTENDS RoomSessions

CONSTANTS ann, bob, cat, a1, a2, a3, b1, b2, c1

TheOwner ==
  [s \in Sockets |-> CASE s \in {a1, a2, a3} -> ann [] s \in {b1, b2} -> bob [] OTHER -> cat]

Symmetry ==
  Permutations(Rooms) \cup Permutations(Codes)
    \cup {f \in Permutations(Sockets) : \A s \in Sockets : TheOwner[f[s]] = TheOwner[s]}
===============================================================================
