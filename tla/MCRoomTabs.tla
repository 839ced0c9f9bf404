------------------------------ MODULE MCRoomTabs ------------------------------
(***************************************************************************)
(* Two tabs of two players for TLC.                                        *)
(***************************************************************************)
EXTENDS RoomTabs

CONSTANTS ann, bob, a1, a2, b1, tabA, tabB

TheOwner == [s \in Sockets |-> IF s = b1 THEN bob ELSE ann]
TheTab   == [s \in Sockets |-> IF s = b1 THEN tabB ELSE tabA]
===============================================================================
