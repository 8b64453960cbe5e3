------------------------------- MODULE MCRooms -------------------------------
(* A room of two members with a message and the resume of a card.   *)
EXTENDS Rooms

CONSTANTS b1, b2, m1, r1
=============================================================================
