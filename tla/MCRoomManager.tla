--------------------------- MODULE MCRoomManager ---------------------------
(* A small instance of the room table for TLC. *)
EXTENDS RoomManager

CONSTANTS c1, c2, c3, ip1, ka, kb

ThreeConns == {c1, c2, c3}
OneIP      == {ip1}
TwoCodes   == {ka, kb}
=============================================================================
