---- MODULE MCRoomSync ----
(* A room of a few messages, a page that reconnects twice, and two requests for *)
(* history in flight at a time, which are interchangeable.                      *)
EXTENDS RoomSync, TLC

MCSymmetry == Permutations(Requests)
====
