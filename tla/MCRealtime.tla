----------------------------- MODULE MCRealtime -----------------------------
(* The socket of a page for model checking: every hook has its own room.   *)
EXTENDS Realtime

RoomOf == [h \in Hooks |-> h]

=============================================================================
