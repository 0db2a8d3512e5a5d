----------------------------- MODULE PageRooms ------------------------------
(***************************************************************************)
(* The sockets of a page of the client and the rooms that page and server  *)
(* think they are in, with what has to be true of them.  Realtime has the  *)
(* events and timers that change them.                                     *)
(***************************************************************************)
EXTENDS Integers, Sequences, SequencesExt

CONSTANTS
    Sockets,   \* WebSocket objects, used again once they are closed
    NoSocket,  \* wsRef.current = null
    Room       \* the room of each hook

VARIABLES
    socks,      \* the sockets
    wsRef,      \* wsRef.current
    connected,  \* isConnected
    rooms,      \* subscribedRoomsRef
    mounted     \* the hooks on the page

(* readyState of the socket of the page.                                   *)
IsOpen == wsRef # NoSocket /\ socks[wsRef].page = "open"
IsLive == wsRef # NoSocket /\ socks[wsRef].page \in {"connecting", "open"}

HookRooms == {Room[h] : h \in mounted}

(* socketService reads a message: joinRoom, leaveRoom.                     *)
Joined(in, m) == IF m.type = "subscribe" THEN in \cup m.rooms ELSE in \ m.rooms

-----------------------------------------------------------------------------
(* Properties.                                                             *)

(* A page has one socket at most, whatever number of connects, timers and  *)
(* renderings of the provider race: wsRef names every socket that is not   *)
(* closing or closed, so no second one feeds the page with its events.     *)
OneLiveSocket ==
    \A s \in Sockets : socks[s].page \in {"connecting", "open"} => s = wsRef

(* The rooms the server will know, once it has read what is on its way,    *)
(* are those of subscribedRoomsRef, and those are the rooms of the hooks   *)
(* while the page is connected, and none otherwise.  Neither a close event *)
(* nor a new socket in the middle of subscriptions makes the two sides     *)
(* drift apart or forgets a hook, if no two hooks share a room.            *)
ServerFollows ==
    IsOpen /\ ~socks[wsRef].lost
        => FoldLeft(Joined, socks[wsRef].rooms, socks[wsRef].queue) = rooms
PageFollows == rooms = IF connected THEN HookRooms ELSE {}
RoomsAgree == ServerFollows /\ PageFollows

=============================================================================
