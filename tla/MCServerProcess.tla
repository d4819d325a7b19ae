-------------------------- MODULE MCServerProcess --------------------------
(***************************************************************************)
(* ServerProcess with requests that the framing tells apart, spread over   *)
(* three clients, who connect in any order.                                *)
(***************************************************************************)
EXTENDS ServerProcess, TLC

CONSTANTS c1, c2, c3

Request(head, length, total) ==
    [head |-> head, length |-> length, total |-> total,
     wellFormed |-> TRUE, reads |-> TRUE]

(* The client asks for a map, which no buffer holds, and does not read it. *)
Unread(r) == [r EXCEPT !.reads = FALSE]

SampleRequests ==
    c1 :> {Unread(Request(2, 1, 3)),    \* the largest that surely has room
           Request(7, 0, 6)}        \* its head never ends
    @@ c2 :> {Request(1, 1, 1),     \* stalls in its body
              Request(4, 1, 5)}     \* may come whole before the room is used up
    @@ c3 :> {Request(1, 2, 1)}     \* announces too large a body

============================================================================
