------------------------------- MODULE MCLpc -------------------------------
(* Lpc for TLC.                                                               *)
EXTENDS Lpc
CONSTANTS c, s

(* A client thread, and a server thread that uses both of the server's ports. *)
EachSide == [t \in Threads |-> IF t = c THEN {"client"} ELSE {"server", "conn"}]
=============================================================================
