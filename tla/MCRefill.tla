------------------------------ MODULE MCRefill ------------------------------
(* The seed p1 leads by match 2 to p2, whose history has a newer match, and *)
(* an older one that does not fit the pages of an import.                   *)
EXTENDS Refill

CONSTANTS p1, p2

ChainLobby == [m \in Matches |-> IF m = 2 THEN {p1, p2} ELSE {p2}]
=============================================================================
