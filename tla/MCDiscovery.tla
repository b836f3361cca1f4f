---------------------------- MODULE MCDiscovery ----------------------------
\* Two players; the first is registered by a match of the second.
EXTENDS Discovery

MCLobby == [m \in 1 .. N |-> IF m = 1 THEN {1, 2} ELSE {2}]
=============================================================================
