-------------------------- MODULE MCPlayerLocks --------------------------
(* Lobbies over three players: two that cross, and one inside both.          *)
EXTENDS PlayerLocks

ThreePlayers == 1 .. 3
CrossingLobbies == {{1, 2}, {2, 3}, {2}}
=============================================================================
