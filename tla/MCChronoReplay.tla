-------------------------- MODULE MCChronoReplay --------------------------
(* Matches named by the time they were played at.  When the second arrives  *)
(* last, the floor is armed with a match of both players before it.          *)
EXTENDS ChronoReplay, TLC

MCPlayers == {"p", "q"}
MCRoster == [m \in Matches |->
                CASE m = "at1" -> {"p", "q"} [] m = "at2" -> {"q"}
                  [] m = "at4" -> {"p"} [] OTHER -> {"q"}]
MCPlayedAt == [m \in Matches |->
                CASE m = "at1" -> 1 [] m = "at2" -> 2 [] m = "at4" -> 4
                  [] OTHER -> 5]
=============================================================================
