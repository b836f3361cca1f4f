-------------------------- MODULE MCMatchPipeline --------------------------
(* Two matches that share a player, and the jobs that may carry them.        *)
EXTENDS MatchPipeline, TLC

MCPlayers == 1 .. 3
MCMatches == {"a", "b"}
MCRoster == "a" :> {1, 2} @@ "b" :> {1, 2, 3}
MCFrozen == "a" :> {} @@ "b" :> {2}
MCMatchOf == [j \in Jobs |-> IF j \in {"b1", "b2"} THEN "b" ELSE "a"]
=============================================================================
