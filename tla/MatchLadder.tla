---------------------------- MODULE MatchLadder ----------------------------
(***************************************************************************)
(* What the write path promises of the ladder: a match is rated at most     *)
(* once, in one step for the whole lobby, on top of everything its players  *)
(* had been rated for before.  The rating of a player (mu, sigma, streak,   *)
(* counters) is a fold over the player's matches, so it is represented by   *)
(* the sequence of matches folded into it.                                 *)
(***************************************************************************)
EXTENDS Sequences

CONSTANTS
    Matches,
    Players,
    Rated     \* Rated[m]: the players whose rating match m moves

VARIABLES
    ladder,    \* ladder[p]: the matches folded into player_seasons of p
    processed  \* the matches with matches.processed = true

Init ==
    /\ ladder = [p \in Players |-> <<>>]
    /\ processed = {}

Rate(m) ==
    /\ m \notin processed
    /\ processed' = processed \cup {m}
    /\ ladder' = [p \in Players |-> IF p \in Rated[m] THEN Append(ladder[p], m)
                                    ELSE ladder[p]]

Next == \E m \in Matches : Rate(m)

Spec == Init /\ [][Next]_<<ladder, processed>>
=============================================================================
