------------------------------ MODULE MCRollups ------------------------------
EXTENDS ChampionPages

P(m, w, c, t, pl, ok, au) ==
    [match |-> m, who |-> w, champ |-> c, team |-> t, place |-> pl, eligible |-> ok, augs |-> au]

\* Two lobbies: a trio against a pair, one augment taken twice, a champion on
\* both sides, an ineligible participant; three players meet in both.
MCRows == {
    P(1, "a", 1, 1, 1, TRUE, <<7, 7>>), P(1, "b", 2, 1, 1, TRUE, <<7, 9>>),
    P(1, "c", 3, 1, 1, TRUE, <<8>>),    P(1, "d", 1, 2, 5, TRUE, <<9>>),
    P(1, "e", 3, 2, 5, FALSE, <<7>>),
    P(2, "a", 2, 1, 1, TRUE, <<9>>),    P(2, "b", 1, 2, 5, TRUE, <<7>>),
    P(2, "c", 3, 2, 5, TRUE, <<>>) }

ASSUME RowsAreThoseOfPayloads == TeamsHoldPlaces

\* The patch has dropped augment 8.
MCCatalogue == (7 :> 2) @@ (9 :> 3)

\* The page of the opponents reads the daily table beside its own.
Read == {{"combos"}, {"daily", "versus"}, {"picks"}, {"variants"}, {"records"}}
=============================================================================
