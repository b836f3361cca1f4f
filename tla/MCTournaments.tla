---------------------------- MODULE MCTournaments ----------------------------
EXTENDS Tournaments

\* Two players, one of them typed in two ways.
MCCanonical == [s \in {"ana", "ANA", "bia"} |-> IF s = "bia" THEN "BIA" ELSE "ANA"]

E(place, bravura) == [placement |-> place, bravura |-> bravura]

\* Each team wins once with a bravura above the cap; team 1 alone on the sheet.
MCSheets == {<<E(1, 5), E(2, 0)>>, <<E(2, 0), E(1, 5)>>, <<E(1, 1)>>}

MCFines == {<<>>, <<1>>}
=============================================================================
