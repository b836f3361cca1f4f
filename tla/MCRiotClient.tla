---------------------------- MODULE MCRiotClient ----------------------------
\* Two calls in one process and one in another.
EXTENDS RiotClient

MCAt == [c \in Calls |-> IF c = "c" THEN "q" ELSE "p"]
=============================================================================
