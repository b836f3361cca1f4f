------------------------------ MODULE Payloads ------------------------------
(***************************************************************************)
(* From a match-v5 payload to a lobby that can be rated:                    *)
(*   riot/arena.py               parse_arena_match                          *)
(*   services/match_pipeline.py  what is filtered, build_raw_participants   *)
(*                                                                         *)
(* A payload has a queue id, whether its gameMode is CHERRY, a duration in   *)
(* seconds, three times of which any may be 0, and its participants in the   *)
(* order Riot lists them.  A participant's number may be Absent (no such     *)
(* key) or Null.  Champions, items, augments and telemetry pass through.     *)
(***************************************************************************)
EXTENDS Integers, Sequences, FiniteSets

CONSTANTS
    Absent, Null,  \* a key that is missing, and one whose value is null
    Cutoff         \* settings.match_min_started_at_ms, in seconds; 0 is none

ASSUME PayloadsAssumption == Absent # Null /\ {Absent, Null} \cap Nat = {} /\ Cutoff \in Nat

\* _MODE_SHAPE: teams, and players of a team.
ModeShape == [DUOS |-> <<8, 2>>, TRIOS |-> <<6, 3>>]
QueuesOf(mode) == IF mode = "DUOS" THEN {1700, 1710} ELSE {1740, 1750}

MinPlayedSeconds == 90

-----------------------------------------------------------------------------

\* playerSubteamId, an id that is missing being 0.
TeamIds(x) == {x.people[i].team : i \in DOMAIN x.people}
Members(x, t) == {i \in DOMAIN x.people : x.people[i].team = t}

First(S) == CHOOSE i \in S : \A j \in S : i <= j

\* _resolve_mode: an unknown queue of game mode CHERRY goes by the most common
\* team size, the one met first on a tie.  Empty when it is no Arena match.
ResolveMode(x) ==
    LET known == {mode \in DOMAIN ModeShape : x.queue \in QueuesOf(mode)}
        size(t)  == Cardinality(Members(x, t))
        sizes    == {size(t) : t \in TeamIds(x)}
        votes(n) == Cardinality({t \in TeamIds(x) : size(t) = n})
        met(n)   == First(UNION {Members(x, t) : t \in {u \in TeamIds(x) : size(u) = n}})
        common   == {n \in sizes : \A k \in sizes \ {n} :
                        votes(n) > votes(k) \/ (votes(n) = votes(k) /\ met(n) < met(k))}
    IN IF known # {} THEN known
       ELSE IF x.cherry THEN {mode \in DOMAIN ModeShape : ModeShape[mode][2] \in common}
       ELSE {}

\* p.get("subteamPlacement", p.get("placement")): the second one counts only when
\* the first one's key is missing.
SaidPlace(person) ==
    IF person.subteamPlacement = Absent THEN person.placement ELSE person.subteamPlacement

Placement(person) == IF SaidPlace(person) \in {Absent, Null} THEN 0 ELSE SaidPlace(person)

\* Mutant of DeriveEligibility: the time a participant was credited is not read.
DeriveEligibilityByGame(x, person) ==
    /\ x.duration >= MinPlayedSeconds
    /\ ~person.surrendered
    /\ SaidPlace(person) \notin {Absent, Null} /\ SaidPlace(person) >= 1

\* _derive_eligibility: the transport-level gate.
DeriveEligibility(x, person) ==
    /\ x.duration >= MinPlayedSeconds
    /\ ~person.surrendered
    /\ SaidPlace(person) \notin {Absent, Null} /\ SaidPlace(person) >= 1
    /\ person.played \in {Absent, Null} \/ person.played >= MinPlayedSeconds

\* The placement of a team: the first positive one among its members.
TeamPlacement(x, t) ==
    LET placed == {i \in Members(x, t) : Placement(x.people[i]) >= 1}
    IN IF placed = {} THEN 0 ELSE Placement(x.people[First(placed)])

\* gameStartTimestamp, else gameCreation, else the end less the duration.
StartedAt(x) ==
    IF x.start # 0 THEN x.start
    ELSE IF x.creation # 0 THEN x.creation
    ELSE IF x.end # 0 THEN x.end - x.duration
    ELSE 0

\* before_cutoff: a match whose start is unknown is kept.
BeforeCutoff(start) == Cutoff # 0 /\ 0 < start /\ start < Cutoff

\* process_match: what is filtered is an outcome, not an error; a lobby smaller
\* than the shape of its mode is rated.
Rejected(x) ==
    \/ ResolveMode(x) = {}
    \/ BeforeCutoff(StartedAt(x))
    \/ Cardinality(TeamIds(x)) < 2

\* build_raw_participants for the players that are followed.
LobbyOf(x, players) ==
    LET at(p) == First({i \in DOMAIN x.people : x.people[i].who = p})
    IN [team  |-> [p \in players |-> x.people[at(p)].team],
        place |-> [p \in players |-> TeamPlacement(x, x.people[at(p)].team)],
        out   |-> {p \in players : ~DeriveEligibility(x, x.people[at(p)])},
        teams |-> Cardinality(TeamIds(x))]
=============================================================================
