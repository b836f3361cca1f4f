------------------------------ MODULE Ratings ------------------------------
(***************************************************************************)
(* What RatingService keeps for a season, number by number:                 *)
(*   services/rating_service.py  process_match, _persist, apply_state_before *)
(*   services/match_pipeline.py  PremadeIntegrity, the live verdict         *)
(*   integrity/fingerprint.py    the co-occurrence window in Redis          *)
(*   services/replay.py          replay_from with its _FixedIntegrity       *)
(*                                                                         *)
(* Matches arrive in the order of play and are rated one at a time: order    *)
(* and interleaving are the subject of ChronoReplay and MatchPipeline.  Every *)
(* player plays one champion.                                               *)
(***************************************************************************)
EXTENDS RatingMath, Payloads

CONSTANTS
    Players,     \* the players of the lobbies that are followed
    Listed,      \* payloads to choose from, see Payloads; all of one mode
    None,        \* no match at hand
    MaxMatches,  \* bound: matches of the season
    MaxFailures  \* bound: ratings that fail after the verdict

\* A lobby of at least two.  Of Riot's payloads: a participant is listed once; an
\* Arena queue plays Arena; places go up to eight, and where there is a curve not
\* beyond its end (past it the code does not cap, which is left out).
ASSUME ListedAssumption ==
    /\ IsFiniteSet(Players) /\ Cardinality(Players) > 1
    /\ None \notin Listed
    /\ \A x \in Listed :
          /\ x.people \in Seq(Range(x.people))
          /\ x.queue \in UNION {QueuesOf(mode) : mode \in DOMAIN ModeShape} => x.cherry
          /\ \A p \in Players : \E k \in DOMAIN x.people :
                \A j \in DOMAIN x.people : x.people[j].who = p <=> j = k
          /\ \A k \in DOMAIN x.people :
                /\ x.people[k].placement \in 0 .. 8 \cup {Absent, Null}
                /\ x.people[k].subteamPlacement \in 0 .. 8 \cup {Absent, Null}
          /\ \A t \in TeamIds(x) : Canonical(Cardinality(TeamIds(x))) =>
                TeamPlacement(x, t) <= Cardinality(TeamIds(x))

VARIABLES
    season,    \* player_seasons, a row per player
    facts,     \* matches: the lobbies that were committed, in order
    came,      \* history: the payloads they came from
    rows,      \* match_participants of the rated ones
    champion,  \* champion_stats, a row per player
    met,       \* the window: met[p]: the <<q, match>> p shared a team with q in
    fetched,   \* the payload at hand
    replaying, \* a replay is on its way
    was,       \* history: the season the replay set out from
    failures   \* bounded

vars == <<season, facts, came, rows, champion, met, fetched, replaying, was, failures>>

\* _load_states creates the rows of new players.
Fresh ==
    [mu |-> Params.mu0, sigma |-> Params.sigma0,
     cr |-> Identity(Params.mu0, Params.sigma0),
     streak |-> 0, played |-> 0, left |-> Params.placement_match_count,
     peak |-> Identity(Params.mu0, Params.sigma0)]

NoStats == [games |-> 0, wins |-> 0, places |-> 0, earned |-> 0, last |-> <<>>]

Init ==
    /\ season = [p \in Players |-> Fresh]
    /\ facts = <<>>
    /\ came = <<>>
    /\ rows = <<>>
    /\ champion = [p \in Players |-> NoStats]
    /\ met = [p \in Players |-> {}]
    /\ fetched = None
    /\ replaying = FALSE
    /\ was = None
    /\ failures = 0

-----------------------------------------------------------------------------
(* The verdict *)

\* subteam_pair_keys: the others of the same subteam.
Mates(l, p) == {q \in Players \ {p} : l.team[q] = l.team[p]}

\* Mutant of Observed: a counter instead of a sorted set of match ids.
ObservedAgain(l, id) ==
    [p \in Players |-> met[p] \cup {<<q, 10 * failures + id>> : q \in Mates(l, p)}]

\* ZADD of the match to every pair of a team: "idempotent on match_id".
Observed(l, id) == [p \in Players |-> met[p] \cup {<<q, id>> : q \in Mates(l, p)}]

\* The matches a pair shares in the window.
Count(window, p, q) == Cardinality({e \in window[p] : e[1] = q})

MaxOf(S) == CHOOSE x \in S : \A y \in S : x >= y
MinOf(S) == CHOOSE x \in S : \A y \in S : x <= y

\* evaluate_premade, on the CRs before the match.
PartyFactors(l, window) ==
    [p \in Players |->
        LET team == Mates(l, p) \cup {p}
            crs == {season[q].cr : q \in team}
        IN IF team = {p} THEN 0
           ELSE PremadeFactor(MaxOf({Count(window, p, q) : q \in team \ {p}}),
                              MaxOf(crs) - MinOf(crs))]

\* _FixedIntegrity knows who was ineligible, and nothing else.
FixedFactors == [p \in Players |-> 0]

-----------------------------------------------------------------------------
(* Rating and persisting *)

\* Mean mu of the others of the lobby.
LobbyMean(p) ==
    SumFunctionOnSet([q \in Players |-> season[q].mu], Players \ {p})
        \div (Cardinality(Players) - 1)

\* The columns of state_before: cr is left out, "cr deriva de (mu, sigma)".
Snapshot(s) == [mu |-> s.mu, sigma |-> s.sigma, streak |-> s.streak,
                played |-> s.played, left |-> s.left, peak |-> s.peak]

Row(p, l, e) ==
    LET s == season[p] IN
    [eligible |-> p \notin l.out, place |-> l.place[p], teams |-> l.teams,
     before |-> Snapshot(s), crBefore |-> s.cr,
     crAfter |-> e.cr, delta |-> e.cr - s.cr,
     mods |-> e.mods, final |-> e.final, confidence |-> e.confidence,
     raw |-> e.raw, composite |-> e.composite, bound |-> e.bound]

\* The read-modify-write of player_seasons.
Moved(s, e, win) ==
    [mu |-> e.mu, sigma |-> e.sigma, cr |-> e.cr,
     streak |-> NextStreak(s.streak, win),
     played |-> s.played + 1,
     left |-> Larger(0, s.left - 1),
     peak |-> Larger(s.peak, e.cr)]

\* window[-10:], with a shorter window.
Recent(s) == IF Len(s) > Params.window THEN Tail(s) ELSE s

\* _apply_champion_stat.
Tallied(c, place, win, delta) ==
    [games |-> c.games + 1, wins |-> c.wins + (IF win THEN 1 ELSE 0),
     places |-> c.places + place, earned |-> c.earned + delta,
     last |-> Recent(Append(c.last, place))]

\* process_match on lobby l with the party factors of a verdict, one commit.
Persist(l, factor) ==
    LET e == [p \in Players |->
                IF p \in l.out THEN Frozen(season[p])
                ELSE Earned(season[p], l.place[p], l.teams, LobbyMean(p), factor[p])]
        win == [p \in Players |-> IsWin(l.place[p], l.teams)]
    IN /\ season' = [p \in Players |->
             IF p \in l.out THEN season[p] ELSE Moved(season[p], e[p], win[p])]
       /\ rows' = Append(rows, [p \in Players |-> Row(p, l, e[p])])
       /\ champion' = [p \in Players |->
             IF p \in l.out THEN champion[p]
             ELSE Tallied(champion[p], l.place[p], win[p], e[p].cr - season[p].cr)]

\* A worker takes the next match.
Fetch(x) ==
    /\ ~replaying /\ fetched = None
    /\ Len(facts) < MaxMatches
    /\ fetched' = x
    /\ UNCHANGED <<season, facts, came, rows, champion, met, replaying, was, failures>>

\* process_match returns without a row.
Reject ==
    /\ fetched # None /\ Rejected(fetched)
    /\ fetched' = None
    /\ UNCHANGED <<season, facts, came, rows, champion, met, replaying, was, failures>>

\* The live path: observe the pairs, rate, commit.
Rate ==
    /\ fetched # None /\ ~Rejected(fetched)
    /\ LET l == LobbyOf(fetched, Players) IN
          /\ met' = Observed(l, Len(facts) + 1)
          /\ Persist(l, PartyFactors(l, met'))
          /\ facts' = Append(facts, l)
    /\ came' = Append(came, fetched)
    /\ fetched' = None
    /\ UNCHANGED <<replaying, was, failures>>

\* The commit fails after the pairs were observed; the job will be redelivered.
RateFails ==
    /\ fetched # None /\ ~Rejected(fetched)
    /\ failures < MaxFailures
    /\ failures' = failures + 1
    /\ met' = Observed(LobbyOf(fetched, Players), Len(facts) + 1)
    /\ UNCHANGED <<season, facts, came, rows, champion, fetched, replaying, was>>

\* Fourteen days pass.
Lapse ==
    /\ met' = [p \in Players |-> {}]
    /\ UNCHANGED <<season, facts, came, rows, champion, fetched, replaying, was, failures>>

-----------------------------------------------------------------------------
(* The replay *)

\* Mutant of Restored: the peak stays.
RestoredButPeak(s, b) ==
    [mu |-> b.mu, sigma |-> b.sigma, cr |-> Identity(b.mu, b.sigma),
     streak |-> b.streak, played |-> b.played, left |-> b.left, peak |-> s.peak]

\* apply_state_before: cr is recomputed from the snapshot.
Restored(s, b) ==
    [mu |-> b.mu, sigma |-> b.sigma, cr |-> Identity(b.mu, b.sigma),
     streak |-> b.streak, played |-> b.played, left |-> b.left, peak |-> b.peak]

\* restore_states_at and wipe_derived from match k on; champion_stats goes whole.
Rewind(k) ==
    /\ ~replaying /\ fetched = None
    /\ k \in 1 .. Len(rows)
    /\ replaying' = TRUE
    /\ was' = season
    /\ season' = [p \in Players |-> Restored(season[p], rows[k][p].before)]
    /\ rows' = SubSeq(rows, 1, k - 1)
    /\ champion' = [p \in Players |-> NoStats]
    /\ UNCHANGED <<facts, came, met, fetched, failures>>

\* The next match of the window.
Rerate ==
    /\ replaying
    /\ Len(rows) < Len(facts)
    /\ Persist(facts[Len(rows) + 1], FixedFactors)
    /\ UNCHANGED <<facts, came, met, fetched, replaying, was, failures>>

Eligible(p) == {i \in 1 .. Len(rows) : rows[i][p].eligible}

\* The column c of the eligible rows of p, summed.
Total(p, column(_)) ==
    SumFunctionOnSet([i \in 1 .. Len(rows) |-> column(rows[i][p])], Eligible(p))

\* (array_agg(placement ORDER BY played_at DESC))[1:10].
NewestFirst(p) ==
    LET at(k) == CHOOSE i \in Eligible(p) :
                    Cardinality({j \in Eligible(p) : j > i}) = k - 1
    IN [k \in 1 .. Smaller(Params.window, Cardinality(Eligible(p))) |->
            rows[at(k)][p].place]

\* Mutant of Rebuilt: WHERE mp.eligible is forgotten.
RebuiltFromAll(p) ==
    LET all(column(_)) == SumFunction([i \in 1 .. Len(rows) |-> column(rows[i][p])]) IN
    [games |-> Len(rows),
     wins |-> all(LAMBDA r : IF r.place <= Params.half THEN 1 ELSE 0),
     places |-> all(LAMBDA r : r.place),
     earned |-> all(LAMBDA r : r.delta),
     last |-> NewestFirst(p)]

\* rebuild_champion_stats: the top half goes by the mode, not by the lobby.
Rebuilt(p) ==
    [games |-> Cardinality(Eligible(p)),
     wins |-> Total(p, LAMBDA r : IF r.place <= Params.half THEN 1 ELSE 0),
     places |-> Total(p, LAMBDA r : r.place),
     earned |-> Total(p, LAMBDA r : r.delta),
     last |-> NewestFirst(p)]

Finish ==
    /\ replaying
    /\ Len(rows) = Len(facts)
    /\ replaying' = FALSE
    /\ was' = None
    /\ champion' = [p \in Players |->
                       IF Eligible(p) = {} THEN NoStats ELSE Rebuilt(p)]
    /\ UNCHANGED <<season, facts, came, rows, met, fetched, failures>>

-----------------------------------------------------------------------------

Next ==
    \/ \E x \in Listed : Fetch(x)
    \/ Reject \/ Rate \/ RateFails \/ Lapse
    \/ \E k \in 1 .. MaxMatches : Rewind(k)
    \/ Rerate \/ Finish

Spec == Init /\ [][Next]_vars

-----------------------------------------------------------------------------
(* What it promises *)

\* "a good placement must ALWAYS be net-positive" (Trinity R4, caps.py): whatever
\* the expectation, the dampeners, the caps, the floor at zero and a replay make
\* of it, a top-half result with a configured curve earns PDL.
GoodPlacementsPay ==
    \A i \in 1 .. Len(rows) : \A p \in Players :
        LET r == rows[i][p] IN
        /\ r.eligible /\ Canonical(r.teams)
        /\ Params.min_gain[r.teams][r.place] > 0
        => r.delta > 0

\* The eligible rows of p in order, and the run of equal results at their end.
ResultsOf(p) ==
    LET at(k) == CHOOSE i \in Eligible(p) :
                    Cardinality({j \in Eligible(p) : j < i}) = k - 1
    IN [k \in 1 .. Cardinality(Eligible(p)) |-> rows[at(k)][p]]

StreakOf(results) ==
    IF results = <<>> THEN 0
    ELSE LET win(k) == IsWin(results[k].place, results[k].teams)
             n == Len(results)
             run == CHOOSE r \in 1 .. n :
                      /\ \A k \in n - r + 1 .. n : win(k) = win(n)
                      /\ r < n => win(n - r) # win(n)
         IN IF win(n) THEN run ELSE -run

\* The counters of a player, kept by increments live and by restore points in a
\* replay, are at every commit those of its rows: matches, placements left, the
\* streak, the peak.
SeasonAgreesWithRows ==
    \A p \in Players :
        LET results == ResultsOf(p)
            s == season[p]
        IN /\ s.played = Len(results)
           /\ s.left = Larger(0, Params.placement_match_count - s.played)
           /\ s.streak = StreakOf(results)
           /\ s.peak = MaxOf({Fresh.peak} \cup {results[k].crAfter : k \in 1 .. Len(results)})

\* "Acumulado puramente derivado, entao recomputar e exato": between replays the
\* totals of champion_stats are those of the rows, kept live or recomputed.
StatsAgreeWithRows ==
    ~replaying =>
        \A p \in Players :
            /\ champion[p].games = Cardinality(Eligible(p))
            /\ champion[p].places = Total(p, LAMBDA r : r.place)
            /\ champion[p].earned = Total(p, LAMBDA r : r.delta)

\* The row written last.  Rows are appended and taken off, never changed, so that
\* what holds of it whenever there is one holds of every row.
NewRow == IF rows = <<>> THEN {} ELSE {Len(rows)}

\* "A nonzero gap that ISN'T explained by the zero floor is an unexpected
\* reconciliation failure" (explain.py): a row that stored its facts is explained to
\* the last unit, also near zero and after replays, unless its CR had lost its
\* identity, or a bound lifted a result to_cr had already floored at zero.
ExplanationCloses ==
    \A i \in NewRow : \A p \in Players :
        LET r == rows[i][p]
        IN r.eligible =>
            \/ TierA(r).exact
            \/ r.crBefore # Identity(r.before.mu, r.before.sigma)
            \/ r.bound # "none" /\ r.crBefore + r.final + r.confidence < 0

\* _apportion: the entries that are shown add up to the total that is shown, and
\* none is a whole PDL away from what it rounds.
ShownLedgerAddsUp ==
    \A i \in NewRow : \A p \in Players :
        LET r == rows[i][p]
            entries == TierA(r).entries
            total == Rounded(r.delta)
            shown == Apportioned(entries, total)
        IN r.eligible =>
            /\ SumFunction(shown) = total
            /\ \A k \in DOMAIN entries :
                  LET off == entries[k] - Units * shown[k] IN -Units < off /\ off < Units

\* Whatever was rated, live or in a replay, was playable for the one it moved: its
\* payload is an Arena match of two teams that was not abandoned, the player has a
\* placement of its own, was there long enough, and shares its place with its team
\* ("a participant only moves rating if eligibleForProgression holds").
RatedAsPlayed ==
    \A i \in 1 .. Len(rows) : \A p \in Players :
        LET x == came[i]
            me == x.people[CHOOSE k \in DOMAIN x.people : x.people[k].who = p]
            mates == {k \in DOMAIN x.people : x.people[k].team = me.team}
        IN IF rows[i][p].eligible
             THEN /\ x.cherry /\ x.duration >= MinPlayedSeconds /\ ~me.surrendered
                  /\ me.played \in Nat => me.played >= MinPlayedSeconds
                  /\ me.placement \in Nat \/ me.subteamPlacement \in Nat
                  /\ rows[i][p].place \in 1 .. 8
                  /\ Cardinality(mates) < Len(x.people)
                  /\ \A q \in Players :
                        (\E k \in mates : x.people[k].who = q)
                            => rows[i][q].place = rows[i][p].place
             ELSE /\ rows[i][p].delta = 0
                  /\ i < Len(rows) => rows[i + 1][p].before = rows[i][p].before

\* The first match of two players in one team is not dampened, however often its
\* rating fails and is delivered again.
StrangersAreNotDampened ==
    \A i \in 1 .. Len(rows) : \A p \in Players :
        (\A j \in 1 .. i - 1 : Mates(facts[i], p) \cap Mates(facts[j], p) = {})
            => rows[i][p].mods.party = 100

\* "um ladder cujo estado FINAL e igual ao que o processamento estritamente
\* cronologico teria produzido" (replay.py): replaying matches that were rated in
\* the order of play gives the ratings they had.
ReplayReproduces == [][replaying /\ ~replaying' => season = was]_vars
=============================================================================
