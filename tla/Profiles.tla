------------------------------ MODULE Profiles ------------------------------
(***************************************************************************)
(* What the pages of a player make of its rows:                             *)
(*   api/routers/player.py, match.py, leaderboard.py    the pages           *)
(*   api/routers/_common.py            cr_of, cr_band, the chips of a card   *)
(*   services/pdl_explain_service.py   the drill-down                       *)
(*   services/leaderboard_service.py   the order of the board, from the rows *)
(*   services/stats_service.py         champion rows, delta7d, tags         *)
(*                                                                         *)
(* A page is an operator of the state; names, icons and labels are left     *)
(* out.  Rows are in the order of play, so a day is a number of matches.    *)
(***************************************************************************)
EXTENDS Ratings

CONSTANTS
    ChampionOf,  \* the champion each player plays
    PageSize,    \* bounds of the lists: a page, the form, the chart, the spark
    HotDelta     \* _HOT_DELTA_THRESHOLD, in PDL

ASSUME ProfilesAssumption ==
    /\ ChampionOf \in [Players -> Nat]
    /\ PageSize \in Nat \ {0} /\ HotDelta \in Nat

\* round() of a quotient: to the nearest, a half to the even neighbour.
Quotient(n, d) ==
    LET q == n \div d
        r == 2 * (n % d)
    IN IF r > d \/ (r = d /\ q % 2 = 1) THEN q + 1 ELSE q

Percent(k, n) == IF n > 0 THEN Quotient(100 * k, n) ELSE 0

Latest(seq, n) == SubSeq(seq, Larger(1, Len(seq) - n + 1), Len(seq))

-----------------------------------------------------------------------------
(* _common.py: the shown CR and the card of a result *)

\* Mutant of CrOf: the mean estimate instead of the cautious one.
CrOfMean(mu, sigma) == Rounded(ToCr(mu, 0))

\* cr_of: "the ONLY place CR is derived in the read API".
CrOf(mu, sigma) == Rounded(ToCr(mu, sigma))

\* cr_band: from the shown CR to that of two thirds of the uncertainty.
CrBand(mu, sigma) ==
    LET lo == CrOf(mu, sigma)
        hi == CrOf(mu, sigma - sigma \div 3)
    IN [lo |-> Smaller(lo, hi), hi |-> Larger(lo, hi)]

TierFromRank(rank) ==
    CASE rank <= 0   -> "none"
      [] rank = 1    -> "top1"
      [] rank <= 10  -> "top10"
      [] rank <= 50  -> "top50"
      [] rank <= 100 -> "top100"
      [] rank <= 500 -> "top500"
      [] OTHER       -> "none"

\* The team count a card is explained with is that of the format, not the row's.
FormatTeams == 2 * Params.half
AsShown(r)  == [r EXCEPT !.teams = FormatTeams]

\* explain: the parts of the ledger of a self-contained row, and its fidelity.
Ledger(e, bound, exact) ==
    [colocacao |-> e[1] + e[2] + e[3], sequencia |-> e[4], protecao |-> e[5],
     grupo |-> e[6], dispersao |-> e[7], confianca |-> e[8], teto |-> e[9],
     resto |-> e[10], bound |-> bound, parcial |-> ~exact]

LedgerOf(t) == Ledger(t.entries, t.bound, t.exact)

\* map_modifiers: the chips of a card, each with its share; one that is left out
\* has none.  A partial explanation hides the chip of the cap.
ChipsOf(r, l) ==
    LET shown == {k \in {"colocacao", "sequencia", "protecao", "grupo", "dispersao",
                         "confianca", "teto", "resto"} :
                    CASE k = "colocacao" -> l.colocacao # 0 \/ r.mods.base # 0
                      [] k = "sequencia" -> r.mods.streak # 100
                      [] k = "grupo"     -> r.mods.party < 100
                      [] k = "confianca" -> 20 * l.confianca \notin -Units .. Units
                      [] k = "teto"      -> l.bound # "none" /\ ~l.parcial
                      [] OTHER           -> l[k] # 0}
    IN IF r.eligible THEN [k \in shown |-> l[k]] ELSE <<>>

Chips(r) == ChipsOf(r, LedgerOf(TierA(r)))

-----------------------------------------------------------------------------
(* pdl_explain_service.py: the drill-down *)

\* _placement_curve: the caps of every placement without adjustment.
PlacementCurve(teams) ==
    IF Canonical(teams)
      THEN [place \in DOMAIN Params.base_cap[teams] |-> Bounds(place, teams, 100)]
      ELSE <<>>

\* _to_dto: the ledger with running totals, and the whole lobby l beside it.
Drawn(l, p, e, shown) ==
    [fidelity |-> e.fidelity, bound |-> e.bound, lost |-> e.lost,
     total  |-> Rounded(l[p].delta),
     before |-> Rounded(l[p].crBefore), after |-> Rounded(l[p].crAfter),
     pdl     |-> shown,
     running |-> [k \in DOMAIN shown |-> SumFunctionOnSet(shown, 1 .. k)],
     curve   |-> PlacementCurve(l[p].teams),
     lobby   |-> {[who |-> q, place |-> l[q].place, delta |-> Rounded(l[q].delta)] : q \in Players}]

Explained(l, p, e) == Drawn(l, p, e, Apportioned(e.entries, Rounded(l[p].delta)))

\* explain_participant of a match that stored its cap facts ...
DrillDown(i, p) == Explained(rows[i], p, Explain(rows[i][p], TRUE, {}))

\* ... and of one rated before there were any, with the state_before of its whole
\* lobby or without.  Its own team count is missing too, so that of the lobby
\* stands in.
LegacyRows(i) == [q \in Players |-> RatedEarlier(rows[i][q])]

\* The mean of the others, if everybody's state_before is there.
Means(i, p, complete) ==
    IF complete
      THEN {SumFunctionOnSet([q \in Players |-> rows[i][q].before.mu], Players \ {p})
               \div (Cardinality(Players) - 1)}
      ELSE {}

LegacyDrillDown(i, p, complete) ==
    Explained(LegacyRows(i), p,
              Explain(LegacyRows(i)[p], FALSE, Means(i, p, complete)))

-----------------------------------------------------------------------------
(* player.py: the history *)

\* The filters of a history; the upper half is that of the format.
Fits(r, result) ==
    CASE result = "first"  -> r.place = 1
      [] result = "top"    -> r.place <= Params.half
      [] result = "bottom" -> r.place > Params.half
      [] OTHER             -> TRUE

\* Mutant of Filtered: the history of the rated results alone.
FilteredEligible(p, result) ==
    {i \in 1 .. Len(rows) : rows[i][p].eligible /\ Fits(rows[i][p], result)}

\* The WHERE of get_player_matches: every row of the player, rated or not.
Filtered(p, result) == {i \in 1 .. Len(rows) : Fits(rows[i][p], result)}

SumOf(p, S, column(_)) ==
    SumFunctionOnSet([i \in 1 .. Len(rows) |-> column(rows[i][p])], S)

\* The aggregates are of everything the filter keeps, not of the page.
Summary(p, result) ==
    LET S == Filtered(p, result)
        n == Cardinality(S)
        share(T) == Percent(Cardinality(T), n)
    IN [games |-> n,
        first |-> share({i \in S : rows[i][p].place = 1}),
        tops  |-> share({i \in S : rows[i][p].place <= Params.half}),
        avg   |-> IF n = 0 THEN 0 ELSE Quotient(100 * SumOf(p, S, LAMBDA r : r.place), n),
        cr    |-> SumOf(p, S, LAMBDA r : r.delta),
        places |-> [k \in 1 .. 8 |-> Cardinality({i \in S : rows[i][p].place = k})]]

\* The rows of a page, newest first.
HistoryPage(p, result, offset) ==
    LET S == Filtered(p, result)
        at(k) == CHOOSE i \in S : Cardinality({j \in S : j > i}) = k - 1
    IN [k \in 1 .. Larger(0, Smaller(PageSize, Cardinality(S) - offset)) |->
           LET i == at(k + offset)
               r == rows[i][p]
           IN [match |-> i, place |-> r.place, delta |-> Rounded(r.delta),
               before |-> Rounded(r.crBefore), after |-> Rounded(r.crAfter),
               chips |-> Chips(AsShown(r))]]

-----------------------------------------------------------------------------
(* match.py: the page of a match *)

\* get_match: the teams, the best placed first, each with the cards of its players.
MatchPage(i) ==
    LET places == {rows[i][p].place : p \in Players}
        team(k) == {p \in Players : rows[i][p].place = k}
        at(n)  == CHOOSE k \in places : Cardinality({j \in places : j < k}) = n - 1
    IN [n \in 1 .. Cardinality(places) |->
           [placement |-> at(n),
            players   |-> {[who |-> p, delta |-> Rounded(rows[i][p].delta),
                            before |-> Rounded(rows[i][p].crBefore),
                            after |-> Rounded(rows[i][p].crAfter),
                            chips |-> Chips(AsShown(rows[i][p]))] : p \in team(at(n))}]]

-----------------------------------------------------------------------------
(* stats_service.py: what a profile and the board say beside the CR *)

\* champion_stats: the row of the champion; firsts come from the last results.
ChampionView(p) ==
    LET c == champion[p] IN
    [games |-> c.games, top |-> Percent(c.wins, c.games),
     first |-> IF c.last # <<>>
                 THEN Percent(Cardinality({k \in DOMAIN c.last : c.last[k] = 1}), Len(c.last))
                 ELSE Percent(c.wins, c.games),
     avg   |-> IF c.games = 0 THEN 0 ELSE Quotient(100 * c.places, c.games),
     cr    |-> Rounded(c.earned)]

\* streak: the sign says what it is a streak of.
StreakView(p) ==
    LET s == season[p].streak IN
    [kind |-> IF s > 0 THEN "vitorias" ELSE IF s < 0 THEN "derrotas" ELSE "neutro",
     length |-> IF s < 0 THEN -s ELSE s]

\* cr_snapshots: one for every rated result.  delta7d_by_player: the latest
\* against the latest that was there a week ago, or against the first.
Delta7d(p, weekAgo) ==
    LET S   == Eligible(p)
        old == {i \in S : i <= weekAgo}
        base == IF old # {} THEN MaxOf(old) ELSE MinOf(S)
    IN IF S = {} THEN 0 ELSE Rounded(rows[MaxOf(S)][p].crAfter - rows[base][p].crAfter)

\* champion_placement_rank_by_player: RANK by average placement, then games,
\* among the players of the champion with two games or more.
ChampRank(p) ==
    LET ranked == {q \in Players : /\ ChampionOf[q] = ChampionOf[p] /\ champion[q].games >= 2}
        better(q) == \/ champion[q].places * champion[p].games
                           < champion[p].places * champion[q].games
                     \/ /\ champion[q].places * champion[p].games
                              = champion[p].places * champion[q].games
                        /\ champion[q].games > champion[p].games
    IN IF p \in ranked THEN {1 + Cardinality({q \in ranked : better(q)})} ELSE {}

\* build_player_tags: one tag of the champion, and the momentum.
Tags(p, weekAgo) ==
    (IF \E n \in ChampRank(p) : n <= 25 THEN <<"champrank">>
     ELSE IF champion[p].games > 0 THEN <<"otp">> ELSE <<>>)
    \o (IF Delta7d(p, weekAgo) > HotDelta THEN <<"hot">> ELSE <<>>)

\* The results a profile is drawn from, rated or not, and their W/L.
Shown(p) == Latest([i \in 1 .. Len(rows) |-> rows[i][p]], PageSize)
Wins(p)   == Cardinality({i \in 1 .. Len(rows) : rows[i][p].place <= Params.half})
Losses(p) == Len(rows) - Wins(p)

\* _cr_history: the chart, with the band of today around every point.
Chart(p) ==
    LET cr   == CrOf(season[p].mu, season[p].sigma)
        band == CrBand(season[p].mu, season[p].sigma)
        point(x) == [cr |-> x, lo |-> x - (band.hi - band.lo), hi |-> x + (band.hi - band.lo)]
    IN IF rows = <<>> THEN <<point(cr)>>
       ELSE [k \in DOMAIN Shown(p) |-> point(Rounded(Shown(p)[k].crAfter))]

\* get_player_rank: one more than the players above.
Rank(p) == 1 + Cardinality({q \in Players : season[q].cr > season[p].cr})

\* get_player: the profile.
Profile(p, weekAgo) ==
    LET s == season[p]
        n == Len(rows)
    IN [cr      |-> CrOf(s.mu, s.sigma),
        rank    |-> Rank(p), tier |-> TierFromRank(Rank(p)),
        provisional |-> s.left > 0, streak |-> StreakView(p),
        delta7d |-> Delta7d(p, weekAgo),
        wins    |-> Wins(p), losses |-> Losses(p), winrate |-> Percent(Wins(p), n),
        top4    |-> Percent(Cardinality({i \in 1 .. n : rows[i][p].place <= 4}), n),
        form    |-> [k \in DOMAIN Shown(p) |-> Shown(p)[k].place],
        chart   |-> Chart(p),
        champions |-> ChampionView(p), tags |-> Tags(p, weekAgo)]

\* _top_champions, _champion_stat: the champions beside a row of the board.
TopChampions(p) ==
    LET c == champion[p] IN
    IF c.games = 0 THEN {}
    ELSE {[champ |-> ChampionOf[p], games |-> c.games, winrate |-> Percent(c.wins, c.games)]}

\* A row of the board: the CR is the stored one.
BoardRowOf(p, me) ==
    [cr |-> Rounded(season[p].cr), tier |-> me.tier, delta7d |-> me.delta7d,
     wins |-> me.wins, losses |-> me.losses, top4 |-> me.top4, tags |-> me.tags,
     mains |-> TopChampions(p)]

BoardRow(p, weekAgo) == BoardRowOf(p, Profile(p, weekAgo))

\* ORDER BY cr DESC and nothing else: any order of equal players.
BoardOrders ==
    {order \in [1 .. Cardinality(Players) -> Players] :
        \A m, n \in DOMAIN order :
            m < n => order[m] # order[n] /\ season[order[m]].cr >= season[order[n]].cr}

\* _page_from_db: a slice of the order the query came back with.
BoardPage(order, offset) ==
    [k \in 1 .. Larger(0, Smaller(PageSize, Len(order) - offset)) |->
        LET p == order[offset + k] IN
        [rank |-> offset + k, who |-> p, cr |-> Rounded(season[p].cr)]]

-----------------------------------------------------------------------------
(* What the pages promise *)

\* The counters a player is rated with, and those of its champion, agree with the
\* rows.
CountersAgreeWithRows == SeasonAgreesWithRows /\ StatsAgreeWithRows

\* The card of a result adds up to the change of CR, as the drill-down does and
\* as its comment demands ("the chips above stop short of cr_delta ... which is
\* exactly the 'doesn't add up' bug").
CardAddsUp(i, p) ==
    LET r == rows[i][p] IN
    r.eligible => SumFunction(Chips(AsShown(r))) = r.delta

\* The same of every row: it does not hold of a lobby with a team count of its
\* own, nor where a bounded result starts from a CR without its identity.
EveryCardAddsUp == \A i \in NewRow : \A p \in Players : CardAddsUp(i, p)

\* _apportion, running_total, map_modifiers: the drill-down of a result ends at
\* the total it announces, of whatever epoch and fidelity it is, no entry is a whole
\* PDL away from what it rounds, and the card on the history page adds up wherever
\* the explanation is complete.
LedgersAddUp ==
    /\ ShownLedgerAddsUp
    /\ \A i \in NewRow : \A p \in Players :
          LET r == rows[i][p]
          IN r.eligible =>
                /\ \A d \in {DrillDown(i, p)} \cup
                            {LegacyDrillDown(i, p, complete) : complete \in BOOLEAN} :
                      d.running[Len(d.running)] = d.total
                /\ r.teams = FormatTeams /\ TierA(r).exact => CardAddsUp(i, p)

\* "PROVABLY not bound" (explain.py): a row of an earlier epoch that is explained as
\* derived, its cap not bound, was not.  params.py promises it reduced fidelity
\* "instead of silently reconstructing a confidently-wrong number".
ClearedWasNotBound ==
    \A i \in NewRow : \A p \in Players :
        LegacyDrillDown(i, p, TRUE).fidelity = "derivado" => LegacyRows(i)[p].bound = "none"

\* The shown CR of the profile, which is derived from mu and sigma, is the stored
\* CR of the board and the end of the chart.  A CR below zero is the exception: a
\* replay may leave one to a player who was not rated again.
CrsAgree(p) ==
    season[p].cr >= 0 =>
        \A me \in {Profile(p, 0)} :
            /\ me.cr = BoardRow(p, 0).cr
            /\ me.chart[Len(me.chart)].cr = me.cr

\* Each result starts where the one before it ended, except at the floor, where a
\* replay starts from what the floor hid.
ChainHolds(p) ==
    \A i \in 2 .. Len(rows) :
        \/ rows[i][p].crBefore = rows[i - 1][p].crAfter
        \/ rows[i - 1][p].crAfter <= 0 /\ rows[i][p].crBefore < 0

\* The filters split a history in two, and what is shown of the halves adds up.
FiltersPartition(p) ==
    LET all == Summary(p, "all")
        top == Summary(p, "top")
        bottom == Summary(p, "bottom")
    IN /\ all.games = Len(rows)
       /\ all.games = top.games + bottom.games /\ all.cr = top.cr + bottom.cr
       /\ all.games = champion[p].games
                        + Cardinality({i \in 1 .. Len(rows) : ~rows[i][p].eligible})
       /\ top.games = Wins(p) /\ bottom.games = Losses(p)

\* The pages of a history show every result once, the newest first.
PagesCover(p) ==
    \A result \in {"all", "first", "top", "bottom"} :
        LET S == Filtered(p, result)
            pages == HistoryPage(p, result, 0) \o HistoryPage(p, result, PageSize)
        IN \A both \in {[k \in DOMAIN pages |-> pages[k].match]} :
           /\ {both[k] : k \in DOMAIN both} \subseteq S
           /\ Len(both) = Smaller(2 * PageSize, Cardinality(S))
           /\ \A k \in 2 .. Len(both) : both[k] < both[k - 1]

\* The page of a match shows everybody once, in the order of the teams, and what
\* the history of each of them shows.
MatchAgrees(i) ==
    \A page \in {MatchPage(i)} :
    /\ \A n \in 2 .. Len(page) : page[n - 1].placement < page[n].placement
    /\ \A p \in Players : \A history \in {HistoryPage(p, "all", 0)} :
          \E mine \in {history[line] : line \in DOMAIN history}, n \in DOMAIN page :
              /\ mine.match = i /\ page[n].placement = mine.place
              /\ [who |-> p, delta |-> mine.delta, before |-> mine.before,
                  after |-> mine.after, chips |-> mine.chips] \in page[n].players
              /\ \A k \in DOMAIN page : (\E e \in page[k].players : e.who = p) => k = n

\* The kind of streak a profile shows is that of the last rated result, and who is
\* above on the board has the higher CR on its profile.
ShownTogether(p) ==
    /\ Eligible(p) # {} =>
          LET r == rows[MaxOf(Eligible(p))][p]
          IN StreakView(p).kind = IF IsWin(r.place, r.teams) THEN "vitorias" ELSE "derrotas"
    /\ \A q \in Players :
          Rank(q) < Rank(p) => Rounded(season[q].cr) >= Rounded(season[p].cr)

\* Whatever order a query gives to equal players, nobody stands above its rank on
\* the profile, and who is alone with its CR stands exactly there.
BoardAgrees ==
    \A order \in BoardOrders, offset \in {0, PageSize} :
        LET page == BoardPage(order, offset) IN
        \A k \in DOMAIN page :
            LET p == page[k].who IN
            /\ Rank(p) <= page[k].rank /\ page[k].cr = BoardRow(p, 0).cr
            /\ (\A q \in Players \ {p} : season[q].cr # season[p].cr)
                  => Profile(p, 0).tier = TierFromRank(page[k].rank)

\* Two requests for two pages of one board show everybody: not so where players
\* are equal at the seam.
PagesShowEverybody ==
    ~replaying =>
        \A first, second \in BoardOrders :
            {BoardPage(first, 0)[k].who : k \in DOMAIN BoardPage(first, 0)}
              \cup {BoardPage(second, PageSize)[k].who : k \in DOMAIN BoardPage(second, PageSize)}
            = UNION {{order[n] : n \in DOMAIN order} : order \in BoardOrders}

\* The change over a week is what the results of the week sum to.
WeekAddsUp(p) ==
    \A weekAgo \in 0 .. Len(rows) :
        LET S == Eligible(p)
            old == {i \in S : i <= weekAgo}
            since == IF old # {} THEN MaxOf(old) ELSE MinOf(S)
        IN S # {} /\ (\A i \in 1 .. Len(rows) : rows[i][p].crAfter > 0)
             => Delta7d(p, weekAgo)
                  = Rounded(SumOf(p, {i \in S : i > since}, LAMBDA r : r.delta))

\* Between replays the pages of a player tell one story, however often its
\* matches were rated again.  (player.py, leaderboard.py, stats_service.py)
PagesTellOneStory ==
    ~replaying =>
        /\ BoardAgrees
        /\ \A i \in NewRow : MatchAgrees(i)
        /\ \A p \in Players :
              /\ CrsAgree(p) /\ ChainHolds(p) /\ FiltersPartition(p)
              /\ PagesCover(p) /\ ShownTogether(p) /\ WeekAddsUp(p)

\* The two pages of a player agree on its CR always.
ProfileShowsTheBoardsCr ==
    ~replaying => \A p \in Players : CrOf(season[p].mu, season[p].sigma) = Rounded(season[p].cr)
=============================================================================
