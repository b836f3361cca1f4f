---------------------------- MODULE ChampionPages ----------------------------
(***************************************************************************)
(* The champion pages (api/routers/champions.py): what they make of the    *)
(* reads of RollupReads.  Percentages and averages are rounded as the      *)
(* source rounds them, champions are ordered and cut into letters, small   *)
(* samples are ranked by the Wilson bound, picks the catalogue does not    *)
(* know are dropped.  A page is an operator of the tables; names, icons    *)
(* and labels are left out.  Where the source sorts by a key that ties,    *)
(* the order of the ties is that of the database: any order, here one.     *)
(***************************************************************************)
EXTENDS RollupReads

CONSTANTS
    Catalogue,   \* the picks of the current patch, with the stage of their
                 \*   rarity: 1 silver, 2 gold, 3 prismatic
    TableFloor,  \* min_games of champion_tierlist, as the table of /champions reads it
    Pool,        \* _SYNERGY_POOL
    Shown,       \* the caps of the lists a page shows
    Week         \* the days of the week-over-week delta

ASSUME PagesAssumption ==
    /\ Catalogue \in [DOMAIN Catalogue -> 1..3]
    /\ {TableFloor, Pool, Shown, Week} \subseteq Nat \ {0}

-----------------------------------------------------------------------------
(***************************************************************************)
(* Rounding and ranking.                                                   *)
(***************************************************************************)

\* round(): to the nearest, and a half to the even neighbour.
Rounded(n, d) ==
    LET q == n \div d
        r == 2 * (n % d)
    IN IF r > d \/ (r = d /\ q % 2 = 1) THEN q + 1 ELSE q

Percent(k, n) == IF n > 0 THEN Rounded(100 * k, n) ELSE 0

\* An average of placements, in hundredths; a share, in tenths of a percent.
Average(row) == Rounded(100 * row.places, row.games)
Share(k, n)  == IF n > 0 THEN Rounded(1000 * k, n) ELSE 0

\* The lower Wilson bound of k successes in n games, in thousandths, z = 2.576:
\* (k + z^2/2 - z sqrt(k (n - k)/n + z^2/4)) / (n + z^2).
Root(x) == CHOOSE r \in 0..2000 : r * r <= x /\ x < (r + 1) * (r + 1)
WilsonTable ==
    [n \in 1..Cardinality(Rows) |-> [k \in 0..n |->
        LET root == Root((1000000 * k * (n - k)) \div n + 1658944)
        IN ((1000 * k + 3318 - (2576 * root) \div 1000) * 1000) \div (1000 * n + 6636)]]
WilsonLowerBound(k, n) == IF n = 0 THEN 0 ELSE WilsonTable[n][k]

\* _delta_pp: no swing without a game on either side of it.
DeltaPP(recent, prior) ==
    IF recent.games = 0 \/ prior.games = 0 THEN 0
    ELSE Percent(recent.top4, recent.games) - Percent(prior.top4, prior.games)

\* The letter of a position: the first one whose share of the list it fits in.
LetterAt(cutoffs, position, total) ==
    LET fits == {i \in DOMAIN cutoffs : 100 * position <= cutoffs[i][2] * total}
    IN cutoffs[Min(fits)][1]

\* Mutant of Letter: the position counted from 0, as the list is.
LetterFromZero(position, total) ==
    LetterAt(<< <<"S+", 8>>, <<"S", 23>>, <<"A", 45>>, <<"B", 70>>, <<"C", 88>>, <<"D", 100>> >>,
             position - 1, total)

\* _tier_for: six letters for champions and comps.
ChampionCutoffs == << <<"S+", 8>>, <<"S", 23>>, <<"A", 45>>, <<"B", 70>>, <<"C", 88>>, <<"D", 100>> >>
Letter(position, total) == LetterAt(ChampionCutoffs, position, total)

\* _assign_build_tiers: five letters for picks, the lowest average first; rows
\* is a function from picks.
BuildCutoffs == << <<"S", 10>>, <<"A", 30>>, <<"B", 55>>, <<"C", 80>>, <<"D", 100>> >>
BuildTiers(rows) ==
    LET order == SetToSortSeq(DOMAIN rows, LAMBDA i, j : Average(rows[i]) < Average(rows[j]))
    IN [k \in DOMAIN rows |->
           LetterAt(BuildCutoffs, CHOOSE i \in DOMAIN order : order[i] = k, Len(order))]

\* A slice of a list.
Capped(seq, n) == SubSeq(seq, 1, Min({n, Len(seq)}))

-----------------------------------------------------------------------------
(***************************************************************************)
(* /champions: every champion over the floor, in the order of a metric.    *)
(***************************************************************************)
Metrics == {"top4", "first", "avgplace", "pick"}

\* _sort_key: smaller is better; a metric that is not one is top4.
SortKey(metric, row) ==
    CASE metric = "first"    -> - Percent(row.firsts, row.games)
      [] metric = "avgplace" -> Average(row)
      [] metric = "pick"     -> - row.games
      [] OTHER               -> - Percent(row.top4, row.games)

Ordered(rows, metric) ==
    SetToSortSeq(DOMAIN rows, LAMBDA c, d : SortKey(metric, rows[c]) < SortKey(metric, rows[d]))

\* champion_stats: the games of a player on a champion, written with the match;
\* only eligible participants are rated.
Mains(s, c, minGames) ==
    LET of(w)   == {p \in SoloLive(s, c) : p.who = w}
        row(w)  == [who |-> w] @@ Totals(of(w))
        better(x, y) == \/ x.games > y.games
                        \/ x.games = y.games /\ x.top4 > y.top4
    IN SetToSortSeq({row(w) : w \in {v \in Persons : of(v) # {} /\ Cardinality(of(v)) >= minGames}},
                    better)

\* get_champions: the rows with their rank, letter, delta and reference main.
ChampionTable(s, metric) ==
    LET rows  == Tierlist(s, TableFloor)
        order == Ordered(rows, metric)
        games == MapThenSumSet(LAMBDA c : rows[c].games, DOMAIN rows)
    IN [i \in DOMAIN order |->
           LET c == order[i]
               week == WeekOverWeek(s, c, Week)
           IN [champ |-> c, tier |-> Letter(i, Len(order)), games |-> rows[c].games,
               top4  |-> Percent(rows[c].top4, rows[c].games),
               first |-> Percent(rows[c].firsts, rows[c].games),
               avg   |-> Average(rows[c]), pick |-> Share(rows[c].games, games),
               delta |-> DeltaPP(week.recent, week.prior),
               main  |-> Capped(Mains(s, c, 1), 1)]]

\* The bands of a table: the letters in their order, each with its rows.
Bands(page) ==
    SelectSeq([i \in DOMAIN ChampionCutoffs |->
                  [key |-> ChampionCutoffs[i][1],
                   rows |-> SelectSeq(page, LAMBDA r : r.tier = ChampionCutoffs[i][1])]],
              LAMBDA band : band.rows # <<>>)

\* get_champion_trend: a point for every recent day with a game.
TrendPage(s, c, length) ==
    LET days == Trend(s, c, length)
    IN [d \in DOMAIN days |-> [games |-> days[d].games, pick |-> Share(days[d].games, days[d].of)]]

\* season_activity: the matches of the last days that have any.
Activity(s, length) ==
    LET days == {played[m] : m \in {x \in Matches : landed[x] = s}}
        kept == {d \in days : Cardinality({e \in days : e > d}) < length}
    IN [d \in kept |-> Cardinality({m \in Matches : landed[m] = s /\ played[m] = d})]

-----------------------------------------------------------------------------
(***************************************************************************)
(* /champions/synergy, /synergy/groups and /synergy/tierlist: the most     *)
(* played comps are pulled, then ranked by the Wilson bound.               *)
(***************************************************************************)
ByWilson(rows, keys, Hits(_)) ==
    LET bound(k) == WilsonLowerBound(Hits(rows[k]), rows[k].games)
    IN SetToSortSeq(keys, LAMBDA x, y :
           \/ bound(x) > bound(y)
           \/ bound(x) = bound(y) /\ rows[x].games > rows[y].games)

SynergyGroups(s, size, limit) ==
    LET rows == Synergies(s, size, ReadFloor)
        pool == Capped(SetToSortSeq(DOMAIN rows, LAMBDA x, y : rows[x].games > rows[y].games), Pool)
        kept == Capped(ByWilson(rows, ToSet(pool), LAMBDA r : r.top4), limit)
    IN [i \in DOMAIN kept |->
           [comp |-> kept[i], games |-> rows[kept[i]].games,
            win |-> Percent(rows[kept[i]].top4, rows[kept[i]].games),
            first |-> Percent(rows[kept[i]].firsts, rows[kept[i]].games),
            avg |-> Average(rows[kept[i]])]]

SynergyTable(s, size) ==
    LET groups == SynergyGroups(s, size, Shown)
    IN [i \in DOMAIN groups |-> groups[i] @@ [tier |-> Letter(i, Len(groups))]]

-----------------------------------------------------------------------------
(***************************************************************************)
(* /champions/{id}/matchups, of both kinds.                                *)
(***************************************************************************)
Partners(s, c, kind) ==
    IF kind = "versus" THEN Opponents(s, c, Floored(ReadFloor))
    ELSE DuoPartners(s, c, Floored(ReadFloor))

\* The champion's own row, of all champions, however few its games.
OwnRow(s, c) == LET all == Tierlist(s, 0) IN IF c \in DOMAIN all THEN {all[c]} ELSE {}

\* get_champion_matchups: the surest winners and the surest losers, each against
\* the champion's own rate; no page without a row of its own.
Matchups(s, c, kind, limit) ==
    LET rows == Partners(s, c, kind)
        list(Hits(_), own) ==
            LET order == Capped(SetToSortSeq(DOMAIN rows, LAMBDA x, y :
                             WilsonLowerBound(Hits(rows[x]), rows[x].games)
                             > WilsonLowerBound(Hits(rows[y]), rows[y].games)), limit)
            IN [i \in DOMAIN order |->
                   LET r == rows[order[i]]
                       win == Percent(r.top4, r.games)
                   IN [champ |-> order[i], games |-> r.games, win |-> win,
                       delta |-> win - Percent(own.top4, own.games), avg |-> Average(r)]]
    IN IF DOMAIN rows = {} THEN {}
       ELSE {[sample |-> MapThenSumSet(LAMBDA x : rows[x].games, DOMAIN rows),
              base   |-> Percent(own.top4, own.games),
              best   |-> list(LAMBDA r : r.top4, own),
              worst  |-> list(LAMBDA r : r.games - r.top4, own)] : own \in OwnRow(s, c)}

-----------------------------------------------------------------------------
(***************************************************************************)
(* The build pages.                                                        *)
(***************************************************************************)

\* champion_build_picks, champion_build_variants: the rows with their letters.
\* They are lettered before the picks of an old patch are dropped.
Picks(name, s, c) ==
    LET rows  == OfChampion(name, s, c, WriteFloor)
        mine  == [g \in {k[2] : k \in DOMAIN rows} |-> rows[<<c, g>>]]
        tiers == BuildTiers(mine)
    IN [g \in DOMAIN mine |->
           [games |-> mine[g].games, tier |-> tiers[g], avg |-> Average(mine[g]),
            top1 |-> Percent(mine[g].top1, mine[g].games),
            top4 |-> Percent(mine[g].top4, mine[g].games),
            rate |-> Share(mine[g].games, mine[g].of)]]

\* _resolve_entries: a pick the catalogue does not know is dropped.
Resolve(rows) == [g \in DOMAIN rows \cap DOMAIN Catalogue |-> rows[g]]

BuildRank == [S |-> 0, A |-> 1, B |-> 2, C |-> 3, D |-> 4]

\* Best letter first, then the cap.
Bucket(rows, stage) ==
    Capped(SetToSortSeq({g \in DOMAIN rows : Catalogue[g] = stage},
                        LAMBDA g, h : BuildRank[rows[g].tier] < BuildRank[rows[h].tier]), Shown)

\* _champion_overall_tier: the letter among ALL champions; there is no S+ here.
OverallTier(s, c) ==
    LET order == Ordered(Tierlist(s, 0), "top4")
        at    == CHOOSE i \in DOMAIN order : order[i] = c
        key   == Letter(at, Len(order))
    IN IF key = "S+" THEN "S" ELSE key

\* get_champion_build: empty for a champion without a game in the daily table.
BuildPage(s, c) ==
    LET rows == Resolve(Picks("picks", s, c))
    IN {[games |-> own.games, tier |-> OverallTier(s, c),
         augments |-> [stage \in 1..3 |-> Bucket(rows, stage)]] : own \in OwnRow(s, c)}

\* get_top_build: the picks over all champions, the most played first; its games
\* are those of every champion.
TopBuild(s) ==
    LET known == {k[2] : k \in DOMAIN table["picks"][s]} \cap DOMAIN Catalogue
        all   == Tierlist(s, 0)
    IN [games     |-> MapThenSumSet(LAMBDA c : all[c].games, DOMAIN all),
        champions |-> Cardinality(DOMAIN all),
        augments  |-> Capped(SetToSortSeq({g \in known : TopPick(s, g) >= WriteFloor},
                                 LAMBDA g, h : TopPick(s, g) > TopPick(s, h)), Shown)]

\* get_champion_build_variants: "games" is of every variant, those that are not
\* listed too.
VariantsPage(s, c) ==
    LET rows == Picks("variants", s, c)
        listed == Resolve(rows)
    IN [games |-> MapThenSumSet(LAMBDA g : rows[g].games, DOMAIN rows),
        variants |-> SetToSortSeq(DOMAIN listed, LAMBDA g, h : rows[g].games > rows[h].games)]

\* get_champion_rounds: for each stage of the draft its best pick, and the best
\* stage of all, the first of them on a tie.
Rounds(s, c) ==
    LET rows   == Resolve(Picks("picks", s, c))
        at(i)  == {g \in DOMAIN rows : Catalogue[g] = i}
        top(i) == Max({rows[g].top4 : g \in at(i)})
        stages == {i \in 1..3 : at(i) # {}}
    IN [rounds |-> [i \in stages |-> top(i)],
        peak   |-> IF stages = {} THEN 0
                   ELSE Min({i \in stages : \A j \in stages : top(i) >= top(j)})]

-----------------------------------------------------------------------------
(***************************************************************************)
(* Properties: the pages against what a live computation would show.       *)
(***************************************************************************)
AllInTime(s) == \A m \in Matches : landed[m] = s => m \in inTime

LiveRate(obs) == Percent(Cardinality({o \in obs : o.place <= 4}), Cardinality(obs))

\* The table of champions: everyone over the floor and nobody else; a better
\* live rate is never ranked below a worse one; a letter goes to no more of the
\* list than its share, and the bands hold every row once; the build page of a
\* champion says the same letter when no champion is under the floor.
TableIsFair(s) ==
    LET page  == ChampionTable(s, "top4")
        live(c) == SoloLive(s, c)
        n     == Len(page)
        upTo(j) == {i \in 1..n : \E k \in 1..j : page[i].tier = ChampionCutoffs[k][1]}
    IN /\ {page[i].champ : i \in 1..n} = {c \in Champs : Cardinality(live(c)) >= TableFloor}
       /\ \A i, j \in 1..n : LiveRate(live(page[i].champ)) > LiveRate(live(page[j].champ)) => i < j
       /\ \A j \in DOMAIN ChampionCutoffs :
             Cardinality(upTo(j)) = (ChampionCutoffs[j][2] * n) \div 100
       /\ FoldSeq(LAMBDA band, k : k + Len(band.rows), 0, Bands(page)) = n
       /\ n = Cardinality(DOMAIN Tierlist(s, 0)) =>
             \A i \in 1..n : \E b \in BuildPage(s, page[i].champ) :
                 b.tier = IF page[i].tier = "S+" THEN "S" ELSE page[i].tier

\* The page of opponents: none that is left out is surer than one that is shown,
\* the sample it names is every meeting over the floor, and the rate it measures
\* them against is the champion's own.
OpponentsAreRanked(s) ==
    \A c \in Champs :
        LET live(x) == OpponentsLive(s, c, x)
            over    == {x \in Champs \ {c} : Cardinality(live(x)) >= Floored(ReadFloor)}
            sure(x) == WilsonLowerBound(Cardinality({o \in live(x) : o.place <= 4}),
                                        Cardinality(live(x)))
        IN \A page \in Matchups(s, c, "versus", Shown) :
              LET best == {page.best[i].champ : i \in DOMAIN page.best}
              IN /\ best \subseteq over
                 /\ Cardinality(best) = Min({Shown, Cardinality(over)})
                 /\ \A x \in best, y \in over \ best : sure(x) >= sure(y)
                 /\ page.sample = MapThenSumSet(LAMBDA x : Cardinality(live(x)), over)
                 /\ AllInTime(s) => page.base = LiveRate(SoloLive(s, c))

\* The page of comps: no pair among the most played ones is surer than one that
\* is shown.
CompsAreRanked(s) ==
    LET pairs   == {k \in Champs \X Champs : k[1] < k[2] /\ PartnersLive(s, k[1], k[2]) # {}}
        live(k) == PartnersLive(s, k[1], k[2])
        n(k)    == Cardinality(live(k))
        over    == {k \in pairs : n(k) >= Floored(ReadFloor)}
        sure(k) == WilsonLowerBound(Cardinality({o \in live(k) : o.place <= 4}), n(k))
        groups  == SynergyTable(s, 2)
        shown   == {<<groups[i].comp[1], groups[i].comp[2]>> : i \in DOMAIN groups}
    IN \E pulled \in SUBSET over :
          /\ Cardinality(pulled) = Min({Pool, Cardinality(over)})
          /\ \A x \in pulled, y \in over \ pulled : n(x) >= n(y)
          /\ shown \subseteq pulled
          /\ Cardinality(shown) = Min({Shown, Cardinality(pulled)})
          /\ \A x \in shown, y \in pulled \ shown : sure(x) >= sure(y)

\* The draft page: its peak is the stage of the pick with the best live rate
\* among those the patch still has.
PeakIsThePeak(s) ==
    \A c \in Champs :
        LET known == {g \in DOMAIN Catalogue : Cardinality(PickersLive(s, c, g)) >= WriteFloor}
            rate(g) == LiveRate(PickersLive(s, c, g))
        IN /\ (Rounds(s, c).peak = 0) <=> (known = {})
           /\ known # {} => /\ \E g \in known : Catalogue[g] = Rounds(s, c).peak
                                               /\ \A h \in known : rate(g) >= rate(h)
                            /\ \A g \in known : Rounds(s, c).rounds[Catalogue[g]] >= rate(g)

PagesMakeSense(s) ==
    /\ "daily"    \in due /\ AllInTime(s) => TableIsFair(s)
    /\ "combos"   \in due => CompsAreRanked(s)
    /\ "versus"   \in due => OpponentsAreRanked(s)
    /\ "picks"    \in due => PeakIsThePeak(s)
    /\ "variants" \in due =>
          \A c \in Champs : VariantsPage(s, c).games =
              MapThenSumSet(LAMBDA g : LET n == Cardinality(BuildersLive(s, c, g))
                                       IN IF n >= WriteFloor THEN n ELSE 0, Prismatic)

\* The rollups catch up: once matches and seasons have come to rest, the pages
\* of the current season come to show exactly what was played, in the order and
\* with the letters a live computation would give.  (the hourly rebuilds; the
\* daily one for what its window reached in time.)
PagesCatchUp == <>[](Current # Nobody => PagesAreExact(Current) /\ PagesMakeSense(Current))
=============================================================================
