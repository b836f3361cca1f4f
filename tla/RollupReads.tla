----------------------------- MODULE RollupReads -----------------------------
(***************************************************************************)
(* What the pages read (services/stats_service.py): the reads that are     *)
(* backed by a rollup table, the reads that go to the participants, and    *)
(* the live computations that the source keeps as the oracles of the       *)
(* tables.                                                                 *)
(***************************************************************************)
EXTENDS Rollups

Champs  == {p.champ : p \in Rows}
Persons == {p.who : p \in Rows}

Floored(minGames) == Max({minGames, WriteFloor})

-----------------------------------------------------------------------------
(***************************************************************************)
(* The reads of the tables.                                                *)
(***************************************************************************)

\* One champion summed over a set of days of champion_daily_stats.
OverDays(s, c, days) ==
    LET rows == {d \in days : c \in DOMAIN daily[s][d]}
        sum(column) == SumFunction([d \in rows |-> daily[s][d][c][column]])
    IN [games  |-> sum("games"),  top4   |-> sum("top4"),
        firsts |-> sum("firsts"), places |-> sum("places")]

\* champion_tierlist: the champions with minGames games or more.
Tierlist(s, minGames) ==
    LET total(c) == OverDays(s, c, Days)
    IN [c \in {x \in Champs : total(x).games > 0 /\ total(x).games >= minGames} |-> total(c)]

\* champion_trend: a champion's share of the games of every recent day.
Trend(s, c, length) ==
    LET on == {d \in Days : d >= today - length /\ c \in DOMAIN daily[s][d]}
        of(d) == MapThenSumSet(LAMBDA x : daily[s][d][x].games, DOMAIN daily[s][d])
    IN [d \in on |-> [games |-> daily[s][d][c].games, of |-> of(d)]]

\* champion_winrate_delta7d: the last week against the week before it.
WeekOverWeek(s, c, week) ==
    [recent |-> OverDays(s, c, {d \in Days : d >= today - week}),
     prior  |-> OverDays(s, c, {d \in Days : d >= today - 2 * week /\ d < today - week})]

\* champion_synergies_n: the combos of a size over the floor.
Synergies(s, size, minGames) ==
    LET rows == table["combos"][s]
        ofSize(k) == (size = 2) <=> (k[3] = 0)
    IN [k \in {x \in DOMAIN rows : ofSize(x) /\ rows[x].games >= Floored(minGames)} |-> rows[k]]

\* champion_matchups_duo: the partners of a champion, from either end of a pair.
DuoPartners(s, c, minGames) ==
    LET pairs == Synergies(s, 2, minGames)
        key(x) == IF c < x THEN <<c, x, 0>> ELSE <<x, c, 0>>
    IN [x \in {y \in Champs \ {c} : key(y) \in DOMAIN pairs} |->
           [games |-> pairs[key(x)].games, top4 |-> pairs[key(x)].top4,
            places |-> pairs[key(x)].places]]

\* Mutant of Opponents: the opponent's side of the row.
OpponentsSwapped(s, c, minGames) ==
    LET rows == table["versus"][s]
        mine == {k \in DOMAIN rows : rows[k].games >= Floored(minGames) /\ c \in {k[1], k[2]}}
        other(k) == IF k[1] = c THEN k[2] ELSE k[1]
        side(k) == IF k[1] = c THEN rows[k].hi ELSE rows[k].lo
    IN [x \in {other(k) : k \in mine} |->
           LET k == CHOOSE j \in mine : other(j) = x
           IN [games |-> rows[k].games, top4 |-> side(k).top4, places |-> side(k).places]]

\* champion_matchups_versus: the opponents, with the champion's own side.
Opponents(s, c, minGames) ==
    LET rows == table["versus"][s]
        mine == {k \in DOMAIN rows : rows[k].games >= Floored(minGames) /\ c \in {k[1], k[2]}}
        other(k) == IF k[1] = c THEN k[2] ELSE k[1]
        side(k) == IF k[1] = c THEN rows[k].lo ELSE rows[k].hi
    IN [x \in {other(k) : k \in mine} |->
           LET k == CHOOSE j \in mine : other(j) = x
           IN [games |-> rows[k].games, top4 |-> side(k).top4, places |-> side(k).places]]

\* champion_build_picks, champion_build_variants: a pick's games, and the
\* games of the champion they are a share of.
OfChampion(name, s, c, minGames) ==
    LET rows == table[name][s]
    IN [k \in {x \in DOMAIN rows : x[1] = c /\ rows[x].games >= minGames} |->
           [games |-> rows[k].games, top1 |-> rows[k].firsts, top4 |-> rows[k].top4,
            places |-> rows[k].places,
            of |-> IF c \in DOMAIN Tierlist(s, 0) THEN Tierlist(s, 0)[c].games ELSE 0]]

\* top_build_picks: a pick over all champions, from the rows the table kept.
TopPick(s, pick) ==
    LET rows == table["picks"][s]
    IN MapThenSumSet(LAMBDA k : rows[k].games, {k \in DOMAIN rows : k[2] = pick})

\* season_records: the cached rows in the order of the rail.
Records(s) ==
    LET rows == table["records"][s]
    IN SelectSeq(RecordOrder, LAMBDA k : k \in DOMAIN rows)

-----------------------------------------------------------------------------
(***************************************************************************)
(* The reads of the participants.  They take every participant of the      *)
(* season, the ones that are not eligible too.                             *)
(***************************************************************************)
Played(s, w) == {p \in Rows : p.who = w /\ landed[p.match] = s}

\* Mutant of HeadToHead: a tie is nobody's win.
HeadToHeadStrict(w, v) ==
    LET of(u)  == {p \in Rows : p.who = u /\ landed[p.match] # Nobody}
        shared == {t \in of(w) \X of(v) : t[1].match = t[2].match}
    IN [games    |-> Cardinality(shared),
        wins     |-> Cardinality({t \in shared : t[1].place < t[2].place}),
        together |-> Cardinality({t \in shared : t[1].team = t[2].team})]

\* head_to_head: the subject wins a shared match with the better placement or
\* the same one; a pair that mostly shares a subteam is a duo.
HeadToHead(w, v) ==
    LET of(u)  == {p \in Rows : p.who = u /\ landed[p.match] # Nobody}
        shared == {t \in of(w) \X of(v) : t[1].match = t[2].match}
    IN [games    |-> Cardinality(shared),
        wins     |-> Cardinality({t \in shared : t[1].place <= t[2].place}),
        together |-> Cardinality({t \in shared : t[1].team = t[2].team})]

\* The matches of a player, newest first (ROW_NUMBER over played_at DESC);
\* matches of one instant come in any order, here that of their names.
Newest(s, w) ==
    LET games    == Played(s, w)
        newer(q, p) == \/ played[q.match] > played[p.match]
                       \/ played[q.match] = played[p.match] /\ q.match > p.match
        upTo(p) == {q \in games : q = p \/ newer(q, p)}
    IN [i \in 1..Cardinality(games) |-> CHOOSE p \in games : Cardinality(upTo(p)) = i]

\* top1_streak_by_player: the first break less one, or every game.
TopOneStreak(s, w) ==
    LET seq    == Newest(s, w)
        breaks == {i \in DOMAIN seq : seq[i].place # 1}
    IN IF breaks = {} THEN Len(seq) ELSE Min(breaks) - 1

\* win_loss_by_player: a win is a finish in the top half, of four teams here.
WinLoss(s, w, half) ==
    LET games == Played(s, w)
        wins  == Cardinality({p \in games : p.place <= half})
    IN [games |-> Cardinality(games), wins |-> wins, losses |-> Cardinality(games) - wins]

-----------------------------------------------------------------------------
(***************************************************************************)
(* The oracles, from the point of view of a champion: what the pages claim *)
(* to show.                                                                *)
(***************************************************************************)
SoloLive(s, c) == {p \in Counted(s) : p.champ = c}

PartnersLive(s, c, x) ==
    {[id |-> t, place |-> t[1].place] :
        t \in {u \in SoloLive(s, c) \X SoloLive(s, x) : SameTeam(u[1], u[2])}}

OpponentsLive(s, c, x) ==
    {[id |-> t, place |-> t[1].place] :
        t \in {u \in SoloLive(s, c) \X SoloLive(s, x) :
                  u[1].match = u[2].match /\ u[1].team # u[2].team}}

TriosLive(s, trio) ==
    {x \in Matches \X {p.team : p \in Rows} :
        trio \subseteq {p.champ : p \in {q \in Counted(s) : q.match = x[1] /\ q.team = x[2]}}}

PickersLive(s, c, pick) == {p \in Counted(s) : p.champ = c /\ \E i \in DOMAIN p.augs : p.augs[i] = pick}

BuildersLive(s, c, g) ==
    {p \in Counted(s) : /\ p.champ = c /\ g \in Prismatic
                        /\ \E i \in DOMAIN p.augs : /\ p.augs[i] = g
                                                    /\ \A j \in 1..(i - 1) : p.augs[j] \notin Prismatic}

-----------------------------------------------------------------------------
(***************************************************************************)
(* Properties.                                                             *)
(***************************************************************************)

RowType == [games : Nat, top4 : Nat, firsts : Nat, places : Nat]

\* Every variable has its type; a rollup row is never without a game, and its
\* sums fit each other.
TypeOK ==
    /\ today \in Days
    /\ status \in [Seasons -> {"none"} \cup DOMAIN NextStatus \cup {"off_season"}]
    /\ cache \in Seasons \cup {Nobody}
    /\ landed \in [Matches -> Seasons \cup {Nobody}]
    /\ played \in [Matches -> Days]
    /\ mirror \subseteq Seasons \X Matches
    /\ \A s \in Seasons, d \in Days : \A c \in DOMAIN daily[s][d] :
          LET r == daily[s][d][c]
          IN /\ r \in RowType
             /\ r.firsts <= r.top4 /\ r.top4 <= r.games /\ r.games \in 1..r.places
    /\ \A s \in Seasons : \A k \in DOMAIN table["combos"][s] :
          table["combos"][s][k].games >= WriteFloor
    /\ tick = Idle \/ tick.job \in Jobs
    /\ fresh \in BOOLEAN /\ inTime \subseteq Matches /\ faults \in 0..MaxFaults

\* No page ever shows a game that was not played: whatever the ticks overlap
\* with, a rollup is never ahead of the participants it was computed from.
\* (rebuild_*: delete-then-insert, committed at once.)
NeverAhead ==
    \A s \in Seasons :
        \A c \in Champs :
            LET row == OverDays(s, c, Days)
                duo == DuoPartners(s, c, 0)
                foe == Opponents(s, c, 0)
            IN /\ row.games <= Cardinality(SoloLive(s, c))
               /\ \A x \in DOMAIN duo : duo[x].games <= Cardinality(PartnersLive(s, c, x))
               /\ \A x \in DOMAIN foe : foe[x].games <= Cardinality(OpponentsLive(s, c, x))

\* What a payload says of its teams: one place for the members, no place twice.
TeamsHoldPlaces ==
    \A p, q \in Rows : p.match = q.match => (p.team = q.team <=> p.place = q.place)

\* The relation between two players reads the same from both sides: they share
\* the same matches, and a match they shared is a win of one of them, or of
\* both when they were a team.  (head_to_head)
HeadToHeadMirrors ==
    \A w, v \in Persons :
        w # v => LET h == HeadToHead(w, v)
                     g == HeadToHead(v, w)
                 IN /\ h.games = g.games /\ h.together = g.together
                    /\ h.wins + g.wins = h.games + h.together

\* The streak of firsts is the longest run of first places that ends with the
\* latest match.  (top1_streak_by_player)
StreakIsARun ==
    \A s \in Seasons, w \in Persons :
        LET seq    == Newest(s, w)
            run(n) == \A i \in 1..n : seq[i].place = 1
        IN TopOneStreak(s, w) = Max({n \in 0..Len(seq) : run(n)})

\* The pages of two players tell one story: each match they shared is in both
\* records once, with one outcome, and a streak is what the list of matches under
\* it shows.  (head_to_head, top1_streak_by_player)
ProfilesAgree == HeadToHeadMirrors /\ StreakIsARun

\* A row is shown if and only if its games reach the floor, and then it shows
\* exactly the observations of the oracle.
Shows(rows, key, obs, floor) ==
    IF Cardinality(obs) >= floor /\ obs # {}
      THEN /\ key \in DOMAIN rows
           /\ rows[key].games = Cardinality(obs)
           /\ rows[key].places = MapThenSumSet(LAMBDA o : o.place, obs)
           /\ rows[key].top4 = Cardinality({o \in obs : o.place <= 4})
      ELSE key \notin DOMAIN rows

\* The pages of each table show what a live computation would.
CombosAreExact(s) ==
    /\ \A c \in Champs : \A x \in Champs \ {c} :
          Shows(DuoPartners(s, c, ReadFloor), x, PartnersLive(s, c, x), Floored(ReadFloor))
    /\ \A k \in DOMAIN Synergies(s, 3, 0) :
          Synergies(s, 3, 0)[k].games = Cardinality(TriosLive(s, {k[1], k[2], k[3]}))

VersusIsExact(s) ==
    \A c \in Champs : \A x \in Champs \ {c} :
        Shows(Opponents(s, c, ReadFloor), x, OpponentsLive(s, c, x), Floored(ReadFloor))

BuildsAreExact(name, s, Live(_, _)) ==
    \A c \in Champs, pick \in UNION {ToSet(p.augs) : p \in Rows} :
        LET shown == OfChampion(name, s, c, WriteFloor)
            live  == Cardinality(Live(c, pick))
        IN IF live >= WriteFloor
             THEN <<c, pick>> \in DOMAIN shown /\ shown[<<c, pick>>].games = live
             ELSE <<c, pick>> \notin DOMAIN shown

RecordsAreExact(s) ==
    LET holders(key) == RecordHolders(key, Counted(s))
    IN /\ ToSet(Records(s)) = {k \in ToSet(RecordOrder) : holders(k) # {}}
       /\ \A key \in ToSet(Records(s)) : table["records"][s][key] \in holders(key)

\* Every match that landed with a day of the window to spare is in the
\* tierlist, and in the trend of its day.
TierlistIsComplete(s) ==
    \A c \in Champs, d \in Days :
        LET early == {p \in SoloLive(s, c) : p.match \in inTime /\ played[p.match] = d}
        IN early # {} => /\ d \in DOMAIN Trend(s, c, MaxDay)
                         /\ Trend(s, c, MaxDay)[d].games >= Cardinality(early)

PagesAreExact(s) ==
    /\ "combos"   \in due => CombosAreExact(s)
    /\ "versus"   \in due => VersusIsExact(s)
    /\ "picks"    \in due => BuildsAreExact("picks", s, LAMBDA c, g : PickersLive(s, c, g))
    /\ "variants" \in due => BuildsAreExact("variants", s, LAMBDA c, g : BuildersLive(s, c, g))
    /\ "records"  \in due => RecordsAreExact(s)
    /\ "daily"    \in due => TierlistIsComplete(s)

\* champion_build_picks: "share of the CHAMPION's total eligible games (from
\* champion_tierlist, min_games=0 so an under-floor champion still gets its true
\* total)": a share that settles is a share of the whole.
SharesSettle ==
    <>[](Current # Nobody => \A c \in Champs :
            \A k \in DOMAIN OfChampion("picks", Current, c, WriteFloor) :
                LET row == OfChampion("picks", Current, c, WriteFloor)[k]
                IN row.games <= row.of)

\* resolve_active_season_id: "the same resolution of the current one that the
\* scheduler uses": the purge keeps the snapshots of the season that is rated.
RatedSeasonKeepsItsSnapshots ==
    \A m \in Matches :
        landed[m] # Nobody /\ landed[m] = ActiveSeason => <<ActiveSeason, m>> \in mirror
=============================================================================
