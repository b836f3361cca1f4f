------------------------------- MODULE Rollups -------------------------------
(***************************************************************************)
(* The materialised statistics behind the public pages.                    *)
(*                                                                         *)
(* Matches land in the season the ingestion path takes for the active one  *)
(* (services/match_pipeline.py).  Cron jobs of the scheduler recompute the *)
(* rollup tables of the season THEY take for the current one               *)
(* (workers/scheduler.py, services/stats_service.py), each in a            *)
(* transaction of its own, and the pages read the tables and never the     *)
(* matches.  Operators open and advance seasons (api/routers/admin.py,     *)
(* services/season_service.py).                                            *)
(*                                                                         *)
(* A table is a function from its keys to rows; a row holds the four sums  *)
(* of the source: games, top4, firsts, places.  A percentage is the pair   *)
(* it is computed from.                                                    *)
(***************************************************************************)
EXTENDS Integers, Sequences, FiniteSets, FiniteSetsExt, SequencesExt

CONSTANTS
    Rows,        \* the participants of every match: [match, who, champ, team,
                 \*   place, eligible, augs], written when their match lands
    Prismatic,   \* the augments the catalogue calls prismatic
    LastSeason,  \* the seasons are 1..LastSeason in the order of starts_at
    MaxDay,      \* bound: the days are 0..MaxDay
    Window,      \* settings.champion_daily_window_days
    WriteFloor,  \* settings.synergy_combo_min_games / champion_build_min_games
    ReadFloor,   \* SYNERGY_MIN_GAMES
    RecordFloor, \* min_games of _compute_season_records
    Followed,    \* bound: the sets of tables a behaviour may follow
    OnTime,      \* TRUE: a daily tick commits on every day before it ends
    MaxFaults,   \* bound on the ticks that fail
    MaxStep      \* bound on the steps a season is taken along its life cycle

Seasons  == 1..LastSeason
Matches  == {p.match : p \in Rows}
Days     == 0..MaxDay
Nobody   == 0

(***************************************************************************)
(* The jobs, each named after the table it rebuilds.                       *)
(***************************************************************************)
Cumulative == {"combos", "versus", "picks", "variants", "records"}
Jobs       == Cumulative \cup {"daily"}

ASSUME RollupAssumption ==
    /\ IsFiniteSet(Rows)
    /\ \A p \in Rows : p.champ \in Nat /\ p.place \in Nat
    /\ LastSeason \in Nat \ {0} /\ MaxDay \in Nat /\ Window \in Nat
    /\ WriteFloor \in Nat \ {0} /\ ReadFloor \in Nat
    /\ RecordFloor \in Nat /\ MaxFaults \in Nat
    /\ Followed \subseteq SUBSET Jobs
    /\ MaxStep \in 0..3 /\ OnTime \in BOOLEAN

VARIABLES
    today,    \* the day, UTC
    status,   \* [Seasons -> status]; "none" before the row exists
    cache,    \* the season a worker has cached for the active one, or Nobody
    landed,   \* [Matches -> Seasons \cup {Nobody}]: matches.season_id
    played,   \* [Matches -> Days]: matches.played_at
    mirror,   \* cr_snapshots_recent: the <<season, match>> with snapshots
    daily,    \* champion_daily_stats: [Seasons -> [Days -> rows by champion]]
    table,    \* [Cumulative -> [Seasons -> rows]]
    tick,     \* the maintenance tick that runs, if any
    due,      \* bound: the tables this behaviour follows; no table is computed
              \*   from another
    fresh,    \* history: a daily tick has committed today
    inTime,   \* history: the matches that landed with a day of window to spare
    faults    \* bound on failures

rollupVars == <<today, status, cache, landed, played, mirror, daily, table, tick,
          due, fresh, inTime, faults>>

seasonVars == <<status, cache, due>>
dataVars   == <<landed, played, mirror, inTime>>

Idle == [job |-> "none"]

-----------------------------------------------------------------------------
(***************************************************************************)
(* Seasons.                                                                *)
(***************************************************************************)

\* The legal step of the life cycle, services/season_service.py.
NextStatus == [active |-> "soft_lock", soft_lock |-> "ended", ended |-> "off_season"]

StepsTaken == [none |-> 0, active |-> 0, soft_lock |-> 1, ended |-> 2, off_season |-> 3]

Existing == {s \in Seasons : status[s] # "none"}
Active   == {s \in Seasons : status[s] = "active"}

\* The season the scheduler takes for the current one: the latest to start.
Current == IF Existing = {} THEN Nobody ELSE Max(Existing)

\* The season the ingestion path takes for the active one: the latest to start
\* among the ACTIVE ones, or the latest of all.
ActiveSeason == IF Active # {} THEN Max(Active) ELSE Current

\* POST /admin/seasons: a season is born ACTIVE, whatever its starts_at.
CreateSeason(s) ==
    /\ status[s] = "none"
    /\ status' = [status EXCEPT ![s] = "active"]
    /\ UNCHANGED <<today, cache, due, dataVars, daily, table, tick, fresh, faults>>

\* POST /admin/seasons/{id}/transition: one legal step and nothing else.
Transition(s) ==
    /\ status[s] \in DOMAIN NextStatus
    /\ StepsTaken[status[s]] < MaxStep
    /\ status' = [status EXCEPT ![s] = NextStatus[@]]
    /\ UNCHANGED <<today, cache, due, dataVars, daily, table, tick, fresh, faults>>

\* The 30 s cache of resolve_active_season_id runs out.
CacheExpires ==
    /\ cache # Nobody
    /\ cache' = Nobody
    /\ UNCHANGED <<today, status, due, dataVars, daily, table, tick, fresh, faults>>

Resolved == IF cache # Nobody THEN cache ELSE ActiveSeason

-----------------------------------------------------------------------------
(***************************************************************************)
(* A match is rated: its row, its participants and their CR snapshots are  *)
(* committed together.  History imports and outages bring matches of       *)
(* earlier days.                                                           *)
(***************************************************************************)
Land(m, d) ==
    /\ landed[m] = Nobody
    /\ d <= today
    /\ Resolved # Nobody
    /\ landed' = [landed EXCEPT ![m] = Resolved]
    /\ played' = [played EXCEPT ![m] = d]
    /\ mirror' = mirror \cup {<<Resolved, m>>}
    /\ cache'  = Resolved
    /\ inTime' = IF d > today - Window /\ Resolved = Current
                   THEN inTime \cup {m} ELSE inTime
    /\ UNCHANGED <<today, status, due, daily, table, tick, fresh, faults>>

NewDay ==
    /\ today < MaxDay
    /\ OnTime /\ "daily" \in due => fresh
    /\ today' = today + 1
    /\ fresh' = FALSE
    /\ UNCHANGED <<seasonVars, dataVars, daily, table, tick, faults>>

-----------------------------------------------------------------------------
(***************************************************************************)
(* What the rebuild statements select.  An observation is a record with    *)
(* the key it is grouped by and the placement it adds.                     *)
(***************************************************************************)

\* The participants every rebuild starts from: eligible, of the season.
Counted(s) == {p \in Rows : landed[p.match] = s /\ p.eligible}

Totals(obs) ==
    [games  |-> Cardinality(obs),
     top4   |-> Cardinality({o \in obs : o.place <= 4}),
     firsts |-> Cardinality({o \in obs : o.place = 1}),
     places |-> SumFunction([o \in obs |-> o.place])]

\* GROUP BY key HAVING count(*) >= floor.
Grouped(obs, floor) ==
    LET keys  == {o.key : o \in obs}
        of(k) == {o \in obs : o.key = k}
    IN [k \in {j \in keys : Cardinality(of(j)) >= floor} |-> Totals(of(k))]

Solo(ps) == {[id |-> p, key |-> p.champ, place |-> p.place] : p \in ps}

SameTeam(a, b) == a.match = b.match /\ a.team = b.team

\* The self-joins of the combos: champion ids strictly increase along a tuple,
\* so that a subteam's pair or trio forms once; the anchor's placement is the
\* subteam's.  0 stands for the member a pair has not.
PairTuples(ps) ==
    {t \in ps \X ps : SameTeam(t[1], t[2]) /\ t[1].champ < t[2].champ}

PairsOf(ps) ==
    {[id |-> t, key |-> <<t[1].champ, t[2].champ, 0>>, place |-> t[1].place] :
        t \in PairTuples(ps)}

TriosOf(ps) ==
    {[id |-> t, key |-> <<t[1][1].champ, t[1][2].champ, t[2].champ>>, place |-> t[1][1].place] :
        t \in {u \in PairTuples(ps) \X ps :
                 SameTeam(u[1][1], u[2]) /\ u[1][2].champ < u[2].champ}}

\* Two subteams of one match: each side of a pair keeps its own placements.
Meetings(ps) ==
    {t \in ps \X ps : /\ t[1].match = t[2].match
                      /\ t[1].team # t[2].team
                      /\ t[1].champ < t[2].champ}

VersusRows(ps, floor) ==
    LET side(i) ==
            Grouped({[id |-> t, key |-> <<t[1].champ, t[2].champ>>, place |-> t[i].place] :
                        t \in Meetings(ps)}, floor)
        lo == side(1)
        hi == side(2)
    IN [k \in DOMAIN lo |->
           [games |-> lo[k].games,
            lo |-> [top4 |-> lo[k].top4, places |-> lo[k].places],
            hi |-> [top4 |-> hi[k].top4, places |-> hi[k].places]]]

\* A pick counts once for a participant, however often its array repeats it.
PicksOf(ps) ==
    UNION {{[id |-> p, key |-> <<p.champ, g>>, place |-> p.place] : g \in ToSet(p.augs)} :
              p \in ps}

\* The first prismatic augment of a participant names its build.
VariantsOf(ps) ==
    {[id |-> p, place |-> p.place,
      key |-> <<p.champ, SelectSeq(p.augs, LAMBDA g : g \in Prismatic)[1]>>] :
        p \in {q \in ps : ToSet(q.augs) \cap Prismatic # {}}}

\* Those with the best share of successes; a tie goes to any of them.
Best(ps, minGames, Hit(_)) ==
    LET who    == {p.who : p \in ps}
        of(w)  == {p \in ps : p.who = w}
        hits(w) == Cardinality({p \in of(w) : Hit(p)})
        ranked == {w \in who : Cardinality(of(w)) >= minGames}
    IN {w \in ranked : \A v \in ranked :
            hits(w) * Cardinality(of(v)) >= hits(v) * Cardinality(of(w))}

Most(ps) ==
    LET n(w) == Cardinality({p \in ps : p.who = w})
    IN {w \in {p.who : p \in ps} : \A v \in {p.who : p \in ps} : n(w) >= n(v)}

\* _compute_season_records: who may hold a record.  Two of the five: the one
\* that depends on the day, and a rate over a minimum of games.
RecordHolders(key, ps) ==
    CASE key = "most_today" -> Most({p \in ps : played[p.match] >= today})
      [] key = "first_rate" -> Best(ps, RecordFloor, LAMBDA p : p.place = 1)

RecordOrder == <<"most_today", "first_rate">>

-----------------------------------------------------------------------------
(***************************************************************************)
(* A maintenance tick: it reads the current season in a transaction of its *)
(* own, then deletes and inserts in another, one statement after the other *)
(* (READ COMMITTED: each sees what is committed when it starts), and       *)
(* commits.  Bound: one tick at a time; the jobs write different tables.   *)
(***************************************************************************)

\* champion_daily_stats for the days from since on.
DailyRows(ps, since) ==
    [d \in Days |->
        Grouped(Solo({p \in ps : played[p.match] >= since /\ played[p.match] = d}), 1)]

StatementsOf(job) ==
    CASE job = "combos"  -> 2
      [] job = "records" -> Len(RecordOrder)
      [] OTHER           -> 1

\* What the i-th statement of a job may insert.
Inserts(job, i, s, since) ==
    LET ps == Counted(s)
    IN CASE job = "daily"    -> {DailyRows(ps, since)}
         [] job = "combos"   -> {Grouped(IF i = 1 THEN PairsOf(ps) ELSE TriosOf(ps), WriteFloor)}
         [] job = "versus"   -> {VersusRows(ps, WriteFloor)}
         [] job = "picks"    -> {Grouped(PicksOf(ps), WriteFloor)}
         [] job = "variants" -> {Grouped(VariantsOf(ps), WriteFloor)}
         [] job = "records"  ->
              LET holders == RecordHolders(RecordOrder[i], ps)
              IN IF holders = {} THEN {<<>>}
                 ELSE {[k \in {RecordOrder[i]} |-> w] : w \in holders}

TickStarts(job) ==
    /\ tick = Idle
    /\ job \in due
    /\ Current # Nobody
    /\ tick' = [job |-> job, season |-> Current, since |-> Max({0, today - Window}),
                done |-> <<>>]
    /\ UNCHANGED <<today, seasonVars, dataVars, daily, table, fresh, faults>>

Result(t) == Inserts(t.job, Len(t.done) + 1, t.season, t.since)

\* A statement that is not the job's last one.
Statement ==
    /\ tick # Idle
    /\ Len(tick.done) + 1 < StatementsOf(tick.job)
    /\ \E rows \in Result(tick) : tick' = [tick EXCEPT !.done = Append(@, rows)]
    /\ UNCHANGED <<today, seasonVars, dataVars, daily, table, fresh, faults>>

\* Mutant of Replaced: the insert adds to the rows that are there.
ReplacedAdding(old, since, new) ==
    [d \in Days |->
        [c \in DOMAIN old[d] \cup DOMAIN new[d] |->
            IF c \in DOMAIN old[d] /\ c \in DOMAIN new[d] /\ d >= since
              THEN [new[d][c] EXCEPT !.games = @ + old[d][c].games,
                                     !.places = @ + old[d][c].places]
              ELSE IF c \in DOMAIN new[d] THEN new[d][c] ELSE old[d][c]]]

\* Delete-then-insert: the days of the window, or the whole season.
Replaced(old, since, new) == [d \in Days |-> IF d >= since THEN new[d] ELSE old[d]]

\* What the statements of a job have inserted; no two insert one key.
Written(done) ==
    LET writes(k) == CHOOSE i \in DOMAIN done : k \in DOMAIN done[i]
    IN [k \in UNION {DOMAIN done[i] : i \in DOMAIN done} |-> done[writes(k)][k]]

\* The last statement and the commit: nobody reads the one without the other.
Commit ==
    /\ tick # Idle
    /\ Len(tick.done) + 1 = StatementsOf(tick.job)
    /\ tick' = Idle
    /\ \E rows \in Result(tick) :
          IF tick.job = "daily"
            THEN /\ daily' = [daily EXCEPT ![tick.season] = Replaced(@, tick.since, rows)]
                 /\ fresh' = (fresh \/ tick.since = Max({0, today - Window}))
                 /\ UNCHANGED table
            ELSE /\ table' = [table EXCEPT ![tick.job][tick.season] =
                                 Written(Append(tick.done, rows))]
                 /\ UNCHANGED <<daily, fresh>>
    /\ UNCHANGED <<today, seasonVars, dataVars, faults>>

\* A database error or the job timeout: the transaction is rolled back, the
\* tick logs it and the next one tries again.
TickFails ==
    /\ tick # Idle
    /\ faults < MaxFaults
    /\ faults' = faults + 1
    /\ tick' = Idle
    /\ UNCHANGED <<today, seasonVars, dataVars, daily, table, fresh>>

\* _purge_cr_snapshots_recent: one DELETE with the current season in a subquery.
Purge ==
    /\ Current # Nobody
    /\ mirror' = {x \in mirror : x[1] = Current}
    /\ UNCHANGED <<today, seasonVars, landed, played, inTime, daily, table, tick,
                   fresh, faults>>

-----------------------------------------------------------------------------
RollupInit ==
    /\ today = 0
    /\ status = [s \in Seasons |-> "none"]
    /\ cache = Nobody
    /\ landed = [m \in Matches |-> Nobody]
    /\ played = [m \in Matches |-> 0]
    /\ mirror = {}
    /\ daily = [s \in Seasons |-> [d \in Days |-> <<>>]]
    /\ table = [j \in Cumulative |-> [s \in Seasons |-> <<>>]]
    /\ tick = Idle
    /\ due \in Followed
    /\ fresh = FALSE
    /\ inTime = {}
    /\ faults = 0

RollupNext ==
    \/ \E s \in Seasons : CreateSeason(s) \/ Transition(s)
    \/ CacheExpires
    \/ \E m \in Matches, d \in Days : Land(m, d)
    \/ NewDay
    \/ \E job \in Jobs : TickStarts(job)
    \/ Statement \/ Commit \/ TickFails
    \/ Purge

RollupSpec == RollupInit /\ [][RollupNext]_rollupVars

(***************************************************************************)
(* Every job has a minute of its own in every hour, and a statement that   *)
(* runs ends.  Strong fairness, because a tick of another job (which the   *)
(* code would let run beside it) must not keep a job out for ever here.    *)
(***************************************************************************)
Fairness ==
    /\ \A job \in Jobs : SF_rollupVars(TickStarts(job))
    /\ WF_rollupVars(Statement) /\ WF_rollupVars(Commit) /\ WF_rollupVars(Purge)

FairRollupSpec == RollupSpec /\ Fairness
=============================================================================
