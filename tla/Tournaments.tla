---------------------------- MODULE Tournaments ----------------------------
(***************************************************************************)
(* One tournament of tournaments/service.py: provisioned by an operator,   *)
(* filled by players holding its access key, and scored by operators.      *)
(* Every mutation is one transaction that first locks the tournament row   *)
(* (SELECT ... FOR UPDATE), reads the team and match rows, decides on what *)
(* it read and commits.  Locking and committing are separate steps, so the *)
(* requests interleave as far as the lock allows.  The pure scoring of     *)
(* tournaments/scoring.py and the cached public list are part of it.       *)
(***************************************************************************)
EXTENDS Integers, FiniteSets, Sequences, SequencesExt

CONSTANTS
  Spellings,   \* the riot ids players type
  Canonical,   \* a spelling -> what strip().upper() makes of it
  NumTeams, NumMatches,
  Size,        \* players of a team (P.team_size)
  Sheets,      \* results an operator may submit: team -> [placement, bravura]
  Fines,       \* penalties of a submission: team -> value
  Callers,     \* concurrent API requests
  Readers,     \* concurrent GET /tournaments
  MaxCalls,    \* bound: requests on the tournament once it exists
  Ttl,         \* cache_ttl_tournaments_s, in ticks
  Nobody, Empty, NoSheet, NoPage

Teams   == 1..NumTeams
MatchNumbers == 1..NumMatches
Cap     == 4                       \* BRAVURA_CAP
Never   == 10 ^ 6                  \* _NO_PLACEMENT

ASSUME TournamentAssumption ==
  /\ NumTeams \in 2..16 /\ NumMatches \in 1..10 /\ Size \in {2, 3}
  /\ MaxCalls \in Nat /\ Ttl \in Nat \ {0}
  /\ DOMAIN Canonical = Spellings
  /\ Nobody \notin Callers /\ Empty \notin Spellings

\* schemas/tournaments.py: places, bravuras and fines are integers.
ASSUME SheetsAssumption ==
  /\ NoSheet \notin Sheets
  /\ \A sheet \in Sheets :
       /\ DOMAIN sheet \subseteq Teams
       /\ \A t \in DOMAIN sheet : /\ sheet[t].placement \in Int
                                  /\ sheet[t].bravura \in Int
  /\ \A fine \in Fines : /\ DOMAIN fine \subseteq Teams
                         /\ \A t \in DOMAIN fine : fine[t] \in Int

VARIABLES
  status,      \* of the tournament: "absent" | "upcoming" | "live" | "ended"
  current,     \* current_match
  teams,       \* team -> [captain, players, perMatch, penalties, bonus, total]
  matches,     \* match -> [status, result]
  lock,        \* the request holding the tournament row
  call,        \* request -> [pc, op, seen]
  page,        \* the cached answer of GET /tournaments: [lists, age]
  reader,      \* reader -> what its handler read and has not stored yet
  asked,
  granted,     \* history: <<spelling, team>> of every 201/200 answered
  counted,     \* history: matches ended at the last submission
  charged      \* history: team -> penalties submitted so far

row == <<status, current, teams, matches>>

tournamentVars == <<status, current, teams, matches, lock, call, page, reader,
                    asked, granted, counted, charged>>

\* The bodies of POST .../team and .../join; a wrong key is refused whoever sends it.
Joins   == [kind : {"create"}, by : Spellings, key : {TRUE}]
             \cup [kind : {"create"}, by : {CHOOSE p \in Spellings : TRUE},
                   key : {FALSE}]
             \cup [kind : {"join"}, by : Spellings, team : Teams, key : {TRUE}]
AtRest  == [pc |-> "idle"]

-----------------------------------------------------------------------------
(* Teams and their seats. *)

EmptyTeam == [captain |-> Empty, players |-> [s \in 1..Size |-> Empty],
              perMatch |-> <<>>, penalties |-> 0, bonus |-> 0, total |-> 0]

Seated(team) == {s \in DOMAIN team.players : team.players[s] # Empty}

RealPlayers(team) == Cardinality(Seated(team))

\* Mutant of Registered: the spellings are compared as they were typed.
RegisteredAsTyped(ts, p) == \E t \in Teams, s \in 1..Size : ts[t].players[s] = p

Registered(ts, p) ==
  \E t \in Teams, s \in 1..Size :
    /\ ts[t].players[s] # Empty
    /\ Canonical[ts[t].players[s]] = Canonical[p]

FreeTeams(ts) == {t \in Teams : RealPlayers(ts[t]) = 0}

Lowest(S) == CHOOSE x \in S : \A y \in S : x <= y

-----------------------------------------------------------------------------
(* compute_standings. *)

Scoring(place) == IF place \in Teams THEN NumTeams - place + 1 ELSE 0

Ended(ms) == {n \in MatchNumbers : ms[n].status = "ended" /\ ms[n].result # NoSheet}

PlayedBy(ms, t) == {n \in Ended(ms) : t \in DOMAIN ms[n].result}

\* The i-th of a set of matches, in the order of their numbers.
Nth(S, i) == CHOOSE n \in S : Cardinality({k \in S : k <= n}) = i

Points(ms, t) ==
  LET played == PlayedBy(ms, t)
  IN  [i \in 1..Cardinality(played) |->
         Scoring(ms[Nth(played, i)].result[t].placement)]

Capped(bravura) == IF bravura <= Cap THEN bravura ELSE Cap

Bonus(ms, t) ==
  SumFunction([n \in PlayedBy(ms, t) |-> Capped(ms[n].result[t].bravura)])

Firsts(ms, t) ==
  Cardinality({n \in PlayedBy(ms, t) : ms[n].result[t].placement = 1})

LastPlace(ms, t) ==
  LET last == Max(Ended(ms))
  IN  IF Ended(ms) # {} /\ last \in PlayedBy(ms, t)
      THEN ms[last].result[t].placement
      ELSE Never

\* Mutant of Standing: the points are added to the running total.
StandingAdds(ms, ts, t) ==
  [ts[t] EXCEPT
     !.total = @ + SumFunction(Points(ms, t)) + Bonus(ms, t) - ts[t].penalties]

Standing(ms, ts, t) ==
  [ts[t] EXCEPT
     !.perMatch = Points(ms, t),
     !.bonus    = Bonus(ms, t),
     !.total    = SumFunction(Points(ms, t)) + Bonus(ms, t) - ts[t].penalties]

\* rows.sort(key=(-total, -first_places, last_placement)): stable over the seeds.
Ahead(ms, ts, a, b) ==
  LET keyA == <<-ts[a].total, -Firsts(ms, a), LastPlace(ms, a), a>>
      keyB == <<-ts[b].total, -Firsts(ms, b), LastPlace(ms, b), b>>
  IN  \E i \in 1..4 : keyA[i] < keyB[i] /\ \A j \in 1..i-1 : keyA[j] = keyB[j]

Ranking(ms, ts) == SetToSortSeq(Teams, LAMBDA a, b : Ahead(ms, ts, a, b))

\* _project sorts the stored rows again, by total alone.
Displayed(ts) ==
  SetToSortSeq(Teams, LAMBDA a, b :
    ts[a].total > ts[b].total \/ (ts[a].total = ts[b].total /\ a < b))

-----------------------------------------------------------------------------
(* The requests. *)

TournamentInit ==
  /\ status = "absent" /\ current = 1
  /\ teams = [t \in Teams |-> EmptyTeam]
  /\ matches = [n \in MatchNumbers |-> [status |-> "upcoming", result |-> NoSheet]]
  /\ lock = Nobody
  /\ call = [r \in Callers |-> AtRest]
  /\ page = NoPage
  /\ reader = [d \in Readers |-> NoPage]
  /\ asked = 0
  /\ granted = {} /\ counted = {} /\ charged = [t \in Teams |-> 0]

\* create_tournament: the row, its empty teams and upcoming matches, one commit.
CreateTournament(r) ==
  /\ call[r].pc = "idle" /\ status = "absent"
  /\ status' = "upcoming"
  /\ call' = [call EXCEPT ![r] = [pc |-> "bust"]]
  /\ UNCHANGED <<current, teams, matches, lock, page, reader, asked,
                 granted, counted, charged>>

\* Mutant of Lockable: the rows are read without FOR UPDATE.
LockableAlways(r) == TRUE

\* _lock_tournament(_only), then _lock_teams and _lock_matches: the rows the
\* decision is made on.  What the request asks for is chosen here; waiting for
\* the lock is not a state.
Lockable(r) == lock = Nobody

Lock(r, op) ==
  /\ call[r].pc = "idle" /\ status # "absent" /\ asked < MaxCalls
  /\ Lockable(r)
  /\ lock' = r
  /\ call' = [call EXCEPT ![r] =
       [pc |-> "commit", op |-> op,
        seen |-> [teams |-> teams, matches |-> matches]]]
  /\ asked' = asked + 1
  /\ UNCHANGED <<row, page, reader, granted, counted, charged>>

AskSeat(r) == \E op \in Joins : Lock(r, op)

AskLink(r) ==
  \E n \in MatchNumbers, s \in {"upcoming", "live", "ended"} :
    Lock(r, [kind |-> "link", n |-> n, status |-> s])

AskResult(r) ==
  \E n \in MatchNumbers, sheet \in Sheets, fine \in Fines :
    Lock(r, [kind |-> "result", n |-> n, sheet |-> sheet, fine |-> fine])

\* The end of the transaction: the locks go, the cached list is evicted next.
Leaves(r, pc) ==
  /\ lock' = IF lock = r THEN Nobody ELSE lock
  /\ call' = [call EXCEPT ![r] = IF pc = "idle" THEN AtRest ELSE [pc |-> pc]]
  /\ UNCHANGED <<page, reader, asked>>

Deciding(r, kind) == call[r].pc = "commit" /\ call[r].op.kind = kind

\* 403 for a wrong key, 409 for a name already in, a full team, no free team.
SeatOf(r) ==
  LET op == call[r].op
      ts == call[r].seen.teams
  IN  IF ~op.key \/ Registered(ts, op.by) THEN Nobody
      ELSE IF op.kind = "create"
           THEN IF FreeTeams(ts) = {} THEN Nobody
                ELSE [team |-> Lowest(FreeTeams(ts)), slot |-> 1]
           ELSE IF RealPlayers(ts[op.team]) = Size THEN Nobody
                ELSE [team |-> op.team,
                      slot |-> Lowest((1..Size) \ Seated(ts[op.team]))]

Refuse(r) ==
  /\ Deciding(r, "create") \/ Deciding(r, "join")
  /\ SeatOf(r) = Nobody
  /\ Leaves(r, "idle")
  /\ UNCHANGED <<row, granted, counted, charged>>

\* The row is written from the list that was read: players = [captain, empty...]
\* of a claimed team, the copied list with one slot filled of a joined one.
Seat(r) ==
  LET op   == call[r].op
      seat == SeatOf(r)
      old  == call[r].seen.teams[seat.team]
  IN  /\ Deciding(r, "create") \/ Deciding(r, "join")
      /\ seat # Nobody
      /\ teams' = [teams EXCEPT
           ![seat.team].players = [old.players EXCEPT ![seat.slot] = op.by],
           ![seat.team].captain = IF op.kind = "create" THEN op.by ELSE @]
      /\ granted' = granted \cup {<<op.by, seat.team>>}
      /\ Leaves(r, "bust")
      /\ UNCHANGED <<status, current, matches, counted, charged>>

NextMatch(n) == IF n < NumMatches THEN n + 1 ELSE current

SetMatchLink(r) ==
  LET op == call[r].op
  IN  /\ Deciding(r, "link")
      /\ matches' = [matches EXCEPT ![op.n].status = op.status]
      /\ status' = IF op.status = "live" /\ status = "upcoming"
                   THEN "live" ELSE status
      /\ current' = CASE op.status = "live"  -> op.n
                      [] op.status = "ended" -> NextMatch(op.n)
                      [] OTHER               -> current
      /\ Leaves(r, "bust")
      /\ UNCHANGED <<teams, granted, counted, charged>>

Fined(ts, fine) ==
  [t \in Teams |-> IF t \in DOMAIN fine
                   THEN [ts[t] EXCEPT !.penalties = @ + fine[t]]
                   ELSE ts[t]]

Scored(ms, n, sheet) ==
  [ms EXCEPT ![n] = [status |-> "ended", result |-> sheet]]

AllEnded(ms) == \A n \in MatchNumbers : ms[n].status = "ended"

SubmitResult(r) ==
  LET op == call[r].op
      ms == Scored(call[r].seen.matches, op.n, op.sheet)
      ts == Fined(call[r].seen.teams, op.fine)
  IN  /\ Deciding(r, "result")
      /\ matches' = [matches EXCEPT ![op.n] = ms[op.n]]
      /\ teams' = [t \in Teams |->
           [Standing(ms, ts, t) EXCEPT !.players = teams[t].players,
                                       !.captain = teams[t].captain]]
      /\ current' = NextMatch(op.n)
      /\ status' = CASE op.n = NumMatches /\ AllEnded(ms) -> "ended"
                     [] status = "upcoming"               -> "live"
                     [] OTHER                             -> status
      /\ counted' = Ended(ms)
      /\ charged' = [t \in Teams |->
           charged[t] + IF t \in DOMAIN op.fine THEN op.fine[t] ELSE 0]
      /\ Leaves(r, "bust")
      /\ UNCHANGED granted

\* The process dies or the connection drops: the transaction rolls back.
Abort(r) ==
  /\ call[r].pc = "commit"
  /\ Leaves(r, "idle")
  /\ UNCHANGED <<row, granted, counted, charged>>

-----------------------------------------------------------------------------
(* The cached public list (api/cache.py) and its eviction (_bust_cache). *)

\* Best effort: Redis may refuse the delete, or the process die before it.
Bust(r) ==
  /\ call[r].pc = "bust"
  /\ page' \in {NoPage, page}
  /\ call' = [call EXCEPT ![r] = AtRest]
  /\ UNCHANGED <<row, lock, reader, asked, granted, counted, charged>>

\* A miss runs the route: the handler reads the rows ...
ReadList(d) ==
  /\ page = NoPage /\ reader[d] = NoPage
  /\ reader' = [reader EXCEPT ![d] = [lists |-> status # "absent", age |-> 0]]
  /\ UNCHANGED <<row, lock, call, page, asked, granted, counted, charged>>

\* ... and the middleware stores the captured body, over whatever is there.
StoreList(d) ==
  /\ reader[d] # NoPage
  /\ page' = reader[d]
  /\ reader' = [reader EXCEPT ![d] = NoPage]
  /\ UNCHANGED <<row, lock, call, asked, granted, counted, charged>>

\* Mutant of Aged: the entry is stored without a TTL.
AgedNever(p) == p

Aged(p) == IF p.age + 1 >= Ttl THEN NoPage ELSE [p EXCEPT !.age = @ + 1]

PageAges ==
  /\ page # NoPage
  /\ page' = Aged(page)
  /\ UNCHANGED <<row, lock, call, reader, asked, granted, counted,
                 charged>>

-----------------------------------------------------------------------------

Work(r) == Refuse(r) \/ Seat(r) \/ SetMatchLink(r) \/ SubmitResult(r) \/ Bust(r)

TournamentNext ==
  \/ \E r \in Callers :
       \/ CreateTournament(r) \/ AskSeat(r) \/ AskLink(r) \/ AskResult(r)
       \/ Work(r) \/ Abort(r)
  \/ \E d \in Readers : ReadList(d) \/ StoreList(d)
  \/ PageAges

TournamentSpec == TournamentInit /\ [][TournamentNext]_tournamentVars

\* A transaction that holds the row runs on to its end and the eviction after
\* it; a handler that read the list stores it; time passes.
FairTournamentSpec ==
  /\ TournamentSpec
  /\ \A r \in Callers : WF_tournamentVars(Work(r))
  /\ \A d \in Readers : WF_tournamentVars(StoreList(d))
  /\ WF_tournamentVars(PageAges)

-----------------------------------------------------------------------------
(* Properties. *)

Players == Spellings \cup {Empty}

TeamRow == [captain : Players, players : [1..Size -> Players], perMatch : Seq(Nat),
            penalties : Nat, bonus : Nat, total : Int]

Page == [lists : BOOLEAN, age : 0..Ttl-1] \cup {NoPage}

\* The rows, the requests and the cached list have their shape; current_match
\* stays inside the tournament and no team has more scores than matches.
TypeOK ==
  /\ status \in {"absent", "upcoming", "live", "ended"}
  /\ current \in MatchNumbers
  /\ \A t \in Teams : /\ teams[t] \in TeamRow
                      /\ Len(teams[t].perMatch) <= NumMatches
  /\ DOMAIN matches = MatchNumbers
  /\ \A n \in MatchNumbers : /\ matches[n].status \in {"upcoming", "live", "ended"}
                        /\ matches[n].result \in Sheets \cup {NoSheet}
  /\ lock \in Callers \cup {Nobody}
  /\ \A r \in Callers : call[r].pc \in {"idle", "commit", "bust"}
  /\ page \in Page /\ reader \in [Readers -> Page]
  /\ asked \in 0..MaxCalls

SuccessIsKept ==
  \A g \in granted : \E s \in 1..Size : teams[g[2]].players[s] = g[1]

OneSeatEach ==
  \A t, u \in Teams, s, v \in 1..Size :
    /\ <<t, s>> # <<u, v>>
    /\ teams[t].players[s] # Empty /\ teams[u].players[v] # Empty
    => Canonical[teams[t].players[s]] # Canonical[teams[u].players[v]]

\* A registration that was answered with success stays in its team: no other
\* create_team or join_team, decided on rows read before, overwrites the seat;
\* and a player holds one seat in the tournament (_reject_duplicate_riot_id), in
\* whatever spelling and through however many concurrent requests.
SeatsAreKept == SuccessIsKept /\ OneSeatEach

SheetPoints(n) ==
  LET sheet == matches[n].result
  IN  SumFunction([t \in DOMAIN sheet |->
                     Scoring(sheet[t].placement) + Capped(sheet[t].bravura)])

\* Counted the other way, sheet by sheet: the totals of the table are the points
\* and bravuras of the sheets that were in force at the last submission, less
\* every fine ever submitted.  A corrected sheet replaces the old one.
BooksBalance ==
  SumFunction([t \in Teams |-> teams[t].total + charged[t]])
    = SumFunction([n \in counted |-> SheetPoints(n)])

\* Whatever reader stores its page after the eviction, the cached list tells
\* the truth again for good: the entry carries its TTL.
ListCatchesUp ==
  <>[](page # NoPage => page.lists = (status # "absent"))

\* scoring.py: rows of equal total are ordered by first places and then by the
\* place in the last ended match; the public table is _project's.
StandingsFollowTheRules ==
  counted # {} /\ counted = Ended(matches)
    => Displayed(teams) = Ranking(matches, teams)
=============================================================================
