# Formal models of Arena Rank

Arena Rank is a ranked ladder for the Arena mode of League of Legends.  Workers
discover finished matches at Riot's API, rate every lobby with a Bayesian rating
engine and keep the ladder of the current season in Postgres; a public site and an
admin console read it.  What is deployed is the Python backend, `src/backend/arena`;
this project models the parts of it where steps of several processes meet, and the
arithmetic and the pages that have to agree with each other afterwards.

Contents

1. Inventory of the system
2. Plan and state
3. Modules and how they correspond to the code
4. Runs, bounds and fairness
5. What the code does not do although it says so
6. Proofs
7. What is only model-checked, and what is not modelled

## 1. Inventory of the system

Processes: an API server (FastAPI), consumer pools of arq (`PriorityWorker` with 20
jobs, `StandardWorker` with 10), sweep, bootstrap and scheduler workers (cron
jobs).  They share one Redis (queues, locks, flags, cursors, caches) and one
Postgres (READ COMMITTED, sessions with `expire_on_commit=False`).  Every process is
an asyncio event loop: any `await` lets other jobs of the same process in, and
the processes run in parallel anyway.

| Component | State it keeps | Operations | What makes it correct |
|---|---|---|---|
| Player locks `services/locks.py` | `arena:lock:player:{id}` keys with token and TTL | acquire a lobby in one pipeline, back off, release | all or nothing; only the owner or the TTL frees a key; no hold-and-wait; requests end |
| Match write path `workers/processor.py`, `services/match_pipeline.py`, `services/rating_service.py` | processed flag (Redis), `players`, `matches`, `match_participants`, `player_seasons`, arq job state, dead-letter list | guard, fetch, filter, stage, register, lock, check, load, rate, persist, retry, dead-letter | each match is rated once, atomically, on top of all before; no match is lost without a trace; no deadlock; jobs end |
| Catch-up backlog `services/ingest_state.py`, `services/replay.py` (`drain_backlog`) | `season_ingest_state.mode` and its per-process cache, `match_backlog` | stage, drain, set mode | a staged match leaves the backlog only when rated |
| Chronological replay `services/replay.py`, `workers/scheduler.py` (`rating_replay_tick`) | `replay_floor`, `ingest_hwm`, restore points `state_before` | note a late match, rewind, wipe, re-rate, clear the floor | after a replay each rating is the fold of the matches in order of play; the floor is consumed |
| Dead-letter administration `api/routers/admin.py` | the list `arena:dlq` | requeue, requeue all, discard | an entry is requeued, kept or discarded on purpose, never dropped |
| Discovery `workers/ingestion.py`, `workers/sweep.py` | `seen_matches` claims, cursors, pressure flag, tick locks, re-arm zset, reconcile window | poll, sweep, priority sweep, re-arm, reconcile | a claimed id is queued or given back; every tracked player is visited; an outage is scanned before it is closed |
| Backfill and bootstrap `workers/backfill.py`, `workers/bootstrap.py` | once-only claims and run state per player | enqueue and run a history import | a player's history is fetched in spite of failures; a refill ends |
| Riot client `riot/*` | circuit breaker, token buckets, in-flight futures and leases, payload cache | coalesce, take tokens, admit, answer, penalise, retry | penalties hold; one leader fetches and the others get its answer; calls end |
| Match parsing `riot/arena.py` | none | payload to a lobby | only complete, real games of the season are rated, with the places that were played |
| Rating engine and integrity `rating/*`, `integrity/*` | co-occurrence window (Redis) | rate, cap, floor, explain | good placements pay; a change is explained by its own parts; strangers are not taken for a premade |
| Statistics and pages `services/stats_service.py`, `api/routers/{champions,player,match,leaderboard}.py` | rollup tables, `champion_stats`, snapshots | rebuild, purge, read | a page never runs ahead of the matches, catches up, and contradicts no other page |
| Tournaments `tournaments/*`, `api/cache.py` | tournaments, teams, matches, response cache | create, join, link, submit and correct results, list | seats are kept and unique; standings are the sum of the sheets on file; the list catches up |
| Operators' desk `api/rbac.py`, `api/routers/admin*.py` | operator keys, moderation columns, integrity events, audit | authorise, moderate, review, select, configure, audit | a request changes what it names; a revoked key starts nothing |
| Season lifecycle `services/season_service.py` | `seasons.status`, `seasons.config` | create, advance, configure | one step at a time; matches and rollups agree on the season |
| Payments, static game data, schema, settings, frontend, admin console, TypeScript packages, infrastructure, scripts | none shared with the above at run time, or declarations | | |

How they interact.  Discovery claims a match id and enqueues an arq job
`process_match:{id}`.  The job sets the processed flag, fetches the payload through
the Riot client, filters it, and hands it to the write path, which stages it while
the season is catching up and otherwise rates it in one transaction.  A failed job
is retried by arq and finally dead-lettered; an operator requeues or discards dead
letters.  The scheduler drains the backlog through the same write path, replays the
tail of the season that was rated out of order when the queues are empty, and
rebuilds the rollup tables that the pages read.

Hard behaviour.  Several jobs may carry one match (at-least-once delivery, operator
requeues, the backlog); matches share players; Redis commands and Postgres commits
fail on their own; a process may die, or a job be cancelled, at any await; locks and
flags expire; matches arrive in any order; a replay runs for many transactions while
the rest of the system goes on; requests decide on rows they read earlier; the same
number is derived in several places.  The hazards, each at its line, are in
`PROJECT.json`.

## 2. Plan and state

The order follows what a fault would cost: first the write path, on which every
rating depends, then what decides which matches reach it and in which order, then
the numbers, the pages and the operators.

| Step | Modules | Composes | State |
|---|---|---|---|
| 1 | `PlayerMutex`, `PlayerLocks` | the second implements the first | done, proved |
| 2 | `MatchLadder`, `MatchPipeline` | the second implements the first; uses the atomic locks that step 1 justifies | done, safety proved |
| 3 | `ChronoReplay` | a live match is the atomic rating that step 2 justifies | done, safety proved |
| 4 | `Refill` | backfill, bootstrap, queue, backlog and registrations, with a job as one step | done, safety proved |
| 5 | `Discovery` | sweep, look-ups, poll, re-arm and reconcile over one dedup set, with a job as one step | done, safety proved |
| 6 | `RiotClient` | coalescer, buckets, breaker, retries and cache of several processes | done, safety proved |
| 7 | `Rollups`, `RollupReads`, `ChampionPages` | tables, the reads of the tables, the pages | done; that no table runs ahead and that profiles agree proved |
| 8 | `RatingMath`, `Payloads`, `Ratings`, `Profiles` | the arithmetic, the parser, the season they make, the pages of players | done; the caps, the safety of the ratings and the agreement of the pages proved, the sums of legacy and card ledgers checked |
| 9 | `Tournaments` | requests, scoring and the response cache | done, seats and books proved |
| 10 | `AdminDesk` | keys, dead letters, moderation, review, the row of a season | done, dead letters and its action property proved |
| 11 | the Redis copy of the board (`services/leaderboard_service.py`), the pause flags of the workers | | open, see section 7 |

## 3. Modules and how they correspond to the code

The exact lines behind every definition are the `map` of `PROJECT.json`; paths here
are relative to `src/backend/arena`.

### PlayerLocks implements PlayerMutex — `services/locks.py`

`PlayerMutex` is what a caller of `lock_players` may rely on: a worker becomes the
holder of all the players of a lobby in one step, when none has a holder, and ceases
to be by a release, an end or an expiry.  `PlayerLocks` is the code: `Enter` starts a
batch, `SetNx` is one `SET key token NX PX` of the pipeline (the pipeline runs with
`transaction=False`, so commands of other clients come in between), `Judge` looks at
the replies, `CompareAndDelete` is the Lua script of a release, `ReleaseFails` a
release that raises, `BackOff`/`Retry`/`GiveUp` the wait budget, `Leave` and `Left`
the exit of the context manager, `Abandon` the end of a process, `Expire` the TTL.
State: `key` (Redis), `pc`, `want`, `held`, `waited` (the coroutine) and `lapsed`
(history: keys of a worker that ran out).  Time is abstracted: a key may expire
at any moment, and the wait budget counts attempts.

### MatchPipeline implements MatchLadder — `workers/processor.py`, `services/match_pipeline.py`, `services/rating_service.py`

A job is a process with a program counter.  `Begin` is an enqueue, an operator's
requeue (`TakeDeadLetter`, `EnqueueRequeue`, which takes the entry off the list and
enqueues afterwards) or a drain pass that reaches a staged match; `Start` is arq's
delivery; `SetFlag`/`Skip` the `SET NX` guard; `Fetch`, `Filter`, `Stage`, `PassGate`
the way to the write path; `RegisterRow` takes one row of `players` at a time, in
sorted order, and waits for its holder; `AcquireLocks` the player locks (atomic, see
above); `Check` and `Load` read inside the transaction, `Commit` writes
`player_seasons`, `match_participants.state_before` and `matches.processed`;
`Raise`, `Retry`, `DeadLetter`, `ReleaseFlag` are the failure path in the order of
the code.  `CommitUnacknowledged`, `Kill`, `Shutdown`, `TimeOut`, `ExpireLock`,
`ExpireFlag` and the `...Fails` actions are the mishaps.

A rating is the sequence of the matches folded into it.  This keeps what the
properties tell apart - which matches, in which order, on top of what - and drops
the arithmetic, which is `RatingMath`'s.  `MatchLadder` has one action: rate a match
that was not rated, for the whole lobby at once.

### ChronoReplay — `services/replay.py`, `services/ingest_state.py`, `workers/scheduler.py`, `_note_if_out_of_order`

A live match reads, commits and then compares itself with the high-water mark
(`ReadMark`, then `Advance`, `Tolerate` or `NoteOutOfOrder`, two Redis commands and a
transaction apart).  A replay is `ReplayTick` (queues empty, window fits, floor
armed) or an operator's `FullReplay`, `Rewind` (restore points and the deletes, not
yet committed), then per match `ReplayLoad` and `ReplayCommit` - the service commits
each match, and with the first one the rewind - and `Close`, or `ReplayFails`.
`draft` and `wiped` are the session's uncommitted writes.  `trusted` is a history
variable: the players whose matches the running replay found in order, or rewinds all,
and of whom no live match came in between.  `apart` is another: no live match ever met a
replay, or a replay of the whole season that trusts everybody has made up for it since.

### Refill — `workers/backfill.py`, `workers/bootstrap.py`, with the queue, the backlog and the registration of lobbies

An operator asks for a refill or stops it (`Request`, `Stop`).  `bootstrap_tick` seeds
(`TickSeeds`), fails to (`TickSeedFails`: no seed resolves, or the tick dies before its
commit, and the next one tries again), or counts players and staged matches (`TickCounts`) and then looks at
the pending list and decides (`TickConcludes`).  A popped player (`Pop`) is listed
(`List`): the newest ids up to the cap of pages (`Listed`), less those whose claim
fails in `_dedup_new`, which skips the id with a warning; its import ends by `Complete` or `RetryOrDrop`, each with the push of
the ids it claimed.  A match goes from the queue to the backlog (`JobStages`) or the
ladder (`JobRates`), from the backlog to the ladder (`Drain`, `Unstage`), and its
rating registers new players (`Rate`), whose imports `EnqueueNew` asks for after the
commit.  `cache` is the mode as a process remembers it (30 s), `Sees` a reading of it.
The pending list is a set: first-in-first-out order is what the fairness of `Pop`
stands for.  The matches are of one queue, and the window of an import is fixed.  A job is one step, since step 2 has its inside.

### Discovery — `workers/sweep.py`, `workers/ingestion.py`, `workers/scheduler.py` (`heartbeat_tick`)

Time is counted in matches that ended, so "the newest k ids" is a range of numbers.
A slot is a tick that may run: the sweep (`SweepReads`, `SweepAdvances`: the cursor
is stored before anything is fetched), a look-up of single players (`LookupStarts`,
`PriorityStarts`, `RecentStarts`, `PollStarts`), the re-arm (`RearmStarts`,
`RearmFetches`, `RearmSettles`) and the scan of an outage (`ScanStarts`, `ScanPages`,
`ScanTurns`).  Every slot then goes through `FetchBatch` (list, claim by `ZADD NX`),
`Push` (enqueue) or the release of the claims, and `EndTick`.  `Cut` is an exception,
arq's timeout or a death at any of these steps.  `AgeOut` is the 24 h of a claim.
`Heartbeat` and `OpenWindow` notice a gap and open the window that `CloseWindow`
closes.  A job is one step (`Process`, `Exhaust`).  Three history variables follow an
outage: `owed` is what its window has to find, `missed` what the failures and caps of the
current scan left out, `gapInScan` whether another outage was noticed since it began.

### RiotClient — `riot/client.py`, `coalesce.py`, `rate_limit.py`, `circuit_breaker.py`, `retry.py`, `cache.py`

A call of `get_match` joins the future of its process or becomes its owner (`Start`),
looks in the cache, claims the lease (`Claim`) or polls (`Poll`, `Check`, `Reclaim`), takes
a token of each bucket (`TryBucket`, `Acquired`, `Wake`), passes the breaker (`Gate`)
and is answered (`Answer200`, `Answer429`, `Answer503`, `AnswerRefused`,
`TransportError`), retried or stored; `Finish` resolves the future.  A 429 penalises the
buckets (`Penalize`), but for those whose script fails, which the code passes over; the
awaits between the answer and the penalty (`riot/client.py:221-229`) are one step.  `until` is
the history of the penalties, `cut` that of the keys whose last `EXPIRE` was shorter than
what was left of one.  What the code
keeps as a time stamp is kept as the ticks that are left of it.

### Rollups, RollupReads, ChampionPages — `services/stats_service.py`, `workers/scheduler.py`, `api/routers/champions.py`

Matches land (`Land`) with participants that are given as constants; each job
of the scheduler resolves the season, deletes and re-inserts one statement at a
time in a transaction of its own and may fail; days go by, and the purge drops old
snapshots.  `RollupReads` has every read of a table and, beside it, the live
aggregation it stands for.  `ChampionPages` is what the router makes of the reads:
rounded percentages, Wilson bounds for small samples, letters by quantile, the
build page with its groups, the comparison of augments with the catalogue.

### RatingMath, Payloads, Ratings, Profiles — `rating/*`, `riot/arena.py`, `services/rating_service.py`, `services/replay.py`, the pages of players

`RatingMath` is the arithmetic of one result in tenths of a PDL: placement base,
streak, provisional, party, dispersion and mismatch factors, the caps and the
minimum gain, the floor at zero and the back-solved `mu`, the stored modifiers, the
explanation that is derived from them (with its three fidelities, with cap facts and
without, with the lobby's state and without) and the ledger that is shown.  A row without
cap facts is one that the curves of an earlier epoch (`Earlier`, `RatedEarlier`) had capped;
the probe goes by today's (`Params`).  The Bayesian update itself is external: `PLDelta` and `PLSigma` are
any functions with its signs.  `Payloads` is the parser: mode, places, teams,
eligibility.  `Ratings` keeps the numbers of a season: `Fetch`, `Reject`, the verdict
with its co-occurrence window, `Persist`, failures after the verdict, and the replay
(`Rewind`, `Rerate`).  `Profiles` is what the pages of players make of it: the card
with its chips, the drill-down with its running totals, the history with filters and
summaries, the profile with chart and form, the page of a match and the board.

### Tournaments — `tournaments/service.py`, `provision.py`, `scoring.py`, `router.py`, `api/cache.py`

A request locks the tournament's row, decides on the rows it reads then, commits and
busts the cached list, each in a step.  `Seat` and `Refuse` are joining and creating a
team, `SetMatchLink` and `SubmitResult` rewrite the matches, recompute the standings and move
the tournament on.  A reader may store a list it read before a write (`StoreList`).

### AdminDesk — `api/rbac.py`, `api/routers/admin.py`, `admin_players.py`, `admin_operators.py`

A request is authorised and makes its first read in one step (`Start`); each later
command or commit is its own.  Dead letters (`TrimAll`, `DrainOne`, `RemoveEntry`,
`Requeue`, `Discard`) run against the workers (`Rate`, `DeadLetter`); `Moderate`,
`Review` and `Select` write the columns they changed, `Configure` and `Transition`
the row of a season; `CreateOperator` and `RevokeOperator` change who may start what.

### MC modules

They give the constants values: three players with crossing lobbies; two matches that
share a player; four matches of two players, of which either can be the late one; a seed
that leads through one match to a second player, who has three, one beyond the pages; eight
payloads of 15 or 18 participants.

## 4. Runs, bounds and fairness

| Run | Distinct states | What it shows |
|---|---|---|
| `PlayerLocks` | 247 304 | exclusion up to expiry, removal by expiry only, refinement of the mutex, every request ends |
| `MatchPipeline` | 712 992 | refinement of the ladder, restore points, no circle of row waits, exceptions lose nothing, staged until rated |
| `MatchPipelineLive` | 116 051 | every job ends |
| `ChronoReplay` | 428 219 | of the players a replay found in order or rewinds all: the rewind is exact, the order of play is restored; the floor is consumed |
| `Refill` | 203 298 | imports forget nobody and no match they listed; what the imports of the seeds list is rated; the refill ends |
| `Discovery` | 490 763 | claims are leases, the rotation skips nobody, an outage is recovered unless a failure or a cap of the closing scan left a match out, recent matches of tracked players are taken |
| `RiotClient` | 374 296 | a bucket under a penalty has no token in any process, one leader per lease, every call ends |
| `Rollups` | 54 781 | no table runs ahead of the matches, two views of a profile agree, the pages catch up |
| `Tournaments` | 254 538 | seats are kept and unique, the books balance after corrections, the cached list catches up |
| `AdminDesk` | 383 194 | a requeue alone loses nothing, a request changes the columns it names, a requeued letter runs |
| `Ratings` | 18 749 | good placements pay, counters agree with the rows, only real games count, the explanation closes and every ledger adds up, strangers are not dampened, the pages tell one story |
| `MatchPipelineCrash` | stops at a counterexample | section 5, item 1 |

Deadlock is checked in `PlayerLocks` and `Tournaments`, where there is always a
request that may start or a clock that ticks.  Elsewhere the bounded jobs, matches and
requests run out and the system rightly stops, so those configurations switch the
check off; that nothing stops too early is what the liveness properties say.

Bounds, and why they are enough for the case they are there for:

- `PlayerLocks`: two workers, three players, lobbies `{1,2}`, `{2,3}`, `{2}`: they cross,
  contain each other and leave a player only one wants, so a batch can be partial.
  `MaxBackoffs` 1 is one sleep before the budget runs out; `MaxFaults` 1 one lost
  release.
- `MatchPipeline`: four jobs over two matches - two discoveries, a requeue and a drain
  of the same match - with one failing Redis command (`MaxFaults`) and one interrupt
  (`MaxInterrupts`: a kill, a shutdown, a timeout or a lost acknowledgement) at any
  step.  `MaxTries` 1 there makes the first failure final; the live and crash runs
  have 2, so that a retry happens.  One lobby contains the other and one player is
  frozen, so both the order of rows and the players whose rating does not move matter.
- `ChronoReplay`: matches at times 1, 2, 4 and 5 with `Tolerance` 2 in every order of
  arrival, the first of both players, two more of one of them and one of the other.  When the
  match at 2 comes after the one at 5, the floor is armed there, above the first match:
  the player of the late match is out of order and the other one is rewound to a state that
  is not empty.  Gaps above and below the tolerance both occur.  `MaxWindow` 4 lets every
  window fit; `MaxFullReplays` and `MaxInterrupts` are 1.
- `Refill`: a chain of two players and three matches (the second player is found only
  through the match of the seed) with a `Cap` of two ids, so that the oldest match of
  the second player is beyond the pages; `Streak` 2 instead of 3 (a quiet pass, and one more),
  `MaxAttempts` 2 (a retry, then the drop), one order and one failure.
- `Discovery`: the first player is registered by a match of the second, so the rotation
  changes while it runs.  `Newest` 1 makes a player's list too short for a gap of two,
  which only the scan finds; batches of one make every sweep and scan turn a page; the
  water marks 2 and 1 are crossed in both directions; one failure at any step; two
  ticks at a time (`AtOnce`) is what it takes for one to claim what another lists.
  `Recency` 0, `GapThreshold` 1 and `MaxGap` 9 are in matches that ended.
- `RiotClient`: two calls of one process, which share a future, and one of another, which
  shares the lease; one bucket with one token; a `Retry-After` of 3 ticks, a key that
  lives 2 and a lease of 2, so a penalty outlasts a wait and the key that an acquire renews,
  and a lease runs out under its leader; one retry, a threshold of one failure, one fault.
- `Rollups`: two lobbies, with a champion on both sides, an augment taken twice, an
  ineligible participant and an augment the catalogue has dropped.  `Followed` lists
  which tables a behaviour rebuilds: one table alone, or the two that one page reads.
  `MaxDay` 2 with a `Window` of 1 purges and goes on; the floors are 1 and 2 because no
  champion has more games; one failed statement.
- `Tournaments`: one player typed in two ways and another, two teams of two,
  two matches, sheets in which each team wins once and in which one is missing, with
  and without a fine; two requests at a time out of three, and a TTL of one tick.
- `AdminDesk`: an operator and the key of the environment, two requests at a time,
  two letters with three deaths among them.  What arq has known it knows for
  good (`known` never shrinks), which is stricter than arq, whose results expire.
- `Ratings`: three players in three matches out of eight kinds of payload (section 3),
  thirty PDL above zero, so that the floor bites; one failing commit; replays from any
  match.  Tenths of PDL, the curves of production; thresholds that count
  matches are scaled to three matches.

Fairness:

- `PlayerLocks`: `WF` on the steps of each worker.  The event loop runs a coroutine
  whose await is over, and a sleep ends.  Nothing is assumed of expiry: `Resolves`
  rests on the wait budget.
- `MatchPipeline`: `WF` on the progress of each job (workers poll, Postgres wakes
  a waiter of a row) and on the expiry of player locks (Redis).  Nothing is assumed
  of mishaps, nor of the expiry of the flag.
- `ChronoReplay`: `WF` on the steps of a replay, the cron that starts it included, and
  on each live job that has begun.  No match has to arrive.
- `Refill`: `WF` on the two parts of the bootstrap cron, on pop, list, the end of each
  import, `enqueue_backfill`, on each job and on the drain.  None on the operator, the
  sweep, the expiry of claims or failures: the imports alone have to reach everything.
- `Discovery`: `WF` on the progress of each slot; `SF` on the start of a sweep and of a scan,
  since a cron fires again and again while other ticks come and go (`AtOnce`) and the
  queue is now and then above its mark; `WF` on the jobs and on the ageing of claims.
  None on the look-ups, the heartbeat or the re-arm.
- `RiotClient`: `WF` on the clock and on the steps of each call: coroutines run, sleeps and
  leases end, and httpx has timeouts.
- `Rollups`: `SF` on the start of each job, because one cron slot is shared and each job comes
  round again; `WF` on its statements, its commit and the purge.  A failure is bounded, so
  a later round succeeds.
- `Tournaments`: `WF` on the steps of a request, on the store of a list that was read, and on
  the clock that ends a cached entry.
- `AdminDesk`: `WF` on the steps of a request and on the workers' handling of each job.
- `Ratings` states no liveness.

Every property of a passing run has a mutant in `PROJECT.json`, one plausible slip in
the code (a lost guard, a plain `DEL` for the compare-and-delete, `state_before` taken
too late, an import counted as completed after a partial listing, a cursor that
restarts after a full page, a minimum gain that only lifts what is already a gain) with which
TLC finds it violated.

## 5. What the code does not do although it says so

`MatchPipelineCrash` is a run.  The other configurations named here belong to the
project as counterexamples that can be replayed: `tlc -config X.cfg M` stops at the
property in the configuration; where more than one is named, put the other one in its
place (an invariant as INVARIANT, what is marked with a box as PROPERTY).

1. **A crash turns a match into "already done"** (`MatchPipelineCrash`,
   `NoFalseAlreadyDone`).  `workers/processor.py:175`: the flag
   `arena:processed:{id}` is set before the work and cleared only in the exception
   handlers.  A killed process, or a cancellation by the shutdown of a worker, leaves it
   set; arq delivers the job again, and the delivery is skipped although nobody
   rated the match.
2. **A job that runs into `job_timeout` is dropped** (the same configuration,
   `NothingIsSilentlyDropped`).  `workers/main.py:70`: arq cancels the coroutine and
   records a failure, without another try.  Neither the retry nor the dead-letter branch
   sees the cancellation.
3. **A rewind may keep a match of its window** (`ChronoReplayDoubts`, module
   `MCChronoReplay`, `RewindsBeforeFloor`).  `services/replay.py:256`: the restore point is
   the `state_before` of the oldest row of the window.  If the oldest match arrived
   last, that state already holds the later match, which the replay folds in once more.
4. **A failed replay leaves the season wiped** (`ChronoReplayDoubts`,
   `NothingStaysWiped`).  `services/rating_service.py:428`: the service commits each match, so
   the first one makes the deletes of the whole window durable, before the rest is
   rated again.  If it was an operator's replay of the whole season, nothing rated may be
   left at or after an armed floor: `replay_from` then answers "empty", and the tick keeps
   the floor until such a match lands (`FloorIsConsumed` excepts it).
5. **Live matches and a replay overwrite each other** (`ChronoReplayDoubts`,
   `NoUpdateIsLost`).  `services/replay.py:88`: the replay takes no player locks, and looks at
   the queues once, before it starts.  The damage may outlast a season that looks right
   again: a live match that is rated between the replay's reads and its commit may get a
   restore point that holds the match itself, and a later incremental replay rewinds
   onto it although every rating was in order when it started (`services/replay.py:256`).
   The proof of `RewindIsExact` found this; an incremental replay therefore trusts
   nobody unless the season is `apart`.
6. **Saturated before exhausted** (`RefillDoubts`, module `MCRefill`, `[]`
   `SaturatedMeansExhausted`).  `workers/bootstrap.py:282`: what is pending is the length of
   the pending list; players that were popped and are still being listed, and jobs in
   the queues, are not counted.
7. **A repeated refill does not resume** (`RefillDoubts`, `[]` `ResumeIsSafe`).
   `workers/backfill.py:76`: a player is claimed for good before it is pushed, and
   popped before it is imported.  When a failure comes in between, seeding it again
   skips it.
8. **The priority sweep does not un-bury a match** (`DiscoveryPriority`, module
   `MCDiscovery`, `[]` `PriorityIsNotBuried`).  `workers/sweep.py:168` and `core/config.py:268`
   say that `skip_dedup` enqueues ids again that are buried in the standard backlog.
   arq refuses a second job of the same id whatever the queue, so the id stays where it is.
9. **HALF_OPEN lets everybody through** (`RiotTrial`, module `MCRiotClient`, `OneTrial`).
   `riot/circuit_breaker.py:11` and `:92` speak of a single trial; the state only says that
   the next calls pass too, until one has an answer.
10. **The shares of a champion do not settle** (`RollupShare`, module `MCRollups`, `[]`
    `SharesSettle`).  A page that divides picks of one table by games of another keeps the
    difference of two rebuilds, as long as no match lands to trigger the next.
11. **The purge empties a season that ended** (`RollupPurge`, module `MCRollups`,
    `RatedSeasonKeepsItsSnapshots`).  Snapshots are purged by the clock for every season, and
    nothing rebuilds those of a closed one.
12. **Standings are not ordered by the rules** (`TournamentTies`, module `MCTournaments`,
    `StandingsFollowTheRules`).  `tournaments/scoring.py:14-15` breaks ties by first places and
    by the last match; `_project` (`tournaments/service.py:505`) sorts by the total alone.
13. **A requeue of all races with the others** (`AdminDeskRace`, module `AdminDesk`,
    `NothingIsRacedAway`).  `api/routers/admin.py:985`: the list is read, and as many entries
    are trimmed in a second command; what another request removed in between makes the trim
    take an entry that nobody enqueued.
14. **A season goes back, and a merge is lost** (`AdminDeskSeason`, module `AdminDesk`, `[]`
    `SeasonOnlyMovesOn`; with `Asked = {"config"}`, `[]` `NoMergeIsLost`).
    `services/season_service.py:12-14` allows forward transitions only.  Three requests that
    loaded the row before each other's commits write their own targets, the last wins;
    two merges of the configuration write the whole JSON each.
15. **The profile shows another CR than the board** (`RatingDoubts`, module `MCRatings`,
    `ProfileShowsTheBoardsCr`).  One page derives it from mu and sigma, the other reads the
    stored column, which was floored at zero without `mu` being solved back.
16. **A card does not add up** (`RatingDoubts`, `EveryCardAddsUp`).  Rows with a partial
    explanation, or in lobbies of fewer teams than their format, hide the chip of the cap.
17. **A replay does not reproduce the ingestion** (`RatingDoubts`, `[]` `ReplayReproduces`).
    `services/replay.py:32-36` requires it.  `_FixedIntegrity` carries the party, but not the
    factors that were applied, so the dampener is gone after a replay.
18. **Two pages of the board skip a player** (`RatingDoubts`, `PagesShowEverybody`).
    `ORDER BY cr` alone leaves ties to Postgres, which may order them differently for each
    page.

19. **The key of a bucket expires under a penalty** (`RiotPenalty`, module `MCRiotClient`,
    `KeyOutlivesPenalty`).  "The bucket key must outlive the penalty"
    (`riot/rate_limit.py:242`), and `penalize` gives it that long.  But the script of `acquire`
    sets the same key to expire in its own 120 s (`riot/rate_limit.py:88`), also when it refuses,
    and so does a second 429 with a shorter `Retry-After` (`:117`).  When a longer penalty is
    left and nobody asks, the key goes, and the absent hash is a full bucket.
20. **A row of an earlier epoch is cleared of its cap** (`RatingEpochs`, module `MCRatings`,
    `ClearedWasNotBound`).  `rating/explain.py:348` calls a row without cap facts "PROVABLY not
    bound" when its change lies on no bound of today's curves.  A fourth place that the flat
    clamp of 68 had bound (`rating/params.py:113-117`) lies on none, since today's loss cap is 30
    there.  `params_epoch` is read from the row (`services/pdl_explain_service.py:197`) and never
    looked at, although `rating/params.py:139-141` says the read path marks such rows as
    reduced-fidelity.
21. **An import that hits its page cap is recorded as complete** (`RefillDoubts`,
    `HistoryIsOnItsWay`).  `workers/backfill.py:107` speaks of "All match ids"; the loop over
    `backfill_max_pages_per_player` (`workers/backfill.py:117`, `core/config.py:330`) ends without
    clearing `ok`, so the older matches of the player are nobody's.

Weaknesses without a configuration, because no text of the repository promises the contrary,
one accepts the cost, or the case is left out of the model:

- *Replay.*  `clear_replay_floor` (`services/ingest_state.py:121`) sets the floor to null whatever it
  is by then, so a floor that was lowered during the replay is lost.  The high-water mark is a
  `GET` and a `SET` (`services/match_pipeline.py:614`); two workers can move it back, and a
  late match is then taken for the newest.
- *Riot client.*  A call admitted before the trip closes an OPEN breaker when it
  succeeds late; answers with status 503 count as successes of the breaker; a token is lost when
  the next bucket refuses; the `finally` of the coalescer deletes the lease without
  looking whose it is; a cancelled waiter cancels the future it shares.
- *Rollups and pages.*  The cron for season transitions imports a function that does not
  exist and reports "skipped" (`workers/scheduler.py:65`); `close_season` and `soft_reset` are called by nothing that runs; the two inserts
  of the combos see two snapshots; the last hours of a closed season are never rolled up;
  win/loss, streaks of first places and head-to-head count ineligible rows;
  `_champion_overall_tier` (`api/routers/champions.py:487`) claims the same ranking as the
  table, from a list with another floor.
- *Tournaments.*  `set_match_link` sets the status of a match that ended back, whatever its
  result (`tournaments/service.py:311`); results out of order leave the tournament unfinished; a resubmission adds its penalties again;
  a team without a captain stays without one when a player joins.
- *Operators.*  The append of a moderation flag is a read-modify-write of a JSON list; a plain
  review erases an override, which nothing reads anyway; a dead letter without an id is dropped
  by requeue-all, a failure after the trim drops the rest, and a failed `enqueue_job` drops
  a single one (`api/routers/admin.py:1072`).
- *Ratings and pages of players.*  `apply_state_before` restores without the floor at zero; the last
  ten of `champion_stats` come out reversed after a rebuild; a victory is half of the
  mode's teams on one page and of the live count on another; a backfilled match stamps
  its snapshot with the time of the rating; a partly stamped payload still counts that
  team; the evaluators of boosting, duration, dispersion and repeated lobbies never run
  live.
- *Board.*  `services/leaderboard_service.py:3-7` says the write path keeps the sorted set warm;
  nothing calls `update_players` or `invalidate`.  A set that expires between `EXISTS` and the
  range read shows an empty page, and one that fails between `ZADD` and `EXPIRE` never expires.

## 6. Proofs

Eight modules hold proofs; they are for any value of the constants that satisfies the
named assumptions.

**`RedisLocks_proofs`, the player locks.**  Assumptions: tokens, free and orphaned values differ; lobbies are sets
of players; the budgets are naturals.  The invariants are not inductive: what a worker
may rely on is in its `held` list, and what excludes others is in Redis.  `IInv` ties them:
a live token in Redis is on its owner's list unless a release failed; a listed key
carries the owner's token unless it lapsed; the critical section is entered with all
keys listed, and a sleeping worker has none.  From it follow `TypeOK`, `CriticalExclusion`,
`NoHoldAndWait`, `OnlyExpiryTakesALock` and the refinement of `PlayerMutex`, action by
action.

**`RedisLocks_proofs`, the Riot client.**  The limiter and the coalescer share no state, so there are two
invariants.  `BInv`: a bucket under a penalty is empty, is frozen until the penalty is over,
and its key lives as long, unless the bucket is in `cut`.  `PenaltyIsKept` so holds for any
`Retry-After`; that keys are cut is item 19 of section 5.  It says that no token is handed out:
a call that has its token when the 429 arrives is still sent.  `LInv`: whoever
loads under the lease is its owner while no lease has run out; `OneLeader` follows from
there being one owner.

**`MatchPipeline_proofs`.**  Assumptions: lobbies are non-empty sets of players, jobs carry
matches, the kinds of jobs are disjoint.  The refinement of `MatchLadder` does not rest on
the player locks, which expire, but on the row locks that `register_players` takes: `IInv`
says that from the end of the upsert to the commit a job holds every row of its lobby,
that its match is not yet processed once it was checked, and that what it read is still
what is committed.  A second job of the same match, or of a lobby that shares a player,
therefore waits.  `RestorePoints` is inductive given this invariant.  That the waits end in
no circle (`NoRowDeadlock`) goes by the order of the rows: `RInv` says that the rows a job
has locked come before those it still asks for, in the sort order of the code, so that
along a circle of waits the row waited for would grow for ever, while only so many
rows are locked.
`StagedUntilRated` rests on `WInv`: a drain pass works on a match that is staged or rated, and reaches its end only
when it is rated; any job that reaches the end has its match staged or rated.
`FailuresLoseNothing` is not inductive, because a delivery is skipped on account of a
flag that another job set.  `LInv` gives the reason for a flag: its match is written or
filtered, or a job between the guard and the release of the flag still has it; and a
job in the queue has an attempt left.  It holds as long as no process was interrupted and
no Redis command failed, which is the premise of the property, and item 1 of section 5
shows that the premise is needed.

**`ChronoReplay_proofs`.**  Assumptions: finitely many matches, each with a lobby and a positive
time of its own.  An invariant cannot say what the ratings are, since live matches are
committed in any order and earlier replays have left the season half in order.  `IInv` says
instead when a sequence of matches is one a replay may rewind to.  It is `Safe` for a player
when, where it happens to be a beginning of what that player has played (in order, and
nothing earlier is missing), the restore points of all matches in it are exact.  Every
rating and every restore point is safe, and none in order holds its own match
(`PointsAreSafe`): a match that is appended in order is exact by that (`AppendBegins`), and a
match that comes late makes every sequence that skips it no beginning any more
(`SafeStays`).  This holds while live matches and replays keep apart (`ApartHolds`).  For a player
whose matches are in order a replay then finds exact restore points, and `TrustedHolds` follows
that player: what is still to rate of its matches is the end of them, and it has the rest, in
order.  The other players of its lobbies may be out of order, since what is rated of one
does not depend on them.  `SessionFits` is the step in the middle: what the session reads of a player, restored or
committed, is safe and holds only what is earlier.  That a window has an order
of play at all (`ChronologicalExists`) goes by the cardinality of what is earlier.

**`Refill_proofs`.**  Assumptions: finitely many players (only for the counts in `TypeOK`),
lobbies are sets of players.  `NobodyIsForgotten` is not inductive, because a player that is
about to be claimed may be claimed already: `IInv` accounts for a claim without the players
that wait for theirs, and for a registered player by its claim or its wait.
`ImportedIsOnItsWay` is about what an import lists, within its pages.  It needs more: an
import skips ids others have claimed, so every id in `seen_matches` must be accounted for, and
every player listed whole, its import over or not; and a listing must not overwrite ids in hand, which is where `OneShot` is
needed (a player is popped only while it is in no import).

**`ApiRequests_proofs`, the operators' desk.**  `NothingLostAlone` rests on `DInv`, which follows an entry through the
list, the hand of the request that took it off and the queue: while one request works
alone, what it read is still the front of the list when it trims it; a removal in the middle of the list (`LREM`) is
`RemoveFirst`, whose effect on the entries is a lemma.  `OnlyNamedColumnsChange` is proved commit by commit: a step that changes
a row is the commit of a request, and writes the columns that request set.  The invariant
only says that every request and the row of the season have their fields, since SQLAlchemy's
partial UPDATE is what carries the property.

**`Discovery_proofs`.**  `ClaimsAreLeases` needs that a tick which is neither about to push nor
to settle has nothing in its hand: its next listing would overwrite it.
`RotationSkipsNobody` rests on keyset paging: `PageIsBeginning` says that the page of a finite
set of numbers is a beginning of it, and the whole of it unless it is full, which goes
by the least element left out and the greatest taken (`Least`, from the well-foundedness
of the naturals, and `Greatest`, from the least number of elements above).  `RInv` carries over the
two steps of a sweep what the page leaves: it lies beyond the page, and nothing is left
behind a short one.  `OutagesAreRecovered` is about the step that deletes a window, and says
what a scan of many pages has done by then.  `OInv` follows it: what the window owes
ended after it and concerns a tracked player (`WInv`, with Redis keeping the earlier
of two windows), and a match a running scan owes is `Safe`, or one of its tracked
players is one the scan will still list (`Awaits`: beyond the cursor, in the page,
or beyond a full page).  A last page leaves nobody to await.  A safe match stays safe only
because a claim has one holder: `LInv` sharpens `ClaimsAreLeases` to say that what a
claiming tick holds is claimed, by nobody else, so that a claim given back is never
somebody else's, and that the unclaimed ids of a priority look-up are not what a scan
relies on.

**`ApiRequests_proofs`, the tournaments.**  Assumption: `SheetsAssumption`, sheets and fines name
teams of the tournament and hold integers.  `SeatsAreKept` is about rows that were read
before they are written: `DecidesOnTheRows`, a part of `TInv`, says that a request which is
about to commit holds the row of the tournament, and that what it decided on is what the
rows still are.  `BooksBalance` compares a table by teams with the sheets it was computed
from.  `TableAddsUp` says it team by team, for the sheets in force at the last submission: a
total is what they are worth to the team less every fine it was ever charged.  That the scores a team
is shown add up is `ListAddsUp`: the code lists them in the order of the
matches, and the places in that order are a bijection.  That the table then adds
up to the sheets is a double sum taken the other way round (`SumsSwap`).

**`SumTheorems`.**  Sums of integers over a finite set, as the folds of the community
modules define them: they can be taken entry by entry, term by term, along a bijection
(`SumOfRenamed`), in either order (`SumsSwap`), and grow with the set.  The proofs of `Ratings` and
`Tournaments` rest on them.

**`RatingsAndPages_proofs`, the ratings and the pages of players.**  Assumptions: `ParamsAssumption`, what `validate_params` refuses
(`rating/params.py`, `integrity/params.py`) and what the production curves satisfy (a number per
placement; where there is a minimum gain the cap leaves room for one; the number of placement
matches is a natural; the upper half of a format ends at an integer; a PDL has at least one
unit), and
`ListedAssumption`, what Riot's payloads are.  The theorems about the specification have
one hypothesis more, `IntegerUpdate`: `PLDelta` and `PLSigma` map integers to integers.

- The arithmetic, for all integers: a capped change is in its band or was not touched, a
  label means a change, a placement whose band is positive pays whatever the Bayesian
  change was, and solving `mu` back keeps the identity of the capped CR.
- `EarnedIsConsistent` collects what the stored facts of one result have to do with each
  other, `ConsistentRow` concludes that such a row pays and that its explanation closes, and
  `PersistIsSound` that a commit, live or of a replay, writes such rows only.
- `IInv` adds to the types what the rows and the window remember.  `WindowHolds`: an entry of
  the co-occurrence window is a match that was committed, or the one at hand - of a commit
  that failed after the verdict.  Without the second case a redelivery breaks
  it; with it, the window holds at most the match itself for two strangers, and one
  match is below every threshold.  `Continuous`: the state after an ineligible row is the
  state before it, which a rewind needs, because it restores what the next row remembers.
- From `IInv` follow `GoodPlacementsPay`, `ExplanationCloses`, `StrangersAreNotDampened` and
  `RatedAsPlayed`.
- `CountersAgreeWithRows` compares increments with definitions over all rows: a count, a run
  at the end, a maximum, a sum.  A rewind sets the counters back to what a row remembers, so
  `CountersHold` says of the state, and of every restore point with the rows before it, that
  it counts them (`Counts`); then a rewind needs no more than its own restore point.  The
  totals of a champion are followed outside replays only (`Tallies`); `Finish` recomputes them.
- `ApportionmentIsExact` is the promise of `_apportion`, "integers that sum to `target` exactly":
  the order of the nudges is a bijection of the entries to `0 .. n - 1`
  (`NudgesAreRanked`), and so a number of nudges that is `n` times a quotient and a rest adds up to
  itself (`TurnsAddUp`).  `NoEntryIsAPdlAway` adds that, where the target is the rounded sum, every
  nudge goes to an entry that was rounded the other way: otherwise the rests would
  be too small to need that many (`NudgesAreShort`).  `TheShownLedgerAddsUp` applies both to the
  stored rows, a part of `LedgersAddUp`.
- `PagesTellOneStory` is about pages that sort, page, count and round.  What it needs of the
  state is `CrsHold`: a stored CR is what `mu` and `sigma` say, or the zero above it
  (`Kept`), a row starts from the CR of its own restore point, and a result ends where the
  next one starts or at the floor which hid the rest (`Continues`).  A rewind puts back what
  the floor hid, so equality instead of `Continues` would not be inductive.  The rest follows
  state by state: the k-th of a finite set from above exists and is below the one before it
  (`NewestComeFirst`), so the pages of a history are the newest first and lose nothing; an
  order of the board names everybody, so those above a player stand before it
  (`RankIsThePlace`); rounding keeps the order (`RoundingKeepsOrder`); and where nothing ends at
  the floor the changes of a week telescope (`DeltasTelescope`).
- Sums and counts over sets need inductions.  They are done by hand: the least
  size of a subset for which something fails (`LeastNatural`, from the well-foundedness of the
  naturals) has none below it; `SetInduction` states this once for a set of sets in the
  place of a predicate.

The proof of `ExplanationCloses` corrected the property.  `rating/explain.py` says that a
rest which nothing explains "should not happen for well-formed input", and the bounds of the
run had let a stronger form pass: that only a CR that lost its identity leaves one.
But when `to_cr` floors a large loss at zero and the loss cap or the minimum gain then
lifts the result, the ledger counts the unfloored change, and a rest remains as well.  With
the curves of production that takes a CR between the loss cap (68) and the greatest
change of `mu` (80); in the run the gain of confidence of a first match makes up for
the difference, so only the proof shows it.

**`RatingsAndPages_proofs`, the rollups.**  Assumption: `RollupAssumption`, finitely many
participants, with champions and places that are naturals.  `NeverAhead` compares a table
with matches that go on landing while it is rebuilt.  `TablesAreBehind` bounds each row by what the
rebuild of its season would count under its key, for the rows of a day, of two
teammates and of two opponents; `TickIsBehind` says the same of the statements a
tick has done and not committed, since each statement sees what landed before it.  Both survive a
match that lands because a match stays in the season and on the day where it landed (`MatchesStay`), so
that what a rebuild counts only grows; they say nothing of which matches a row has, which
changes with every tick.  That trios and pairs share a table does no harm, because
champions ascend along a key and the third of a trio is never the 0 of a pair.  On the way to a
page, rows are turned round (`PairsAreSeen`: the pairs a champion is in, from either end, cover
both orders of the key) and added up over days (`DaysAddUp`).  `ProfilesAgree` is
proved under `TeamsHoldPlaces`, that the members of a team share one place and no two teams do:
`riot/arena.py` stores 0 for a place a payload does not give, and `head_to_head` would call a
meeting of two such teams a win of both.

Layout: one lemma per conjunct group, one step per action of `Next`, theorems at the
end of each module or part.  The theorems a reader should know are listed in
`PROJECT.json`.  The type invariants of `PlayerLocks`, `MatchPipeline` and `Refill` are
proved and no longer run.

## 7. What is only model-checked, and what is not modelled

Only model-checked:

- every liveness property, since the prover does not handle fairness or `ENABLED`;
- that the pages of champions catch up (`PagesCatchUp`) is liveness, and with it what the tables are
  compared with once they have;
- what `LedgersAddUp` says beyond the shown ledger of a stored row: that the drill-down of a legacy row
  adds up, and that the card of the history does, which depends on the numbers of the curves (a
  chip is hidden below a twentieth of a PDL).

Left out of the modelled parts, with the reason:

- the Bayesian update (openskill): external, floating point; its signs are what is used;
- metrics, logs, alerts and the observation of `X-Rate-Limit` headers: nothing reads them back;
- the refusal of a replay for a missing restore point: the floor stays armed, as for
  a window that is too large, which is modelled as a guard;
- in `Refill`, the hold under memory pressure, the enable flags and a worker without a Riot
  client: the tick returns at once, which is a step the fairness would have to exclude;
- in `Discovery`, the release of a claim that `workers/ingestion.py:164-168` asks a dead-lettering
  owner for: `process_match` does not make it when it gives up, and a job that failed for
  good counts as a failure on record;
- in `Rollups`, the `DELETE` of `match_participants` by a replay (`services/replay.py:335-341`):
  counts only grow, and the rebuilds are followed for one season, tables one or two at a time;
- in `Ratings`, a row with cap facts of an earlier epoch, whose chain is replayed with today's
  curves (`rating/explain.py:225`); the history card of a legacy row; a match that is observed
  and then dead-lettered;
- a tournament's own scoring table (`tournaments/service.py:138-140`, `:642-650`): `Scoring` is
  `default_scoring`; sheets that name a team twice; the cached list stands for one
  tournament's presence in it;
- access codes, several tournaments and unknown ids in `Tournaments`; sessions and the listing
  endpoints of the admin console; names, icons and wording of the pages.

Not modelled:

- the Redis copy of the board (`services/leaderboard_service.py`): a read-through cache with a
  TTL whose refresh nothing calls; the board is modelled from its Postgres read;
- the pause flags of the workers: one read at the start of a tick or job;
- `close_season`, `soft_reset` and the achievements: called by nothing that runs;
- payments (`payments/*`): they create a link at the provider and persist nothing;
- static game data, search, telemetry, the schema declarations, settings: declarations or
  plain reads without an invariant of their own;
- frontend, admin console, TypeScript packages, infrastructure and operator scripts: clients
  of what is modelled, or outside the running system.
