------------------------------- MODULE Refill -------------------------------
(***************************************************************************)
(* A season refill: workers/bootstrap.py seeds a few players, workers/      *)
(* backfill.py imports a player's history once, the matches found go to the *)
(* arq queues, are staged while the season is catching up and drained into  *)
(* the ladder, and every match that is rated registers the players of its   *)
(* lobby, whose histories come next.  The bootstrap cron watches this       *)
(* frontier and sets the season live when it is quiet.                      *)
(*                                                                         *)
(* Riot's list of the matches of a player is fixed during the refill, all    *)
(* matches are eligible and of one queue, and greater matches are newer.  A job is one step here: MatchPipeline has its *)
(* inside, PlayerLocks and ChronoReplay what the rating does.  The Riot     *)
(* client is wired, backfill is enabled, and the pending list is a set: the *)
(* list is first in, first out, which is the fairness of Pop.              *)
(***************************************************************************)
EXTENDS Naturals, FiniteSets

CONSTANTS
    Players,
    Matches,
    Lobby,        \* Lobby[m]: the players of match m
    Cap,          \* ids an import asks for: pages per player x ids per page
    Seeds,        \* bootstrap_seed_riot_ids
    Recent,       \* matches in the newest ids of their players (sweep_tick)
    Streak,       \* _SATURATION_STREAK
    MaxAttempts,  \* backfill_max_attempts
    NoTick,       \* no bootstrap_tick is running
    MaxOrders,    \* bound: orders of the operator
    MaxFaults     \* bound: failures

ASSUME PlayersAssumption == IsFiniteSet(Players)
ASSUME MatchesAssumption == Matches \subseteq Nat /\ IsFiniteSet(Matches)
ASSUME LobbyAssumption == Lobby \in [Matches -> SUBSET Players]
ASSUME SubsetsAssumption == Seeds \subseteq Players /\ Recent \subseteq Matches
ASSUME NumbersAssumption ==
    /\ Cap \in Nat \ {0} /\ Streak \in Nat \ {0} /\ MaxAttempts \in Nat \ {0}
    /\ MaxOrders \in Nat /\ MaxFaults \in Nat

VARIABLES
    mode,      \* season_ingest_state.mode
    cache,     \* the mode cached by the consumers and by the scheduler
    seeded,    \* season_ingest_state.seeded_at is set
    frontier,  \* season_ingest_state.frontier_done
    quiet,     \* arena:bootstrap:quiet_passes, capped at Streak
    tick,      \* what the running bootstrap_tick counted, or NoTick
    known,     \* the players table
    newborn,   \* players inserted, not yet given to enqueue_backfill
    claimed,   \* BACKFILL_CLAIMED_SET
    pending,   \* BACKFILL_PENDING_LIST
    attempts,  \* BACKFILL_ATTEMPTS_HASH
    stage,     \* stage[p]: where the import of the popped player p is
    hold,      \* hold[p]: ids the import of p has claimed and not yet queued
    seen,      \* SEEN_MATCHES_ZSET
    queue,     \* matches with an arq job (the job id is the match id)
    backlog,   \* match_backlog
    rated,     \* matches with matches.processed = true
    imported,  \* history: players whose import ended as completed
    lost,      \* history: players whose import was cut off or given up
    missed,    \* history: matches a failure took from the importer or the queue
    orders,
    faults

redis == <<claimed, pending, attempts, seen, queue>>
import == <<stage, hold>>
state == <<mode, cache, seeded, frontier>>
history == <<imported, lost, missed>>
bounds == <<orders, faults>>
vars == <<state, quiet, tick, known, newborn, redis, import, backlog, rated,
          history, bounds>>

Modes == {"live", "catching_up"}
Processes == {"consumer", "scheduler"}
History(p) == {m \in Matches : p \in Lobby[m]}

\* Riot lists the newest first and backfill_max_pages_per_player ends the
\* listing, which counts as whole.
Listed(p) == {m \in History(p) : Cardinality({l \in History(p) : l > m}) < Cap}

InFlight == {p \in Players : stage[p] # "none"}

TypeOK ==
    /\ mode \in Modes
    /\ cache \in [Processes -> Modes]
    /\ seeded \in BOOLEAN
    /\ frontier \in 0 .. Cardinality(Players)
    /\ quiet \in 0 .. Streak
    /\ tick \in [players : 0 .. Cardinality(Players), empty : BOOLEAN] \cup {NoTick}
    /\ known \subseteq Players /\ newborn \subseteq Players
    /\ claimed \subseteq Players /\ pending \subseteq Players
    /\ attempts \in [Players -> 0 .. MaxAttempts - 1]
    /\ stage \in [Players -> {"none", "listing", "whole", "partial"}]
    /\ hold \in [Players -> SUBSET Matches]
    /\ seen \subseteq Matches /\ queue \subseteq Matches
    /\ backlog \subseteq Matches /\ rated \subseteq Matches
    /\ imported \subseteq Players /\ lost \subseteq Players
    /\ missed \subseteq Matches
    /\ orders \in 0 .. MaxOrders /\ faults \in 0 .. MaxFaults

Init ==
    /\ mode = "live" /\ cache = [x \in Processes |-> "live"]
    /\ seeded = FALSE /\ frontier = 0 /\ quiet = 0 /\ tick = NoTick
    /\ known = {} /\ newborn = {} /\ claimed = {} /\ pending = {}
    /\ attempts = [p \in Players |-> 0]
    /\ stage = [p \in Players |-> "none"]
    /\ hold = [p \in Players |-> {}]
    /\ seen = {} /\ queue = {} /\ backlog = {} /\ rated = {}
    /\ imported = {} /\ lost = {} /\ missed = {}
    /\ orders = 0 /\ faults = 0

Fault ==
    /\ faults < MaxFaults
    /\ faults' = faults + 1
    /\ UNCHANGED orders

-----------------------------------------------------------------------------
(* The operator.                                                           *)

Order == orders < MaxOrders /\ orders' = orders + 1 /\ UNCHANGED faults

\* request_bootstrap: only the intention is recorded.
Request ==
    /\ Order
    /\ mode' = "catching_up"
    /\ seeded' = FALSE
    /\ UNCHANGED <<cache, frontier, quiet, tick, known, newborn, redis, import,
                   backlog, rated, history>>

\* stop_bootstrap: live without waiting; the backlog is kept.
Stop ==
    /\ Order
    /\ mode' = "live"
    /\ UNCHANGED <<cache, seeded, frontier, quiet, tick, known, newborn, redis,
                   import, backlog, rated, history>>

\* get_mode: the cached mode of the process, or that of the database.
Sees(process, md) ==
    \/ md = cache[process] /\ UNCHANGED cache
    \/ md = mode /\ cache' = [cache EXCEPT ![process] = mode]

-----------------------------------------------------------------------------
(* bootstrap_tick.                                                         *)

\* enqueue_backfill: the players that were not claimed yet become pending.
Claim(S) ==
    /\ claimed' = claimed \cup S
    /\ pending' = pending \cup (S \ claimed)

\* The seeds S go to the pending list; for T the LPUSH after the SADD failed.
SeedsQueued(S, T) ==
    /\ claimed' = claimed \cup S \cup T
    /\ pending' = pending \cup (S \ claimed)

\* seed_now and the commit of seeded_at.  A seed that does not resolve, or
\* whose SADD or LPUSH fails, is skipped with a warning, and so is a DEL of the
\* streak that fails.
TickSeeds ==
    /\ tick = NoTick
    /\ Sees("scheduler", "catching_up")
    /\ ~seeded
    /\ seeded' = TRUE
    /\ \/ SeedsQueued(Seeds, {}) /\ quiet' = 0 /\ UNCHANGED <<lost, bounds>>
       \/ \E S \in SUBSET Seeds, T \in SUBSET Seeds :
             /\ Fault
             /\ SeedsQueued(S, T)
             /\ quiet' \in {quiet, 0}
             /\ lost' = lost \cup ((Seeds \ S) \ claimed)
    /\ UNCHANGED <<mode, frontier, known, newborn, attempts, seen, queue,
                   import, backlog, rated, tick, imported, missed>>

\* No seed resolves (seed_failed), or the tick dies before the commit: the next
\* tick seeds again, but passes over the seeds this one claimed.
TickSeedFails ==
    /\ tick = NoTick
    /\ Sees("scheduler", "catching_up")
    /\ ~seeded
    /\ Fault
    /\ \E S \in SUBSET Seeds, T \in SUBSET Seeds :
          /\ SeedsQueued(S, T)
          /\ lost' = lost \cup ((T \ S) \ claimed)
    /\ quiet' \in {quiet, 0}
    /\ UNCHANGED <<mode, seeded, frontier, known, newborn, attempts, seen, queue,
                   import, backlog, rated, tick, imported, missed>>

\* The counts of players and of staged matches.
TickCounts ==
    /\ tick = NoTick
    /\ Sees("scheduler", "catching_up")
    /\ seeded
    /\ tick' = [players |-> Cardinality(known), empty |-> backlog = {}]
    /\ UNCHANGED <<mode, seeded, frontier, quiet, known, newborn, redis, import,
                   backlog, rated, history, bounds>>

\* The quiet passes in a row, with this tick, if it sees players `waiting`.
Passes(waiting) ==
    IF tick.players > frontier \/ waiting THEN 0
    ELSE IF quiet < Streak THEN quiet + 1 ELSE Streak

GoesLive ==
    /\ mode' = "live"
    /\ cache' = [cache EXCEPT !["scheduler"] = "live"]

\* Mutant of Concludes: the count of players is not stored, so every tick finds
\* that the frontier grew.
ConcludesForgetful(waiting) ==
    /\ quiet' = Passes(waiting)
    /\ IF quiet' >= Streak /\ tick.empty THEN GoesLive ELSE UNCHANGED <<mode, cache>>
    /\ UNCHANGED frontier

\* The end of a tick: saturated and nothing staged is the end of the refill.
Concludes(waiting) ==
    /\ quiet' = Passes(waiting)
    /\ IF quiet' >= Streak /\ tick.empty THEN GoesLive ELSE UNCHANGED <<mode, cache>>
    /\ frontier' = tick.players

\* The length of the pending list, the streak, and the verdict; a failing
\* LLEN counts as an empty list, a failing INCR or DEL as no quiet pass.
TickConcludes ==
    /\ tick # NoTick
    /\ \/ Concludes(pending # {}) /\ UNCHANGED bounds
       \/ Fault /\ pending # {} /\ Concludes(FALSE)
       \/ Fault /\ frontier' = tick.players /\ UNCHANGED <<mode, cache, quiet>>
    /\ tick' = NoTick
    /\ UNCHANGED <<seeded, known, newborn, redis, import, backlog, rated, history>>

\* The tick raises or its process dies, before or after it counted the pass.
TickAborts ==
    /\ tick # NoTick
    /\ Fault
    /\ tick' = NoTick
    /\ quiet' \in {quiet, Passes(pending # {})}
    /\ UNCHANGED <<state, known, newborn, redis, import, backlog, rated,
                   history>>

-----------------------------------------------------------------------------
(* backfill_tick.  Passes may overlap: the tick lock expires before a pass  *)
(* need end, so every popped player is on its own.                         *)

\* RPOP: the player is in no list any more.
Pop(p) ==
    /\ p \in pending
    /\ pending' = pending \ {p}
    /\ stage' = [stage EXCEPT ![p] = "listing"]
    /\ UNCHANGED <<state, quiet, tick, known, newborn, claimed, attempts, seen,
                   queue, hold, backlog, rated, history, bounds>>

\* _history_for and _dedup_new: the ids nobody has seen are claimed.  A listing
\* that fails on the way yields a part of the ids, and is known to be partial;
\* an id whose ZADD fails is skipped, and the listing is as whole as it was.
List(p) ==
    /\ stage[p] = "listing"
    /\ \E ids \in SUBSET Listed(p) : \E skipped \in SUBSET (ids \ seen) :
          /\ stage' = [stage EXCEPT ![p] = IF ids = Listed(p) THEN "whole"
                                                             ELSE "partial"]
          /\ IF ids = Listed(p) /\ skipped = {} THEN UNCHANGED bounds ELSE Fault
          /\ seen' \in {seen \cup ids, seen \cup (ids \ skipped)}
          /\ hold' = [hold EXCEPT ![p] = ids \ (seen \cup skipped)]
          /\ missed' = missed \cup skipped
    /\ UNCHANGED <<state, quiet, tick, known, newborn, claimed, pending,
                   attempts, queue, backlog, rated, imported, lost>>

\* _push_claimed: an id that cannot be queued is given back if Redis allows.
Push(p) ==
    \E failed \in SUBSET hold[p] :
        /\ queue' = queue \cup (hold[p] \ failed)
        /\ missed' = missed \cup failed
        /\ IF failed = {} THEN UNCHANGED <<seen, bounds>>
           ELSE Fault /\ seen' \in {seen, seen \ failed}
        /\ hold' = [hold EXCEPT ![p] = {}]
        /\ stage' = [stage EXCEPT ![p] = "none"]

\* The import of a player whose listing was whole is over.
Complete(p) ==
    /\ stage[p] = "whole"
    /\ Push(p)
    /\ attempts' = [attempts EXCEPT ![p] = 0]
    /\ imported' = imported \cup {p}
    /\ UNCHANGED <<state, quiet, tick, known, newborn, claimed, pending,
                   backlog, rated, lost>>

\* Mutant of RetryOrDrop: a partial import is recorded as completed.
RetryOrDropCompletes(p) ==
    /\ stage[p] = "partial"
    /\ Push(p)
    /\ attempts' = [attempts EXCEPT ![p] = 0]
    /\ imported' = imported \cup {p}
    /\ UNCHANGED <<state, quiet, tick, known, newborn, claimed, pending, lost,
                   backlog, rated>>

\* Mutant of RetryOrDrop: the player is dropped at the first failure.
RetryOrDropForgets(p) ==
    /\ stage[p] = "partial"
    /\ Push(p)
    /\ attempts' = [attempts EXCEPT ![p] = 0]
    /\ UNCHANGED <<state, quiet, tick, known, newborn, claimed, pending, lost,
                   backlog, rated, imported>>

\* _retry_or_drop: pending again, until the attempts are used up.
RetryOrDrop(p) ==
    /\ stage[p] = "partial"
    /\ Push(p)
    /\ IF attempts[p] + 1 < MaxAttempts
          THEN /\ attempts' = [attempts EXCEPT ![p] = @ + 1]
               /\ pending' = pending \cup {p}
               /\ UNCHANGED lost
          ELSE /\ attempts' = [attempts EXCEPT ![p] = 0]
               /\ lost' = lost \cup {p}
               /\ UNCHANGED pending
    /\ UNCHANGED <<state, quiet, tick, known, newborn, claimed, backlog, rated,
                   imported>>

\* A pass raises, is cancelled by arq's timeout or dies: its players S were
\* popped, are claimed for ever, and the ids it holds stay in seen_matches.
ImportAborts ==
    \E S \in (SUBSET InFlight) \ {{}} :
        /\ Fault
        /\ lost' = lost \cup S
        /\ missed' = missed \cup UNION {hold[p] : p \in S}
        /\ stage' = [p \in Players |-> IF p \in S THEN "none" ELSE stage[p]]
        /\ hold' = [p \in Players |-> IF p \in S THEN {} ELSE hold[p]]
        /\ UNCHANGED <<state, quiet, tick, known, newborn, redis, backlog, rated,
                       imported>>

\* sweep_tick lists the newest matches of a known player.
Sweep(m) ==
    /\ m \in Recent \ seen
    /\ Lobby[m] \cap known # {}
    /\ seen' = seen \cup {m}
    /\ queue' = queue \cup {m}
    /\ UNCHANGED <<state, quiet, tick, known, newborn, claimed, pending,
                   attempts, import, backlog, rated, history, bounds>>

\* SEEN_MATCH_TTL_SECONDS: a claim ages out of the set.
SeenExpires(m) ==
    /\ m \in seen
    /\ seen' = seen \ {m}
    /\ UNCHANGED <<state, quiet, tick, known, newborn, claimed, pending,
                   attempts, queue, import, backlog, rated, history, bounds>>

-----------------------------------------------------------------------------
(* The write path, as far as the refill sees it.                           *)

\* The commit of a rating: the lobby is registered with it.
Rate(m) ==
    /\ rated' = rated \cup {m}
    /\ known' = known \cup Lobby[m]
    /\ newborn' = newborn \cup (Lobby[m] \ known)

\* The job of a match that was staged or rated before: the idempotency flag.
JobSkips(m) ==
    /\ m \in queue
    /\ m \in backlog \cup rated
    /\ queue' = queue \ {m}
    /\ UNCHANGED <<state, quiet, tick, known, newborn, claimed, pending,
                   attempts, seen, import, backlog, rated, history, bounds>>

\* Mutant of JobStages: the commit of the staged row is missing.
JobStagesNothing(m) ==
    /\ m \in queue \ (backlog \cup rated)
    /\ Sees("consumer", "catching_up")
    /\ queue' = queue \ {m}
    /\ UNCHANGED <<mode, seeded, frontier, quiet, tick, known, newborn, claimed,
                   pending, attempts, seen, import, backlog, rated, history,
                   bounds>>

\* The gate of process_parsed: the match waits in match_backlog.
JobStages(m) ==
    /\ m \in queue \ (backlog \cup rated)
    /\ Sees("consumer", "catching_up")
    /\ queue' = queue \ {m}
    /\ backlog' = backlog \cup {m}
    /\ UNCHANGED <<mode, seeded, frontier, quiet, tick, known, newborn, claimed,
                   pending, attempts, seen, import, rated, history, bounds>>

\* The season is live, or its mode cannot be read: rated on arrival.
JobRates(m) ==
    /\ m \in queue \ (backlog \cup rated)
    /\ \/ Sees("consumer", "live") /\ UNCHANGED bounds
       \/ Fault /\ UNCHANGED cache
    /\ queue' = queue \ {m}
    /\ Rate(m)
    /\ UNCHANGED <<mode, seeded, frontier, quiet, tick, claimed, pending,
                   attempts, seen, import, backlog, history>>

\* The job fails for good and is dead-lettered.
JobFails(m) ==
    /\ m \in queue
    /\ Fault
    /\ queue' = queue \ {m}
    /\ missed' = missed \cup {m}
    /\ UNCHANGED <<state, quiet, tick, known, newborn, claimed, pending,
                   attempts, seen, import, backlog, rated, imported, lost>>

\* drain_backlog rates a staged match, in any mode; a row whose rating fails is
\* passed over until the next minute.
Drain(m) ==
    /\ m \in backlog \ rated
    /\ Rate(m)
    /\ UNCHANGED <<state, quiet, tick, redis, import, backlog, history, bounds>>

\* The commit that ends a drain pass removes the rows it rated.
Unstage(m) ==
    /\ m \in backlog \cap rated
    /\ backlog' = backlog \ {m}
    /\ UNCHANGED <<state, quiet, tick, known, newborn, redis, import, rated,
                   history, bounds>>

\* enqueue_backfill after the commit that inserted the player.
EnqueueNew(p) ==
    /\ p \in newborn
    /\ newborn' = newborn \ {p}
    /\ Claim({p})
    /\ UNCHANGED <<state, quiet, tick, known, attempts, seen, queue, import,
                   backlog, rated, history, bounds>>

\* The process dies before it, or SADD or LPUSH fails: nobody tries again.
EnqueueNewFails(p) ==
    /\ p \in newborn
    /\ Fault
    /\ newborn' = newborn \ {p}
    /\ claimed' \in {claimed, claimed \cup {p}}
    /\ lost' = lost \cup ({p} \ claimed)
    /\ UNCHANGED <<state, quiet, tick, known, pending, attempts, seen, queue,
                   import, backlog, rated, imported, missed>>

-----------------------------------------------------------------------------

Job(m) == JobSkips(m) \/ JobStages(m) \/ JobRates(m)
Handle(p) == Complete(p) \/ RetryOrDrop(p)

Next ==
    \/ Request \/ Stop
    \/ TickSeeds \/ TickSeedFails
    \/ TickCounts \/ TickConcludes \/ TickAborts
    \/ \E p \in Players : Pop(p)
    \/ \E p \in Players : List(p)
    \/ \E p \in Players : Complete(p)
    \/ \E p \in Players : RetryOrDrop(p)
    \/ \E p \in Players : EnqueueNew(p)
    \/ \E p \in Players : EnqueueNewFails(p)
    \/ ImportAborts
    \/ \E m \in Matches : Sweep(m)
    \/ \E m \in Matches : SeenExpires(m)
    \/ \E m \in Matches : JobSkips(m)
    \/ \E m \in Matches : JobStages(m)
    \/ \E m \in Matches : JobRates(m)
    \/ \E m \in Matches : JobFails(m)
    \/ \E m \in Matches : Drain(m)
    \/ \E m \in Matches : Unstage(m)

Spec == Init /\ [][Next]_vars

\* The crons come every minute, jobs are consumed, and a process that lives
\* goes on; nothing is assumed of the operator, of the sweep or of failures.
FairSpec ==
    /\ Spec
    /\ WF_vars(TickSeeds) /\ WF_vars(TickCounts) /\ WF_vars(TickConcludes)
    /\ \A p \in Players : WF_vars(Pop(p)) /\ WF_vars(List(p))
                          /\ WF_vars(Handle(p)) /\ WF_vars(EnqueueNew(p))
    /\ \A m \in Matches : WF_vars(Job(m)) /\ WF_vars(Drain(m))
                          /\ WF_vars(Unstage(m))

-----------------------------------------------------------------------------

\* "the one-shot stays one-shot across restarts and duplicate registrations"
\* (BACKFILL_CLAIMED_SET): a player is on the pending list, in one import or
\* imported, never two of these, whoever registers or seeds it again.
OneShot ==
    /\ pending \cup InFlight \cup imported \subseteq claimed
    /\ pending \cap InFlight = {}
    /\ imported \cap (pending \cup InFlight) = {}

\* No player falls out of the import without a failure: whoever is registered
\* or claimed waits for enqueue_backfill, is pending, imported or being so.
NobodyIsForgotten ==
    known \cup claimed \subseteq newborn \cup pending \cup InFlight \cup imported
                                \cup lost

\* "a partial import must not be recorded as a completed backfill"
\* (_history_for): every match listed of an imported player is on its way, even
\* when it was the import of a lobby-mate that had claimed it.
ImportedIsOnItsWay ==
    \A p \in imported :
        Listed(p) \subseteq queue \cup backlog \cup rated \cup missed
                            \cup UNION {hold[q] : q \in Players}

\* "All match ids for *puuid*" (_history_for): the same of every match of the
\* player, those beyond the last page too.
HistoryIsOnItsWay ==
    \A p \in imported :
        History(p) \subseteq queue \cup backlog \cup rated \cup missed
                             \cup UNION {hold[q] : q \in Players}

\* The players and matches the imports of the seeds lead to.
Closed(S) == \A p \in S : \A m \in Listed(p) : Lobby[m] \subseteq S
Reachable == {p \in Players : \A S \in SUBSET Players :
                                 Seeds \subseteq S /\ Closed(S) => p \in S}
ReachableMatches == UNION {Listed(p) : p \in Reachable}

\* "100% of the matches of the players reachable from the seeds": a refill that
\* was requested rates them all, unless a failure cut an import off, or the
\* operator stopped it before it was seeded.
ReachableIsRated ==
    mode = "catching_up" ~>
        \/ ReachableMatches \subseteq rated
        \/ lost # {} \/ missed # {}
        \/ mode = "live" /\ ~seeded

\* A refill does not last for ever: the season is rated on arrival again.
RefillEnds == mode = "catching_up" ~> mode = "live"

\* bootstrap_tick declares the refill completed.
BootstrapCompletes ==
    tick # NoTick /\ tick' = NoTick /\ mode = "catching_up" /\ mode' = "live"

\* "the frontier saturated: what could be reached is exhausted": when the season
\* goes live every match listed of every player found is rated.
SaturatedMeansExhausted ==
    [][BootstrapCompletes => \A p \in claimed : Listed(p) \subseteq rated]_vars

\* "resuming an interrupted refill is safe" (seed_now): once a refill is seeded
\* without a failure each seed is pending, being imported or imported.
ResumeIsSafe ==
    [][~seeded /\ seeded' /\ faults' = faults
          => Seeds \subseteq pending' \cup InFlight' \cup imported']_vars
=============================================================================
