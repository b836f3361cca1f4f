----------------------------- MODULE Discovery -----------------------------
(***************************************************************************)
(* How finished matches are found: the cron ticks of workers/sweep.py and   *)
(* workers/ingestion.py list the newest match ids of players, claim the ids *)
(* nobody claimed in the last 24 hours, and enqueue them as arq jobs.       *)
(*                                                                         *)
(* Match i is the i-th to end, and time is counted in matches that ended.   *)
(* A player stands for its puuid, so players are numbers and the sweep      *)
(* visits them in their order.  Kinds of ticks that differ only in whom     *)
(* they look at share the slot "lookup".  At most one tick runs per slot,   *)
(* which is what _acquire_tick_lock is for; an exception that ends a tick,  *)
(* the 300 s job_timeout of arq and the death of the process are one        *)
(* action, Cut.  A job is one step here: MatchPipeline has its inside.      *)
(***************************************************************************)
EXTENDS Integers, FiniteSets

CONSTANTS
    Players,
    N,              \* bound: matches 1 .. N end
    Lobby,          \* Lobby[m]: the players of match m
    Tracked0,       \* players with matches_played > 0 at the start
    Seeds,          \* _priority_seeds: TOP_PLAYERS_SET, top by CR, selected
    Newest,         \* sweep_matches_per_player
    SweepBatch,     \* sweep_batch_size
    ScanBatch,      \* reconcile_batch_size
    ScanCap,        \* ids a scan lists of one player: pages times page size
    HighWater,      \* sweep_pending_high_watermark
    PollHigh,       \* PRESSURE_HIGH_WATERMARK
    PollLow,        \* PRESSURE_LOW_WATERMARK
    SkipDedup,      \* priority_sweep_skip_dedup
    MaxMisses,      \* rearm_max_misses
    Recency,        \* rearm_recency_seconds
    GapThreshold,   \* reconcile_gap_threshold_seconds
    MaxGap,         \* reconcile_max_gap_seconds
    NoWindow,       \* RECONCILE_WINDOW_KEY is absent
    AtOnce,         \* bound: slots whose ticks run at the same time
    MaxFaults       \* bound: failures

ASSUME PlayersAssumption == Players \subseteq Nat \ {0} /\ IsFiniteSet(Players)
ASSUME LobbyAssumption == N \in Nat /\ Lobby \in [1 .. N -> SUBSET Players]
ASSUME TrackedAssumption == Tracked0 \subseteq Players /\ Seeds \subseteq Players
ASSUME NumbersAssumption ==
    /\ {Newest, SweepBatch, ScanBatch, ScanCap, MaxMisses, AtOnce} \subseteq Nat \ {0}
    /\ {HighWater, PollHigh, PollLow, Recency, GapThreshold, MaxGap, MaxFaults} \subseteq Nat
    /\ NoWindow \notin Nat
ASSUME SkipDedup \in BOOLEAN

VARIABLES
    ended,     \* the matches that ended are 1 .. ended
    tracked,   \* players with matches_played > 0
    done,      \* matches processed
    seen,      \* SEEN_MATCHES_ZSET: ids claimed within SEEN_MATCH_TTL_SECONDS
    job,       \* job[m]: the queue that holds the arq job of m, or "none"
    pressure,  \* _PRESSURE_FLAG
    cursor,    \* SWEEP_CURSOR_PUUID_KEY, 0 for the start of the rotation
    beat,      \* SCHEDULER_HEARTBEAT_KEY
    window,    \* RECONCILE_WINDOW_KEY
    rearm,     \* REARM_ZSET
    misses,    \* REARM_MISSES_HASH
    pc,        \* where the tick of each slot is
    batch,     \* the players a tick is about
    hand,      \* ids claimed and not pushed; after the push, those that failed
    lane,      \* the queue of the lookup tick; "bypass" is "priority" without a claim
    scan,      \* the window and the cursor of the scan
    who,       \* the player rearm_tick settles, with whether it found anything
    unswept,   \* history: tracked since the rotation began, not handed out since
    owed,      \* history: matches the open window has to find
    gapInScan, \* history: an outage was detected since the last scan began
    missed,    \* history: matches of owed a failure or a cap left out since then
    stuck,     \* history: claims nobody works on because of a failure
    faults

world == <<ended, tracked, done>>
rotation == <<cursor, unswept>>
session == <<rearm, misses>>
outage == <<beat, window, owed, gapInScan>>
tick == <<pc, batch, hand, lane, scan, who>>
history == <<missed, stuck>>
vars == <<world, seen, job, pressure, rotation, session, outage, tick, history, faults>>

Slots == {"sweep", "lookup", "rearm", "scan"}
Matches == 1 .. N
Queued == {m \in Matches : job[m] # "none"}
InHand == UNION {hand[w] : w \in Slots}

TypeOK ==
    /\ ended \in 0 .. N /\ tracked \subseteq Players /\ done \subseteq 1 .. ended
    /\ seen \subseteq 1 .. ended
    /\ job \in [Matches -> {"none", "priority", "standard"}]
    /\ pressure \in BOOLEAN
    /\ cursor \in Players \cup {0} /\ unswept \subseteq Players
    /\ beat \in 0 .. ended /\ window \in 0 .. ended \cup {NoWindow}
    /\ rearm \subseteq Players /\ misses \in [Players -> 0 .. MaxMisses - 1]
    /\ pc \in [Slots -> {"idle", "advance", "page", "list", "push", "end"}]
    /\ batch \in [Slots -> SUBSET Players]
    /\ hand \in [Slots -> SUBSET Matches]
    /\ lane \in {"priority", "standard", "bypass"}
    /\ scan \in [since : Nat, cursor : Players \cup {0}]
    /\ who \in [player : Players \cup {0}, hit : BOOLEAN]
    /\ owed \subseteq Matches /\ gapInScan \in BOOLEAN
    /\ missed \subseteq Matches /\ stuck \subseteq Matches
    /\ faults \in 0 .. MaxFaults

NoScan == [since |-> 0, cursor |-> 0]
Nobody == [player |-> 0, hit |-> FALSE]

Init ==
    /\ ended = 0 /\ tracked = Tracked0 /\ done = {}
    /\ seen = {} /\ job = [m \in Matches |-> "none"]
    /\ pressure = FALSE /\ cursor = 0 /\ unswept = Tracked0
    /\ rearm = {} /\ misses = [p \in Players |-> 0]
    /\ beat = 0 /\ window = NoWindow /\ owed = {} /\ gapInScan = FALSE
    /\ pc = [w \in Slots |-> "idle"]
    /\ batch = [w \in Slots |-> {}] /\ hand = [w \in Slots |-> {}]
    /\ lane = "standard" /\ scan = NoScan /\ who = Nobody
    /\ missed = {} /\ stuck = {} /\ faults = 0

Fault == faults < MaxFaults /\ faults' = faults + 1
Goto(w, l) == pc' = [pc EXCEPT ![w] = l]
Idle(w) == pc[w] = "idle" /\ Cardinality({v \in Slots : pc[v] # "idle"}) < AtOnce

\* The tick of slot w is about the players S.
Takes(w, S) == batch' = [batch EXCEPT ![w] = S]

-----------------------------------------------------------------------------
(* The world, the jobs and the age of claims.                              *)

Play ==
    /\ ended < N /\ ended' = ended + 1
    /\ UNCHANGED <<tracked, done, seen, job, pressure, rotation, session, outage, tick,
                   history, faults>>

\* Riot's list: the newest k matches of p that ended after time `from`.
ListMatchIds(p, k, from) ==
    LET own == {m \in from + 1 .. ended : p \in Lobby[m]}
    IN {m \in own : Cardinality({l \in own : l > m}) < k}

\* _schedule_rearm: the lobby of a match that ended recently is polled soon.
ScheduleRearm(m) ==
    IF ended - m <= Recency
    THEN /\ rearm' = rearm \cup Lobby[m]
         /\ misses' = [p \in Players |-> IF p \in Lobby[m] THEN 0 ELSE misses[p]]
    ELSE UNCHANGED session

\* A job ends: the match is processed, or it already was and is skipped.
Process(m) ==
    /\ job[m] # "none"
    /\ job' = [job EXCEPT ![m] = "none"]
    /\ done' = done \cup {m}
    /\ IF m \in done
       THEN UNCHANGED <<tracked, session>>
       ELSE tracked' = tracked \cup Lobby[m] /\ ScheduleRearm(m)
    /\ UNCHANGED <<ended, seen, pressure, rotation, outage, tick, history, faults>>

\* The retries of a job are exhausted.  Its claim is not released.
Exhaust(m) ==
    /\ Fault
    /\ job[m] # "none" /\ m \notin done
    /\ job' = [job EXCEPT ![m] = "none"]
    /\ stuck' = stuck \cup {m}
    /\ UNCHANGED <<world, seen, pressure, rotation, session, outage, tick, missed>>

\* Mutant of Aged: the TTL of the whole set is refreshed, so nothing ages.
NeverAged(m) == seen

\* A claim older than SEEN_MATCH_TTL_SECONDS is pruned by the next _dedup_new.
Aged(m) == seen \ {m}

\* A tick is far shorter than the 24 hours of a claim.  Bound: only claims nobody
\* works on age.  A match that is queued or processed could be listed again, but
\* EnqueueJobs would refuse its second job and Process skip it.
AgeOut(m) ==
    /\ m \in seen \ (InHand \cup Queued \cup done)
    /\ seen' = Aged(m)
    /\ UNCHANGED <<world, job, pressure, rotation, session, outage, tick, history, faults>>

-----------------------------------------------------------------------------
(* The beginning of each tick.                                             *)

\* _tracked_puuids_after: the first n tracked players after c.
TrackedAfter(c, n) ==
    {p \in tracked : p > c /\ Cardinality({q \in tracked : c < q /\ q < p}) < n}

Last(S) == CHOOSE p \in S : \A q \in S : q <= p

\* sweep_tick up to its query; at the high-water mark it only holds.
SweepReads ==
    /\ Idle("sweep") /\ Cardinality(Queued) < HighWater
    /\ Takes("sweep", TrackedAfter(cursor, SweepBatch))
    /\ Goto("sweep", "advance")
    /\ UNCHANGED <<world, seen, job, pressure, rotation, session, outage, hand, lane, scan,
                   who, history, faults>>

\* Mutant of NextCursor: a full page counts as the end of the rotation.
NextCursorEarly(S) == IF Cardinality(S) > SweepBatch THEN Last(S) ELSE 0

\* A short page is the end of the rotation.
NextCursor(S) == IF Cardinality(S) = SweepBatch THEN Last(S) ELSE 0

\* The cursor is written before anybody of the page is listed.
SweepAdvances ==
    /\ pc["sweep"] = "advance"
    /\ cursor' = NextCursor(batch["sweep"])
    /\ unswept' = IF cursor' = 0 THEN tracked ELSE unswept \ batch["sweep"]
    /\ Goto("sweep", "list")
    /\ UNCHANGED <<world, seen, job, pressure, session, outage, batch, hand, lane, scan,
                   who, history, faults>>

LookupStarts(l, S) ==
    /\ Idle("lookup")
    /\ lane' = l
    /\ Takes("lookup", S)
    /\ Goto("lookup", "list")
    /\ UNCHANGED <<world, seen, job, rotation, session, outage, hand, scan, who, history,
                   faults>>

\* priority_sweep_tick, with one slice for all seeds.
PriorityStarts == LookupStarts(IF SkipDedup THEN "bypass" ELSE "priority", Seeds) /\ UNCHANGED pressure

\* recent_activity_sweep_tick: players of matches processed lately.
RecentlyActive == tracked \cap UNION {Lobby[m] : m \in done}
RecentStarts == LookupStarts("priority", RecentlyActive) /\ UNCHANGED pressure

\* _update_pressure_mode: no fetch from the high-water mark down to the low one.
PollStarts ==
    /\ Cardinality(Queued) < IF pressure THEN PollLow ELSE PollHigh
    /\ pressure' = FALSE
    /\ LookupStarts("standard", tracked)

PollHolds ==
    /\ Idle("lookup")
    /\ ~pressure /\ Cardinality(Queued) >= PollHigh
    /\ pressure' = TRUE
    /\ UNCHANGED <<world, seen, job, rotation, session, outage, tick, history, faults>>

\* rearm_tick takes the due players off the schedule before it polls them.
RearmStarts(S) ==
    /\ Idle("rearm") /\ S # {} /\ S \subseteq rearm
    /\ rearm' = rearm \ S
    /\ Takes("rearm", S)
    /\ Goto("rearm", "list")
    /\ UNCHANGED <<world, seen, job, pressure, rotation, misses, outage, hand, lane, scan,
                   who, history, faults>>

ScanStarts ==
    /\ Idle("scan") /\ window # NoWindow
    /\ scan' = [since |-> window, cursor |-> 0]
    /\ Goto("scan", "page")
    /\ gapInScan' = FALSE /\ missed' = {}
    /\ UNCHANGED <<world, seen, job, pressure, rotation, session, beat, window, owed, batch,
                   hand, lane, who, stuck, faults>>

CloseWindow ==
    /\ window' = NoWindow /\ owed' = {} /\ gapInScan' = FALSE /\ missed' = {}
    /\ scan' = NoScan
    /\ Goto("scan", "idle")

\* A page of the scan; an empty one is the end and closes the window.
ScanPages ==
    /\ pc["scan"] = "page"
    /\ LET S == TrackedAfter(scan.cursor, ScanBatch) IN
       IF S = {}
       THEN CloseWindow /\ UNCHANGED batch
       ELSE /\ Takes("scan", S) /\ Goto("scan", "list")
            /\ UNCHANGED <<scan, window, owed, gapInScan, missed>>
    /\ UNCHANGED <<world, seen, job, pressure, rotation, session, beat, hand, lane, who,
                   stuck, faults>>

-----------------------------------------------------------------------------
(* Listing and claiming, pushing, and the end of each tick.                *)

\* What the call of slot w for p asks Riot for.
Asked(w, p) ==
    IF w = "scan" THEN ListMatchIds(p, ScanCap, scan.since)
    ELSE ListMatchIds(p, Newest, 0)

Bypasses(w) == w = "lookup" /\ lane = "bypass"

\* ZADD NX: an id is claimed by the first that adds it.
Unclaimed(ids) == ids \ seen

\* The players S are listed, and the ids nobody claimed are claimed.  The calls
\* for F fail (a warning and an empty list), and so do the claims of E.  With
\* priority_sweep_skip_dedup the ids are taken without a claim.
Fetch(w, S, F, E) ==
    LET ids == UNION {Asked(w, p) : p \in S \ F}
        owing == {m \in owed : Lobby[m] \cap S # {}}
    IN /\ F \subseteq S /\ E \subseteq Unclaimed(ids)
       /\ IF F \cup E = {} THEN UNCHANGED faults ELSE Fault
       /\ IF Bypasses(w)
          THEN E = {} /\ hand' = [hand EXCEPT ![w] = ids] /\ UNCHANGED seen
          ELSE LET mine == Unclaimed(ids) \ E
               IN hand' = [hand EXCEPT ![w] = mine] /\ seen' = seen \cup mine
       /\ missed' = IF w = "scan" THEN missed \cup {m \in owing : m > scan.since /\ m \notin ids \ E}
                    ELSE missed
       /\ Goto(w, "push")
       /\ UNCHANGED <<world, job, pressure, rotation, session, outage, batch, lane, scan,
                      stuck>>

FetchBatch(w, F, E) ==
    /\ w # "rearm" /\ pc[w] = "list"
    /\ Fetch(w, batch[w], F, E)
    /\ UNCHANGED who

\* rearm_tick settles its players one after the other.
RearmFetches(p, F, E) ==
    /\ pc["rearm"] = "list" /\ p \in batch["rearm"]
    /\ Fetch("rearm", {p}, F, E)
    /\ who' = [player |-> p, hit |-> hand'["rearm"] # {}]

Queue(w) ==
    IF w = "rearm" \/ (w = "lookup" /\ lane # "standard") THEN "priority" ELSE "standard"

\* arq refuses a second job with the same id, whatever the queue of the first.
EnqueueJobs(ids, queue) ==
    job' = [m \in Matches |-> IF m \in ids /\ job[m] = "none" THEN queue ELSE job[m]]

\* The ids of hand become jobs, except those whose push fails.
Push(w, F) ==
    /\ pc[w] = "push" /\ F \subseteq hand[w]
    /\ IF F = {} THEN UNCHANGED faults ELSE Fault /\ ~Bypasses(w)
    /\ EnqueueJobs(hand[w] \ F, Queue(w))
    /\ hand' = [hand EXCEPT ![w] = F]
    /\ Goto(w, "end")
    /\ UNCHANGED <<world, seen, pressure, rotation, session, outage, batch, lane, scan, who,
                   history>>

\* Mutant of Released: the claims of ids that were not pushed are kept.
KeepsClaims(w) == seen

\* _release_seen of the ids whose push failed.
Released(w) == seen \ hand[w]

\* The claims of failed pushes are given back, unless that fails too.  An id that
\* was given back waits for a later discovery.
Releases(w) ==
    /\ pc[w] = "end"
    /\ hand' = [hand EXCEPT ![w] = {}]
    /\ \/ seen' = Released(w) /\ UNCHANGED <<stuck, faults>>
       \/ /\ hand[w] # {} /\ Fault
          /\ stuck' = stuck \cup hand[w]
          /\ UNCHANGED seen

\* A scan that met the claim while it was held will not see the id again.
LeavesBehind(w) == missed' = missed \cup (owed \cap hand[w])

EndTick(w) ==
    /\ w \in {"sweep", "lookup"}
    /\ Releases(w)
    /\ LeavesBehind(w)
    /\ Takes(w, {}) /\ lane' = IF w = "lookup" THEN "standard" ELSE lane
    /\ Goto(w, "idle")
    /\ UNCHANGED <<world, job, pressure, rotation, session, outage, scan, who>>

\* A hit, or fewer than MaxMisses misses in a row, put the player back.
RearmSettles ==
    /\ Releases("rearm")
    /\ LET p == who.player
           drop == ~who.hit /\ misses[p] + 1 >= MaxMisses
       IN /\ rearm' = IF drop THEN rearm ELSE rearm \cup {p}
          /\ misses' = [misses EXCEPT ![p] = IF who.hit \/ drop THEN 0 ELSE misses[p] + 1]
          /\ Takes("rearm", batch["rearm"] \ {p})
    /\ who' = Nobody
    /\ Goto("rearm", IF batch'["rearm"] = {} THEN "idle" ELSE "list")
    /\ LeavesBehind("rearm")
    /\ UNCHANGED <<world, job, pressure, rotation, outage, lane, scan>>

\* Mutant of IsLastPage: a full page is taken for the last one.
IsLastPageEarly(S) == Cardinality(S) <= ScanBatch

IsLastPage(S) == Cardinality(S) < ScanBatch

\* The scan goes on after the last player of a full page, or closes the window.
ScanTurns ==
    /\ Releases("scan")
    /\ Takes("scan", {})
    /\ IF IsLastPage(batch["scan"])
       THEN CloseWindow
       ELSE /\ scan' = [scan EXCEPT !.cursor = Last(batch["scan"])]
            /\ Goto("scan", "page")
            /\ LeavesBehind("scan")
            /\ UNCHANGED <<window, owed, gapInScan>>
    /\ UNCHANGED <<world, job, pressure, rotation, session, beat, lane, who>>

\* The tick ends in between: its players and the ids in its hand are dropped.
Cut(w) ==
    /\ Fault
    /\ pc[w] # "idle"
    /\ stuck' = stuck \cup (hand[w] \cap seen)
    /\ Takes(w, {})
    /\ hand' = [hand EXCEPT ![w] = {}]
    /\ lane' = IF w = "lookup" THEN "standard" ELSE lane
    /\ scan' = IF w = "scan" THEN NoScan ELSE scan
    /\ who' = IF w = "rearm" THEN Nobody ELSE who
    /\ Goto(w, "idle")
    /\ UNCHANGED <<world, seen, job, pressure, rotation, session, outage, missed>>

-----------------------------------------------------------------------------
(* The heartbeat of the scheduler.                                         *)

\* Where the window opens: at the last stamp, or MaxGap back.
Since == IF ended - MaxGap > beat THEN ended - MaxGap ELSE beat

\* SET NX: a window that is open is kept.
OpenWindow(since) == window' = IF window = NoWindow THEN since ELSE window

\* heartbeat_tick: the distance to the last stamp tells an outage.
Heartbeat ==
    /\ beat < ended
    /\ beat' = ended
    /\ IF ended - beat <= GapThreshold
       THEN UNCHANGED <<window, owed, gapInScan>>
       ELSE /\ OpenWindow(Since)
            /\ owed' = owed \cup {m \in 1 .. ended : m > Since /\ Lobby[m] \cap tracked # {}}
            /\ gapInScan' = (gapInScan \/ pc["scan"] # "idle")
    /\ UNCHANGED <<world, seen, job, pressure, rotation, session, tick, history, faults>>

-----------------------------------------------------------------------------
Progress(w) ==
    \/ w = "sweep" /\ (SweepReads \/ SweepAdvances)
    \/ FetchBatch(w, {}, {}) \/ Push(w, {}) \/ EndTick(w)
    \/ w = "rearm" /\ ((\E p \in Players : RearmFetches(p, {}, {})) \/ RearmSettles)
    \/ w = "scan" /\ (ScanStarts \/ ScanPages \/ ScanTurns)

Mishap ==
    \/ \E w \in Slots : Cut(w) \/ (\E F \in SUBSET hand[w] : F # {} /\ Push(w, F))
    \/ \E F \in SUBSET Players, E \in SUBSET Matches :
         /\ F \cup E # {}
         /\ \/ \E w \in Slots : FetchBatch(w, F, E)
            \/ \E p \in Players : RearmFetches(p, F, E)
    \/ \E m \in Matches : Exhaust(m)

Next ==
    \/ Play \/ (\E m \in Matches : Process(m) \/ AgeOut(m))
    \/ \E w \in Slots : Progress(w)
    \/ PriorityStarts \/ RecentStarts \/ PollStarts \/ PollHolds
    \/ (\E S \in SUBSET Players : RearmStarts(S)) \/ Heartbeat
    \/ Mishap

Spec == Init /\ [][Next]_vars

\* The cron runs the ticks of the sweep, the re-arm and the scan, arq the jobs,
\* and a day passes.  Lookups and outages need not happen.  A cron tick has its
\* turn in spite of the others: SF stands for that, where AtOnce bounds them.
Fairness ==
    /\ \A w \in Slots : WF_vars(Progress(w))
    /\ SF_vars(SweepReads) /\ SF_vars(ScanStarts)
    /\ WF_vars(\E m \in Matches : Process(m)) /\ WF_vars(\E m \in Matches : AgeOut(m))

FairSpec == Spec /\ Fairness

-----------------------------------------------------------------------------
(* Properties.                                                             *)

\* Somebody has the match: a tick in its hand, a queue, the database; or a
\* failure is on record that left it behind.
Accounted == InHand \cup done \cup stuck \cup Queued

\* A claim is a lease: an id in the seen set is accounted for, so a push that
\* raises, or a claim another tick was faster with, leaves nothing behind.
ClaimsAreLeases == seen \subseteq Accounted

\* Keyset rotation: when the sweep comes back to the start, it has handed out
\* every player tracked since the rotation began, whoever registered meanwhile.
RotationSkipsNobody ==
    [][(SweepAdvances /\ cursor' = 0) => unswept \subseteq batch["sweep"]]_vars

\* An outage heals: when the window is deleted, every match of a tracked player
\* that ended in a detected outage is accounted for, unless in the scan that
\* closes the window a call for it failed or a cap cut it off, or another outage
\* was detected since that scan began.
OutagesAreRecovered ==
    [][(window # NoWindow /\ window' = NoWindow)
         => gapInScan \/ owed \subseteq Accounted \cup missed]_vars

\* A match that stays among the newest ids of a tracked player is processed,
\* in spite of lost pushes, cut ticks and exhausted jobs.
RecentMatchesAreTaken ==
    \A m \in Matches :
        <>[](\E p \in tracked : m \in ListMatchIds(p, Newest, 0)) => <>(m \in done)

\* priority_sweep_skip_dedup: an id the priority sweep has pushed is not left in
\* the standard queue.
PriorityIsNotBuried ==
    [][\A m \in Matches : (Push("lookup", {}) /\ lane = "bypass" /\ m \in hand["lookup"])
                             => job'[m] = "priority"]_vars
=============================================================================
