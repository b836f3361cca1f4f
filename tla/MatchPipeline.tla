--------------------------- MODULE MatchPipeline ---------------------------
(***************************************************************************)
(* The write path of a match, from the arq job to the committed ladder:     *)
(*   workers/processor.py        idempotency flag, retries, dead letters    *)
(*   services/match_pipeline.py  catch-up gate, registration of the lobby   *)
(*   services/rating_service.py  read, rate and persist in one transaction  *)
(*   services/replay.py          drain_backlog, which re-enters the path    *)
(*   api/routers/admin.py        requeue and discard of dead letters        *)
(*                                                                         *)
(* Several jobs may carry the same match (redelivery, an operator's requeue, *)
(* the backlog).  A job is a process of its own: between any two awaits of   *)
(* the code another job, a crash, or the expiry of a key may come.  The      *)
(* Redis player locks are the atomic ones PlayerLocks implements; a rating   *)
(* is the sequence of matches folded into it (see MatchLadder).             *)
(***************************************************************************)
EXTENDS Naturals, Sequences, FiniteSets

CONSTANTS
    Players,        \* players; sorted(puuid) is the order of Nat
    Matches,
    Roster,         \* Roster[m]: the lobby of m
    Frozen,         \* Frozen[m]: participants whose rating m does not move
    Discoveries,    \* jobs enqueued by discovery
    Requeues,       \* jobs enqueued by an operator from the dead letters
    Drains,         \* passes of drain_backlog over a staged match
    MatchOf,        \* MatchOf[j]: the match of job j
    Free,           \* a row or key nobody holds
    Orphan,         \* the token of a lock whose job is gone
    MaxTries,       \* attempts before a job is dead-lettered
    MaxInterrupts,  \* bound: crashes and cancellations considered
    MaxFaults       \* bound: failing Redis commands considered

Jobs == Discoveries \cup Requeues \cup Drains

ASSUME PlayersAssumption == Players \subseteq Nat
ASSUME RosterAssumption ==
    /\ Roster \in [Matches -> SUBSET Players]
    /\ \A m \in Matches : Roster[m] # {}
    /\ Frozen \in [Matches -> SUBSET Players]
ASSUME JobsAssumption ==
    /\ MatchOf \in [Jobs -> Matches]
    /\ Drains \cap (Discoveries \cup Requeues) = {}
    /\ Discoveries \cap Requeues = {}
ASSUME FreeAssumption == Free \notin Jobs /\ Orphan \notin Jobs /\ Free # Orphan
ASSUME BoundsAssumption ==
    MaxTries \in Nat \ {0} /\ MaxInterrupts \in Nat /\ MaxFaults \in Nat

VARIABLES
    pc,          \* pc[j]: where job j is
    outcome,     \* outcome[j]: how it ended
    tries,       \* tries[j]: arq's job_try
    flag,        \* the matches whose arena:processed:{id} key exists
    rows,        \* rows[p]: the transaction with the row lock on players p
    locks,       \* locks[p]: the value of arena:lock:player:{p}
    snap,        \* snap[j]: the ratings job j read
    ladder,      \* committed player_seasons
    processed,   \* committed matches.processed
    before,      \* before[m][p]: committed match_participants.state_before
    staged,      \* the matches in match_backlog
    dlq,         \* dlq[m]: entries of m on the list arena:dlq
    discarded,   \* matches an operator removed from the dead letters
    interrupts,  \* crashes and cancellations so far (bounded)
    faults       \* failing Redis commands so far (bounded)

jobVars == <<pc, outcome, tries>>
dbVars == <<ladder, processed, before, staged>>
dlqVars == <<dlq, discarded>>
bounds == <<interrupts, faults>>
vars == <<pc, outcome, tries, flag, rows, locks, snap, ladder, processed,
          before, staged, dlq, discarded, interrupts, faults>>

Stages == {"absent", "requeueing", "queued", "guard", "fetch", "gate",
           "register", "lock", "check", "load", "rating", "unlock", "notify",
           "failing", "classify", "done"}

\* Stages in which process_match or process_parsed is on the stack.
Running == {"guard", "fetch", "gate", "register", "lock", "check", "load",
            "rating", "unlock", "notify", "failing", "classify"}

\* Stages with an open transaction that holds row locks.
InTransaction == {"register", "lock", "check", "load", "rating", "unlock"}

Outcomes == {"none", "skipped", "filtered", "staged", "processed",
             "already_processed", "dead_lettered", "lost", "timed_out",
             "abandoned"}

Unread == [p \in Players |-> <<>>]

Ratings == [Players -> Seq(Matches)]

Rated == [m \in Matches |-> Roster[m] \ Frozen[m]]

TypeOK ==
    /\ pc \in [Jobs -> Stages]
    /\ outcome \in [Jobs -> Outcomes]
    /\ tries \in [Jobs -> 0 .. MaxTries]
    /\ flag \in SUBSET Matches
    /\ rows \in [Players -> Jobs \cup {Free}]
    /\ locks \in [Players -> Jobs \cup {Free, Orphan}]
    /\ snap \in [Jobs -> Ratings]
    /\ ladder \in Ratings
    /\ processed \in SUBSET Matches
    /\ before \in [Matches -> Ratings]
    /\ staged \in SUBSET Matches
    /\ dlq \in [Matches -> Nat]
    /\ discarded \in SUBSET Matches
    /\ interrupts \in 0 .. MaxInterrupts
    /\ faults \in 0 .. MaxFaults

Init ==
    /\ pc = [j \in Jobs |-> "absent"]
    /\ outcome = [j \in Jobs |-> "none"]
    /\ tries = [j \in Jobs |-> 0]
    /\ flag = {}
    /\ rows = [p \in Players |-> Free]
    /\ locks = [p \in Players |-> Free]
    /\ snap = [j \in Jobs |-> Unread]
    /\ ladder = Unread
    /\ processed = {}
    /\ before = [m \in Matches |-> Unread]
    /\ staged = {}
    /\ dlq = [m \in Matches |-> 0]
    /\ discarded = {}
    /\ interrupts = 0
    /\ faults = 0

-----------------------------------------------------------------------------
(* Jobs *)

Goto(j, stage) == pc' = [pc EXCEPT ![j] = stage]

End(j, result) ==
    /\ Goto(j, "done")
    /\ outcome' = [outcome EXCEPT ![j] = result]

\* The keys, or rows, of job j become `value`.
Given(held, j, value) ==
    [p \in Players |-> IF held[p] = j THEN value ELSE held[p]]

\* The session of job j is closed without a commit: its row locks are gone.
Rollback(j) ==
    /\ rows' = Given(rows, j, Free)
    /\ snap' = [snap EXCEPT ![j] = Unread]

\* Discovery enqueues process_match; _job_id keeps one job per match.
Enqueue(j) ==
    /\ j \in Discoveries
    /\ pc[j] = "absent"
    /\ Goto(j, "queued")
    /\ UNCHANGED <<outcome, tries, flag, rows, locks, snap, dbVars, dlqVars,
                   bounds>>

\* Mutant of Start: job_try is not counted.
StartUncounted(j) ==
    /\ pc[j] = "queued"
    /\ Goto(j, "guard")
    /\ UNCHANGED <<outcome, tries, flag, rows, locks, snap, dbVars, dlqVars,
                   bounds>>

\* arq starts the job and counts the attempt ...
Start(j) ==
    /\ pc[j] = "queued"
    /\ tries[j] < MaxTries
    /\ Goto(j, "guard")
    /\ tries' = [tries EXCEPT ![j] = @ + 1]
    /\ UNCHANGED <<outcome, flag, rows, locks, snap, dbVars, dlqVars, bounds>>

\* ... and fails it without calling process_match beyond max_tries.
Abandon(j) ==
    /\ pc[j] = "queued"
    /\ tries[j] = MaxTries
    /\ End(j, "abandoned")
    /\ UNCHANGED <<tries, flag, rows, locks, snap, dbVars, dlqVars, bounds>>

\* SET NX on the processed flag: the attempt owns the match ...
SetFlag(j) ==
    /\ pc[j] = "guard"
    /\ MatchOf[j] \notin flag
    /\ flag' = flag \cup {MatchOf[j]}
    /\ Goto(j, "fetch")
    /\ UNCHANGED <<outcome, tries, rows, locks, snap, dbVars, dlqVars, bounds>>

\* ... or somebody else set it and this delivery is a duplicate.
Skip(j) ==
    /\ pc[j] = "guard"
    /\ MatchOf[j] \in flag
    /\ End(j, "skipped")
    /\ UNCHANGED <<tries, flag, rows, locks, snap, dbVars, dlqVars, bounds>>

\* The SET raises: fail open, go on without the flag.
GuardFails(j) ==
    /\ pc[j] = "guard"
    /\ faults < MaxFaults
    /\ faults' = faults + 1
    /\ Goto(j, "fetch")
    /\ UNCHANGED <<outcome, tries, flag, rows, locks, snap, dbVars, dlqVars,
                   interrupts>>

-----------------------------------------------------------------------------
(* Fetch, filter and the catch-up gate *)

\* The payload came and every filter passed.
Fetch(j) ==
    /\ pc[j] = "fetch"
    /\ Goto(j, "gate")
    /\ UNCHANGED <<outcome, tries, flag, rows, locks, snap, dbVars, dlqVars,
                   bounds>>

\* A filter rejected the match: terminal, and the flag stays.
Filter(j) ==
    /\ pc[j] = "fetch"
    /\ End(j, "filtered")
    /\ UNCHANGED <<tries, flag, rows, locks, snap, dbVars, dlqVars, bounds>>

\* The season is catching up, as this process sees it (the mode is cached): the
\* match is parked in match_backlog, ON CONFLICT DO NOTHING, and committed.
Stage(j) ==
    /\ pc[j] = "gate"
    /\ staged' = staged \cup {MatchOf[j]}
    /\ Goto(j, "notify")
    /\ outcome' = [outcome EXCEPT ![j] = "staged"]
    /\ UNCHANGED <<tries, flag, rows, locks, snap, ladder, processed, before,
                   dlqVars, bounds>>

\* The season is live: the match is rated on arrival.
PassGate(j) ==
    /\ pc[j] = "gate"
    /\ Goto(j, "register")
    /\ UNCHANGED <<outcome, tries, flag, rows, locks, snap, dbVars, dlqVars,
                   bounds>>

\* drain_backlog takes a staged match straight to the write path.
Drain(j) ==
    /\ j \in Drains
    /\ pc[j] = "absent"
    /\ MatchOf[j] \in staged
    /\ Goto(j, "register")
    /\ UNCHANGED <<outcome, tries, flag, rows, locks, snap, dbVars, dlqVars,
                   bounds>>

-----------------------------------------------------------------------------
(* The rating transaction *)

\* The lobby of job j that the upsert has not locked yet.
Unregistered(j) == {p \in Roster[MatchOf[j]] : rows[p] # j}

\* Mutant of NextRow: the rows go out in the order of the payload.
NextRowOfPayload(j, p) ==
    /\ p \in Unregistered(j)
    /\ \A q \in Unregistered(j) :
          IF MatchOf[j] = CHOOSE m \in Matches : TRUE THEN p <= q ELSE p >= q

\* register_players sends the rows sorted by puuid, and Postgres locks them in
\* that order: the next row the upsert of job j needs.
NextRow(j, p) ==
    p \in Unregistered(j) /\ \A q \in Unregistered(j) : p <= q

\* Mutant of RegisterRow: register_players commits, so its row locks are gone.
RegisterAndCommit(j) ==
    /\ pc[j] = "register"
    /\ Goto(j, "lock")
    /\ UNCHANGED <<outcome, tries, flag, rows, locks, snap, dbVars, dlqVars,
                   bounds>>

\* INSERT ... ON CONFLICT DO UPDATE on players: the row stays locked until the
\* transaction ends, and a row locked by another transaction is waited for.
RegisterRow(j) ==
    /\ pc[j] = "register"
    /\ \E p \in Players :
          /\ NextRow(j, p)
          /\ rows[p] = Free
          /\ rows' = [rows EXCEPT ![p] = j]
          /\ IF Unregistered(j) = {p} THEN Goto(j, "lock") ELSE UNCHANGED pc
    /\ UNCHANGED <<outcome, tries, flag, locks, snap, dbVars, dlqVars, bounds>>

\* lock_players got the whole lobby (PlayerLocks: all or nothing).
AcquireLocks(j) ==
    /\ pc[j] = "lock"
    /\ \A p \in Roster[MatchOf[j]] : locks[p] = Free
    /\ locks' = [p \in Players |-> IF p \in Roster[MatchOf[j]] THEN j
                                   ELSE locks[p]]
    /\ Goto(j, "check")
    /\ UNCHANGED <<outcome, tries, flag, rows, snap, dbVars, dlqVars, bounds>>

\* _already_processed reads the committed matches.processed.
Check(j) ==
    /\ pc[j] = "check"
    /\ IF MatchOf[j] \in processed
          THEN /\ Goto(j, "unlock")
               /\ outcome' = [outcome EXCEPT ![j] = "already_processed"]
          ELSE Goto(j, "load") /\ UNCHANGED outcome
    /\ UNCHANGED <<tries, flag, rows, locks, snap, dbVars, dlqVars, bounds>>

\* _load_states reads the committed player_seasons of the lobby.
Load(j) ==
    /\ pc[j] = "load"
    /\ snap' = [snap EXCEPT ![j] =
                   [p \in Players |-> IF p \in Roster[MatchOf[j]]
                                      THEN ladder[p] ELSE <<>>]]
    /\ Goto(j, "rating")
    /\ UNCHANGED <<outcome, tries, flag, rows, locks, dbVars, dlqVars, bounds>>

\* Mutant of Persist: state_before is taken after the ratings were changed.
PersistStateAfter(j) ==
    LET m == MatchOf[j] IN
    /\ ladder' = [p \in Players |-> IF p \in Rated[m] THEN Append(snap[j][p], m)
                                    ELSE ladder[p]]
    /\ before' = [before EXCEPT ![m] = ladder']
    /\ processed' = processed \cup {m}
    /\ UNCHANGED staged

\* What _persist writes on top of what job j read: the moved ratings, the
\* restore points taken before them, and the processed mark.
Persist(j) ==
    LET m == MatchOf[j] IN
    /\ ladder' = [p \in Players |-> IF p \in Rated[m] THEN Append(snap[j][p], m)
                                    ELSE ladder[p]]
    /\ before' = [before EXCEPT ![m] = snap[j]]
    /\ processed' = processed \cup {m}
    /\ UNCHANGED staged

\* The commit: everything Persist writes appears at once and the row locks go.
\* A second set of match_participants for a match violates a unique key.
Commit(j) ==
    /\ pc[j] = "rating"
    /\ MatchOf[j] \notin processed
    /\ Persist(j)
    /\ Rollback(j)
    /\ Goto(j, "unlock")
    /\ outcome' = [outcome EXCEPT ![j] = "processed"]
    /\ UNCHANGED <<tries, flag, locks, dlqVars, bounds>>

\* The commit took effect but its acknowledgement is lost: an exception leaves
\* the `async with` of the player locks.
CommitUnacknowledged(j) ==
    /\ pc[j] = "rating"
    /\ MatchOf[j] \notin processed
    /\ interrupts < MaxInterrupts
    /\ interrupts' = interrupts + 1
    /\ Persist(j)
    /\ Rollback(j)
    /\ locks' = Given(locks, j, Free)
    /\ IF j \in Drains THEN Goto(j, "absent") ELSE Goto(j, "failing")
    /\ UNCHANGED <<outcome, tries, flag, dlqVars, faults>>

\* The player locks are released (compare-and-delete) and the session closes.
Unlock(j) ==
    /\ pc[j] = "unlock"
    /\ locks' = Given(locks, j, Free)
    /\ Rollback(j)
    /\ Goto(j, "notify")
    /\ UNCHANGED <<outcome, tries, flag, dbVars, dlqVars, bounds>>

\* Events, re-arming and metrics are done; a drained match leaves the backlog.
Finish(j) ==
    /\ pc[j] = "notify"
    /\ IF j \in Drains
          THEN /\ Goto(j, "absent")
               /\ staged' = staged \ {MatchOf[j]}
          ELSE Goto(j, "done") /\ UNCHANGED staged
    /\ UNCHANGED <<outcome, tries, flag, rows, locks, snap, ladder, processed,
                   before, dlqVars, bounds>>

-----------------------------------------------------------------------------
(* Failure *)

\* Mutant of Raise: drain_backlog deletes the row whose processing failed.
RaiseDropsRow(j) ==
    /\ pc[j] \in {"fetch", "gate", "register", "lock", "check", "load",
                  "rating", "notify"}
    /\ locks' = Given(locks, j, Free)
    /\ Rollback(j)
    /\ IF j \in Drains
          THEN Goto(j, "absent") /\ staged' = staged \ {MatchOf[j]}
          ELSE Goto(j, "failing") /\ UNCHANGED staged
    /\ outcome' = [outcome EXCEPT ![j] = "none"]
    /\ UNCHANGED <<tries, flag, ladder, processed, before, dlqVars, bounds>>

\* An exception anywhere from the fetch to the notifications: Riot, Postgres,
\* LockAcquireTimeout.  The context managers release the locks and roll back;
\* drain_backlog catches it and leaves the match staged.
Raise(j) ==
    /\ pc[j] \in {"fetch", "gate", "register", "lock", "check", "load",
                  "rating", "notify"}
    /\ locks' = Given(locks, j, Free)
    /\ Rollback(j)
    /\ IF j \in Drains THEN Goto(j, "absent") ELSE Goto(j, "failing")
    /\ outcome' = [outcome EXCEPT ![j] = "none"]
    /\ UNCHANGED <<tries, flag, dbVars, dlqVars, bounds>>

\* Mutant of ReleaseFlag: the flag stays.
KeepFlag(j) ==
    /\ pc[j] = "failing"
    /\ Goto(j, "classify")
    /\ UNCHANGED <<outcome, tries, flag, rows, locks, snap, dbVars, dlqVars,
                   bounds>>

\* _release_flag, before the failure is classified.
ReleaseFlag(j) ==
    /\ pc[j] = "failing"
    /\ flag' = flag \ {MatchOf[j]}
    /\ Goto(j, "classify")
    /\ UNCHANGED <<outcome, tries, rows, locks, snap, dbVars, dlqVars, bounds>>

\* _release_flag is best effort: the DELETE raises and the flag stays.
ReleaseFlagFails(j) ==
    /\ pc[j] = "failing"
    /\ faults < MaxFaults
    /\ faults' = faults + 1
    /\ Goto(j, "classify")
    /\ UNCHANGED <<outcome, tries, flag, rows, locks, snap, dbVars, dlqVars,
                   interrupts>>

\* raise Retry: arq requeues the job.
Retry(j) ==
    /\ pc[j] = "classify"
    /\ tries[j] < MaxTries
    /\ Goto(j, "queued")
    /\ UNCHANGED <<outcome, tries, flag, rows, locks, snap, dbVars, dlqVars,
                   bounds>>

\* The last attempt failed: RPUSH on the dead-letter list.
DeadLetter(j) ==
    /\ pc[j] = "classify"
    /\ tries[j] >= MaxTries
    /\ dlq' = [dlq EXCEPT ![MatchOf[j]] = @ + 1]
    /\ End(j, "dead_lettered")
    /\ UNCHANGED <<tries, flag, rows, locks, snap, dbVars, discarded, bounds>>

\* The RPUSH raises and is swallowed.
DeadLetterFails(j) ==
    /\ pc[j] = "classify"
    /\ tries[j] >= MaxTries
    /\ faults < MaxFaults
    /\ faults' = faults + 1
    /\ End(j, "lost")
    /\ UNCHANGED <<tries, flag, rows, locks, snap, dbVars, dlqVars, interrupts>>

\* The process dies: its connection rolls back, its player locks stay until
\* their TTL, the flag stays, and arq delivers the job again.
Kill(j) ==
    /\ pc[j] \in Running
    /\ interrupts < MaxInterrupts
    /\ interrupts' = interrupts + 1
    /\ locks' = Given(locks, j, Orphan)
    /\ Rollback(j)
    /\ IF j \in Drains THEN Goto(j, "absent") ELSE Goto(j, "queued")
    /\ outcome' = [outcome EXCEPT ![j] = "none"]
    /\ UNCHANGED <<tries, flag, dbVars, dlqVars, faults>>

\* CancelledError is no Exception: process_match does not release the flag.  A
\* worker that shuts down delivers the job again, ...
Shutdown(j) ==
    /\ pc[j] \in Running
    /\ interrupts < MaxInterrupts
    /\ interrupts' = interrupts + 1
    /\ locks' = Given(locks, j, Free)
    /\ Rollback(j)
    /\ IF j \in Drains THEN Goto(j, "absent") ELSE Goto(j, "queued")
    /\ outcome' = [outcome EXCEPT ![j] = "none"]
    /\ UNCHANGED <<tries, flag, dbVars, dlqVars, faults>>

\* ... one that runs into job_timeout fails it for good.
TimeOut(j) ==
    /\ j \notin Drains
    /\ pc[j] \in Running
    /\ interrupts < MaxInterrupts
    /\ interrupts' = interrupts + 1
    /\ locks' = Given(locks, j, Free)
    /\ Rollback(j)
    /\ End(j, "timed_out")
    /\ UNCHANGED <<tries, flag, dbVars, dlqVars, faults>>

\* PX ttl of a player lock, even under a job that still works.
ExpireLock(p) ==
    /\ locks[p] # Free
    /\ locks' = [locks EXCEPT ![p] = Free]
    /\ UNCHANGED <<jobVars, flag, rows, snap, dbVars, dlqVars, bounds>>

\* The processed flag outlives its seven days; no job lasts that long.
ExpireFlag(m) ==
    /\ m \in flag
    /\ \A j \in Jobs : MatchOf[j] = m => pc[j] \notin Running
    /\ flag' = flag \ {m}
    /\ UNCHANGED <<jobVars, rows, locks, snap, dbVars, dlqVars, bounds>>

-----------------------------------------------------------------------------
(* Dead letters *)

\* POST /dlq/{id}/requeue: LREM claims the entry, ...
TakeDeadLetter(j) ==
    /\ j \in Requeues
    /\ pc[j] = "absent"
    /\ dlq[MatchOf[j]] > 0
    /\ dlq' = [dlq EXCEPT ![MatchOf[j]] = @ - 1]
    /\ Goto(j, "requeueing")
    /\ UNCHANGED <<outcome, tries, flag, rows, locks, snap, dbVars, discarded,
                   bounds>>

\* ... then enqueue_job gives the match a job of its own, with all its tries,
EnqueueRequeue(j) ==
    /\ pc[j] = "requeueing"
    /\ Goto(j, "queued")
    /\ UNCHANGED <<outcome, tries, flag, rows, locks, snap, dbVars, dlqVars,
                   bounds>>

\* or raises: the entry is gone and there is no job.
RequeueFails(j) ==
    /\ pc[j] = "requeueing"
    /\ faults < MaxFaults
    /\ faults' = faults + 1
    /\ End(j, "lost")
    /\ UNCHANGED <<tries, flag, rows, locks, snap, dbVars, dlqVars, interrupts>>

\* DELETE /dlq/{id}: an operator discards the entry.
Discard(m) ==
    /\ dlq[m] > 0
    /\ dlq' = [dlq EXCEPT ![m] = @ - 1]
    /\ discarded' = discarded \cup {m}
    /\ UNCHANGED <<jobVars, flag, rows, locks, snap, dbVars, bounds>>

-----------------------------------------------------------------------------

\* What a job does when nothing goes wrong, and what follows a failure.
Progress(j) ==
    \/ Start(j) \/ Abandon(j) \/ SetFlag(j) \/ Skip(j)
    \/ Fetch(j) \/ Filter(j) \/ Stage(j) \/ PassGate(j)
    \/ RegisterRow(j) \/ AcquireLocks(j) \/ Check(j) \/ Load(j)
    \/ Commit(j) \/ Unlock(j) \/ Finish(j)
    \/ ReleaseFlag(j) \/ Retry(j) \/ DeadLetter(j)
    \/ EnqueueRequeue(j)

\* What starts a job.
Begin(j) == Enqueue(j) \/ Drain(j) \/ TakeDeadLetter(j)

\* What goes wrong.
Mishap(j) ==
    \/ Raise(j) \/ CommitUnacknowledged(j)
    \/ GuardFails(j) \/ ReleaseFlagFails(j) \/ DeadLetterFails(j)
    \/ RequeueFails(j)
    \/ Kill(j) \/ Shutdown(j) \/ TimeOut(j)

Next ==
    \/ \E j \in Jobs : Begin(j) \/ Progress(j) \/ Mishap(j)
    \/ \E p \in Players : ExpireLock(p)
    \/ \E m \in Matches : ExpireFlag(m) \/ Discard(m)

Spec == Init /\ [][Next]_vars

\* Workers keep polling the queue, the event loop keeps running a job that does
\* not wait, Postgres wakes the waiter of a row and Redis expires its keys.
FairSpec ==
    /\ Spec
    /\ \A j \in Jobs : WF_vars(Progress(j))
    /\ \A p \in Players : WF_vars(ExpireLock(p))

-----------------------------------------------------------------------------

Ladder == INSTANCE MatchLadder

\* Whatever is redelivered, retried, killed or expired, the committed ladder
\* moves only by rating one match once for its whole lobby, on top of all that
\* was rated before: no update is lost, doubled or torn.  It rests on the row
\* locks of register_players, not on the TTL of the player locks.
ImplementsLadder == Ladder!Spec

IsPrefixOf(s, t) == Len(s) <= Len(t) /\ \A i \in 1 .. Len(s) : s[i] = t[i]

\* The state_before of a participant is the rating the player had just before
\* the match was folded in: what replay restores from.
RestorePoints ==
    \A m \in processed : \A p \in Roster[m] :
        IF p \in Rated[m] THEN IsPrefixOf(Append(before[m][p], m), ladder[p])
        ELSE IsPrefixOf(before[m][p], ladder[p])

\* "Idempotente por riot_match_id [...] avaliada depois" (stage_match): a match
\* leaves the backlog only once it is rated, whatever drain pass fails or dies.
StagedUntilRated ==
    [][\A m \in staged \ staged' : m \in processed]_vars

WaitsFor(j, k) ==
    pc[j] = "register" /\ \E p \in Players : NextRow(j, p) /\ rows[p] = k

\* "Sorting gives every transaction the same lock-acquisition order, which
\* eliminates the deadlock" (register_players): no circle of transactions waits
\* for each other's player rows.
NoRowDeadlock ==
    \A D \in (SUBSET Jobs) \ {{}} : \E j \in D : \A k \in D : ~WaitsFor(j, k)

Live(j) == pc[j] \in Running \cup {"queued", "requeueing"}

\* Where a match that discovery enqueued may be.
Accounted(m) ==
    \/ m \in processed \cup staged \cup discarded
    \/ dlq[m] > 0
    \/ \E j \in Jobs : MatchOf[j] = m /\ (Live(j) \/ outcome[j] = "filtered")

Known(m) == \E j \in Discoveries : MatchOf[j] = m /\ pc[j] # "absent"

\* Exceptions, duplicates and retries alone never lose a match: it is rated,
\* staged, filtered, on the dead-letter list, or some job still has it.
FailuresLoseNothing ==
    interrupts = 0 /\ faults = 0 => \A m \in Matches : Known(m) => Accounted(m)

\* "The flag is cleared on the failure path so the retry is not short-circuited
\* into a false already done" (processor.py): a delivery is skipped only if its
\* match is rated, staged, filtered, dead-lettered or with another job.
NoFalseAlreadyDone ==
    faults = 0 =>
        \A j \in Jobs : outcome[j] = "skipped" => Accounted(MatchOf[j])

\* "On the final failed attempt the job is routed to the DLQ with its error
\* context instead of being silently dropped" (processor.py): so is a job that
\* arq fails because it ran into its time limit.
NothingIsSilentlyDropped ==
    faults = 0 =>
        \A j \in Jobs : outcome[j] = "timed_out" => Accounted(MatchOf[j])

\* Every job that was enqueued ends: retries are bounded, and nobody waits for
\* ever on rows, on orphaned player locks or on the flag.
JobsEnd ==
    \A j \in Discoveries \cup Requeues : pc[j] = "queued" ~> pc[j] = "done"
=============================================================================
