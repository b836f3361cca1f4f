---------------------------- MODULE ChronoReplay ----------------------------
(***************************************************************************)
(* Chronological order of the ladder when matches arrive out of order:      *)
(*   services/match_pipeline.py  _note_if_out_of_order, after a live match  *)
(*   services/ingest_state.py    replay_floor                               *)
(*   services/replay.py          replay_from                                *)
(*   workers/scheduler.py        rating_replay_tick                         *)
(*                                                                         *)
(* A live match is what MatchPipeline implements: read, then one commit for  *)
(* the whole lobby, with lobbies that share a player taking turns.  A replay  *)
(* takes neither row locks nor player locks, and commits match by match.    *)
(* As in MatchLadder a rating is the sequence of matches folded into it.    *)
(***************************************************************************)
EXTENDS Naturals, Sequences, FiniteSets

CONSTANTS
    Players,
    Matches,
    Roster,          \* Roster[m]: the lobby of m
    PlayedAt,        \* PlayedAt[m]: when m was played (ties go by riot_match_id)
    None,            \* no replay_floor; the `since` of a whole-season replay
    Tolerance,       \* out_of_order_tolerance_ms
    MaxWindow,       \* replay_max_matches_per_tick
    MaxFullReplays,  \* bound: whole-season replays an operator starts
    MaxInterrupts    \* bound: replays and notes that fail half-way

ASSUME RosterAssumption == Roster \in [Matches -> (SUBSET Players) \ {{}}]
ASSUME PlayedAtAssumption ==
    /\ PlayedAt \in [Matches -> Nat \ {0}]
    /\ \A m, n \in Matches : PlayedAt[m] = PlayedAt[n] => m = n
ASSUME NoneAssumption == None \notin Nat
ASSUME BoundsAssumption ==
    /\ Tolerance \in Nat /\ MaxWindow \in Nat
    /\ MaxFullReplays \in Nat /\ MaxInterrupts \in Nat

VARIABLES
    job,         \* job[m]: where the live job of match m is
    read,        \* read[m]: the ratings it read
    seen,        \* seen[m]: the high-water mark it read
    ladder,      \* committed player_seasons
    before,      \* before[m]: state_before of the participants of m
    facts,       \* the rows of matches
    rated,       \* those with processed = true and their match_participants
    hwm,         \* ingest_hwm in Redis: played_at of the newest match; 0: absent
    floor,       \* season_ingest_state.replay_floor
    stage,       \* where the replay is
    since,       \* the floor it works from
    todo,        \* the matches it still has to rate
    draft,       \* ratings it restored, not committed yet
    wiped,       \* matches whose derived rows it deleted, not committed yet
    current,     \* the ratings it read for the match at hand
    fulls,       \* whole-season replays started so far (bounded)
    interrupts,  \* failures so far (bounded)
    trusted,     \* history: the players whose matches the running replay found
                 \* in order, or rewinds all, and that no live match touched
    apart        \* history: no live match met a replay, or a replay of the whole
                 \* season has made up for it since

jobVars == <<job, read, seen>>
dbVars == <<ladder, before, facts, rated>>
replayVars == <<stage, since, todo, draft, wiped, current, fulls, trusted, apart>>
vars == <<job, read, seen, ladder, before, facts, rated, hwm, floor, stage,
          since, todo, draft, wiped, current, fulls, interrupts, trusted, apart>>

Partial == UNION {[S -> Seq(Matches)] : S \in SUBSET Players}
Nothing == [p \in {} |-> <<>>]

TypeOK ==
    /\ job \in [Matches -> {"absent", "rating", "noting", "compared", "done"}]
    /\ \A m \in Matches : DOMAIN read[m] \subseteq Roster[m]
    /\ seen \in [Matches -> Nat]
    /\ ladder \in [Players -> Seq(Matches)]
    /\ \A m \in Matches : DOMAIN before[m] \subseteq Roster[m]
    /\ rated \subseteq facts /\ facts \subseteq Matches
    /\ hwm \in Nat
    /\ floor \in Nat \cup {None}
    /\ stage \in {"idle", "built", "loading", "writing", "closing"}
    /\ since \in Nat \cup {None}
    /\ todo \in Seq(Matches)
    /\ DOMAIN draft \subseteq Players
    /\ wiped \subseteq facts
    /\ DOMAIN current \subseteq Players
    /\ fulls \in 0 .. MaxFullReplays
    /\ interrupts \in 0 .. MaxInterrupts
    /\ trusted \subseteq Players /\ apart \in BOOLEAN

Init ==
    /\ job = [m \in Matches |-> "absent"]
    /\ read = [m \in Matches |-> Nothing]
    /\ seen = [m \in Matches |-> 0]
    /\ ladder = [p \in Players |-> <<>>]
    /\ before = [m \in Matches |-> Nothing]
    /\ facts = {}
    /\ rated = {}
    /\ hwm = 0
    /\ floor = None
    /\ stage = "idle"
    /\ since = None
    /\ todo = <<>>
    /\ draft = Nothing
    /\ wiped = {}
    /\ current = Nothing
    /\ fulls = 0
    /\ interrupts = 0
    /\ trusted = {}
    /\ apart = TRUE

-----------------------------------------------------------------------------
(* Chronology *)

Folded(s) == {s[i] : i \in 1 .. Len(s)}

\* ORDER BY played_at, riot_match_id.
InOrder(s) == \A i, j \in 1 .. Len(s) : i < j => PlayedAt[s[i]] < PlayedAt[s[j]]

Chronological(S) ==
    CHOOSE s \in [1 .. Cardinality(S) -> S] : Folded(s) = S /\ InOrder(s)

\* The matches of a set that a player takes part in.
Of(p, S) == {m \in S : p \in Roster[m]}

\* The rating of a player is the fold of all its matches in the order of play.
Orderly(p) == InOrder(ladder[p]) /\ Folded(ladder[p]) = Of(p, facts)

-----------------------------------------------------------------------------
(* A live match *)

\* Lobbies that share a player take turns: register_players locks their rows.
Overlapping(m, n) == Roster[m] \cap Roster[n] # {}

\* A live match reads or commits: it meets the replay that is running.
Meets(m) ==
    /\ trusted' = trusted \ Roster[m]
    /\ apart' = (apart /\ stage = "idle")

\* _load_states, inside the transaction that holds the rows of the lobby.  No
\* worker runs during a whole-season replay.
Read(m) ==
    /\ job[m] = "absent"
    /\ stage = "idle" \/ since # None
    /\ \A n \in Matches : job[n] = "rating" => ~Overlapping(m, n)
    /\ job' = [job EXCEPT ![m] = "rating"]
    /\ read' = [read EXCEPT ![m] = [p \in Roster[m] |-> ladder[p]]]
    /\ Meets(m)
    /\ UNCHANGED <<seen, dbVars, hwm, floor, stage, since, todo, draft, wiped,
                   current, fulls, interrupts>>

\* _persist: ratings, restore points, the match and its participants at once.  The
\* UPDATE of player_seasons waits for the rows a replay restored and still holds.
Commit(m) ==
    /\ job[m] = "rating"
    /\ Roster[m] \cap DOMAIN draft = {}
    /\ job' = [job EXCEPT ![m] = "noting"]
    /\ ladder' = [p \in Players |-> IF p \in Roster[m] THEN Append(read[m][p], m)
                                    ELSE ladder[p]]
    /\ before' = [before EXCEPT ![m] = read[m]]
    /\ read' = [read EXCEPT ![m] = Nothing]
    /\ facts' = facts \cup {m}
    /\ rated' = rated \cup {m}
    /\ Meets(m)
    /\ UNCHANGED <<seen, hwm, floor, stage, since, todo, draft, wiped, current,
                   fulls, interrupts>>

\* _note_if_out_of_order reads the mark ...
ReadMark(m) ==
    /\ job[m] = "noting"
    /\ job' = [job EXCEPT ![m] = "compared"]
    /\ seen' = [seen EXCEPT ![m] = hwm]
    /\ UNCHANGED <<read, dbVars, hwm, floor, replayVars, interrupts>>

\* ... sets it for a newer match, "Sem CAS de proposito" ...
Advance(m) ==
    /\ job[m] = "compared"
    /\ PlayedAt[m] > seen[m]
    /\ job' = [job EXCEPT ![m] = "done"]
    /\ hwm' = PlayedAt[m]
    /\ UNCHANGED <<read, seen, dbVars, floor, replayVars, interrupts>>

\* ... lets a match pass that is hardly late ...
Tolerate(m) ==
    /\ job[m] = "compared"
    /\ PlayedAt[m] <= seen[m]
    /\ seen[m] - PlayedAt[m] < Tolerance
    /\ job' = [job EXCEPT ![m] = "done"]
    /\ UNCHANGED <<read, seen, dbVars, hwm, floor, replayVars, interrupts>>

\* LEAST(COALESCE(replay_floor, played_at), played_at).
Lowered(t) == IF floor = None THEN t ELSE IF floor < t THEN floor ELSE t

\* ... and arms the floor for a late one (note_out_of_order, own transaction).
NoteOutOfOrder(m) ==
    /\ job[m] = "compared"
    /\ PlayedAt[m] <= seen[m]
    /\ seen[m] - PlayedAt[m] >= Tolerance
    /\ job' = [job EXCEPT ![m] = "done"]
    /\ floor' = Lowered(PlayedAt[m])
    /\ UNCHANGED <<read, seen, dbVars, hwm, replayVars, interrupts>>

\* The note is best effort: Redis or the database fails, or the job dies.
NoteFails(m) ==
    /\ job[m] \in {"noting", "compared"}
    /\ interrupts < MaxInterrupts
    /\ interrupts' = interrupts + 1
    /\ job' = [job EXCEPT ![m] = "done"]
    /\ UNCHANGED <<read, seen, dbVars, hwm, floor, replayVars>>

-----------------------------------------------------------------------------
(* The replay *)

\* No job is queued or running (a running arq job still counts as queued).
QueuesEmpty == \A m \in Matches : job[m] \in {"absent", "done"}

\* matches with played_at >= since, and participants to rebuild them from.
Window(t) == {m \in rated : t = None \/ PlayedAt[m] >= t}

\* replay_from reads the replay set; it refuses one that is too large, and ends
\* without a trace if there is none.  The depth of the queues, the floor and the
\* set are read one after the other; a job that slips in between acts like one
\* that starts right after.
Begin(t) ==
    /\ stage = "idle"
    /\ Window(t) # {}
    /\ Cardinality(Window(t)) <= MaxWindow
    /\ stage' = "built"
    /\ since' = t
    /\ todo' = Chronological(Window(t))
    /\ trusted' = {p \in Players : IF t = None THEN Of(p, facts) \subseteq rated
                                              ELSE apart /\ Orderly(p)}
    /\ UNCHANGED apart

\* rating_replay_tick: the floor is armed and the queues are empty.
ReplayTick ==
    /\ QueuesEmpty
    /\ floor # None
    /\ Begin(floor)
    /\ UNCHANGED <<jobVars, dbVars, hwm, floor, draft, wiped, current, fulls,
                   interrupts>>

\* replay_from without `since`, the whole-season mode: no cron runs it.
FullReplay ==
    /\ QueuesEmpty
    /\ fulls < MaxFullReplays
    /\ fulls' = fulls + 1
    /\ Begin(None)
    /\ UNCHANGED <<jobVars, dbVars, hwm, floor, draft, wiped, current,
                   interrupts>>

\* Mutant of Oldest: ORDER BY played_at DESC.
Newest(p, S) ==
    CHOOSE m \in Of(p, S) : \A n \in Of(p, S) : PlayedAt[m] >= PlayedAt[n]

\* restore_states_at: DISTINCT ON (player_id) ORDER BY played_at, the
\* state_before of the oldest row of each player in the window.
Oldest(p, S) ==
    CHOOSE m \in Of(p, S) : \A n \in Of(p, S) : PlayedAt[m] <= PlayedAt[n]

Restored(S) ==
    IF since = None
    THEN [p \in Players |-> <<>>]
    ELSE [p \in UNION {Roster[m] : m \in S} |-> before[Oldest(p, S)][p]]

\* Restore and wipe_derived: the first, still uncommitted, part of the replay.
Rewind ==
    /\ stage = "built"
    /\ stage' = "loading"
    /\ draft' = Restored(Window(since))
    /\ wiped' = Window(since)
    /\ UNCHANGED <<jobVars, dbVars, hwm, floor, since, todo, current, fulls,
                   interrupts, trusted, apart>>

\* What the replay's session sees: its own restored ratings, then the ladder.
Session(p) == IF p \in DOMAIN draft THEN draft[p] ELSE ladder[p]

\* RatingService.process_match without locks reads the lobby of the next match.
ReplayLoad ==
    /\ stage = "loading"
    /\ stage' = "writing"
    /\ current' = [p \in Roster[Head(todo)] |-> Session(p)]
    /\ UNCHANGED <<jobVars, dbVars, hwm, floor, since, todo, draft, wiped, fulls,
                   interrupts, trusted, apart>>

\* Mutant of ReplayCommit: only the lobby of the first match is restored.
ReplayCommitLobby ==
    /\ stage = "writing"
    /\ LET m == Head(todo) IN
          /\ ladder' = [p \in Players |-> IF p \in Roster[m]
                                          THEN Append(current[p], m)
                                          ELSE ladder[p]]
          /\ before' = [before EXCEPT ![m] = current]
          /\ rated' = (rated \ wiped) \cup {m}
    /\ stage' = IF Tail(todo) = <<>> THEN "closing" ELSE "loading"
    /\ todo' = Tail(todo)
    /\ draft' = Nothing
    /\ wiped' = {}
    /\ current' = Nothing
    /\ UNCHANGED <<jobVars, facts, hwm, floor, since, fulls, interrupts, trusted,
                   apart>>

\* _persist commits: with the first match goes everything the session holds.
ReplayCommit ==
    /\ stage = "writing"
    /\ LET m == Head(todo) IN
          /\ ladder' = [p \in Players |-> IF p \in Roster[m]
                                          THEN Append(current[p], m)
                                          ELSE Session(p)]
          /\ before' = [before EXCEPT ![m] = current]
          /\ rated' = (rated \ wiped) \cup {m}
    /\ stage' = IF Tail(todo) = <<>> THEN "closing" ELSE "loading"
    /\ todo' = Tail(todo)
    /\ draft' = Nothing
    /\ wiped' = {}
    /\ current' = Nothing
    /\ UNCHANGED <<jobVars, facts, hwm, floor, since, fulls, interrupts, trusted,
                   apart>>

\* The replay is over for its session.
Reset ==
    /\ stage' = "idle"
    /\ since' = None
    /\ todo' = <<>>
    /\ draft' = Nothing
    /\ wiped' = {}
    /\ current' = Nothing
    /\ trusted' = {}
    /\ UNCHANGED fulls

\* Mutant of Close: the floor stays armed.
CloseKeepsFloor ==
    /\ stage = "closing"
    /\ Reset
    /\ apart' = (apart \/ (trusted = Players /\ since = None))
    /\ UNCHANGED <<jobVars, dbVars, hwm, floor, interrupts>>

\* clear_replay_floor and the last commit of the tick; an operator's replay
\* leaves the floor alone.
Close ==
    /\ stage = "closing"
    /\ floor' = IF since = None THEN floor ELSE None
    /\ Reset
    /\ apart' = (apart \/ (trusted = Players /\ since = None))
    /\ UNCHANGED <<jobVars, dbVars, hwm, interrupts>>

\* An exception, job_timeout or the death of the scheduler: what is not
\* committed is gone, what is committed stays.
ReplayFails ==
    /\ stage # "idle"
    /\ interrupts < MaxInterrupts
    /\ interrupts' = interrupts + 1
    /\ Reset
    /\ UNCHANGED <<jobVars, dbVars, hwm, floor, apart>>

-----------------------------------------------------------------------------

Live(m) ==
    \/ Read(m) \/ Commit(m) \/ ReadMark(m) \/ Advance(m) \/ Tolerate(m)
    \/ NoteOutOfOrder(m)

Replay == ReplayTick \/ Rewind \/ ReplayLoad \/ ReplayCommit \/ Close

Next ==
    \/ \E m \in Matches : Live(m) \/ NoteFails(m)
    \/ Replay
    \/ FullReplay
    \/ ReplayFails

Spec == Init /\ [][Next]_vars

\* Jobs that were started go on, and the cron keeps firing.
FairSpec ==
    /\ Spec
    /\ WF_vars(Replay)
    /\ \A m \in Matches : WF_vars(job[m] # "absent" /\ Live(m))

-----------------------------------------------------------------------------

\* "Ingerir fora de ordem + replay == ingerir em ordem cronologica" and
\* "incremental == full" (tests/services/test_chronological_replay.py): a replay
\* ends with the matches of a player folded once, in order, if it rewinds them
\* all or found them so, whatever it found of the others, and unless a match of
\* that player was rated meanwhile.  "Found them so" takes in how they came to
\* be: a live match that met an earlier replay may have left a restore point
\* that holds its own match.
ReplayRestoresOrder == stage = "closing" => \A p \in trusted : Orderly(p)

\* Such a player is rewound to exactly its matches before the floor, in the
\* order they were played, by the oldest row the window has of it.
RewindIsExact ==
    stage = "loading" /\ wiped # {} =>
        \A p \in trusted \cap DOMAIN draft :
            InOrder(draft[p]) /\ Folded(draft[p]) = Of(p, facts \ Window(since))

\* The replay floor does not stay armed for ever, although a replay may fail -
\* unless a whole-season replay that was cut off left nothing rated at or after
\* it: replay_from then answers "empty", and the tick keeps the floor.
FloorIsConsumed == floor # None ~> floor = None \/ Window(floor) = {}

-----------------------------------------------------------------------------
(* What the comments of the code say *)

\* "Rebobina player_seasons para o estado imediatamente anterior a since"
\* (restore_states_at): a restored rating holds no match of the window.
RewindsBeforeFloor ==
    \A p \in DOMAIN draft : Folded(draft[p]) \cap wiped = {}

\* "Reprocessar so um prefixo [...] deixaria o resto do estado derivado destruido
\* e nao reescrito" (replay_from, which rules it out; "O caller commita"): when
\* no replay runs, every match that was rated still is.
NothingStaysWiped == stage = "idle" => facts = rated

\* "O replay e single-threaded por construcao" (_no_lock): when nothing runs,
\* every rated match is folded into the ratings of its lobby.
NoUpdateIsLost ==
    stage = "idle" /\ QueuesEmpty =>
        \A m \in rated : \A p \in Roster[m] : m \in Folded(ladder[p])
=============================================================================
