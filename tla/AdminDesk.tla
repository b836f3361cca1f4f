----------------------------- MODULE AdminDesk -----------------------------
(***************************************************************************)
(* The operators' desk of the admin API: operator keys and their scopes    *)
(* (api/rbac.py, api/routers/admin_operators.py), the dead-letter list     *)
(* (api/routers/admin.py against workers/processor.py), the integrity      *)
(* review queue, the moderation of players (admin_players.py), the choice   *)
(* of players for the priority sweep and the row of a season (admin.py).   *)
(*                                                                         *)
(* A request is authorised and makes its first read in one step; every     *)
(* later Redis command or commit is a step of its own, so requests of      *)
(* several operators and the workers interleave between them.              *)
(***************************************************************************)
EXTENDS Integers, FiniteSets, Sequences, SequencesExt

CONSTANTS
  Operators,  \* rows of admin_operators
  Env,        \* the identity of ADMIN_API_KEY, never looked up
  Matches,
  Requests,   \* concurrent requests
  Asked,      \* bound: the kinds of request a behaviour makes
  MaxAsks,    \* bound: how many requests it makes
  MaxDeaths,  \* bound: how many jobs end in the dead-letter list
  MaxNow,     \* bound on the clock, in seconds of int(time.time())
  NoRole

ASSUME DeskAssumption ==
  /\ Env \notin Operators /\ MaxAsks \in Nat /\ MaxDeaths \in Nat
  /\ MaxNow \in Nat \ {0}

VARIABLES
  role,      \* operator -> role while its key is valid, NoRole otherwise
  dlq,       \* arena:dlq: entries [match, at], each a value of its own
  jobs,      \* ids of the jobs queued or running
  known,     \* ids arq has a job or a result for
  rated,     \* matches processed
  player,    \* the columns of a player's row
  flags,     \* moderation_flags of that row, by the request that appended them
  selected,  \* is_selected of that row
  season,    \* the status of a season's row, and its config: who merged into it
  event,     \* an integrity event: [reviewed, override, by]
  req,       \* request -> its kind, its progress and what it read
  now, asks, deaths,
  discarded, \* history: matches an operator threw away
  ordered,   \* history: matches requeued and not rated, no job of them ended since
  trail,     \* admin_audit_events: <<actor, kind>>
  crowded,   \* history: two dead-letter requests have overlapped
  failed     \* history: a request died between a removal and its enqueue

rows  == <<player, flags, selected, season, event>>
desk  == <<role, rows>>
queue == <<dlq, jobs, known, rated, discarded, ordered>>
vars  == <<desk, queue, req, now, asks, deaths, trail, crowded, failed>>

Idle    == [pc |-> "idle"]
Columns == {"banned", "shadowbanned", "restricted"}
Ids     == Matches \X (0..MaxNow)      \* <<m, 0>>: the id discovery enqueues

-----------------------------------------------------------------------------
(* Keys and scopes. *)

RoleScopes ==
  LET all == {"telemetry:read", "workers:write", "dlq:write", "integrity:review",
              "integrity:override", "tournaments:write", "season:write",
              "rbac:write", "players:moderate", "audit:read"}
  IN  [owner     |-> all,
       admin     |-> all \ {"season:write", "rbac:write"},
       moderator |-> {"telemetry:read", "dlq:write", "integrity:review",
                      "players:moderate"},
       analyst   |-> {"telemetry:read"},
       support   |-> {"telemetry:read"}]

Roles == DOMAIN RoleScopes

\* require_scope: the environment's key is the owner; any other is looked up,
\* and a key that is revoked, unknown or cannot be looked up has no scope.
Scopes(actor) ==
  IF actor = Env THEN RoleScopes["owner"]
  ELSE IF role[actor] = NoRole THEN {} ELSE RoleScopes[role[actor]]

Needs == [requeueAll |-> "dlq:write", requeue |-> "dlq:write",
          discard |-> "dlq:write", moderate |-> "players:moderate",
          review |-> "integrity:review", operators |-> "rbac:write",
          select |-> "workers:write", config |-> "season:write",
          transition |-> "season:write"]

DlqKinds == {"requeueAll", "requeue", "discard"}

OnDlq(r) == req[r].pc # "idle" /\ req[r].kind \in DlqKinds

-----------------------------------------------------------------------------

Init ==
  /\ role = [o \in Operators |-> NoRole]
  /\ dlq = <<>> /\ jobs = {<<m, 0>> : m \in Matches} /\ known = jobs
  /\ rated = {} /\ discarded = {} /\ ordered = {}
  /\ player = [c \in Columns |-> FALSE] /\ flags = {}
  /\ selected = FALSE /\ season = [status |-> "active", config |-> {}]
  /\ event = [reviewed |-> FALSE, override |-> "none"]
  /\ req = [r \in Requests |-> Idle]
  /\ now = 1 /\ asks = 0 /\ deaths = 0
  /\ trail = {} /\ crowded = FALSE /\ failed = FALSE

\* A request that passed require_scope; the others are answered 401 or 403.
Start(r, actor, kind, more) ==
  /\ req[r].pc = "idle" /\ asks < MaxAsks /\ kind \in Asked
  /\ Needs[kind] \in Scopes(actor)
  /\ req' = [req EXCEPT ![r] =
       [pc |-> "read", kind |-> kind, actor |-> actor, saw |-> more]]
  /\ asks' = asks + 1
  /\ crowded' = (crowded \/ (kind \in DlqKinds /\ \E q \in Requests \ {r} : OnDlq(q)))
  /\ UNCHANGED <<desk, queue, now, deaths, trail, failed>>

At(r, kind, pc) == req[r].pc = pc /\ req[r].kind = kind

\* record_audit, last in every handler, in a transaction of its own: never raises.
Answer(r) ==
  /\ req' = [req EXCEPT ![r].pc = "audit"]
  /\ UNCHANGED <<now, asks, deaths, trail, crowded>>

Audit(r) ==
  /\ req[r].pc = "audit"
  /\ trail' \in {trail, trail \cup {<<req[r].actor, req[r].kind>>}}
  /\ req' = [req EXCEPT ![r] = Idle]
  /\ UNCHANGED <<desk, queue, now, asks, deaths, crowded, failed>>

\* The API process dies, or a command fails where nothing catches it.
Dies(r) ==
  /\ req[r].pc # "idle"
  /\ req' = [req EXCEPT ![r] = Idle]
  /\ failed' = (failed \/ req[r].pc \in {"drain", "enqueue"})
  /\ UNCHANGED <<desk, queue, now, asks, deaths, trail, crowded>>

-----------------------------------------------------------------------------
(* Operator keys. *)

CreateOperator(r, actor) ==
  /\ "operators" \in Asked /\ asks < MaxAsks /\ req[r].pc = "idle"
  /\ "rbac:write" \in Scopes(actor)
  /\ \E o \in Operators, as \in Roles :
       /\ role[o] = NoRole
       /\ role' = [role EXCEPT ![o] = as]
  /\ asks' = asks + 1
  /\ req' = [req EXCEPT ![r] = [pc |-> "audit", kind |-> "operators", actor |-> actor]]
  /\ UNCHANGED <<rows, queue, now, deaths, trail, crowded, failed>>

RevokeOperator(r, actor) ==
  /\ "operators" \in Asked /\ asks < MaxAsks /\ req[r].pc = "idle"
  /\ "rbac:write" \in Scopes(actor)
  /\ \E o \in Operators :
       /\ role[o] # NoRole
       /\ role' = [role EXCEPT ![o] = NoRole]
  /\ asks' = asks + 1
  /\ req' = [req EXCEPT ![r] = [pc |-> "audit", kind |-> "operators", actor |-> actor]]
  /\ UNCHANGED <<rows, queue, now, deaths, trail, crowded, failed>>

-----------------------------------------------------------------------------
(* The dead-letter list. *)

\* Mutant of FreshId: the id the job had when it died.
SameId(m) == <<m, 0>>

\* A fresh id for every second (the suffix of the requeue routes).
FreshId(m) == <<m, now>>

\* enqueue_job: an id arq already has a job or a result for enqueues nothing.
Enqueued(id) ==
  /\ ordered' = ordered \cup ({id[1]} \ rated)
  /\ jobs'  = IF id \in known THEN jobs ELSE jobs \cup {id}
  /\ known' = known \cup {id}

AskRequeueAll(r, actor) == Start(r, actor, "requeueAll", [todo |-> dlq])

\* Mutant of Trimmed: the key is deleted.
Deleted(list, read) == <<>>

\* LTRIM total -1: as many entries as were read go, whatever they are by now.
Trimmed(list, read) == SubSeq(list, Len(read) + 1, Len(list))

TrimAll(r) ==
  /\ At(r, "requeueAll", "read")
  /\ dlq' = Trimmed(dlq, req[r].saw.todo)
  /\ req' = [req EXCEPT ![r].pc = "drain"]
  /\ UNCHANGED <<desk, jobs, known, rated, discarded, ordered, now, asks, deaths, trail,
                 crowded, failed>>

DrainOne(r) ==
  /\ At(r, "requeueAll", "drain") /\ req[r].saw.todo # <<>>
  /\ req' = [req EXCEPT ![r].saw.todo = Tail(@)]
  /\ \/ Enqueued(FreshId(Head(req[r].saw.todo).match)) /\ UNCHANGED dlq
     \/ dlq' = Append(dlq, Head(req[r].saw.todo)) /\ UNCHANGED <<jobs, known, ordered>>
  /\ UNCHANGED <<desk, rated, discarded, now, asks, deaths, trail, crowded, failed>>

DrainEnds(r) ==
  /\ At(r, "requeueAll", "drain") /\ req[r].saw.todo = <<>>
  /\ Answer(r)
  /\ UNCHANGED <<desk, queue, failed>>

\* _remove_dlq_entry: LRANGE, the first entry of the match, then LREM of one of its value.
FirstOf(m) == SelectInSeq(dlq, LAMBDA e : e.match = m)

AskEntry(r, actor, kind) ==
  \E m \in Matches :
    FirstOf(m) # 0 /\ Start(r, actor, kind, [entry |-> dlq[FirstOf(m)]])

Rem(list, e) == RemoveFirst(list, e)

NotFound(r) ==
  /\ At(r, "requeue", "read") \/ At(r, "discard", "read")
  /\ ~ Contains(dlq, req[r].saw.entry)
  /\ req' = [req EXCEPT ![r] = Idle]
  /\ UNCHANGED <<desk, queue, now, asks, deaths, trail, crowded, failed>>

RemoveEntry(r) ==
  /\ At(r, "requeue", "read") /\ Contains(dlq, req[r].saw.entry)
  /\ dlq' = Rem(dlq, req[r].saw.entry)
  /\ req' = [req EXCEPT ![r].pc = "enqueue"]
  /\ UNCHANGED <<desk, jobs, known, rated, discarded, ordered, now, asks, deaths, trail,
                 crowded, failed>>

Requeue(r) ==
  /\ At(r, "requeue", "enqueue")
  /\ Enqueued(FreshId(req[r].saw.entry.match))
  /\ Answer(r)
  /\ UNCHANGED <<desk, dlq, rated, discarded, failed>>

Discard(r) ==
  /\ At(r, "discard", "read") /\ Contains(dlq, req[r].saw.entry)
  /\ dlq' = Rem(dlq, req[r].saw.entry)
  /\ discarded' = discarded \cup {req[r].saw.entry.match}
  /\ Answer(r)
  /\ UNCHANGED <<desk, jobs, known, rated, ordered, failed>>

-----------------------------------------------------------------------------
(* The workers on the other side of the list (workers/processor.py). *)

Rate(id) ==
  /\ id \in jobs
  /\ jobs' = jobs \ {id} /\ rated' = rated \cup {id[1]}
  /\ ordered' = ordered \ {id[1]}
  /\ UNCHANGED <<desk, dlq, known, req, now, asks, deaths, discarded, trail,
                 crowded, failed>>

\* MAX_TRIES attempts take the back-off between them: the second has gone by.
\* A duplicate of a rated match finds its flag, or its row, and is skipped.
DeadLetter(id) ==
  /\ id \in jobs /\ id[2] < now /\ id[1] \notin rated /\ deaths < MaxDeaths
  /\ jobs' = jobs \ {id} /\ ordered' = ordered \ {id[1]}
  /\ dlq' = Append(dlq, [match |-> id[1], at |-> deaths])
  /\ deaths' = deaths + 1
  /\ UNCHANGED <<desk, known, rated, req, now, asks, discarded, trail, crowded,
                 failed>>

Tick ==
  /\ now < MaxNow /\ now' = now + 1
  /\ UNCHANGED <<desk, queue, req, asks, deaths, trail, crowded, failed>>

-----------------------------------------------------------------------------
(* Moderation and review: read the row, change the object, commit. *)

\* The body names the columns it sets, and perhaps one flag to append.
Bodies == [sets : {[c \in D |-> v] : D \in {{"banned"}, {"restricted"}, {}},
                                     v \in BOOLEAN},
           flag : BOOLEAN]

AskModerate(r, actor) ==
  \E b \in Bodies : Start(r, actor, "moderate",
                          [body |-> b, row |-> player, list |-> flags])

\* Mutant of Written: the whole row is written back.
WrittenWhole(sets, row) == sets @@ row

\* The UPDATE of a loaded object names the columns whose value was changed: a
\* column assigned the value it was loaded with is left as it is by now.
Written(sets, row) ==
  [c \in Columns |-> IF c \in DOMAIN sets /\ sets[c] # row[c] THEN sets[c]
                     ELSE player[c]]

Moderate(r) ==
  /\ At(r, "moderate", "read")
  /\ player' = Written(req[r].saw.body.sets, req[r].saw.row)
  /\ flags' = IF req[r].saw.body.flag THEN req[r].saw.list \cup {<<r, asks>>} ELSE flags
  /\ Answer(r)
  /\ UNCHANGED <<role, selected, season, event, queue, failed>>

\* An override needs its scope too, against the scopes resolved at the start.
AskReview(r, actor) ==
  \E o \in {"none", "eligible"} :
    /\ o # "none" => "integrity:override" \in Scopes(actor)
    /\ Start(r, actor, "review", [override |-> o])

\* meta["review"] is replaced as a whole.
Review(r) ==
  /\ At(r, "review", "read")
  /\ event' = [reviewed |-> TRUE, override |-> req[r].saw.override]
  /\ Answer(r)
  /\ UNCHANGED <<role, player, flags, selected, season, queue, failed>>

\* set_player_selected: the one column it names.
AskSelect(r, actor) ==
  \E v \in BOOLEAN : Start(r, actor, "select", [value |-> v, was |-> selected])

Select(r) ==
  /\ At(r, "select", "read")
  /\ selected' = IF req[r].saw.value # req[r].saw.was THEN req[r].saw.value ELSE selected
  /\ Answer(r)
  /\ UNCHANGED <<role, player, flags, season, event, queue, failed>>

-----------------------------------------------------------------------------
(* The row of a season: read, decide, commit. *)

\* update_season_config: the body is merged into the config that was read.
AskConfig(r, actor) == Start(r, actor, "config", [seen |-> season.config])

Configure(r) ==
  /\ At(r, "config", "read")
  /\ season' = [season EXCEPT !.config = req[r].saw.seen \cup {<<r, asks>>}]
  /\ Answer(r)
  /\ UNCHANGED <<role, player, flags, selected, event, queue, failed>>

\* _ALLOWED_TRANSITIONS: the one step out of each status but the last.
Allowed == [active |-> "soft_lock", soft_lock |-> "ended", ended |-> "off_season"]

\* transition_season, advance_status: any other target than the next is answered
\* 409; the status that was read is not looked at again.
AskTransition(r, actor) ==
  /\ season.status \in DOMAIN Allowed
  /\ Start(r, actor, "transition", [to |-> Allowed[season.status]])

Transition(r) ==
  /\ At(r, "transition", "read")
  /\ season' = [season EXCEPT !.status = req[r].saw.to]
  /\ Answer(r)
  /\ UNCHANGED <<role, player, flags, selected, event, queue, failed>>

-----------------------------------------------------------------------------

Handle(r) ==
  \/ TrimAll(r) \/ DrainOne(r) \/ DrainEnds(r)
  \/ NotFound(r) \/ RemoveEntry(r) \/ Requeue(r) \/ Discard(r)
  \/ Moderate(r) \/ Review(r) \/ Select(r)
  \/ Configure(r) \/ Transition(r) \/ Audit(r)

Next ==
  \/ \E r \in Requests, actor \in Operators \cup {Env} :
       \/ AskRequeueAll(r, actor) \/ AskEntry(r, actor, "requeue")
       \/ AskEntry(r, actor, "discard") \/ AskModerate(r, actor)
       \/ AskReview(r, actor) \/ AskSelect(r, actor)
       \/ AskConfig(r, actor) \/ AskTransition(r, actor)
       \/ CreateOperator(r, actor) \/ RevokeOperator(r, actor)
  \/ \E r \in Requests : Handle(r) \/ Dies(r)
  \/ \E id \in Ids : Rate(id) \/ DeadLetter(id)
  \/ Tick

Spec == Init /\ [][Next]_vars

\* The API serves a request it accepted, and the priority worker runs a queued
\* job to one of its two ends.
FairSpec ==
  /\ Spec
  /\ \A r \in Requests : WF_vars(Handle(r))
  /\ \A id \in Ids : WF_vars(Rate(id) \/ DeadLetter(id))

-----------------------------------------------------------------------------
(* Properties. *)

Listed(m) == \E i \in DOMAIN dlq : dlq[i].match = m

Held(m) ==
  \E r \in Requests :
    \/ req[r].pc = "drain" /\ \E i \in DOMAIN req[r].saw.todo : req[r].saw.todo[i].match = m
    \/ req[r].pc = "enqueue" /\ req[r].saw.entry.match = m

Lost(m) ==
  /\ m \notin rated \cup discarded
  /\ ~ Listed(m) /\ ~ Held(m)
  /\ \A id \in jobs : id[1] # m

\* requeue_all_dlq and the per-match routes against the workers: what one
\* dead-letter request at a time drops from the list is queued, put back or
\* discarded, whatever the workers append meanwhile; only overlapping requests,
\* or one that dies between the removal and the enqueue, lose a match.
NothingLostAlone == (\E m \in Matches : Lost(m)) => crowded \/ failed

\* requeue_all_dlq's docstring: trimming by the captured length leaves an entry
\* dead-lettered during the call alone, and a partial failure loses nothing.
NothingIsRacedAway == (\E m \in Matches : Lost(m)) => failed

Commits(r, kind) == At(r, kind, "read") /\ req'[r].pc = "audit"

\* PATCH .../moderation, .../select, .../config and .../transition: a request
\* changes the columns its body names and no other of the row it loaded, though
\* another one committed to that row between its SELECT and its UPDATE.
OnlyNamedColumnsChange ==
  [][/\ \A c \in Columns : player'[c] # player[c] =>
          \E r \in Requests : Commits(r, "moderate") /\ c \in DOMAIN req[r].saw.body.sets
     /\ selected' # selected => \E r \in Requests : Commits(r, "select")
     /\ season'.config # season.config => \E r \in Requests : Commits(r, "config")
     /\ season'.status # season.status => \E r \in Requests : Commits(r, "transition")]_vars

\* season_service.py: "Only forward transitions along that chain are allowed ...
\* (no skipping, no going back on the same row)".
SeasonOnlyMovesOn ==
  [][season'.status # season.status =>
       /\ season.status \in DOMAIN Allowed
       /\ season'.status = Allowed[season.status]]_vars

\* update_season_config: "Shallow-merge new rating/lifecycle params into the season
\* config blob": what one request merged, another one does not take out.
NoMergeIsLost ==
  [][season.config \subseteq season'.config]_vars

\* requeue_dlq, requeue_all_dlq: a requeued match really runs again (the job id is
\* fresh, so arq does not take it for the one that died).
RequeueRuns == \A m \in Matches : m \in ordered ~> m \notin ordered
=============================================================================
