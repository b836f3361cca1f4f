----------------------------- MODULE RiotClient -----------------------------
(***************************************************************************)
(* One match fetched by several calls of RiotClient.get_match, in several   *)
(* processes that share one API key: the in-process future and the lease of *)
(* riot/coalesce.py, the cache, the token buckets of riot/rate_limit.py, the *)
(* circuit breaker of each process and the retries of riot/retry.py.        *)
(*                                                                         *)
(* Time goes by ticks.  What the code keeps as a time stamp is kept here as *)
(* the ticks that are left (lease, cache, penalty, cooldown, sleep) or that *)
(* have gone by (failures), so the state stays finite.  Each await is a     *)
(* step; other steps and ticks may come in between.                        *)
(***************************************************************************)
EXTENDS Naturals, FiniteSets, Sequences

CONSTANTS
    Calls,            \* the calls of get_match, all for one match, and ...
    Lists,            \* ... those of get_match_ids_by_puuid, which nothing coalesces
    Procs,
    At,               \* At[c]: the process of call c
    Buckets,          \* the configured buckets: "app", "ids", "match"
    Capacity,         \* TokenBucketConfig.capacity, refilled by one token a tick
    MaxWait,          \* max_wait_seconds of the limiter
    KeyTTL,           \* key_ttl_seconds of the limiter
    RetryAfters,      \* the Retry-After values Riot sends
    DefaultPenalty,   \* _DEFAULT_429_PENALTY_SECONDS
    MaxRetries,       \* RetryPolicy.max_retries
    Threshold,        \* failure_threshold
    Window,           \* window_seconds
    Cooldown,         \* cooldown_seconds
    LeaseTTL,         \* lease_ttl_seconds
    FollowerTimeout,  \* follower_timeout, in polls of one tick
    CacheTTL,
    NoCall,           \* no owner of a lease, no future
    NoHeader,         \* a 429 or 503 without Retry-After
    MaxMishaps         \* bound: answers other than 200, and cancelled calls

ASSUME AtAssumption == At \in [Calls -> Procs] /\ IsFiniteSet(Calls) /\ NoCall \notin Calls
ASSUME BucketsAssumption == Buckets \subseteq {"app", "ids", "match"} /\ Lists \subseteq Calls
ASSUME TimesAssumption ==
    /\ {Capacity, MaxWait, KeyTTL, Threshold, Window, Cooldown, LeaseTTL, FollowerTimeout,
        CacheTTL, DefaultPenalty} \subseteq Nat \ {0}
    /\ RetryAfters \subseteq Nat /\ NoHeader \notin Nat /\ {MaxRetries, MaxMishaps} \subseteq Nat

VARIABLES
    call,      \* where each call is
    inflight,  \* _inflight of each process: the call that owns the future
    cancelled, \* the future of that process was cancelled
    lease,     \* riot:coalesce:lease: its owner and the ticks it has left
    cache,     \* ticks the cached match has left, 0 for a miss
    bucket,    \* the hash of each bucket
    breaker,   \* the circuit breaker of each process
    ranOut,    \* history: a lease ran out while its leader was at work
    until,     \* history: ticks left of the longest penalty of each bucket
    cut,       \* history: penalised buckets whose key was given less time than that
    mishaps

coalescing == <<inflight, cancelled, lease, cache>>
limiting == <<bucket, until, cut, ranOut>>
clientVars == <<call, coalescing, limiting, breaker, mishaps>>

Larger(a, b) == IF a > b THEN a ELSE b
Smaller(a, b) == IF a < b THEN a ELSE b

\* The penalties that can be asked for.
Penalties == {DefaultPenalty} \cup RetryAfters
Longest == CHOOSE n \in Penalties : \A k \in Penalties : k <= n

ClientTypeOK ==
    /\ call \in [Calls -> [pc : {"idle", "joined", "look", "claim", "poll", "check", "reclaim",
                                 "acquire", "wait", "gate", "http", "store", "end", "done"},
                           role : {"none", "leader", "alone"},
                           todo : SUBSET Buckets, wait : Nat, tries : 0 .. MaxRetries,
                           polls : 0 .. FollowerTimeout, trial : BOOLEAN,
                           result : {"none", "ok", "error", "cancelled"}]]
    /\ inflight \in [Procs -> Calls \cup {NoCall}] /\ cancelled \in [Procs -> BOOLEAN]
    /\ lease \in [owner : Calls \cup {NoCall}, left : 0 .. LeaseTTL]
    /\ cache \in 0 .. CacheTTL /\ ranOut \in BOOLEAN
    /\ bucket \in [Buckets -> [tokens : 0 .. Capacity, frozen : 0 .. Longest, left : Nat]]
    /\ breaker \in [Procs -> [state : {"CLOSED", "OPEN", "HALF_OPEN"},
                              failures : Seq(0 .. Window), cool : 0 .. Cooldown]]
    /\ until \in [Buckets -> 0 .. Longest] /\ cut \subseteq Buckets
    /\ mishaps \in 0 .. MaxMishaps

NoLease == [owner |-> NoCall, left |-> 0]
Full == [tokens |-> Capacity, frozen |-> 0, left |-> 0]
Closed == [state |-> "CLOSED", failures |-> <<>>, cool |-> 0]

ClientInit ==
    /\ call = [c \in Calls |-> [pc |-> "idle", role |-> "none", todo |-> {}, wait |-> 0,
                                tries |-> 0, polls |-> 0, trial |-> FALSE, result |-> "none"]]
    /\ inflight = [p \in Procs |-> NoCall] /\ cancelled = [p \in Procs |-> FALSE]
    /\ lease = NoLease /\ cache = 0 /\ ranOut = FALSE
    /\ bucket = [b \in Buckets |-> Full] /\ until = [b \in Buckets |-> 0] /\ cut = {}
    /\ breaker = [p \in Procs |-> Closed]
    /\ mishaps = 0

Fault == mishaps < MaxMishaps /\ mishaps' = mishaps + 1
Goto(c, l) == call' = [call EXCEPT ![c].pc = l]
Ends(c, r) == call' = [call EXCEPT ![c].pc = "end", ![c].result = r]

-----------------------------------------------------------------------------
(* RequestCoalescer.fetch                                                  *)

Registers(c) == inflight' = [inflight EXCEPT ![At[c]] = c]

\* The buckets a request names, as far as they are configured.
Applicable(c) == Buckets \cap IF c \in Lists THEN {"app", "ids"} ELSE {"app", "match"}

\* run_with_retry and its first acquire.
Loads(c, role) ==
    call' = [call EXCEPT ![c].pc = "acquire", ![c].role = role, ![c].todo = Applicable(c)]

\* Level 1: the calls of a process that find its future wait for it.  A future
\* that was cancelled raises at once.
Start(c) ==
    /\ call[c].pc = "idle"
    /\ LET p == At[c] IN
       IF c \in Lists
       THEN Loads(c, "alone") /\ UNCHANGED inflight
       ELSE IF inflight[p] = NoCall
       THEN Goto(c, "look") /\ Registers(c)
       ELSE /\ UNCHANGED inflight
            /\ IF cancelled[p]
               THEN call' = [call EXCEPT ![c].pc = "done", ![c].result = "cancelled"]
               ELSE Goto(c, "joined")
    /\ UNCHANGED <<cancelled, lease, cache, limiting, breaker, mishaps>>

Look(c) ==
    /\ call[c].pc = "look"
    /\ IF cache > 0 THEN Ends(c, "ok") ELSE Goto(c, "claim")
    /\ UNCHANGED <<coalescing, limiting, breaker, mishaps>>

\* Mutant of Leaseable: SET without NX.
LeaseableAlways == TRUE

\* SET NX EX of the lease.
Leaseable == lease.owner = NoCall

TakesLease(c) ==
    /\ Leaseable
    /\ lease' = [owner |-> c, left |-> LeaseTTL]
    /\ Loads(c, "leader")

\* Level 2: the leader loads, the others poll the cache.
Claim(c) ==
    /\ call[c].pc = "claim"
    /\ \/ TakesLease(c)
       \/ /\ ~Leaseable /\ UNCHANGED lease
          /\ call' = [call EXCEPT ![c].pc = "poll", ![c].wait = 1]
    /\ UNCHANGED <<inflight, cancelled, cache, limiting, breaker, mishaps>>

\* After follower_timeout the follower loads without a lease.
PollsAgain(c) ==
    IF call[c].polls < FollowerTimeout
    THEN call' = [call EXCEPT ![c].pc = "poll", ![c].wait = 1]
    ELSE Loads(c, "alone")

Poll(c) ==
    /\ call[c].pc = "poll" /\ call[c].wait = 0
    /\ IF cache > 0 THEN Ends(c, "ok")
       ELSE call' = [call EXCEPT ![c].pc = "check", ![c].polls = @ + 1]
    /\ UNCHANGED <<coalescing, limiting, breaker, mishaps>>

Check(c) ==
    /\ call[c].pc = "check"
    /\ IF Leaseable THEN Goto(c, "reclaim") ELSE PollsAgain(c)
    /\ UNCHANGED <<coalescing, limiting, breaker, mishaps>>

Reclaim(c) ==
    /\ call[c].pc = "reclaim"
    /\ \/ TakesLease(c)
       \/ ~Leaseable /\ PollsAgain(c) /\ UNCHANGED lease
    /\ UNCHANGED <<inflight, cancelled, cache, limiting, breaker, mishaps>>

\* The lease is deleted by its key, whoever holds it by now.
Dropped(c) == IF call[c].role = "leader" THEN NoLease ELSE lease

\* Mutant of Popped: the future stays.
PoppedNever(c) == inflight

Popped(c) == IF c \in Lists THEN inflight ELSE [inflight EXCEPT ![At[c]] = NoCall]

Waiting(c) == {d \in Calls \ Lists : c \notin Lists /\ call[d].pc = "joined" /\ At[d] = At[c]}

\* The end of a loader and of fetch: the lease is deleted, the future gets the
\* result and is taken out of _inflight.
Finish(c) ==
    /\ call[c].pc = "end"
    /\ lease' = Dropped(c)
    /\ inflight' = Popped(c)
    /\ cancelled' = [p \in Procs |-> cancelled[p] /\ inflight'[p] # NoCall]
    /\ call' = [d \in Calls |->
                  IF d = c \/ d \in Waiting(c)
                  THEN [call[d] EXCEPT !.pc = "done", !.result = call[c].result, !.role = "none"]
                  ELSE call[d]]
    /\ UNCHANGED <<cache, limiting, breaker, mishaps>>

\* The job of a call is cancelled.  The exception reaches the calls that wait for
\* its future; when it hits one of those, it cancels the future for all of them.
Cancel(c) ==
    /\ Fault
    /\ call[c].pc \notin {"idle", "end", "done"}
    /\ IF call[c].pc = "joined"
       THEN /\ cancelled' = [cancelled EXCEPT ![At[c]] = TRUE]
            /\ call' = [d \in Calls |-> IF d \in Waiting(c)
                          THEN [call[d] EXCEPT !.pc = "done", !.result = "cancelled"]
                          ELSE call[d]]
       ELSE Ends(c, "cancelled") /\ UNCHANGED cancelled
    /\ UNCHANGED <<inflight, lease, cache, limiting, breaker>>

-----------------------------------------------------------------------------
(* RedisTokenBucketLimiter                                                 *)

First(S) == IF "app" \in S THEN "app" ELSE CHOOSE b \in S : TRUE

\* The buckets of S whose key, with this many ticks from EXPIRE, goes before the
\* penalty that ends[b] ticks are left of.
Cuts(S, ticks, ends) == {b \in S : ticks < ends[b]}

\* The Lua of a bucket: a token, or the ticks to wait for one.  It sets the key to
\* expire after KeyTTL, whatever is left of a penalty.
TryBucket(c) ==
    /\ call[c].pc = "acquire" /\ call[c].todo # {}
    /\ LET b == First(call[c].todo)
           granted == bucket[b].tokens >= 1
       IN /\ bucket' = [bucket EXCEPT ![b].tokens = IF granted THEN @ - 1 ELSE @,
                                      ![b].left = KeyTTL]
          /\ cut' = cut \cup Cuts({b}, KeyTTL, until)
          /\ call' = [call EXCEPT ![c].todo = @ \ {b},
                        ![c].wait = IF granted THEN @ ELSE Larger(@, 1 + bucket[b].frozen)]
    /\ UNCHANGED <<coalescing, until, ranOut, breaker, mishaps>>

\* acquire returns after a pass in which every bucket granted, else sleeps.
Acquired(c) ==
    /\ call[c].pc = "acquire" /\ call[c].todo = {}
    /\ IF call[c].wait = 0 THEN Goto(c, "gate")
       ELSE call' = [call EXCEPT ![c].pc = "wait", ![c].wait = Smaller(@, MaxWait)]
    /\ UNCHANGED <<coalescing, limiting, breaker, mishaps>>

\* The sleeps of the limiter and of run_with_retry end in another acquire.
Wake(c) ==
    /\ call[c].pc = "wait" /\ call[c].wait = 0
    /\ call' = [call EXCEPT ![c].pc = "acquire", ![c].todo = Applicable(c)]
    /\ UNCHANGED <<coalescing, limiting, breaker, mishaps>>

\* A penalty is never shortened.
Frozen(b, seconds) == Larger(bucket[b].frozen, seconds)

\* _penalty_targets
Targets(c, type) ==
    IF type = "service" THEN {}
    ELSE IF type = "application" /\ "app" \in Buckets THEN {"app"}
    ELSE Applicable(c) \ {"app"}

\* penalize: the bucket is emptied, its refill starts after the penalty and its key
\* outlives the Retry-After.  A bucket whose script fails is passed over (deaf).
Penalize(c, type, after, deaf) ==
    LET seconds == IF after = NoHeader THEN DefaultPenalty ELSE after
        hit == IF seconds = 0 THEN {} ELSE Targets(c, type) \ deaf
        ttl == Larger(KeyTTL, 2 * seconds + 1)
    IN /\ bucket' = [b \in Buckets |->
             IF b \in hit THEN [tokens |-> 0, frozen |-> Frozen(b, seconds), left |-> ttl]
             ELSE bucket[b]]
       /\ until' = [b \in Buckets |-> IF b \in hit THEN Larger(until[b], seconds) ELSE until[b]]
       /\ cut' = {b \in cut : b \in hit => until[b] > seconds} \cup Cuts(hit, ttl, until')

-----------------------------------------------------------------------------
(* CircuitBreaker                                                          *)

\* _before_call: an open circuit raises, and lets a call through after the
\* cooldown.
Gate(c) ==
    /\ call[c].pc = "gate"
    /\ LET p == At[c] IN
       IF breaker[p].state = "OPEN" /\ breaker[p].cool > 0
       THEN Ends(c, "error") /\ UNCHANGED breaker
       ELSE LET after == IF breaker[p].state = "OPEN" THEN "HALF_OPEN" ELSE breaker[p].state
            IN /\ breaker' = [breaker EXCEPT ![p].state = after]
               /\ call' = [call EXCEPT ![c].pc = "http", ![c].trial = after = "HALF_OPEN"]
    /\ UNCHANGED <<coalescing, limiting, mishaps>>

\* _on_success, whatever the state is by now.
Succeeds(p) == breaker' = [breaker EXCEPT ![p] = Closed]

Opened == [state |-> "OPEN", failures |-> <<>>, cool |-> Cooldown]

\* The failures of the last Window ticks, t ticks later.
Recent(fs, t) == SelectSeq([i \in DOMAIN fs |-> fs[i] + t], LAMBDA age : age <= Window)

\* _on_failure
Fails(p) ==
    LET fs == Append(breaker[p].failures, 0) IN
    breaker' = [breaker EXCEPT ![p] =
        IF @.state = "HALF_OPEN" THEN [@ EXCEPT !.state = "OPEN", !.cool = Cooldown]
        ELSE IF Len(fs) >= Threshold THEN Opened
        ELSE [@ EXCEPT !.failures = fs]]

-----------------------------------------------------------------------------
(* _perform: one attempt                                                   *)

\* Another attempt after Retry-After and a jitter of at most a tick, or the error.
RetriesAfter(c, after) ==
    IF call[c].tries < MaxRetries
    THEN \E jitter \in {0, 1} :
           call' = [call EXCEPT ![c].pc = "wait", ![c].tries = @ + 1, ![c].trial = FALSE,
                      ![c].wait = jitter + IF after = NoHeader THEN 0 ELSE after]
    ELSE Ends(c, "error")

Answer200(c) ==
    /\ call[c].pc = "http"
    /\ Succeeds(At[c])
    /\ IF c \in Lists THEN Ends(c, "ok") ELSE Goto(c, "store")
    /\ UNCHANGED <<coalescing, limiting, mishaps>>

\* 404 and the statuses that are not retried.
AnswerRefused(c) ==
    /\ Fault
    /\ call[c].pc = "http"
    /\ Succeeds(At[c]) /\ Ends(c, "error")
    /\ UNCHANGED <<coalescing, limiting>>

\* A 503 is an answer: it does not count as a failure of the circuit.
Answer503(c, after) ==
    /\ Fault
    /\ call[c].pc = "http"
    /\ Succeeds(At[c]) /\ RetriesAfter(c, after)
    /\ UNCHANGED <<coalescing, limiting>>

\* _apply_429_penalty is awaited before the retry; its awaits are one step here.
Answer429(c, type, after, deaf) ==
    /\ Fault
    /\ call[c].pc = "http"
    /\ Succeeds(At[c]) /\ RetriesAfter(c, after)
    /\ Penalize(c, type, after, deaf)
    /\ UNCHANGED <<coalescing, ranOut>>

TransportError(c) ==
    /\ Fault
    /\ call[c].pc = "http"
    /\ Fails(At[c]) /\ RetriesAfter(c, NoHeader)
    /\ UNCHANGED <<coalescing, limiting>>

\* The leader, and a follower that loads alone, fill the cache.
Store(c) ==
    /\ call[c].pc = "store"
    /\ cache' = CacheTTL
    /\ Ends(c, "ok")
    /\ UNCHANGED <<inflight, cancelled, lease, limiting, breaker, mishaps>>

-----------------------------------------------------------------------------
Less(n) == IF n = 0 THEN 0 ELSE n - 1

\* Mutant of Refilled: the refill does not wait for the end of the penalty.
RefilledAnyway(b) ==
    [bucket[b] EXCEPT !.tokens = Smaller(Capacity, @ + 1), !.frozen = Less(@), !.left = Less(@)]

\* A bucket whose key expires is a full one.
Refilled(b) ==
    LET h == bucket[b] IN
    IF h.left <= 1 THEN Full
    ELSE [tokens |-> IF h.frozen > 0 THEN h.tokens ELSE Smaller(Capacity, h.tokens + 1),
          frozen |-> Less(h.frozen), left |-> h.left - 1]

Tick ==
    /\ call' = [c \in Calls |-> IF call[c].pc \in {"wait", "poll"}
                                THEN [call[c] EXCEPT !.wait = Less(@)] ELSE call[c]]
    /\ lease' = IF lease.left <= 1 THEN NoLease ELSE [lease EXCEPT !.left = @ - 1]
    /\ ranOut' = (ranOut \/ lease.left = 1)
    /\ cache' = Less(cache)
    /\ bucket' = [b \in Buckets |-> Refilled(b)]
    /\ until' = [b \in Buckets |-> Less(until[b])]
    /\ cut' = {b \in cut : until'[b] > 0}
    /\ breaker' = [p \in Procs |-> [breaker[p] EXCEPT !.failures = Recent(@, 1), !.cool = Less(@)]]
    /\ UNCHANGED <<inflight, cancelled, mishaps>>

ClientStep(c) ==
    \/ Start(c) \/ Look(c) \/ Claim(c) \/ Poll(c) \/ Check(c) \/ Reclaim(c) \/ Finish(c)
    \/ TryBucket(c) \/ Acquired(c) \/ Wake(c)
    \/ Gate(c) \/ Answer200(c) \/ Store(c)

Mishap(c) ==
    \/ Cancel(c) \/ AnswerRefused(c) \/ TransportError(c)
    \/ \E after \in RetryAfters \cup {NoHeader} :
         \/ Answer503(c, after)
         \/ \E type \in {"service", "application", "method"}, deaf \in SUBSET Buckets :
              Answer429(c, type, after, deaf)

ClientNext == Tick \/ \E c \in Calls : ClientStep(c) \/ Mishap(c)

ClientSpec == ClientInit /\ [][ClientNext]_clientVars

\* The event loop runs every call, Riot answers within the HTTP timeout, and time
\* passes.
Fairness == WF_clientVars(Tick) /\ \A c \in Calls : WF_clientVars(ClientStep(c))

FairClientSpec == ClientSpec /\ Fairness

-----------------------------------------------------------------------------
(* Properties.                                                             *)

Loading(c) == call[c].pc \in {"acquire", "wait", "gate", "http", "store"}

\* In a process one call at a time works on the match, the others wait for it.
OnePerProcess ==
    \A c, d \in Calls \ Lists :
        (At[c] = At[d] /\ call[c].pc \notin {"idle", "joined", "done"}
                       /\ call[d].pc \notin {"idle", "joined", "done"}) => c = d

\* After a 429 no token of the bucket is to be had, by any process, before the
\* longest penalty put on it is over, unless a later script gave the key of the
\* bucket less time than was left of the penalty.
PenaltyHolds == \A b \in Buckets : (until[b] > 0 /\ b \notin cut) => bucket[b].tokens = 0

\* "The bucket key must outlive the penalty": also when a later script gives the key
\* less time, once no call is left that asks for a token.
KeyOutlivesPenalty ==
    \A b \in Buckets : until[b] > 0 /\ (\A c \in Calls : call[c].pc = "done")
        => bucket[b].tokens = 0

\* As long as no lease ran out, the match is loaded by one leader at a time.
OneLeader ==
    ~ranOut => \A c, d \in Calls :
        (Loading(c) /\ Loading(d) /\ call[c].role = "leader" /\ call[d].role = "leader")
            => c = d

\* "allow exactly one trial through"
OneTrial ==
    \A c, d \in Calls :
        (At[c] = At[d] /\ call[c].pc = "http" /\ call[d].pc = "http"
                       /\ call[c].trial /\ call[d].trial) => c = d

\* Every call ends: with the match, an error, or its cancellation.
CallsEnd == \A c \in Calls : call[c].pc # "idle" ~> call[c].pc = "done"
=============================================================================
