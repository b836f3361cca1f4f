---------------------------- MODULE PlayerLocks ----------------------------
(***************************************************************************)
(* services/locks.py: the per-player Redis locks a rating transaction takes *)
(* for every player of its match.  All SET NX commands of a batch go out in *)
(* one pipeline that is not a transaction, so the commands of two workers   *)
(* may interleave in Redis; a batch that did not get every key is released  *)
(* and retried as a whole.  A key carries the token of the batch that set   *)
(* it, is deleted only by compare-and-delete, and expires on its own.       *)
(*                                                                         *)
(* Tokens are random and fresh for every batch, so a token is one of two    *)
(* things: the token of the current batch of worker w, written w, or that   *)
(* of a batch that is over, written Orphan.                                 *)
(***************************************************************************)
EXTENDS Naturals, FiniteSets

CONSTANTS
    Players,      \* player ids; sorted(set(player_ids)) is the order of Nat
    Workers,      \* concurrent callers of lock_players
    Free,         \* an absent key; a player without a holder
    Orphan,       \* the token of a batch that is over: no one will present it
    Lobbies,      \* the sets of players a match may ask for
    MaxBackoffs,   \* max_wait_s / retry_delay_s: back-offs before giving up
    MaxFaults     \* bound: failing release pipelines considered

ASSUME PlayersAssumption == Players \subseteq Nat
ASSUME LobbiesAssumption == Lobbies \subseteq (SUBSET Players) \ {{}}
ASSUME TokensAssumption == Free \notin Workers /\ Orphan \notin Workers
                           /\ Free # Orphan
ASSUME BoundsAssumption == MaxBackoffs \in Nat /\ MaxFaults \in Nat

VARIABLES
    key,     \* key[p]: the value of arena:lock:player:{p}
    pc,      \* where each worker is in lock_players
    want,    \* want[w]: `ordered`, the players of the request
    unsent,  \* unsent[w]: the SET commands Redis has not executed yet
    held,    \* held[w]: the keys whose SET answered OK, not yet released
    waited,  \* waited[w]: back-offs taken by the current request
    lapsed,  \* history: the keys of w's current batch that expired under it
    faults   \* release pipelines that failed so far (bounded by MaxFaults)

vars == <<key, pc, want, unsent, held, waited, lapsed, faults>>

Stages == {"idle", "sending", "judging", "dropping", "backoff",
           "critical", "leaving"}

TypeOK ==
    /\ key \in [Players -> Workers \cup {Free, Orphan}]
    /\ pc \in [Workers -> Stages]
    /\ want \in [Workers -> SUBSET Players]
    /\ unsent \in [Workers -> SUBSET Players]
    /\ held \in [Workers -> SUBSET Players]
    /\ waited \in [Workers -> 0 .. MaxBackoffs]
    /\ lapsed \in [Workers -> SUBSET Players]
    /\ faults \in 0 .. MaxFaults

Init ==
    /\ key = [p \in Players |-> Free]
    /\ pc = [w \in Workers |-> "idle"]
    /\ want = [w \in Workers |-> {}]
    /\ unsent = [w \in Workers |-> {}]
    /\ held = [w \in Workers |-> {}]
    /\ waited = [w \in Workers |-> 0]
    /\ lapsed = [w \in Workers |-> {}]
    /\ faults = 0

-----------------------------------------------------------------------------

\* The least element: pipelines are built in the order of `ordered`.
IsFirst(p, S) == p \in S /\ \A q \in S : p <= q

\* The batch of w is over: the keys it leaves behind carry a dead token.
Orphaned(w) == [p \in Players |-> IF key[p] = w THEN Orphan ELSE key[p]]

\* lock_players is over for w: its local state is gone.
End(w) ==
    /\ pc' = [pc EXCEPT ![w] = "idle"]
    /\ key' = Orphaned(w)
    /\ want' = [want EXCEPT ![w] = {}]
    /\ unsent' = [unsent EXCEPT ![w] = {}]
    /\ held' = [held EXCEPT ![w] = {}]
    /\ waited' = [waited EXCEPT ![w] = 0]
    /\ lapsed' = [lapsed EXCEPT ![w] = {}]

\* A new batch: fresh tokens, and one SET queued for every player.
StartBatch(w, S) ==
    /\ key' = Orphaned(w)
    /\ pc' = [pc EXCEPT ![w] = "sending"]
    /\ unsent' = [unsent EXCEPT ![w] = S]
    /\ held' = [held EXCEPT ![w] = {}]
    /\ lapsed' = [lapsed EXCEPT ![w] = {}]

\* lock_players is entered for the lobby S.
Enter(w, S) ==
    /\ pc[w] = "idle"
    /\ want' = [want EXCEPT ![w] = S]
    /\ StartBatch(w, S)
    /\ UNCHANGED <<waited, faults>>

\* Mutant of SetNx: SET without NX.
SetOverwrites(w) ==
    /\ pc[w] = "sending"
    /\ \E p \in Players :
          /\ IsFirst(p, unsent[w])
          /\ unsent' = [unsent EXCEPT ![w] = @ \ {p}]
          /\ key' = [key EXCEPT ![p] = w]
          /\ held' = [held EXCEPT ![w] = @ \cup {p}]
          /\ pc' = [pc EXCEPT ![w] = IF unsent[w] = {p} THEN "judging" ELSE @]
    /\ UNCHANGED <<want, waited, lapsed, faults>>

\* Redis executes the next SET key token NX PX ttl of the pipeline.
SetNx(w) ==
    /\ pc[w] = "sending"
    /\ \E p \in Players :
          /\ IsFirst(p, unsent[w])
          /\ unsent' = [unsent EXCEPT ![w] = @ \ {p}]
          /\ IF key[p] = Free
                THEN /\ key' = [key EXCEPT ![p] = w]
                     /\ held' = [held EXCEPT ![w] = @ \cup {p}]
                ELSE UNCHANGED <<key, held>>
          /\ pc' = [pc EXCEPT ![w] = IF unsent[w] = {p} THEN "judging" ELSE @]
    /\ UNCHANGED <<want, waited, lapsed, faults>>

\* len(held) == len(ordered): the caller enters the critical section; otherwise
\* the subset that was taken is released first.
Judge(w) ==
    /\ pc[w] = "judging"
    /\ pc' = [pc EXCEPT ![w] = IF held[w] = want[w] THEN "critical"
                               ELSE "dropping"]
    /\ UNCHANGED <<key, want, unsent, held, waited, lapsed, faults>>

\* Mutant of CompareAndDelete: DEL without comparing the token.
PlainDelete(w) ==
    /\ pc[w] \in {"dropping", "leaving"}
    /\ \E p \in Players :
          /\ IsFirst(p, held[w])
          /\ held' = [held EXCEPT ![w] = @ \ {p}]
          /\ key' = [key EXCEPT ![p] = Free]
    /\ UNCHANGED <<pc, want, unsent, waited, lapsed, faults>>

\* Redis executes one compare-and-delete of a release pipeline.
CompareAndDelete(w) ==
    /\ pc[w] \in {"dropping", "leaving"}
    /\ \E p \in Players :
          /\ IsFirst(p, held[w])
          /\ held' = [held EXCEPT ![w] = @ \ {p}]
          /\ key' = [key EXCEPT ![p] = IF @ = w THEN Free ELSE @]
    /\ UNCHANGED <<pc, want, unsent, waited, lapsed, faults>>

\* The release pipeline raises; the exception is swallowed and the keys that
\* were not deleted are left to their TTL.
ReleaseFails(w) ==
    /\ pc[w] \in {"dropping", "leaving"}
    /\ held[w] # {}
    /\ faults < MaxFaults
    /\ faults' = faults + 1
    /\ held' = [held EXCEPT ![w] = {}]
    /\ UNCHANGED <<key, pc, want, unsent, waited, lapsed>>

\* After a partial batch is dropped, LockAcquireTimeout once the wait budget
\* is spent ...
GiveUp(w) ==
    /\ pc[w] = "dropping"
    /\ held[w] = {}
    /\ waited[w] >= MaxBackoffs
    /\ End(w)
    /\ UNCHANGED faults

\* ... and a sleep before that.
BackOff(w) ==
    /\ pc[w] = "dropping"
    /\ held[w] = {}
    /\ waited[w] < MaxBackoffs
    /\ pc' = [pc EXCEPT ![w] = "backoff"]
    /\ UNCHANGED <<key, want, unsent, held, waited, lapsed, faults>>

\* Mutant of Retry: the wait is not counted.
RetryUncounted(w) ==
    /\ pc[w] = "backoff"
    /\ StartBatch(w, want[w])
    /\ UNCHANGED <<want, waited, faults>>

\* The sleep ends: the whole set is tried again with fresh tokens.
Retry(w) ==
    /\ pc[w] = "backoff"
    /\ waited' = [waited EXCEPT ![w] = @ + 1]
    /\ StartBatch(w, want[w])
    /\ UNCHANGED <<want, faults>>

\* The body of the `with` ends, by return, exception or cancellation: release.
Leave(w) ==
    /\ pc[w] = "critical"
    /\ pc' = [pc EXCEPT ![w] = "leaving"]
    /\ UNCHANGED <<key, want, unsent, held, waited, lapsed, faults>>

\* Every compare-and-delete was executed (or the pipeline failed).
Left(w) ==
    /\ pc[w] = "leaving"
    /\ held[w] = {}
    /\ End(w)
    /\ UNCHANGED faults

\* The process dies, or the task is cancelled at an await of _acquire_all or
\* _release_all, or a SET pipeline raises: nothing is released, the keys it set
\* stay until they expire.
Abandon(w) ==
    /\ pc[w] # "idle"
    /\ End(w)
    /\ UNCHANGED faults

\* PX ttl: Redis drops a key, whether or not its owner is still working.
Expire(p) ==
    /\ key[p] # Free
    /\ key' = [key EXCEPT ![p] = Free]
    /\ lapsed' = [w \in Workers |-> IF key[p] = w THEN lapsed[w] \cup {p}
                                    ELSE lapsed[w]]
    /\ UNCHANGED <<pc, want, unsent, held, waited, faults>>

Step(w) ==
    \/ SetNx(w) \/ Judge(w) \/ CompareAndDelete(w) \/ GiveUp(w)
    \/ BackOff(w) \/ Retry(w) \/ Leave(w) \/ Left(w)

Next ==
    \/ \E w \in Workers, S \in Lobbies : Enter(w, S)
    \/ \E w \in Workers : SetNx(w)
    \/ \E w \in Workers : Judge(w)
    \/ \E w \in Workers : CompareAndDelete(w)
    \/ \E w \in Workers : ReleaseFails(w)
    \/ \E w \in Workers : GiveUp(w)
    \/ \E w \in Workers : BackOff(w)
    \/ \E w \in Workers : Retry(w)
    \/ \E w \in Workers : Leave(w)
    \/ \E w \in Workers : Left(w)
    \/ \E w \in Workers : Abandon(w)
    \/ \E p \in Players : Expire(p)

Spec == Init /\ [][Next]_vars

-----------------------------------------------------------------------------

\* Two rating transactions that share a player are inside the critical section
\* together only if the TTL of one of them ran out on that player: neither a
\* partial batch nor another worker's release can let the second one in.
CriticalExclusion ==
    \A v, w \in Workers :
        v # w /\ pc[v] = "critical" /\ pc[w] = "critical"
            => want[v] \cap want[w] \subseteq lapsed[v] \cup lapsed[w]

\* "no match ever holds one player's lock while waiting on another's"
\* (_acquire_all): a worker that sleeps before its next batch has no key left
\* in Redis, as long as no release pipeline failed.
NoHoldAndWait ==
    faults = 0 =>
        \A w \in Workers, p \in Players : pc[w] = "backoff" => key[p] # w

\* "we never delete a lock we no longer own": while a worker stays in the
\* critical section, a key that carries its token can only go by expiry.
OnlyExpiryTakesALock ==
    [][\A w \in Workers, p \in Players :
          pc[w] = "critical" /\ pc'[w] = "critical" /\ key[p] = w
              => key'[p] = w \/ Expire(p)]_vars

\* The holder a client of the lock may rely on.
Owns(w, p) == pc[w] = "critical" /\ p \in want[w] \ lapsed[w]

Holder(p) == IF \E w \in Workers : Owns(w, p)
                THEN CHOOSE w \in Workers : Owns(w, p)
                ELSE Free

Mutex == INSTANCE PlayerMutex WITH holder <- [p \in Players |-> Holder(p)]

\* The pipelined batches implement the all-or-nothing lock of PlayerMutex.
ImplementsMutex == Mutex!Spec

-----------------------------------------------------------------------------

\* The event loop keeps running a worker that is not waiting, and sleeps end.
FairSpec == Spec /\ \A w \in Workers : WF_vars(Step(w))

\* Every request for locks ends: in the critical section, in LockAcquireTimeout
\* or with its worker.  Interleaved batches may starve each other, so this rests
\* on the wait budget.
Resolves ==
    \A w \in Workers :
        pc[w] = "sending" ~> pc[w] \in {"critical", "idle"}
=============================================================================
