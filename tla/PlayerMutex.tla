---------------------------- MODULE PlayerMutex ----------------------------
(***************************************************************************)
(* What the rating path expects of RedisLockManager.lock_players: a worker  *)
(* gets all the players of a match at once or none of them, a player has at *)
(* most one holder, nobody but the holder gives a player up, and a TTL may  *)
(* take a single player away from its holder.                              *)
(***************************************************************************)
CONSTANTS
    Players,   \* player ids, one Redis key each
    Workers    \* concurrent process_match jobs, of all consumer processes

CONSTANT Free  \* the value of a player nobody holds

VARIABLE holder  \* holder[p]: the worker that holds player p, or Free

Init == holder = [p \in Players |-> Free]

\* A worker takes a whole lobby: it held nothing and every player was free.
Acquire(w, S) ==
    /\ \A p \in Players : holder[p] # w
    /\ \A p \in S : holder[p] = Free
    /\ holder' = [p \in Players |-> IF p \in S THEN w ELSE holder[p]]

\* The holder leaves: all its players become free in one step.
Release(w) ==
    holder' = [p \in Players |-> IF holder[p] = w THEN Free ELSE holder[p]]

\* The TTL backstop removes one lock, whoever holds it.
Lapse(p) ==
    /\ holder[p] # Free
    /\ holder' = [holder EXCEPT ![p] = Free]

Next ==
    \/ \E w \in Workers, S \in SUBSET Players : Acquire(w, S)
    \/ \E w \in Workers : Release(w)
    \/ \E p \in Players : Lapse(p)

Spec == Init /\ [][Next]_holder
=============================================================================
