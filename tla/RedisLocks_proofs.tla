-------------------------- MODULE RedisLocks_proofs --------------------------
(***************************************************************************)
(* Proofs about the two things the workers agree on through keys of Redis   *)
(* that expire: the player locks of PlayerLocks, for any set of players,    *)
(* workers and lobbies, and the limits and the lease of RiotClient, for any *)
(* set of calls and processes.                                              *)
(*                                                                         *)
(* The inductive invariant of the locks says what a key and the `held` list *)
(* of a worker know of each other: a key with a live token is on its        *)
(* owner's list unless a release pipeline failed, and a key on the list     *)
(* still carries the token unless it expired.  The client has two, one for  *)
(* each half, because the limiter and the coalescer share no state.         *)
(***************************************************************************)
EXTENDS PlayerLocks, RiotClient, TLAPS

-----------------------------------------------------------------------------
(* The player locks                                                        *)

\* A key with a live token is on its owner's list, or a release was lost.
KeysAreListed ==
    \A w \in Workers, p \in Players :
        key[p] = w => p \in held[w] \/ faults > 0

\* A listed key carries the owner's token, or it expired.
ListIsKept ==
    \A w \in Workers : \A p \in held[w] \ lapsed[w] : key[p] = w

\* What the stages promise: the critical section is entered with every key
\* listed, a sleeping worker has none and some of its wait budget left.
StagesInv ==
    \A w \in Workers :
        /\ pc[w] = "critical" => held[w] = want[w]
        /\ pc[w] = "backoff" => held[w] = {} /\ waited[w] < MaxBackoffs

IInv == TypeOK /\ KeysAreListed /\ ListIsKept /\ StagesInv

-----------------------------------------------------------------------------

LEMMA InitIInv == Init => IInv
  BY TokensAssumption, BoundsAssumption
     DEF Init, IInv, TypeOK, Stages, KeysAreListed, ListIsKept, StagesInv

\* One step per action of lock_players; End and StartBatch orphan the keys of
\* the worker, so nothing it leaves behind counts as its own.
LEMMA StepIInv == IInv /\ [Next]_vars => IInv'
  <1> SUFFICES ASSUME IInv, [Next]_vars PROVE IInv'
    OBVIOUS
  <1> USE TokensAssumption, BoundsAssumption
      DEF IInv, TypeOK, Stages, KeysAreListed, ListIsKept, StagesInv
  <1>1. ASSUME NEW w \in Workers, NEW S \in Lobbies, Enter(w, S) PROVE IInv'
    BY <1>1, LobbiesAssumption DEF Enter, StartBatch, Orphaned
  <1>2. ASSUME NEW w \in Workers, SetNx(w) PROVE IInv'
    BY <1>2 DEF SetNx
  <1>3. ASSUME NEW w \in Workers, Judge(w) PROVE IInv'
    BY <1>3 DEF Judge
  <1>4. ASSUME NEW w \in Workers, CompareAndDelete(w) PROVE IInv'
    BY <1>4 DEF CompareAndDelete
  <1>5. ASSUME NEW w \in Workers, ReleaseFails(w) PROVE IInv'
    BY <1>5 DEF ReleaseFails
  <1>6. ASSUME NEW w \in Workers, GiveUp(w) PROVE IInv'
    BY <1>6 DEF GiveUp, End, Orphaned
  <1>7. ASSUME NEW w \in Workers, BackOff(w) PROVE IInv'
    BY <1>7 DEF BackOff
  <1>8. ASSUME NEW w \in Workers, Retry(w) PROVE IInv'
    BY <1>8 DEF Retry, StartBatch, Orphaned
  <1>9. ASSUME NEW w \in Workers, Leave(w) PROVE IInv'
    BY <1>9 DEF Leave
  <1>10. ASSUME NEW w \in Workers, Left(w) PROVE IInv'
    BY <1>10 DEF Left, End, Orphaned
  <1>11. ASSUME NEW w \in Workers, Abandon(w) PROVE IInv'
    BY <1>11 DEF Abandon, End, Orphaned
  <1>12. ASSUME NEW p \in Players, Expire(p) PROVE IInv'
    BY <1>12 DEF Expire
  <1>13. CASE UNCHANGED vars
    BY <1>13 DEF vars
  <1>14. QED
    BY <1>1, <1>2, <1>3, <1>4, <1>5, <1>6, <1>7, <1>8, <1>9, <1>10, <1>11,
       <1>12, <1>13 DEF Next

LEMMA AlwaysIInv == Spec => []IInv
  BY InitIInv, StepIInv, PTL DEF Spec

\* Every variable of lock_players keeps to its domain, the wait budget included.
THEOREM TypeCorrect == Spec => []TypeOK
  <1>1. IInv => TypeOK
    BY DEF IInv
  <1>2. QED
    BY <1>1, AlwaysIInv, PTL

\* Two rating transactions share a player only after one of their TTLs ran out.
THEOREM Exclusion == Spec => []CriticalExclusion
  <1>1. IInv => CriticalExclusion
    <2> SUFFICES ASSUME IInv, NEW v \in Workers, NEW w \in Workers, v # w,
                        pc[v] = "critical", pc[w] = "critical",
                        NEW p \in want[v] \cap want[w],
                        p \notin lapsed[v] \cup lapsed[w]
                 PROVE  FALSE
      BY DEF CriticalExclusion
    <2>1. key[p] = v /\ key[p] = w
      BY DEF IInv, StagesInv, ListIsKept
    <2>2. QED
      BY <2>1
  <1>2. QED
    BY <1>1, AlwaysIInv, PTL

\* Unless a release was lost, a worker that sleeps before its next batch holds
\* no key, so it blocks nobody.
THEOREM SleepsWithoutLocks == Spec => []NoHoldAndWait
  <1>1. IInv => NoHoldAndWait
    BY DEF IInv, TypeOK, KeysAreListed, StagesInv, NoHoldAndWait
  <1>2. QED
    BY <1>1, AlwaysIInv, PTL

\* A key taken from a worker inside its critical section went by expiry only.
THEOREM TakenByExpiryOnly == Spec => OnlyExpiryTakesALock
  <1> DEFINE Kept == \A w \in Workers, p \in Players :
                        pc[w] = "critical" /\ pc'[w] = "critical" /\ key[p] = w
                            => key'[p] = w \/ Expire(p)
  <1>1. IInv /\ [Next]_vars => [Kept]_vars
    <2> SUFFICES ASSUME IInv, Next, NEW v \in Workers, NEW q \in Players,
                        pc[v] = "critical", pc'[v] = "critical", key[q] = v
                 PROVE  key'[q] = v \/ Expire(q)
      OBVIOUS
    <2> USE TokensAssumption
        DEF IInv, TypeOK, Stages, KeysAreListed, ListIsKept, StagesInv
    <2>1. ASSUME NEW w \in Workers,
                 \/ \E S \in Lobbies : Enter(w, S)
                 \/ Retry(w)
          PROVE  key'[q] = v
      BY <2>1 DEF Enter, Retry, StartBatch, Orphaned
    <2>2. ASSUME NEW w \in Workers, GiveUp(w) \/ Left(w) \/ Abandon(w)
          PROVE  key'[q] = v
      BY <2>2 DEF GiveUp, Left, Abandon, End, Orphaned
    <2>3. ASSUME NEW w \in Workers, SetNx(w) \/ CompareAndDelete(w)
          PROVE  key'[q] = v
      BY <2>3 DEF SetNx, CompareAndDelete
    <2>4. ASSUME NEW w \in Workers,
                 Judge(w) \/ ReleaseFails(w) \/ BackOff(w) \/ Leave(w)
          PROVE  key'[q] = v
      BY <2>4 DEF Judge, ReleaseFails, BackOff, Leave
    <2>5. ASSUME NEW p \in Players, Expire(p)
          PROVE  key'[q] = v \/ Expire(q)
      BY <2>5 DEF Expire
    <2>6. QED
      BY <2>1, <2>2, <2>3, <2>4, <2>5 DEF Next
  <1>2. QED
    BY <1>1, AlwaysIInv, PTL DEF Spec, OnlyExpiryTakesALock

-----------------------------------------------------------------------------
(* The refinement: a critical section is an atomic hold of the whole lobby.  *)

\* At most one worker owns a player, so Holder names the owner.
LEMMA HolderIsOwner ==
    IInv => \A p \in Players :
               /\ \A w \in Workers : Holder(p) = w <=> Owns(w, p)
               /\ Holder(p) = Free <=> \A w \in Workers : ~Owns(w, p)
  <1> SUFFICES ASSUME IInv, NEW p \in Players
               PROVE  /\ \A w \in Workers : Holder(p) = w <=> Owns(w, p)
                      /\ Holder(p) = Free <=> \A w \in Workers : ~Owns(w, p)
    OBVIOUS
  <1>1. \A w \in Workers : Owns(w, p) => key[p] = w
    BY DEF IInv, StagesInv, ListIsKept, Owns
  <1>2. QED
    BY <1>1, TokensAssumption DEF Holder

\* The same of the next state.
LEMMA HolderIsOwnerNext ==
    IInv' => \A p \in Players :
               /\ \A w \in Workers : Holder(p)' = w <=> Owns(w, p)'
               /\ Holder(p)' = Free <=> \A w \in Workers : ~Owns(w, p)'
  <1> SUFFICES ASSUME IInv', NEW p \in Players
               PROVE  /\ \A w \in Workers : Holder(p)' = w <=> Owns(w, p)'
                      /\ Holder(p)' = Free <=> \A w \in Workers : ~Owns(w, p)'
    OBVIOUS
  <1>1. \A w \in Workers : Owns(w, p)' => key'[p] = w
    BY DEF IInv, StagesInv, ListIsKept, Owns
  <1>2. QED
    BY <1>1, TokensAssumption DEF Holder

\* A step that changes nobody's ownership changes no holder.
LEMMA HoldersStay ==
    ASSUME IInv, IInv',
           \A w \in Workers, p \in Players : Owns(w, p)' <=> Owns(w, p)
    PROVE  [p \in Players |-> Holder(p)]' = [p \in Players |-> Holder(p)]
  <1>1. ASSUME NEW p \in Players PROVE Holder(p)' = Holder(p)
    <2>1. CASE \E w \in Workers : Owns(w, p)
      BY <2>1, HolderIsOwner, HolderIsOwnerNext
    <2>2. CASE \A w \in Workers : ~Owns(w, p)
      BY <2>2, HolderIsOwner, HolderIsOwnerNext
    <2>3. QED
      BY <2>1, <2>2
  <1>2. QED
    BY <1>1

\* A full batch is the atomic acquisition of what has not lapsed meanwhile.
LEMMA JudgeRefines ==
    ASSUME IInv, IInv', NEW w \in Workers, Judge(w), held[w] = want[w]
    PROVE  Mutex!Acquire(w, want[w] \ lapsed[w])
  <1> DEFINE S == want[w] \ lapsed[w]
  <1> USE DEF IInv, TypeOK
  <1>1. \A p \in Players : Owns(w, p)' <=> p \in S
    BY DEF Judge, Owns
  <1>2. \A v \in Workers, p \in Players : v # w => (Owns(v, p)' <=> Owns(v, p))
    BY DEF Judge, Owns
  <1>3. \A p \in Players : ~Owns(w, p)
    BY DEF Judge, Owns
  <1>4. \A p \in S, v \in Workers : ~Owns(v, p)
    <2>1. \A p \in S : key[p] = w
      BY DEF ListIsKept
    <2>2. \A v \in Workers, p \in Players : Owns(v, p) => key[p] = v
      BY DEF Owns, StagesInv, ListIsKept
    <2>3. QED
      BY <2>1, <2>2, <1>3
  <1>5. \A p \in Players : Holder(p)' = IF p \in S THEN w ELSE Holder(p)
    <2> SUFFICES ASSUME NEW p \in Players
                 PROVE  Holder(p)' = IF p \in S THEN w ELSE Holder(p)
      OBVIOUS
    <2>1. CASE p \in S
      BY <2>1, <1>1, HolderIsOwnerNext
    <2>2. CASE p \notin S
      <3>1. \A v \in Workers : Owns(v, p)' <=> Owns(v, p)
        BY <2>2, <1>1, <1>2, <1>3
      <3>2. QED
        BY <2>2, <3>1, HolderIsOwner, HolderIsOwnerNext
    <2>3. QED
      BY <2>1, <2>2
  <1>6. QED
    BY <1>3, <1>4, <1>5, HolderIsOwner DEF Mutex!Acquire

\* Leaving the critical section, or dying in it, releases the whole lobby.
LEMMA EndRefines ==
    ASSUME IInv, IInv', NEW w \in Workers, pc'[w] # "critical",
           \A v \in Workers, p \in Players :
               v # w => (Owns(v, p)' <=> Owns(v, p))
    PROVE  Mutex!Release(w)
  <1>1. \A p \in Players : ~Owns(w, p)'
    BY DEF Owns
  <1>2. \A p \in Players : Holder(p)' = IF Holder(p) = w THEN Free ELSE Holder(p)
    <2> SUFFICES ASSUME NEW p \in Players
                 PROVE  Holder(p)' = IF Holder(p) = w THEN Free ELSE Holder(p)
      OBVIOUS
    <2>1. CASE Owns(w, p)
      <3>1. \A v \in Workers : ~Owns(v, p)'
        BY <2>1, <1>1, HolderIsOwner
      <3>2. QED
        BY <2>1, <3>1, HolderIsOwner, HolderIsOwnerNext
    <2>2. CASE ~Owns(w, p)
      <3>1. \A v \in Workers : Owns(v, p)' <=> Owns(v, p)
        BY <2>2, <1>1
      <3>2. QED
        BY <2>2, <3>1, HolderIsOwner, HolderIsOwnerNext
    <2>3. QED
      BY <2>1, <2>2
  <1>3. QED
    BY <1>2 DEF Mutex!Release

\* Expiry of an owned key is a lapse.
LEMMA ExpireRefines ==
    ASSUME IInv, IInv', NEW q \in Players, Expire(q),
           NEW w \in Workers, Owns(w, q)
    PROVE  Mutex!Lapse(q)
  <1> USE DEF IInv, TypeOK
  <1>1. key[q] = w
    BY DEF Owns, StagesInv, ListIsKept
  <1>2. \A v \in Workers : ~Owns(v, q)'
    <2>1. ASSUME NEW v \in Workers, v # w PROVE ~Owns(v, q)
      BY HolderIsOwner, <2>1
    <2>2. QED
      BY <1>1, <2>1 DEF Expire, Owns
  <1>3. \A v \in Workers, p \in Players : p # q => (Owns(v, p)' <=> Owns(v, p))
    BY DEF Expire, Owns
  <1>4. \A p \in Players : Holder(p)' = IF p = q THEN Free ELSE Holder(p)
    BY <1>2, <1>3, HolderIsOwner, HolderIsOwnerNext
  <1>5. Holder(q) # Free
    BY HolderIsOwner, TokensAssumption
  <1>6. QED
    BY <1>4, <1>5 DEF Mutex!Lapse

\* The pipelined, all-or-nothing batches implement the atomic player lock.
THEOREM Refinement == Spec => ImplementsMutex
  <1>1. Init => Mutex!Init
    BY DEF Init, Mutex!Init, Holder, Owns
  <1>2. IInv /\ IInv' /\ [Next]_vars
            => [Mutex!Next]_[p \in Players |-> Holder(p)]
    <2> SUFFICES ASSUME IInv, IInv', [Next]_vars
                 PROVE  \/ Mutex!Next
                        \/ \A w \in Workers, p \in Players :
                               Owns(w, p)' <=> Owns(w, p)
      BY HoldersStay
    <2> USE DEF IInv, TypeOK, Stages
    <2>1. ASSUME NEW w \in Workers, NEW S \in Lobbies, Enter(w, S)
          PROVE  \A v \in Workers, p \in Players : Owns(v, p)' <=> Owns(v, p)
      BY <2>1 DEF Enter, StartBatch, Owns
    <2>2. ASSUME NEW w \in Workers,
                 SetNx(w) \/ CompareAndDelete(w) \/ ReleaseFails(w)
                     \/ BackOff(w) \/ Retry(w)
          PROVE  \A v \in Workers, p \in Players : Owns(v, p)' <=> Owns(v, p)
      BY <2>2 DEF SetNx, CompareAndDelete, ReleaseFails, BackOff, Retry,
                  StartBatch, Owns
    <2>3. ASSUME NEW w \in Workers, Judge(w) PROVE
              \/ Mutex!Next
              \/ \A v \in Workers, p \in Players : Owns(v, p)' <=> Owns(v, p)
      <3>1. CASE held[w] = want[w]
        BY <2>3, <3>1, JudgeRefines DEF Mutex!Next
      <3>2. CASE held[w] # want[w]
        BY <2>3, <3>2 DEF Judge, Owns
      <3>3. QED
        BY <3>1, <3>2
    <2>4. ASSUME NEW w \in Workers,
                 GiveUp(w) \/ Leave(w) \/ Left(w) \/ Abandon(w)
          PROVE  Mutex!Next
      <3>1. pc'[w] # "critical"
        BY <2>4 DEF GiveUp, Leave, Left, Abandon, End
      <3>2. \A v \in Workers, p \in Players : v # w => (Owns(v, p)' <=> Owns(v, p))
        BY <2>4 DEF GiveUp, Leave, Left, Abandon, End, Owns
      <3>3. QED
        BY <3>1, <3>2, EndRefines DEF Mutex!Next
    <2>5. ASSUME NEW q \in Players, Expire(q) PROVE
              \/ Mutex!Next
              \/ \A v \in Workers, p \in Players : Owns(v, p)' <=> Owns(v, p)
      <3>1. CASE \E w \in Workers : Owns(w, q)
        BY <2>5, <3>1, ExpireRefines DEF Mutex!Next
      <3>2. CASE \A w \in Workers : ~Owns(w, q)
        BY <2>5, <3>2 DEF Expire, Owns
      <3>3. QED
        BY <3>1, <3>2
    <2>6. CASE UNCHANGED vars
      BY <2>6 DEF vars, Owns
    <2>7. QED
      BY <2>1, <2>2, <2>3, <2>4, <2>5, <2>6 DEF Next
  <1>3. QED
    BY <1>1, <1>2, AlwaysIInv, PTL DEF Spec, ImplementsMutex, Mutex!Spec

-----------------------------------------------------------------------------
(* The limiter: what a 429 says is kept by every process                   *)

\* A bucket under a penalty is empty, is not refilled before the penalty is
\* over, and its key does not expire before.
UnderPenalty(b) ==
    /\ bucket[b].tokens = 0
    /\ bucket[b].frozen >= until[b]
    /\ bucket[b].left >= until[b]

BucketTypes ==
    /\ bucket \in [Buckets -> [tokens : Nat, frozen : Nat, left : Nat]]
    /\ until \in [Buckets -> Nat]

BInv == BucketTypes /\ \A b \in Buckets : (until[b] > 0 /\ b \notin cut) => UnderPenalty(b)

LEMMA InitBInv == ClientInit => BInv
  BY TimesAssumption DEF ClientInit, BInv, BucketTypes, Full

\* Only the script of a bucket, a penalty and the clock touch a bucket.
LEMMA StepBInv == BInv /\ [ClientNext]_clientVars => BInv'
  <1> SUFFICES ASSUME BInv, [ClientNext]_clientVars PROVE BInv'
    OBVIOUS
  <1> USE DEF BInv, BucketTypes
  <1>1. ASSUME NEW c \in Calls, TryBucket(c) PROVE BInv'
    <2> DEFINE b == First(call[c].todo)
    <2>1. \A a \in Buckets : a # b => bucket'[a] = bucket[a]
      BY <1>1 DEF TryBucket
    <2>2. CASE b \in Buckets
      <3>1. /\ bucket'[b].tokens = IF bucket[b].tokens >= 1 THEN bucket[b].tokens - 1
                                                            ELSE bucket[b].tokens
            /\ bucket'[b].frozen = bucket[b].frozen
            /\ bucket'[b].left = KeyTTL
        BY <1>1, <2>2 DEF TryBucket
      <3>2. bucket' \in [Buckets -> [tokens : Nat, frozen : Nat, left : Nat]]
        <4>1. bucket'[b] = [[bucket[b] EXCEPT !.tokens = bucket'[b].tokens] EXCEPT !.left = KeyTTL]
          BY <1>1, <2>2, <3>1 DEF TryBucket
        <4>2. bucket'[b].tokens \in Nat
          BY <2>2, <3>1
        <4>3. bucket'[b] \in [tokens : Nat, frozen : Nat, left : Nat]
          BY <2>2, <4>1, <4>2, TimesAssumption
        <4>4. bucket' = [a \in Buckets |-> bucket'[a]]
          BY <1>1 DEF TryBucket
        <4>5. QED
          BY <2>1, <4>3, <4>4
      <3>3. until' = until /\ cut' = cut \cup Cuts({b}, KeyTTL, until)
        BY <1>1 DEF TryBucket
      <3>4. ASSUME NEW a \in Buckets, until[a] > 0, a \notin cut' PROVE UnderPenalty(a)'
        <4>1. CASE a # b
          BY <2>1, <3>3, <3>4, <4>1 DEF UnderPenalty
        <4>2. CASE a = b
          BY <2>2, <3>1, <3>3, <3>4, <4>2, TimesAssumption DEF UnderPenalty, Cuts
        <4>3. QED
          BY <4>1, <4>2
      <3>5. QED
        BY <3>2, <3>3, <3>4
    <2>3. CASE b \notin Buckets
      BY <1>1, <2>1, <2>3 DEF TryBucket, UnderPenalty, Cuts
    <2>4. QED
      BY <2>2, <2>3
  <1>2. ASSUME NEW c \in Calls, NEW type, NEW after \in RetryAfters \cup {NoHeader},
               NEW deaf \in SUBSET Buckets, Answer429(c, type, after, deaf)
        PROVE  BInv'
    <2> DEFINE seconds == IF after = NoHeader THEN DefaultPenalty ELSE after
    <2> DEFINE hit == IF seconds = 0 THEN {} ELSE Targets(c, type) \ deaf
    <2> DEFINE ttl == Larger(KeyTTL, 2 * seconds + 1)
    <2>1. seconds \in Nat /\ ttl \in Nat /\ ttl >= seconds
      BY TimesAssumption DEF Larger
    <2>2. /\ bucket' = [b \in Buckets |->
                 IF b \in hit
                 THEN [tokens |-> 0, frozen |-> Frozen(b, seconds), left |-> ttl]
                 ELSE bucket[b]]
          /\ until' = [b \in Buckets |->
                 IF b \in hit THEN Larger(until[b], seconds) ELSE until[b]]
          /\ cut' = {b \in cut : b \in hit => until[b] > seconds} \cup Cuts(hit, ttl, until')
      BY <1>2 DEF Answer429, Penalize
    <2> HIDE DEF seconds, hit, ttl
    <2>3. BucketTypes'
      BY <2>1, <2>2 DEF Frozen, Larger
    <2>4. ASSUME NEW b \in Buckets, until'[b] > 0, b \notin cut' PROVE UnderPenalty(b)'
      <3>1. CASE b \notin hit
        BY <2>2, <2>4, <3>1 DEF UnderPenalty
      <3>2. CASE b \in hit
        <4>1. until'[b] = Larger(until[b], seconds) /\ bucket'[b].tokens = 0
              /\ bucket'[b].frozen = Frozen(b, seconds) /\ bucket'[b].left = ttl
          BY <2>2, <3>2
        <4>2. ttl >= until'[b] /\ (b \in cut => until[b] <= seconds)
          BY <2>1, <2>2, <2>4, <3>2, <4>1 DEF Cuts, Larger
        <4>3. until[b] = 0 \/ until[b] <= seconds \/ bucket[b].frozen >= until[b]
          BY <4>2 DEF UnderPenalty
        <4>4. QED
          BY <2>1, <4>1, <4>2, <4>3 DEF UnderPenalty, Frozen, Larger
      <3>3. QED
        BY <3>1, <3>2
    <2>5. QED
      BY <2>3, <2>4
  <1>3. ASSUME Tick PROVE BInv'
    <2>1. ASSUME NEW b \in Buckets
          PROVE  /\ bucket'[b] \in [tokens : Nat, frozen : Nat, left : Nat]
                 /\ until'[b] \in Nat
                 /\ (until'[b] > 0 /\ b \notin cut') => UnderPenalty(b)'
      <3>1. /\ bucket'[b] = Refilled(b) /\ until'[b] = Less(until[b])
            /\ (until'[b] > 0 /\ b \notin cut') => b \notin cut
        BY <1>3 DEF Tick
      <3>2. CASE bucket[b].left <= 1
        BY <3>1, <3>2, TimesAssumption DEF Refilled, Full, Less, UnderPenalty
      <3>3. CASE ~(bucket[b].left <= 1)
        <4>1. bucket'[b] = [tokens |-> IF bucket[b].frozen > 0 THEN bucket[b].tokens
                                       ELSE Smaller(Capacity, bucket[b].tokens + 1),
                            frozen |-> Less(bucket[b].frozen), left |-> bucket[b].left - 1]
          BY <3>1, <3>3 DEF Refilled
        <4>2. bucket'[b] \in [tokens : Nat, frozen : Nat, left : Nat]
          BY <3>3, <4>1, TimesAssumption DEF Less, Smaller
        <4>3. QED
          BY <3>1, <4>1, <4>2, TimesAssumption DEF Less, UnderPenalty
      <3>4. QED
        BY <3>2, <3>3
    <2>2. bucket' = [b \in Buckets |-> bucket'[b]] /\ until' = [b \in Buckets |-> until'[b]]
      BY <1>3 DEF Tick
    <2>3. QED
      BY <2>1, <2>2
  <1>4. ASSUME UNCHANGED <<bucket, until, cut>> PROVE BInv'
    BY <1>4 DEF UnderPenalty
  <1>5. ASSUME NEW c \in Calls, ClientStep(c), ~TryBucket(c) PROVE UNCHANGED <<bucket, until, cut>>
    BY <1>5 DEF ClientStep, Start, Look, Claim, Poll, Check, Reclaim, Finish, Acquired, Wake,
                Gate, Answer200, Store, limiting
  <1>6. ASSUME NEW c \in Calls,
               \/ Cancel(c) \/ AnswerRefused(c) \/ TransportError(c)
               \/ \E after \in RetryAfters \cup {NoHeader} : Answer503(c, after)
        PROVE  UNCHANGED <<bucket, until, cut>>
    BY <1>6 DEF Cancel, AnswerRefused, TransportError, Answer503, limiting
  <1>7. CASE UNCHANGED clientVars
    BY <1>7, <1>4 DEF clientVars, limiting
  <1>8. QED
    BY <1>1, <1>2, <1>3, <1>4, <1>5, <1>6, <1>7 DEF ClientNext, Mishap

\* rate_limit.py: after a 429 no process is handed a token of the bucket before the
\* longest penalty put on it is over, unless the EXPIRE of a later acquire, or of a
\* shorter penalty, gave its key less time than was left.
THEOREM PenaltyIsKept == ClientSpec => []PenaltyHolds
  <1>1. BInv => PenaltyHolds
    BY DEF BInv, UnderPenalty, PenaltyHolds
  <1>2. BInv /\ [ClientNext]_clientVars => BInv'
    BY StepBInv
  <1>3. QED
    BY <1>1, <1>2, InitBInv, PTL DEF ClientSpec

-----------------------------------------------------------------------------
(* The lease *)

\* Every call has a role.
Roles == DOMAIN call = Calls /\ \A c \in Calls : "role" \in DOMAIN call[c]

\* A lease is owned while it has time left, and who leads owns it unless one ran
\* out.
LeaseIsLeaders ==
    /\ lease \in [owner : Calls \cup {NoCall}, left : Nat]
    /\ lease.owner # NoCall => lease.left >= 1
    /\ ranOut \in BOOLEAN
    /\ ~ranOut => \A c \in Calls : call[c].role = "leader" => lease.owner = c

LInv == Roles /\ LeaseIsLeaders

LEMMA InitLInv == ClientInit => LInv
  <1> SUFFICES ASSUME ClientInit PROVE LInv
    OBVIOUS
  <1>1. DOMAIN call = Calls
    BY DEF ClientInit
  <1>2. ASSUME NEW c \in Calls PROVE "role" \in DOMAIN call[c] /\ call[c].role = "none"
    BY DEF ClientInit
  <1>3. lease \in [owner : Calls \cup {NoCall}, left : Nat] /\ lease.owner = NoCall
    BY DEF ClientInit, NoLease
  <1>4. ranOut \in BOOLEAN
    BY DEF ClientInit
  <1>5. QED
    BY <1>1, <1>2, <1>3, <1>4 DEF LInv, Roles, LeaseIsLeaders

\* A step after which nobody leads who did not lead before keeps the invariant.
LEMMA NobodyNewLeads ==
    ASSUME LInv, Roles', UNCHANGED <<lease, ranOut>>,
           \A c \in Calls : call'[c].role = "leader" => call[c].role = "leader"
    PROVE  LInv'
  BY DEF LInv, LeaseIsLeaders

LEMMA StepLInv == LInv /\ [ClientNext]_clientVars => LInv'
  <1> SUFFICES ASSUME LInv, [ClientNext]_clientVars PROVE LInv'
    OBVIOUS
  <1> USE AtAssumption, BucketsAssumption, TimesAssumption
  <1> DEFINE Kept == LInv' \/ (Roles' /\ UNCHANGED <<lease, ranOut>>
                      /\ \A c \in Calls : call'[c].role = "leader" => call[c].role = "leader")
  <1>1. ASSUME NEW c \in Calls, Start(c) \/ Look(c) \/ Poll(c) \/ Check(c) PROVE Kept
    BY <1>1 DEF Start, Look, Poll, Check, PollsAgain, Loads, Goto, Ends, Registers, Applicable,
                coalescing, limiting, LInv, Roles
  <1>2. ASSUME NEW c \in Calls, Claim(c) \/ Reclaim(c) PROVE LInv'
    <2>1. CASE TakesLease(c)
      BY <1>2, <2>1 DEF Claim, Reclaim, TakesLease, Leaseable, Loads, Applicable, limiting,
                        LInv, Roles, LeaseIsLeaders
    <2>2. CASE ~Leaseable /\ UNCHANGED lease
      BY <1>2, <2>2, NobodyNewLeads
         DEF Claim, Reclaim, TakesLease, PollsAgain, Loads, Applicable, limiting, LInv, Roles
    <2>3. QED
      BY <1>2, <2>1, <2>2 DEF Claim, Reclaim
  <1>3. ASSUME NEW c \in Calls, Finish(c) PROVE LInv'
    <2> USE DEF LInv, Roles, LeaseIsLeaders
    <2>1. DOMAIN call' = Calls
      BY <1>3 DEF Finish
    <2>2. ASSUME NEW d \in Calls
          PROVE  /\ "role" \in DOMAIN call'[d]
                 /\ call'[d].role = "leader" => d # c /\ call[d].role = "leader"
      <3>1. CASE d = c \/ d \in Waiting(c)
        <4>1. call'[d] = [call[d] EXCEPT !.pc = "done", !.result = call[c].result, !.role = "none"]
          BY <1>3, <3>1 DEF Finish
        <4>2. QED
          BY <4>1
      <3>2. CASE ~(d = c \/ d \in Waiting(c))
        BY <1>3, <3>2 DEF Finish
      <3>3. QED
        BY <3>1, <3>2
    <2>3. ranOut' = ranOut /\ lease' = IF call[c].role = "leader" THEN NoLease ELSE lease
      BY <1>3 DEF Finish, Dropped, limiting
    <2>4. lease' \in [owner : Calls \cup {NoCall}, left : Nat]
          /\ (lease'.owner # NoCall => lease'.left >= 1)
      BY <2>3 DEF NoLease
    <2>5. QED
      BY <2>1, <2>2, <2>3, <2>4
  <1>4. ASSUME NEW c \in Calls, TryBucket(c) PROVE Kept
    BY <1>4 DEF TryBucket, coalescing, LInv, Roles
  <1>5. ASSUME NEW c \in Calls, Acquired(c) \/ Wake(c) \/ Gate(c) PROVE Kept
    BY <1>5 DEF Acquired, Wake, Gate, Goto, Ends, Applicable, Smaller, coalescing, limiting,
                LInv, Roles
  <1>6. ASSUME NEW c \in Calls, Answer200(c) \/ AnswerRefused(c) \/ Store(c) PROVE Kept
    BY <1>6 DEF Answer200, AnswerRefused, Store, Goto, Ends, coalescing, limiting, LInv, Roles
  <1>7. ASSUME NEW c \in Calls, Cancel(c) PROVE Kept
    <2>1. UNCHANGED <<lease, ranOut>>
      BY <1>7 DEF Cancel, limiting
    <2>2. CASE call[c].pc = "joined"
      <3>1. call' = [d \in Calls |-> IF d \in Waiting(c)
                       THEN [call[d] EXCEPT !.pc = "done", !.result = "cancelled"]
                       ELSE call[d]]
        BY <1>7, <2>2 DEF Cancel
      <3>2. QED
        BY <2>1, <3>1 DEF LInv, Roles
    <2>3. CASE call[c].pc # "joined"
      BY <1>7, <2>1, <2>3 DEF Cancel, Ends, LInv, Roles
    <2>4. QED
      BY <2>2, <2>3
  <1>8. ASSUME NEW c \in Calls, NEW after \in RetryAfters \cup {NoHeader}, RetriesAfter(c, after)
        PROVE  /\ Roles'
               /\ \A d \in Calls : call'[d].role = "leader" => call[d].role = "leader"
    BY <1>8 DEF RetriesAfter, Ends, LInv, Roles
  <1>9. ASSUME NEW c \in Calls, NEW after \in RetryAfters \cup {NoHeader},
               \/ TransportError(c) \/ Answer503(c, after)
               \/ \E type \in {"service", "application", "method"}, deaf \in SUBSET Buckets :
                    Answer429(c, type, after, deaf)
        PROVE  Kept
    BY <1>8, <1>9 DEF TransportError, Answer503, Answer429, coalescing, limiting
  <1>10. CASE Tick
    <2> USE DEF LInv, Roles, LeaseIsLeaders
    <2>1. DOMAIN call' = Calls
      BY <1>10 DEF Tick
    <2>2. ASSUME NEW c \in Calls
          PROVE  "role" \in DOMAIN call'[c] /\ call'[c].role = call[c].role
      <3>1. call'[c] = call[c] \/ call'[c] = [call[c] EXCEPT !.wait = Less(@)]
        BY <1>10 DEF Tick
      <3>2. QED
        BY <3>1
    <2>3. /\ lease' \in [owner : Calls \cup {NoCall}, left : Nat]
          /\ lease'.owner # NoCall => lease'.left >= 1
          /\ ranOut' \in BOOLEAN
          /\ ~ranOut' => ~ranOut /\ lease'.owner = lease.owner
      <3>0. /\ ranOut' = (ranOut \/ lease.left = 1)
            /\ lease' = IF lease.left <= 1 THEN NoLease ELSE [lease EXCEPT !.left = @ - 1]
        BY <1>10 DEF Tick
      <3>1. CASE lease.left = 1
        <4>1. ranOut' = TRUE
          BY <3>0, <3>1
        <4>2. lease' = NoLease
          BY <3>0, <3>1
        <4>3. QED
          BY <4>1, <4>2 DEF NoLease
      <3>2. CASE lease.left # 1
        <4>1. ranOut' = ranOut
          BY <3>0, <3>2
        <4>2. CASE lease.left = 0
          <5>1. lease' = NoLease
            BY <3>0, <4>2
          <5>2. QED
            BY <4>1, <4>2, <5>1 DEF NoLease
        <4>3. CASE lease.left > 1
          <5>1. lease' = [lease EXCEPT !.left = @ - 1]
            BY <3>0, <4>3
          <5>2. QED
            BY <4>1, <4>3, <5>1
        <4>4. QED
          BY <3>2, <4>2, <4>3
      <3>3. QED
        BY <3>1, <3>2
    <2>4. QED
      BY <2>1, <2>2, <2>3
  <1>11. CASE UNCHANGED clientVars
    BY <1>11 DEF clientVars, coalescing, limiting, LInv, Roles, LeaseIsLeaders
  <1>12. Kept => LInv'
    BY NobodyNewLeads
  <1>13. QED
    BY <1>1, <1>2, <1>3, <1>4, <1>5, <1>6, <1>7, <1>9, <1>10, <1>11, <1>12 DEF ClientNext, ClientStep, Mishap

\* coalesce.py: however many processes ask for one match, one leader at a time
\* loads it as long as no lease ran out.
THEOREM OneLeaderLoads == ClientSpec => []OneLeader
  <1>1. LInv => OneLeader
    BY DEF LInv, LeaseIsLeaders, OneLeader
  <1>2. QED
    BY <1>1, InitLInv, StepLInv, PTL DEF ClientSpec
=============================================================================
