-------------------------- MODULE Discovery_proofs --------------------------
(***************************************************************************)
(* Proofs about Discovery for any players, matches, batch sizes and number *)
(* of failures.  A claim in SEEN_MATCHES_ZSET is always accounted for: the *)
(* strengthening says that a tick that is not about to push, or to settle  *)
(* what it pushed, has nothing in its hand.  The rotation of the sweep     *)
(* skips nobody: the strengthening says what a page leaves for later.  And *)
(* an outage heals: what the scan of it has passed is held by somebody or  *)
(* left out.                                                               *)
(***************************************************************************)
EXTENDS Discovery, FiniteSetTheorems, WellFoundedInduction, TLAPS

Types ==
    /\ ended \in 0 .. N /\ seen \subseteq Matches
    /\ job \in [Matches -> {"none", "priority", "standard"}]
    /\ beat \in Nat /\ window \in Nat \cup {NoWindow}
    /\ "since" \in DOMAIN scan /\ scan.since \in Nat
    /\ hand \in [Slots -> SUBSET Matches] /\ DOMAIN pc = Slots

\* The hand of a tick is filled by its claims and emptied by the release.
EmptyHanded == \A w \in Slots : pc[w] \notin {"push", "end"} => hand[w] = {}

IInv == Types /\ EmptyHanded /\ ClaimsAreLeases

\* Who has a match, one by one.
Has(m) ==
    \/ \E w \in Slots : m \in hand[w]
    \/ m \in done \/ m \in stuck
    \/ m \in Matches /\ job[m] # "none"

LEMMA AccountedIsHas == ClaimsAreLeases <=> \A m \in seen : Has(m)
  BY DEF ClaimsAreLeases, Accounted, InHand, Queued, Has

LEMMA AccountedIsHasNext == ClaimsAreLeases' <=> \A m \in seen' : Has(m)'
  BY DEF ClaimsAreLeases, Accounted, InHand, Queued, Has

LEMMA InitIInv == Init => IInv
  <1> SUFFICES ASSUME Init PROVE IInv
    OBVIOUS
  <1>1. Types
    BY LobbyAssumption DEF Init, Types, NoScan
  <1>2. EmptyHanded
    BY DEF Init, EmptyHanded
  <1>3. ClaimsAreLeases
    BY DEF Init, ClaimsAreLeases
  <1>4. QED
    BY <1>1, <1>2, <1>3 DEF IInv

\* A step that touches neither the claims nor whoever has them, and moves only
\* ticks whose hand is empty or stays as far as it was.
LEMMA NothingMoves ==
    ASSUME IInv, Types', UNCHANGED <<seen, job, done, stuck, hand>>,
           \A w \in Slots : pc'[w] = pc[w] \/ hand[w] = {}
    PROVE  IInv'
  <1>1. EmptyHanded'
    BY DEF IInv, EmptyHanded
  <1>2. ClaimsAreLeases'
    BY AccountedIsHas, AccountedIsHasNext DEF IInv, Has
  <1>3. QED
    BY <1>1, <1>2 DEF IInv

\* The beginnings of the ticks.
LEMMA Starts ==
    ASSUME IInv,
           \/ SweepReads \/ SweepAdvances \/ PriorityStarts \/ RecentStarts
           \/ PollStarts \/ PollHolds \/ ScanStarts \/ ScanPages
           \/ \E S \in SUBSET Players : RearmStarts(S)
    PROVE  IInv'
  <1>1. UNCHANGED <<seen, job, done, stuck, hand, ended, beat>>
    BY DEF SweepReads, SweepAdvances, PriorityStarts, RecentStarts, PollStarts, PollHolds,
           ScanStarts, ScanPages, RearmStarts, LookupStarts, CloseWindow, world, outage,
           history, tick
  <1>2. /\ window' \in Nat \cup {NoWindow}
        /\ "since" \in DOMAIN scan' /\ scan'.since \in Nat
    BY DEF SweepReads, SweepAdvances, PriorityStarts, RecentStarts, PollStarts, PollHolds,
           ScanStarts, ScanPages, RearmStarts, LookupStarts, CloseWindow, outage, tick,
           NoScan, IInv, Types
  <1>3. DOMAIN pc' = Slots /\ \A w \in Slots : pc'[w] = pc[w] \/ hand[w] = {}
    BY DEF SweepReads, SweepAdvances, PriorityStarts, RecentStarts, PollStarts, PollHolds,
           ScanStarts, ScanPages, RearmStarts, LookupStarts, CloseWindow, Goto, Idle, tick,
           IInv, Types, EmptyHanded
  <1>4. Types'
    BY <1>1, <1>2, <1>3 DEF IInv, Types
  <1>5. QED
    BY <1>1, <1>3, <1>4, NothingMoves

LEMMA ListedAreMatches ==
    ASSUME IInv, NEW w \in Slots, NEW p
    PROVE  Asked(w, p) \subseteq Matches
  <1>1. ASSUME NEW k, NEW from \in Nat PROVE ListMatchIds(p, k, from) \subseteq Matches
    BY LobbyAssumption DEF ListMatchIds, Matches, IInv, Types
  <1>2. QED
    BY <1>1 DEF Asked, IInv, Types

\* _dedup_new: what is claimed is in the hand of the tick that claimed it.
LEMMA Fetches ==
    ASSUME IInv, NEW w \in Slots, pc[w] = "list", NEW S, NEW F, NEW E, Fetch(w, S, F, E)
    PROVE  IInv'
  <1> DEFINE ids == UNION {Asked(w, p) : p \in S \ F}
             mine == Unclaimed(ids) \ E
  <1>1. ids \subseteq Matches /\ mine \subseteq Matches
    BY ListedAreMatches DEF Unclaimed
  <1>2. UNCHANGED <<job, done, stuck, ended, beat, window, scan>> /\ pc' = [pc EXCEPT ![w] = "push"]
    BY DEF Fetch, Goto, world, outage
  <1>3. \/ hand' = [hand EXCEPT ![w] = ids] /\ seen' = seen
        \/ hand' = [hand EXCEPT ![w] = mine] /\ seen' = seen \cup mine
    BY DEF Fetch
  <1>4. Types'
    BY <1>1, <1>2, <1>3 DEF IInv, Types
  <1>5. EmptyHanded'
    BY <1>2, <1>3 DEF IInv, Types, EmptyHanded
  <1>6. hand[w] = {}
    BY DEF IInv, EmptyHanded
  <1>7. ClaimsAreLeases'
    <2>1. ASSUME NEW m \in seen PROVE Has(m)'
      <3>1. Has(m)
        BY AccountedIsHas DEF IInv
      <3>2. QED
        BY <1>2, <1>3, <1>6, <3>1 DEF Has, IInv, Types
    <2>2. ASSUME NEW m \in mine, hand' = [hand EXCEPT ![w] = mine] PROVE Has(m)'
      BY <2>2 DEF Has, IInv, Types
    <2>3. QED
      BY <1>3, <2>1, <2>2, AccountedIsHasNext
  <1>8. QED
    BY <1>4, <1>5, <1>7 DEF IInv

\* What is pushed is queued, what is not stays in the hand.
LEMMA Pushes ==
    ASSUME IInv, NEW w \in Slots, NEW F, Push(w, F)
    PROVE  IInv'
  <1>1. UNCHANGED <<seen, done, stuck, ended, beat, window, scan>>
    BY DEF Push, world, outage, history
  <1>2. /\ pc[w] = "push" /\ pc' = [pc EXCEPT ![w] = "end"]
        /\ F \subseteq hand[w] /\ hand' = [hand EXCEPT ![w] = F]
    BY DEF Push, Goto
  <1>3. Queue(w) \in {"priority", "standard"}
    BY DEF Queue
  <1>4. job' = [m \in Matches |-> IF m \in hand[w] \ F /\ job[m] = "none" THEN Queue(w) ELSE job[m]]
    BY DEF Push, EnqueueJobs
  <1>5. Types'
    BY <1>1, <1>2, <1>3, <1>4 DEF IInv, Types
  <1>6. EmptyHanded'
    BY <1>2 DEF IInv, Types, EmptyHanded
  <1>7. ASSUME NEW m \in seen PROVE Has(m)'
    <2>1. Has(m) /\ m \in Matches
      BY AccountedIsHas DEF IInv, Types
    <2>2. CASE m \in hand[w] \ F
      BY <1>3, <1>4, <2>1, <2>2 DEF Has
    <2>3. CASE m \notin hand[w] \ F
      BY <1>1, <1>2, <1>4, <2>1, <2>3 DEF Has, IInv, Types
    <2>4. QED
      BY <2>2, <2>3
  <1>8. QED
    BY <1>1, <1>5, <1>6, <1>7, AccountedIsHasNext DEF IInv

\* _release_seen: the claims of the hand go, or a failure is on record.
LEMMA Settles ==
    ASSUME IInv, NEW w \in Slots, Types',
           UNCHANGED <<job, done>>, hand' = [hand EXCEPT ![w] = {}],
           \A v \in Slots : v # w => pc'[v] = pc[v],
           \/ seen' = seen \ hand[w] /\ stuck' = stuck
           \/ seen' = seen /\ hand[w] \cap seen \subseteq stuck' /\ stuck \subseteq stuck'
    PROVE  IInv'
  <1>1. EmptyHanded'
    BY DEF IInv, Types, EmptyHanded
  <1>2. ASSUME NEW m \in seen' PROVE Has(m)'
    <2>1. m \in seen /\ Has(m)
      BY <1>2, AccountedIsHas DEF IInv
    <2>2. CASE m \in hand[w]
      BY <1>2, <2>1, <2>2 DEF Has
    <2>3. CASE m \notin hand[w]
      BY <2>1, <2>3 DEF Has, IInv, Types
    <2>4. QED
      BY <2>2, <2>3
  <1>3. QED
    BY <1>1, <1>2, AccountedIsHasNext DEF IInv

\* The ends of the ticks.
LEMMA Ends ==
    ASSUME IInv, NEW w \in Slots,
           \/ EndTick(w)
           \/ w = "rearm" /\ RearmSettles
           \/ w = "scan" /\ ScanTurns
           \/ Cut(w)
    PROVE  IInv'
  <1>1. UNCHANGED <<job, done, ended, beat>>
    BY DEF EndTick, RearmSettles, ScanTurns, Cut, world, outage
  <1>2. hand' = [hand EXCEPT ![w] = {}]
    BY DEF EndTick, RearmSettles, ScanTurns, Cut, Releases
  <1>3. DOMAIN pc' = Slots /\ \A v \in Slots : v # w => pc'[v] = pc[v]
    BY DEF EndTick, RearmSettles, ScanTurns, Cut, CloseWindow, Goto, IInv, Types
  <1>4. \/ seen' = seen \ hand[w] /\ stuck' = stuck
        \/ seen' = seen /\ hand[w] \cap seen \subseteq stuck' /\ stuck \subseteq stuck'
    BY DEF EndTick, RearmSettles, ScanTurns, Cut, Releases, Released
  <1>5. /\ window' \in Nat \cup {NoWindow}
        /\ "since" \in DOMAIN scan' /\ scan'.since \in Nat
    BY DEF EndTick, RearmSettles, ScanTurns, Cut, CloseWindow, NoScan, outage, IInv, Types
  <1>6. Types'
    BY <1>1, <1>2, <1>3, <1>4, <1>5 DEF IInv, Types
  <1>7. QED
    BY <1>1, <1>2, <1>3, <1>4, <1>6, Settles

LEMMA StepIInv == IInv /\ [Next]_vars => IInv'
  <1> SUFFICES ASSUME IInv, [Next]_vars PROVE IInv'
    OBVIOUS
  <1>1. ASSUME NEW m \in Matches, Process(m) PROVE IInv'
    <2>1. UNCHANGED <<ended, seen, beat, window, tick, stuck>>
      BY <1>1 DEF Process, outage, history
    <2>2. job' = [job EXCEPT ![m] = "none"] /\ done' = done \cup {m}
      BY <1>1 DEF Process
    <2>3. Types' /\ EmptyHanded'
      BY <2>1, <2>2 DEF tick, IInv, Types, EmptyHanded
    <2>4. ASSUME NEW k \in seen PROVE Has(k)'
      <3>1. Has(k)
        BY AccountedIsHas DEF IInv
      <3>2. QED
        BY <2>1, <2>2, <3>1 DEF Has, tick, IInv, Types
    <2>5. QED
      BY <2>1, <2>3, <2>4, AccountedIsHasNext DEF IInv
  <1>2. ASSUME NEW m \in Matches, Exhaust(m) PROVE IInv'
    <2>1. UNCHANGED <<ended, done, seen, beat, window, tick>>
      BY <1>2 DEF Exhaust, world, outage
    <2>2. job' = [job EXCEPT ![m] = "none"] /\ stuck' = stuck \cup {m}
      BY <1>2 DEF Exhaust
    <2>3. Types' /\ EmptyHanded'
      BY <2>1, <2>2 DEF tick, IInv, Types, EmptyHanded
    <2>4. ASSUME NEW k \in seen PROVE Has(k)'
      <3>1. Has(k)
        BY AccountedIsHas DEF IInv
      <3>2. QED
        BY <2>1, <2>2, <3>1 DEF Has, tick, IInv, Types
    <2>5. QED
      BY <2>1, <2>3, <2>4, AccountedIsHasNext DEF IInv
  <1>3. ASSUME NEW m \in Matches, AgeOut(m) PROVE IInv'
    <2>1. UNCHANGED <<ended, done, job, beat, window, tick, stuck>> /\ seen' \subseteq seen
      BY <1>3 DEF AgeOut, Aged, world, outage, history
    <2>2. Types' /\ EmptyHanded'
      BY <2>1 DEF tick, IInv, Types, EmptyHanded
    <2>3. ASSUME NEW k \in seen' PROVE Has(k)'
      BY <2>1, <2>3, AccountedIsHas DEF Has, tick, IInv
    <2>4. QED
      BY <2>2, <2>3, AccountedIsHasNext DEF IInv
  <1>4. ASSUME Play \/ Heartbeat \/ UNCHANGED vars PROVE IInv'
    <2>1. UNCHANGED <<seen, job, done, stuck, tick>>
      BY <1>4 DEF Play, Heartbeat, vars, world, history
    <2>2. ended \in 0 .. N /\ N \in Nat /\ beat \in Nat
      BY LobbyAssumption DEF IInv, Types
    <2>3. ended' \in 0 .. N /\ beat' \in Nat
      <3>1. CASE Play
        <4>1. ended < N /\ ended' = ended + 1 /\ beat' = beat
          BY <3>1 DEF Play, outage
        <4>2. QED
          BY <2>2, <4>1
      <3>2. CASE Heartbeat
        BY <2>2, <3>2 DEF Heartbeat, world
      <3>3. CASE UNCHANGED vars
        BY <2>2, <3>3 DEF vars, world, outage
      <3>4. QED
        BY <1>4, <3>1, <3>2, <3>3
    <2>4. window' \in Nat \cup {NoWindow}
      <3>1. CASE Heartbeat
        <4>1. window' = window \/ window' = IF window = NoWindow THEN Since ELSE window
          <5>1. window' = window \/ OpenWindow(Since)
            BY <3>1 DEF Heartbeat
          <5>2. QED
            BY <5>1 DEF OpenWindow
        <4>2. Since \in Nat
          <5>1. ended \in Nat /\ beat \in Nat /\ MaxGap \in Nat
            BY <2>2, NumbersAssumption
          <5>2. QED
            BY <5>1 DEF Since
        <4>3. QED
          BY <4>1, <4>2 DEF IInv, Types
      <3>2. CASE Play \/ UNCHANGED vars
        BY <3>2 DEF Play, vars, outage, IInv, Types
      <3>3. QED
        BY <1>4, <3>1, <3>2
    <2>5. Types'
      BY <2>1, <2>3, <2>4 DEF tick, IInv, Types
    <2>6. QED
      BY <2>1, <2>5, NothingMoves DEF tick
  <1>5. ASSUME NEW w \in Slots, NEW F, NEW E, FetchBatch(w, F, E) PROVE IInv'
    BY <1>5, Fetches DEF FetchBatch
  <1>6. ASSUME NEW p, NEW F, NEW E, RearmFetches(p, F, E) PROVE IInv'
    BY <1>6, Fetches DEF RearmFetches, Slots
  <1>7. ASSUME NEW w \in Slots, NEW F, Push(w, F) PROVE IInv'
    BY <1>7, Pushes
  <1>8. ASSUME NEW w \in Slots, EndTick(w) \/ Cut(w) PROVE IInv'
    BY <1>8, Ends
  <1>9. ASSUME RearmSettles \/ ScanTurns PROVE IInv'
    BY <1>9, Ends DEF Slots
  <1>10. ASSUME NEW w \in Slots, Progress(w) PROVE IInv'
    BY <1>5, <1>6, <1>7, <1>8, <1>9, <1>10, Starts DEF Progress
  <1>11. ASSUME Mishap PROVE IInv'
    BY <1>2, <1>5, <1>6, <1>7, <1>8, <1>11 DEF Mishap
  <1>12. QED
    BY <1>1, <1>3, <1>4, <1>10, <1>11, Starts DEF Next

\* sweep.py, ingestion.py: an id in the seen set is in the hand of a tick, in a
\* queue or processed, or a failure is on record that left it behind.
THEOREM ClaimsAreAccountedFor == Spec => []ClaimsAreLeases
  <1>1. IInv => ClaimsAreLeases
    BY DEF IInv
  <1>2. QED
    BY <1>1, InitIInv, StepIInv, PTL DEF Spec

-----------------------------------------------------------------------------
(* The keyset pages of a rotation. *)

\* A set of numbers has a least one.
LEMMA Least ==
    ASSUME NEW S \in SUBSET Nat, S # {}
    PROVE  \E x \in S : \A y \in S : x <= y
  <1>1. PICK x \in S : \A y \in S : ~(<<y, x>> \in OpToRel(<, Nat))
    BY NatLessThanWellFounded, WFMin
  <1>2. ASSUME NEW y \in S, y < x PROVE FALSE
    <2>1. <<y, x>> \in Nat \X Nat
      OBVIOUS
    <2>2. <<y, x>> \in OpToRel(<, Nat)
      BY <1>2, <2>1 DEF OpToRel
    <2>3. QED
      BY <1>1, <2>2
  <1>3. QED
    BY <1>2

Below(X, p) == {q \in X : q < p}

LEMMA BelowIsFinite ==
    ASSUME NEW X, IsFiniteSet(X), NEW p
    PROVE  /\ IsFiniteSet(Below(X, p)) /\ Cardinality(Below(X, p)) \in Nat
           /\ Cardinality(Below(X, p)) <= Cardinality(X)
  <1>1. Below(X, p) \in SUBSET X
    BY DEF Below
  <1>2. QED
    BY <1>1, FS_Subset, FS_CardinalityType

\* A finite set of numbers has a greatest one: the one with the most below it.
LEMMA Greatest ==
    ASSUME NEW B \in SUBSET Nat, IsFiniteSet(B), B # {}
    PROVE  \E b \in B : \A q \in B : q <= b
  <1> DEFINE rest(b) == Cardinality(B) - Cardinality(Below(B, b))
             above == {rest(b) : b \in B}
  <1>1. \A b \in B : rest(b) \in Nat
    BY BelowIsFinite, FS_CardinalityType
  <1>2. above \in SUBSET Nat /\ above # {}
    BY <1>1
  <1>3. PICK n \in above : \A m \in above : n <= m
    <2> HIDE DEF above
    <2>1. QED
      BY <1>2, Least
  <1>4. PICK b \in B : n = rest(b)
    OBVIOUS
  <1>5. ASSUME NEW q \in B, q > b PROVE FALSE
    <2>1. Below(B, b) \cup {b} \in SUBSET Below(B, q)
      <3>1. ASSUME NEW r \in Below(B, b) \cup {b} PROVE r \in Below(B, q)
        <4>1. r \in B /\ r \in Nat /\ b \in Nat /\ q \in Nat /\ (r < b \/ r = b)
          BY <3>1 DEF Below
        <4>2. QED
          BY <1>5, <4>1 DEF Below
      <3>2. QED
        BY <3>1
    <2>2. Cardinality(Below(B, b) \cup {b}) = Cardinality(Below(B, b)) + 1
      <3>1. b \notin Below(B, b)
        BY DEF Below
      <3>2. QED
        BY <3>1, BelowIsFinite, FS_AddElement
    <2>3. Cardinality(Below(B, b)) + 1 <= Cardinality(Below(B, q))
      BY <2>1, <2>2, BelowIsFinite, FS_Subset
    <2>4. rest(b) <= rest(q)
      BY <1>3, <1>4
    <2>5. QED
      BY <2>3, <2>4, BelowIsFinite, FS_CardinalityType
  <1>6. QED
    BY <1>5

\* B is the page LIMIT n takes of X in the order of the numbers.
IsPageOf(B, X, n) ==
    B \subseteq X /\ \A p \in X : p \in B <=> Cardinality(Below(X, p)) < n

IsBeginning(B, X, n) ==
    /\ IsFiniteSet(B) /\ Cardinality(B) <= n
    /\ \A b \in B, p \in X \ B : p > b
    /\ Cardinality(B) < n => B = X

\* A page is the beginning of what it is taken from, and all of it unless full.
LEMMA PageIsBeginning ==
    ASSUME NEW X \in SUBSET Nat, IsFiniteSet(X), NEW n \in Nat \ {0}, NEW B, IsPageOf(B, X, n)
    PROVE  IsBeginning(B, X, n)
  <1> USE DEF IsPageOf
  <1>1. IsFiniteSet(B) /\ Cardinality(B) \in Nat
    BY FS_Subset, FS_CardinalityType
  <1>2. \A p \in X : Cardinality(Below(X, p)) \in Nat
    BY BelowIsFinite
  <1>3. ASSUME NEW b \in B, NEW p \in X \ B, p < b PROVE FALSE
    <2>1. Below(X, p) \in SUBSET Below(X, b)
      <3>1. ASSUME NEW r \in Below(X, p) PROVE r \in Below(X, b)
        <4>1. r \in X /\ r \in Nat /\ b \in Nat /\ p \in Nat /\ r < p
          BY <3>1 DEF Below
        <4>2. QED
          BY <1>3, <4>1 DEF Below
      <3>2. QED
        BY <3>1
    <2>2. Cardinality(Below(X, p)) <= Cardinality(Below(X, b))
      BY <2>1, BelowIsFinite, FS_Subset
    <2>3. QED
      BY <1>2, <2>2
  <1>4. Cardinality(B) <= n
    <2>1. CASE B = {}
      BY <2>1, FS_EmptySet
    <2>2. CASE B # {}
      <3>1. PICK b \in B : \A q \in B : q <= b
        BY <1>1, <2>2, Greatest
      <3>2. B \ {b} \in SUBSET Below(X, b)
        <4>1. ASSUME NEW r \in B \ {b} PROVE r \in Below(X, b)
          <5>1. r \in X /\ r \in Nat /\ b \in Nat /\ r <= b /\ r # b
            BY <3>1
          <5>2. QED
            BY <5>1 DEF Below
        <4>2. QED
          BY <4>1
      <3>3. Cardinality(B \ {b}) <= Cardinality(Below(X, b))
        BY <3>2, BelowIsFinite, FS_Subset
      <3>4. Cardinality(B \ {b}) = Cardinality(B) - 1
        BY <1>1, FS_RemoveElement
      <3>5. QED
        BY <1>1, <1>2, <3>3, <3>4
    <2>3. QED
      BY <2>1, <2>2
  <1>5. ASSUME Cardinality(B) < n, X \ B # {} PROVE FALSE
    <2>1. PICK p \in X \ B : \A q \in X \ B : p <= q
      BY <1>5, Least
    <2>2. Below(X, p) \in SUBSET B
      <3>1. ASSUME NEW r \in Below(X, p), r \notin B PROVE FALSE
        <4>1. r \in X \ B /\ r \in Nat /\ p \in Nat /\ r < p
          BY <3>1 DEF Below
        <4>2. QED
          BY <2>1, <4>1
      <3>2. QED
        BY <3>1 DEF Below
    <2>3. Cardinality(Below(X, p)) <= Cardinality(B)
      BY <1>1, <2>2, FS_Subset
    <2>4. QED
      BY <1>1, <1>2, <1>5, <2>3
  <1>6. \A b \in B, p \in X \ B : p > b
    BY <1>3
  <1>7. QED
    BY <1>1, <1>4, <1>5, <1>6 DEF IsBeginning

\* The page a sweep is about to leave: what it leaves out lies beyond it.
PageInv ==
    LET B == batch["sweep"] IN
    pc["sweep"] = "advance" =>
        /\ B \subseteq Players /\ IsFiniteSet(B) /\ Cardinality(B) <= SweepBatch
        /\ \A b \in B, p \in unswept \ B : p > b
        /\ Cardinality(B) < SweepBatch => unswept \subseteq B

RInv ==
    /\ tracked \subseteq Players /\ unswept \subseteq tracked
    /\ cursor \in Nat /\ \A p \in unswept : p > cursor
    /\ DOMAIN pc = Slots /\ DOMAIN batch = Slots
    /\ PageInv

LEMMA InitRInv == Init => RInv
  BY PlayersAssumption, TrackedAssumption DEF Init, RInv, PageInv, Slots

\* The players a sweep has still to visit, and the next page of them.
Ahead == {p \in tracked : p > cursor}
Page == TrackedAfter(cursor, SweepBatch)

LEMMA PageAfter ==
    ASSUME tracked \subseteq Players, NEW c \in Nat, NEW n \in Nat \ {0}
    PROVE  /\ TrackedAfter(c, n) \subseteq {p \in tracked : p > c}
           /\ IsBeginning(TrackedAfter(c, n), {p \in tracked : p > c}, n)
  <1> DEFINE X == {p \in tracked : p > c}
  <1>1. X \in SUBSET Nat /\ IsFiniteSet(X)
    BY PlayersAssumption, FS_Subset
  <1>2. \A p : {q \in tracked : c < q /\ q < p} = Below(X, p)
    BY PlayersAssumption DEF Below
  <1>3. TrackedAfter(c, n) \subseteq X
    BY PlayersAssumption DEF TrackedAfter
  <1>4. IsPageOf(TrackedAfter(c, n), X, n)
    BY <1>2, <1>3 DEF TrackedAfter, IsPageOf
  <1>5. QED
    BY <1>1, <1>3, <1>4, PageIsBeginning

LEMMA PageOfAhead ==
    ASSUME RInv
    PROVE  /\ IsFiniteSet(Page) /\ Page \subseteq Ahead /\ Cardinality(Page) <= SweepBatch
           /\ \A b \in Page, p \in Ahead \ Page : p > b
           /\ Cardinality(Page) < SweepBatch => Page = Ahead
  <1>1. SweepBatch \in Nat \ {0}
    BY NumbersAssumption
  <1>2. QED
    BY <1>1, PageAfter DEF RInv, Page, Ahead, IsBeginning

\* sweep_tick reads a page after the cursor.
LEMMA ReadsPage == ASSUME RInv, SweepReads PROVE RInv'
  <1>1. /\ UNCHANGED <<tracked, unswept, cursor>>
        /\ batch' = [batch EXCEPT !["sweep"] = Page]
        /\ pc' = [pc EXCEPT !["sweep"] = "advance"]
    BY DEF SweepReads, Takes, Goto, world, rotation, Page
  <1>2. unswept \subseteq Ahead /\ Ahead \subseteq Players
    BY PlayersAssumption DEF RInv, Ahead
  <1>3. batch'["sweep"] = Page /\ DOMAIN batch' = Slots /\ DOMAIN pc' = Slots
    BY <1>1 DEF RInv, Slots
  <1>4. PageInv'
    BY <1>1, <1>2, <1>3, PageOfAhead DEF PageInv
  <1>5. QED
    BY <1>1, <1>3, <1>4 DEF RInv

\* The cursor moves to the last of a full page, or back to the start.
LEMMA CursorMoves ==
    ASSUME RInv, SweepAdvances
    PROVE  RInv' /\ (cursor' = 0 => unswept \subseteq batch["sweep"])
  <1> DEFINE B == batch["sweep"]
  <1>1. /\ UNCHANGED <<tracked, batch>> /\ pc' = [pc EXCEPT !["sweep"] = "list"]
        /\ pc["sweep"] = "advance" /\ cursor' = NextCursor(B)
        /\ unswept' = IF cursor' = 0 THEN tracked ELSE unswept \ B
    BY DEF SweepAdvances, Goto, world
  <1>2. /\ B \subseteq Players /\ IsFiniteSet(B) /\ Cardinality(B) <= SweepBatch
        /\ \A b \in B, p \in unswept \ B : p > b
        /\ Cardinality(B) < SweepBatch => unswept \subseteq B
    BY <1>1 DEF RInv, PageInv
  <1>3. SweepBatch \in Nat \ {0} /\ Cardinality(B) \in Nat
    BY <1>2, NumbersAssumption, FS_CardinalityType
  <1>4. DOMAIN pc' = Slots /\ DOMAIN batch' = Slots /\ PageInv'
    BY <1>1 DEF RInv, PageInv, Slots
  <1>5. CASE Cardinality(B) = SweepBatch
    <2>1. B # {} /\ B \in SUBSET Nat
      BY <1>2, <1>3, <1>5, FS_EmptySet, PlayersAssumption
    <2>2. Last(B) \in B /\ \A q \in B : q <= Last(B)
      BY <1>2, <2>1, Greatest DEF Last
    <2>3. cursor' = Last(B) /\ cursor' \in Nat \ {0}
      BY <1>1, <1>2, <1>5, <2>2, PlayersAssumption DEF NextCursor
    <2>4. \A p \in unswept \ B : p > cursor'
      BY <1>2, <2>2, <2>3
    <2>5. QED
      BY <1>1, <1>4, <2>3, <2>4 DEF RInv
  <1>6. CASE Cardinality(B) # SweepBatch
    <2>1. cursor' = 0 /\ unswept' = tracked /\ unswept \subseteq B
      BY <1>1, <1>2, <1>3, <1>6 DEF NextCursor
    <2>2. QED
      BY <1>1, <1>4, <2>1, PlayersAssumption DEF RInv
  <1>7. QED
    BY <1>5, <1>6

\* Any other step leaves the rotation alone, and the page of a sweep that is
\* about to advance.
LEMMA OthersKeep ==
    ASSUME RInv, UNCHANGED rotation, tracked \subseteq tracked', tracked' \subseteq Players,
           DOMAIN pc' = Slots, DOMAIN batch' = Slots,
           pc'["sweep"] = "advance" => pc["sweep"] = "advance" /\ batch'["sweep"] = batch["sweep"]
    PROVE  RInv'
  BY DEF RInv, PageInv, rotation

LEMMA StepRInv ==
    RInv /\ [Next]_vars
        => RInv' /\ (SweepAdvances /\ cursor' = 0 => unswept \subseteq batch["sweep"])
  <1> SUFFICES ASSUME RInv, [Next]_vars
               PROVE  RInv' /\ (SweepAdvances /\ cursor' = 0 => unswept \subseteq batch["sweep"])
    OBVIOUS
  <1>1. SweepAdvances \/ SweepReads \/ ~(SweepAdvances \/ SweepReads)
    OBVIOUS
  <1>2. ASSUME NEW m \in Matches, Process(m) PROVE RInv'
    <2>1. UNCHANGED <<rotation, pc, batch>>
      BY <1>2 DEF Process, tick
    <2>2. tracked \subseteq tracked' /\ tracked' \subseteq Players
      BY <1>2, LobbyAssumption DEF Process, Matches, RInv
    <2>3. QED
      BY <2>1, <2>2, OthersKeep DEF RInv
  <1>3. ASSUME NEW m \in Matches, Exhaust(m) \/ AgeOut(m) PROVE RInv'
    BY <1>3, OthersKeep DEF Exhaust, AgeOut, tick, world, RInv
  <1>4. ASSUME Play \/ Heartbeat \/ PollHolds \/ UNCHANGED vars PROVE RInv'
    BY <1>4, OthersKeep DEF Play, Heartbeat, PollHolds, vars, tick, world, RInv
  <1>5. ASSUME NEW w \in Slots, NEW l, l # "advance", NEW S,
               UNCHANGED <<rotation, tracked>>,
               pc' = [pc EXCEPT ![w] = l],
               batch' = batch \/ batch' = [batch EXCEPT ![w] = S]
        PROVE  RInv'
    BY <1>5, OthersKeep DEF RInv, Slots
  <1>6. ASSUME \/ PriorityStarts \/ RecentStarts \/ PollStarts
               \/ \E S \in SUBSET Players : RearmStarts(S)
               \/ ScanStarts \/ ScanPages \/ ScanTurns
        PROVE  RInv'
    <2>1. UNCHANGED <<rotation, tracked>>
      BY <1>6 DEF PriorityStarts, RecentStarts, PollStarts, LookupStarts, RearmStarts,
                  ScanStarts, ScanPages, ScanTurns, world
    <2>2. \E w \in Slots : \E l, S :
             /\ l # "advance" /\ pc' = [pc EXCEPT ![w] = l]
             /\ batch' = batch \/ batch' = [batch EXCEPT ![w] = S]
      BY <1>6 DEF PriorityStarts, RecentStarts, PollStarts, LookupStarts, RearmStarts,
                  ScanStarts, ScanPages, ScanTurns, CloseWindow, Goto, Takes, Slots
    <2>3. QED
      BY <1>5, <2>1, <2>2
  <1>7. ASSUME NEW w \in Slots,
               \/ \E S, F, E : Fetch(w, S, F, E)
               \/ \E F : Push(w, F)
               \/ EndTick(w) \/ Cut(w)
        PROVE  RInv'
    <2>1. UNCHANGED <<rotation, tracked>>
      BY <1>7 DEF Fetch, Push, EndTick, Cut, world
    <2>2. \E l, S :
             /\ l # "advance" /\ pc' = [pc EXCEPT ![w] = l]
             /\ batch' = batch \/ batch' = [batch EXCEPT ![w] = S]
      BY <1>7 DEF Fetch, Push, EndTick, Cut, Goto, Takes
    <2>3. QED
      BY <1>5, <2>1, <2>2
  <1>8. ASSUME RearmSettles PROVE RInv'
    <2>1. UNCHANGED <<rotation, tracked>>
      BY <1>8 DEF RearmSettles, world
    <2> DEFINE S == batch["rearm"] \ {who.player}
               l == pc'["rearm"]
    <2>2. /\ l # "advance" /\ pc' = [pc EXCEPT !["rearm"] = l]
          /\ batch' = batch \/ batch' = [batch EXCEPT !["rearm"] = S]
      BY <1>8 DEF RearmSettles, Goto, Takes, RInv, Slots
    <2>3. QED
      BY <1>5, <2>1, <2>2 DEF Slots
  <1>9. ASSUME NEW w \in Slots, Progress(w), ~SweepReads, ~SweepAdvances PROVE RInv'
    BY <1>6, <1>7, <1>8, <1>9 DEF Progress, FetchBatch, RearmFetches, Slots
  <1>10. ASSUME Mishap PROVE RInv'
    BY <1>3, <1>7, <1>10 DEF Mishap, FetchBatch, RearmFetches, Slots
  <1>11. QED
    BY <1>1, <1>2, <1>3, <1>4, <1>6, <1>9, <1>10, ReadsPage, CursorMoves DEF Next

\* sweep.py: whenever the sweep comes back to the start it has handed out every
\* player that was tracked when the rotation began, whoever registered meanwhile.
THEOREM NobodySkipped == Spec => RotationSkipsNobody
  <1> DEFINE A == (SweepAdvances /\ cursor' = 0) => unswept \subseteq batch["sweep"]
  <1>1. RInv /\ [Next]_vars => RInv' /\ [A]_vars
    BY StepRInv
  <1>2. QED
    BY <1>1, InitRInv, PTL DEF Spec, RotationSkipsNobody

-----------------------------------------------------------------------------
(* An outage heals.  A tick that claims holds what it claimed until the claim *)
(* is a job, is given back or is on record as stuck, and no two ticks hold    *)
(* the same id; what the lookup takes without a claim is no help to a scan.   *)
(* A match the window owes is held, or was left out, or has a tracked player  *)
(* the scan has yet to come to.                                               *)

\* A tick that claims has the match in its hand.
Holds(m) == \E w \in Slots : ~Bypasses(w) /\ m \in hand[w]

Keeps(m) == Holds(m) \/ m \in done \/ m \in stuck \/ (m \in Matches /\ job[m] # "none")

LInv ==
    /\ \A w \in Slots : ~Bypasses(w) => hand[w] \subseteq seen
    /\ \A v, w \in Slots :
         v # w /\ ~Bypasses(v) /\ ~Bypasses(w) => hand[v] \cap hand[w] = {}
    /\ \A m \in seen : Keeps(m)
    /\ pc["lookup"] = "end" /\ Bypasses("lookup") => hand["lookup"] = {}

Safe(m) == Keeps(m) \/ m \in missed

LEMMA InitLInv == Init => LInv
  BY DEF Init, LInv, Bypasses, Slots

\* A step that leaves the claims and the hands alone.
LEMMA QuietKeeps ==
    ASSUME IInv, LInv, UNCHANGED <<seen, job, done, stuck, hand>>,
           lane' = lane \/ hand["lookup"] = {},
           pc'["lookup"] = "end" => pc["lookup"] = "end" \/ hand["lookup"] = {}
    PROVE  LInv' /\ \A m : Keeps(m) => Keeps(m)'
  <1>1. \A w \in Slots : (Bypasses(w)' <=> Bypasses(w)) \/ hand[w] = {}
    BY DEF Bypasses
  <1>2. ASSUME NEW m, Keeps(m) PROVE Keeps(m)'
    BY <1>1, <1>2 DEF Keeps, Holds
  <1>3. QED
    BY <1>1, <1>2 DEF LInv, Bypasses

LEMMA StartsKeep ==
    ASSUME IInv, LInv,
           \/ SweepReads \/ SweepAdvances \/ PriorityStarts \/ RecentStarts
           \/ PollStarts \/ PollHolds \/ ScanStarts \/ ScanPages
           \/ (\E S \in SUBSET Players : RearmStarts(S))
           \/ Play \/ Heartbeat \/ UNCHANGED vars
    PROVE  LInv' /\ \A m : Keeps(m) => Keeps(m)'
  <1>1. UNCHANGED <<seen, job, done, stuck, hand>>
    BY DEF SweepReads, SweepAdvances, PriorityStarts, RecentStarts, PollStarts, PollHolds,
           ScanStarts, ScanPages, RearmStarts, LookupStarts, CloseWindow, world, outage,
           history, tick, Play, Heartbeat, vars
  <1>2. lane' = lane \/ hand["lookup"] = {}
    BY DEF SweepReads, SweepAdvances, PriorityStarts, RecentStarts, PollStarts, PollHolds,
           ScanStarts, ScanPages, RearmStarts, LookupStarts, tick, Play, Heartbeat, vars,
           Idle, IInv, EmptyHanded, Slots
  <1>3. pc'["lookup"] = "end" => pc["lookup"] = "end"
    BY DEF SweepReads, SweepAdvances, PriorityStarts, RecentStarts, PollStarts, PollHolds,
           ScanStarts, ScanPages, RearmStarts, LookupStarts, CloseWindow, Goto, tick, Play,
           Heartbeat, vars, IInv, Types, Slots
  <1>4. QED
    BY <1>1, <1>2, <1>3, QuietKeeps

\* A job ends, and a claim nobody works on ages.
LEMMA JobsKeep ==
    ASSUME IInv, LInv, NEW n \in Matches, Process(n) \/ Exhaust(n) \/ AgeOut(n)
    PROVE  LInv' /\ \A m : Keeps(m) => Keeps(m)'
  <1>1. UNCHANGED <<hand, lane, pc>>
    BY DEF Process, Exhaust, AgeOut, tick
  <1>2. \/ /\ job' = [job EXCEPT ![n] = "none"] /\ seen' = seen
           /\ \/ done' = done /\ stuck' = stuck \cup {n}
              \/ done' = done \cup {n} /\ stuck' = stuck
        \/ /\ UNCHANGED <<job, done, stuck>> /\ seen' = seen \ {n}
           /\ \A w \in Slots : n \notin hand[w]
    <2>1. CASE Process(n)
      BY <2>1 DEF Process, history
    <2>2. CASE Exhaust(n)
      BY <2>2 DEF Exhaust, world
    <2>3. CASE AgeOut(n)
      BY <2>3 DEF AgeOut, Aged, world, history, InHand
    <2>4. QED
      BY <2>1, <2>2, <2>3
  <1>3. ASSUME NEW m, Keeps(m) PROVE Keeps(m)'
    BY <1>1, <1>2, <1>3 DEF Keeps, Holds, Bypasses, IInv, Types
  <1>4. QED
    BY <1>1, <1>2, <1>3 DEF LInv, Bypasses

\* What a tick claims was not claimed, so nobody else holds it.
LEMMA FetchesKeep ==
    ASSUME IInv, LInv, NEW w \in Slots, pc[w] = "list", NEW S, NEW F, NEW E, Fetch(w, S, F, E)
    PROVE  LInv' /\ \A m : Keeps(m) => Keeps(m)'
  <1> DEFINE ids == UNION {Asked(w, p) : p \in S \ F}
             mine == Unclaimed(ids) \ E
  <1>1. UNCHANGED <<job, done, stuck, lane>> /\ pc' = [pc EXCEPT ![w] = "push"]
    BY DEF Fetch, Goto, world
  <1>2. \/ Bypasses(w) /\ hand' = [hand EXCEPT ![w] = ids] /\ seen' = seen
        \/ ~Bypasses(w) /\ hand' = [hand EXCEPT ![w] = mine] /\ seen' = seen \cup mine
    BY DEF Fetch
  <1>3. mine \cap seen = {}
    BY DEF Unclaimed
  <1> HIDE DEF ids, mine
  <1>4. hand[w] = {} /\ DOMAIN hand = Slots /\ DOMAIN pc = Slots
    BY DEF IInv, EmptyHanded, Types
  <1>5. \A v \in Slots : Bypasses(v)' <=> Bypasses(v)
    BY <1>1 DEF Bypasses
  <1>6. ASSUME NEW m, Keeps(m) PROVE Keeps(m)'
    BY <1>1, <1>2, <1>4, <1>5, <1>6 DEF Keeps, Holds
  <1>7. \A m \in seen' : Keeps(m)'
    <2>1. ASSUME NEW m \in mine, ~Bypasses(w), hand' = [hand EXCEPT ![w] = mine] PROVE Keeps(m)'
      BY <1>4, <1>5, <2>1 DEF Keeps, Holds
    <2>2. QED
      BY <1>2, <1>6, <2>1 DEF LInv
  <1>8. \A v \in Slots : ~Bypasses(v) => hand'[v] \subseteq seen'
    BY <1>2, <1>4 DEF LInv
  <1>9. \A u, v \in Slots :
           u # v /\ ~Bypasses(u) /\ ~Bypasses(v) => hand'[u] \cap hand'[v] = {}
    <2>1. ASSUME NEW u \in Slots, u # w PROVE hand'[u] = hand[u]
      BY <1>2, <1>4, <2>1
    <2>2. CASE Bypasses(w)
      BY <2>1, <2>2 DEF LInv
    <2>3. CASE ~Bypasses(w)
      <3>1. hand'[w] = mine
        BY <1>2, <1>4, <2>3
      <3>2. \A u \in Slots : u # w /\ ~Bypasses(u) => hand'[u] \cap mine = {}
        BY <1>3, <2>1 DEF LInv
      <3>3. QED
        BY <2>1, <3>1, <3>2 DEF LInv
    <2>4. QED
      BY <2>2, <2>3
  <1>10. pc'["lookup"] = "end" /\ Bypasses("lookup") => hand'["lookup"] = {}
    BY <1>1, <1>2, <1>4 DEF LInv, Slots
  <1>11. LInv'
    BY <1>5, <1>7, <1>8, <1>9, <1>10 DEF LInv, Slots
  <1>12. QED
    BY <1>6, <1>11

LEMMA PushesKeep ==
    ASSUME IInv, LInv, NEW w \in Slots, NEW F, Push(w, F)
    PROVE  LInv' /\ \A m : Keeps(m) => Keeps(m)'
  <1>1. /\ UNCHANGED <<seen, done, stuck, lane>> /\ pc' = [pc EXCEPT ![w] = "end"]
        /\ F \subseteq hand[w] /\ hand' = [hand EXCEPT ![w] = F]
        /\ F = {} \/ ~Bypasses(w)
    BY DEF Push, Goto, world, history
  <1>2. job' = [m \in Matches |-> IF m \in hand[w] \ F /\ job[m] = "none" THEN Queue(w) ELSE job[m]]
    BY DEF Push, EnqueueJobs
  <1>3. Queue(w) # "none"
    BY DEF Queue
  <1>4. hand \in [Slots -> SUBSET Matches] /\ DOMAIN pc = Slots
    BY DEF IInv, Types
  <1>5. \A v \in Slots : Bypasses(v)' <=> Bypasses(v)
    BY <1>1 DEF Bypasses
  <1>6. ASSUME NEW m, Keeps(m) PROVE Keeps(m)'
    <2>1. CASE m \in hand[w] \ F
      BY <1>2, <1>3, <1>4, <2>1 DEF Keeps
    <2>2. CASE m \notin hand[w] \ F
      BY <1>1, <1>2, <1>4, <1>5, <1>6, <2>2 DEF Keeps, Holds
    <2>3. QED
      BY <2>1, <2>2
  <1>7. \A v \in Slots : hand'[v] \subseteq hand[v]
    BY <1>1, <1>4
  <1>8. pc'["lookup"] = "end" /\ Bypasses("lookup") => hand'["lookup"] = {}
    BY <1>1, <1>4 DEF LInv, Slots
  <1>9. QED
    BY <1>1, <1>5, <1>6, <1>7, <1>8 DEF LInv, Slots

\* The hand of a tick is settled.  An id it gives back is in nobody else's hand.
LEMMA SettlesKeep ==
    ASSUME IInv, LInv, NEW w \in Slots,
           UNCHANGED <<job, done>>, hand' = [hand EXCEPT ![w] = {}],
           lane' = lane \/ w = "lookup",
           pc'["lookup"] = "end" => pc["lookup"] = "end" \/ w = "lookup",
           \/ seen' = seen \ hand[w] /\ stuck' = stuck /\ pc[w] = "end"
           \/ seen' = seen /\ hand[w] \cap seen \subseteq stuck' /\ stuck \subseteq stuck'
    PROVE  LInv' /\ \A m : Keeps(m) => Keeps(m)' \/ m \in hand[w] \cap seen
  <1>1. hand \in [Slots -> SUBSET Matches]
    BY DEF IInv, Types
  <1>2. hand'[w] = {} /\ \A v \in Slots : v # w => hand'[v] = hand[v]
    BY <1>1
  <1>3. \A v \in Slots : v # w => (Bypasses(v)' <=> Bypasses(v))
    BY DEF Bypasses
  <1>4. Bypasses(w) /\ pc[w] = "end" => hand[w] = {}
    BY DEF LInv, Bypasses
  <1>5. \A v \in Slots : v # w /\ ~Bypasses(v) => hand[v] \subseteq seen'
    BY <1>4 DEF LInv
  <1>6. ASSUME NEW m, Keeps(m), m \notin hand[w] \/ m \in stuck' PROVE Keeps(m)'
    BY <1>2, <1>3, <1>6 DEF Keeps, Holds
  <1>7. ASSUME NEW m, Keeps(m), m \in hand[w], m \notin seen PROVE Keeps(m)'
    <2>1. Bypasses(w)
      BY <1>7 DEF LInv
    <2>2. QED
      BY <1>2, <1>3, <1>7, <2>1 DEF Keeps, Holds
  <1>8. \A m \in seen' : Keeps(m)'
    BY <1>6 DEF LInv
  <1>9. \A u, v \in Slots :
           u # v /\ ~Bypasses(u)' /\ ~Bypasses(v)' => hand'[u] \cap hand'[v] = {}
    BY <1>2, <1>3 DEF LInv
  <1>10. pc'["lookup"] = "end" /\ Bypasses("lookup")' => hand'["lookup"] = {}
    BY <1>2, <1>3 DEF LInv, Slots
  <1>11. LInv'
    BY <1>2, <1>3, <1>5, <1>8, <1>9, <1>10 DEF LInv
  <1>12. QED
    BY <1>6, <1>7, <1>11

LEMMA EndsKeep ==
    ASSUME IInv, LInv, NEW w \in Slots,
           \/ EndTick(w)
           \/ w = "rearm" /\ RearmSettles
           \/ w = "scan" /\ ScanTurns
           \/ Cut(w)
    PROVE  LInv' /\ \A m : Keeps(m) => Keeps(m)' \/ (m \in hand[w] /\ ~Cut(w))
  <1>1. /\ UNCHANGED <<job, done>> /\ hand' = [hand EXCEPT ![w] = {}]
        /\ lane' = lane \/ w = "lookup"
    BY DEF EndTick, RearmSettles, ScanTurns, Cut, Releases, world
  <1>2. pc'["lookup"] = "end" => pc["lookup"] = "end" \/ w = "lookup"
    BY DEF EndTick, RearmSettles, ScanTurns, Cut, CloseWindow, Goto, IInv, Types, Slots
  <1>3. \/ seen' = seen \ hand[w] /\ stuck' = stuck /\ pc[w] = "end"
        \/ seen' = seen /\ hand[w] \cap seen \subseteq stuck' /\ stuck \subseteq stuck'
    BY DEF EndTick, RearmSettles, ScanTurns, Cut, Releases, Released
  <1>4. LInv' /\ \A m : Keeps(m) => Keeps(m)' \/ m \in hand[w] \cap seen
    BY <1>1, <1>2, <1>3, SettlesKeep
  <1>5. ASSUME NEW m \in hand[w] \cap seen, Cut(w) PROVE Keeps(m)'
    BY <1>5 DEF Cut, Keeps
  <1>6. QED
    BY <1>4, <1>5

\* What a window owes ended after it, and a tracked player was in it.
WInv ==
    /\ beat \in 0 .. ended /\ window \in Nat \cup {NoWindow}
    /\ window # NoWindow => window <= beat
    /\ owed # {} => window # NoWindow
    /\ \A m \in owed : m \in 1 .. ended /\ m > window /\ Lobby[m] \cap tracked # {}
    /\ pc["scan"] # "idle" => window # NoWindow /\ scan.since = window

\* The players of the page, and those a full page leaves for later.
Beyond(p) ==
    Cardinality(batch["scan"]) = ScanBatch /\ \A b \in batch["scan"] : p > b

\* The scan will still list this player.
Awaits(p) ==
    /\ pc["scan"] = "page" => p > scan.cursor
    /\ pc["scan"] = "list" => p \in batch["scan"] \/ Beyond(p)
    /\ pc["scan"] \in {"push", "end"} => Beyond(p)

SInv ==
    /\ scan \in [since : Nat, cursor : Nat]
    /\ pc["scan"] \in {"idle", "page", "list", "push", "end"}
    /\ pc["scan"] \in {"list", "push", "end"} =>
         /\ batch["scan"] \subseteq Players
         /\ Cardinality(batch["scan"]) <= ScanBatch
    /\ pc["scan"] # "idle" /\ ~gapInScan =>
         \A m \in owed : Safe(m) \/ \E p \in Lobby[m] \cap tracked : Awaits(p)

OInv == IInv /\ RInv /\ LInv /\ WInv /\ SInv

LEMMA InitOInv == Init => OInv
  <1> SUFFICES ASSUME Init PROVE OInv
    OBVIOUS
  <1>1. N \in Nat /\ NoWindow \notin Nat
    BY LobbyAssumption, NumbersAssumption
  <1>2. WInv
    BY <1>1 DEF Init, WInv, Slots
  <1>3. SInv
    BY DEF Init, SInv, NoScan, Slots
  <1>4. QED
    BY <1>2, <1>3, InitIInv, InitRInv, InitLInv DEF OInv

\* Nothing happens to the windows but what heartbeat_tick and the scan do.
LEMMA WindowsStay ==
    ASSUME WInv, ended \in Nat, ended' \in Nat, ended <= ended', UNCHANGED outage,
           tracked \subseteq tracked',
           pc'["scan"] # "idle" => pc["scan"] # "idle" /\ scan' = scan
    PROVE  WInv'
  <1>1. UNCHANGED <<beat, window, owed>>
    BY DEF outage
  <1>2. QED
    BY <1>1 DEF WInv

\* A step outside the scan leaves what the scan has seen to.
LEMMA ScanStays ==
    ASSUME SInv, tracked \subseteq tracked', UNCHANGED <<scan, pc["scan"], batch["scan"]>>,
           pc["scan"] # "idle" /\ ~gapInScan' => ~gapInScan /\ owed' = owed,
           \A m \in owed : Safe(m) => Safe(m)'
    PROVE  SInv'
  <1>1. \A p : Awaits(p)' <=> Awaits(p)
    BY DEF Awaits, Beyond
  <1>2. ASSUME pc'["scan"] # "idle", ~gapInScan', NEW m \in owed', ~Safe(m)'
        PROVE  \E p \in Lobby[m] \cap tracked' : Awaits(p)'
    BY <1>1, <1>2 DEF SInv
  <1>3. QED
    BY <1>2 DEF SInv

\* The deletion of a window is what the property speaks of.
Healed == gapInScan \/ owed \subseteq Accounted \cup missed
Heals == (window # NoWindow /\ window' = NoWindow) => Healed

LEMMA SafeIsAccounted == \A m : Safe(m) => m \in Accounted \cup missed
  BY DEF Safe, Keeps, Holds, Accounted, InHand, Queued

LEMMA Outside ==
    ASSUME OInv, ended' \in Nat, ended <= ended', tracked \subseteq tracked',
           UNCHANGED <<outage, scan, pc["scan"], batch["scan"]>>,
           \A m \in owed : Safe(m) => Safe(m)'
    PROVE  WInv' /\ SInv' /\ Heals
  <1>1. WInv /\ SInv /\ ended \in Nat
    BY LobbyAssumption DEF OInv, IInv, Types
  <1>2. WInv'
    BY <1>1, WindowsStay
  <1>3. SInv'
    BY <1>1, ScanStays DEF outage
  <1>4. QED
    BY <1>2, <1>3 DEF Heals, outage

\* The players and the state of another tick.
LEMMA OtherSlot ==
    ASSUME OInv, NEW w \in Slots, w # "scan"
    PROVE  /\ \A S : Takes(w, S) => batch'["scan"] = batch["scan"]
           /\ \A l : Goto(w, l) => pc'["scan"] = pc["scan"]
           /\ ended \in Nat /\ ended <= ended
  BY LobbyAssumption DEF OInv, IInv, Types, RInv, Takes, Goto, Slots

LEMMA OthersStart ==
    ASSUME OInv,
           \/ SweepReads \/ SweepAdvances \/ PriorityStarts \/ RecentStarts
           \/ PollStarts \/ PollHolds \/ (\E S \in SUBSET Players : RearmStarts(S))
           \/ Play \/ UNCHANGED vars
    PROVE  LInv' /\ WInv' /\ SInv' /\ Heals
  <1>1. LInv' /\ \A m : Keeps(m) => Keeps(m)'
    BY StartsKeep DEF OInv
  <1>2. UNCHANGED <<outage, scan, missed, tracked>>
    BY DEF SweepReads, SweepAdvances, PriorityStarts, RecentStarts, PollStarts, PollHolds,
           RearmStarts, LookupStarts, world, history, tick, Play, vars
  <1>3. UNCHANGED <<pc["scan"], batch["scan"]>>
    BY OtherSlot DEF SweepReads, SweepAdvances, PriorityStarts, RecentStarts, PollStarts,
       PollHolds, RearmStarts, LookupStarts, tick, Play, vars, Slots
  <1>4. ended' \in Nat /\ ended <= ended'
    <2>1. ended \in Nat
      BY LobbyAssumption DEF OInv, IInv, Types
    <2>2. ended' = ended \/ ended' = ended + 1
      BY DEF SweepReads, SweepAdvances, PriorityStarts, RecentStarts, PollStarts, PollHolds,
             RearmStarts, LookupStarts, world, Play, vars
    <2>3. QED
      BY <2>1, <2>2
  <1>5. \A m \in owed : Safe(m) => Safe(m)'
    BY <1>1, <1>2 DEF Safe
  <1>6. QED
    BY <1>1, <1>2, <1>3, <1>4, <1>5, Outside

LEMMA JobsLeave ==
    ASSUME OInv, NEW n \in Matches, Process(n) \/ Exhaust(n) \/ AgeOut(n)
    PROVE  LInv' /\ WInv' /\ SInv' /\ Heals
  <1>1. LInv' /\ \A m : Keeps(m) => Keeps(m)'
    BY JobsKeep DEF OInv
  <1>2. UNCHANGED <<outage, scan, pc["scan"], batch["scan"], missed, ended>>
    BY DEF Process, Exhaust, AgeOut, tick, world, history
  <1>3. tracked \subseteq tracked'
    BY DEF Process, Exhaust, AgeOut, world
  <1>4. ended' \in Nat /\ ended <= ended'
    BY <1>2, LobbyAssumption DEF OInv, IInv, Types
  <1>5. \A m \in owed : Safe(m) => Safe(m)'
    BY <1>1, <1>2 DEF Safe
  <1>6. QED
    BY <1>1, <1>2, <1>3, <1>4, <1>5, Outside

LEMMA OthersFetch ==
    ASSUME OInv, NEW w \in Slots, w # "scan", pc[w] = "list",
           NEW S, NEW F, NEW E, Fetch(w, S, F, E)
    PROVE  LInv' /\ WInv' /\ SInv' /\ Heals
  <1>1. LInv' /\ \A m : Keeps(m) => Keeps(m)'
    BY FetchesKeep DEF OInv
  <1>2. UNCHANGED <<outage, scan, batch, missed, ended, tracked>> /\ Goto(w, "push")
    BY DEF Fetch, world
  <1>3. \A m \in owed : Safe(m) => Safe(m)'
    BY <1>1, <1>2 DEF Safe
  <1>4. UNCHANGED <<pc["scan"], batch["scan"]>> /\ ended' \in Nat /\ ended <= ended'
    BY <1>2, OtherSlot
  <1>5. QED
    BY <1>1, <1>2, <1>3, <1>4, Outside

LEMMA OthersPush ==
    ASSUME OInv, NEW w \in Slots, w # "scan", NEW F, Push(w, F)
    PROVE  LInv' /\ WInv' /\ SInv' /\ Heals
  <1>1. LInv' /\ \A m : Keeps(m) => Keeps(m)'
    BY PushesKeep DEF OInv
  <1>2. UNCHANGED <<outage, scan, batch, missed, ended, tracked>> /\ Goto(w, "end")
    BY DEF Push, world, history
  <1>3. \A m \in owed : Safe(m) => Safe(m)'
    BY <1>1, <1>2 DEF Safe
  <1>4. UNCHANGED <<pc["scan"], batch["scan"]>> /\ ended' \in Nat /\ ended <= ended'
    BY <1>2, OtherSlot
  <1>5. QED
    BY <1>1, <1>2, <1>3, <1>4, Outside

\* An id that is given back during a scan is on record as left behind.
LEMMA OthersEnd ==
    ASSUME OInv, NEW w \in Slots, w # "scan",
           EndTick(w) \/ (w = "rearm" /\ RearmSettles) \/ Cut(w)
    PROVE  LInv' /\ WInv' /\ SInv' /\ Heals
  <1>1. LInv' /\ \A m : Keeps(m) => Keeps(m)' \/ (m \in hand[w] /\ ~Cut(w))
    BY EndsKeep DEF OInv
  <1>2. UNCHANGED <<outage, scan, ended, tracked>> /\ \E S, l : Takes(w, S) /\ Goto(w, l)
    BY DEF EndTick, RearmSettles, Cut, world
  <1>3. missed' = missed \cup (owed \cap hand[w]) \/ (missed' = missed /\ Cut(w))
    BY DEF EndTick, RearmSettles, Cut, LeavesBehind
  <1>4. \A m \in owed : Safe(m) => Safe(m)'
    BY <1>1, <1>3 DEF Safe
  <1>5. UNCHANGED <<pc["scan"], batch["scan"]>> /\ ended' \in Nat /\ ended <= ended'
    BY <1>2, OtherSlot
  <1>6. QED
    BY <1>1, <1>2, <1>4, <1>5, Outside

\* heartbeat_tick: what a new outage adds ended after the window, and an outage
\* in the middle of a scan is on record.
LEMMA HeartbeatOpens ==
    ASSUME OInv, Heartbeat
    PROVE  LInv' /\ WInv' /\ SInv' /\ Heals
  <1>1. LInv' /\ \A m : Keeps(m) => Keeps(m)'
    BY StartsKeep DEF OInv
  <1>2. UNCHANGED <<ended, tracked, pc, batch, scan, missed>> /\ beat < ended /\ beat' = ended
    BY DEF Heartbeat, world, tick, history
  <1>3. /\ ended \in Nat /\ beat \in Nat /\ MaxGap \in Nat /\ NoWindow \notin Nat
        /\ window \in Nat \cup {NoWindow} /\ (window # NoWindow => window <= beat)
    BY LobbyAssumption, NumbersAssumption DEF OInv, IInv, Types, WInv
  <1>4. Since \in Nat /\ beat <= Since /\ Since <= ended
    BY <1>2, <1>3 DEF Since
  <1>5. \/ UNCHANGED <<window, owed, gapInScan>>
        \/ /\ window' = IF window = NoWindow THEN Since ELSE window
           /\ owed' = owed \cup {m \in 1 .. ended : m > Since /\ Lobby[m] \cap tracked # {}}
           /\ gapInScan' = (gapInScan \/ pc["scan"] # "idle")
    BY DEF Heartbeat, OpenWindow
  <1>6. window' \in Nat \cup {NoWindow} /\ (window' # NoWindow => window' <= beat')
    BY <1>2, <1>3, <1>4, <1>5
  <1>7. window' = window \/ (window = NoWindow /\ window' = Since)
    BY <1>5
  <1>8. owed' # {} => window' # NoWindow
    BY <1>3, <1>4, <1>5 DEF OInv, WInv
  <1>9. ASSUME NEW m \in owed' PROVE m \in 1 .. ended /\ m > window' /\ Lobby[m] \cap tracked # {}
    <2>1. CASE m \in owed
      BY <1>7, <2>1 DEF OInv, WInv
    <2>2. CASE m \notin owed
      <3>1. /\ m \in 1 .. ended /\ m > Since /\ Lobby[m] \cap tracked # {}
            /\ window' = IF window = NoWindow THEN Since ELSE window
        BY <1>5, <2>2
      <3>2. window' \in Nat /\ window' <= Since
        BY <1>3, <1>4, <3>1
      <3>3. QED
        BY <1>3, <1>4, <3>1, <3>2
    <2>3. QED
      BY <2>1, <2>2
  <1>10. pc["scan"] # "idle" => window' # NoWindow /\ scan.since = window'
    BY <1>7 DEF OInv, WInv
  <1>11. WInv'
    BY <1>2, <1>3, <1>6, <1>8, <1>9, <1>10 DEF WInv
  <1>12. SInv'
    <2>1. \A m \in owed : Safe(m) => Safe(m)'
      BY <1>1, <1>2 DEF Safe
    <2>2. pc["scan"] # "idle" /\ ~gapInScan' => ~gapInScan /\ owed' = owed
      BY <1>5
    <2>3. QED
      BY <1>2, <2>1, <2>2, ScanStays DEF OInv
  <1>13. Heals
    BY <1>3, <1>4, <1>7 DEF Heals
  <1>14. QED
    BY <1>1, <1>11, <1>12, <1>13

\* A new scan has everybody before it, and everything still to find.
LEMMA ScanBegins ==
    ASSUME OInv, ScanStarts
    PROVE  LInv' /\ WInv' /\ SInv' /\ Heals
  <1>1. LInv'
    BY StartsKeep DEF OInv
  <1>2. /\ UNCHANGED <<ended, tracked, beat, window, owed>> /\ window # NoWindow
        /\ scan' = [since |-> window, cursor |-> 0]
        /\ pc'["scan"] = "page"
    BY DEF ScanStarts, Goto, world, OInv, RInv, Slots
  <1>3. WInv'
    BY <1>2 DEF OInv, WInv
  <1>4. ASSUME NEW m \in owed PROVE \E p \in Lobby[m] \cap tracked : Awaits(p)'
    <2>1. PICK p \in Lobby[m] \cap tracked : TRUE
      BY DEF OInv, WInv
    <2>2. p \in Nat \ {0}
      <3>1. p \in tracked /\ tracked \subseteq Players
        BY <2>1 DEF OInv, RInv
      <3>2. QED
        BY <3>1, PlayersAssumption
    <2>3. QED
      BY <1>2, <2>1, <2>2 DEF Awaits
  <1>5. SInv'
    BY <1>2, <1>4 DEF OInv, WInv, SInv
  <1>6. QED
    BY <1>1, <1>2, <1>3, <1>5 DEF Heals

\* The window goes when nobody is left to be listed.
LEMMA WindowCloses ==
    ASSUME OInv, CloseWindow, UNCHANGED <<ended, beat>>,
           \A m \in owed : gapInScan \/ Safe(m)
    PROVE  WInv' /\ SInv' /\ Heals
  <1>1. /\ window' = NoWindow /\ owed' = {} /\ pc'["scan"] = "idle"
        /\ scan' = [since |-> 0, cursor |-> 0]
    BY DEF CloseWindow, Goto, NoScan, OInv, RInv, Slots
  <1>2. WInv' /\ SInv'
    BY <1>1 DEF OInv, WInv, SInv
  <1>3. Heals
    BY SafeIsAccounted DEF Heals, Healed
  <1>4. QED
    BY <1>2, <1>3

LEMMA ScanTurnsPage ==
    ASSUME OInv, ScanPages
    PROVE  LInv' /\ WInv' /\ SInv' /\ Heals
  <1> DEFINE S == TrackedAfter(scan.cursor, ScanBatch)
  <1>1. LInv' /\ \A m : Keeps(m) => Keeps(m)'
    BY StartsKeep DEF OInv
  <1>2. pc["scan"] = "page" /\ UNCHANGED <<ended, tracked, beat>>
    BY DEF ScanPages, world
  <1>3. scan.cursor \in Nat /\ ScanBatch \in Nat \ {0} /\ tracked \subseteq Players
    BY NumbersAssumption DEF OInv, SInv, RInv
  <1>4. /\ S \subseteq {p \in tracked : p > scan.cursor}
        /\ IsBeginning(S, {p \in tracked : p > scan.cursor}, ScanBatch)
    BY <1>3, PageAfter
  <1>5. ASSUME NEW p \in tracked, p > scan.cursor, p \notin S
        PROVE  Cardinality(S) = ScanBatch /\ \A b \in S : p > b
    <2>1. p \in {q \in tracked : q > scan.cursor} \ S
      BY <1>5
    <2>2. Cardinality(S) \in Nat /\ Cardinality(S) <= ScanBatch /\ ~(Cardinality(S) < ScanBatch)
      BY <1>4, <2>1, FS_CardinalityType DEF IsBeginning
    <2>3. QED
      BY <1>3, <1>4, <2>1, <2>2 DEF IsBeginning
  <1> HIDE DEF S
  <1>6. CASE S = {}
    <2>1. CloseWindow
      BY <1>6 DEF ScanPages, S
    <2>2. ASSUME NEW m \in owed, ~gapInScan, ~Safe(m) PROVE FALSE
      <3>1. PICK p \in Lobby[m] \cap tracked : Awaits(p)
        BY <1>2, <2>2 DEF OInv, SInv
      <3>2. p > scan.cursor
        BY <1>2, <3>1 DEF Awaits
      <3>3. Cardinality(S) = ScanBatch
        BY <1>5, <1>6, <3>1, <3>2
      <3>4. QED
        BY <1>3, <1>6, <3>3, FS_EmptySet
    <2>3. QED
      BY <1>1, <1>2, <2>1, <2>2, WindowCloses
  <1>7. CASE S # {}
    <2>1. /\ batch'["scan"] = S /\ pc'["scan"] = "list"
          /\ UNCHANGED <<scan, window, owed, gapInScan, missed>>
      BY <1>7 DEF ScanPages, Takes, Goto, S, OInv, RInv, Slots
    <2>2. WInv'
      BY <1>2, <2>1 DEF OInv, WInv
    <2>3. ASSUME NEW p \in tracked, Awaits(p) PROVE Awaits(p)'
      <3>1. p > scan.cursor
        BY <1>2, <2>3 DEF Awaits
      <3>2. QED
        BY <1>5, <2>1, <3>1 DEF Awaits, Beyond
    <2>4. S \subseteq Players /\ Cardinality(S) <= ScanBatch
      BY <1>3, <1>4 DEF IsBeginning
    <2>5. ASSUME ~gapInScan, NEW m \in owed, ~Safe(m)'
          PROVE  \E p \in Lobby[m] \cap tracked : Awaits(p)'
      <3>1. ~Safe(m)
        BY <1>1, <2>1, <2>5 DEF Safe
      <3>2. QED
        BY <1>2, <2>3, <2>5, <3>1 DEF OInv, SInv
    <2>6. SInv'
      BY <1>2, <2>1, <2>4, <2>5 DEF OInv, SInv
    <2>7. QED
      BY <1>1, <2>1, <2>2, <2>6 DEF Heals
  <1>8. QED
    BY <1>6, <1>7

\* A match of a listed player is claimed, or somebody claimed it, or it is left
\* out.
LEMMA ScanFetches ==
    ASSUME OInv, pc["scan"] = "list", NEW F, NEW E, Fetch("scan", batch["scan"], F, E)
    PROVE  LInv' /\ WInv' /\ SInv' /\ Heals
  <1> DEFINE B == batch["scan"]
             ids == UNION {Asked("scan", p) : p \in B \ F}
             mine == Unclaimed(ids) \ E
             owing == {m \in owed : Lobby[m] \cap B # {}}
  <1>1. LInv' /\ \A m : Keeps(m) => Keeps(m)'
    BY FetchesKeep DEF OInv, Slots
  <1>2. /\ UNCHANGED <<ended, tracked, outage, batch, scan>> /\ pc'["scan"] = "push"
        /\ missed' = missed \cup {m \in owing : m > scan.since /\ m \notin ids \ E}
    BY DEF Fetch, Goto, world, OInv, RInv, Slots
  <1>3. seen' = seen \cup mine
    BY DEF Fetch, Bypasses
  <1> HIDE DEF ids, owing
  <1>4. WInv'
    BY <1>2 DEF OInv, WInv, outage
  <1>5. \A m \in seen' : Keeps(m)'
    BY <1>1 DEF LInv
  <1>6. ASSUME NEW m \in owed, Lobby[m] \cap B # {} PROVE Safe(m)'
    <2>1. m \in owing /\ m > scan.since
      BY <1>6 DEF owing, OInv, WInv
    <2>2. CASE m \notin ids \ E
      BY <1>2, <2>1, <2>2 DEF Safe
    <2>3. CASE m \in ids \ E
      <3>1. m \in seen'
        BY <1>3, <2>3 DEF Unclaimed
      <3>2. QED
        BY <1>5, <3>1 DEF Safe
    <2>4. QED
      BY <2>2, <2>3
  <1>7. ASSUME ~gapInScan, NEW m \in owed, ~Safe(m)'
        PROVE  \E p \in Lobby[m] \cap tracked : Awaits(p)'
    <2>1. ~Safe(m)
      BY <1>1, <1>2, <1>7 DEF Safe
    <2>2. PICK p \in Lobby[m] \cap tracked : Awaits(p)
      BY <1>7, <2>1 DEF OInv, SInv
    <2>3. p \notin B
      BY <1>6, <1>7, <2>2
    <2>4. Beyond(p)
      BY <2>2, <2>3 DEF Awaits
    <2>5. QED
      BY <1>2, <2>2, <2>4 DEF Awaits, Beyond
  <1>8. SInv'
    BY <1>2, <1>7 DEF OInv, SInv, outage
  <1>9. QED
    BY <1>1, <1>2, <1>4, <1>8 DEF Heals, outage

LEMMA ScanPushes ==
    ASSUME OInv, NEW F, Push("scan", F)
    PROVE  LInv' /\ WInv' /\ SInv' /\ Heals
  <1>1. LInv' /\ \A m : Keeps(m) => Keeps(m)'
    BY PushesKeep DEF OInv, Slots
  <1>2. /\ UNCHANGED <<ended, tracked, outage, batch, scan, missed>>
        /\ pc["scan"] = "push" /\ pc'["scan"] = "end"
    BY DEF Push, Goto, world, history, OInv, RInv, Slots
  <1>3. WInv'
    BY <1>2 DEF OInv, WInv, outage
  <1>4. \A p : Awaits(p)' <=> Awaits(p)
    BY <1>2 DEF Awaits, Beyond
  <1>5. ASSUME ~gapInScan, NEW m \in owed, ~Safe(m)'
        PROVE  \E p \in Lobby[m] \cap tracked : Awaits(p)'
    <2>1. ~Safe(m)
      BY <1>1, <1>2, <1>5 DEF Safe
    <2>2. QED
      BY <1>2, <1>4, <1>5, <2>1 DEF OInv, SInv
  <1>6. SInv'
    BY <1>2, <1>5 DEF OInv, SInv, outage
  <1>7. QED
    BY <1>1, <1>2, <1>3, <1>6 DEF Heals, outage

\* The cursor moves to the last player of a full page, and whoever the page left
\* for later lies beyond it.  After a short page nobody is left.
LEMMA ScanMovesOn ==
    ASSUME OInv, ScanTurns
    PROVE  LInv' /\ WInv' /\ SInv' /\ Heals
  <1> DEFINE B == batch["scan"]
  <1>1. LInv' /\ \A m : Keeps(m) => Keeps(m)' \/ m \in hand["scan"]
    BY EndsKeep DEF OInv, Slots
  <1>2. pc["scan"] = "end" /\ UNCHANGED <<ended, tracked, beat>>
    BY DEF ScanTurns, Releases, world
  <1>3. /\ B \subseteq Players /\ IsFiniteSet(B) /\ Cardinality(B) \in Nat
        /\ Cardinality(B) <= ScanBatch /\ ScanBatch \in Nat \ {0}
    BY <1>2, PlayersAssumption, NumbersAssumption, FS_Subset, FS_CardinalityType
       DEF OInv, SInv
  <1>4. CASE Cardinality(B) < ScanBatch
    <2>1. CloseWindow
      BY <1>4 DEF ScanTurns, IsLastPage
    <2>2. ASSUME NEW m \in owed, ~gapInScan, ~Safe(m) PROVE FALSE
      <3>1. PICK p \in Lobby[m] \cap tracked : Awaits(p)
        BY <1>2, <2>2 DEF OInv, SInv
      <3>2. QED
        BY <1>2, <1>3, <1>4, <3>1 DEF Awaits, Beyond
    <2>3. QED
      BY <1>1, <1>2, <2>1, <2>2, WindowCloses
  <1>5. CASE ~(Cardinality(B) < ScanBatch)
    <2>1. /\ scan' = [scan EXCEPT !.cursor = Last(B)] /\ pc'["scan"] = "page"
          /\ missed' = missed \cup (owed \cap hand["scan"])
          /\ UNCHANGED <<window, owed, gapInScan>>
      BY <1>5 DEF ScanTurns, IsLastPage, LeavesBehind, Goto, OInv, RInv, Slots
    <2>2. B # {} /\ B \in SUBSET Nat
      <3>1. B # {}
        BY <1>3, <1>5, FS_EmptySet
      <3>2. QED
        BY <1>3, <3>1, PlayersAssumption
    <2>3. Last(B) \in B
      BY <1>3, <2>2, Greatest DEF Last
    <2>4. scan' \in [since : Nat, cursor : Nat] /\ scan'.cursor = Last(B) /\ scan'.since = scan.since
      BY <2>1, <2>2, <2>3 DEF OInv, SInv
    <2>5. WInv'
      BY <1>2, <2>1, <2>4 DEF OInv, WInv
    <2>6. ASSUME NEW p, Awaits(p) PROVE Awaits(p)'
      BY <1>2, <2>1, <2>3, <2>4, <2>6 DEF Awaits, Beyond
    <2>7. ASSUME ~gapInScan, NEW m \in owed, ~Safe(m)'
          PROVE  \E p \in Lobby[m] \cap tracked : Awaits(p)'
      <3>1. ~Safe(m)
        BY <1>1, <2>1, <2>7 DEF Safe
      <3>2. QED
        BY <1>2, <2>6, <2>7, <3>1 DEF OInv, SInv
    <2>8. SInv'
      BY <1>2, <2>1, <2>4, <2>7 DEF OInv, SInv
    <2>9. QED
      BY <1>1, <2>1, <2>5, <2>8 DEF Heals
  <1>6. QED
    BY <1>4, <1>5

\* A scan that is cut leaves its window open for the next one.
LEMMA ScanIsCut ==
    ASSUME OInv, Cut("scan")
    PROVE  LInv' /\ WInv' /\ SInv' /\ Heals
  <1>1. LInv'
    BY EndsKeep DEF OInv, Slots
  <1>2. /\ UNCHANGED <<ended, tracked, outage>> /\ pc'["scan"] = "idle"
        /\ scan' = [since |-> 0, cursor |-> 0]
    BY DEF Cut, Goto, NoScan, world, OInv, RInv, Slots
  <1>3. WInv' /\ SInv'
    BY <1>2 DEF OInv, WInv, SInv, outage
  <1>4. QED
    BY <1>1, <1>2, <1>3 DEF Heals, outage

LEMMA StepOInv == OInv /\ [Next]_vars => OInv' /\ Heals
  <1> SUFFICES ASSUME OInv, [Next]_vars PROVE LInv' /\ WInv' /\ SInv' /\ Heals
    BY StepIInv, StepRInv DEF OInv
  <1> DEFINE Goal == LInv' /\ WInv' /\ SInv' /\ Heals
  <1>1. ASSUME NEW w \in Slots, NEW F, NEW E, FetchBatch(w, F, E) PROVE Goal
    BY <1>1, ScanFetches, OthersFetch DEF FetchBatch
  <1>2. ASSUME NEW p, NEW F, NEW E, RearmFetches(p, F, E) PROVE Goal
    BY <1>2, OthersFetch DEF RearmFetches, Slots
  <1>3. ASSUME NEW w \in Slots, NEW F, Push(w, F) PROVE Goal
    BY <1>3, ScanPushes, OthersPush
  <1>4. ASSUME NEW w \in Slots, EndTick(w) \/ Cut(w) PROVE Goal
    BY <1>4, ScanIsCut, OthersEnd DEF EndTick
  <1>5. ASSUME RearmSettles \/ ScanTurns PROVE Goal
    BY <1>5, ScanMovesOn, OthersEnd DEF Slots
  <1>6. ASSUME NEW w \in Slots, Progress(w) PROVE Goal
    BY <1>1, <1>2, <1>3, <1>4, <1>5, <1>6, OthersStart, ScanBegins, ScanTurnsPage DEF Progress
  <1>7. ASSUME Mishap PROVE Goal
    BY <1>1, <1>2, <1>3, <1>4, <1>7, JobsLeave DEF Mishap
  <1>8. QED
    BY <1>6, <1>7, JobsLeave, OthersStart, HeartbeatOpens DEF Next

\* ingestion.py: when the window is deleted, every match of a tracked player that
\* ended in a detected outage is accounted for, but for those that the scan's own
\* failures and caps, or an outage it overlapped with, left out.
THEOREM OutagesHeal == Spec => OutagesAreRecovered
  <1> DEFINE A == (window # NoWindow /\ window' = NoWindow)
                     => gapInScan \/ owed \subseteq Accounted \cup missed
  <1>1. OInv /\ [Next]_vars => OInv' /\ [A]_vars
    BY StepOInv DEF Heals, Healed
  <1>2. QED
    BY <1>1, InitOInv, PTL DEF Spec, OutagesAreRecovered
=============================================================================
