----------------------- MODULE MatchPipeline_proofs -----------------------
(***************************************************************************)
(* Proofs about MatchPipeline for any set of matches, lobbies and jobs.     *)
(* What makes the write path safe is not the TTL-bound player lock but the   *)
(* row locks of register_players: from the end of the upsert to the commit   *)
(* a job holds every row of its lobby, so what it read stays current and     *)
(* nobody else can commit the same match.  Because the rows go out sorted,   *)
(* no circle of transactions waits for rows; and because a flag is set only  *)
(* by a job that still has the match, or wrote it, no delivery is skipped    *)
(* for nothing.                                                            *)
(***************************************************************************)
EXTENDS MatchPipeline, WellFoundedInduction, TLAPS

\* Stages from the end of the upsert to the commit.
Exclusive == {"lock", "check", "load", "rating"}

\* A job in such a stage has every player row of its lobby.
HoldsItsRows ==
    \A j \in Jobs : pc[j] \in Exclusive =>
        \A p \in Roster[MatchOf[j]] : rows[p] = j

\* A job that passed the check works on a match nobody committed since.
NotYetProcessed ==
    \A j \in Jobs : pc[j] \in {"load", "rating"} => MatchOf[j] \notin processed

\* What a job read is still what is committed when it writes.
ReadIsCurrent ==
    \A j \in Jobs : pc[j] = "rating" =>
        \A p \in Roster[MatchOf[j]] : snap[j][p] = ladder[p]

IInv ==
    /\ TypeOK
    /\ HoldsItsRows
    /\ NotYetProcessed
    /\ ReadIsCurrent

-----------------------------------------------------------------------------

LEMMA InitIInv == Init => IInv
  BY FreeAssumption, BoundsAssumption
     DEF Init, IInv, TypeOK, Stages, Outcomes, Unread, Ratings, HoldsItsRows,
         NotYetProcessed, ReadIsCurrent, Exclusive

\* Given only passes on what job j holds.
LEMMA GivenType ==
    ASSUME NEW S, NEW held \in [Players -> S], NEW j, NEW value \in S
    PROVE  /\ Given(held, j, value) \in [Players -> S]
           /\ \A p \in Players : held[p] # j => Given(held, j, value)[p] = held[p]
  BY DEF Given

\* Leaving a transaction without a commit disturbs no other job: its rows go,
\* and it forgets what it read.
LEMMA LeaveIInv ==
    ASSUME IInv, TypeOK', NEW j \in Jobs, Rollback(j),
           pc' \in [Jobs -> Stages],
           pc'[j] \notin Exclusive,
           \A k \in Jobs : k # j => pc'[k] = pc[k],
           UNCHANGED <<ladder, processed>>
    PROVE  IInv'
  <1> USE DEF IInv, Exclusive
  <1>1. HoldsItsRows'
    <2> SUFFICES ASSUME NEW k \in Jobs, pc'[k] \in Exclusive,
                        NEW p \in Roster[MatchOf[k]]
                 PROVE  rows'[p] = k
      BY RosterAssumption DEF HoldsItsRows
    <2>1. k # j /\ rows[p] = k /\ p \in Players
      BY RosterAssumption, JobsAssumption DEF HoldsItsRows
    <2>2. QED
      BY <2>1 DEF Rollback, Given
  <1>2. NotYetProcessed' /\ ReadIsCurrent'
    BY RosterAssumption, JobsAssumption
       DEF NotYetProcessed, ReadIsCurrent, Rollback, TypeOK
  <1>3. QED
    BY <1>1, <1>2

-----------------------------------------------------------------------------
(* Types *)

LEMMA RollbackType ==
    ASSUME TypeOK, NEW j \in Jobs, Rollback(j)
    PROVE  rows' \in [Players -> Jobs \cup {Free}] /\ snap' \in [Jobs -> Ratings]
  <1>1. rows \in [Players -> Jobs \cup {Free}] /\ snap \in [Jobs -> Ratings]
    BY DEF TypeOK
  <1>2. rows' = Given(rows, j, Free) /\ snap' = [snap EXCEPT ![j] = Unread]
    BY DEF Rollback
  <1>3. Unread \in Ratings
    BY DEF Unread, Ratings
  <1>4. rows' \in [Players -> Jobs \cup {Free}]
    BY <1>1, <1>2, GivenType
  <1>5. QED
    BY <1>1, <1>2, <1>3, <1>4

LEMMA StepTypeOK == TypeOK /\ [Next]_vars => TypeOK'
  <1> SUFFICES ASSUME TypeOK, [Next]_vars PROVE TypeOK'
    OBVIOUS
  <1> USE FreeAssumption, BoundsAssumption, JobsAssumption, RosterAssumption
      DEF TypeOK, Stages, Outcomes, jobVars, dbVars, dlqVars, bounds, Goto, End
  <1>1. Unread \in Ratings
    BY DEF Unread, Ratings
  <1>2. ASSUME NEW j \in Jobs, Rollback(j)
        PROVE  rows' \in [Players -> Jobs \cup {Free}] /\ snap' \in [Jobs -> Ratings]
    BY <1>2, RollbackType
  <1>3. ASSUME NEW j \in Jobs, NEW v \in {Free, Orphan}
        PROVE  Given(locks, j, v) \in [Players -> Jobs \cup {Free, Orphan}]
    BY DEF Given
  <1>4. ASSUME NEW j \in Jobs, Begin(j) PROVE TypeOK'
    <2>1. CASE Enqueue(j)
      BY <2>1 DEF Enqueue
    <2>2. CASE Drain(j)
      BY <2>2 DEF Drain
    <2>3. CASE TakeDeadLetter(j)
      BY <2>3 DEF TakeDeadLetter
    <2>4. QED
      BY <1>4, <2>1, <2>2, <2>3 DEF Begin
  <1>5. ASSUME NEW j \in Jobs, Start(j) \/ Abandon(j) \/ SetFlag(j) \/ Skip(j)
        PROVE  TypeOK'
    BY <1>5 DEF Start, Abandon, SetFlag, Skip
  <1>6. ASSUME NEW j \in Jobs, Fetch(j) \/ Filter(j) \/ Stage(j) \/ PassGate(j)
        PROVE  TypeOK'
    BY <1>6 DEF Fetch, Filter, Stage, PassGate
  <1>7. ASSUME NEW j \in Jobs, RegisterRow(j) \/ AcquireLocks(j) \/ Check(j)
        PROVE  TypeOK'
    BY <1>7 DEF RegisterRow, AcquireLocks, Check
  <1>8. ASSUME NEW j \in Jobs, Load(j) PROVE TypeOK'
    BY <1>8 DEF Load, Ratings
  <1>9. ASSUME NEW j \in Jobs, Persist(j)
        PROVE  /\ ladder' \in Ratings
               /\ before' \in [Matches -> Ratings]
               /\ processed' \in SUBSET Matches
               /\ staged' \in SUBSET Matches
    BY <1>9 DEF Persist, Ratings
  <1>10. ASSUME NEW j \in Jobs, Commit(j) PROVE TypeOK'
    BY <1>2, <1>9, <1>10 DEF Commit
  <1>11. ASSUME NEW j \in Jobs, CommitUnacknowledged(j) PROVE TypeOK'
    <2>1. pc' \in [Jobs -> Stages] /\ interrupts' \in 0 .. MaxInterrupts
      BY <1>11 DEF CommitUnacknowledged
    <2>2. QED
      BY <1>2, <1>3, <1>9, <1>11, <2>1 DEF CommitUnacknowledged
  <1>12. ASSUME NEW j \in Jobs, Unlock(j) \/ Raise(j) PROVE TypeOK'
    <2>1. CASE Unlock(j)
      BY <1>2, <1>3, <2>1 DEF Unlock
    <2>2. CASE Raise(j)
      BY <1>2, <1>3, <2>2 DEF Raise
    <2>3. QED
      BY <1>12, <2>1, <2>2
  <1>13. ASSUME NEW j \in Jobs, Finish(j) \/ Retry(j) \/ DeadLetter(j)
         PROVE  TypeOK'
    BY <1>13 DEF Finish, Retry, DeadLetter
  <1>14. ASSUME NEW j \in Jobs, ReleaseFlag(j) \/ EnqueueRequeue(j)
         PROVE  TypeOK'
    BY <1>14 DEF ReleaseFlag, EnqueueRequeue
  <1>15. ASSUME NEW j \in Jobs, GuardFails(j) PROVE TypeOK'
    BY <1>15 DEF GuardFails
  <1>16. ASSUME NEW j \in Jobs, ReleaseFlagFails(j) PROVE TypeOK'
    BY <1>16 DEF ReleaseFlagFails
  <1>17. ASSUME NEW j \in Jobs, DeadLetterFails(j) PROVE TypeOK'
    BY <1>17 DEF DeadLetterFails
  <1>18. ASSUME NEW j \in Jobs, RequeueFails(j) PROVE TypeOK'
    BY <1>18 DEF RequeueFails
  <1>19. ASSUME NEW j \in Jobs, Kill(j) PROVE TypeOK'
    <2>1. pc' \in [Jobs -> Stages] /\ outcome' \in [Jobs -> Outcomes]
      BY <1>19 DEF Kill
    <2>2. interrupts' \in 0 .. MaxInterrupts
      BY <1>19 DEF Kill
    <2>3. /\ locks' \in [Players -> Jobs \cup {Free, Orphan}]
          /\ rows' \in [Players -> Jobs \cup {Free}]
          /\ snap' \in [Jobs -> Ratings]
      BY <1>2, <1>3, <1>19 DEF Kill
    <2>4. UNCHANGED <<tries, flag, dbVars, dlqVars, faults>>
      BY <1>19 DEF Kill
    <2>5. QED
      BY <2>1, <2>2, <2>3, <2>4
  <1>20. ASSUME NEW j \in Jobs, Shutdown(j) PROVE TypeOK'
    <2>1. pc' \in [Jobs -> Stages] /\ outcome' \in [Jobs -> Outcomes]
      BY <1>20 DEF Shutdown
    <2>2. interrupts' \in 0 .. MaxInterrupts
      BY <1>20 DEF Shutdown
    <2>3. /\ locks' \in [Players -> Jobs \cup {Free, Orphan}]
          /\ rows' \in [Players -> Jobs \cup {Free}]
          /\ snap' \in [Jobs -> Ratings]
      BY <1>2, <1>3, <1>20 DEF Shutdown
    <2>4. UNCHANGED <<tries, flag, dbVars, dlqVars, faults>>
      BY <1>20 DEF Shutdown
    <2>5. QED
      BY <2>1, <2>2, <2>3, <2>4
  <1>21. ASSUME NEW j \in Jobs, TimeOut(j) PROVE TypeOK'
    <2>1. pc' \in [Jobs -> Stages] /\ outcome' \in [Jobs -> Outcomes]
      BY <1>21 DEF TimeOut
    <2>2. interrupts' \in 0 .. MaxInterrupts
      BY <1>21 DEF TimeOut
    <2>3. /\ locks' \in [Players -> Jobs \cup {Free, Orphan}]
          /\ rows' \in [Players -> Jobs \cup {Free}]
          /\ snap' \in [Jobs -> Ratings]
      BY <1>2, <1>3, <1>21 DEF TimeOut
    <2>4. UNCHANGED <<tries, flag, dbVars, dlqVars, faults>>
      BY <1>21 DEF TimeOut
    <2>5. QED
      BY <2>1, <2>2, <2>3, <2>4
  <1>22. ASSUME NEW p \in Players, ExpireLock(p) PROVE TypeOK'
    BY <1>22 DEF ExpireLock
  <1>23. ASSUME NEW m \in Matches, ExpireFlag(m) PROVE TypeOK'
    BY <1>23 DEF ExpireFlag
  <1>24. ASSUME NEW m \in Matches, Discard(m) PROVE TypeOK'
    BY <1>24 DEF Discard
  <1>25. CASE UNCHANGED vars
    BY <1>25 DEF vars
  <1>26. QED
    BY <1>4, <1>5, <1>6, <1>7, <1>8, <1>10, <1>11, <1>12, <1>13, <1>14, <1>15,
       <1>16, <1>17, <1>18, <1>19, <1>20, <1>21, <1>22, <1>23, <1>24, <1>25
       DEF Next, Progress, Mishap

-----------------------------------------------------------------------------
(* The transaction *)

\* A step that touches neither rows, reads, nor the ladder, and takes its job
\* nowhere between the upsert and the commit.
LEMMA QuietIInv ==
    ASSUME IInv, TypeOK',
           \A j \in Jobs : pc'[j] \in Exclusive => pc'[j] = pc[j],
           UNCHANGED <<rows, snap, ladder, processed>>
    PROVE  IInv'
  BY DEF IInv, HoldsItsRows, NotYetProcessed, ReadIsCurrent, Exclusive

\* The commit of job j, acknowledged or not: every other job that could still
\* write shares no player with it, and none carries the same match.
LEMMA CommitIInv ==
    ASSUME IInv, TypeOK', NEW j \in Jobs, pc[j] = "rating",
           Persist(j), Rollback(j), pc'[j] \notin Exclusive,
           \A k \in Jobs : k # j => pc'[k] = pc[k]
    PROVE  IInv'
  <1> USE DEF IInv, Exclusive
  <1>1. ASSUME NEW k \in Jobs, pc'[k] \in Exclusive
        PROVE  /\ k # j
               /\ pc[k] = pc'[k]
               /\ Roster[MatchOf[k]] \cap Roster[MatchOf[j]] = {}
               /\ \A p \in Roster[MatchOf[k]] :
                      p \in Players /\ rows[p] = k /\ rows'[p] = k
    <2>1. k # j /\ pc[k] = pc'[k]
      BY <1>1
    <2>2. \A p \in Roster[MatchOf[k]] : p \in Players /\ rows[p] = k
      BY <1>1, <2>1, RosterAssumption, JobsAssumption DEF HoldsItsRows
    <2>3. \A p \in Roster[MatchOf[j]] : rows[p] = j
      BY DEF HoldsItsRows
    <2>4. \A p \in Roster[MatchOf[k]] : rows'[p] = k
      BY <2>1, <2>2 DEF Rollback, Given
    <2>5. QED
      BY <2>1, <2>2, <2>3, <2>4
  <1>2. HoldsItsRows'
    BY <1>1 DEF HoldsItsRows
  <1>3. NotYetProcessed'
    <2> SUFFICES ASSUME NEW k \in Jobs, pc'[k] \in {"load", "rating"}
                 PROVE  MatchOf[k] \notin processed'
      BY DEF NotYetProcessed
    <2>1. MatchOf[k] # MatchOf[j]
      BY <1>1, RosterAssumption, JobsAssumption
    <2>2. QED
      BY <1>1, <2>1 DEF NotYetProcessed, Persist
  <1>4. ReadIsCurrent'
    <2> SUFFICES ASSUME NEW k \in Jobs, pc'[k] = "rating",
                        NEW p \in Roster[MatchOf[k]]
                 PROVE  snap'[k][p] = ladder'[p]
      BY DEF ReadIsCurrent
    <2>1. p \in Players /\ p \notin Roster[MatchOf[j]]
      BY <1>1
    <2>2. ladder'[p] = ladder[p]
      BY <2>1, RosterAssumption, JobsAssumption DEF Persist, Rated
    <2>3. snap'[k] = snap[k]
      BY <1>1 DEF Rollback, TypeOK
    <2>4. QED
      BY <1>1, <2>2, <2>3 DEF ReadIsCurrent
  <1>5. QED
    BY <1>2, <1>3, <1>4

LEMMA StepIInv == IInv /\ [Next]_vars => IInv'
  <1> SUFFICES ASSUME IInv, [Next]_vars PROVE IInv'
    OBVIOUS
  <1> USE DEF IInv, TypeOK, Exclusive, jobVars, dbVars, dlqVars, bounds, Goto,
              End
  <1>1. TypeOK'
    BY StepTypeOK
  <1>2. ASSUME NEW j \in Jobs, Begin(j) PROVE IInv'
    BY <1>1, <1>2, QuietIInv DEF Begin, Enqueue, Drain, TakeDeadLetter
  <1>3. ASSUME NEW j \in Jobs,
               Start(j) \/ Abandon(j) \/ SetFlag(j) \/ Skip(j) \/ GuardFails(j)
        PROVE  IInv'
    BY <1>1, <1>3, QuietIInv DEF Start, Abandon, SetFlag, Skip, GuardFails
  <1>4. ASSUME NEW j \in Jobs, Fetch(j) \/ Filter(j) \/ Stage(j) \/ PassGate(j)
        PROVE  IInv'
    BY <1>1, <1>4, QuietIInv DEF Fetch, Filter, Stage, PassGate
  <1>5. ASSUME NEW j \in Jobs,
               Finish(j) \/ ReleaseFlag(j) \/ Retry(j) \/ DeadLetter(j)
        PROVE  IInv'
    BY <1>1, <1>5, QuietIInv DEF Finish, ReleaseFlag, Retry, DeadLetter
  <1>6. ASSUME NEW j \in Jobs,
               \/ EnqueueRequeue(j) \/ ReleaseFlagFails(j)
               \/ DeadLetterFails(j) \/ RequeueFails(j)
        PROVE  IInv'
    BY <1>1, <1>6, QuietIInv
       DEF EnqueueRequeue, ReleaseFlagFails, DeadLetterFails, RequeueFails
  <1>7. ASSUME NEW p \in Players, ExpireLock(p) PROVE IInv'
    BY <1>1, <1>7, QuietIInv DEF ExpireLock
  <1>8. ASSUME NEW m \in Matches, ExpireFlag(m) \/ Discard(m) PROVE IInv'
    BY <1>1, <1>8, QuietIInv DEF ExpireFlag, Discard
  <1>9. ASSUME NEW j \in Jobs, Unlock(j) \/ Raise(j) PROVE IInv'
    BY <1>1, <1>9, LeaveIInv DEF Unlock, Raise
  <1>10. ASSUME NEW j \in Jobs, Kill(j) \/ Shutdown(j) \/ TimeOut(j) PROVE IInv'
    BY <1>1, <1>10, LeaveIInv DEF Kill, Shutdown, TimeOut
  <1>11. ASSUME NEW j \in Jobs, RegisterRow(j) PROVE IInv'
    <2>1. PICK p \in Players :
             /\ NextRow(j, p)
             /\ rows[p] = Free
             /\ rows' = [rows EXCEPT ![p] = j]
             /\ IF Unregistered(j) = {p} THEN Goto(j, "lock") ELSE UNCHANGED pc
      BY <1>11 DEF RegisterRow
    <2>2. pc[j] = "register" /\ UNCHANGED <<snap, ladder, processed>>
      BY <1>11 DEF RegisterRow
    <2>3. HoldsItsRows'
      <3> SUFFICES ASSUME NEW k \in Jobs, pc'[k] \in Exclusive,
                          NEW q \in Roster[MatchOf[k]]
                   PROVE  rows'[q] = k
        BY DEF HoldsItsRows
      <3>1. q \in Players
        BY RosterAssumption, JobsAssumption
      <3>2. CASE k = j
        <4>1. Unregistered(j) = {p}
          BY <2>1, <2>2, <3>2
        <4>2. QED
          BY <2>1, <3>1, <3>2, <4>1 DEF Unregistered
      <3>3. CASE k # j
        <4>1. rows[q] = k
          BY <2>1, <3>3 DEF HoldsItsRows
        <4>2. q # p
          BY <2>1, <4>1, FreeAssumption
        <4>3. QED
          BY <2>1, <3>1, <4>1, <4>2
      <3>4. QED
        BY <3>2, <3>3
    <2>4. NotYetProcessed' /\ ReadIsCurrent'
      BY <2>1, <2>2 DEF NotYetProcessed, ReadIsCurrent
    <2>5. QED
      BY <1>1, <2>3, <2>4
  <1>12. ASSUME NEW j \in Jobs, AcquireLocks(j) \/ Check(j) PROVE IInv'
    BY <1>1, <1>12
       DEF AcquireLocks, Check, HoldsItsRows, NotYetProcessed, ReadIsCurrent
  <1>13. ASSUME NEW j \in Jobs, Load(j) PROVE IInv'
    <2>1. HoldsItsRows' /\ NotYetProcessed'
      BY <1>13 DEF Load, HoldsItsRows, NotYetProcessed
    <2>2. ReadIsCurrent'
      BY <1>13, RosterAssumption, JobsAssumption DEF Load, ReadIsCurrent
    <2>3. QED
      BY <1>1, <2>1, <2>2
  <1>14. ASSUME NEW j \in Jobs, Commit(j) PROVE IInv'
    BY <1>1, <1>14, CommitIInv DEF Commit
  <1>15. ASSUME NEW j \in Jobs, CommitUnacknowledged(j) PROVE IInv'
    BY <1>1, <1>15, CommitIInv DEF CommitUnacknowledged
  <1>16. CASE UNCHANGED vars
    BY <1>1, <1>16, QuietIInv DEF vars
  <1>17. QED
    BY <1>2, <1>3, <1>4, <1>5, <1>6, <1>7, <1>8, <1>9, <1>10, <1>11, <1>12,
       <1>13, <1>14, <1>15, <1>16 DEF Next, Progress, Mishap

LEMMA AlwaysIInv == Spec => []IInv
  BY InitIInv, StepIInv, PTL DEF Spec

-----------------------------------------------------------------------------
(* Theorems *)

\* Every variable of the write path keeps to its domain, the bounded number of
\* attempts of a job included.
THEOREM TypeCorrect == Spec => []TypeOK
  <1>1. IInv => TypeOK
    BY DEF IInv
  <1>2. QED
    BY <1>1, AlwaysIInv, PTL

\* Every step but a commit leaves the ladder and the processed marks alone.
LEMMA OnlyCommitsWrite ==
    ASSUME [Next]_vars,
           \A j \in Jobs : ~Commit(j) /\ ~CommitUnacknowledged(j)
    PROVE  UNCHANGED <<ladder, processed, before>>
  <1> USE DEF dbVars
  <1>1. ASSUME NEW j \in Jobs, Begin(j)
        PROVE  UNCHANGED <<ladder, processed, before>>
    BY <1>1 DEF Begin, Enqueue, Drain, TakeDeadLetter
  <1>2. ASSUME NEW j \in Jobs, Progress(j), ~Commit(j)
        PROVE  UNCHANGED <<ladder, processed, before>>
    BY <1>2 DEF Progress, Start, Abandon, SetFlag, Skip, Fetch, Filter, Stage,
                PassGate, RegisterRow, AcquireLocks, Check, Load, Unlock, Finish,
                ReleaseFlag, Retry, DeadLetter, EnqueueRequeue
  <1>3. ASSUME NEW j \in Jobs, Mishap(j), ~CommitUnacknowledged(j)
        PROVE  UNCHANGED <<ladder, processed, before>>
    BY <1>3 DEF Mishap, Raise, GuardFails, ReleaseFlagFails, DeadLetterFails,
                RequeueFails, Kill, Shutdown, TimeOut
  <1>4. ASSUME NEW p \in Players, ExpireLock(p)
        PROVE  UNCHANGED <<ladder, processed, before>>
    BY <1>4 DEF ExpireLock
  <1>5. ASSUME NEW m \in Matches, ExpireFlag(m) \/ Discard(m)
        PROVE  UNCHANGED <<ladder, processed, before>>
    BY <1>5 DEF ExpireFlag, Discard
  <1>6. CASE UNCHANGED vars
    BY <1>6 DEF vars
  <1>7. QED
    BY <1>1, <1>2, <1>3, <1>4, <1>5, <1>6 DEF Next

\* A commit rates its match once, for its lobby, on what is committed now.
LEMMA CommitRates ==
    ASSUME IInv, NEW j \in Jobs, Commit(j) \/ CommitUnacknowledged(j)
    PROVE  Ladder!Rate(MatchOf[j])
  <1>1. pc[j] = "rating" /\ MatchOf[j] \notin processed /\ Persist(j)
    BY DEF Commit, CommitUnacknowledged
  <1>2. \A p \in Rated[MatchOf[j]] : snap[j][p] = ladder[p]
    BY <1>1, JobsAssumption DEF IInv, ReadIsCurrent, Rated
  <1>3. QED
    BY <1>1, <1>2 DEF Persist, Ladder!Rate

\* The write path implements the ladder: whatever is redelivered, retried,
\* killed or expired, every committed change is one match rated once.
THEOREM Refinement == Spec => ImplementsLadder
  <1>1. Init => Ladder!Init
    BY DEF Init, Ladder!Init, Unread
  <1>2. IInv /\ [Next]_vars => [Ladder!Next]_<<ladder, processed>>
    <2> SUFFICES ASSUME IInv, [Next]_vars
                 PROVE  Ladder!Next \/ UNCHANGED <<ladder, processed>>
      OBVIOUS
    <2>1. CASE \E j \in Jobs : Commit(j) \/ CommitUnacknowledged(j)
      BY <2>1, CommitRates, JobsAssumption DEF Ladder!Next
    <2>2. CASE \A j \in Jobs : ~Commit(j) /\ ~CommitUnacknowledged(j)
      BY <2>2, OnlyCommitsWrite
    <2>3. QED
      BY <2>1, <2>2
  <1>3. QED
    BY <1>1, <1>2, AlwaysIInv, PTL DEF Spec, ImplementsLadder, Ladder!Spec

\* A prefix stays a prefix when a match is appended.
LEMMA PrefixGrows ==
    ASSUME NEW S, NEW s \in Seq(S), NEW t \in Seq(S), NEW e \in S,
           IsPrefixOf(s, t)
    PROVE  IsPrefixOf(s, Append(t, e))
  BY DEF IsPrefixOf

\* Restore points stay what the ladder was just before their match.
THEOREM RestorePointsHold == Spec => []RestorePoints
  <1>1. Init => RestorePoints
    BY DEF Init, RestorePoints
  <1>2. IInv /\ RestorePoints /\ [Next]_vars => RestorePoints'
    <2> SUFFICES ASSUME IInv, RestorePoints, [Next]_vars PROVE RestorePoints'
      OBVIOUS
    <2> USE DEF IInv, TypeOK
    <2>1. CASE \A j \in Jobs : ~Commit(j) /\ ~CommitUnacknowledged(j)
      BY <2>1, OnlyCommitsWrite DEF RestorePoints
    <2>2. ASSUME NEW j \in Jobs, Commit(j) \/ CommitUnacknowledged(j)
          PROVE  RestorePoints'
      <3> DEFINE m == MatchOf[j]
      <3>1. /\ pc[j] = "rating" /\ m \in Matches /\ m \notin processed
            /\ Persist(j)
        BY <2>2, JobsAssumption DEF Commit, CommitUnacknowledged
      <3>2. \A p \in Roster[m] : p \in Players /\ snap[j][p] = ladder[p]
        BY <3>1, RosterAssumption DEF ReadIsCurrent
      <3>3. \A p \in Players : /\ ladder[p] \in Seq(Matches)
                               /\ ladder'[p] = IF p \in Rated[m]
                                               THEN Append(ladder[p], m)
                                               ELSE ladder[p]
        BY <3>1, <3>2 DEF Persist, Rated, Ratings
      <3>4. ASSUME NEW n \in processed', NEW p \in Roster[n]
            PROVE  IF p \in Rated[n]
                      THEN IsPrefixOf(Append(before'[n][p], n), ladder'[p])
                      ELSE IsPrefixOf(before'[n][p], ladder'[p])
        <4>1. n \in Matches /\ p \in Players
          BY <3>1, RosterAssumption DEF Persist
        <4>2. CASE n = m
          <5>1. before'[n][p] = ladder[p]
            BY <3>1, <3>2, <4>2 DEF Persist
          <5>2. ladder'[p] = IF p \in Rated[m] THEN Append(ladder[p], m)
                             ELSE ladder[p]
            BY <3>3, <4>1
          <5>3. QED
            BY <3>3, <4>1, <4>2, <5>1, <5>2 DEF IsPrefixOf
        <4>3. CASE n # m
          <5>1. n \in processed /\ before'[n] = before[n]
            BY <3>1, <4>3 DEF Persist
          <5>2. before[n][p] \in Seq(Matches)
            BY <4>1 DEF Ratings
          <5>3. IF p \in Rated[n]
                   THEN IsPrefixOf(Append(before[n][p], n), ladder[p])
                   ELSE IsPrefixOf(before[n][p], ladder[p])
            BY <5>1 DEF RestorePoints
          <5>4. CASE p \in Rated[m]
            <6>1. ladder'[p] = Append(ladder[p], m)
              BY <3>3, <4>1, <5>4
            <6>2. Append(before[n][p], n) \in Seq(Matches)
              BY <4>1, <5>2
            <6>3. ladder[p] \in Seq(Matches)
              BY <3>3, <4>1
            <6>4. CASE p \in Rated[n]
              <7>1. IsPrefixOf(Append(before[n][p], n), ladder[p])
                BY <5>3, <6>4
              <7>2. IsPrefixOf(Append(before[n][p], n), Append(ladder[p], m))
                BY <3>1, <6>2, <6>3, <7>1, PrefixGrows
              <7>3. QED
                BY <5>1, <6>1, <6>4, <7>2
            <6>5. CASE p \notin Rated[n]
              <7>1. IsPrefixOf(before[n][p], ladder[p])
                BY <5>3, <6>5
              <7>2. IsPrefixOf(before[n][p], Append(ladder[p], m))
                BY <3>1, <5>2, <6>3, <7>1, PrefixGrows
              <7>3. QED
                BY <5>1, <6>1, <6>5, <7>2
            <6>6. QED
              BY <6>4, <6>5
          <5>5. CASE p \notin Rated[m]
            BY <3>3, <4>1, <5>1, <5>3, <5>5
          <5>6. QED
            BY <5>4, <5>5
        <4>4. QED
          BY <4>2, <4>3
      <3>5. QED
        BY <3>4 DEF RestorePoints
    <2>3. QED
      BY <2>1, <2>2
  <1>3. QED
    BY <1>1, <1>2, AlwaysIInv, PTL DEF Spec

-----------------------------------------------------------------------------
(* Row locks in order *)

\* The rows of a transaction are rows of its lobby, and while it still asks for
\* rows they come before every row it has yet to lock.
RowsInOrder ==
    \A j \in Jobs : \A p \in Players : rows[p] = j =>
        /\ p \in Roster[MatchOf[j]]
        /\ pc[j] \in InTransaction
        /\ pc[j] = "register" => \A q \in Unregistered(j) : p < q

\* Only so many rows are locked: some player comes after all of them.
RowsAreBounded ==
    \E n \in Nat : \A p \in Players : rows[p] # Free => p <= n

RInv == RowsInOrder /\ RowsAreBounded

\* A step that touches no row, and takes no job that holds one out of its
\* transaction or back to the upsert.
LEMMA QuietRInv ==
    ASSUME RInv, UNCHANGED rows,
           \A k \in Jobs : \/ pc'[k] = pc[k]
                           \/ pc[k] \notin InTransaction
                           \/ pc'[k] \in InTransaction \ {"register"}
    PROVE  RInv'
  BY DEF RInv, RowsInOrder, RowsAreBounded, Unregistered

\* A transaction that ends gives all its rows back.
LEMMA LeaveRInv ==
    ASSUME RInv, NEW j \in Jobs, Rollback(j),
           \A k \in Jobs : k # j => pc'[k] = pc[k]
    PROVE  RInv'
  <1>1. \A p \in Players : rows'[p] = IF rows[p] = j THEN Free ELSE rows[p]
    BY DEF Rollback, Given
  <1>2. RowsInOrder'
    <2> SUFFICES ASSUME NEW k \in Jobs, NEW p \in Players, rows'[p] = k
                 PROVE  /\ p \in Roster[MatchOf[k]]
                        /\ pc'[k] \in InTransaction
                        /\ pc'[k] = "register" =>
                              \A q \in Unregistered(k)' : p < q
      BY DEF RowsInOrder
    <2>1. k # j /\ rows[p] = k /\ pc'[k] = pc[k]
      BY <1>1, FreeAssumption
    <2>2. ASSUME NEW q \in Unregistered(k)' PROVE q \in Unregistered(k)
      BY <1>1, <2>1, RosterAssumption, JobsAssumption DEF Unregistered
    <2>3. QED
      BY <2>1, <2>2 DEF RInv, RowsInOrder
  <1>3. RowsAreBounded'
    BY <1>1 DEF RInv, RowsAreBounded
  <1>4. QED
    BY <1>2, <1>3 DEF RInv

\* The next row of an upsert is the least it lacks: it comes after all it has,
\* and before all it will need.
LEMMA RegisterRInv ==
    ASSUME TypeOK, RInv, NEW j \in Jobs, RegisterRow(j)
    PROVE  RInv'
  <1>1. PICK p \in Players :
           /\ NextRow(j, p)
           /\ rows[p] = Free
           /\ rows' = [rows EXCEPT ![p] = j]
           /\ IF Unregistered(j) = {p} THEN Goto(j, "lock") ELSE UNCHANGED pc
    BY DEF RegisterRow
  <1>2. pc[j] = "register" /\ p \in Nat /\ p \in Roster[MatchOf[j]]
    BY <1>1, PlayersAssumption DEF RegisterRow, NextRow, Unregistered
  <1>3. \A q \in Players : rows'[q] = IF q = p THEN j ELSE rows[q]
    BY <1>1 DEF TypeOK
  <1>4. \A k \in Jobs : k # j => pc'[k] = pc[k]
    BY <1>1 DEF Goto, TypeOK
  <1>5. pc'[j] \in {"register", "lock"}
    BY <1>1, <1>2 DEF Goto, TypeOK
  <1>6. \A k \in Jobs : Unregistered(k) \subseteq Players
    BY RosterAssumption, JobsAssumption DEF Unregistered
  <1>7. ASSUME NEW k \in Jobs, NEW q \in Unregistered(k)'
        PROVE  /\ q \in Players
               /\ q # p \/ k # j
               /\ q \in Unregistered(k) \/ q = p
    BY <1>3, RosterAssumption, JobsAssumption DEF Unregistered
  <1>8. RowsInOrder'
    <2> SUFFICES ASSUME NEW k \in Jobs, NEW r \in Players, rows'[r] = k
                 PROVE  /\ r \in Roster[MatchOf[k]]
                        /\ pc'[k] \in InTransaction
                        /\ pc'[k] = "register" =>
                              \A q \in Unregistered(k)' : r < q
      BY DEF RowsInOrder
    <2>1. CASE k = j
      <3>1. r = p \/ rows[r] = j
        BY <1>3, <2>1
      <3>2. r \in Roster[MatchOf[k]]
        BY <1>2, <2>1, <3>1 DEF RInv, RowsInOrder
      <3>3. ASSUME NEW q \in Unregistered(k)' PROVE r < q
        <4>1. q \in Unregistered(j) /\ q # p /\ q \in Nat
          BY <1>7, <2>1, <3>3, PlayersAssumption
        <4>2. CASE r = p
          BY <1>1, <1>2, <4>1, <4>2 DEF NextRow
        <4>3. CASE rows[r] = j
          BY <1>2, <4>1, <4>3 DEF RInv, RowsInOrder
        <4>4. QED
          BY <3>1, <4>2, <4>3
      <3>4. QED
        BY <1>5, <2>1, <3>2, <3>3 DEF InTransaction
    <2>2. CASE k # j
      <3>1. r # p /\ rows[r] = k
        BY <1>3, <2>2
      <3>2. /\ r \in Roster[MatchOf[k]] /\ pc[k] \in InTransaction
            /\ pc[k] = "register" => \A q \in Unregistered(k) : r < q
        BY <3>1 DEF RInv, RowsInOrder
      <3>3. ASSUME NEW q \in Unregistered(k)' PROVE q \in Unregistered(k)
        <4>1. q \in Roster[MatchOf[k]] /\ q \in Players
          BY RosterAssumption, JobsAssumption DEF Unregistered
        <4>2. rows[q] # k
          BY <1>1, <1>3, <3>3, <4>1, FreeAssumption DEF Unregistered
        <4>3. QED
          BY <4>1, <4>2 DEF Unregistered
      <3>4. QED
        BY <1>4, <2>2, <3>2, <3>3
    <2>3. QED
      BY <2>1, <2>2
  <1>9. RowsAreBounded'
    <2>1. PICK n \in Nat : \A q \in Players : rows[q] # Free => q <= n
      BY DEF RInv, RowsAreBounded
    <2>2. \A q \in Players : rows'[q] # Free => q <= n + p
      BY <1>2, <1>3, <2>1, PlayersAssumption
    <2>3. n + p \in Nat
      BY <1>2
    <2>4. QED
      BY <2>2, <2>3 DEF RowsAreBounded
  <1>10. QED
    BY <1>8, <1>9 DEF RInv

LEMMA StepRInv == IInv /\ RInv /\ [Next]_vars => RInv'
  <1> SUFFICES ASSUME TypeOK, RInv, [Next]_vars PROVE RInv'
    BY DEF IInv
  <1> USE DEF Goto, End, jobVars
  <1>1. pc \in [Jobs -> Stages]
    BY DEF TypeOK
  <1>2. ASSUME NEW j \in Jobs, Begin(j) PROVE RInv'
    BY <1>1, <1>2, QuietRInv
       DEF Begin, Enqueue, Drain, TakeDeadLetter, InTransaction
  <1>3. ASSUME NEW j \in Jobs,
               Start(j) \/ Abandon(j) \/ SetFlag(j) \/ Skip(j) \/ GuardFails(j)
        PROVE  RInv'
    BY <1>1, <1>3, QuietRInv
       DEF Start, Abandon, SetFlag, Skip, GuardFails, InTransaction
  <1>4. ASSUME NEW j \in Jobs, Fetch(j) \/ Filter(j) \/ Stage(j) \/ PassGate(j)
        PROVE  RInv'
    BY <1>1, <1>4, QuietRInv DEF Fetch, Filter, Stage, PassGate, InTransaction
  <1>5. ASSUME NEW j \in Jobs,
               Finish(j) \/ ReleaseFlag(j) \/ Retry(j) \/ DeadLetter(j)
        PROVE  RInv'
    BY <1>1, <1>5, QuietRInv
       DEF Finish, ReleaseFlag, Retry, DeadLetter, InTransaction
  <1>6. ASSUME NEW j \in Jobs,
               \/ EnqueueRequeue(j) \/ ReleaseFlagFails(j)
               \/ DeadLetterFails(j) \/ RequeueFails(j)
        PROVE  RInv'
    BY <1>1, <1>6, QuietRInv
       DEF EnqueueRequeue, ReleaseFlagFails, DeadLetterFails, RequeueFails,
           InTransaction
  <1>7. ASSUME NEW j \in Jobs, AcquireLocks(j) \/ Check(j) \/ Load(j) PROVE RInv'
    BY <1>1, <1>7, QuietRInv DEF AcquireLocks, Check, Load, InTransaction
  <1>8. ASSUME NEW j \in Jobs, RegisterRow(j) PROVE RInv'
    BY <1>8, RegisterRInv
  <1>9. ASSUME NEW j \in Jobs, Commit(j) \/ CommitUnacknowledged(j) PROVE RInv'
    BY <1>1, <1>9, LeaveRInv DEF Commit, CommitUnacknowledged
  <1>10. ASSUME NEW j \in Jobs, Unlock(j) \/ Raise(j) PROVE RInv'
    BY <1>1, <1>10, LeaveRInv DEF Unlock, Raise
  <1>11. ASSUME NEW j \in Jobs, Kill(j) \/ Shutdown(j) \/ TimeOut(j) PROVE RInv'
    BY <1>1, <1>11, LeaveRInv DEF Kill, Shutdown, TimeOut
  <1>12. ASSUME NEW p \in Players, ExpireLock(p) PROVE RInv'
    BY <1>12, QuietRInv DEF ExpireLock
  <1>13. ASSUME NEW m \in Matches, ExpireFlag(m) \/ Discard(m) PROVE RInv'
    BY <1>13, QuietRInv DEF ExpireFlag, Discard
  <1>14. CASE UNCHANGED vars
    BY <1>14, QuietRInv DEF vars
  <1>15. QED
    BY <1>2, <1>3, <1>4, <1>5, <1>6, <1>7, <1>8, <1>9, <1>10, <1>11, <1>12,
       <1>13, <1>14 DEF Next, Progress, Mishap

\* A set of numbers under a bound has a greatest one.
LEMMA BoundedHasGreatest ==
    ASSUME NEW S \in SUBSET Nat, S # {}, NEW n \in Nat, \A x \in S : x <= n
    PROVE  \E g \in S : \A x \in S : x <= g
  <1> DEFINE gaps == {n - x : x \in S}
  <1>1. gaps \in SUBSET Nat /\ gaps # {}
    <2>1. ASSUME NEW x \in S PROVE n - x \in Nat
      <3>1. x \in Nat /\ x <= n
        OBVIOUS
      <3>2. QED
        BY <3>1
    <2>2. gaps # {}
      OBVIOUS
    <2>3. \A e \in gaps : e \in Nat
      BY <2>1
    <2>4. QED
      BY <2>2, <2>3
  <1>2. PICK d \in gaps : \A e \in gaps : ~(<<e, d>> \in OpToRel(<, Nat))
    <2> HIDE DEF gaps
    <2>1. QED
      BY <1>1, NatLessThanWellFounded, WFMin
  <1>3. PICK g \in S : d = n - g
    OBVIOUS
  <1>4. ASSUME NEW x \in S, g < x PROVE FALSE
    <2>1. n - x \in gaps /\ <<n - x, d>> \in Nat \X Nat /\ n - x < d
      BY <1>1, <1>3, <1>4
    <2>2. <<n - x, d>> \in OpToRel(<, Nat)
      BY <2>1 DEF OpToRel
    <2>3. QED
      BY <1>2, <2>1, <2>2
  <1>5. QED
    BY <1>4

\* A job that waits in such a circle would be waited for with a greater row than
\* the one it waits for; the greatest row waited for leaves nobody to hold it.
LEMMA NoCircle == RInv => NoRowDeadlock
  <1> SUFFICES ASSUME RInv,
                      NEW D \in (SUBSET Jobs) \ {{}},
                      \A j \in D : \E k \in D : WaitsFor(j, k)
               PROVE  FALSE
    BY DEF NoRowDeadlock
  <1> DEFINE waited == {p \in Players : rows[p] \in D}
  <1>1. PICK n \in Nat : \A p \in Players : rows[p] # Free => p <= n
    BY DEF RInv, RowsAreBounded
  <1>2. \A p \in waited : p \in Nat /\ p <= n
    BY <1>1, PlayersAssumption, FreeAssumption
  <1>3. \A j \in D : \E p \in waited : pc[j] = "register" /\ NextRow(j, p)
    BY DEF WaitsFor
  <1>4. waited # {}
    BY <1>3
  <1>5. PICK g \in waited : \A p \in waited : p <= g
    <2> HIDE DEF waited
    <2>1. waited \in SUBSET Nat
      BY <1>2
    <2>2. QED
      BY <1>2, <1>4, <2>1, BoundedHasGreatest
  <1>6. PICK p \in waited : pc[rows[g]] = "register" /\ NextRow(rows[g], p)
    BY <1>3, <1>5
  <1>7. g < p
    BY <1>5, <1>6 DEF RInv, RowsInOrder, NextRow
  <1>8. QED
    BY <1>2, <1>5, <1>6, <1>7

\* However jobs interleave, fail, die or are retried, no circle of transactions
\* waits for each other's player rows: register_players sorts them.
THEOREM TransactionsNeverDeadlock == Spec => []NoRowDeadlock
  <1>1. Init => RInv
    <2> SUFFICES ASSUME Init PROVE RInv
      OBVIOUS
    <2>1. \A p \in Players : rows[p] = Free
      BY DEF Init
    <2>2. RowsInOrder
      BY <2>1, FreeAssumption DEF RowsInOrder
    <2>3. \A p \in Players : rows[p] # Free => p <= 0
      BY <2>1
    <2>4. QED
      BY <2>2, <2>3 DEF RInv, RowsAreBounded
  <1>2. QED
    BY <1>1, AlwaysIInv, StepRInv, NoCircle, PTL DEF Spec
-----------------------------------------------------------------------------
(* Nothing is lost.  A delivery is skipped on account of a flag, so what has  *)
(* to be known is why the flag is set: its match is written, or filtered, or *)
(* the job that set it still has it.                                        *)

DrainStages == {"register", "lock", "check", "load", "rating", "unlock", "notify"}

\* A drain pass works on a match that is staged until it is rated.
DrainsAreStaged ==
    \A j \in Drains :
        /\ pc[j] \in DrainStages \cup {"absent"}
        /\ pc[j] # "absent" => MatchOf[j] \in staged \cup processed
        /\ pc[j] \in {"unlock", "notify"} => MatchOf[j] \in processed

\* A job that is about to end as staged or rated has written its match.
WrittenIsKept ==
    \A j \in Jobs : pc[j] \in {"unlock", "notify"}
                        => MatchOf[j] \in processed \cup staged

WInv == DrainsAreStaged /\ WrittenIsKept

\* Only the end of a drain pass takes a match from the backlog.
LEMMA StagedShrinksByFinish ==
    ASSUME TypeOK, [Next]_vars, NEW m \in staged, m \notin staged'
    PROVE  \E j \in Drains : Finish(j) /\ m = MatchOf[j]
  <1> USE DEF dbVars
  <1>1. ASSUME NEW j \in Jobs, Begin(j) PROVE FALSE
    BY <1>1 DEF Begin, Enqueue, Drain, TakeDeadLetter
  <1>2. ASSUME NEW j \in Jobs, Progress(j), ~Finish(j) PROVE FALSE
    BY <1>2 DEF Progress, Start, Abandon, SetFlag, Skip, Fetch, Filter, Stage,
                PassGate, RegisterRow, AcquireLocks, Check, Load, Commit, Persist,
                Unlock, ReleaseFlag, Retry, DeadLetter, EnqueueRequeue
  <1>3. ASSUME NEW j \in Jobs, Mishap(j) PROVE FALSE
    BY <1>3 DEF Mishap, Raise, CommitUnacknowledged, Persist, GuardFails,
                ReleaseFlagFails, DeadLetterFails, RequeueFails, Kill, Shutdown,
                TimeOut
  <1>4. ASSUME NEW p \in Players, ExpireLock(p) PROVE FALSE
    BY <1>4 DEF ExpireLock
  <1>5. ASSUME NEW n \in Matches, ExpireFlag(n) \/ Discard(n) PROVE FALSE
    BY <1>5 DEF ExpireFlag, Discard
  <1>6. PICK j \in Jobs : Finish(j)
    BY <1>1, <1>2, <1>3, <1>4, <1>5 DEF Next, vars
  <1>7. QED
    BY <1>6 DEF Finish

\* What is written stays written.
LEMMA WrittenGrows ==
    ASSUME IInv, WInv, [Next]_vars
    PROVE  processed \subseteq processed' /\ staged \cup processed
                                \subseteq staged' \cup processed'
  <1>1. processed \subseteq processed'
    <2>1. CASE \A j \in Jobs : ~Commit(j) /\ ~CommitUnacknowledged(j)
      BY <2>1, OnlyCommitsWrite
    <2>2. ASSUME NEW j \in Jobs, Commit(j) \/ CommitUnacknowledged(j)
          PROVE  processed \subseteq processed'
      BY <2>2 DEF Commit, CommitUnacknowledged, Persist
    <2>3. QED
      BY <2>1, <2>2
  <1>2. ASSUME NEW m \in staged, m \notin staged' PROVE m \in processed
    <2>1. PICK j \in Drains : Finish(j) /\ m = MatchOf[j]
      BY <1>2, StagedShrinksByFinish DEF IInv
    <2>2. QED
      BY <2>1 DEF Finish, WInv, DrainsAreStaged
  <1>3. QED
    BY <1>1, <1>2

\* A step of one job keeps WInv if that job keeps its part of it.
LEMMA OneJobWInv ==
    ASSUME IInv, WInv, [Next]_vars, NEW j \in Jobs,
           \A k \in Jobs : k # j => pc'[k] = pc[k],
           j \in Drains =>
               /\ pc'[j] \in DrainStages \cup {"absent"}
               /\ pc'[j] # "absent" => MatchOf[j] \in staged \cup processed
               /\ pc'[j] \in {"unlock", "notify"} => MatchOf[j] \in processed',
           pc'[j] \in {"unlock", "notify"} => MatchOf[j] \in processed' \cup staged'
    PROVE  WInv'
  <1>1. processed \subseteq processed' /\ staged \cup processed
                                \subseteq staged' \cup processed'
    BY WrittenGrows
  <1>2. DrainsAreStaged'
    <2> SUFFICES ASSUME NEW k \in Drains
                 PROVE  /\ pc'[k] \in DrainStages \cup {"absent"}
                        /\ pc'[k] # "absent" => MatchOf[k] \in staged' \cup processed'
                        /\ pc'[k] \in {"unlock", "notify"} => MatchOf[k] \in processed'
      BY DEF DrainsAreStaged
    <2>1. CASE k = j
      BY <1>1, <2>1
    <2>2. CASE k # j
      BY <1>1, <2>2 DEF WInv, DrainsAreStaged, Jobs
    <2>3. QED
      BY <2>1, <2>2
  <1>3. WrittenIsKept'
    BY <1>1 DEF WInv, WrittenIsKept
  <1>4. QED
    BY <1>2, <1>3 DEF WInv

LEMMA StepWInv == IInv /\ WInv /\ [Next]_vars => WInv'
  <1> SUFFICES ASSUME IInv, WInv, [Next]_vars PROVE WInv'
    OBVIOUS
  <1> USE JobsAssumption DEF IInv, TypeOK, DrainStages, Goto, End, Jobs
  <1>1. ASSUME NEW j \in Jobs, Begin(j) PROVE WInv'
    BY <1>1, OneJobWInv DEF Begin, Enqueue, Drain, TakeDeadLetter
  <1>2. ASSUME NEW j \in Jobs,
               \/ Start(j) \/ Abandon(j) \/ SetFlag(j) \/ Skip(j) \/ Fetch(j)
               \/ Filter(j) \/ PassGate(j) \/ ReleaseFlag(j) \/ Retry(j)
               \/ DeadLetter(j) \/ EnqueueRequeue(j)
        PROVE  WInv'
    BY <1>2, OneJobWInv
       DEF Start, Abandon, SetFlag, Skip, Fetch, Filter, PassGate, ReleaseFlag,
           Retry, DeadLetter, EnqueueRequeue, WInv, DrainsAreStaged
  <1>3. ASSUME NEW j \in Jobs, Stage(j) PROVE WInv'
    BY <1>3, OneJobWInv DEF Stage, WInv, DrainsAreStaged
  <1>4. ASSUME NEW j \in Jobs, RegisterRow(j) PROVE WInv'
    <2>1. pc'[j] \in {"register", "lock"}
             /\ pc[j] = "register"
             /\ \A k \in Jobs : k # j => pc'[k] = pc[k]
      BY <1>4 DEF RegisterRow
    <2>2. QED
      BY <2>1, OneJobWInv DEF WInv, DrainsAreStaged
  <1>5. ASSUME NEW j \in Jobs, AcquireLocks(j) \/ Check(j) \/ Load(j) PROVE WInv'
    <2>1. CASE AcquireLocks(j)
      BY <2>1, OneJobWInv DEF AcquireLocks, dbVars, WInv, DrainsAreStaged
    <2>2. CASE Check(j)
      BY <2>2, OneJobWInv DEF Check, dbVars, WInv, DrainsAreStaged
    <2>3. CASE Load(j)
      BY <2>3, OneJobWInv DEF Load, dbVars, WInv, DrainsAreStaged
    <2>4. QED
      BY <1>5, <2>1, <2>2, <2>3
  <1>6. ASSUME NEW j \in Jobs, Commit(j) \/ CommitUnacknowledged(j) PROVE WInv'
    <2>1. /\ pc[j] = "rating" /\ processed' = processed \cup {MatchOf[j]}
          /\ pc'[j] \in {"unlock", "absent", "failing"}
          /\ j \in Drains => pc'[j] # "failing"
          /\ \A k \in Jobs : k # j => pc'[k] = pc[k]
      <3>1. CASE Commit(j)
        BY <3>1 DEF Commit, Persist
      <3>2. CASE CommitUnacknowledged(j)
        BY <3>2 DEF CommitUnacknowledged, Persist
      <3>3. QED
        BY <1>6, <3>1, <3>2
    <2>2. QED
      BY <2>1, OneJobWInv DEF WInv, DrainsAreStaged
  <1>7. ASSUME NEW j \in Jobs, Unlock(j) PROVE WInv'
    <2>1. /\ pc[j] = "unlock" /\ pc'[j] = "notify"
          /\ UNCHANGED <<processed, staged>>
          /\ \A k \in Jobs : k # j => pc'[k] = pc[k]
      BY <1>7 DEF Unlock, dbVars
    <2>2. QED
      BY <2>1, OneJobWInv DEF WInv, DrainsAreStaged, WrittenIsKept
  <1>8. ASSUME NEW j \in Jobs, Finish(j) PROVE WInv'
    BY <1>8, OneJobWInv DEF Finish, WInv, DrainsAreStaged
  <1>9. ASSUME NEW j \in Jobs,
               \/ Raise(j) \/ GuardFails(j) \/ ReleaseFlagFails(j)
               \/ DeadLetterFails(j) \/ RequeueFails(j) \/ Kill(j) \/ Shutdown(j)
               \/ TimeOut(j)
        PROVE  WInv'
    <2>1. /\ pc'[j] \in {"absent", "failing", "fetch", "classify", "queued", "done"}
          /\ j \in Drains => pc'[j] = "absent"
          /\ \A k \in Jobs : k # j => pc'[k] = pc[k]
      BY <1>9 DEF Raise, GuardFails, ReleaseFlagFails, DeadLetterFails,
                  RequeueFails, Kill, Shutdown, TimeOut, WInv, DrainsAreStaged
    <2>2. QED
      BY <2>1, OneJobWInv
  <1>10. ASSUME UNCHANGED <<pc, processed, staged>> PROVE WInv'
    BY <1>10 DEF WInv, DrainsAreStaged, WrittenIsKept
  <1>11. ASSUME NEW p \in Players, ExpireLock(p) PROVE WInv'
    BY <1>10, <1>11 DEF ExpireLock, jobVars, dbVars
  <1>12. ASSUME NEW m \in Matches, ExpireFlag(m) \/ Discard(m) PROVE WInv'
    BY <1>10, <1>12 DEF ExpireFlag, Discard, jobVars, dbVars
  <1>13. CASE UNCHANGED vars
    BY <1>10, <1>13 DEF vars
  <1>14. QED
    BY <1>1, <1>2, <1>3, <1>4, <1>5, <1>6, <1>7, <1>8, <1>9, <1>11, <1>12,
       <1>13 DEF Next, Progress, Mishap

LEMMA AlwaysWInv == Spec => []WInv
  <1>1. Init => WInv
    BY DEF Init, WInv, DrainsAreStaged, WrittenIsKept, Jobs
  <1>2. QED
    BY <1>1, StepWInv, AlwaysIInv, PTL DEF Spec

\* A match leaves the backlog only when it is rated, whatever drain pass fails,
\* dies or overlaps with another job of the match.
THEOREM BacklogIsKept == Spec => StagedUntilRated
  <1> DEFINE Kept == \A m \in staged \ staged' : m \in processed
  <1>1. IInv /\ WInv /\ [Next]_vars => [Kept]_vars
    <2> SUFFICES ASSUME IInv, WInv, [Next]_vars, NEW m \in staged, m \notin staged'
                 PROVE  m \in processed
      OBVIOUS
    <2>1. PICK j \in Drains : Finish(j) /\ m = MatchOf[j]
      BY StagedShrinksByFinish DEF IInv
    <2>2. QED
      BY <2>1 DEF Finish, WInv, DrainsAreStaged
  <1>2. QED
    BY <1>1, AlwaysIInv, AlwaysWInv, PTL DEF Spec, StagedUntilRated

-----------------------------------------------------------------------------
(* Losses.  From here on nothing was interrupted and no Redis command failed. *)

Calm == interrupts = 0 /\ faults = 0

\* Stages in which a job has the flag of its match.
FlagStages == {"fetch", "gate", "register", "lock", "check", "load", "rating",
               "unlock", "notify", "failing"}

\* Who may be the reason for the flag of match m.
Answers(j, m) ==
    /\ MatchOf[j] = m
    /\ \/ j \notin Drains /\ pc[j] \in FlagStages
       \/ outcome[j] = "filtered"

\* A flag that is set has a reason.
FlagIsOwned ==
    \A m \in flag : m \in processed \cup staged \/ \E j \in Jobs : Answers(j, m)

\* A filtered job is over, so its outcome stays.
FilteredIsOver == \A j \in Jobs : outcome[j] = "filtered" => pc[j] = "done"

\* A job that waits in the queue has an attempt left.
TriesLeft ==
    \A j \in Jobs \ Drains :
        /\ pc[j] \in {"absent", "requeueing"} => tries[j] = 0
        /\ pc[j] = "queued" => tries[j] < MaxTries

KnownIsAccounted == \A m \in Matches : Known(m) => Accounted(m)

LInv ==
    /\ FilteredIsOver
    /\ Calm => FlagIsOwned /\ TriesLeft /\ KnownIsAccounted

\* Mishaps other than an exception are no part of a calm run.
LEMMA CalmMishaps ==
    ASSUME TypeOK, Calm', NEW j \in Jobs, Mishap(j)
    PROVE  Raise(j)
  BY BoundsAssumption
     DEF TypeOK, Calm, Mishap, CommitUnacknowledged, GuardFails, ReleaseFlagFails,
         DeadLetterFails, RequeueFails, Kill, Shutdown, TimeOut

\* Calm is only left, never entered.
LEMMA StaysCalm == ASSUME TypeOK, [Next]_vars, Calm' PROVE Calm
  <1> USE DEF Calm
  <1>1. ASSUME NEW j \in Jobs, Begin(j) PROVE Calm
    BY <1>1 DEF Begin, Enqueue, Drain, TakeDeadLetter, bounds
  <1>2. ASSUME NEW j \in Jobs, Progress(j) PROVE Calm
    BY <1>2 DEF Progress, Start, Abandon, SetFlag, Skip, Fetch, Filter, Stage,
                PassGate, RegisterRow, AcquireLocks, Check, Load, Commit, Unlock,
                Finish, ReleaseFlag, Retry, DeadLetter, EnqueueRequeue, bounds
  <1>3. ASSUME NEW j \in Jobs, Mishap(j) PROVE Calm
    BY <1>3, CalmMishaps DEF Raise, bounds
  <1>4. ASSUME NEW p \in Players, ExpireLock(p) PROVE Calm
    BY <1>4 DEF ExpireLock, bounds
  <1>5. ASSUME NEW m \in Matches, ExpireFlag(m) \/ Discard(m) PROVE Calm
    BY <1>5 DEF ExpireFlag, Discard, bounds
  <1>6. CASE UNCHANGED vars
    BY <1>6 DEF vars
  <1>7. QED
    BY <1>1, <1>2, <1>3, <1>4, <1>5, <1>6 DEF Next

\* A step of one job keeps the books if it leaves its own match accounted for,
\* and sets or keeps the flag of its match only with a reason.
LEMMA OneJobLInv ==
    ASSUME IInv, WInv, LInv, [Next]_vars, NEW j \in Jobs,
           \A k \in Jobs : k # j => /\ pc'[k] = pc[k] /\ outcome'[k] = outcome[k]
                                    /\ tries'[k] = tries[k],
           outcome'[j] = "filtered" => pc'[j] = "done",
           flag' \subseteq flag \cup {MatchOf[j]},
           \A m \in Matches : m # MatchOf[j] => dlq'[m] = dlq[m],
           discarded' = discarded,
           Calm /\ Calm' =>
               /\ j \notin Drains =>
                      /\ pc'[j] \in {"absent", "requeueing"} => tries'[j] = 0
                      /\ pc'[j] = "queued" => tries'[j] < MaxTries
               /\ Accounted(MatchOf[j])'
               /\ MatchOf[j] \in flag' =>
                      \/ MatchOf[j] \in processed' \cup staged'
                      \/ \E k \in Jobs : Answers(k, MatchOf[j])'
    PROVE  LInv'
  <1>1. processed \subseteq processed' /\ staged \cup processed
                                \subseteq staged' \cup processed'
    BY WrittenGrows
  <1>2. FilteredIsOver'
    BY DEF LInv, FilteredIsOver
  <1> SUFFICES ASSUME Calm' PROVE (FlagIsOwned /\ TriesLeft /\ KnownIsAccounted)'
    BY <1>2 DEF LInv
  <1>3. Calm /\ FlagIsOwned /\ TriesLeft /\ KnownIsAccounted
    BY StaysCalm DEF LInv, IInv
  <1>4. FlagIsOwned'
    <2> SUFFICES ASSUME NEW m \in flag', m \notin processed' \cup staged'
                 PROVE  \E k \in Jobs : Answers(k, m)'
      BY DEF FlagIsOwned
    <2>1. CASE m = MatchOf[j]
      BY <1>3, <2>1
    <2>2. CASE m # MatchOf[j]
      <3>1. PICK k \in Jobs : Answers(k, m)
        BY <1>1, <1>3, <2>2 DEF FlagIsOwned
      <3>2. k # j
        BY <2>2, <3>1 DEF Answers
      <3>3. Answers(k, m)'
        BY <3>1, <3>2 DEF Answers
      <3>4. QED
        BY <3>3
    <2>3. QED
      BY <2>1, <2>2
  <1>5. TriesLeft'
    BY <1>3 DEF TriesLeft
  <1>6. KnownIsAccounted'
    <2> SUFFICES ASSUME NEW m \in Matches, Known(m)' PROVE Accounted(m)'
      BY DEF KnownIsAccounted
    <2>1. CASE m = MatchOf[j]
      BY <1>3, <2>1
    <2>2. CASE m # MatchOf[j]
      <3>1. PICK d \in Discoveries : MatchOf[d] = m /\ pc'[d] # "absent"
        BY DEF Known
      <3>2. d \in Jobs /\ d # j
        BY <2>2, <3>1 DEF Jobs
      <3>3. Accounted(m)
        BY <1>3, <3>1, <3>2 DEF Known, KnownIsAccounted
      <3>4. CASE \E k \in Jobs : MatchOf[k] = m /\ (Live(k) \/ outcome[k] = "filtered")
        <4>1. PICK k \in Jobs : MatchOf[k] = m /\ (Live(k) \/ outcome[k] = "filtered")
          BY <3>4
        <4>2. k # j
          BY <2>2, <4>1
        <4>3. Live(k)' \/ outcome'[k] = "filtered"
          BY <4>1, <4>2 DEF Live
        <4>4. QED
          BY <4>1, <4>3 DEF Accounted
      <3>5. QED
        BY <1>1, <2>2, <3>3, <3>4 DEF Accounted
    <2>3. QED
      BY <2>1, <2>2
  <1>7. QED
    BY <1>3, <1>4, <1>5, <1>6

\* The reason for the flag of the match of job j survives a step of j, if j is
\* not the reason or remains it.
LEMMA ReasonStays ==
    ASSUME IInv, WInv, [Next]_vars, FlagIsOwned, NEW j \in Jobs,
           \A k \in Jobs : k # j => pc'[k] = pc[k] /\ outcome'[k] = outcome[k],
           MatchOf[j] \in flag,
           Answers(j, MatchOf[j]) => Answers(j, MatchOf[j])'
    PROVE  \/ MatchOf[j] \in processed' \cup staged'
           \/ \E k \in Jobs : Answers(k, MatchOf[j])'
  <1>1. staged \cup processed \subseteq staged' \cup processed'
    BY WrittenGrows
  <1>2. CASE MatchOf[j] \in processed \cup staged
    BY <1>1, <1>2
  <1>3. ASSUME NEW k \in Jobs, Answers(k, MatchOf[j])
        PROVE  Answers(k, MatchOf[j])'
    BY <1>3 DEF Answers
  <1>4. QED
    BY <1>2, <1>3 DEF FlagIsOwned

\* A step that leaves job j live, touches no flag and takes it out of no stage
\* with the flag.
LEMMA LiveLInv ==
    ASSUME IInv, WInv, LInv, [Next]_vars, NEW j \in Jobs,
           \A k \in Jobs : k # j => /\ pc'[k] = pc[k] /\ outcome'[k] = outcome[k]
                                    /\ tries'[k] = tries[k],
           pc[j] # "done", Live(j)', outcome'[j] # "filtered",
           pc[j] \in FlagStages => pc'[j] \in FlagStages,
           flag' = flag, discarded' = discarded,
           \A m \in Matches : m # MatchOf[j] => dlq'[m] = dlq[m],
           Calm /\ j \notin Drains =>
               /\ pc'[j] \in {"absent", "requeueing"} => tries'[j] = 0
               /\ pc'[j] = "queued" => tries'[j] < MaxTries
    PROVE  LInv'
  <1>1. Accounted(MatchOf[j])'
    BY DEF Accounted
  <1>2. Answers(j, MatchOf[j]) => Answers(j, MatchOf[j])'
    BY DEF LInv, FilteredIsOver, Answers
  <1>3. Calm /\ MatchOf[j] \in flag =>
            \/ MatchOf[j] \in processed' \cup staged'
            \/ \E k \in Jobs : Answers(k, MatchOf[j])'
    BY <1>2, ReasonStays DEF LInv
  <1>4. QED
    BY <1>1, <1>3, OneJobLInv

LEMMA StepLInv == IInv /\ WInv /\ LInv /\ [Next]_vars => LInv'
  <1> SUFFICES ASSUME IInv, WInv, LInv, [Next]_vars PROVE LInv'
    OBVIOUS
  <1> USE JobsAssumption, BoundsAssumption
      DEF IInv, TypeOK, Goto, End, Jobs, dbVars, dlqVars, bounds
  <1>1. \A j \in Jobs : outcome[j] = "filtered" => pc[j] = "done"
    BY DEF LInv, FilteredIsOver
  <1>2. \A j \in Drains : pc[j] \in DrainStages \cup {"absent"}
    BY DEF WInv, DrainsAreStaged
  <1>3. ASSUME NEW j \in Jobs, Begin(j) PROVE LInv'
    <2>1. /\ pc[j] = "absent" /\ pc'[j] \in {"queued", "register", "requeueing"}
          /\ pc'[j] = "register" <=> j \in Drains
          /\ UNCHANGED <<outcome, tries, flag, discarded>>
          /\ \A k \in Jobs : k # j => pc'[k] = pc[k]
          /\ \A m \in Matches : m # MatchOf[j] => dlq'[m] = dlq[m]
      BY <1>3 DEF Begin, Enqueue, Drain, TakeDeadLetter
    <2>2. Live(j)'
      BY <2>1 DEF Live, Running
    <2>3. Calm /\ j \notin Drains => tries'[j] = 0 /\ tries'[j] < MaxTries
      BY <2>1 DEF LInv, TriesLeft
    <2>4. QED
      BY <1>1, <2>1, <2>2, <2>3, LiveLInv DEF FlagStages
  <1>4. ASSUME NEW j \in Jobs, Start(j) \/ EnqueueRequeue(j) \/ Retry(j)
        PROVE  LInv'
    <2>1. /\ pc[j] \in {"queued", "requeueing", "classify"}
          /\ pc'[j] \in {"guard", "queued"}
          /\ UNCHANGED <<outcome, flag, discarded, dlq>>
          /\ \A k \in Jobs : k # j => pc'[k] = pc[k] /\ tries'[k] = tries[k]
          /\ pc'[j] = "queued" => tries'[j] = tries[j]
          /\ pc[j] = "classify" => tries[j] < MaxTries
          /\ pc[j] = "queued" => pc'[j] = "guard"
      BY <1>4 DEF Start, EnqueueRequeue, Retry
    <2>2. Live(j)'
      BY <2>1 DEF Live, Running
    <2>3. Calm /\ j \notin Drains /\ pc'[j] = "queued" => tries'[j] < MaxTries
      BY <2>1 DEF LInv, TriesLeft
    <2>4. QED
      BY <1>1, <2>1, <2>2, <2>3, LiveLInv DEF FlagStages
  <1>5. ASSUME NEW j \in Jobs,
               \/ Fetch(j) \/ Stage(j) \/ PassGate(j) \/ AcquireLocks(j)
               \/ Check(j) \/ Load(j) \/ RegisterRow(j) \/ Commit(j) \/ Unlock(j)
        PROVE  LInv'
    <2>1. /\ pc[j] \in FlagStages
          /\ pc'[j] \in FlagStages \ {"failing"}
          /\ UNCHANGED <<tries, flag, discarded, dlq>>
          /\ \A k \in Jobs : k # j => pc'[k] = pc[k] /\ outcome'[k] = outcome[k]
          /\ outcome'[j] \in {outcome[j], "staged", "already_processed", "processed"}
      BY <1>5 DEF Fetch, Stage, PassGate, AcquireLocks, Check, Load, RegisterRow,
                  Commit, Unlock, FlagStages
    <2>2. Live(j)' /\ pc[j] # "done" /\ outcome'[j] # "filtered"
      BY <1>1, <2>1 DEF Live, Running, FlagStages
    <2>3. QED
      BY <2>1, <2>2, LiveLInv DEF FlagStages
  <1>6. ASSUME NEW j \in Jobs, Abandon(j) PROVE LInv'
    <2>1. ~Calm
      BY <1>2, <1>6 DEF Abandon, LInv, TriesLeft, DrainStages
    <2>2. QED
      BY <1>1, <1>6, <2>1, OneJobLInv DEF Abandon
  <1>7. ASSUME NEW j \in Jobs, SetFlag(j) PROVE LInv'
    <2>1. /\ pc[j] = "guard" /\ pc'[j] = "fetch" /\ j \notin Drains
          /\ flag' = flag \cup {MatchOf[j]}
          /\ UNCHANGED <<outcome, tries, discarded, dlq>>
          /\ \A k \in Jobs : k # j => pc'[k] = pc[k]
      BY <1>2, <1>7 DEF SetFlag, DrainStages
    <2>2. Accounted(MatchOf[j])' /\ Answers(j, MatchOf[j])'
      BY <2>1 DEF Accounted, Live, Running, Answers, FlagStages
    <2>3. QED
      BY <1>1, <2>1, <2>2, OneJobLInv
  <1>8. ASSUME NEW j \in Jobs, Skip(j) PROVE LInv'
    <2>1. /\ pc[j] = "guard" /\ MatchOf[j] \in flag /\ pc'[j] = "done"
          /\ outcome'[j] = "skipped"
          /\ UNCHANGED <<tries, flag, discarded, dlq, processed, staged>>
          /\ \A k \in Jobs : k # j => pc'[k] = pc[k] /\ outcome'[k] = outcome[k]
      BY <1>8 DEF Skip
    <2>2. ~Answers(j, MatchOf[j])
      BY <1>1, <2>1 DEF Answers, FlagStages
    <2>3. ASSUME Calm
          PROVE  \/ MatchOf[j] \in processed' \cup staged'
                 \/ \E k \in Jobs : Answers(k, MatchOf[j])'
      BY <2>1, <2>2, <2>3, ReasonStays DEF LInv
    <2>4. ASSUME NEW k \in Jobs, Answers(k, MatchOf[j])'
          PROVE  Accounted(MatchOf[j])'
      BY <2>4 DEF Answers, Accounted, Live, Running, FlagStages
    <2>5. Calm => Accounted(MatchOf[j])'
      BY <2>3, <2>4 DEF Accounted
    <2>6. QED
      BY <2>1, <2>3, <2>5, OneJobLInv
  <1>9. ASSUME NEW j \in Jobs, Filter(j) PROVE LInv'
    <2>1. /\ pc'[j] = "done" /\ outcome'[j] = "filtered"
          /\ UNCHANGED <<tries, flag, discarded, dlq>>
          /\ \A k \in Jobs : k # j => pc'[k] = pc[k] /\ outcome'[k] = outcome[k]
      BY <1>9 DEF Filter
    <2>2. Accounted(MatchOf[j])' /\ Answers(j, MatchOf[j])'
      BY <2>1 DEF Accounted, Answers
    <2>3. QED
      BY <2>1, <2>2, OneJobLInv
  <1>10. ASSUME NEW j \in Jobs, Finish(j) PROVE LInv'
    <2>1. /\ pc[j] = "notify" /\ pc'[j] \in {"done", "absent"}
          /\ j \in Drains <=> pc'[j] = "absent"
          /\ UNCHANGED <<outcome, tries, flag, discarded, dlq, processed>>
          /\ \A k \in Jobs : k # j => pc'[k] = pc[k]
      BY <1>10 DEF Finish
    <2>2. MatchOf[j] \in processed' \cup staged'
      BY <2>1, WrittenGrows DEF WInv, WrittenIsKept
    <2>3. Accounted(MatchOf[j])'
      BY <2>2 DEF Accounted
    <2>4. QED
      BY <1>1, <2>1, <2>2, <2>3, OneJobLInv
  <1>11. ASSUME NEW j \in Jobs, ReleaseFlag(j) PROVE LInv'
    <2>1. /\ pc[j] = "failing" /\ pc'[j] = "classify"
          /\ flag' = flag \ {MatchOf[j]}
          /\ UNCHANGED <<outcome, tries, discarded, dlq>>
          /\ \A k \in Jobs : k # j => pc'[k] = pc[k]
      BY <1>11 DEF ReleaseFlag
    <2>2. Accounted(MatchOf[j])'
      BY <2>1 DEF Accounted, Live, Running
    <2>3. QED
      BY <1>1, <2>1, <2>2, OneJobLInv
  <1>12. ASSUME NEW j \in Jobs, DeadLetter(j) PROVE LInv'
    <2>1. /\ pc[j] = "classify" /\ pc'[j] = "done" /\ outcome'[j] = "dead_lettered"
          /\ dlq' = [dlq EXCEPT ![MatchOf[j]] = @ + 1]
          /\ UNCHANGED <<tries, flag, discarded>>
          /\ \A k \in Jobs : k # j => pc'[k] = pc[k] /\ outcome'[k] = outcome[k]
      BY <1>12 DEF DeadLetter
    <2>2. MatchOf[j] \in Matches
      OBVIOUS
    <2>3. dlq'[MatchOf[j]] > 0 /\ \A m \in Matches : m # MatchOf[j] => dlq'[m] = dlq[m]
      BY <2>1, <2>2
    <2>4. ~Answers(j, MatchOf[j])
      BY <1>1, <2>1 DEF Answers, FlagStages
    <2>5. Calm /\ MatchOf[j] \in flag =>
              \/ MatchOf[j] \in processed' \cup staged'
              \/ \E k \in Jobs : Answers(k, MatchOf[j])'
      BY <2>1, <2>4, ReasonStays DEF LInv
    <2>6. Accounted(MatchOf[j])'
      BY <2>3 DEF Accounted
    <2>7. QED
      BY <2>1, <2>3, <2>5, <2>6, OneJobLInv
  <1>13. ASSUME NEW j \in Jobs, Raise(j), j \notin Drains PROVE LInv'
    <2>1. /\ pc[j] # "done" /\ pc'[j] = "failing" /\ outcome'[j] = "none"
          /\ UNCHANGED <<tries, flag, discarded, dlq>>
          /\ \A k \in Jobs : k # j => pc'[k] = pc[k] /\ outcome'[k] = outcome[k]
      BY <1>13 DEF Raise
    <2>2. QED
      BY <2>1, LiveLInv DEF Live, Running, FlagStages
  <1>14. ASSUME NEW j \in Jobs, Raise(j), j \in Drains PROVE LInv'
    <2>1. /\ pc[j] # "absent" /\ pc'[j] = "absent" /\ outcome'[j] = "none"
          /\ UNCHANGED <<tries, flag, discarded, dlq>>
          /\ \A k \in Jobs : k # j => pc'[k] = pc[k] /\ outcome'[k] = outcome[k]
      BY <1>14 DEF Raise
    <2>2. MatchOf[j] \in processed' \cup staged'
      BY <1>14, <2>1, WrittenGrows DEF WInv, DrainsAreStaged
    <2>3. Accounted(MatchOf[j])'
      BY <2>2 DEF Accounted
    <2>4. QED
      BY <1>14, <2>1, <2>2, <2>3, OneJobLInv
  <1>15. ASSUME NEW j \in Jobs, Mishap(j), ~Raise(j) PROVE LInv'
    <2>1. ~Calm'
      BY <1>15, CalmMishaps
    <2>2. /\ \A k \in Jobs : k # j => pc'[k] = pc[k] /\ outcome'[k] = outcome[k]
          /\ outcome'[j] # "filtered"
      BY <1>1, <1>15
         DEF Mishap, CommitUnacknowledged, GuardFails, ReleaseFlagFails,
             DeadLetterFails, RequeueFails, Kill, Shutdown, TimeOut, Running
    <2>3. QED
      BY <1>1, <2>1, <2>2 DEF LInv, FilteredIsOver
  <1>16. ASSUME UNCHANGED <<jobVars, processed, staged, bounds>>,
                flag' \subseteq flag, discarded \subseteq discarded',
                \A m \in Matches : dlq[m] > 0 => dlq'[m] > 0 \/ m \in discarded'
         PROVE  LInv'
    <2>1. Calm' => Calm
      BY StaysCalm
    <2>2. QED
      BY <1>16, <2>1
         DEF jobVars, LInv, FilteredIsOver, FlagIsOwned, TriesLeft, KnownIsAccounted,
             Answers, Known, Accounted, Live
  <1>17. ASSUME NEW p \in Players, ExpireLock(p) PROVE LInv'
    BY <1>16, <1>17 DEF ExpireLock
  <1>18. ASSUME NEW m \in Matches, ExpireFlag(m) \/ Discard(m) PROVE LInv'
    BY <1>16, <1>18 DEF ExpireFlag, Discard
  <1>19. CASE UNCHANGED vars
    BY <1>16, <1>19 DEF vars, jobVars
  <1>20. QED
    BY <1>3, <1>4, <1>5, <1>6, <1>7, <1>8, <1>9, <1>10, <1>11, <1>12, <1>13,
       <1>14, <1>15, <1>17, <1>18, <1>19 DEF Next, Progress

\* As long as only exceptions, duplicates and retries happen, every match that
\* discovery enqueued is rated, staged, filtered, discarded, on the dead-letter
\* list or with a job.
THEOREM NoLoss == Spec => []FailuresLoseNothing
  <1>1. Init => LInv
    BY JobsAssumption, BoundsAssumption
       DEF Init, LInv, FilteredIsOver, FlagIsOwned, TriesLeft, KnownIsAccounted,
           Known, Jobs
  <1>2. LInv => FailuresLoseNothing
    BY DEF LInv, Calm, KnownIsAccounted, FailuresLoseNothing
  <1>3. QED
    BY <1>1, <1>2, StepLInv, AlwaysIInv, AlwaysWInv, PTL DEF Spec
=============================================================================
