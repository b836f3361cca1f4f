---------------------------- MODULE Refill_proofs ----------------------------
(***************************************************************************)
(* Proofs about Refill for any players, matches, lobbies and bounds.  The   *)
(* invariants the runs check are not inductive: a player whose claim is     *)
(* repeated is safe because the claim itself is accounted for, without the  *)
(* newborn set, and an imported player because of every id ever claimed,    *)
(* whoever claimed it.                                                     *)
(***************************************************************************)
EXTENDS Refill, FiniteSetTheorems, TLAPS

\* Matches that are on their way into the ladder, or in it, or that a failure
\* took away.
Accounted ==
    queue \cup backlog \cup rated \cup missed \cup UNION {hold[q] : q \in Players}

\* A claim leads to the pending list and from there to the end of an import.
ClaimsAreKept == claimed \subseteq pending \cup InFlight \cup imported \cup lost

\* A registered player is claimed, or somebody is about to claim it.
KnownAreClaimed == known \subseteq claimed \cup newborn \cup lost

\* Who sees a match claimed in seen_matches may rely on the claimant.
SeenIsAccounted == seen \subseteq Accounted

\* An import holds ids from its listing to its push only, so that a listing
\* overwrites nothing.
HoldsAfterListing ==
    \A p \in Players : stage[p] \in {"none", "listing"} => hold[p] = {}

\* The import of a player that was listed whole, over or not, leaves no gap.
WholeIsAccounted ==
    \A p \in Players : stage[p] = "whole" \/ p \in imported
                          => Listed(p) \subseteq Accounted

IInv ==
    /\ TypeOK /\ OneShot
    /\ ClaimsAreKept /\ KnownAreClaimed
    /\ SeenIsAccounted /\ WholeIsAccounted
    /\ HoldsAfterListing

-----------------------------------------------------------------------------
(* Types *)

LEMMA CountType ==
    ASSUME NEW S \in SUBSET Players
    PROVE  Cardinality(S) \in 0 .. Cardinality(Players)
  <1>1. IsFiniteSet(S) /\ Cardinality(S) <= Cardinality(Players)
    BY PlayersAssumption, FS_Subset
  <1>2. Cardinality(S) \in Nat /\ Cardinality(Players) \in Nat
    BY <1>1, PlayersAssumption, FS_CardinalityType
  <1>3. QED
    BY <1>1, <1>2

LEMMA PassesType ==
    ASSUME TypeOK, tick # NoTick, NEW waiting \in BOOLEAN
    PROVE  Passes(waiting) \in 0 .. Streak
  BY NumbersAssumption DEF TypeOK, Passes

\* A lobby is a set of players.
LEMMA LobbyType == \A m \in Matches : Lobby[m] \in SUBSET Players
  BY LobbyAssumption

LEMMA ListedType == \A p \in Players : Listed(p) \in SUBSET Matches
  BY DEF Listed, History

LEMMA InitTypeOK == Init => TypeOK
  <1>1. 0 \in 0 .. Cardinality(Players)
    BY PlayersAssumption, FS_CardinalityType
  <1>2. 0 \in 0 .. Streak /\ 0 \in 0 .. MaxAttempts - 1
    BY NumbersAssumption
  <1>3. 0 \in 0 .. MaxOrders /\ 0 \in 0 .. MaxFaults
    BY NumbersAssumption
  <1>4. SUFFICES ASSUME Init PROVE TypeOK
    OBVIOUS
  <1>5. orders \in 0 .. MaxOrders /\ faults \in 0 .. MaxFaults
    BY <1>3, <1>4 DEF Init
  <1>6. QED
    BY <1>1, <1>2, <1>4, <1>5 DEF Init, TypeOK, Modes, Processes

LEMMA StepTypeOK == TypeOK /\ [Next]_vars => TypeOK'
  <1> SUFFICES ASSUME TypeOK, [Next]_vars PROVE TypeOK'
    OBVIOUS
  <1> USE NumbersAssumption, SubsetsAssumption
      DEF TypeOK, Modes, Processes, state, redis, import, history, bounds
  <1>a. ASSUME Order PROVE orders' \in 0 .. MaxOrders /\ faults' \in 0 .. MaxFaults
    BY <1>a DEF Order
  <1>b. ASSUME Fault PROVE orders' \in 0 .. MaxOrders /\ faults' \in 0 .. MaxFaults
    BY <1>b DEF Fault
  <1>1. CASE Request \/ Stop
    BY <1>a, <1>1 DEF Request, Stop
  <1>2. CASE TickSeeds \/ TickSeedFails
    <2>1. cache' \in [Processes -> Modes]
      BY <1>2 DEF TickSeeds, TickSeedFails, Sees
    <2>2. orders' \in 0 .. MaxOrders /\ faults' \in 0 .. MaxFaults
      BY <1>b, <1>2 DEF TickSeeds, TickSeedFails
    <2>3. claimed' \subseteq Players /\ pending' \subseteq Players
      BY <1>2 DEF TickSeeds, TickSeedFails, SeedsQueued
    <2>4. lost' \subseteq Players
      BY <1>2 DEF TickSeeds, TickSeedFails
    <2>5. quiet' \in 0 .. Streak
      <3>1. quiet' \in {quiet, 0}
        BY <1>2 DEF TickSeeds, TickSeedFails
      <3>2. QED
        BY <3>1
    <2>6. UNCHANGED <<mode, frontier, known, newborn, attempts, seen, queue,
                      stage, hold, backlog, rated, tick, imported, missed>>
      BY <1>2 DEF TickSeeds, TickSeedFails
    <2>7. seeded' \in {TRUE, seeded}
      BY <1>2 DEF TickSeeds, TickSeedFails
    <2>8. QED
      BY <2>1, <2>2, <2>3, <2>4, <2>5, <2>6, <2>7
  <1>3. CASE TickCounts
    <2>1. tick' \in [players : 0 .. Cardinality(Players), empty : BOOLEAN]
      BY <1>3, CountType DEF TickCounts
    <2>2. QED
      BY <1>3, <2>1 DEF TickCounts, Sees
  <1>4. CASE TickConcludes
    <2>1. quiet' \in 0 .. Streak
      BY <1>4, PassesType DEF TickConcludes, Concludes
    <2>2. frontier' \in 0 .. Cardinality(Players)
      BY <1>4 DEF TickConcludes, Concludes
    <2>3. mode' \in Modes /\ cache' \in [Processes -> Modes]
      BY <1>4 DEF TickConcludes, Concludes, GoesLive
    <2>4. orders' \in 0 .. MaxOrders /\ faults' \in 0 .. MaxFaults
      BY <1>b, <1>4 DEF TickConcludes
    <2>5. QED
      BY <1>4, <2>1, <2>2, <2>3, <2>4 DEF TickConcludes
  <1>5. CASE TickAborts
    <2>1. quiet' \in 0 .. Streak
      BY <1>5, PassesType DEF TickAborts
    <2>2. QED
      BY <1>5, <2>1 DEF TickAborts, Fault
  <1>6. ASSUME NEW p \in Players, Pop(p) PROVE TypeOK'
    BY <1>6 DEF Pop
  <1>7. ASSUME NEW p \in Players, List(p) PROVE TypeOK'
    BY <1>7, ListedType DEF List, Fault
  <1>8. ASSUME NEW p \in Players, Push(p)
        PROVE  /\ queue' \in SUBSET Matches /\ missed' \in SUBSET Matches
               /\ seen' \in SUBSET Matches
               /\ hold' \in [Players -> SUBSET Matches]
               /\ stage' \in [Players -> {"none", "listing", "whole", "partial"}]
               /\ orders' \in 0 .. MaxOrders /\ faults' \in 0 .. MaxFaults
    BY <1>8 DEF Push, Fault
  <1>9. ASSUME NEW p \in Players, Complete(p) PROVE TypeOK'
    BY <1>8, <1>9 DEF Complete
  <1>10. ASSUME NEW p \in Players, RetryOrDrop(p) PROVE TypeOK'
    <2>1. attempts' \in [Players -> 0 .. MaxAttempts - 1]
      BY <1>10 DEF RetryOrDrop
    <2>2. QED
      BY <1>8, <1>10, <2>1 DEF RetryOrDrop
  <1>11. ASSUME NEW p \in Players, EnqueueNew(p) \/ EnqueueNewFails(p)
         PROVE  TypeOK'
    BY <1>11 DEF EnqueueNew, EnqueueNewFails, Claim, Fault
  <1>12. CASE ImportAborts
    BY <1>12 DEF ImportAborts, InFlight, Fault
  <1>13. ASSUME NEW m \in Matches, Sweep(m) \/ SeenExpires(m) PROVE TypeOK'
    BY <1>13 DEF Sweep, SeenExpires
  <1>14. ASSUME NEW m \in Matches, JobSkips(m) \/ JobStages(m) \/ JobFails(m)
         PROVE  TypeOK'
    BY <1>14 DEF JobSkips, JobStages, JobFails, Sees, Fault
  <1>15. ASSUME NEW m \in Matches, JobRates(m) PROVE TypeOK'
    BY <1>15, LobbyType DEF JobRates, Sees, Rate, Fault
  <1>16. ASSUME NEW m \in Matches, Drain(m) \/ Unstage(m) PROVE TypeOK'
    BY <1>16, LobbyType DEF Drain, Unstage, Rate
  <1>17. CASE UNCHANGED vars
    BY <1>17 DEF vars
  <1>18. QED
    BY <1>1, <1>2, <1>3, <1>4, <1>5, <1>6, <1>7, <1>9, <1>10, <1>11, <1>12,
       <1>13, <1>14, <1>15, <1>16, <1>17 DEF Next

-----------------------------------------------------------------------------
(* Players *)

PlayersInv == OneShot /\ ClaimsAreKept /\ KnownAreClaimed

\* The steps that leave the books of the players alone.
LEMMA QuietPlayersInv ==
    ASSUME PlayersInv,
           UNCHANGED <<known, newborn, claimed, pending, stage, imported, lost>>
    PROVE  PlayersInv'
  BY DEF PlayersInv, OneShot, ClaimsAreKept, KnownAreClaimed, InFlight

\* A rating registers its lobby; who is new waits for enqueue_backfill.
LEMMA RatePlayersInv ==
    ASSUME PlayersInv, NEW m \in Matches, Rate(m),
           UNCHANGED <<claimed, pending, stage, imported, lost>>
    PROVE  PlayersInv'
  BY DEF PlayersInv, OneShot, ClaimsAreKept, KnownAreClaimed, InFlight, Rate

LEMMA StepPlayersInv == TypeOK /\ PlayersInv /\ [Next]_vars => PlayersInv'
  <1> SUFFICES ASSUME TypeOK, PlayersInv, [Next]_vars PROVE PlayersInv'
    OBVIOUS
  <1> USE DEF TypeOK, state, redis, import, history, bounds
  <1>1. CASE Request \/ Stop
    BY <1>1, QuietPlayersInv DEF Request, Stop
  <1>2. CASE TickSeeds \/ TickSeedFails
    BY <1>2 DEF TickSeeds, TickSeedFails, SeedsQueued, PlayersInv, OneShot,
                ClaimsAreKept, KnownAreClaimed, InFlight
  <1>3. CASE TickCounts \/ TickConcludes \/ TickAborts
    BY <1>3, QuietPlayersInv DEF TickCounts, TickConcludes, TickAborts
  <1>4. ASSUME NEW p \in Players, Pop(p) PROVE PlayersInv'
    BY <1>4 DEF Pop, PlayersInv, OneShot, ClaimsAreKept, KnownAreClaimed, InFlight
  <1>5. ASSUME NEW p \in Players, List(p) PROVE PlayersInv'
    <2>1. InFlight' = InFlight
      BY <1>5 DEF List, InFlight
    <2>2. QED
      BY <1>5, <2>1 DEF List, PlayersInv, OneShot, ClaimsAreKept, KnownAreClaimed
  <1>6. ASSUME NEW p \in Players, Push(p), stage[p] # "none"
        PROVE  InFlight' = InFlight \ {p} /\ p \in InFlight
    BY <1>6 DEF Push, InFlight
  <1>7. ASSUME NEW p \in Players, Complete(p) PROVE PlayersInv'
    BY <1>6, <1>7 DEF Complete, PlayersInv, OneShot, ClaimsAreKept, KnownAreClaimed
  <1>8. ASSUME NEW p \in Players, RetryOrDrop(p) PROVE PlayersInv'
    BY <1>6, <1>8 DEF RetryOrDrop, PlayersInv, OneShot, ClaimsAreKept,
                      KnownAreClaimed
  <1>9. ASSUME NEW p \in Players, EnqueueNew(p) \/ EnqueueNewFails(p)
        PROVE  PlayersInv'
    BY <1>9 DEF EnqueueNew, EnqueueNewFails, Claim, PlayersInv, OneShot,
                ClaimsAreKept, KnownAreClaimed, InFlight
  <1>10. CASE ImportAborts
    BY <1>10 DEF ImportAborts, PlayersInv, OneShot, ClaimsAreKept,
                 KnownAreClaimed, InFlight
  <1>11. ASSUME NEW m \in Matches,
                \/ Sweep(m) \/ SeenExpires(m) \/ JobSkips(m) \/ JobStages(m)
                \/ JobFails(m) \/ Unstage(m)
         PROVE  PlayersInv'
    BY <1>11, QuietPlayersInv
       DEF Sweep, SeenExpires, JobSkips, JobStages, JobFails, Unstage
  <1>12. ASSUME NEW m \in Matches, JobRates(m) \/ Drain(m) PROVE PlayersInv'
    BY <1>12, RatePlayersInv DEF JobRates, Drain
  <1>13. CASE UNCHANGED vars
    BY <1>13, QuietPlayersInv DEF vars
  <1>14. QED
    BY <1>1, <1>2, <1>3, <1>4, <1>5, <1>7, <1>8, <1>9, <1>10, <1>11, <1>12,
       <1>13 DEF Next

-----------------------------------------------------------------------------
(* Matches *)

MatchesInv == SeenIsAccounted /\ WholeIsAccounted /\ HoldsAfterListing

\* What is accounted for stays so, and a step that lists nobody and completes
\* only whole listings keeps the books of the matches.
LEMMA QuietMatchesInv ==
    ASSUME MatchesInv, Accounted \subseteq Accounted', seen' \subseteq Accounted',
           \A p \in Players : stage'[p] = "whole" \/ p \in imported'
                                => stage[p] = "whole" \/ p \in imported,
           HoldsAfterListing'
    PROVE  MatchesInv'
  BY DEF MatchesInv, SeenIsAccounted, WholeIsAccounted, Listed, History

\* The ids an import holds go to the queue, or a failure takes them.
LEMMA PushAccounts ==
    ASSUME TypeOK, NEW p \in Players, Push(p), UNCHANGED <<backlog, rated>>
    PROVE  Accounted \subseteq Accounted' /\ seen' \subseteq seen
  <1>1. seen' \subseteq seen
    BY DEF Push
  <1>2. \A q \in Players : q # p => hold'[q] = hold[q]
    BY DEF Push, TypeOK
  <1>3. hold[p] \subseteq queue' \cup missed'
    BY DEF Push
  <1>4. queue \subseteq queue' /\ missed \subseteq missed'
    BY DEF Push
  <1>5. QED
    BY <1>1, <1>2, <1>3, <1>4 DEF Accounted

\* A player is popped while it is in no import, so its hands are empty: here
\* the matches depend on the players.
LEMMA StepMatchesInv ==
    TypeOK /\ OneShot /\ MatchesInv /\ [Next]_vars => MatchesInv'
  <1> SUFFICES ASSUME TypeOK, OneShot, MatchesInv, [Next]_vars PROVE MatchesInv'
    OBVIOUS
  <1> USE DEF state, redis, import, history, bounds
  <1>1. seen \subseteq Accounted /\ HoldsAfterListing /\ WholeIsAccounted
    BY DEF MatchesInv, SeenIsAccounted
  <1>2. ASSUME UNCHANGED <<seen, queue, import, backlog, rated, imported, missed>>
        PROVE  MatchesInv'
    BY <1>2 DEF MatchesInv, SeenIsAccounted, WholeIsAccounted, Accounted,
                Listed, History, HoldsAfterListing
  <1>3. ASSUME UNCHANGED <<import, imported>>, seen' \subseteq Accounted',
               Accounted \subseteq Accounted'
        PROVE  MatchesInv'
    BY <1>1, <1>3, QuietMatchesInv DEF HoldsAfterListing
  <1>4. CASE \/ Request \/ Stop
             \/ TickSeeds \/ TickSeedFails
             \/ TickCounts \/ TickConcludes \/ TickAborts
    BY <1>2, <1>4
       DEF Request, Stop, TickSeeds, TickSeedFails, TickCounts, TickConcludes,
           TickAborts, SeedsQueued
  <1>5. ASSUME NEW p \in Players, Pop(p) PROVE MatchesInv'
    <2>1. Accounted' = Accounted /\ UNCHANGED <<seen, imported>>
      BY <1>5 DEF Pop, Accounted
    <2>2. \A q \in Players : stage'[q] = "whole" => stage[q] = "whole"
      BY <1>5 DEF Pop, TypeOK
    <2>3. HoldsAfterListing'
      <3>1. stage[p] = "none" /\ hold[p] = {}
        BY <1>1, <1>5 DEF Pop, OneShot, InFlight, TypeOK, HoldsAfterListing
      <3>2. QED
        BY <1>1, <1>5, <3>1 DEF Pop, TypeOK, HoldsAfterListing
    <2>4. QED
      BY <1>1, <2>1, <2>2, <2>3, QuietMatchesInv
  <1>6. ASSUME NEW p \in Players, List(p) PROVE MatchesInv'
    <2>1. PICK ids \in SUBSET Listed(p), skipped \in SUBSET Matches :
             /\ stage' = [stage EXCEPT ![p] = IF ids = Listed(p) THEN "whole"
                                                                ELSE "partial"]
             /\ seen' \subseteq seen \cup ids
             /\ hold' = [hold EXCEPT ![p] = ids \ (seen \cup skipped)]
             /\ missed' = missed \cup skipped
      <3>1. \A ids \in SUBSET Listed(p) : ids \ seen \in SUBSET Matches
        BY ListedType
      <3>2. QED
        BY <1>6, <3>1 DEF List
    <2>2. UNCHANGED <<queue, backlog, rated, imported>>
      BY <1>6 DEF List
    <2>3. hold[p] = {} /\ hold'[p] = ids \ (seen \cup skipped)
      BY <1>1, <1>6, <2>1 DEF List, HoldsAfterListing, TypeOK
    <2>4. \A q \in Players : q # p => hold'[q] = hold[q] /\ stage'[q] = stage[q]
      BY <2>1 DEF TypeOK
    <2>5. Accounted \subseteq Accounted'
      BY <2>1, <2>2, <2>3, <2>4 DEF Accounted
    <2>6. ids \subseteq Accounted' /\ seen' \subseteq Accounted'
      BY <1>1, <2>1, <2>3, <2>5 DEF Accounted
    <2>7. WholeIsAccounted'
      <3> SUFFICES ASSUME NEW q \in Players, stage'[q] = "whole" \/ q \in imported'
                   PROVE  Listed(q)' \subseteq Accounted'
        BY DEF WholeIsAccounted
      <3>1. CASE q = p /\ stage'[p] = "whole"
        <4>1. ids = Listed(p)
          BY <2>1, <3>1 DEF TypeOK
        <4>2. QED
          BY <2>6, <3>1, <4>1 DEF Listed, History
      <3>2. CASE stage[q] = "whole" \/ q \in imported
        BY <1>1, <2>5, <3>2 DEF WholeIsAccounted, Listed, History
      <3>3. QED
        BY <2>2, <2>4, <3>1, <3>2
    <2>8. stage'[p] \in {"whole", "partial"}
      BY <2>1 DEF TypeOK
    <2>9. HoldsAfterListing'
      <3> SUFFICES ASSUME NEW q \in Players, stage'[q] \in {"none", "listing"}
                   PROVE  hold'[q] = {}
        BY DEF HoldsAfterListing
      <3>1. q # p
        BY <2>8
      <3>2. QED
        BY <1>1, <2>4, <3>1 DEF HoldsAfterListing
    <2>10. QED
      BY <2>6, <2>7, <2>9 DEF MatchesInv, SeenIsAccounted
  <1>7. ASSUME NEW p \in Players, Push(p), UNCHANGED <<backlog, rated>>
        PROVE  /\ Accounted \subseteq Accounted' /\ seen' \subseteq Accounted'
               /\ HoldsAfterListing' /\ stage'[p] = "none"
               /\ \A q \in Players : q # p => stage'[q] = stage[q]
    <2>1. Accounted \subseteq Accounted' /\ seen' \subseteq seen
      BY <1>7, PushAccounts
    <2>2. stage' = [stage EXCEPT ![p] = "none"] /\ hold' = [hold EXCEPT ![p] = {}]
      BY <1>7 DEF Push
    <2>3. QED
      BY <1>1, <2>1, <2>2 DEF TypeOK, HoldsAfterListing
  <1>8. ASSUME NEW p \in Players, Complete(p) PROVE MatchesInv'
    <2>1. Push(p) /\ UNCHANGED <<backlog, rated>> /\ stage[p] = "whole"
             /\ imported' = imported \cup {p}
      BY <1>8 DEF Complete
    <2>2. \A q \in Players : stage'[q] = "whole" \/ q \in imported'
                               => stage[q] = "whole" \/ q \in imported
      BY <1>7, <2>1
    <2>3. QED
      BY <1>7, <2>1, <2>2, QuietMatchesInv
  <1>9. ASSUME NEW p \in Players, RetryOrDrop(p) PROVE MatchesInv'
    <2>1. Push(p) /\ UNCHANGED <<backlog, rated, imported>>
      BY <1>9 DEF RetryOrDrop
    <2>2. \A q \in Players : stage'[q] = "whole" \/ q \in imported'
                               => stage[q] = "whole" \/ q \in imported
      BY <1>7, <2>1
    <2>3. QED
      BY <1>7, <2>1, <2>2, QuietMatchesInv
  <1>10. ASSUME NEW p \in Players, EnqueueNew(p) \/ EnqueueNewFails(p)
         PROVE  MatchesInv'
    BY <1>2, <1>10 DEF EnqueueNew, EnqueueNewFails
  <1>11. CASE ImportAborts
    <2>1. Accounted \subseteq Accounted' /\ UNCHANGED <<seen, imported>>
      BY <1>11 DEF ImportAborts, Accounted
    <2>2. HoldsAfterListing' /\ \A q \in Players : stage'[q] \in {stage[q], "none"}
      BY <1>1, <1>11 DEF ImportAborts, HoldsAfterListing
    <2>3. QED
      BY <1>1, <2>1, <2>2, QuietMatchesInv
  <1>12. ASSUME NEW m \in Matches,
                \/ Sweep(m) \/ SeenExpires(m) \/ JobSkips(m) \/ JobStages(m)
                \/ JobRates(m) \/ JobFails(m) \/ Drain(m) \/ Unstage(m)
         PROVE  MatchesInv'
    <2>1. UNCHANGED <<import, imported>>
      BY <1>12 DEF Sweep, SeenExpires, JobSkips, JobStages, JobRates, JobFails,
                   Drain, Unstage
    <2>2. Accounted \subseteq Accounted' /\ seen' \subseteq Accounted'
      BY <1>1, <1>12
         DEF Sweep, SeenExpires, JobSkips, JobStages, JobRates, JobFails, Drain,
             Unstage, Rate, Accounted
    <2>3. QED
      BY <1>3, <2>1, <2>2
  <1>13. CASE UNCHANGED vars
    BY <1>2, <1>13 DEF vars
  <1>14. QED
    BY <1>4, <1>5, <1>6, <1>8, <1>9, <1>10, <1>11, <1>12, <1>13 DEF Next

-----------------------------------------------------------------------------
(* The theorems *)

LEMMA InitIInv == Init => IInv
  <1>1. Init => TypeOK
    BY InitTypeOK
  <1>2. Init => PlayersInv /\ MatchesInv
    BY DEF Init, PlayersInv, OneShot, ClaimsAreKept, KnownAreClaimed, InFlight,
           MatchesInv, SeenIsAccounted, WholeIsAccounted, HoldsAfterListing
  <1>3. QED
    BY <1>1, <1>2 DEF IInv, PlayersInv, MatchesInv

LEMMA AlwaysIInv == Spec => []IInv
  <1>1. IInv /\ [Next]_vars => IInv'
    BY StepTypeOK, StepPlayersInv, StepMatchesInv DEF IInv, PlayersInv, MatchesInv
  <1>2. QED
    BY InitIInv, <1>1, PTL DEF Spec

\* Every variable of the refill keeps to its domain: the streak of quiet passes
\* and the attempts of an import stay below their limits.
THEOREM TypeCorrect == Spec => []TypeOK
  <1>1. IInv => TypeOK
    BY DEF IInv
  <1>2. QED
    BY <1>1, AlwaysIInv, PTL

\* A player is imported once (SADD in enqueue_backfill), whoever registers or
\* seeds it again and whatever fails.
THEOREM ImportedOnce == Spec => []OneShot
  <1>1. IInv => OneShot
    BY DEF IInv
  <1>2. QED
    BY <1>1, AlwaysIInv, PTL

\* No player that was registered or claimed leaves the import without a failure.
THEOREM KeepsPlayers == Spec => []NobodyIsForgotten
  <1>1. IInv => NobodyIsForgotten
    BY DEF IInv, ClaimsAreKept, KnownAreClaimed, NobodyIsForgotten
  <1>2. QED
    BY <1>1, AlwaysIInv, PTL

\* A completed import left no match behind, claimed by itself or by others,
\* though seen_matches may forget its claims at any time.
THEOREM KeepsMatches == Spec => []ImportedIsOnItsWay
  <1>1. IInv => ImportedIsOnItsWay
    BY DEF IInv, TypeOK, OneShot, WholeIsAccounted, Accounted, ImportedIsOnItsWay
  <1>2. QED
    BY <1>1, AlwaysIInv, PTL
=============================================================================
