------------------------ MODULE ChronoReplay_proofs ------------------------
(***************************************************************************)
(* Proofs about ChronoReplay, for any matches, lobbies and tolerances.  The  *)
(* invariant is about sequences that a replay may rewind to, the ladder and  *)
(* the restore points: where such a sequence is a beginning of what its       *)
(* player has played, the restore points of all matches in it are exact.     *)
(***************************************************************************)
EXTENDS ChronoReplay, FiniteSetTheorems, SequenceTheorems, TLAPS

-----------------------------------------------------------------------------
(* The inductive invariant *)

\* The matches of a set that were played before m.
Earlier(m, S) == {n \in S : PlayedAt[n] < PlayedAt[m]}

\* v folds a beginning of S, in order.
Begins(v, S) ==
    /\ InOrder(v)
    /\ Folded(v) \subseteq S
    /\ \A m \in Folded(v) : Earlier(m, S) \subseteq Folded(v)

\* v, as a state before m, holds exactly what of S was played before m.
Precedes(v, m, S) == InOrder(v) /\ Folded(v) = Earlier(m, S)

\* m is rated, on top of exactly what p played before it.
Exact(m, p) == m \in rated /\ Precedes(before[m][p], m, Of(p, facts))

\* A replay may rewind p to v.
Safe(v, p) == Begins(v, Of(p, facts)) => \A m \in Folded(v) : Exact(m, p)

\* v, as a state before m, does not hold m - unless it is out of order anyway.
Without(v, m) == InOrder(v) => m \notin Folded(v)

\* m is the next match of p that the replay will rate.
NextOf(m, p) ==
    /\ m \in Of(p, Folded(todo))
    /\ \A n \in Of(p, Folded(todo)) : PlayedAt[m] <= PlayedAt[n]

\* The ratings and restore points fold matches that were committed.
RatingsTyped ==
    /\ ladder \in [Players -> Seq(facts)]
    /\ DOMAIN before = Matches
    /\ \A m \in Matches : DOMAIN before[m] \subseteq Roster[m]
    /\ \A m \in rated : before[m] \in [Roster[m] -> Seq(facts)]

\* A live job that has read the ratings of its lobby is about to commit a match
\* that was not committed yet; lobbies that share a player take turns.
JobsHold ==
    /\ DOMAIN read = Matches
    /\ \A m \in Matches : DOMAIN read[m] \subseteq Roster[m]
    /\ \A m \in Matches :
          /\ job[m] \in {"absent", "rating"} => m \notin facts
          /\ job[m] = "rating" => read[m] \in [Roster[m] -> Seq(facts)]
    /\ \A m, n \in Matches :
          job[m] = "rating" /\ job[n] = "rating" /\ Overlapping(m, n) => m = n

\* What every stage of a replay has in its hands.
StagesHold ==
    /\ todo \in Seq(facts) /\ InOrder(todo)
    /\ stage \in {"idle", "closing"} => todo = <<>>
    /\ stage \in {"built", "loading", "writing"} => todo # <<>>
    /\ stage = "built" => Folded(todo) \subseteq Window(since)
    /\ stage \in {"idle", "built", "closing"} => draft = Nothing /\ wiped = {}
    /\ wiped = {} => draft = Nothing
    /\ DOMAIN draft \subseteq Players /\ draft \in [DOMAIN draft -> Seq(facts)]
    /\ stage = "writing" => current \in [Roster[Head(todo)] -> Seq(facts)]
    /\ DOMAIN current \subseteq Players
    /\ stage = "idle" => trusted = {}

\* What is read for a match is what the session sees while no live match meets
\* the replay.
ReadsAreFresh ==
    stage = "writing" =>
        /\ apart => current = [p \in Roster[Head(todo)] |-> Session(p)]
        /\ \A p \in trusted \cap Roster[Head(todo)] : current[p] = Session(p)

Typed ==
    /\ TypeOK
    /\ IsFiniteSet(facts)
    /\ RatingsTyped
    /\ JobsHold
    /\ StagesHold
    /\ ReadsAreFresh

\* A live match that is about to commit has read what is committed.
JobsFit ==
    \A m \in Matches : job[m] = "rating" =>
        stage = "idle" /\ \A p \in Roster[m] : read[m][p] = ladder[p]

\* Whatever a replay may rewind to is safe.
PointsAreSafe ==
    /\ \A p \in Players : Safe(ladder[p], p)
    /\ \A m \in rated : \A p \in Roster[m] :
          Safe(before[m][p], p) /\ Without(before[m][p], m)

\* What a replay has still to rate is its window, or not rated any more.
RewindFits ==
    /\ stage = "built" \/ wiped # {} => Folded(todo) = Window(since)
    /\ wiped # {} => wiped = Window(since) /\ draft = Restored(wiped)
    /\ stage \in {"loading", "writing"} /\ wiped = {} =>
          /\ Folded(todo) \cap rated = {}
          /\ \A p \in Players, m \in Matches : NextOf(m, p) => Without(ladder[p], m)

\* While live matches and replays keep apart.
ApartHolds == apart => JobsFit /\ PointsAreSafe /\ RewindFits

\* What a replay may be trusted with are players all of whose matches are
\* rated ...
TrustedStart(p) ==
    /\ Of(p, facts) \subseteq rated
    /\ Of(p, Folded(todo)) = Of(p, Window(since))
    /\ since # None => Orderly(p) /\ \A m \in Of(p, facts) : Exact(m, p)

\* ... and what it has not rated again of such a player is the end of its
\* matches; the player has the rest, in order.
TrustedWork(p) ==
    /\ Of(p, facts) \subseteq rated \cup Folded(todo)
    /\ wiped # {} => /\ Of(p, facts) \subseteq rated
                     /\ Of(p, wiped) = Of(p, Folded(todo))
                     /\ Of(p, Window(since)) = Of(p, Folded(todo))
    /\ \A m \in Of(p, facts \ Folded(todo)), n \in Of(p, Folded(todo)) :
          PlayedAt[m] < PlayedAt[n]
    /\ InOrder(Session(p)) /\ Folded(Session(p)) = Of(p, facts \ Folded(todo))
    /\ since = None => \A m \in Of(p, facts \ Folded(todo)) : Exact(m, p)

\* No live match that is about to commit is one of such a player.
TrustedHolds ==
    \A p \in trusted :
        /\ \A m \in Matches : job[m] = "rating" => p \notin Roster[m]
        /\ IF stage = "built" THEN TrustedStart(p) ELSE TrustedWork(p)

IInv == Typed /\ ApartHolds /\ TrustedHolds

-----------------------------------------------------------------------------
(* Sequences of matches *)

LEMMA PlayedAtIsNat == \A m \in Matches : PlayedAt[m] \in Nat /\ PlayedAt[m] > 0
  BY PlayedAtAssumption

\* Nothing folds nothing.
LEMMA FoldedEmpty == Folded(<<>>) = {} /\ InOrder(<<>>)
  BY DEF Folded, InOrder

\* What a sequence folds is of its type.
LEMMA FoldedType ==
    ASSUME NEW S, NEW s \in Seq(S)
    PROVE  /\ Folded(s) \subseteq S
           /\ \A i \in 1 .. Len(s) : s[i] \in Folded(s)
           /\ \A x \in Folded(s) : \E i \in 1 .. Len(s) : x = s[i]
  BY DEF Folded

\* One more match at the end.
LEMMA FoldedAppend ==
    ASSUME NEW S \in SUBSET Matches, NEW s \in Seq(S), NEW m \in S
    PROVE  /\ Append(s, m) \in Seq(S)
           /\ Folded(Append(s, m)) = Folded(s) \cup {m}
           /\ InOrder(Append(s, m)) <=>
                  InOrder(s) /\ \A x \in Folded(s) : PlayedAt[x] < PlayedAt[m]
  <1> DEFINE t == Append(s, m)
  <1>1. /\ t \in Seq(S) /\ Len(s) \in Nat /\ Len(t) = Len(s) + 1
        /\ \A i \in 1 .. Len(s) : t[i] = s[i]
        /\ t[Len(s) + 1] = m
    BY AppendProperties, LenProperties
  <1> HIDE DEF t
  <1>2. Folded(t) = Folded(s) \cup {m}
    <2>1. ASSUME NEW x \in Folded(t) PROVE x \in Folded(s) \cup {m}
      <3>1. PICK i \in 1 .. Len(t) : x = t[i]
        BY <2>1 DEF Folded
      <3>2. i \in 1 .. Len(s) \/ i = Len(s) + 1
        BY <1>1, <3>1
      <3>3. QED
        BY <1>1, <3>1, <3>2 DEF Folded
    <2>2. ASSUME NEW x \in Folded(s) PROVE x \in Folded(t)
      <3>1. PICK i \in 1 .. Len(s) : x = s[i]
        BY <2>2 DEF Folded
      <3>2. i \in 1 .. Len(t)
        BY <1>1
      <3>3. QED
        BY <1>1, <3>1, <3>2 DEF Folded
    <2>3. Len(s) + 1 \in 1 .. Len(t)
      BY <1>1
    <2>4. m \in Folded(t)
      BY <1>1, <2>3 DEF Folded
    <2>5. QED
      BY <2>1, <2>2, <2>4
  <1>3. ASSUME InOrder(t)
        PROVE  InOrder(s) /\ \A x \in Folded(s) : PlayedAt[x] < PlayedAt[m]
    <2>1. \A i \in 1 .. Len(s) : i \in 1 .. Len(t) /\ i < Len(s) + 1
      BY <1>1
    <2>2. Len(s) + 1 \in 1 .. Len(t)
      BY <1>1
    <2>3. InOrder(s)
      BY <1>1, <1>3, <2>1 DEF InOrder
    <2>4. \A i \in 1 .. Len(s) : PlayedAt[s[i]] < PlayedAt[m]
      BY <1>1, <1>3, <2>1, <2>2 DEF InOrder
    <2>5. QED
      BY <2>3, <2>4 DEF Folded
  <1>4. ASSUME InOrder(s), \A x \in Folded(s) : PlayedAt[x] < PlayedAt[m]
        PROVE  InOrder(t)
    <2> SUFFICES ASSUME NEW i \in 1 .. Len(t), NEW j \in 1 .. Len(t), i < j
                 PROVE  PlayedAt[t[i]] < PlayedAt[t[j]]
      BY DEF InOrder
    <2>1. i \in 1 .. Len(s) /\ (j \in 1 .. Len(s) \/ j = Len(s) + 1)
      BY <1>1
    <2>2. s[i] \in Folded(s)
      BY <2>1 DEF Folded
    <2>3. CASE j \in 1 .. Len(s)
      BY <1>1, <1>4, <2>1, <2>3 DEF InOrder
    <2>4. CASE j = Len(s) + 1
      BY <1>1, <1>4, <2>1, <2>2, <2>4
    <2>5. QED
      BY <2>1, <2>3, <2>4
  <1>5. QED
    BY <1>1, <1>2, <1>3, <1>4 DEF t

\* The first of a sequence in order is the earliest of it.
LEMMA FoldedTail ==
    ASSUME NEW S \in SUBSET Matches, NEW s \in Seq(S), s # <<>>, InOrder(s)
    PROVE  /\ Head(s) \in S /\ Tail(s) \in Seq(S)
           /\ InOrder(Tail(s))
           /\ Folded(s) = {Head(s)} \cup Folded(Tail(s))
           /\ Head(s) \notin Folded(Tail(s))
           /\ \A x \in Folded(Tail(s)) : PlayedAt[Head(s)] < PlayedAt[x]
  <1> DEFINE t == Tail(s)
  <1>1. /\ Head(s) = s[1] /\ Head(s) \in S /\ t \in Seq(S)
        /\ Len(s) \in Nat /\ Len(s) >= 1 /\ Len(t) = Len(s) - 1
        /\ \A i \in 1 .. Len(t) : t[i] = s[i + 1]
    BY HeadTailProperties, EmptySeq, LenProperties
  <1> HIDE DEF t
  <1>2. \A i \in 1 .. Len(t) : i + 1 \in 1 .. Len(s)
    BY <1>1
  <1>3. \A i \in 1 .. Len(s) : i = 1 \/ (i - 1 \in 1 .. Len(t) /\ (i - 1) + 1 = i)
    BY <1>1
  <1>4. InOrder(t)
    <2> SUFFICES ASSUME NEW i \in 1 .. Len(t), NEW j \in 1 .. Len(t), i < j
                 PROVE  PlayedAt[t[i]] < PlayedAt[t[j]]
      BY DEF InOrder
    <2>1. i + 1 < j + 1
      BY <1>1
    <2>2. QED
      BY <1>1, <1>2, <2>1 DEF InOrder
  <1>5. 1 \in 1 .. Len(s)
    BY <1>1
  <1>6. Folded(s) = {s[1]} \cup Folded(t)
    <2>1. ASSUME NEW i \in 1 .. Len(s) PROVE s[i] \in {s[1]} \cup Folded(t)
      <3>1. CASE i = 1
        BY <3>1
      <3>2. CASE i - 1 \in 1 .. Len(t) /\ (i - 1) + 1 = i
        <4>1. t[i - 1] = s[i]
          BY <1>1, <3>2
        <4>2. QED
          BY <3>2, <4>1 DEF Folded
      <3>3. QED
        BY <1>3, <3>1, <3>2
    <2>2. \A i \in 1 .. Len(t) : t[i] \in Folded(s)
      BY <1>1, <1>2 DEF Folded
    <2>3. s[1] \in Folded(s)
      BY <1>5 DEF Folded
    <2>4. QED
      BY <2>1, <2>2, <2>3 DEF Folded
  <1>7. \A i \in 1 .. Len(t) : PlayedAt[s[1]] < PlayedAt[t[i]]
    <2> SUFFICES ASSUME NEW i \in 1 .. Len(t) PROVE PlayedAt[s[1]] < PlayedAt[t[i]]
      OBVIOUS
    <2>1. 1 < i + 1
      BY <1>1
    <2>2. QED
      BY <1>1, <1>2, <1>5, <2>1 DEF InOrder
  <1>8. \A x \in Folded(t) : PlayedAt[s[1]] < PlayedAt[x]
    BY <1>7 DEF Folded
  <1>9. PlayedAt[s[1]] \in Nat
    BY <1>1, PlayedAtIsNat
  <1>10. s[1] \notin Folded(t)
    BY <1>8, <1>9
  <1>11. QED
    BY <1>1, <1>4, <1>6, <1>8, <1>10 DEF t

\* A finite set of matches can be put in the order of play.
LEMMA ChronologicalExists ==
    ASSUME NEW S \in SUBSET Matches, IsFiniteSet(S)
    PROVE  /\ Chronological(S) \in Seq(S)
           /\ Folded(Chronological(S)) = S
           /\ InOrder(Chronological(S))
  <1> DEFINE n == Cardinality(S)
             UpTo(m) == {k \in S : PlayedAt[k] <= PlayedAt[m]}
             rank == [m \in S |-> Cardinality(UpTo(m))]
  <1>1. n \in Nat
    BY FS_CardinalityType
  <1>2. \A m \in S : PlayedAt[m] \in Nat
    BY PlayedAtIsNat
  <1>3. ASSUME NEW m \in S
        PROVE  /\ IsFiniteSet(UpTo(m)) /\ Cardinality(UpTo(m)) \in 1 .. n
               /\ m \in UpTo(m)
    <2>1. UpTo(m) \in SUBSET S /\ m \in UpTo(m)
      BY <1>2
    <2> HIDE DEF UpTo
    <2>2. IsFiniteSet(UpTo(m)) /\ Cardinality(UpTo(m)) <= n
      BY <2>1, FS_Subset
    <2>3. Cardinality(UpTo(m)) \in Nat /\ Cardinality(UpTo(m)) # 0
      BY <2>1, <2>2, FS_CardinalityType, FS_EmptySet
    <2>4. QED
      BY <1>1, <2>1, <2>2, <2>3
  <1>4. ASSUME NEW k \in S, NEW m \in S, PlayedAt[k] < PlayedAt[m]
        PROVE  rank[k] < rank[m]
    <2>1. UpTo(k) \in SUBSET UpTo(m)
      BY <1>2, <1>4
    <2>2. m \in UpTo(m) /\ m \notin UpTo(k)
      BY <1>2, <1>4
    <2> HIDE DEF UpTo
    <2>3. Cardinality(UpTo(k)) <= Cardinality(UpTo(m))
      BY <1>3, <2>1, FS_Subset
    <2>4. Cardinality(UpTo(k)) # Cardinality(UpTo(m))
      BY <1>3, <2>1, <2>2, FS_Subset
    <2>5. Cardinality(UpTo(k)) \in Nat /\ Cardinality(UpTo(m)) \in Nat
      BY <1>3
    <2>6. QED
      BY <2>3, <2>4, <2>5
  <1>5. \A k, m \in S : k # m => PlayedAt[k] < PlayedAt[m] \/ PlayedAt[m] < PlayedAt[k]
    <2> SUFFICES ASSUME NEW k \in S, NEW m \in S, k # m
                 PROVE  PlayedAt[k] < PlayedAt[m] \/ PlayedAt[m] < PlayedAt[k]
      OBVIOUS
    <2>1. PlayedAt[k] # PlayedAt[m]
      BY PlayedAtAssumption
    <2>2. QED
      BY <1>2, <2>1
  <1>6. \A m \in S : rank[m] \in 1 .. n
    BY <1>3
  <1> HIDE DEF rank, UpTo
  <1>7. rank \in Injection(S, 1 .. n)
    <2>1. rank \in [S -> 1 .. n]
      BY <1>6 DEF rank
    <2>2. \A k, m \in S : k # m => rank[k] # rank[m]
      BY <1>1, <1>4, <1>5, <1>6
    <2>3. QED
      BY <2>1, <2>2 DEF Injection, IsInjective
  <1>8. rank \in Surjection(S, 1 .. n)
    <2>1. IsFiniteSet(1 .. n) /\ Cardinality(1 .. n) = n
      BY <1>1, FS_Interval
    <2>2. QED
      BY <1>7, <2>1, FS_Injection
  <1> DEFINE s == [i \in 1 .. n |-> CHOOSE m \in S : rank[m] = i]
  <1>9. ASSUME NEW i \in 1 .. n PROVE s[i] \in S /\ rank[s[i]] = i
    <2>1. \E m \in S : rank[m] = i
      BY <1>8 DEF Surjection
    <2>2. QED
      BY <2>1
  <1>10. s \in [1 .. n -> S]
    BY <1>9
  <1> HIDE DEF s, n
  <1>11. Len(s) = n /\ s \in Seq(S)
    BY <1>1, <1>10
  <1> USE DEF n
  <1>12. Folded(s) = S
    <2>1. ASSUME NEW m \in S PROVE m \in Folded(s)
      <3>1. rank[m] \in 1 .. n
        BY <1>6
      <3>2. s[rank[m]] = m
        <4>1. s[rank[m]] \in S /\ rank[s[rank[m]]] = rank[m]
          BY <1>9, <3>1
        <4>2. QED
          BY <1>7, <4>1 DEF Injection, IsInjective
      <3>3. QED
        BY <1>11, <3>1, <3>2 DEF Folded
    <2>2. QED
      BY <1>9, <1>11, <2>1 DEF Folded
  <1>13. InOrder(s)
    <2> SUFFICES ASSUME NEW i \in 1 .. n, NEW j \in 1 .. n, i < j
                 PROVE  PlayedAt[s[i]] < PlayedAt[s[j]]
      BY <1>11 DEF InOrder
    <2>1. s[i] \in S /\ s[j] \in S /\ rank[s[i]] = i /\ rank[s[j]] = j
      BY <1>9
    <2>2. s[i] # s[j]
      BY <2>1
    <2>3. ~(PlayedAt[s[j]] < PlayedAt[s[i]])
      BY <1>1, <1>4, <2>1
    <2>4. QED
      BY <1>5, <2>1, <2>2, <2>3
  <1>14. \E t \in [1 .. Cardinality(S) -> S] : Folded(t) = S /\ InOrder(t)
    BY <1>10, <1>12, <1>13
  <1>15. /\ Chronological(S) \in [1 .. n -> S]
         /\ Folded(Chronological(S)) = S /\ InOrder(Chronological(S))
    BY <1>14 DEF Chronological
  <1>16. Chronological(S) \in Seq(S)
    BY <1>1, <1>15
  <1>17. QED
    BY <1>15, <1>16

-----------------------------------------------------------------------------
(* Types, jobs and stages *)

LEMMA MoreFacts ==
    ASSUME NEW S, NEW T, S \subseteq T
    PROVE  /\ Seq(S) \subseteq Seq(T)
           /\ \A D : [D -> Seq(S)] \subseteq [D -> Seq(T)]
  <1>1. Seq(S) \subseteq Seq(T)
    BY SeqMonotonic
  <1>2. QED
    BY <1>1

\* Nobody plays a match without a lobby, and lobbies are of players.
LEMMA RosterType ==
    \A m \in Matches : Roster[m] \subseteq Players /\ Roster[m] # {}
  BY RosterAssumption

\* Noting a match, or failing to, leaves the ladder and the replay alone, and no
\* job about to commit is touched.
LEMMA NotesOnlyNote ==
    ASSUME Typed, NEW m \in Matches,
           \/ ReadMark(m) \/ Advance(m) \/ Tolerate(m)
           \/ NoteOutOfOrder(m) \/ NoteFails(m)
    PROVE  /\ UNCHANGED <<read, dbVars, replayVars>>
           /\ job' \in [Matches -> {"absent", "rating", "noting", "compared", "done"}]
           /\ \A k \in Matches : job'[k] \in {"absent", "rating"} => job'[k] = job[k]
           /\ seen' \in [Matches -> Nat] /\ hwm' \in Nat
           /\ floor' \in Nat \cup {None} /\ interrupts' \in 0 .. MaxInterrupts
  <1> USE PlayedAtIsNat, BoundsAssumption DEF Typed, TypeOK
  <1>1. CASE ReadMark(m)
    BY <1>1 DEF ReadMark
  <1>2. CASE Advance(m)
    BY <1>2 DEF Advance
  <1>3. CASE Tolerate(m)
    BY <1>3 DEF Tolerate
  <1>4. CASE NoteOutOfOrder(m)
    BY <1>4 DEF NoteOutOfOrder, Lowered
  <1>5. CASE NoteFails(m)
    BY <1>5 DEF NoteFails
  <1>6. QED
    BY <1>1, <1>2, <1>3, <1>4, <1>5

LEMMA TypedNotes ==
    ASSUME Typed, NEW m \in Matches,
           \/ ReadMark(m) \/ Advance(m) \/ Tolerate(m)
           \/ NoteOutOfOrder(m) \/ NoteFails(m)
    PROVE  Typed'
  <1>1. /\ UNCHANGED <<read, dbVars, replayVars>>
        /\ job' \in [Matches -> {"absent", "rating", "noting", "compared", "done"}]
        /\ \A k \in Matches : job'[k] \in {"absent", "rating"} => job'[k] = job[k]
        /\ seen' \in [Matches -> Nat] /\ hwm' \in Nat
        /\ floor' \in Nat \cup {None} /\ interrupts' \in 0 .. MaxInterrupts
    BY NotesOnlyNote
  <1> USE DEF Typed, dbVars, replayVars
  <1>2. TypeOK'
    BY <1>1 DEF TypeOK
  <1>3. RatingsTyped'
    BY <1>1 DEF RatingsTyped
  <1>4. JobsHold'
    BY <1>1 DEF JobsHold
  <1>5. StagesHold'
    BY <1>1 DEF StagesHold, InOrder, Folded, Window
  <1>6. ReadsAreFresh'
    BY <1>1 DEF ReadsAreFresh, Session
  <1>7. QED
    BY <1>1, <1>2, <1>3, <1>4, <1>5, <1>6

LEMMA TypedRead ==
    ASSUME Typed, NEW m \in Matches, Read(m)
    PROVE  Typed'
  <1> USE DEF Typed, Read, Meets
  <1>1. /\ UNCHANGED <<seen, dbVars, hwm, floor, stage, since, todo, draft, wiped,
                       current, fulls, interrupts>>
        /\ trusted' = trusted \ Roster[m] /\ apart' = (apart /\ stage = "idle")
    OBVIOUS
  <1> USE DEF dbVars
  <1>2. [p \in Roster[m] |-> ladder[p]] \in [Roster[m] -> Seq(facts)]
    BY RosterType DEF RatingsTyped
  <1>3. TypeOK'
    BY <1>2 DEF TypeOK, JobsHold
  <1>4. RatingsTyped'
    BY <1>1 DEF RatingsTyped
  <1>5. JobsHold'
    BY <1>1, <1>2 DEF JobsHold, TypeOK, Overlapping
  <1>6. StagesHold'
    BY <1>1 DEF StagesHold, InOrder, Folded, Window
  <1>7. ReadsAreFresh'
    <2>1. \A p : Session(p)' = Session(p)
      BY <1>1 DEF Session
    <2>2. apart' => stage # "writing"
      BY <1>1
    <2>3. QED
      BY <1>1, <2>1, <2>2 DEF ReadsAreFresh
  <1>8. QED
    BY <1>1, <1>3, <1>4, <1>5, <1>6, <1>7

\* What a commit writes.
LEMMA CommitType ==
    ASSUME Typed, NEW m \in Matches, Commit(m)
    PROVE  /\ m \notin facts /\ facts' = facts \cup {m} /\ facts \subseteq facts'
           /\ rated' = rated \cup {m}
           /\ read[m] \in [Roster[m] -> Seq(facts)]
           /\ before' = [before EXCEPT ![m] = read[m]] /\ DOMAIN before = Matches
           /\ ladder' \in [Players -> Seq(facts')]
           /\ \A p \in Players : ladder'[p] = IF p \in Roster[m] THEN Append(read[m][p], m)
                                             ELSE ladder[p]
  <1> USE DEF Typed
  <1>1. /\ job[m] = "rating"
        /\ ladder' = [p \in Players |-> IF p \in Roster[m] THEN Append(read[m][p], m)
                                        ELSE ladder[p]]
        /\ before' = [before EXCEPT ![m] = read[m]]
        /\ facts' = facts \cup {m} /\ rated' = rated \cup {m}
    BY DEF Commit
  <1>2. m \notin facts /\ read[m] \in [Roster[m] -> Seq(facts)]
    BY <1>1 DEF JobsHold
  <1>3. facts \subseteq facts' /\ m \in facts'
    BY <1>1
  <1>4. Seq(facts) \subseteq Seq(facts')
    BY <1>3, MoreFacts
  <1>5. ASSUME NEW p \in Players
        PROVE  (IF p \in Roster[m] THEN Append(read[m][p], m) ELSE ladder[p]) \in Seq(facts')
    <2>1. CASE p \in Roster[m]
      BY <1>2, <1>3, <1>4, <2>1, AppendProperties
    <2>2. CASE p \notin Roster[m]
      BY <1>4, <2>2 DEF RatingsTyped
    <2>3. QED
      BY <2>1, <2>2
  <1>6. QED
    BY <1>1, <1>2, <1>3, <1>5 DEF RatingsTyped

LEMMA TypedCommit ==
    ASSUME Typed, NEW m \in Matches, Commit(m)
    PROVE  Typed'
  <1> USE DEF Typed
  <1>1. /\ UNCHANGED <<seen, hwm, floor, stage, since, todo, draft, wiped, current,
                       fulls, interrupts>>
        /\ trusted' = trusted \ Roster[m] /\ apart' = (apart /\ stage = "idle")
        /\ job[m] = "rating" /\ job' = [job EXCEPT ![m] = "noting"]
        /\ read' = [read EXCEPT ![m] = Nothing]
    BY DEF Commit, Meets
  <1>2. /\ m \notin facts /\ facts' = facts \cup {m} /\ facts \subseteq facts'
        /\ rated' = rated \cup {m}
        /\ read[m] \in [Roster[m] -> Seq(facts)]
        /\ before' = [before EXCEPT ![m] = read[m]] /\ DOMAIN before = Matches
        /\ ladder' \in [Players -> Seq(facts')]
    BY CommitType
  <1>3. Seq(facts) \subseteq Seq(facts') /\ \A D : [D -> Seq(facts)] \subseteq [D -> Seq(facts')]
    BY <1>2, MoreFacts
  <1>4. IsFiniteSet(facts')
    BY <1>2, FS_AddElement
  <1>5. RatingsTyped'
    <2>1. \A k \in rated' : before'[k] \in [Roster[k] -> Seq(facts')]
      <3> SUFFICES ASSUME NEW k \in rated' PROVE before'[k] \in [Roster[k] -> Seq(facts')]
        OBVIOUS
      <3>1. CASE k = m
        BY <1>2, <1>3, <3>1
      <3>2. CASE k # m
        <4>1. k \in rated /\ before'[k] = before[k]
          BY <1>2, <3>2 DEF TypeOK
        <4>2. before[k] \in [Roster[k] -> Seq(facts)]
          BY <4>1 DEF RatingsTyped
        <4>3. QED
          BY <1>3, <4>1, <4>2
      <3>3. QED
        BY <3>1, <3>2
    <2>2. DOMAIN before' = Matches /\ \A k \in Matches : DOMAIN before'[k] \subseteq Roster[k]
      BY <1>2 DEF RatingsTyped
    <2>3. QED
      BY <1>2, <2>1, <2>2 DEF RatingsTyped
  <1>6. ladder' \in [Players -> Seq(Matches)]
    <2>1. facts' \subseteq Matches
      BY <1>2 DEF TypeOK
    <2>2. QED
      BY <1>2, <2>1, MoreFacts
  <1>7. DOMAIN Nothing = {}
    BY DEF Nothing
  <1>8. TypeOK'
    BY <1>1, <1>2, <1>6, <1>7 DEF TypeOK, RatingsTyped, JobsHold
  <1>9. JobsHold'
    <2>1. ASSUME NEW k \in Matches
          PROVE  /\ DOMAIN read'[k] \subseteq Roster[k]
                 /\ job'[k] \in {"absent", "rating"} => k \notin facts'
                 /\ job'[k] = "rating" => read'[k] \in [Roster[k] -> Seq(facts')]
      <3>1. CASE k = m
        BY <1>1, <1>7, <3>1 DEF JobsHold, TypeOK
      <3>2. CASE k # m
        <4>1. job'[k] = job[k] /\ read'[k] = read[k]
          BY <1>1, <3>2 DEF JobsHold, TypeOK
        <4>2. QED
          BY <1>2, <1>3, <3>2, <4>1 DEF JobsHold
      <3>3. QED
        BY <3>1, <3>2
    <2>2. \A k \in Matches : job'[k] = "rating" => job[k] = "rating"
      BY <1>1 DEF TypeOK
    <2>3. DOMAIN read' = Matches
      BY <1>1 DEF JobsHold
    <2>4. \A k, n \in Matches :
             job'[k] = "rating" /\ job'[n] = "rating" /\ Overlapping(k, n) => k = n
      BY <2>2 DEF JobsHold
    <2>5. QED
      BY <2>1, <2>3, <2>4 DEF JobsHold, Overlapping
  <1>10. StagesHold'
    <2>1. todo \in Seq(facts')
      BY <1>3 DEF StagesHold
    <2>2. draft \in [DOMAIN draft -> Seq(facts')]
      BY <1>3 DEF StagesHold
    <2>3. stage = "writing" => current \in [Roster[Head(todo)] -> Seq(facts')]
      BY <1>3 DEF StagesHold
    <2>4. Folded(todo') = Folded(todo) /\ InOrder(todo') = InOrder(todo)
      BY <1>1
    <2>5. Window(since) \subseteq Window(since)'
      BY <1>1, <1>2 DEF Window
    <2>6. QED
      BY <1>1, <2>1, <2>2, <2>3, <2>4, <2>5 DEF StagesHold
  <1>11. ReadsAreFresh'
    <2>1. apart' => stage # "writing"
      BY <1>1
    <2>2. ASSUME stage = "writing", NEW p \in trusted', p \in Roster[Head(todo)]
          PROVE  current[p] = Session(p)'
      <3>1. p \in trusted /\ p \notin Roster[m] /\ p \in Players
        BY <1>1, <2>2 DEF TypeOK
      <3>2. Session(p)' = Session(p)
        BY <1>1, <3>1, CommitType DEF Session
      <3>3. QED
        BY <2>2, <3>1, <3>2 DEF ReadsAreFresh
    <2>3. QED
      BY <1>1, <2>1, <2>2 DEF ReadsAreFresh
  <1>12. QED
    BY <1>4, <1>5, <1>8, <1>9, <1>10, <1>11

\* The oldest match of a player in a finite set.
LEMMA OldestIsOldest ==
    ASSUME NEW S \in SUBSET Matches, IsFiniteSet(S), NEW p, NEW k \in Of(p, S)
    PROVE  /\ Oldest(p, S) \in Of(p, S)
           /\ \A n \in Of(p, S) : PlayedAt[Oldest(p, S)] <= PlayedAt[n]
  <1> DEFINE T == Of(p, S)
             s == Chronological(T)
  <1>1. T \in SUBSET S /\ k \in T
    BY DEF Of
  <1>2. IsFiniteSet(T) /\ T \in SUBSET Matches
    BY <1>1, FS_Subset
  <1> HIDE DEF T
  <1>3. s \in Seq(T) /\ Folded(s) = T /\ InOrder(s)
    BY <1>2, ChronologicalExists
  <1> HIDE DEF s
  <1>4. s # <<>>
    BY <1>1, <1>3, FoldedEmpty
  <1>5. /\ Head(s) \in T /\ T = {Head(s)} \cup Folded(Tail(s))
        /\ \A x \in Folded(Tail(s)) : PlayedAt[Head(s)] < PlayedAt[x]
    BY <1>2, <1>3, <1>4, FoldedTail
  <1>6. \A n \in T : PlayedAt[n] \in Nat
    BY <1>2, PlayedAtIsNat
  <1>7. \A n \in T : PlayedAt[Head(s)] <= PlayedAt[n]
    BY <1>5, <1>6
  <1>8. \E m \in T : \A n \in T : PlayedAt[m] <= PlayedAt[n]
    BY <1>5, <1>7
  <1>9. QED
    BY <1>8 DEF T, Oldest

\* There is one oldest match.
LEMMA OldestIsUnique ==
    ASSUME NEW S \in SUBSET Matches, NEW p, NEW k \in Of(p, S),
           \A n \in Of(p, S) : PlayedAt[k] <= PlayedAt[n]
    PROVE  Oldest(p, S) = k
  <1>1. \A n \in Of(p, S) : n \in Matches
    BY DEF Of
  <1>2. \A m \in Of(p, S) : (\A n \in Of(p, S) : PlayedAt[m] <= PlayedAt[n]) => m = k
    <2> SUFFICES ASSUME NEW m \in Of(p, S), \A n \in Of(p, S) : PlayedAt[m] <= PlayedAt[n]
                 PROVE  m = k
      OBVIOUS
    <2>1. PlayedAt[m] = PlayedAt[k]
      BY <1>1, PlayedAtIsNat
    <2>2. QED
      BY <1>1, <2>1, PlayedAtAssumption
  <1>3. QED
    BY <1>2 DEF Oldest

LEMMA WindowType ==
    ASSUME Typed, NEW t
    PROVE  /\ Window(t) \subseteq rated /\ Window(t) \subseteq facts
           /\ Window(t) \in SUBSET Matches /\ IsFiniteSet(Window(t))
  <1>1. Window(t) \subseteq rated /\ Window(t) \subseteq facts /\ facts \subseteq Matches
    BY DEF Window, Typed, TypeOK
  <1>2. QED
    BY <1>1, FS_Subset DEF Typed

\* What a replay starts with.
LEMMA BeginType ==
    ASSUME Typed, ReplayTick \/ FullReplay
    PROVE  /\ UNCHANGED <<jobVars, dbVars, hwm, floor, draft, wiped, current,
                          interrupts, apart>>
           /\ QueuesEmpty /\ stage = "idle" /\ stage' = "built"
           /\ since' \in Nat \cup {None}
           /\ todo' \in Seq(facts) /\ InOrder(todo') /\ todo' # <<>>
           /\ Folded(todo') = Window(since')
           /\ trusted' = {p \in Players : IF since' = None THEN Of(p, facts) \subseteq rated
                                                   ELSE apart /\ Orderly(p)}
           /\ fulls' \in 0 .. MaxFullReplays
  <1>1. ASSUME NEW t, Begin(t)
        PROVE  /\ stage = "idle" /\ stage' = "built" /\ since' = t
               /\ todo' \in Seq(facts) /\ InOrder(todo') /\ todo' # <<>>
               /\ Folded(todo') = Window(t)
               /\ trusted' = {p \in Players : IF t = None THEN Of(p, facts) \subseteq rated
                                                       ELSE apart /\ Orderly(p)}
               /\ UNCHANGED apart
    <2>1. todo' = Chronological(Window(t)) /\ Window(t) # {}
      BY <1>1 DEF Begin
    <2>2. todo' \in Seq(Window(t)) /\ Folded(todo') = Window(t) /\ InOrder(todo')
      BY <2>1, WindowType, ChronologicalExists
    <2>3. todo' \in Seq(facts)
      BY <2>2, WindowType, MoreFacts
    <2>4. todo' # <<>>
      BY <2>1, <2>2, FoldedEmpty
    <2>5. QED
      BY <1>1, <2>2, <2>3, <2>4 DEF Begin
  <1>2. CASE ReplayTick
    <2>1. Begin(floor) /\ floor \in Nat
      BY <1>2 DEF ReplayTick, Typed, TypeOK
    <2>2. /\ stage = "idle" /\ stage' = "built" /\ since' = floor
          /\ todo' \in Seq(facts) /\ InOrder(todo') /\ todo' # <<>>
          /\ Folded(todo') = Window(since')
          /\ trusted' = {p \in Players : IF since' = None THEN Of(p, facts) \subseteq rated
                                                  ELSE apart /\ Orderly(p)}
          /\ UNCHANGED apart
      BY <1>1, <2>1
    <2>3. QED
      BY <1>2, <2>1, <2>2 DEF ReplayTick, Typed, TypeOK
  <1>3. CASE FullReplay
    <2>1. Begin(None)
      BY <1>3 DEF FullReplay
    <2>2. /\ stage = "idle" /\ stage' = "built" /\ since' = None
          /\ todo' \in Seq(facts) /\ InOrder(todo') /\ todo' # <<>>
          /\ Folded(todo') = Window(since')
          /\ trusted' = {p \in Players : IF since' = None THEN Of(p, facts) \subseteq rated
                                                  ELSE apart /\ Orderly(p)}
          /\ UNCHANGED apart
      BY <1>1, <2>1
    <2>3. fulls' \in 0 .. MaxFullReplays
      BY <1>3, BoundsAssumption DEF FullReplay, Typed, TypeOK
    <2>4. QED
      BY <1>3, <2>2, <2>3 DEF FullReplay
  <1>4. QED
    BY <1>2, <1>3

LEMMA TypedBegin ==
    ASSUME Typed, ReplayTick \/ FullReplay
    PROVE  Typed'
  <1>1. /\ UNCHANGED <<jobVars, dbVars, hwm, floor, draft, wiped, current,
                       interrupts, apart>>
        /\ QueuesEmpty /\ stage = "idle" /\ stage' = "built"
        /\ since' \in Nat \cup {None}
        /\ todo' \in Seq(facts) /\ InOrder(todo') /\ todo' # <<>>
        /\ trusted' = {p \in Players : IF since' = None THEN Of(p, facts) \subseteq rated
                                                ELSE apart /\ Orderly(p)}
        /\ fulls' \in 0 .. MaxFullReplays
    BY BeginType
  <1> USE DEF Typed, jobVars, dbVars
  <1>2. todo' \in Seq(Matches)
    BY <1>1, MoreFacts DEF TypeOK
  <1>3. trusted' \subseteq Players
    BY <1>1
  <1>4. TypeOK'
    BY <1>1, <1>2, <1>3 DEF TypeOK
  <1>5. RatingsTyped'
    BY <1>1 DEF RatingsTyped
  <1>6. JobsHold'
    BY <1>1 DEF JobsHold, Overlapping
  <1>7. StagesHold'
    <2>1. Window(since)' = Window(since')
      BY <1>1 DEF Window
    <2>2. Folded(todo') \subseteq Window(since)' /\ InOrder(todo')
      BY <2>1, BeginType
    <2>3. QED
      BY <1>1, <2>2 DEF StagesHold
  <1>8. ReadsAreFresh'
    BY <1>1 DEF ReadsAreFresh
  <1>9. QED
    BY <1>1, <1>4, <1>5, <1>6, <1>7, <1>8

\* Where a rewind takes a player: back to nothing, or to the restore point of
\* the oldest match it has in the window.
LEMMA RestoredType ==
    ASSUME Typed, NEW S \in SUBSET rated
    PROVE  /\ DOMAIN Restored(S) \subseteq Players
           /\ Restored(S) \in [DOMAIN Restored(S) -> Seq(facts)]
           /\ \A p \in Players \ DOMAIN Restored(S) : Of(p, S) = {}
           /\ \A p \in DOMAIN Restored(S) :
                 \/ Restored(S)[p] = <<>> /\ since = None
                 \/ /\ since # None
                    /\ Oldest(p, S) \in Of(p, S)
                    /\ \A n \in Of(p, S) : PlayedAt[Oldest(p, S)] <= PlayedAt[n]
                    /\ Restored(S)[p] = before[Oldest(p, S)][p]
  <1>1. S \in SUBSET Matches /\ IsFiniteSet(S) /\ S \in SUBSET facts
    BY FS_Subset DEF Typed, TypeOK
  <1>2. CASE since = None
    <2>1. Restored(S) = [p \in Players |-> <<>>]
      BY <1>2 DEF Restored
    <2>2. QED
      BY <1>2, <2>1
  <1>3. CASE since # None
    <2> DEFINE D == UNION {Roster[m] : m \in S}
    <2>1. Restored(S) = [p \in D |-> before[Oldest(p, S)][p]]
      BY <1>3 DEF Restored
    <2>2. \A p : p \in D <=> Of(p, S) # {}
      BY DEF Of
    <2>3. D \subseteq Players
      BY <1>1, RosterType
    <2> HIDE DEF D
    <2>4. ASSUME NEW p \in D
          PROVE  /\ Oldest(p, S) \in Of(p, S)
                 /\ \A n \in Of(p, S) : PlayedAt[Oldest(p, S)] <= PlayedAt[n]
                 /\ before[Oldest(p, S)][p] \in Seq(facts)
      <3>1. PICK k \in Of(p, S) : TRUE
        BY <2>2, <2>4
      <3>2. /\ Oldest(p, S) \in Of(p, S)
            /\ \A n \in Of(p, S) : PlayedAt[Oldest(p, S)] <= PlayedAt[n]
        BY <1>1, <3>1, OldestIsOldest
      <3>3. Oldest(p, S) \in rated /\ p \in Roster[Oldest(p, S)]
        BY <3>2 DEF Of
      <3>4. QED
        BY <3>2, <3>3 DEF Typed, RatingsTyped
    <2>5. QED
      BY <1>3, <2>1, <2>2, <2>3, <2>4
  <1>4. QED
    BY <1>2, <1>3

LEMMA TypedRewind ==
    ASSUME Typed, Rewind
    PROVE  Typed'
  <1> USE DEF Typed
  <1>1. /\ UNCHANGED <<jobVars, dbVars, hwm, floor, since, todo, current, fulls,
                       interrupts, trusted, apart>>
        /\ stage = "built" /\ stage' = "loading"
        /\ draft' = Restored(Window(since)) /\ wiped' = Window(since)
    BY DEF Rewind
  <1>2. Window(since) \in SUBSET rated /\ Window(since) \in SUBSET facts
    BY WindowType
  <1>3. DOMAIN draft' \subseteq Players /\ draft' \in [DOMAIN draft' -> Seq(facts)]
    BY <1>1, <1>2, RestoredType
  <1>4. wiped' # {}
    <2>1. todo \in Seq(Matches) /\ todo # <<>> /\ InOrder(todo)
      BY <1>1 DEF StagesHold, TypeOK
    <2>2. Folded(todo) # {}
      BY <2>1, FoldedTail
    <2>3. QED
      BY <1>1, <2>2 DEF StagesHold
  <1> USE DEF jobVars, dbVars
  <1>5. TypeOK'
    BY <1>1, <1>2, <1>3 DEF TypeOK
  <1>6. RatingsTyped'
    BY <1>1 DEF RatingsTyped
  <1>7. JobsHold'
    BY <1>1 DEF JobsHold, Overlapping
  <1>8. StagesHold'
    BY <1>1, <1>3, <1>4 DEF StagesHold, InOrder, Folded, Window
  <1>9. ReadsAreFresh'
    BY <1>1 DEF ReadsAreFresh
  <1>10. QED
    BY <1>1, <1>5, <1>6, <1>7, <1>8, <1>9

\* What the replay's session sees is a rating of the player.
LEMMA SessionType ==
    ASSUME Typed, NEW p \in Players
    PROVE  Session(p) \in Seq(facts) /\ (draft = Nothing => Session(p) = ladder[p])
  BY DEF Typed, RatingsTyped, StagesHold, Session, Nothing

\* The next match of the replay.
LEMMA HeadType ==
    ASSUME Typed, stage \in {"loading", "writing"}
    PROVE  /\ Head(todo) \in facts /\ Head(todo) \in Matches
           /\ Tail(todo) \in Seq(facts) /\ InOrder(Tail(todo))
           /\ Folded(todo) = {Head(todo)} \cup Folded(Tail(todo))
           /\ Head(todo) \notin Folded(Tail(todo))
           /\ \A x \in Folded(Tail(todo)) : PlayedAt[Head(todo)] < PlayedAt[x]
           /\ Folded(todo) \subseteq facts
  <1>1. facts \in SUBSET Matches /\ todo \in Seq(facts) /\ todo # <<>> /\ InOrder(todo)
    BY DEF Typed, TypeOK, StagesHold
  <1>2. QED
    BY <1>1, FoldedTail, FoldedType

LEMMA TypedLoad ==
    ASSUME Typed, ReplayLoad
    PROVE  Typed'
  <1> USE DEF Typed
  <1>1. /\ UNCHANGED <<jobVars, dbVars, hwm, floor, since, todo, draft, wiped, fulls,
                       interrupts, trusted, apart>>
        /\ stage = "loading" /\ stage' = "writing"
        /\ current' = [p \in Roster[Head(todo)] |-> Session(p)]
    BY DEF ReplayLoad
  <1>2. Roster[Head(todo)] \subseteq Players
    BY <1>1, HeadType, RosterType
  <1>3. current' \in [Roster[Head(todo)] -> Seq(facts)]
    BY <1>1, <1>2, SessionType
  <1> USE DEF jobVars, dbVars
  <1>4. TypeOK'
    BY <1>1, <1>2 DEF TypeOK
  <1>5. RatingsTyped'
    BY <1>1 DEF RatingsTyped
  <1>6. JobsHold'
    BY <1>1 DEF JobsHold, Overlapping
  <1>7. StagesHold'
    BY <1>1, <1>2, <1>3 DEF StagesHold, InOrder
  <1>8. ReadsAreFresh'
    BY <1>1 DEF ReadsAreFresh, Session
  <1>9. QED
    BY <1>1, <1>4, <1>5, <1>6, <1>7, <1>8

\* What a replay writes for the match at hand.
LEMMA ReplayCommitType ==
    ASSUME Typed, ReplayCommit, NEW m, m = Head(todo)
    PROVE  /\ m \in Matches /\ m \in facts /\ m \in rated'
           /\ UNCHANGED <<jobVars, facts, hwm, floor, since, fulls, interrupts, trusted,
                          apart>>
           /\ stage = "writing" /\ todo' = Tail(todo)
           /\ stage' = (IF Tail(todo) = <<>> THEN "closing" ELSE "loading")
           /\ draft' = Nothing /\ wiped' = {} /\ current' = Nothing
           /\ rated' = (rated \ wiped) \cup {m}
           /\ current \in [Roster[m] -> Seq(facts)]
           /\ before' = [before EXCEPT ![m] = current] /\ DOMAIN before = Matches
           /\ ladder' \in [Players -> Seq(facts)]
           /\ \A p \in Players : ladder'[p] = IF p \in Roster[m] THEN Append(current[p], m)
                                             ELSE Session(p)
  <1> USE DEF Typed
  <1>1. stage = "writing"
    BY DEF ReplayCommit
  <1>2. m \in facts /\ m \in Matches
    BY <1>1, HeadType
  <1>3. current \in [Roster[m] -> Seq(facts)]
    BY <1>1 DEF StagesHold
  <1>4. ladder' = [p \in Players |-> IF p \in Roster[m] THEN Append(current[p], m)
                                     ELSE Session(p)]
    BY DEF ReplayCommit
  <1>5. ASSUME NEW p \in Players
        PROVE  (IF p \in Roster[m] THEN Append(current[p], m) ELSE Session(p)) \in Seq(facts)
    <2>1. CASE p \in Roster[m]
      BY <1>2, <1>3, <2>1, AppendProperties
    <2>2. CASE p \notin Roster[m]
      BY <2>2, SessionType
    <2>3. QED
      BY <2>1, <2>2
  <1>6. ladder' \in [Players -> Seq(facts)]
    BY <1>4, <1>5
  <1>7. QED
    BY <1>1, <1>2, <1>3, <1>4, <1>6 DEF ReplayCommit, RatingsTyped

LEMMA TypedReplayCommit ==
    ASSUME Typed, ReplayCommit
    PROVE  Typed'
  <1> DEFINE m == Head(todo)
  <1> HIDE DEF m
  <1> USE DEF Typed, jobVars
  <1>1. /\ m \in Matches /\ m \in facts
        /\ UNCHANGED <<jobVars, facts, hwm, floor, since, fulls, interrupts, trusted,
                       apart>>
        /\ stage = "writing" /\ todo' = Tail(todo)
        /\ stage' = (IF Tail(todo) = <<>> THEN "closing" ELSE "loading")
        /\ draft' = Nothing /\ wiped' = {} /\ current' = Nothing
        /\ rated' = (rated \ wiped) \cup {m}
        /\ current \in [Roster[m] -> Seq(facts)]
        /\ before' = [before EXCEPT ![m] = current] /\ DOMAIN before = Matches
        /\ ladder' \in [Players -> Seq(facts)]
    BY ReplayCommitType DEF m
  <1>2. facts \subseteq Matches /\ rated' \subseteq facts
    BY <1>1 DEF TypeOK
  <1>3. Tail(todo) \in Seq(facts) /\ InOrder(Tail(todo))
    BY <1>1, HeadType
  <1>4. Tail(todo) \in Seq(Matches) /\ ladder' \in [Players -> Seq(Matches)]
    BY <1>1, <1>2, <1>3, MoreFacts
  <1>5. DOMAIN Nothing = {} /\ Nothing \in [{} -> Seq(facts)]
    BY DEF Nothing
  <1>6. \A k \in Matches : DOMAIN before'[k] \subseteq Roster[k]
    BY <1>1 DEF RatingsTyped
  <1>7. \A k \in rated' : before'[k] \in [Roster[k] -> Seq(facts)]
    BY <1>1, <1>2 DEF RatingsTyped
  <1>8. TypeOK'
    BY <1>1, <1>2, <1>4, <1>5, <1>6 DEF TypeOK
  <1>9. RatingsTyped'
    BY <1>1, <1>6, <1>7 DEF RatingsTyped
  <1>10. JobsHold'
    BY <1>1 DEF JobsHold, Overlapping
  <1>11. StagesHold'
    <2>1. InOrder(todo') = InOrder(Tail(todo))
      BY <1>1
    <2>2. QED
      BY <1>1, <1>3, <1>5, <2>1 DEF StagesHold
  <1>12. ReadsAreFresh'
    BY <1>1 DEF ReadsAreFresh
  <1>13. QED
    BY <1>1, <1>8, <1>9, <1>10, <1>11, <1>12

\* A replay is over.
LEMMA EndType ==
    ASSUME Typed, Close \/ ReplayFails
    PROVE  /\ UNCHANGED <<jobVars, dbVars, hwm, fulls>>
           /\ stage # "idle" /\ stage' = "idle" /\ since' = None /\ todo' = <<>>
           /\ draft' = Nothing /\ wiped' = {} /\ current' = Nothing /\ trusted' = {}
           /\ floor' \in Nat \cup {None} /\ interrupts' \in 0 .. MaxInterrupts
           /\ apart' \in BOOLEAN
           /\ apart' => apart \/ (trusted = Players /\ since = None /\ stage = "closing")
  <1>1. /\ UNCHANGED <<jobVars, dbVars, hwm, fulls>>
        /\ stage # "idle" /\ stage' = "idle" /\ since' = None /\ todo' = <<>>
        /\ draft' = Nothing /\ wiped' = {} /\ current' = Nothing /\ trusted' = {}
        /\ floor' \in Nat \cup {None} /\ interrupts' \in 0 .. MaxInterrupts
    BY BoundsAssumption DEF Close, ReplayFails, Reset, Typed, TypeOK
  <1> DEFINE remade == trusted = Players /\ since = None
  <1>2. CASE Close
    <2>1. apart' = (apart \/ remade) /\ stage = "closing"
      BY <1>2 DEF Close
    <2>2. apart \in BOOLEAN /\ remade \in BOOLEAN
      BY DEF Typed, TypeOK
    <2>3. QED
      BY <1>1, <2>1, <2>2
  <1>3. CASE ReplayFails
    BY <1>1, <1>3 DEF ReplayFails, Typed, TypeOK
  <1>4. QED
    BY <1>2, <1>3

LEMMA TypedEnd ==
    ASSUME Typed, Close \/ ReplayFails
    PROVE  Typed'
  <1>1. /\ UNCHANGED <<jobVars, dbVars, hwm, fulls>>
        /\ stage' = "idle" /\ since' = None /\ todo' = <<>>
        /\ draft' = Nothing /\ wiped' = {} /\ current' = Nothing /\ trusted' = {}
        /\ floor' \in Nat \cup {None} /\ interrupts' \in 0 .. MaxInterrupts
        /\ apart' \in BOOLEAN
    BY EndType
  <1> USE DEF Typed, jobVars, dbVars
  <1>2. /\ DOMAIN Nothing = {} /\ Nothing \in [{} -> Seq(facts)]
        /\ <<>> \in Seq(Matches) /\ <<>> \in Seq(facts)
    BY EmptySeq DEF Nothing
  <1>3. TypeOK'
    BY <1>1, <1>2 DEF TypeOK
  <1>4. RatingsTyped'
    BY <1>1 DEF RatingsTyped
  <1>5. JobsHold'
    BY <1>1 DEF JobsHold, Overlapping
  <1>6. StagesHold'
    BY <1>1, <1>2, FoldedEmpty DEF StagesHold
  <1>7. ReadsAreFresh'
    BY <1>1 DEF ReadsAreFresh
  <1>8. QED
    BY <1>1, <1>3, <1>4, <1>5, <1>6, <1>7

LEMMA TypedInit == Init => Typed
  <1> SUFFICES ASSUME Init PROVE Typed
    OBVIOUS
  <1> USE DEF Init
  <1>1. IsFiniteSet(facts)
    BY FS_EmptySet
  <1>2. /\ DOMAIN Nothing = {} /\ Nothing \in [{} -> Seq(facts)]
        /\ <<>> \in Seq(Matches) /\ <<>> \in Seq(facts)
    BY EmptySeq DEF Nothing
  <1>3. TypeOK
    <2>1. 0 \in 0 .. MaxFullReplays /\ 0 \in 0 .. MaxInterrupts
      BY BoundsAssumption
    <2>2. ladder \in [Players -> Seq(Matches)]
      BY <1>2
    <2>3. \A m \in Matches : DOMAIN read[m] = {} /\ DOMAIN before[m] = {}
      BY <1>2
    <2> HIDE DEF Nothing
    <2>4. QED
      BY <1>2, <2>1, <2>2, <2>3 DEF TypeOK
  <1>4. RatingsTyped /\ JobsHold
    BY <1>2 DEF RatingsTyped, JobsHold
  <1>5. StagesHold /\ ReadsAreFresh
    BY <1>2, FoldedEmpty DEF StagesHold, ReadsAreFresh
  <1>6. QED
    BY <1>1, <1>3, <1>4, <1>5 DEF Typed

LEMMA TypedStep == Typed /\ [Next]_vars => Typed'
  <1> SUFFICES ASSUME Typed, [Next]_vars PROVE Typed'
    OBVIOUS
  <1>1. ASSUME NEW m \in Matches, Live(m) \/ NoteFails(m) PROVE Typed'
    BY <1>1, TypedRead, TypedCommit, TypedNotes DEF Live
  <1>2. CASE Replay \/ FullReplay \/ ReplayFails
    BY <1>2, TypedBegin, TypedRewind, TypedLoad, TypedReplayCommit, TypedEnd DEF Replay
  <1>3. CASE UNCHANGED vars
    <2> USE <1>3 DEF vars, Typed
    <2>1. TypeOK' /\ IsFiniteSet(facts')
      BY DEF TypeOK
    <2>2. RatingsTyped' /\ JobsHold'
      BY DEF RatingsTyped, JobsHold, Overlapping
    <2>3. StagesHold' /\ ReadsAreFresh'
      BY DEF StagesHold, ReadsAreFresh, InOrder, Folded, Window, Session
    <2>4. QED
      BY <2>1, <2>2, <2>3
  <1>4. QED
    BY <1>1, <1>2, <1>3 DEF Next

-----------------------------------------------------------------------------
(* Beginnings of what a player has played *)

\* What is folded on top of a beginning is, and the match on top fits.
LEMMA AppendBegins ==
    ASSUME NEW F \in SUBSET Matches, NEW v \in Seq(F), NEW m \in F,
           NEW S \in SUBSET Matches, Begins(Append(v, m), S)
    PROVE  Begins(v, S) /\ Precedes(v, m, S)
  <1>1. /\ Folded(Append(v, m)) = Folded(v) \cup {m}
        /\ InOrder(v) /\ \A x \in Folded(v) : PlayedAt[x] < PlayedAt[m]
    BY FoldedAppend DEF Begins
  <1>2. Folded(v) \subseteq S /\ m \in S /\ \A n \in Folded(v) \cup {m} : PlayedAt[n] \in Nat
    BY <1>1, PlayedAtIsNat DEF Begins
  <1>3. \A n \in Folded(v) \cup {m} : Earlier(n, S) \subseteq Folded(v) \cup {m}
    BY <1>1 DEF Begins
  <1>4. \A n \in Folded(v) \cup {m} : m \notin Earlier(n, S)
    BY <1>1, <1>2 DEF Earlier
  <1>5. Earlier(m, S) = Folded(v)
    BY <1>1, <1>2, <1>3, <1>4 DEF Earlier
  <1>6. QED
    BY <1>1, <1>2, <1>3, <1>4, <1>5 DEF Begins, Precedes

\* A beginning stays one only if what is new was played after it.
LEMMA BeginsGrow ==
    ASSUME NEW S, NEW T, S \subseteq T, NEW v, Folded(v) \subseteq S, Begins(v, T)
    PROVE  Begins(v, S) /\ \A n \in Folded(v) : Earlier(n, T) = Earlier(n, S)
  BY DEF Begins, Earlier

\* A sequence that was safe stays so, while its restore points are kept.
LEMMA SafeStays ==
    ASSUME NEW p, NEW v, Safe(v, p), Folded(v) \subseteq facts, facts \subseteq facts',
           Begins(v, Of(p, facts)) =>
               \A n \in Folded(v) :
                   n \in rated => n \in rated' /\ before'[n][p] = before[n][p]
    PROVE  Safe(v, p)'
  <1> SUFFICES ASSUME Begins(v, Of(p, facts')), NEW n \in Folded(v)
               PROVE  n \in rated' /\ Precedes(before'[n][p], n, Of(p, facts'))
    BY DEF Safe, Exact
  <1>1. Folded(v) \subseteq Of(p, facts) /\ Of(p, facts) \subseteq Of(p, facts')
    BY DEF Begins, Of
  <1>2. Begins(v, Of(p, facts)) /\ Earlier(n, Of(p, facts')) = Earlier(n, Of(p, facts))
    BY <1>1, BeginsGrow
  <1>3. n \in rated /\ Precedes(before[n][p], n, Of(p, facts))
    BY <1>2 DEF Safe, Exact
  <1>4. n \in rated' /\ before'[n][p] = before[n][p]
    BY <1>2, <1>3
  <1>5. QED
    BY <1>2, <1>3, <1>4 DEF Precedes

\* So does one with one more match, whose restore point is what it is on top of.
LEMMA SafeAppend ==
    ASSUME NEW p, NEW v \in Seq(facts'), Safe(v, p)', NEW m \in facts',
           facts' \in SUBSET Matches, m \in rated', before'[m][p] = v
    PROVE  Safe(Append(v, m), p)'
  <1> SUFFICES ASSUME Begins(Append(v, m), Of(p, facts')), NEW n \in Folded(Append(v, m))
               PROVE  n \in rated' /\ Precedes(before'[n][p], n, Of(p, facts'))
    BY DEF Safe, Exact
  <1>1. Of(p, facts') \in SUBSET Matches
    BY DEF Of
  <1>2. Begins(v, Of(p, facts')) /\ Precedes(v, m, Of(p, facts'))
    BY <1>1, AppendBegins
  <1>3. Folded(Append(v, m)) = Folded(v) \cup {m}
    BY FoldedAppend
  <1>4. CASE n = m
    BY <1>2, <1>4
  <1>5. CASE n \in Folded(v)
    BY <1>2, <1>5 DEF Safe, Exact
  <1>6. QED
    BY <1>3, <1>4, <1>5

-----------------------------------------------------------------------------
(* While live matches and replays keep apart *)

LEMMA ApartNotes ==
    ASSUME Typed, ApartHolds, NEW m \in Matches,
           \/ ReadMark(m) \/ Advance(m) \/ Tolerate(m)
           \/ NoteOutOfOrder(m) \/ NoteFails(m)
    PROVE  ApartHolds'
  <1>1. /\ UNCHANGED <<read, dbVars, replayVars>>
        /\ \A k \in Matches : job'[k] \in {"absent", "rating"} => job'[k] = job[k]
    BY NotesOnlyNote
  <1> USE DEF dbVars, replayVars
  <1>2. JobsFit => JobsFit'
    BY <1>1 DEF JobsFit
  <1>3. RewindFits => RewindFits'
    <2>1. UNCHANGED <<Folded(todo), Window(since), Restored(wiped)>>
      BY <1>1 DEF Window, Restored
    <2>2. \A p, k : NextOf(k, p)' = NextOf(k, p)
      BY <2>1 DEF NextOf
    <2>3. QED
      BY <1>1, <2>1, <2>2 DEF RewindFits
  <1>4. PointsAreSafe => PointsAreSafe'
    BY <1>1 DEF PointsAreSafe, Safe, Exact, Without
  <1>5. QED
    BY <1>1, <1>2, <1>3, <1>4 DEF ApartHolds

LEMMA ApartRead ==
    ASSUME Typed, ApartHolds, NEW m \in Matches, Read(m)
    PROVE  ApartHolds'
  <1>1. /\ UNCHANGED <<dbVars, stage, since, todo, draft, wiped>>
        /\ apart' => apart /\ stage = "idle"
        /\ job' = [job EXCEPT ![m] = "rating"]
        /\ read' = [read EXCEPT ![m] = [p \in Roster[m] |-> ladder[p]]]
    BY DEF Read, Meets
  <1> SUFFICES ASSUME apart, stage = "idle" PROVE JobsFit' /\ PointsAreSafe' /\ RewindFits'
    BY <1>1 DEF ApartHolds
  <1>2. JobsFit /\ PointsAreSafe
    BY DEF ApartHolds
  <1>3. DOMAIN job = Matches /\ DOMAIN read = Matches /\ wiped = {}
    BY DEF Typed, TypeOK, JobsHold, StagesHold
  <1> USE DEF dbVars
  <1>4. JobsFit'
    BY <1>1, <1>2, <1>3 DEF JobsFit
  <1>5. PointsAreSafe'
    BY <1>1, <1>2 DEF PointsAreSafe, Safe, Exact, Without
  <1>6. RewindFits'
    BY <1>1, <1>3 DEF RewindFits
  <1>7. QED
    BY <1>4, <1>5, <1>6

\* The heart of it for live matches: the lobby's ratings become restore points
\* of the new match, and it is folded on top of them.
LEMMA ApartCommit ==
    ASSUME Typed, ApartHolds, NEW m \in Matches, Commit(m)
    PROVE  ApartHolds'
  <1>1. /\ UNCHANGED <<stage, since, todo, draft, wiped>>
        /\ apart' => apart /\ stage = "idle"
        /\ job[m] = "rating" /\ job' = [job EXCEPT ![m] = "noting"]
        /\ read' = [read EXCEPT ![m] = Nothing]
    BY DEF Commit, Meets
  <1>2. /\ m \notin facts /\ facts' = facts \cup {m} /\ facts \subseteq facts'
        /\ rated' = rated \cup {m}
        /\ before' = [before EXCEPT ![m] = read[m]] /\ DOMAIN before = Matches
        /\ ladder' \in [Players -> Seq(facts')]
        /\ \A p \in Players : ladder'[p] = IF p \in Roster[m] THEN Append(read[m][p], m)
                                          ELSE ladder[p]
    BY CommitType
  <1> SUFFICES ASSUME apart, stage = "idle" PROVE JobsFit' /\ PointsAreSafe' /\ RewindFits'
    BY <1>1 DEF ApartHolds
  <1>3. /\ JobsFit /\ PointsAreSafe /\ wiped = {}
        /\ rated \subseteq facts /\ facts' \subseteq Matches
        /\ DOMAIN job = Matches /\ DOMAIN read = Matches
    BY <1>2 DEF ApartHolds, Typed, TypeOK, JobsHold, StagesHold
  <1>4. \A p \in Roster[m] : p \in Players /\ read[m][p] = ladder[p]
    BY <1>1, <1>3, RosterType DEF JobsFit
  <1>5. JobsFit'
    <2> SUFFICES ASSUME NEW k \in Matches, job'[k] = "rating", NEW p \in Roster[k]
                 PROVE  read'[k][p] = ladder'[p]
      BY <1>1 DEF JobsFit
    <2>1. k # m /\ job[k] = "rating" /\ read'[k] = read[k]
      BY <1>1, <1>3
    <2>2. p \notin Roster[m]
      BY <1>1, <2>1 DEF Typed, JobsHold, Overlapping
    <2>3. p \in Players /\ read[k][p] = ladder[p]
      BY <1>3, <2>1, RosterType DEF JobsFit
    <2>4. QED
      BY <1>2, <2>1, <2>2, <2>3
  <1>6. ASSUME NEW p \in Players, NEW v \in Seq(facts), Safe(v, p)
        PROVE  Safe(v, p)' /\ Folded(v) \subseteq facts
    <2>1. Folded(v) \subseteq facts
      BY FoldedType
    <2>2. \A n \in rated : n \in rated' /\ before'[n] = before[n]
      BY <1>2, <1>3
    <2>3. QED
      BY <1>2, <1>6, <2>1, <2>2, SafeStays
  <1>7. ASSUME NEW p \in Players, NEW v, v = ladder[p]
        PROVE  /\ v \in Seq(facts) /\ Safe(v, p)'
               /\ Safe(ladder[p], p)'
    <2>1. v \in Seq(facts) /\ Safe(v, p)
      BY <1>3, <1>7 DEF Typed, RatingsTyped, PointsAreSafe
    <2>2. Safe(v, p)'
      BY <1>6, <2>1
    <2>3. CASE p \notin Roster[m]
      <3>1. v = ladder'[p]
        BY <1>2, <1>7, <2>3
      <3>2. QED
        BY <2>1, <2>2, <3>1 DEF Safe
    <2>4. CASE p \in Roster[m]
      <3>1. ladder'[p] = Append(v, m) /\ before'[m][p] = v
        BY <1>2, <1>4, <1>7, <2>4
      <3>2. v \in Seq(facts') /\ m \in facts' /\ m \in rated'
        BY <1>2, <2>1, MoreFacts
      <3>3. Safe(Append(v, m), p)'
        BY <1>3, <2>2, <3>1, <3>2, SafeAppend
      <3>4. QED
        BY <2>1, <2>2, <3>1, <3>3 DEF Safe
    <2>5. QED
      BY <2>1, <2>2, <2>3, <2>4
  <1>8. ASSUME NEW k \in rated', NEW p \in Roster[k], NEW v, v = before'[k][p]
        PROVE  Safe(v, p)' /\ Without(v, k)
    <2>1. p \in Players
      BY <1>2, <1>3, RosterType
    <2>2. CASE k = m
      <3>1. v = ladder[p]
        BY <1>2, <1>4, <1>8, <2>2
      <3>2. v \in Seq(facts) /\ Safe(v, p)'
        BY <1>7, <2>1, <3>1
      <3>3. m \notin Folded(v)
        BY <1>2, <3>2, FoldedType
      <3>4. QED
        BY <2>2, <3>2, <3>3 DEF Without
    <2>3. CASE k # m
      <3>1. k \in rated /\ v = before[k][p]
        BY <1>2, <1>3, <1>8, <2>3
      <3>2. v \in Seq(facts) /\ Safe(v, p) /\ Without(v, k)
        BY <1>3, <3>1 DEF Typed, TypeOK, RatingsTyped, PointsAreSafe
      <3>3. QED
        BY <1>6, <2>1, <3>2
    <2>4. QED
      BY <2>2, <2>3
  <1>9. PointsAreSafe'
    <2>1. \A p \in Players : Safe(ladder[p], p)'
      BY <1>7
    <2>2. ASSUME NEW k \in rated', NEW p \in Roster[k]
          PROVE  Safe(before[k][p], p)' /\ Without(before'[k][p], k)
      BY <1>8 DEF Safe
    <2>3. QED
      BY <1>2, <1>3, <2>1, <2>2 DEF PointsAreSafe, Without
  <1>10. RewindFits'
    BY <1>1, <1>3 DEF RewindFits
  <1>11. QED
    BY <1>5, <1>9, <1>10

\* Nothing that the invariant is about changes but the replay.
LEMMA PointsStay ==
    ASSUME UNCHANGED <<ladder, before, facts, rated>>, PointsAreSafe
    PROVE  PointsAreSafe'
  BY DEF PointsAreSafe, Safe, Exact, Without

LEMMA ApartBegin ==
    ASSUME Typed, ApartHolds, ReplayTick \/ FullReplay
    PROVE  ApartHolds'
  <1>1. /\ UNCHANGED <<jobVars, dbVars, draft, wiped, apart>>
        /\ QueuesEmpty /\ stage = "idle" /\ stage' = "built"
        /\ Folded(todo') = Window(since')
    BY BeginType
  <1> SUFFICES ASSUME apart PROVE JobsFit' /\ PointsAreSafe' /\ RewindFits'
    BY <1>1 DEF ApartHolds
  <1> USE DEF jobVars, dbVars
  <1>2. wiped = {}
    BY <1>1 DEF Typed, StagesHold
  <1>3. JobsFit'
    BY <1>1 DEF JobsFit, QueuesEmpty
  <1>4. PointsAreSafe'
    BY <1>1, PointsStay DEF ApartHolds
  <1>5. RewindFits'
    <2>1. Folded(todo)' = Window(since)'
      BY <1>1 DEF Window, Folded
    <2>2. QED
      BY <1>1, <1>2, <2>1 DEF RewindFits
  <1>6. QED
    BY <1>3, <1>4, <1>5

LEMMA ApartRewind ==
    ASSUME Typed, ApartHolds, Rewind
    PROVE  ApartHolds'
  <1>1. /\ UNCHANGED <<jobVars, dbVars, since, todo, apart>>
        /\ stage = "built" /\ stage' = "loading"
        /\ draft' = Restored(Window(since)) /\ wiped' = Window(since)
    BY DEF Rewind
  <1> SUFFICES ASSUME apart PROVE JobsFit' /\ PointsAreSafe' /\ RewindFits'
    BY <1>1 DEF ApartHolds
  <1> USE DEF jobVars, dbVars
  <1>2. JobsFit /\ PointsAreSafe /\ RewindFits
    BY DEF ApartHolds
  <1>3. JobsFit'
    BY <1>1, <1>2 DEF JobsFit
  <1>4. PointsAreSafe'
    BY <1>1, <1>2, PointsStay
  <1>5. todo # <<>> /\ todo \in Seq(Matches) /\ InOrder(todo)
    BY <1>1 DEF Typed, TypeOK, StagesHold
  <1>6. wiped' # {}
    BY <1>1, <1>2, <1>5, FoldedTail DEF RewindFits
  <1>7. RewindFits'
    <2>1. /\ Folded(todo)' = Folded(todo) /\ Window(since)' = Window(since)
          /\ Restored(wiped)' = Restored(Window(since))
      BY <1>1 DEF Window, Folded, Restored
    <2>2. QED
      BY <1>1, <1>2, <1>6, <2>1 DEF RewindFits
  <1>8. QED
    BY <1>3, <1>4, <1>7

LEMMA ApartLoad ==
    ASSUME Typed, ApartHolds, ReplayLoad
    PROVE  ApartHolds'
  <1>1. /\ UNCHANGED <<jobVars, dbVars, since, todo, draft, wiped, apart>>
        /\ stage = "loading" /\ stage' = "writing"
    BY DEF ReplayLoad
  <1> SUFFICES ASSUME apart PROVE JobsFit' /\ PointsAreSafe' /\ RewindFits'
    BY <1>1 DEF ApartHolds
  <1> USE DEF jobVars, dbVars
  <1>2. JobsFit /\ PointsAreSafe /\ RewindFits
    BY DEF ApartHolds
  <1>3. JobsFit'
    BY <1>1, <1>2 DEF JobsFit
  <1>4. PointsAreSafe'
    BY <1>1, <1>2, PointsStay
  <1>5. RewindFits'
    <2>1. UNCHANGED <<Folded(todo), Window(since), Restored(wiped)>>
      BY <1>1 DEF Window, Restored
    <2>2. \A p, k : NextOf(k, p)' = NextOf(k, p)
      BY <2>1 DEF NextOf
    <2>3. QED
      BY <1>1, <1>2, <2>1, <2>2 DEF RewindFits
  <1>6. QED
    BY <1>3, <1>4, <1>5

\* A restore point that a replay keeps holds no match that it wiped: no replay
\* starts in the middle of what a restore point is on top of.
LEMMA KeptPoints ==
    ASSUME Typed, PointsAreSafe, RewindFits, NEW k \in rated \ wiped, NEW p \in Roster[k],
           Begins(before[k][p], Of(p, facts))
    PROVE  Folded(before[k][p]) \cap wiped = {}
  <1> DEFINE v == before[k][p]
  <1> SUFFICES ASSUME NEW n \in Folded(v) \cap wiped PROVE FALSE
    BY DEF v
  <1>1. wiped = Window(since) /\ k \in facts /\ n \in facts /\ facts \subseteq Matches
    BY DEF RewindFits, Typed, TypeOK
  <1>2. PlayedAt[k] \in Nat /\ PlayedAt[n] \in Nat
    BY <1>1, PlayedAtIsNat
  <1>3. since \in Nat /\ PlayedAt[k] < since /\ PlayedAt[n] >= since
    BY <1>1, <1>2, NoneAssumption DEF Window, Typed, TypeOK
  <1>4. k \in Earlier(n, Of(p, facts))
    BY <1>1, <1>2, <1>3 DEF Earlier, Of
  <1>5. k \in Folded(v) /\ InOrder(v)
    BY <1>4 DEF Begins
  <1>6. Without(v, k)
    BY DEF PointsAreSafe
  <1>7. QED
    BY <1>5, <1>6 DEF Without

\* What the replay's session sees of a player is safe, holds nothing that is
\* wiped, and not the match that comes next either.
LEMMA SessionFits ==
    ASSUME Typed, PointsAreSafe, RewindFits, stage = "writing",
           NEW p \in Players
    PROVE  /\ Safe(Session(p), p)
           /\ Begins(Session(p), Of(p, facts)) => Folded(Session(p)) \cap wiped = {}
           /\ \A k \in Matches : NextOf(k, p) => Without(Session(p), k)
  <1>1. CASE wiped = {}
    <2>1. Session(p) = ladder[p]
      BY <1>1, SessionType DEF Typed, StagesHold
    <2>2. QED
      BY <1>1, <2>1 DEF PointsAreSafe, RewindFits
  <1>2. CASE wiped # {} /\ p \notin DOMAIN draft
    <2>1. draft = Restored(wiped) /\ Folded(todo) = wiped /\ wiped \in SUBSET rated
      BY <1>2, WindowType DEF RewindFits
    <2>2. Of(p, wiped) = {}
      BY <1>2, <2>1, RestoredType
    <2>3. Session(p) = ladder[p]
      BY <1>2 DEF Session
    <2>4. Begins(ladder[p], Of(p, facts)) => Folded(ladder[p]) \cap wiped = {}
      BY <2>2 DEF Begins, Of
    <2>5. \A k : ~NextOf(k, p)
      BY <2>1, <2>2 DEF NextOf
    <2>6. QED
      BY <2>3, <2>4, <2>5 DEF PointsAreSafe
  <1>3. CASE wiped # {} /\ p \in DOMAIN draft /\ since = None
    <2>1. draft = Restored(wiped)
      BY <1>3 DEF RewindFits
    <2>2. Session(p) = <<>>
      BY <1>3, <2>1 DEF Restored, Session
    <2>3. QED
      BY <2>2, FoldedEmpty DEF Safe, Without
  <1>4. CASE wiped # {} /\ p \in DOMAIN draft /\ since # None
    <2> DEFINE u == Oldest(p, wiped)
    <2>1. draft = Restored(wiped) /\ Folded(todo) = wiped /\ wiped \in SUBSET rated
      BY <1>4, WindowType DEF RewindFits
    <2>2. /\ u \in Of(p, wiped) /\ \A n \in Of(p, wiped) : PlayedAt[u] <= PlayedAt[n]
          /\ Session(p) = before[u][p]
      BY <1>4, <2>1, RestoredType DEF Session
    <2> HIDE DEF u
    <2>3. u \in rated /\ p \in Roster[u] /\ u \in facts /\ facts \subseteq Matches
      BY <2>1, <2>2 DEF Of, Typed, TypeOK
    <2>4. Safe(Session(p), p) /\ Without(Session(p), u)
      BY <2>2, <2>3 DEF PointsAreSafe
    <2>5. ASSUME Begins(Session(p), Of(p, facts)), NEW n \in Folded(Session(p)) \cap wiped
          PROVE  FALSE
      <3>1. n \in Of(p, wiped) /\ n \in Matches
        BY <2>3, <2>5 DEF Begins, Of
      <3>2. n # u
        BY <2>4, <2>5 DEF Without, Begins
      <3>3. PlayedAt[u] # PlayedAt[n] /\ PlayedAt[u] \in Nat /\ PlayedAt[n] \in Nat
        BY <2>3, <3>1, <3>2, PlayedAtIsNat, PlayedAtAssumption
      <3>4. u \in Earlier(n, Of(p, facts))
        BY <2>2, <2>3, <3>1, <3>3 DEF Earlier, Of
      <3>5. u \in Folded(Session(p))
        BY <2>5, <3>4 DEF Begins
      <3>6. QED
        BY <2>4, <2>5, <3>5 DEF Without, Begins
    <2>6. ASSUME NEW k \in Matches, NextOf(k, p)
          PROVE  Without(Session(p), k)
      <3>1. k \in Of(p, wiped) /\ \A n \in Of(p, wiped) : PlayedAt[k] <= PlayedAt[n]
        BY <2>1, <2>6 DEF NextOf
      <3>2. wiped \in SUBSET Matches
        BY DEF Typed, TypeOK
      <3>3. k = u
        BY <3>1, <3>2, OldestIsUnique DEF u
      <3>4. QED
        BY <2>4, <3>3
    <2>7. QED
      BY <2>4, <2>5, <2>6
  <1>5. QED
    BY <1>1, <1>2, <1>3, <1>4

\* The heart of it for a replay: the session's ratings become the restore points
\* of the match at hand, it is folded on top of them, and no match whose restore
\* point a safe beginning rests on is among those still wiped.
LEMMA ApartReplayCommit ==
    ASSUME Typed, ApartHolds, ReplayCommit
    PROVE  ApartHolds'
  <1> SUFFICES ASSUME NEW m, m = Head(todo) PROVE ApartHolds'
    OBVIOUS
  <1>1. /\ m \in Matches /\ m \in facts /\ m \in rated'
        /\ UNCHANGED <<jobVars, facts, since, apart>>
        /\ stage = "writing" /\ todo' = Tail(todo)
        /\ stage' = (IF Tail(todo) = <<>> THEN "closing" ELSE "loading")
        /\ wiped' = {} /\ rated' = (rated \ wiped) \cup {m}
        /\ current \in [Roster[m] -> Seq(facts)]
        /\ before' = [before EXCEPT ![m] = current] /\ DOMAIN before = Matches
        /\ \A p \in Players : ladder'[p] = IF p \in Roster[m] THEN Append(current[p], m)
                                          ELSE Session(p)
    BY ReplayCommitType
  <1> SUFFICES ASSUME apart PROVE JobsFit' /\ PointsAreSafe' /\ RewindFits'
    BY <1>1 DEF ApartHolds
  <1>2. JobsFit /\ PointsAreSafe /\ RewindFits
    BY DEF ApartHolds
  <1>3. /\ Tail(todo) \in Seq(facts)
        /\ Folded(todo) = {m} \cup Folded(Tail(todo))
        /\ m \notin Folded(Tail(todo))
        /\ \A x \in Folded(Tail(todo)) : PlayedAt[m] < PlayedAt[x]
        /\ Folded(todo) \subseteq facts
    BY <1>1, HeadType
  <1>4. current = [p \in Roster[m] |-> Session(p)] /\ Roster[m] \subseteq Players
    BY <1>1, RosterType DEF Typed, ReadsAreFresh
  <1>5. \A p \in Roster[m] : current[p] = Session(p) /\ p \in Players
    BY <1>4
  <1>6. facts \in SUBSET Matches /\ rated \subseteq facts
    BY DEF Typed, TypeOK
  <1>7. m \notin rated \ wiped /\ Folded(todo) \cap (rated \ wiped) = {}
    <2>1. CASE wiped = {}
      BY <1>1, <1>2, <1>3, <2>1 DEF RewindFits
    <2>2. CASE wiped # {}
      BY <1>1, <1>2, <1>3, <2>2 DEF RewindFits
    <2>3. QED
      BY <2>1, <2>2
  <1>8. \A n \in rated \ wiped : n \in rated' /\ before'[n] = before[n]
    BY <1>1, <1>6, <1>7
  <1>9. ASSUME NEW p \in Players, NEW v \in Seq(facts), Safe(v, p),
               Begins(v, Of(p, facts)) => Folded(v) \cap wiped = {}
        PROVE  Safe(v, p)'
    <2>1. Folded(v) \subseteq facts
      BY FoldedType
    <2>2. Begins(v, Of(p, facts)) =>
              \A n \in Folded(v) : n \in rated => n \in rated' /\ before'[n][p] = before[n][p]
      BY <1>8, <1>9
    <2>3. QED
      BY <1>1, <1>9, <2>1, <2>2, SafeStays
  <1>10. ASSUME NEW p \in Players, NEW v, v = Session(p)
         PROVE  /\ v \in Seq(facts) /\ Safe(v, p)'
                /\ \A k \in Matches : NextOf(k, p) => Without(v, k)
    <2>1. /\ v \in Seq(facts) /\ Safe(v, p)
          /\ Begins(v, Of(p, facts)) => Folded(v) \cap wiped = {}
          /\ \A k \in Matches : NextOf(k, p) => Without(v, k)
      BY <1>1, <1>2, <1>10, SessionFits, SessionType
    <2>2. QED
      BY <1>9, <2>1
  <1>11. ASSUME NEW p \in Players, NEW v, v = Session(p)
         PROVE  Safe(ladder[p], p)'
    <2>1. v \in Seq(facts) /\ Safe(v, p)'
      BY <1>10, <1>11
    <2>2. CASE p \notin Roster[m]
      <3>1. ladder'[p] = v
        BY <1>1, <1>11, <2>2
      <3>2. QED
        BY <2>1, <3>1 DEF Safe
    <2>3. CASE p \in Roster[m]
      <3>1. ladder'[p] = Append(v, m) /\ before'[m][p] = v
        BY <1>1, <1>5, <1>11, <2>3
      <3>2. Safe(Append(v, m), p)'
        BY <1>1, <1>6, <2>1, <3>1, SafeAppend
      <3>3. QED
        BY <3>1, <3>2 DEF Safe
    <2>4. QED
      BY <2>2, <2>3
  <1>12. \A p \in Roster[m] : NextOf(m, p)
    <2>1. \A x \in Folded(todo) : x \in Matches /\ PlayedAt[x] \in Nat
      BY <1>3, <1>6, PlayedAtIsNat
    <2>2. QED
      BY <1>1, <1>3, <2>1 DEF NextOf, Of
  <1>13. ASSUME NEW k \in rated', NEW p \in Roster[k], NEW v, v = before'[k][p]
         PROVE  Safe(v, p)' /\ Without(v, k)
    <2>1. k \in Matches /\ p \in Players
      BY <1>1, <1>6, RosterType
    <2>2. CASE k = m
      <3>1. v = Session(p)
        BY <1>1, <1>5, <1>13, <2>2
      <3>2. QED
        BY <1>10, <1>12, <2>1, <2>2, <3>1
    <2>3. CASE k # m
      <3>1. k \in rated \ wiped /\ v = before[k][p]
        BY <1>1, <1>8, <1>13, <2>3
      <3>2. v \in Seq(facts) /\ Safe(v, p) /\ Without(v, k)
        BY <1>2, <3>1 DEF Typed, RatingsTyped, PointsAreSafe
      <3>3. Begins(v, Of(p, facts)) => Folded(v) \cap wiped = {}
        BY <1>2, <3>1, KeptPoints
      <3>4. QED
        BY <1>9, <2>1, <3>2, <3>3
    <2>4. QED
      BY <2>2, <2>3
  <1>14. PointsAreSafe'
    <2>1. \A p \in Players : Safe(ladder[p], p)'
      BY <1>11
    <2>2. ASSUME NEW k \in rated', NEW p \in Roster[k]
          PROVE  Safe(before[k][p], p)' /\ Without(before'[k][p], k)
      BY <1>13 DEF Safe
    <2>3. QED
      BY <2>1, <2>2 DEF PointsAreSafe, Without
  <1>15. JobsFit'
    BY <1>1, <1>2 DEF JobsFit, jobVars
  <1>16. ASSUME NEW p \in Players, NEW k \in Matches, NextOf(k, p)'
         PROVE  Without(ladder[p], k)'
    <2>1. /\ k \in Of(p, Folded(Tail(todo)))
          /\ \A n \in Of(p, Folded(Tail(todo))) : PlayedAt[k] <= PlayedAt[n]
      BY <1>1, <1>16 DEF NextOf
    <2>2. CASE p \notin Roster[m]
      <3>1. NextOf(k, p)
        BY <1>3, <2>1, <2>2 DEF NextOf, Of
      <3>2. ladder'[p] = Session(p) /\ Without(Session(p), k)
        BY <1>1, <1>10, <2>2, <3>1
      <3>3. QED
        BY <3>2 DEF Without
    <2>3. CASE p \in Roster[m]
      <3>1. PICK v \in Seq(facts) : v = Session(p)
        BY SessionType
      <3>2. ladder'[p] = Append(v, m)
        BY <1>1, <1>5, <2>3, <3>1
      <3>3. /\ Folded(Append(v, m)) = Folded(v) \cup {m}
            /\ InOrder(Append(v, m)) => \A x \in Folded(v) : PlayedAt[x] < PlayedAt[m]
        BY <1>1, <1>6, FoldedAppend
      <3>4. /\ PlayedAt[m] < PlayedAt[k] /\ PlayedAt[m] \in Nat /\ PlayedAt[k] \in Nat
        BY <1>1, <1>3, <2>1, PlayedAtIsNat DEF Of
      <3>5. InOrder(Append(v, m)) => k \notin Folded(Append(v, m))
        BY <3>3, <3>4
      <3>6. QED
        BY <3>2, <3>5 DEF Without
    <2>4. QED
      BY <2>2, <2>3
  <1>17. RewindFits'
    <2>1. stage' = "loading" => Folded(Tail(todo)) \cap rated' = {}
      BY <1>1, <1>3, <1>7
    <2>2. Folded(todo)' = Folded(Tail(todo))
      BY <1>1
    <2>3. \A p \in Players, k \in Matches : NextOf(k, p)' => Without(ladder[p], k)'
      BY <1>16
    <2>4. QED
      BY <1>1, <2>1, <2>2, <2>3 DEF RewindFits
  <1>18. QED
    BY <1>14, <1>15, <1>17

\* A trusted replay of the whole season makes up for everything.
LEMMA ApartEnd ==
    ASSUME Typed, ApartHolds, TrustedHolds, Close \/ ReplayFails
    PROVE  ApartHolds'
  <1>1. /\ UNCHANGED <<jobVars, dbVars>>
        /\ stage # "idle" /\ stage' = "idle" /\ wiped' = {}
        /\ apart' => apart \/ (trusted = Players /\ since = None /\ stage = "closing")
    BY EndType
  <1> SUFFICES ASSUME apart' PROVE JobsFit' /\ PointsAreSafe' /\ RewindFits'
    BY DEF ApartHolds
  <1> USE DEF jobVars, dbVars
  <1>2. (\A m \in Matches : job[m] # "rating") /\ PointsAreSafe
    <2>1. CASE apart
      BY <1>1, <2>1 DEF ApartHolds, JobsFit
    <2>2. CASE trusted = Players /\ since = None /\ stage = "closing"
      <3>1. /\ todo = <<>> /\ \A p \in Players : TrustedWork(p)
            /\ \A m \in Matches : job[m] # "rating"
        BY <2>2, RosterAssumption DEF Typed, StagesHold, TrustedHolds
      <3>2. Folded(todo) = {}
        BY <3>1, FoldedEmpty
      <3>3. \A m \in facts : \A p \in Roster[m] : Exact(m, p)
        BY <2>2, <3>1, <3>2, RosterType DEF TrustedWork, Of, Typed, TypeOK
      <3>4. ASSUME NEW p, NEW v PROVE Safe(v, p)
        BY <3>3 DEF Safe, Begins, Of
      <3>5. ASSUME NEW m \in rated, NEW p \in Roster[m] PROVE Without(before[m][p], m)
        <4>1. Folded(before[m][p]) = Earlier(m, Of(p, facts)) /\ m \in Matches
          BY <3>3 DEF Exact, Precedes, Typed, TypeOK
        <4>2. QED
          BY <4>1, PlayedAtIsNat DEF Earlier, Without
      <3>6. QED
        BY <3>1, <3>4, <3>5 DEF PointsAreSafe
    <2>3. QED
      BY <1>1, <2>1, <2>2
  <1>3. PointsAreSafe'
    BY <1>1, <1>2, PointsStay
  <1>4. QED
    BY <1>1, <1>2, <1>3 DEF JobsFit, RewindFits

-----------------------------------------------------------------------------
(* While a replay may be trusted *)

\* What a step must leave alone for a player that may be trusted.
LEMMA TrustedStays ==
    ASSUME NEW p \in Players,
           UNCHANGED <<since, todo, wiped>>,
           facts \subseteq facts' /\ Of(p, facts') = Of(p, facts),
           Of(p, rated') = Of(p, rated),
           ladder'[p] = ladder[p], Session(p)' = Session(p),
           \A k \in Of(p, rated) : before'[k] = before[k]
    PROVE  /\ TrustedStart(p) => TrustedStart(p)'
           /\ TrustedWork(p) => TrustedWork(p)'
  <1>1. UNCHANGED <<Of(p, facts), Folded(todo), Orderly(p)>>
    BY DEF Of, Folded, Orderly, InOrder
  <1>2. Of(p, Window(since))' = Of(p, Window(since))
    BY DEF Of, Window
  <1>3. \A k \in Of(p, facts) : Exact(k, p)' = Exact(k, p)
    <2> SUFFICES ASSUME NEW k \in Of(p, facts) PROVE Exact(k, p)' = Exact(k, p)
      OBVIOUS
    <2>1. k \in rated' <=> k \in rated
      BY DEF Of
    <2>2. k \in rated => before'[k] = before[k]
      BY DEF Of
    <2>3. Earlier(k, Of(p, facts))' = Earlier(k, Of(p, facts))
      BY <1>1 DEF Earlier
    <2>4. k \in rated =>
             /\ InOrder(before[k][p])' = InOrder(before[k][p])
             /\ Folded(before[k][p])' = Folded(before[k][p])
      BY <2>2 DEF InOrder, Folded
    <2>5. QED
      BY <2>1, <2>3, <2>4 DEF Exact, Precedes
  <1>4. Of(p, facts \ Folded(todo))' = Of(p, facts \ Folded(todo))
    BY <1>1 DEF Of
  <1>5. Of(p, facts \ Folded(todo)) \subseteq Of(p, facts)
    BY DEF Of
  <1>6. Of(p, facts) \subseteq rated' <=> Of(p, facts) \subseteq rated
    BY DEF Of
  <1>7. Of(p, facts) \subseteq rated' \cup Folded(todo)
          <=> Of(p, facts) \subseteq rated \cup Folded(todo)
    BY DEF Of
  <1>8. /\ InOrder(Session(p))' = InOrder(Session(p))
        /\ Folded(Session(p))' = Folded(Session(p))
    BY DEF InOrder, Folded
  <1>9. Of(p, wiped)' = Of(p, wiped) /\ Of(p, Folded(todo))' = Of(p, Folded(todo))
    BY <1>1 DEF Of
  <1>10. TrustedStart(p) => TrustedStart(p)'
    BY <1>1, <1>2, <1>3, <1>6, <1>9 DEF TrustedStart
  <1>11. TrustedWork(p) => TrustedWork(p)'
    BY <1>1, <1>2, <1>3, <1>4, <1>5, <1>6, <1>7, <1>8, <1>9 DEF TrustedWork
  <1>12. QED
    BY <1>10, <1>11

\* A live match is none of a player that is still trusted after it.
LEMMA TrustedLive ==
    ASSUME Typed, TrustedHolds, NEW m \in Matches, Live(m) \/ NoteFails(m)
    PROVE  TrustedHolds'
  <1> SUFFICES ASSUME NEW p \in trusted'
               PROVE  /\ \A k \in Matches : job'[k] = "rating" => p \notin Roster[k]
                      /\ IF stage' = "built" THEN TrustedStart(p)' ELSE TrustedWork(p)'
    BY DEF TrustedHolds
  <1>1. CASE Read(m) \/ Commit(m)
    <2>1. /\ trusted' = trusted \ Roster[m]
          /\ UNCHANGED <<since, todo, wiped, draft, stage>>
          /\ \A k \in Matches : job'[k] = "rating" => job[k] = "rating" \/ k = m
      BY <1>1 DEF Read, Commit, Meets, Typed, TypeOK
    <2>2. p \in trusted /\ p \notin Roster[m] /\ p \in Players
      BY <2>1 DEF Typed, TypeOK
    <2>3. /\ facts \subseteq facts' /\ Of(p, facts') = Of(p, facts)
          /\ Of(p, rated') = Of(p, rated)
          /\ ladder'[p] = ladder[p]
          /\ \A k \in Of(p, rated) : before'[k] = before[k]
      <3>1. CASE Read(m)
        BY <3>1 DEF Read, dbVars
      <3>2. CASE Commit(m)
        <4>1. /\ facts' = facts \cup {m} /\ rated' = rated \cup {m}
              /\ before' = [before EXCEPT ![m] = read[m]] /\ DOMAIN before = Matches
              /\ ladder'[p] = ladder[p]
          BY <2>2, <3>2, CommitType
        <4>2. \A k \in Of(p, rated) : k # m /\ k \in Matches
          BY <2>2 DEF Of, Typed, TypeOK
        <4>3. QED
          BY <2>2, <4>1, <4>2 DEF Of
      <3>3. QED
        BY <1>1, <3>1, <3>2
    <2>4. Session(p)' = Session(p)
      BY <2>1, <2>3 DEF Session
    <2>5. /\ TrustedStart(p) => TrustedStart(p)'
          /\ TrustedWork(p) => TrustedWork(p)'
      BY <2>1, <2>2, <2>3, <2>4, TrustedStays
    <2>6. QED
      BY <2>1, <2>2, <2>5 DEF TrustedHolds
  <1>2. CASE ReadMark(m) \/ Advance(m) \/ Tolerate(m) \/ NoteOutOfOrder(m) \/ NoteFails(m)
    <2>1. /\ UNCHANGED <<dbVars, replayVars>>
          /\ \A k \in Matches : job'[k] = "rating" => job[k] = "rating"
      BY <1>2, NotesOnlyNote
    <2>2. p \in trusted /\ p \in Players
      BY <2>1 DEF replayVars, Typed, TypeOK
    <2>3. Session(p)' = Session(p)
      BY <2>1 DEF Session, dbVars, replayVars
    <2>4. /\ TrustedStart(p) => TrustedStart(p)'
          /\ TrustedWork(p) => TrustedWork(p)'
      BY <2>1, <2>2, <2>3, TrustedStays DEF dbVars, replayVars
    <2>5. QED
      BY <2>1, <2>2, <2>4 DEF TrustedHolds, replayVars
  <1>3. QED
    BY <1>1, <1>2 DEF Live

\* A replay finds exact restore points of every player it finds in order: the
\* rating itself is a beginning.
LEMMA TrustedBegin ==
    ASSUME Typed, ApartHolds, ReplayTick \/ FullReplay
    PROVE  TrustedHolds'
  <1>1. /\ UNCHANGED <<jobVars, dbVars>>
        /\ QueuesEmpty /\ stage' = "built"
        /\ Folded(todo') = Window(since')
        /\ trusted' = {p \in Players : IF since' = None THEN Of(p, facts) \subseteq rated
                                                        ELSE apart /\ Orderly(p)}
    BY BeginType
  <1> SUFFICES ASSUME NEW p \in trusted' PROVE TrustedStart(p)'
    BY <1>1 DEF TrustedHolds, QueuesEmpty, jobVars
  <1> USE DEF dbVars
  <1>2. /\ p \in Players
        /\ IF since' = None THEN Of(p, facts) \subseteq rated ELSE apart /\ Orderly(p)
    BY <1>1
  <1>3. Of(p, Folded(todo))' = Of(p, Window(since))'
    BY <1>1 DEF Window, Of
  <1>4. CASE since' = None
    BY <1>1, <1>2, <1>3, <1>4 DEF TrustedStart, Of
  <1>5. CASE since' # None
    <2>1. Orderly(p) /\ PointsAreSafe /\ facts \subseteq Matches /\ rated \subseteq facts
      BY <1>2, <1>5 DEF ApartHolds, Typed, TypeOK
    <2>2. ASSUME NEW k \in Of(p, facts) PROVE Exact(k, p)
      <3>1. InOrder(ladder[p]) /\ Folded(ladder[p]) = Of(p, facts)
        BY <2>1 DEF Orderly
      <3>2. Begins(ladder[p], Of(p, facts))
        BY <3>1 DEF Begins, Earlier
      <3>3. Safe(ladder[p], p)
        BY <1>2, <2>1 DEF PointsAreSafe
      <3>4. QED
        BY <3>1, <3>2, <3>3 DEF Safe
    <2>3. Of(p, facts) \subseteq rated
      BY <2>2 DEF Exact
    <2>4. Orderly(p)' = Orderly(p) /\ \A k : Exact(k, p)' = Exact(k, p)
      BY <1>1 DEF Orderly, Exact
    <2>5. Of(p, facts)' = Of(p, facts) /\ rated' = rated
      BY <1>1 DEF Of
    <2>6. QED
      BY <1>1, <1>3, <2>1, <2>2, <2>3, <2>4, <2>5 DEF TrustedStart
  <1>6. QED
    BY <1>4, <1>5

\* A player in the window goes back to its matches before it.
LEMMA TrustedRewind ==
    ASSUME Typed, TrustedHolds, Rewind
    PROVE  TrustedHolds'
  <1>1. /\ UNCHANGED <<jobVars, dbVars, since, todo, trusted>>
        /\ stage = "built" /\ stage' = "loading"
        /\ draft' = Restored(Window(since)) /\ wiped' = Window(since)
    BY DEF Rewind
  <1> SUFFICES ASSUME NEW p \in trusted PROVE TrustedWork(p)'
    BY <1>1 DEF TrustedHolds, jobVars
  <1> USE DEF dbVars
  <1> DEFINE W == Window(since)
             R == Restored(W)
  <1>2. TrustedStart(p) /\ p \in Players
    BY <1>1 DEF TrustedHolds, Typed, TypeOK
  <1>3. /\ Of(p, facts) \subseteq rated /\ Of(p, Folded(todo)) = Of(p, W)
        /\ facts \subseteq Matches /\ W \in SUBSET rated /\ W \subseteq facts
    BY <1>2, WindowType DEF TrustedStart, Typed, TypeOK
  <1>4. ASSUME NEW k \in Of(p, facts), k \notin W, NEW n \in W
        PROVE  since # None /\ PlayedAt[k] < PlayedAt[n]
    <2>1. k \in rated /\ k \in Matches /\ n \in Matches
      BY <1>3, <1>4 DEF Of
    <2>2. /\ PlayedAt[k] \in Nat /\ PlayedAt[n] \in Nat
          /\ since # None /\ ~(PlayedAt[k] >= since) /\ PlayedAt[n] >= since
      BY <1>4, <2>1, PlayedAtIsNat DEF Window
    <2>3. since \in Nat
      BY <2>2 DEF Typed, TypeOK
    <2>4. QED
      BY <2>2, <2>3
  <1>5. since = None => Of(p, W) = Of(p, facts)
    BY <1>3 DEF Window, Of
  <1>6. /\ InOrder(Session(p)')
        /\ Folded(Session(p)') = Of(p, facts \ W)
    <2>1. Session(p)' = IF p \in DOMAIN R THEN R[p] ELSE ladder[p]
      BY <1>1 DEF Session
    <2>2. CASE p \notin DOMAIN R
      <3>1. Of(p, W) = {}
        BY <1>2, <1>3, <2>2, RestoredType
      <3>2. since # None
        BY <1>2, <2>2 DEF Restored
      <3>3. InOrder(ladder[p]) /\ Folded(ladder[p]) = Of(p, facts)
        BY <1>2, <3>2 DEF TrustedStart, Orderly
      <3>4. Of(p, facts) = Of(p, facts \ W)
        BY <3>1 DEF Of
      <3>5. QED
        BY <2>1, <2>2, <3>3, <3>4
    <2>3. CASE p \in DOMAIN R /\ since = None
      <3>1. Session(p)' = <<>>
        BY <2>1, <2>3, <1>2 DEF Restored
      <3>2. Of(p, facts \ W) = {}
        BY <1>5, <2>3 DEF Of
      <3>3. QED
        BY <3>1, <3>2, FoldedEmpty
    <2>4. CASE p \in DOMAIN R /\ since # None
      <3> DEFINE u == Oldest(p, W)
      <3>1. /\ u \in Of(p, W) /\ \A n \in Of(p, W) : PlayedAt[u] <= PlayedAt[n]
            /\ Session(p)' = before[u][p]
        BY <1>3, <2>1, <2>4, RestoredType
      <3> HIDE DEF u, W, R
      <3>2. u \in Of(p, facts) /\ u \in W /\ u \in facts
        BY <1>3, <3>1 DEF Of
      <3>3. Exact(u, p)
        BY <1>2, <2>4, <3>2 DEF TrustedStart
      <3>4. \A n \in Of(p, facts) : PlayedAt[n] < PlayedAt[u] <=> n \notin W
        <4> SUFFICES ASSUME NEW n \in Of(p, facts)
                     PROVE  PlayedAt[n] < PlayedAt[u] <=> n \notin W
          OBVIOUS
        <4>1. n \in facts /\ PlayedAt[n] \in Nat /\ PlayedAt[u] \in Nat
          BY <1>3, <3>2, PlayedAtIsNat DEF Of
        <4>2. CASE n \in W
          <5>1. n \in Of(p, W)
            BY <4>2 DEF Of
          <5>2. QED
            BY <3>1, <4>1, <4>2, <5>1
        <4>3. CASE n \notin W
          BY <1>4, <3>2, <4>1, <4>3
        <4>4. QED
          BY <4>2, <4>3
      <3>5. Earlier(u, Of(p, facts)) = Of(p, facts \ W)
        BY <3>4 DEF Earlier, Of
      <3>6. QED
        BY <3>1, <3>3, <3>5 DEF Exact, Precedes
    <2>5. QED
      BY <2>2, <2>3, <2>4
  <1>7. Of(p, facts \ W) = Of(p, facts \ Folded(todo))
    BY <1>3 DEF Of
  <1> HIDE DEF W, R
  <1>8. /\ UNCHANGED <<Folded(todo), since, facts, rated>>
        /\ wiped' = W /\ Window(since)' = W
    BY <1>1 DEF Window, Folded, W
  <1>9. InOrder(Session(p))' /\ Folded(Session(p))' = Of(p, facts \ Folded(todo))
    BY <1>6, <1>7 DEF InOrder, Folded
  <1>10. \A k \in Of(p, facts \ Folded(todo)), n \in Of(p, Folded(todo)) :
            PlayedAt[k] < PlayedAt[n]
    BY <1>3, <1>4 DEF Of
  <1>11. since = None => Of(p, facts \ Folded(todo)) = {}
    BY <1>3, <1>5 DEF Of
  <1>12. /\ Of(p, facts)' = Of(p, facts) /\ Of(p, wiped)' = Of(p, W)
         /\ Of(p, Window(since))' = Of(p, W) /\ Of(p, Folded(todo))' = Of(p, Folded(todo))
         /\ Of(p, facts \ Folded(todo))' = Of(p, facts \ Folded(todo))
    BY <1>8 DEF Of
  <1>13. QED
    BY <1>3, <1>8, <1>9, <1>10, <1>11, <1>12 DEF TrustedWork

LEMMA TrustedLoad ==
    ASSUME Typed, TrustedHolds, ReplayLoad
    PROVE  TrustedHolds'
  <1>1. /\ UNCHANGED <<jobVars, dbVars, since, todo, draft, wiped, trusted>>
        /\ stage = "loading" /\ stage' = "writing"
    BY DEF ReplayLoad
  <1> SUFFICES ASSUME NEW p \in trusted PROVE TrustedWork(p)'
    BY <1>1 DEF TrustedHolds, jobVars
  <1>2. TrustedWork(p) /\ p \in Players
    BY <1>1 DEF TrustedHolds, Typed, TypeOK
  <1>3. Session(p)' = Session(p)
    BY <1>1 DEF Session, dbVars
  <1>4. QED
    BY <1>1, <1>2, <1>3, TrustedStays DEF dbVars

\* The match at hand is folded on top of all that was played before it.
LEMMA TrustedReplayCommit ==
    ASSUME Typed, TrustedHolds, ReplayCommit
    PROVE  TrustedHolds'
  <1> SUFFICES ASSUME NEW m, m = Head(todo) PROVE TrustedHolds'
    OBVIOUS
  <1>1. /\ m \in Matches /\ m \in facts /\ m \in rated'
        /\ UNCHANGED <<jobVars, facts, since, trusted>>
        /\ stage = "writing" /\ stage' # "built" /\ todo' = Tail(todo)
        /\ draft' = Nothing /\ wiped' = {} /\ rated' = (rated \ wiped) \cup {m}
        /\ before' = [before EXCEPT ![m] = current] /\ DOMAIN before = Matches
        /\ \A p \in Players : ladder'[p] = IF p \in Roster[m] THEN Append(current[p], m)
                                          ELSE Session(p)
    BY ReplayCommitType
  <1> SUFFICES ASSUME NEW p \in trusted PROVE TrustedWork(p)'
    BY <1>1 DEF TrustedHolds, jobVars
  <1>2. TrustedWork(p) /\ p \in Players
    BY <1>1 DEF TrustedHolds, Typed, TypeOK
  <1> DEFINE T == Folded(Tail(todo))
             Done == Of(p, facts \ Folded(todo))
             Rest == Of(p, facts \ T)
  <1>3. /\ Folded(todo) = {m} \cup T /\ m \notin T
        /\ \A x \in T : PlayedAt[m] < PlayedAt[x]
        /\ Folded(todo) \subseteq facts
    BY <1>1, HeadType
  <1>4. /\ facts \in SUBSET Matches /\ rated \subseteq facts
        /\ \A n \in facts : PlayedAt[n] \in Nat
    BY PlayedAtIsNat DEF Typed, TypeOK
  <1>5. p \in Roster[m] => current[p] = Session(p)
    BY <1>1 DEF Typed, ReadsAreFresh
  <1> HIDE DEF T
  <1>6. /\ p \in Roster[m] => Rest = Done \cup {m}
        /\ p \notin Roster[m] => Rest = Done
        /\ m \notin Done /\ Done \subseteq Of(p, facts)
    BY <1>1, <1>3 DEF Of
  <1>7. \A k \in Done : /\ p \in Roster[m] => PlayedAt[k] < PlayedAt[m]
                        /\ \A n \in Of(p, T) : PlayedAt[k] < PlayedAt[n]
    BY <1>2, <1>3 DEF TrustedWork, Of
  <1>8. /\ Session(p) \in Seq(facts)
        /\ InOrder(Session(p)) /\ Folded(Session(p)) = Done
    BY <1>2, SessionType DEF TrustedWork
  <1>9. since = None => \A k \in Done : Exact(k, p)
    BY <1>2 DEF TrustedWork
  <1>10. /\ Of(p, facts) \subseteq rated \cup Folded(todo)
         /\ wiped # {} => Of(p, wiped) = Of(p, Folded(todo))
    BY <1>2 DEF TrustedWork
  <1>11. \A k \in Done : k \in Matches /\ k \in facts /\ k \notin Folded(todo) /\ p \in Roster[k]
    BY <1>4 DEF Of
  <1>12. Done \subseteq rated /\ \A k \in Done : k \notin wiped
    BY <1>6, <1>10, <1>11 DEF Of
  <1> HIDE DEF Done, Rest
  <1>13. InOrder(ladder'[p]) /\ Folded(ladder'[p]) = Rest
    <2>1. CASE p \notin Roster[m]
      BY <1>1, <1>2, <1>6, <1>8, <2>1
    <2>2. CASE p \in Roster[m]
      <3>1. PICK v \in Seq(facts) : v = Session(p)
        BY <1>8
      <3>2. ladder'[p] = Append(v, m)
        BY <1>1, <1>2, <1>5, <2>2, <3>1
      <3>3. InOrder(v) /\ Folded(v) = Done
        BY <1>8, <3>1
      <3>4. \A x \in Folded(v) : PlayedAt[x] < PlayedAt[m]
        BY <1>7, <2>2, <3>3
      <3>5. Folded(Append(v, m)) = Folded(v) \cup {m} /\ InOrder(Append(v, m))
        BY <1>1, <1>4, <3>3, <3>4, FoldedAppend
      <3>6. QED
        BY <1>6, <2>2, <3>2, <3>3, <3>5
    <2>3. QED
      BY <2>1, <2>2
  <1>14. ASSUME since = None, NEW k \in Rest
         PROVE  Exact(k, p)'
    <2>1. CASE k = m
      <3>1. p \in Roster[m]
        BY <1>6, <1>14, <2>1
      <3>2. before'[m][p] = Session(p)
        BY <1>1, <1>5, <3>1
      <3>3. \A n \in Of(p, facts) : PlayedAt[n] < PlayedAt[m] <=> n \in Done
        <4> SUFFICES ASSUME NEW n \in Of(p, facts)
                     PROVE  PlayedAt[n] < PlayedAt[m] <=> n \in Done
          OBVIOUS
        <4>1. n \in Done \/ n = m \/ n \in T
          BY <1>3 DEF Of, Done
        <4>2. n \in facts /\ PlayedAt[n] \in Nat /\ PlayedAt[m] \in Nat
          BY <1>1, <1>4 DEF Of
        <4>3. n \in Done => n \notin T
          BY <1>3, <1>11
        <4>4. QED
          BY <1>3, <1>6, <1>7, <3>1, <4>1, <4>2, <4>3
      <3>4. Earlier(m, Of(p, facts)) = Done
        BY <1>6, <3>3 DEF Earlier
      <3>5. Precedes(before'[m][p], m, Of(p, facts'))
        BY <1>1, <1>8, <3>2, <3>4 DEF Precedes
      <3>6. QED
        BY <1>1, <2>1, <3>5 DEF Exact
    <2>2. CASE k # m
      <3>1. k \in Done
        BY <1>6, <1>14, <2>2
      <3>2. Exact(k, p)
        BY <1>9, <1>14, <3>1
      <3>3. k \in rated' /\ before'[k] = before[k]
        BY <1>1, <1>11, <1>12, <2>2, <3>1
      <3>4. QED
        BY <1>1, <3>2, <3>3 DEF Exact
    <2>3. QED
      BY <2>1, <2>2
  <1>15. Of(p, facts) \subseteq rated' \cup T
    <2> SUFFICES ASSUME NEW k \in Of(p, facts), k \notin T, k # m PROVE k \in rated'
      BY <1>1
    <2>1. k \in Done
      BY <1>3 DEF Of, Done
    <2>2. QED
      BY <1>1, <1>12, <2>1
  <1>16. Folded(todo)' = T /\ Session(p)' = ladder'[p]
    BY <1>1 DEF T, Session, Nothing
  <1>17. InOrder(Session(p))' /\ Folded(Session(p))' = Rest
    BY <1>13, <1>16 DEF InOrder, Folded
  <1>18. \A k \in Rest, n \in Of(p, T) : PlayedAt[k] < PlayedAt[n]
    BY <1>3, <1>6, <1>7 DEF Of
  <1>19. /\ Of(p, facts)' = Of(p, facts) /\ Of(p, Folded(todo))' = Of(p, T)
         /\ Of(p, facts \ Folded(todo))' = Rest
    BY <1>1, <1>16 DEF Of, Rest
  <1>20. QED
    BY <1>1, <1>14, <1>15, <1>16, <1>17, <1>18, <1>19 DEF TrustedWork

-----------------------------------------------------------------------------
(* The theorems *)

LEMMA InvInit == Init => IInv
  <1> SUFFICES ASSUME Init PROVE IInv
    OBVIOUS
  <1>1. Typed
    BY TypedInit
  <1>2. PointsAreSafe
    BY FoldedEmpty DEF Init, PointsAreSafe, Safe
  <1>3. JobsFit /\ RewindFits /\ trusted = {}
    BY DEF Init, JobsFit, RewindFits
  <1>4. QED
    BY <1>1, <1>2, <1>3 DEF IInv, ApartHolds, TrustedHolds

LEMMA InvStep == IInv /\ [Next]_vars => IInv'
  <1> SUFFICES ASSUME IInv, [Next]_vars PROVE IInv'
    OBVIOUS
  <1>1. Typed /\ ApartHolds /\ TrustedHolds /\ Typed'
    BY TypedStep DEF IInv
  <1> SUFFICES ApartHolds' /\ TrustedHolds'
    BY <1>1 DEF IInv
  <1>2. ASSUME NEW m \in Matches, Live(m) \/ NoteFails(m)
        PROVE  ApartHolds' /\ TrustedHolds'
    BY <1>1, <1>2, ApartRead, ApartCommit, ApartNotes, TrustedLive DEF Live
  <1>3. CASE ReplayTick \/ FullReplay
    BY <1>1, <1>3, ApartBegin, TrustedBegin
  <1>4. CASE Rewind
    BY <1>1, <1>4, ApartRewind, TrustedRewind
  <1>5. CASE ReplayLoad
    BY <1>1, <1>5, ApartLoad, TrustedLoad
  <1>6. CASE ReplayCommit
    BY <1>1, <1>6, ApartReplayCommit, TrustedReplayCommit
  <1>7. CASE Close \/ ReplayFails
    <2>1. trusted' = {}
      BY <1>1, <1>7, EndType
    <2>2. QED
      BY <1>1, <1>7, <2>1, ApartEnd DEF TrustedHolds
  <1>8. CASE UNCHANGED vars
    <2> USE <1>8 DEF vars
    <2>1. /\ UNCHANGED <<Folded(todo), Window(since), Restored(wiped)>>
          /\ \A p : Session(p)' = Session(p)
      BY DEF Window, Restored, Session
    <2>2. \A p, k : NextOf(k, p)' = NextOf(k, p)
      BY <2>1 DEF NextOf
    <2>3. (PointsAreSafe => PointsAreSafe') /\ (JobsFit => JobsFit')
      BY PointsStay DEF JobsFit
    <2>4. RewindFits => RewindFits'
      BY <2>1, <2>2 DEF RewindFits
    <2>5. TrustedHolds'
      <3> SUFFICES ASSUME NEW p \in trusted
                   PROVE  /\ \A k \in Matches : job'[k] = "rating" => p \notin Roster[k]
                          /\ IF stage' = "built" THEN TrustedStart(p)' ELSE TrustedWork(p)'
        BY DEF TrustedHolds
      <3>1. p \in Players
        BY <1>1 DEF Typed, TypeOK
      <3>2. /\ TrustedStart(p) => TrustedStart(p)'
            /\ TrustedWork(p) => TrustedWork(p)'
        BY <2>1, <3>1, TrustedStays
      <3>3. QED
        BY <1>1, <3>2 DEF TrustedHolds
    <2>6. QED
      BY <1>1, <2>3, <2>4, <2>5 DEF ApartHolds
  <1>9. QED
    BY <1>1, <1>2, <1>3, <1>4, <1>5, <1>6, <1>7, <1>8 DEF Next, Replay

LEMMA InvAlways == Spec => []IInv
  BY InvInit, InvStep, PTL DEF Spec

\* TypeOK: the variables hold what the columns, the Redis key and the locals of
\* replay_from hold, however jobs and replays interleave, fail and start again.
THEOREM ReplayTypes == Spec => []TypeOK
  <1>1. IInv => TypeOK
    BY DEF IInv, Typed
  <1>2. QED
    BY <1>1, InvAlways, PTL

\* "Ingerir fora de ordem + replay == ingerir em ordem cronologica": replay_from
\* ends with every match of a player folded once into its rating, in the order
\* of play, if it rewinds the whole season, or the end of one in which that
\* player was in order and no live match had met a replay; a live match that
\* meets this one disturbs its own lobby only.  For any matches, ties of players,
\* late arrivals, failures and earlier replays.
THEOREM ReplaysRestoreOrder == Spec => []ReplayRestoresOrder
  <1>1. IInv => ReplayRestoresOrder
    <2> SUFFICES ASSUME IInv, stage = "closing", NEW p \in trusted PROVE Orderly(p)
      BY DEF ReplayRestoresOrder
    <2>1. TrustedWork(p) /\ todo = <<>> /\ draft = Nothing
      BY DEF IInv, TrustedHolds, Typed, StagesHold
    <2>2. Folded(todo) = {}
      BY <2>1, FoldedEmpty
    <2>3. Session(p) = ladder[p]
      BY <2>1 DEF Session, Nothing
    <2>4. facts \ Folded(todo) = facts
      BY <2>2
    <2>5. QED
      BY <2>1, <2>3, <2>4 DEF TrustedWork, Orderly
  <1>2. QED
    BY <1>1, InvAlways, PTL

\* restore_states_at for such a player: the state_before of the oldest match it
\* has in the window is exactly what it had played before the window, however
\* disordered the others are.
THEOREM RewindsAreExact == Spec => []RewindIsExact
  <1>1. IInv => RewindIsExact
    <2> SUFFICES ASSUME IInv, stage = "loading", wiped # {},
                        NEW p \in trusted, p \in DOMAIN draft
                 PROVE  /\ InOrder(draft[p])
                        /\ Folded(draft[p]) = Of(p, facts \ Window(since))
      BY DEF RewindIsExact
    <2>1. TrustedWork(p)
      BY DEF IInv, TrustedHolds
    <2>2. Of(p, Window(since)) = Of(p, Folded(todo)) /\ Session(p) = draft[p]
      BY <2>1 DEF TrustedWork, Session
    <2>3. Of(p, facts \ Window(since)) = Of(p, facts \ Folded(todo))
      BY <2>2 DEF Of
    <2>4. QED
      BY <2>1, <2>2, <2>3 DEF TrustedWork
  <1>2. QED
    BY <1>1, InvAlways, PTL
=============================================================================
