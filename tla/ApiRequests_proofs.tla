------------------------- MODULE ApiRequests_proofs -------------------------
(***************************************************************************)
(* Proofs about the requests of the API that read rows first and write them  *)
(* later, for any number of them at a time.                                *)
(*                                                                         *)
(* AdminDesk locks no row.  Whatever the others commit between the SELECT    *)
(* and the UPDATE of a request, it changes the columns it names and no       *)
(* other.  And what one dead-letter request at a time takes off the list is  *)
(* not lost: what it read stays the front of the list until it trims it, and *)
(* the id of a requeued job is refused only where a job of the match still   *)
(* runs.                                                                   *)
(*                                                                         *)
(* Tournaments decides on rows that were read before too; what makes its     *)
(* decisions good is that the tournament row stays locked until the commit,  *)
(* so that the rows a request decided on are the rows it writes: a seat is   *)
(* free when it is taken, and the standings add up the sheets in force.      *)
(***************************************************************************)
EXTENDS AdminDesk, Tournaments, SumTheorems, SequenceTheorems, FiniteSetTheorems,
        WellFoundedInduction, TLAPS

(***************************************************************************)
(* AdminDesk                                                               *)
(***************************************************************************)

\* Every request is somewhere.
Placed ==
    /\ DOMAIN req = Requests
    /\ \A r \in Requests : "pc" \in DOMAIN req[r]

\* The season's row has its two columns.
SeasonRow == {"status", "config"} \subseteq DOMAIN season

IInv == Placed /\ SeasonRow

LEMMA InitIInv == Init => IInv
  <1> SUFFICES ASSUME Init PROVE IInv
    OBVIOUS
  <1>1. DOMAIN req = Requests /\ \A r \in Requests : req[r] = [pc |-> "idle"]
    BY DEF Init, Idle
  <1>2. season = [status |-> "active", config |-> {}]
    BY DEF Init
  <1>3. \A r \in Requests : "pc" \in DOMAIN req[r]
    BY <1>1
  <1>4. QED
    BY <1>1, <1>2, <1>3 DEF IInv, Placed, SeasonRow

\* The ways a request moves on: to a fresh record, to another line, or through
\* its list.
LEMMA MovesOn ==
    ASSUME IInv, NEW r \in Requests,
           \/ \E q : req' = [req EXCEPT ![r] = q] /\ "pc" \in DOMAIN q
           \/ \E l : req' = [req EXCEPT ![r].pc = l]
           \/ \E s : req' = [req EXCEPT ![r].saw.todo = s]
    PROVE  Placed'
  BY DEF IInv, Placed

\* A request that is accepted changes no row.
LEMMA Accepted ==
    ASSUME IInv, NEW r \in Requests, NEW actor, NEW kind, NEW more,
           Start(r, actor, kind, more)
    PROVE  IInv' /\ UNCHANGED rows
  <1> DEFINE q == [pc |-> "read", kind |-> kind, actor |-> actor, saw |-> more]
  <1>1. "pc" \in DOMAIN q
    OBVIOUS
  <1>2. req' = [req EXCEPT ![r] = q] /\ UNCHANGED rows
    BY DEF Start, desk
  <1>3. Placed'
    BY <1>1, <1>2, MovesOn
  <1>4. QED
    BY <1>2, <1>3 DEF IInv, SeasonRow, rows

\* A key that is issued or revoked changes no row.
LEMMA KeyChanged ==
    ASSUME IInv, NEW r \in Requests, NEW actor,
           CreateOperator(r, actor) \/ RevokeOperator(r, actor)
    PROVE  IInv' /\ UNCHANGED rows
  <1> DEFINE q == [pc |-> "audit", kind |-> "operators", actor |-> actor]
  <1>1. "pc" \in DOMAIN q
    OBVIOUS
  <1>2. req' = [req EXCEPT ![r] = q] /\ UNCHANGED rows
    BY DEF CreateOperator, RevokeOperator
  <1>3. Placed'
    BY <1>1, <1>2, MovesOn
  <1>4. QED
    BY <1>2, <1>3 DEF IInv, SeasonRow, rows

\* The dead-letter handlers, the audit and a death leave the rows alone.
LEMMA NoRowTouched ==
    ASSUME IInv, NEW r \in Requests,
           \/ TrimAll(r) \/ DrainOne(r) \/ DrainEnds(r) \/ NotFound(r) \/ RemoveEntry(r)
           \/ Requeue(r) \/ Discard(r) \/ Audit(r) \/ Dies(r)
    PROVE  IInv' /\ UNCHANGED rows
  <1>1. UNCHANGED rows
    BY DEF TrimAll, DrainOne, DrainEnds, NotFound, RemoveEntry, Requeue, Discard, Audit,
           Dies, desk
  <1>2. \/ req' = [req EXCEPT ![r] = Idle]
        \/ \E l : req' = [req EXCEPT ![r].pc = l]
        \/ \E s : req' = [req EXCEPT ![r].saw.todo = s]
    BY DEF TrimAll, DrainOne, DrainEnds, NotFound, RemoveEntry, Requeue, Discard, Audit,
           Dies, Answer
  <1>3. "pc" \in DOMAIN Idle
    BY DEF Idle
  <1>4. Placed'
    BY <1>2, <1>3, MovesOn
  <1>5. QED
    BY <1>1, <1>4 DEF IInv, SeasonRow, rows

\* A commit ends in the audit.
LEMMA Committed ==
    ASSUME IInv, NEW r \in Requests, NEW kind, At(r, kind, "read"), Answer(r)
    PROVE  Placed' /\ Commits(r, kind)
  <1>1. req' = [req EXCEPT ![r].pc = "audit"]
    BY DEF Answer
  <1>2. Placed'
    BY <1>1, MovesOn
  <1>3. QED
    BY <1>1, <1>2 DEF Commits, IInv, Placed

Named ==
    /\ \A c \in Columns : player'[c] # player[c] =>
          \E r \in Requests : Commits(r, "moderate") /\ c \in DOMAIN req[r].saw.body.sets
    /\ selected' # selected => \E r \in Requests : Commits(r, "select")
    /\ season'.config # season.config => \E r \in Requests : Commits(r, "config")
    /\ season'.status # season.status => \E r \in Requests : Commits(r, "transition")

LEMMA StepIInv == IInv /\ [Next]_vars => IInv' /\ [Named]_vars
  <1> SUFFICES ASSUME IInv, [Next]_vars PROVE IInv' /\ Named
    OBVIOUS
  <1>1. ASSUME IInv', UNCHANGED rows PROVE IInv' /\ Named
    BY <1>1 DEF Named, rows
  <1>2. ASSUME NEW r \in Requests, NEW actor,
               \/ AskRequeueAll(r, actor) \/ AskEntry(r, actor, "requeue")
               \/ AskEntry(r, actor, "discard") \/ AskModerate(r, actor)
               \/ AskReview(r, actor) \/ AskSelect(r, actor)
               \/ AskConfig(r, actor) \/ AskTransition(r, actor)
        PROVE  \E kind, more : Start(r, actor, kind, more)
    BY <1>2 DEF AskRequeueAll, AskEntry, AskModerate, AskReview, AskSelect, AskConfig,
                AskTransition
  <1>3. ASSUME NEW r \in Requests, Moderate(r) PROVE IInv' /\ Named
    <2>1. Placed' /\ Commits(r, "moderate")
      BY <1>3, Committed DEF Moderate
    <2>2. UNCHANGED <<selected, season>>
      BY <1>3 DEF Moderate
    <2>3. ASSUME NEW c \in Columns, player'[c] # player[c]
          PROVE  c \in DOMAIN req[r].saw.body.sets
      BY <1>3, <2>3 DEF Moderate, Written
    <2>4. QED
      BY <2>1, <2>2, <2>3 DEF Named, IInv, SeasonRow
  <1>4. ASSUME NEW r \in Requests, Review(r) PROVE IInv' /\ Named
    <2>1. Placed'
      BY <1>4, Committed DEF Review
    <2>2. UNCHANGED <<player, selected, season>>
      BY <1>4 DEF Review
    <2>3. QED
      BY <2>1, <2>2 DEF Named, IInv, SeasonRow
  <1>5. ASSUME NEW r \in Requests, Select(r) PROVE IInv' /\ Named
    <2>1. Placed' /\ Commits(r, "select")
      BY <1>5, Committed DEF Select
    <2>2. UNCHANGED <<player, season>>
      BY <1>5 DEF Select
    <2>3. QED
      BY <2>1, <2>2 DEF Named, IInv, SeasonRow
  <1>6. ASSUME NEW r \in Requests, Configure(r) PROVE IInv' /\ Named
    <2>1. Placed' /\ Commits(r, "config")
      BY <1>6, Committed DEF Configure
    <2>2. UNCHANGED <<player, selected>>
      BY <1>6 DEF Configure
    <2>3. SeasonRow' /\ season'.status = season.status
      BY <1>6 DEF Configure, IInv, SeasonRow
    <2>4. QED
      BY <2>1, <2>2, <2>3 DEF Named, IInv
  <1>7. ASSUME NEW r \in Requests, Transition(r) PROVE IInv' /\ Named
    <2>1. Placed' /\ Commits(r, "transition")
      BY <1>7, Committed DEF Transition
    <2>2. UNCHANGED <<player, selected>>
      BY <1>7 DEF Transition
    <2>3. SeasonRow' /\ season'.config = season.config
      BY <1>7 DEF Transition, IInv, SeasonRow
    <2>4. QED
      BY <2>1, <2>2, <2>3 DEF Named, IInv
  <1>8. ASSUME \/ \E id \in Ids : Rate(id) \/ DeadLetter(id)
               \/ Tick \/ UNCHANGED vars
        PROVE  UNCHANGED <<req, rows>>
    BY <1>8 DEF Rate, DeadLetter, Tick, desk, vars
  <1>9. ASSUME UNCHANGED <<req, rows>> PROVE IInv' /\ Named
    BY <1>1, <1>9 DEF IInv, Placed, SeasonRow, rows
  <1>10. QED
    BY <1>1, <1>2, <1>3, <1>4, <1>5, <1>6, <1>7, <1>8, <1>9, Accepted, KeyChanged,
       NoRowTouched DEF Next, Handle

\* admin_players.py, admin.py: a request that read a row changes the columns its
\* body names and no other, though others committed to the row meanwhile.
THEOREM OnlyNamed == Spec => OnlyNamedColumnsChange
  <1>1. [Named]_vars <=> [/\ \A c \in Columns : player'[c] # player[c] =>
                                \E r \in Requests : Commits(r, "moderate") /\ c \in DOMAIN req[r].saw.body.sets
                          /\ selected' # selected => \E r \in Requests : Commits(r, "select")
                          /\ season'.config # season.config => \E r \in Requests : Commits(r, "config")
                          /\ season'.status # season.status => \E r \in Requests : Commits(r, "transition")]_vars
    BY DEF Named
  <1>2. QED
    BY <1>1, InitIInv, StepIInv, PTL DEF Spec, OnlyNamedColumnsChange

-----------------------------------------------------------------------------
(* The list *)

Entries == [match : Matches, at : Nat]

In(e, list) == \E i \in 1 .. Len(list) : list[i] = e

\* A match is on the list if one of its entries is.
LEMMA MatchListed ==
    ASSUME NEW list \in Seq(Entries), NEW m
    PROVE  (\E i \in DOMAIN list : list[i].match = m)
              <=> (\E e : In(e, list) /\ e.match = m)
  <1>1. DOMAIN list = 1 .. Len(list)
    OBVIOUS
  <1>2. QED
    BY <1>1 DEF In

\* RPUSH: what was listed stays, in its place, and the new entry is listed.
LEMMA AppendKeeps ==
    ASSUME NEW list \in Seq(Entries), NEW e \in Entries
    PROVE  /\ Append(list, e) \in Seq(Entries)
           /\ Len(Append(list, e)) = Len(list) + 1
           /\ \A i \in 1 .. Len(list) : Append(list, e)[i] = list[i]
           /\ In(e, Append(list, e))
           /\ \A x : In(x, list) => In(x, Append(list, e))
  BY AppendProperties DEF In

\* LTRIM: only what was read goes.
LEMMA TrimmedKeeps ==
    ASSUME NEW list \in Seq(Entries), NEW read \in Seq(Entries)
    PROVE  /\ Trimmed(list, read) \in Seq(Entries)
           /\ \A i \in Len(read) + 1 .. Len(list) : In(list[i], Trimmed(list, read))
  <1>1. Len(read) \in Nat /\ Len(list) \in Nat
    OBVIOUS
  <1>2. \A i \in Len(read) + 1 .. Len(list) : list[i] \in Entries
    BY <1>1
  <1>3. /\ Trimmed(list, read) \in Seq(Entries)
        /\ Len(Trimmed(list, read)) = IF Len(read) + 1 <= Len(list)
                                         THEN Len(list) - (Len(read) + 1) + 1 ELSE 0
        /\ \A k \in 1 .. Len(list) - (Len(read) + 1) + 1 :
              Trimmed(list, read)[k] = list[Len(read) + 1 + k - 1]
    BY <1>1, <1>2, SubSeqProperties DEF Trimmed
  <1>4. ASSUME NEW i \in Len(read) + 1 .. Len(list)
        PROVE  In(list[i], Trimmed(list, read))
    <2>1. i - Len(read) \in 1 .. Len(Trimmed(list, read))
      BY <1>1, <1>3
    <2>2. Trimmed(list, read)[i - Len(read)] = list[i]
      BY <1>1, <1>3, <2>1
    <2>3. QED
      BY <2>1, <2>2 DEF In
  <1>5. QED
    BY <1>3, <1>4

\* The list without its first entry.
LEMMA TailKeeps ==
    ASSUME NEW list \in Seq(Entries), list # <<>>
    PROVE  /\ Tail(list) \in Seq(Entries) /\ Head(list) \in Entries
           /\ \A e : In(e, list) => e = Head(list) \/ In(e, Tail(list))
  <1>1. /\ Tail(list) \in Seq(Entries) /\ Head(list) \in Entries
        /\ Len(Tail(list)) = Len(list) - 1
        /\ \A i \in 1 .. Len(Tail(list)) : Tail(list)[i] = list[i + 1]
    BY HeadTailProperties
  <1>2. ASSUME NEW i \in 1 .. Len(list), i # 1
        PROVE  i - 1 \in 1 .. Len(Tail(list)) /\ Tail(list)[i - 1] = list[i]
    BY <1>1, <1>2
  <1>3. Head(list) = list[1]
    OBVIOUS
  <1>4. QED
    BY <1>1, <1>2, <1>3 DEF In

\* LREM of one value: no other value goes.
LEMMA RemKeeps ==
    ASSUME NEW list \in Seq(Entries), NEW e, Contains(list, e)
    PROVE  /\ Rem(list, e) \in Seq(Entries)
           /\ \A x : In(x, list) => x = e \/ In(x, Rem(list, e))
  <1> DEFINE places == {i \in 1 .. Len(list) : list[i] = e}
             k == Min(places)
             front == SubSeq(list, 1, k - 1)
             back == SubSeq(list, k + 1, Len(list))
  <1>1. Len(list) \in Nat /\ \A i \in 1 .. Len(list) : list[i] \in Entries
    OBVIOUS
  <1>2. places # {} /\ places \in SUBSET Nat
    BY <1>1 DEF Contains
  <1>3. k \in places
    <2> HIDE DEF places
    <2>1. \E x \in places : \A y \in places : x <= y
      BY <1>2, LeastNatural
    <2>2. QED
      BY <2>1 DEF Min
  <1>4. Rem(list, e) = front \o back
    <2>1. SelectInSeq(list, LAMBDA v : v = e) = k
      BY <1>2 DEF SelectInSeq
    <2>2. \E i \in 1 .. Len(list) : list[i] = e
      BY <1>2
    <2>3. QED
      BY <2>1, <2>2 DEF Rem, RemoveFirst, RemoveAt
  <1> HIDE DEF k
  <1>5. k \in 1 .. Len(list) /\ list[k] = e
    BY <1>3
  <1>6. /\ front \in Seq(Entries) /\ Len(front) = k - 1
        /\ \A i \in 1 .. k - 1 : front[i] = list[i]
    <2>1. \A i \in 1 .. k - 1 : list[i] \in Entries
      BY <1>1, <1>5
    <2>2. /\ front \in Seq(Entries)
          /\ Len(front) = IF 1 <= k - 1 THEN k - 1 - 1 + 1 ELSE 0
          /\ \A i \in 1 .. k - 1 - 1 + 1 : front[i] = list[1 + i - 1]
      BY <1>1, <1>5, <2>1, SubSeqProperties
    <2>3. QED
      BY <1>5, <2>2
  <1>7. /\ back \in Seq(Entries) /\ Len(back) = Len(list) - k
        /\ \A i \in 1 .. Len(list) - k : back[i] = list[k + i]
    <2>1. \A i \in k + 1 .. Len(list) : list[i] \in Entries
      BY <1>1, <1>5
    <2>2. /\ back \in Seq(Entries)
          /\ Len(back) = IF k + 1 <= Len(list) THEN Len(list) - (k + 1) + 1 ELSE 0
          /\ \A i \in 1 .. Len(list) - (k + 1) + 1 : back[i] = list[k + 1 + i - 1]
      BY <1>1, <1>5, <2>1, SubSeqProperties
    <2>3. QED
      BY <1>1, <1>5, <2>2
  <1> HIDE DEF front, back
  <1>8. /\ front \o back \in Seq(Entries)
        /\ Len(front \o back) = Len(front) + Len(back)
        /\ \A i \in 1 .. Len(front) + Len(back) :
              (front \o back)[i] = IF i <= Len(front) THEN front[i]
                                   ELSE back[i - Len(front)]
    BY <1>6, <1>7, ConcatProperties
  <1>9. ASSUME NEW i \in 1 .. Len(list), i # k
        PROVE  In(list[i], front \o back)
    <2>1. CASE i < k
      <3>1. i \in 1 .. Len(front \o back) /\ (front \o back)[i] = list[i]
        BY <1>1, <1>5, <1>6, <1>7, <1>8, <2>1
      <3>2. QED
        BY <3>1 DEF In
    <2>2. CASE i > k
      <3>1. /\ i - 1 \in 1 .. Len(front \o back)
            /\ (front \o back)[i - 1] = list[i]
        <4>1. i - k \in 1 .. Len(list) - k /\ back[i - k] = list[i]
          BY <1>1, <1>5, <1>7, <2>2
        <4>2. i - 1 \in 1 .. Len(front) + Len(back) /\ ~(i - 1 <= Len(front))
          BY <1>1, <1>5, <1>6, <1>7, <2>2
        <4>3. i - 1 - Len(front) = i - k
          BY <1>5, <1>6
        <4>4. QED
          BY <1>8, <4>1, <4>2, <4>3
      <3>2. QED
        BY <3>1 DEF In
    <2>3. QED
      BY <1>1, <1>5, <1>9, <2>1, <2>2
  <1>10. QED
    BY <1>4, <1>5, <1>8, <1>9 DEF In
-----------------------------------------------------------------------------
(* What is on the dead-letter list, and what a request holds of it. *)

\* The clock and the list have their types.
Listing == dlq \in Seq(Entries) /\ deaths \in Nat /\ now \in Nat

\* An id arq refuses because it knows it is of a job that still runs, of a match
\* that is rated, or of a second gone by.
KnownIds ==
    \A id \in known : /\ id[2] \in Nat
                      /\ id \in jobs \/ id[1] \in rated \/ id[2] < now

\* A request that drains the list has the entries it read.
Draining(q) == q.pc \in {"read", "drain"} /\ q.kind = "requeueAll"

ReadEntries ==
    \A r \in Requests : Draining(req[r]) =>
        /\ "saw" \in DOMAIN req[r] /\ "todo" \in DOMAIN req[r].saw
        /\ req[r].saw.todo \in Seq(Entries)

\* Until two dead-letter requests overlap there is at most one, ...
OneAtATime ==
    ~ crowded => \A r, q \in Requests : OnDlq(r) /\ OnDlq(q) => r = q

IsStart(read, list) ==
    /\ Len(read) <= Len(list)
    /\ \A i \in 1 .. Len(read) : read[i] = list[i]

\* ... what it read is still the front of the list, ...
ReadIsTheFront ==
    ~ crowded => \A r \in Requests :
        At(r, "requeueAll", "read") => IsStart(req[r].saw.todo, dlq)

Holds(q, m) ==
    \/ q.pc = "drain" /\ \E i \in DOMAIN q.saw.todo : q.saw.todo[i].match = m
    \/ q.pc = "enqueue" /\ q.saw.entry.match = m

Runs(m) == \E id \in jobs : id[1] = m

Found(m) ==
    \/ m \in rated \cup discarded
    \/ Listed(m)
    \/ \E r \in Requests : Holds(req[r], m)
    \/ Runs(m)

\* ... and unless it dies every match is somewhere.
EveryMatchFound == ~ crowded /\ ~ failed => \A m \in Matches : Found(m)

DInv ==
    /\ Placed /\ Listing /\ KnownIds /\ ReadEntries
    /\ crowded \in BOOLEAN /\ failed \in BOOLEAN
    /\ OneAtATime /\ ReadIsTheFront /\ EveryMatchFound

LEMMA ListedNext ==
    ASSUME dlq' \in Seq(Entries), NEW e, In(e, dlq')
    PROVE  Listed(e.match)'
  <1>1. \E i \in DOMAIN dlq' : dlq'[i].match = e.match
    BY MatchListed
  <1>2. QED
    BY <1>1 DEF Listed

LEMMA ListedStays ==
    ASSUME dlq \in Seq(Entries), dlq' \in Seq(Entries), NEW m, Listed(m),
           \A e : In(e, dlq) => In(e, dlq')
    PROVE  Listed(m)'
  <1>1. PICK e : In(e, dlq) /\ e.match = m
    BY MatchListed DEF Listed
  <1>2. QED
    BY <1>1, ListedNext

LEMMA FoundIsNotLost == DInv => NothingLostAlone
  <1> SUFFICES ASSUME DInv, ~ crowded, ~ failed, NEW m \in Matches PROVE ~ Lost(m)
    BY DEF NothingLostAlone
  <1>1. Found(m)
    BY DEF DInv, EveryMatchFound
  <1>2. QED
    BY <1>1 DEF Found, Lost, Held, Holds, Runs

Others(r) == \A q \in Requests \ {r} : req'[q] = req[q]

\* A request moves to another line and keeps what it read, ...
LEMMA Advances ==
    ASSUME Placed, NEW r \in Requests, NEW l, req' = [req EXCEPT ![r].pc = l]
    PROVE  /\ req'[r].pc = l /\ req'[r].kind = req[r].kind
           /\ req'[r].saw = req[r].saw /\ DOMAIN req'[r] = DOMAIN req[r]
           /\ Others(r) /\ Placed'
  <1>1. /\ req'[r].pc = l /\ req'[r].kind = req[r].kind
        /\ req'[r].saw = req[r].saw /\ DOMAIN req'[r] = DOMAIN req[r]
    BY DEF Placed
  <1>2. Others(r) /\ DOMAIN req' = Requests
    BY DEF Others, Placed
  <1>3. QED
    BY <1>1, <1>2 DEF Placed, Others

\* ... or becomes another record.
LEMMA Becomes ==
    ASSUME Placed, NEW r \in Requests, NEW q, "pc" \in DOMAIN q,
           req' = [req EXCEPT ![r] = q]
    PROVE  req'[r] = q /\ Others(r) /\ Placed'
  <1>1. req'[r] = q /\ DOMAIN req' = Requests
    BY DEF Placed
  <1>2. \A s \in Requests \ {r} : req'[s] = req[s]
    BY DEF Placed
  <1>3. QED
    BY <1>1, <1>2 DEF Placed, Others

\* A step that leaves the queue alone, by a request that holds nothing or dies.
LEMMA QuietDInv ==
    ASSUME DInv, NEW r \in Requests, Others(r), Placed',
           UNCHANGED <<dlq, jobs, known, rated, discarded, now, deaths, crowded>>,
           req'[r].pc \in {"idle", "audit"},
           OnDlq(r)' => OnDlq(r),
           \/ failed' = TRUE
           \/ failed' = failed /\ \A m \in Matches : ~ Holds(req[r], m)
    PROVE  DInv'
  <1>1. Listing' /\ KnownIds' /\ crowded' \in BOOLEAN /\ failed' \in BOOLEAN
    BY DEF DInv, Listing, KnownIds
  <1>2. ReadEntries'
    BY DEF DInv, ReadEntries, Draining, Others
  <1>3. OneAtATime'
    BY DEF DInv, OneAtATime, OnDlq, Others
  <1>4. ReadIsTheFront'
    BY DEF DInv, ReadIsTheFront, At, Others
  <1>5. EveryMatchFound'
    <2> SUFFICES ASSUME ~ crowded', ~ failed', NEW m \in Matches PROVE Found(m)'
      BY DEF EveryMatchFound
    <2>1. Found(m) /\ ~ Holds(req[r], m)
      BY DEF DInv, EveryMatchFound
    <2>2. \A q \in Requests : Holds(req[q], m) => Holds(req'[q], m)
      BY <2>1 DEF Others
    <2>3. QED
      BY <2>1, <2>2 DEF Found, Listed, Runs
  <1>6. QED
    BY <1>1, <1>2, <1>3, <1>4, <1>5 DEF DInv

\* A request that is accepted has just read the list, if it reads it.
LEMMA AcceptedDInv ==
    ASSUME DInv, NEW r \in Requests, NEW actor, NEW kind, NEW more,
           Start(r, actor, kind, more),
           kind = "requeueAll" => more = [todo |-> dlq]
    PROVE  DInv'
  <1> DEFINE q == [pc |-> "read", kind |-> kind, actor |-> actor, saw |-> more]
  <1>1. req' = [req EXCEPT ![r] = q] /\ req[r].pc = "idle"
    BY DEF Start
  <1>2. req'[r] = q /\ Others(r) /\ Placed'
    <2>1. Placed /\ "pc" \in DOMAIN q
      BY DEF DInv
    <2> HIDE DEF q
    <2>2. QED
      BY <1>1, <2>1, Becomes
  <1>3. UNCHANGED <<dlq, jobs, known, rated, discarded, now, deaths, failed>>
    BY DEF Start, queue
  <1>4. crowded' = (crowded \/ (kind \in DlqKinds /\ \E s \in Requests \ {r} : OnDlq(s)))
    BY DEF Start
  <1>5. crowded' \in BOOLEAN /\ (~ crowded' => ~ crowded)
    BY <1>4 DEF DInv
  <1>6. ~ crowded' /\ kind \in DlqKinds => \A s \in Requests \ {r} : ~ OnDlq(s)
    BY <1>4
  <1>7. Listing' /\ KnownIds' /\ failed' \in BOOLEAN
    BY <1>3 DEF DInv, Listing, KnownIds
  <1>8. ReadEntries'
    <2> SUFFICES ASSUME NEW s \in Requests, Draining(req'[s])
                 PROVE  /\ "saw" \in DOMAIN req'[s] /\ "todo" \in DOMAIN req'[s].saw
                        /\ req'[s].saw.todo \in Seq(Entries)
      BY DEF ReadEntries
    <2>1. CASE s = r
      BY <1>2, <2>1 DEF Draining, DInv, Listing
    <2>2. CASE s # r
      BY <1>2, <2>2 DEF Others, DInv, ReadEntries
    <2>3. QED
      BY <2>1, <2>2
  <1>9. OneAtATime'
    <2> SUFFICES ASSUME ~ crowded', NEW s \in Requests, NEW t \in Requests,
                        OnDlq(s)', OnDlq(t)'
                 PROVE  s = t
      BY DEF OneAtATime
    <2>1. \A u \in Requests \ {r} : OnDlq(u)' => OnDlq(u)
      BY <1>2 DEF Others, OnDlq
    <2>2. OnDlq(r)' => kind \in DlqKinds
      BY <1>2 DEF OnDlq
    <2>3. QED
      BY <1>5, <1>6, <2>1, <2>2 DEF DInv, OneAtATime
  <1>10. ReadIsTheFront'
    <2> SUFFICES ASSUME ~ crowded', NEW s \in Requests, At(s, "requeueAll", "read")'
                 PROVE  IsStart(req'[s].saw.todo, dlq')
      BY DEF ReadIsTheFront
    <2>1. CASE s = r
      <3>1. req'[s].saw.todo = dlq /\ dlq' = dlq /\ Len(dlq) \in Nat
        BY <1>2, <1>3, <2>1 DEF At, DInv, Listing
      <3>2. QED
        BY <3>1 DEF IsStart
    <2>2. CASE s # r
      BY <1>2, <1>3, <1>5, <2>2 DEF Others, At, DInv, ReadIsTheFront
    <2>3. QED
      BY <2>1, <2>2
  <1>11. EveryMatchFound'
    <2> SUFFICES ASSUME ~ crowded', ~ failed', NEW m \in Matches PROVE Found(m)'
      BY DEF EveryMatchFound
    <2>1. Found(m) /\ ~ Holds(req[r], m)
      BY <1>1, <1>3, <1>5 DEF DInv, EveryMatchFound, Holds
    <2>2. \A s \in Requests : Holds(req[s], m) => Holds(req'[s], m)
      BY <1>2, <2>1 DEF Others
    <2>3. QED
      BY <1>3, <2>1, <2>2 DEF Found, Listed, Runs
  <1>12. QED
    BY <1>2, <1>5, <1>7, <1>8, <1>9, <1>10, <1>11 DEF DInv
\* The steps of a dead-letter request.  Until requests overlap nobody else has
\* read the list, so what it takes off the list is what it read.
LEMMA TrimAllDInv == ASSUME DInv, NEW r \in Requests, TrimAll(r) PROVE DInv'
  <1> DEFINE todo == req[r].saw.todo
  <1>1. /\ At(r, "requeueAll", "read") /\ dlq' = Trimmed(dlq, todo)
        /\ req' = [req EXCEPT ![r].pc = "drain"]
        /\ UNCHANGED <<jobs, known, rated, discarded, now, deaths, crowded, failed>>
    BY DEF TrimAll
  <1>2. /\ req'[r].pc = "drain" /\ req'[r].kind = req[r].kind
        /\ req'[r].saw = req[r].saw /\ DOMAIN req'[r] = DOMAIN req[r]
        /\ Others(r) /\ Placed'
    BY <1>1, Advances DEF DInv
  <1>3. todo \in Seq(Entries) /\ dlq \in Seq(Entries)
    BY <1>1 DEF DInv, Listing, ReadEntries, Draining, At
  <1>4. Listing' /\ KnownIds' /\ crowded' \in BOOLEAN /\ failed' \in BOOLEAN
    BY <1>1, <1>3, TrimmedKeeps DEF DInv, Listing, KnownIds
  <1>5. ReadEntries'
    BY <1>1, <1>2, <1>3 DEF DInv, ReadEntries, Draining, Others, At
  <1>6. OneAtATime'
    BY <1>1, <1>2 DEF DInv, OneAtATime, OnDlq, Others, At
  <1>7. ~ crowded => \A s \in Requests \ {r} : ~ At(s, "requeueAll", "read")
    BY <1>1 DEF DInv, OneAtATime, OnDlq, At, DlqKinds
  <1>8. ReadIsTheFront'
    BY <1>1, <1>2, <1>7 DEF ReadIsTheFront, At, Others
  <1>9. EveryMatchFound'
    <2> SUFFICES ASSUME ~ crowded, ~ failed, NEW m \in Matches PROVE Found(m)'
      BY <1>1 DEF EveryMatchFound
    <2>1. Found(m)
      BY DEF DInv, EveryMatchFound
    <2>2. \A s \in Requests : Holds(req[s], m) => Holds(req'[s], m)
      BY <1>1, <1>2 DEF Others, Holds, At
    <2>3. ASSUME Listed(m) PROVE Listed(m)' \/ Holds(req'[r], m)
      <3>1. PICK i \in 1 .. Len(dlq) : dlq[i].match = m
        BY <1>3, <2>3 DEF Listed
      <3>2. CASE i <= Len(todo)
        <4>1. i \in DOMAIN todo /\ todo[i] = dlq[i]
          BY <1>1, <1>3, <3>1, <3>2 DEF DInv, ReadIsTheFront, IsStart
        <4>2. QED
          BY <1>2, <3>1, <4>1 DEF Holds
      <3>3. CASE ~ (i <= Len(todo))
        <4>1. i \in Len(todo) + 1 .. Len(dlq)
          BY <1>3, <3>1, <3>3
        <4>2. In(dlq[i], dlq') /\ dlq' \in Seq(Entries)
          BY <1>1, <1>3, <4>1, TrimmedKeeps
        <4>3. QED
          BY <3>1, <4>2 DEF In, Listed
      <3>4. QED
        BY <3>2, <3>3
    <2>4. QED
      BY <1>1, <2>1, <2>2, <2>3 DEF Found, Runs
  <1>10. QED
    BY <1>2, <1>4, <1>5, <1>6, <1>8, <1>9 DEF DInv

\* enqueue_job with the suffix of this second: arq knows that id only from a job
\* that still runs, or that rated the match.
LEMMA EnqueuedRuns ==
    ASSUME DInv, NEW m, Enqueued(FreshId(m)), UNCHANGED <<rated, now>>
    PROVE  /\ KnownIds'
           /\ jobs \subseteq jobs'
           /\ m \in rated \/ \E id \in jobs' : id[1] = m
  <1> DEFINE id == <<m, now>>
  <1>1. /\ jobs' = IF id \in known THEN jobs ELSE jobs \cup {id}
        /\ known' = known \cup {id}
        /\ now \in Nat /\ id[1] = m /\ id[2] = now
    BY DEF Enqueued, FreshId, DInv, Listing
  <1>2. id \in known => id \in jobs \/ m \in rated
    BY <1>1 DEF DInv, KnownIds
  <1>3. id \in jobs' \/ m \in rated
    BY <1>1, <1>2
  <1>4. KnownIds'
    BY <1>1, <1>3 DEF DInv, KnownIds
  <1>5. QED
    BY <1>1, <1>3, <1>4 DEF Runs

LEMMA DrainOneDInv == ASSUME DInv, NEW r \in Requests, DrainOne(r) PROVE DInv'
  <1> DEFINE todo == req[r].saw.todo
  <1>1. /\ At(r, "requeueAll", "drain") /\ todo # <<>>
        /\ req' = [req EXCEPT ![r].saw.todo = Tail(@)]
        /\ \/ Enqueued(FreshId(Head(todo).match)) /\ UNCHANGED dlq
           \/ dlq' = Append(dlq, Head(todo)) /\ UNCHANGED <<jobs, known, ordered>>
        /\ UNCHANGED <<rated, discarded, now, deaths, crowded, failed>>
    BY DEF DrainOne
  <1>2. /\ todo \in Seq(Entries) /\ dlq \in Seq(Entries)
        /\ "saw" \in DOMAIN req[r] /\ "todo" \in DOMAIN req[r].saw
    BY <1>1 DEF DInv, Listing, ReadEntries, Draining, At
  <1>3. /\ req'[r].pc = "drain" /\ req'[r].kind = "requeueAll"
        /\ req'[r].saw.todo = Tail(todo)
        /\ DOMAIN req'[r] = DOMAIN req[r] /\ DOMAIN req'[r].saw = DOMAIN req[r].saw
        /\ Others(r)
    BY <1>1, <1>2 DEF DInv, Placed, At, Others
  <1>4. Placed'
    BY <1>1, MovesOn, <1>3 DEF DInv, Placed, Others
  <1>5. /\ Tail(todo) \in Seq(Entries) /\ Head(todo) \in Entries
        /\ \A e : In(e, todo) => e = Head(todo) \/ In(e, Tail(todo))
    BY <1>1, <1>2, TailKeeps
  <1>6. KnownIds' /\ jobs \subseteq jobs'
    BY <1>1, EnqueuedRuns DEF DInv, KnownIds
  <1>7. /\ dlq' \in Seq(Entries)
        /\ \A e : In(e, dlq) => In(e, dlq')
        /\ \/ Head(todo).match \in rated
           \/ \E id \in jobs' : id[1] = Head(todo).match
           \/ In(Head(todo), dlq')
    <2>1. CASE Enqueued(FreshId(Head(todo).match)) /\ UNCHANGED dlq
      BY <1>1, <1>2, <2>1, EnqueuedRuns
    <2>2. CASE dlq' = Append(dlq, Head(todo))
      BY <1>2, <1>5, <2>2, AppendKeeps
    <2>3. QED
      BY <1>1, <2>1, <2>2
  <1>8. Listing' /\ crowded' \in BOOLEAN /\ failed' \in BOOLEAN
    BY <1>1, <1>7 DEF DInv, Listing
  <1>9. ReadEntries'
    BY <1>2, <1>3, <1>5 DEF DInv, ReadEntries, Draining, Others
  <1>10. OneAtATime'
    BY <1>1, <1>3 DEF DInv, OneAtATime, OnDlq, Others, At
  <1>11. ReadIsTheFront'
    BY <1>1, <1>3 DEF DInv, OneAtATime, OnDlq, Others, At, DlqKinds, ReadIsTheFront
  <1>12. EveryMatchFound'
    <2> SUFFICES ASSUME ~ crowded, ~ failed, NEW m \in Matches PROVE Found(m)'
      BY <1>1 DEF EveryMatchFound
    <2>1. Found(m)
      BY DEF DInv, EveryMatchFound
    <2>2. Listed(m) => Listed(m)'
      BY <1>2, <1>7, ListedStays
    <2>3. Runs(m) => Runs(m)'
      BY <1>6 DEF Runs
    <2>4. \A s \in Requests \ {r} : req'[s] = req[s]
      BY <1>3 DEF Others
    <2>5. ASSUME Holds(req[r], m)
          PROVE  Holds(req'[r], m) \/ m \in rated \/ Runs(m)' \/ Listed(m)'
      <3>1. PICK e : In(e, todo) /\ e.match = m
        BY <1>1, <1>2, <2>5, MatchListed DEF Holds, At
      <3>2. CASE e = Head(todo)
        BY <1>7, <3>1, <3>2, ListedNext DEF Runs
      <3>3. CASE In(e, Tail(todo))
        <4>1. \E i \in DOMAIN Tail(todo) : Tail(todo)[i].match = m
          BY <1>5, <3>1, <3>3, MatchListed
        <4>2. QED
          BY <1>3, <4>1 DEF Holds
      <3>4. QED
        BY <1>5, <3>1, <3>2, <3>3
    <2>6. QED
      BY <1>1, <2>1, <2>2, <2>3, <2>4, <2>5 DEF Found
  <1>13. QED
    BY <1>4, <1>6, <1>8, <1>9, <1>10, <1>11, <1>12 DEF DInv
\* _remove_dlq_entry removes the value it found and no other.
LEMMA RemoveDInv ==
    ASSUME DInv, NEW r \in Requests, RemoveEntry(r) \/ Discard(r)
    PROVE  DInv'
  <1> DEFINE entry == req[r].saw.entry
  <1>1. /\ At(r, "requeue", "read") \/ At(r, "discard", "read")
        /\ Contains(dlq, entry) /\ dlq' = Rem(dlq, entry)
        /\ UNCHANGED <<jobs, known, rated, now, deaths, crowded, failed>>
    BY DEF RemoveEntry, Discard, Answer
  <1>2. \/ req' = [req EXCEPT ![r].pc = "enqueue"] /\ UNCHANGED discarded
        \/ /\ req' = [req EXCEPT ![r].pc = "audit"]
           /\ discarded' = discarded \cup {entry.match}
    BY DEF RemoveEntry, Discard, Answer
  <1>3. /\ req'[r].kind = req[r].kind /\ req'[r].saw = req[r].saw
        /\ \/ req'[r].pc = "enqueue" /\ UNCHANGED discarded
           \/ req'[r].pc = "audit" /\ discarded' = discarded \cup {entry.match}
        /\ Others(r) /\ Placed'
    BY <1>2, Advances DEF DInv
  <1>4. /\ dlq \in Seq(Entries) /\ dlq' \in Seq(Entries)
        /\ \A e : In(e, dlq) => e = entry \/ In(e, dlq')
    BY <1>1, RemKeeps DEF DInv, Listing
  <1>5. Listing' /\ KnownIds' /\ crowded' \in BOOLEAN /\ failed' \in BOOLEAN
    BY <1>1, <1>4 DEF DInv, Listing, KnownIds
  <1>6. ReadEntries'
    BY <1>3 DEF DInv, ReadEntries, Draining, Others
  <1>7. OneAtATime'
    BY <1>1, <1>3 DEF DInv, OneAtATime, OnDlq, Others, At
  <1>8. ReadIsTheFront'
    BY <1>1, <1>3 DEF DInv, OneAtATime, OnDlq, Others, At, DlqKinds, ReadIsTheFront
  <1>9. EveryMatchFound'
    <2> SUFFICES ASSUME ~ crowded, ~ failed, NEW m \in Matches PROVE Found(m)'
      BY <1>1 DEF EveryMatchFound
    <2>1. Found(m) /\ ~ Holds(req[r], m)
      BY <1>1 DEF DInv, EveryMatchFound, Holds, At
    <2>2. \A s \in Requests : Holds(req[s], m) => Holds(req'[s], m)
      BY <1>3, <2>1 DEF Others
    <2>3. ASSUME Listed(m) PROVE Listed(m)' \/ m \in discarded' \/ Holds(req'[r], m)
      <3>1. PICK e : In(e, dlq) /\ e.match = m
        BY <1>4, <2>3, MatchListed DEF Listed
      <3>2. CASE e = entry
        BY <1>3, <3>1, <3>2 DEF Holds
      <3>3. CASE In(e, dlq')
        BY <1>4, <3>1, <3>3, MatchListed DEF Listed
      <3>4. QED
        BY <1>4, <3>1, <3>2, <3>3
    <2>4. m \in rated \cup discarded => m \in rated' \cup discarded'
      BY <1>1, <1>3
    <2>5. Runs(m) => Runs(m)'
      BY <1>1 DEF Runs
    <2>6. QED
      BY <2>1, <2>2, <2>3, <2>4, <2>5 DEF Found
  <1>10. QED
    BY <1>3, <1>5, <1>6, <1>7, <1>8, <1>9 DEF DInv

LEMMA RequeueDInv == ASSUME DInv, NEW r \in Requests, Requeue(r) PROVE DInv'
  <1> DEFINE m0 == req[r].saw.entry.match
  <1>1. /\ At(r, "requeue", "enqueue") /\ Enqueued(FreshId(m0))
        /\ req' = [req EXCEPT ![r].pc = "audit"]
        /\ UNCHANGED <<dlq, rated, discarded, now, deaths, crowded, failed>>
    BY DEF Requeue, Answer
  <1>2. req'[r].pc = "audit" /\ req'[r].kind = req[r].kind /\ Others(r) /\ Placed'
    BY <1>1, Advances DEF DInv
  <1>3. /\ KnownIds' /\ jobs \subseteq jobs'
        /\ m0 \in rated \/ \E id \in jobs' : id[1] = m0
    BY <1>1, EnqueuedRuns
  <1>4. Listing' /\ crowded' \in BOOLEAN /\ failed' \in BOOLEAN
    BY <1>1 DEF DInv, Listing
  <1>5. ReadEntries'
    BY <1>2 DEF DInv, ReadEntries, Draining, Others
  <1>6. OneAtATime'
    BY <1>1, <1>2 DEF DInv, OneAtATime, OnDlq, Others, At
  <1>7. ReadIsTheFront'
    BY <1>1, <1>2 DEF DInv, ReadIsTheFront, Others, At
  <1>8. EveryMatchFound'
    <2> SUFFICES ASSUME ~ crowded, ~ failed, NEW m \in Matches PROVE Found(m)'
      BY <1>1 DEF EveryMatchFound
    <2>1. Found(m)
      BY DEF DInv, EveryMatchFound
    <2>2. Holds(req[r], m) => m = m0
      BY <1>1 DEF At, Holds
    <2>3. \A s \in Requests \ {r} : req'[s] = req[s]
      BY <1>2 DEF Others
    <2>4. Runs(m) => Runs(m)'
      BY <1>3 DEF Runs
    <2>5. Listed(m) => Listed(m)'
      BY <1>1 DEF Listed
    <2>6. QED
      BY <1>1, <1>3, <2>1, <2>2, <2>3, <2>4, <2>5 DEF Found, Runs
  <1>9. QED
    BY <1>2, <1>3, <1>4, <1>5, <1>6, <1>7, <1>8 DEF DInv

\* A job ends: its match is rated, or the last attempt puts it on the list.
LEMMA JobEndsDInv ==
    ASSUME DInv, NEW id \in Ids, Rate(id) \/ DeadLetter(id)
    PROVE  DInv'
  <1> DEFINE dead == [match |-> id[1], at |-> deaths]
  <1>1. /\ jobs' = jobs \ {id}
        /\ UNCHANGED <<req, known, now, discarded, crowded, failed>>
    BY DEF Rate, DeadLetter
  <1>2. \/ rated' = rated \cup {id[1]} /\ UNCHANGED <<dlq, deaths>>
        \/ /\ id[2] < now /\ UNCHANGED rated
           /\ dlq' = Append(dlq, dead) /\ deaths' = deaths + 1
    BY DEF Rate, DeadLetter
  <1>3. dead \in Entries /\ dlq \in Seq(Entries) /\ deaths \in Nat
    BY DEF Entries, Ids, DInv, Listing
  <1>4. /\ dlq' \in Seq(Entries) /\ Len(dlq) <= Len(dlq')
        /\ \A i \in 1 .. Len(dlq) : dlq'[i] = dlq[i]
        /\ \A e : In(e, dlq) => In(e, dlq')
        /\ id[1] \in rated' \/ In(dead, dlq')
    <2>1. CASE UNCHANGED dlq /\ rated' = rated \cup {id[1]}
      BY <1>3, <2>1
    <2>2. CASE dlq' = Append(dlq, dead)
      <3> HIDE DEF dead
      <3>1. QED
        BY <1>3, <2>2, AppendKeeps
    <2>3. QED
      BY <1>2, <2>1, <2>2
  <1>5. rated \subseteq rated'
    BY <1>2
  <1>6. Listing' /\ Placed' /\ crowded' \in BOOLEAN /\ failed' \in BOOLEAN
    BY <1>1, <1>2, <1>3, <1>4 DEF DInv, Listing, Placed
  <1>7. KnownIds'
    BY <1>1, <1>2 DEF DInv, KnownIds
  <1>8. ReadEntries' /\ OneAtATime'
    BY <1>1 DEF DInv, ReadEntries, OneAtATime, OnDlq
  <1>9. ReadIsTheFront'
    <2> SUFFICES ASSUME ~ crowded, NEW s \in Requests, At(s, "requeueAll", "read")
                 PROVE  IsStart(req[s].saw.todo, dlq')
      BY <1>1 DEF ReadIsTheFront, At
    <2>1. IsStart(req[s].saw.todo, dlq) /\ req[s].saw.todo \in Seq(Entries)
      BY DEF DInv, ReadIsTheFront, ReadEntries, Draining, At
    <2>2. QED
      BY <1>3, <1>4, <2>1 DEF IsStart
  <1>10. EveryMatchFound'
    <2> SUFFICES ASSUME ~ crowded, ~ failed, NEW m \in Matches PROVE Found(m)'
      BY <1>1 DEF EveryMatchFound
    <2>1. Found(m)
      BY DEF DInv, EveryMatchFound
    <2>2. Listed(m) => Listed(m)'
      BY <1>3, <1>4, ListedStays
    <2>3. Runs(m) => Runs(m)' \/ m = id[1]
      BY <1>1 DEF Runs
    <2>4. m = id[1] => m \in rated' \/ Listed(m)'
      <3>1. dead.match = id[1]
        OBVIOUS
      <3> HIDE DEF dead
      <3>2. QED
        BY <1>4, <3>1, ListedNext
    <2>5. QED
      BY <1>1, <1>5, <2>1, <2>2, <2>3, <2>4 DEF Found
  <1>11. QED
    BY <1>6, <1>7, <1>8, <1>9, <1>10, <1>1 DEF DInv

LEMMA TickDInv == ASSUME DInv, Tick PROVE DInv'
  <1>1. now' = now + 1 /\ UNCHANGED <<queue, req, deaths, crowded, failed>>
    BY DEF Tick
  <1>2. Listing' /\ KnownIds'
    BY <1>1 DEF DInv, Listing, KnownIds, queue
  <1>3. Placed' /\ ReadEntries' /\ OneAtATime' /\ ReadIsTheFront' /\ EveryMatchFound'
    BY <1>1 DEF DInv, Placed, ReadEntries, OneAtATime, OnDlq, ReadIsTheFront, At,
                EveryMatchFound, Found, Listed, Runs, queue
  <1>4. QED
    BY <1>1, <1>2, <1>3 DEF DInv

LEMMA InitDInv == Init => DInv
  <1> SUFFICES ASSUME Init PROVE DInv
    OBVIOUS
  <1>1. Placed
    BY InitIInv DEF IInv
  <1>2. Listing /\ crowded \in BOOLEAN /\ failed \in BOOLEAN
    <2>1. dlq = <<>> /\ deaths = 0 /\ now = 1 /\ crowded = FALSE /\ failed = FALSE
      BY DEF Init
    <2>2. <<>> \in Seq(Entries)
      BY EmptySeq
    <2>3. QED
      BY <2>1, <2>2 DEF Listing
  <1>3. \A m \in Matches : <<m, 0>> \in jobs
    BY DEF Init
  <1>4. KnownIds
    BY DEF Init, KnownIds
  <1>5. \A r \in Requests : req[r].pc = "idle"
    BY DEF Init, Idle
  <1>6. ReadEntries /\ OneAtATime /\ ReadIsTheFront
    BY <1>5 DEF ReadEntries, Draining, OneAtATime, OnDlq, ReadIsTheFront, At
  <1>7. EveryMatchFound
    <2>1. ASSUME NEW m \in Matches PROVE Runs(m)
      <3>1. <<m, 0>>[1] = m
        OBVIOUS
      <3>2. QED
        BY <1>3, <3>1 DEF Runs
    <2>2. QED
      BY <2>1 DEF EveryMatchFound, Found
  <1>8. QED
    BY <1>1, <1>2, <1>4, <1>6, <1>7 DEF DInv

\* A handler that ends without touching the list.
LEMMA EndsDInv ==
    ASSUME DInv, NEW r \in Requests,
           \/ DrainEnds(r) \/ Moderate(r) \/ Review(r) \/ Select(r)
           \/ Configure(r) \/ Transition(r)
    PROVE  DInv'
  <1>1. /\ req' = [req EXCEPT ![r].pc = "audit"]
        /\ UNCHANGED <<dlq, jobs, known, rated, discarded, now, deaths, crowded, failed>>
    BY DEF DrainEnds, Moderate, Review, Select, Configure, Transition, Answer, queue
  <1>2. req'[r].pc = "audit" /\ req'[r].kind = req[r].kind /\ Others(r) /\ Placed'
    BY <1>1, Advances DEF DInv
  <1>3. \/ req[r].pc = "read"
        \/ req[r].pc = "drain" /\ req[r].saw.todo = <<>>
    BY DEF DrainEnds, Moderate, Review, Select, Configure, Transition, At
  <1>4. OnDlq(r)' => OnDlq(r)
    BY <1>2, <1>3 DEF OnDlq
  <1>5. \A m \in Matches : ~ Holds(req[r], m)
    BY <1>3 DEF Holds
  <1>6. QED
    BY <1>1, <1>2, <1>4, <1>5, QuietDInv

LEMMA GoneDInv ==
    ASSUME DInv, NEW r \in Requests, NotFound(r) \/ Audit(r) \/ Dies(r)
    PROVE  DInv'
  <1>1. /\ req' = [req EXCEPT ![r] = Idle]
        /\ UNCHANGED <<dlq, jobs, known, rated, discarded, now, deaths, crowded>>
    BY DEF NotFound, Audit, Dies, queue
  <1>2. Placed /\ Idle.pc = "idle" /\ "pc" \in DOMAIN Idle
    BY DEF Idle, DInv
  <1>3. req'[r] = Idle /\ Others(r) /\ Placed'
    BY <1>1, <1>2, Becomes
  <1>4. req'[r].pc = "idle" /\ ~ OnDlq(r)'
    BY <1>2, <1>3 DEF OnDlq
  <1>5. CASE NotFound(r) \/ Audit(r)
    <2>1. failed' = failed /\ \A m \in Matches : ~ Holds(req[r], m)
      BY <1>5 DEF NotFound, Audit, At, Holds
    <2>2. QED
      BY <1>1, <1>3, <1>4, <2>1, QuietDInv
  <1>6. CASE Dies(r)
    <2>1. failed' = (failed \/ req[r].pc \in {"drain", "enqueue"})
      BY <1>6 DEF Dies
    <2>2. \/ failed' = TRUE
          \/ failed' = failed /\ \A m \in Matches : ~ Holds(req[r], m)
      BY <2>1 DEF DInv, Holds
    <2>3. QED
      BY <1>1, <1>3, <1>4, <2>2, QuietDInv
  <1>7. QED
    BY <1>5, <1>6

LEMMA KeyDInv ==
    ASSUME DInv, NEW r \in Requests, NEW actor,
           CreateOperator(r, actor) \/ RevokeOperator(r, actor)
    PROVE  DInv'
  <1> DEFINE q == [pc |-> "audit", kind |-> "operators", actor |-> actor]
  <1>1. /\ req' = [req EXCEPT ![r] = q] /\ req[r].pc = "idle"
        /\ UNCHANGED <<dlq, jobs, known, rated, discarded, now, deaths, crowded, failed>>
    BY DEF CreateOperator, RevokeOperator, queue
  <1>2. Placed /\ "pc" \in DOMAIN q /\ q.pc = "audit" /\ q.kind = "operators"
    BY DEF DInv
  <1> HIDE DEF q
  <1>3. req'[r] = q /\ Others(r) /\ Placed'
    BY <1>1, <1>2, Becomes
  <1>4. req'[r].pc = "audit" /\ ~ OnDlq(r)'
    BY <1>2, <1>3 DEF OnDlq, DlqKinds
  <1>5. \A m \in Matches : ~ Holds(req[r], m)
    BY <1>1 DEF Holds
  <1>6. QED
    BY <1>1, <1>3, <1>4, <1>5, QuietDInv

LEMMA StepDInv == DInv /\ [Next]_vars => DInv'
  <1> SUFFICES ASSUME DInv, [Next]_vars PROVE DInv'
    OBVIOUS
  <1>1. ASSUME NEW r \in Requests, NEW actor,
               \/ AskRequeueAll(r, actor) \/ AskEntry(r, actor, "requeue")
               \/ AskEntry(r, actor, "discard") \/ AskModerate(r, actor)
               \/ AskReview(r, actor) \/ AskSelect(r, actor)
               \/ AskConfig(r, actor) \/ AskTransition(r, actor)
        PROVE  DInv'
    <2>1. CASE AskRequeueAll(r, actor)
      BY <2>1, AcceptedDInv DEF AskRequeueAll
    <2>2. CASE AskEntry(r, actor, "requeue")
      <3>1. PICK m \in Matches : Start(r, actor, "requeue", [entry |-> dlq[FirstOf(m)]])
        BY <2>2 DEF AskEntry
      <3>2. QED
        BY <3>1, AcceptedDInv
    <2>3. CASE AskEntry(r, actor, "discard")
      <3>1. PICK m \in Matches : Start(r, actor, "discard", [entry |-> dlq[FirstOf(m)]])
        BY <2>3 DEF AskEntry
      <3>2. QED
        BY <3>1, AcceptedDInv
    <2>4. CASE AskModerate(r, actor)
      <3>1. PICK b : Start(r, actor, "moderate",
                           [body |-> b, row |-> player, list |-> flags])
        BY <2>4 DEF AskModerate
      <3>2. QED
        BY <3>1, AcceptedDInv
    <2>5. CASE AskReview(r, actor)
      <3>1. PICK o : Start(r, actor, "review", [override |-> o])
        BY <2>5 DEF AskReview
      <3>2. QED
        BY <3>1, AcceptedDInv
    <2>6. CASE AskSelect(r, actor)
      <3>1. PICK v : Start(r, actor, "select", [value |-> v, was |-> selected])
        BY <2>6 DEF AskSelect
      <3>2. QED
        BY <3>1, AcceptedDInv
    <2>7. CASE AskConfig(r, actor) \/ AskTransition(r, actor)
      BY <2>7, AcceptedDInv DEF AskConfig, AskTransition
    <2>8. QED
      BY <1>1, <2>1, <2>2, <2>3, <2>4, <2>5, <2>6, <2>7
  <1>2. CASE UNCHANGED vars
    <2>1. UNCHANGED <<dlq, jobs, known, rated, discarded, req, now, deaths, crowded,
                      failed>>
      BY <1>2 DEF vars, queue
    <2>2. QED
      BY <2>1 DEF DInv, Placed, Listing, KnownIds, ReadEntries, OneAtATime, OnDlq,
                  ReadIsTheFront, At, EveryMatchFound, Found, Listed, Runs
  <1>3. QED
    BY <1>1, <1>2, KeyDInv, EndsDInv, GoneDInv, TrimAllDInv, DrainOneDInv, RemoveDInv,
       RequeueDInv, JobEndsDInv, TickDInv DEF Next, Handle

\* requeue_all_dlq and the per-match routes against the workers: as long as
\* dead-letter requests come one at a time and none dies half way, every match
\* they take off the list runs again, is put back or is discarded.
THEOREM AloneNothingIsLost == Spec => []NothingLostAlone
  BY InitDInv, StepDInv, FoundIsNotLost, PTL DEF Spec

(***************************************************************************)
(* Tournaments                                                             *)
(***************************************************************************)

\* The columns the seats and the standings are in.
TeamsAreShaped ==
  /\ DOMAIN teams = Teams
  /\ \A t \in Teams :
       /\ {"players", "captain", "perMatch", "penalties", "bonus", "total"}
            \subseteq DOMAIN teams[t]
       /\ teams[t].players \in [1..Size -> Spellings \cup {Empty}]

MatchesAreShaped ==
  /\ DOMAIN matches = MatchNumbers
  /\ \A n \in MatchNumbers : /\ {"status", "result"} \subseteq DOMAIN matches[n]
                             /\ matches[n].result \in Sheets \cup {NoSheet}

\* A request that is about to commit holds the tournament row, and what it
\* decided on is what the rows still are.
DecidesOnTheRows ==
  /\ DOMAIN call = Callers
  /\ \A r \in Callers : call[r].pc = "commit" =>
       /\ lock = r
       /\ call[r].seen.teams = teams /\ call[r].seen.matches = matches
       /\ call[r].op.kind \in {"create", "join"} => call[r].op \in Joins
       /\ call[r].op.kind = "result" =>
            /\ call[r].op.n \in MatchNumbers
            /\ call[r].op.sheet \in Sheets /\ call[r].op.fine \in Fines

\* What match n is worth to team t, and a set of matches.
Worth(ms, n, t) ==
  IF t \in DOMAIN ms[n].result
  THEN Scoring(ms[n].result[t].placement) + Capped(ms[n].result[t].bravura)
  ELSE 0

Tally(ms, S, t) == SumFunctionOnSet([n \in MatchNumbers |-> Worth(ms, n, t)], S)

\* Team by team: its total is what the counted sheets are worth to it, less its
\* fines.
TableAddsUp ==
  /\ counted \subseteq MatchNumbers
  /\ \A n \in counted : matches[n].result \in Sheets
  /\ \A t \in Teams : /\ charged[t] \in Int
                      /\ teams[t].penalties = charged[t]
                      /\ teams[t].total = Tally(matches, counted, t) - charged[t]

SeatInv == granted \subseteq Spellings \X Teams /\ SeatsAreKept

TInv ==
  /\ TeamsAreShaped /\ MatchesAreShaped
  /\ DecidesOnTheRows
  /\ SeatInv
  /\ TableAddsUp

-----------------------------------------------------------------------------
(* Seats *)

LEMMA LowestIsIn ==
    ASSUME NEW S \in SUBSET Nat, S # {}
    PROVE  Lowest(S) \in S
  <1>1. \E x \in S : \A y \in S : x <= y
    BY LeastNatural
  <1>2. QED
    BY <1>1 DEF Lowest

\* A team nobody is in has its first slot empty, a team that is not full has one
\* empty slot at least.
LEMMA EmptySlots ==
    ASSUME NEW team, team.players \in [1..Size -> Spellings \cup {Empty}]
    PROVE  /\ RealPlayers(team) = 0 => team.players[1] = Empty
           /\ RealPlayers(team) # Size => (1..Size) \ Seated(team) # {}
  <1>1. Size \in Nat /\ 1 \in 1..Size
    BY TournamentAssumption
  <1>2. Seated(team) \in SUBSET (1..Size)
    BY DEF Seated
  <1>3. IsFiniteSet(1..Size) /\ Cardinality(1..Size) = Size
    BY <1>1, FS_Interval
  <1>4. IsFiniteSet(Seated(team))
    BY <1>2, <1>3, FS_Subset
  <1>5. RealPlayers(team) = 0 => Seated(team) = {}
    BY <1>4, FS_EmptySet DEF RealPlayers
  <1>6. RealPlayers(team) = 0 => team.players[1] = Empty
    BY <1>1, <1>5 DEF Seated
  <1>7. (1..Size) \ Seated(team) = {} => RealPlayers(team) = Size
    <2>1. (1..Size) \ Seated(team) = {} => Seated(team) = 1..Size
      BY <1>2
    <2>2. QED
      BY <1>3, <2>1 DEF RealPlayers
  <1>8. QED
    BY <1>6, <1>7

\* create_team and join_team take an empty slot, for a player who has none.
LEMMA SeatIsFree ==
    ASSUME TInv, NEW r \in Callers, Deciding(r, "create") \/ Deciding(r, "join"),
           SeatOf(r) # Nobody
    PROVE  /\ SeatOf(r).team \in Teams /\ SeatOf(r).slot \in 1..Size
           /\ teams[SeatOf(r).team].players[SeatOf(r).slot] = Empty
           /\ ~ Registered(teams, call[r].op.by)
           /\ call[r].op.by \in Spellings
  <1> DEFINE op == call[r].op
  <1>1. op \in Joins /\ call[r].seen.teams = teams
    BY DEF TInv, DecidesOnTheRows, Deciding
  <1>2. op.by \in Spellings
    <2> USE DEF SeatOf
    <2>1. CASE op \in [kind : {"create"}, by : Spellings, key : {TRUE}]
      BY <2>1
    <2>2. CASE op \in [kind : {"create"}, by : {CHOOSE p \in Spellings : TRUE},
                       key : {FALSE}]
      <3>1. ~ op.key
        BY <2>2
      <3>2. QED
        BY <3>1
    <2>3. CASE op \in [kind : {"join"}, by : Spellings, team : Teams, key : {TRUE}]
      BY <2>3
    <2>4. QED
      BY <1>1, <2>1, <2>2, <2>3 DEF Joins
  <1>3. ~ Registered(teams, op.by)
    BY <1>1 DEF SeatOf
  <1>4. Teams \in SUBSET Nat /\ 1..Size \in SUBSET Nat
    BY TournamentAssumption DEF Teams
  <1>5. CASE op.kind = "create"
    <2>1. FreeTeams(teams) # {}
          /\ SeatOf(r) = [team |-> Lowest(FreeTeams(teams)), slot |-> 1]
      BY <1>1, <1>3, <1>5 DEF SeatOf
    <2>2. Lowest(FreeTeams(teams)) \in FreeTeams(teams)
      <3>1. FreeTeams(teams) \in SUBSET Nat
        BY <1>4 DEF FreeTeams
      <3>2. QED
        BY <2>1, <3>1, LowestIsIn
    <2>3. SeatOf(r).team \in Teams /\ RealPlayers(teams[SeatOf(r).team]) = 0
          /\ SeatOf(r).slot = 1
      BY <2>1, <2>2 DEF FreeTeams
    <2>4. teams[SeatOf(r).team].players[1] = Empty
      BY <2>3, EmptySlots DEF TInv, TeamsAreShaped
    <2>5. QED
      BY <1>2, <1>3, <2>3, <2>4, TournamentAssumption
  <1>6. CASE op.kind # "create"
    <2>1. RealPlayers(teams[op.team]) # Size
          /\ SeatOf(r) = [team |-> op.team,
                          slot |-> Lowest((1..Size) \ Seated(teams[op.team]))]
      BY <1>1, <1>3, <1>6 DEF SeatOf
    <2>2. op.team \in Teams
      BY <1>1, <1>6 DEF Joins
    <2>3. teams[op.team].players \in [1..Size -> Spellings \cup {Empty}]
      BY <2>2 DEF TInv, TeamsAreShaped
    <2>4. Lowest((1..Size) \ Seated(teams[op.team])) \in (1..Size) \ Seated(teams[op.team])
      <3>1. (1..Size) \ Seated(teams[op.team]) \in SUBSET Nat
        BY <1>4
      <3>2. (1..Size) \ Seated(teams[op.team]) # {}
        BY <2>1, <2>3, EmptySlots
      <3>3. QED
        BY <3>1, <3>2, LowestIsIn
    <2>5. SeatOf(r).team = op.team /\ SeatOf(r).slot \in 1..Size
          /\ teams[op.team].players[SeatOf(r).slot] = Empty
      <3>1. DOMAIN teams[op.team].players = 1..Size
        BY <2>3
      <3>2. \A s \in (1..Size) \ Seated(teams[op.team]) : teams[op.team].players[s] = Empty
        BY <3>1 DEF Seated
      <3>3. /\ SeatOf(r).team = op.team
            /\ SeatOf(r).slot = Lowest((1..Size) \ Seated(teams[op.team]))
        BY <2>1
      <3>4. SeatOf(r).slot \in (1..Size) \ Seated(teams[op.team])
        BY <2>4, <3>3
      <3>5. QED
        BY <3>2, <3>3, <3>4
    <2>6. QED
      BY <1>2, <1>3, <2>2, <2>5
  <1>7. QED
    BY <1>5, <1>6

-----------------------------------------------------------------------------
(* What the sheets are worth *)

LEMMA ScoringIsInteger == ASSUME NEW place PROVE Scoring(place) \in Int
  BY TournamentAssumption DEF Scoring, Teams

LEMMA WorthIsInteger ==
    ASSUME NEW ms, NEW n, ms[n].result \in Sheets, NEW t
    PROVE  /\ Worth(ms, n, t) \in Int
           /\ t \in DOMAIN ms[n].result =>
                /\ Scoring(ms[n].result[t].placement) \in Int
                /\ Capped(ms[n].result[t].bravura) \in Int
  <1>1. t \in DOMAIN ms[n].result => Capped(ms[n].result[t].bravura) \in Int
    BY SheetsAssumption DEF Capped, Cap
  <1>2. QED
    BY <1>1, ScoringIsInteger DEF Worth

\* The scores of a team are listed in the order of the matches; they add up
\* as those of a set.
LEMMA ListAddsUp ==
    ASSUME NEW S \in SUBSET Int, IsFiniteSet(S), NEW f, \A n \in S : f[n] \in Int,
           NEW list, list = [i \in 1 .. Cardinality(S) |-> f[Nth(S, i)]]
    PROVE  SumFunction(list) = SumFunctionOnSet(f, S)
  <1> DEFINE rank == [n \in S |-> Cardinality({k \in S : k <= n})]
  <1> DEFINE U == 1 .. Cardinality(S)
  <1>1. rank \in Bijection(S, U)
    BY RanksCount
  <1>2. /\ \A n, m \in S : rank[n] = rank[m] => n = m
        /\ \A n \in S : rank[n] \in U
    <2> HIDE DEF rank, U
    <2> QED BY <1>1 DEF Bijection, Injection, IsInjective
  <1>3. ASSUME NEW n \in S PROVE f[n] \in Int /\ list[rank[n]] = f[n]
    <2>1. Nth(S, rank[n]) \in S /\ rank[Nth(S, rank[n])] = rank[n]
      <3>1. \E m \in S : Cardinality({k \in S : k <= m}) = rank[n]
        OBVIOUS
      <3>2. /\ Nth(S, rank[n]) \in S
            /\ Cardinality({k \in S : k <= Nth(S, rank[n])}) = rank[n]
        <4> HIDE DEF rank
        <4> QED BY <3>1 DEF Nth
      <3>3. QED
        BY <3>2
    <2>2. Nth(S, rank[n]) = n
      BY <1>2, <2>1
    <2> HIDE DEF rank
    <2>3. QED
      BY <1>2, <2>2
  <1>4. SumFunctionOnSet(list, U) = SumFunctionOnSet(f, S)
    <2>1. Renames(S, U, rank, f, list)
      BY <1>1, <1>3 DEF Renames
    <2> HIDE DEF rank, U
    <2>2. QED
      BY <2>1, SumOfRenamed
  <1>5. DOMAIN list = U
    OBVIOUS
  <1>6. QED
    BY <1>4, <1>5 DEF SumFunction

\* What compute_standings adds up for a team is what the ended matches are worth
\* to it.
LEMMA StandingIsTally ==
    ASSUME NEW ms, \A n \in Ended(ms) : ms[n].result \in Sheets, NEW t
    PROVE  /\ SumFunction(Points(ms, t)) + Bonus(ms, t) = Tally(ms, Ended(ms), t)
           /\ SumFunction(Points(ms, t)) \in Int /\ Bonus(ms, t) \in Int
  <1> DEFINE S == PlayedBy(ms, t)
             E == Ended(ms)
             p == [n \in S |-> Scoring(ms[n].result[t].placement)]
             b == [n \in S |-> Capped(ms[n].result[t].bravura)]
             w == [n \in MatchNumbers |-> Worth(ms, n, t)]
             s == [n \in S |-> p[n] + b[n]]
             list == Points(ms, t)
  <1>1. /\ E \in SUBSET MatchNumbers /\ S \in SUBSET E
        /\ \A n \in S : t \in DOMAIN ms[n].result
        /\ \A n \in E \ S : t \notin DOMAIN ms[n].result
    BY DEF Ended, PlayedBy
  <1>2. /\ MatchNumbers \in SUBSET Int /\ IsFiniteSet(MatchNumbers)
    BY TournamentAssumption, FS_Interval DEF MatchNumbers
  <1>3. IsFiniteSet(E) /\ IsFiniteSet(S) /\ S \in SUBSET Int
    BY <1>1, <1>2, FS_Subset
  <1>4. \A n \in S : /\ p[n] \in Int /\ b[n] \in Int /\ s[n] = p[n] + b[n]
                     /\ w[n] = s[n] /\ s[n] \in Int
    BY <1>1, WorthIsInteger DEF Worth
  <1>5. \A n \in E \ S : w[n] = 0
    BY <1>1 DEF Worth
  <1>6. Bonus(ms, t) = SumFunctionOnSet(b, S)
    BY DEF Bonus, SumFunction
  <1>7. list = [i \in 1 .. Cardinality(S) |-> p[Nth(S, i)]]
    <2>1. ASSUME NEW i \in 1 .. Cardinality(S) PROVE Nth(S, i) \in S
      <3> DEFINE rank == [n \in S |-> Cardinality({k \in S : k <= n})]
      <3> HIDE DEF S
      <3>1. rank \in Bijection(S, 1 .. Cardinality(S))
        BY <1>3, RanksCount
      <3>2. \E n \in S : Cardinality({k \in S : k <= n}) = i
        <4>1. \E n \in S : rank[n] = i
          <5> HIDE DEF rank
          <5> QED BY <3>1 DEF Bijection, Surjection
        <4>2. QED
          BY <4>1
      <3>3. QED
        BY <3>2 DEF Nth
    <2>2. QED
      BY <2>1 DEF Points
  <1> HIDE DEF S, E, p, b, w, s, list
  <1>8. SumFunction(list) = SumFunctionOnSet(p, S)
    BY <1>3, <1>4, <1>7, ListAddsUp
  <1>9. SumFunctionOnSet(s, S) = SumFunctionOnSet(p, S) + SumFunctionOnSet(b, S)
    BY <1>3, <1>4, SumOfTwo
  <1>10. SumFunctionOnSet(w, E) = SumFunctionOnSet(s, S)
    <2>1. Extends(E, S, s, w)
      BY <1>1, <1>3, <1>4, <1>5 DEF Extends
    <2>2. QED
      BY <2>1, SumOfSome
  <1>11. SumFunctionOnSet(p, S) \in Int /\ SumFunctionOnSet(b, S) \in Int
    BY <1>3, <1>4, SumIsInteger
  <1>12. QED
    BY <1>6, <1>8, <1>9, <1>10, <1>11 DEF list, w, E, Tally

\* The table is not disturbed by what leaves the results, the counted matches
\* and the columns of the standings alone.
LEMMA TableUntouched ==
    ASSUME TInv, UNCHANGED <<counted, charged>>,
           \A n \in MatchNumbers : matches'[n].result = matches[n].result,
           \A t \in Teams : /\ teams'[t].penalties = teams[t].penalties
                            /\ teams'[t].total = teams[t].total
    PROVE  TableAddsUp'
  <1>1. \A n \in MatchNumbers, t \in Teams : Worth(matches', n, t) = Worth(matches, n, t)
    BY DEF Worth
  <1>2. \A t \in Teams : Tally(matches', counted, t) = Tally(matches, counted, t)
    BY <1>1 DEF Tally
  <1>3. QED
    BY <1>2 DEF TInv, TableAddsUp

-----------------------------------------------------------------------------
(* Steps *)

LEMMA InitTInv == TournamentInit => TInv
  <1> SUFFICES ASSUME TournamentInit PROVE TInv
    OBVIOUS
  <1>1. /\ teams = [t \in Teams |-> EmptyTeam] /\ granted = {}
        /\ call = [r \in Callers |-> AtRest]
        /\ matches = [n \in MatchNumbers |-> [status |-> "upcoming", result |-> NoSheet]]
        /\ counted = {} /\ charged = [t \in Teams |-> 0]
    BY DEF TournamentInit
  <1>2. \A t \in Teams : teams[t] = EmptyTeam
    BY <1>1
  <1>3. \A s \in 1..Size : EmptyTeam.players[s] = Empty
    BY DEF EmptyTeam
  <1>4. /\ {"players", "captain", "perMatch", "penalties", "bonus", "total"}
             \subseteq DOMAIN EmptyTeam
        /\ EmptyTeam.players \in [1..Size -> Spellings \cup {Empty}]
        /\ EmptyTeam.penalties = 0 /\ EmptyTeam.total = 0
    BY DEF EmptyTeam
  <1>5. TeamsAreShaped
    BY <1>1, <1>2, <1>4 DEF TeamsAreShaped
  <1>6. MatchesAreShaped
    BY <1>1 DEF MatchesAreShaped
  <1>7. DecidesOnTheRows
    BY <1>1 DEF DecidesOnTheRows, AtRest
  <1>8. SeatInv
    BY <1>1, <1>2, <1>3 DEF SeatInv, SeatsAreKept, SuccessIsKept, OneSeatEach
  <1>9. TableAddsUp
    <2>1. \A t \in Teams : Tally(matches, counted, t) = 0
      BY <1>1, SumOfNothing DEF Tally
    <2>2. QED
      BY <1>1, <1>2, <1>4, <2>1 DEF TableAddsUp
  <1>10. QED
    BY <1>5, <1>6, <1>7, <1>8, <1>9 DEF TInv

\* Locking: nobody else is about to commit.
LEMMA LockTInv ==
    ASSUME TInv, NEW r \in Callers, NEW op, Lock(r, op),
           op.kind \in {"create", "join"} => op \in Joins,
           op.kind = "result" => /\ op.n \in MatchNumbers
                                 /\ op.sheet \in Sheets /\ op.fine \in Fines
    PROVE  TInv'
  <1> DEFINE q == [pc |-> "commit", op |-> op,
                   seen |-> [teams |-> teams, matches |-> matches]]
  <1>1. /\ lock = Nobody /\ lock' = r /\ call' = [call EXCEPT ![r] = q]
        /\ UNCHANGED <<teams, matches, granted, counted, charged>>
    BY DEF Lock, Lockable, row
  <1>2. q.op = op /\ q.seen.teams = teams /\ q.seen.matches = matches
    OBVIOUS
  <1> HIDE DEF q
  <1>3. \A p \in Callers : call[p].pc # "commit"
    BY <1>1, TournamentAssumption DEF TInv, DecidesOnTheRows
  <1>4. DecidesOnTheRows'
    BY <1>1, <1>2, <1>3 DEF TInv, DecidesOnTheRows
  <1>5. TableAddsUp'
    BY <1>1, TableUntouched
  <1>6. QED
    BY <1>1, <1>4, <1>5 DEF TInv, TeamsAreShaped, MatchesAreShaped, SeatInv,
                            SeatsAreKept, SuccessIsKept, OneSeatEach

\* A transaction that ends: nobody else was about to commit.
LEMMA LeavesDecides ==
    ASSUME TInv, NEW r \in Callers, NEW pc, pc \in {"idle", "bust"},
           call[r].pc = "commit", Leaves(r, pc)
    PROVE  DecidesOnTheRows'
  <1>1. \A p \in Callers \ {r} : call[p].pc # "commit"
    BY DEF TInv, DecidesOnTheRows
  <1>2. \E q : call' = [call EXCEPT ![r] = q] /\ q.pc # "commit"
    <2> DEFINE q == IF pc = "idle" THEN AtRest ELSE [pc |-> pc]
    <2>1. call' = [call EXCEPT ![r] = q]
      BY DEF Leaves
    <2>2. q.pc # "commit"
      BY DEF AtRest
    <2>3. QED
      BY <2>1, <2>2
  <1>3. QED
    BY <1>1, <1>2 DEF TInv, DecidesOnTheRows

\* A step on which no seat changes.
LEMMA SeatsUntouched ==
    ASSUME TInv, UNCHANGED granted,
           DOMAIN teams' = Teams,
           \A t \in Teams : /\ DOMAIN teams'[t] = DOMAIN teams[t]
                            /\ teams'[t].players = teams[t].players
    PROVE  TeamsAreShaped' /\ SeatInv'
  <1>1. \A g \in granted : g[2] \in Teams
    BY DEF TInv, SeatInv
  <1>2. SuccessIsKept'
    BY <1>1 DEF TInv, SeatInv, SeatsAreKept, SuccessIsKept
  <1>3. OneSeatEach'
    BY DEF TInv, SeatInv, SeatsAreKept, OneSeatEach
  <1>4. QED
    BY <1>2, <1>3 DEF TInv, SeatInv, TeamsAreShaped, SeatsAreKept

LEMMA SeatTInv == ASSUME TInv, NEW r \in Callers, Seat(r) PROVE TInv'
  <1> DEFINE by == call[r].op.by
             t0 == SeatOf(r).team
             s0 == SeatOf(r).slot
  <1>1. /\ Deciding(r, "create") \/ Deciding(r, "join")
        /\ SeatOf(r) # Nobody
        /\ granted' = granted \cup {<<by, t0>>}
        /\ Leaves(r, "bust") /\ UNCHANGED <<matches, counted, charged>>
        /\ teams' = [teams EXCEPT
             ![t0].players = [call[r].seen.teams[t0].players EXCEPT ![s0] = by],
             ![t0].captain = IF call[r].op.kind = "create" THEN by ELSE @]
    BY DEF Seat
  <1>2. /\ t0 \in Teams /\ s0 \in 1..Size
        /\ teams[t0].players[s0] = Empty
        /\ ~ Registered(teams, by) /\ by \in Spellings
    BY <1>1, SeatIsFree
  <1>3. call[r].pc = "commit" /\ call[r].seen.teams = teams
    BY <1>1 DEF Deciding, TInv, DecidesOnTheRows
  <1> HIDE DEF by, t0, s0
  <1>4. /\ DOMAIN teams' = Teams
        /\ \A t \in Teams : DOMAIN teams'[t] = DOMAIN teams[t]
        /\ teams'[t0].players = [teams[t0].players EXCEPT ![s0] = by]
        /\ \A t \in Teams \ {t0} : teams'[t].players = teams[t].players
        /\ \A t \in Teams : /\ teams'[t].penalties = teams[t].penalties
                            /\ teams'[t].total = teams[t].total
    BY <1>1, <1>2, <1>3 DEF TInv, TeamsAreShaped
  <1>5. \A t \in Teams, s \in 1..Size :
           teams'[t].players[s] = IF t = t0 /\ s = s0 THEN by
                                  ELSE teams[t].players[s]
    BY <1>2, <1>4 DEF TInv, TeamsAreShaped
  <1>6. TeamsAreShaped'
    <2>1. ASSUME NEW t \in Teams
          PROVE  teams'[t].players \in [1..Size -> Spellings \cup {Empty}]
      <3>1. teams[t].players \in [1..Size -> Spellings \cup {Empty}]
        BY DEF TInv, TeamsAreShaped
      <3>2. CASE t = t0
        <4>1. teams'[t].players = [teams[t].players EXCEPT ![s0] = by]
          BY <1>4, <3>2
        <4>2. QED
          BY <1>2, <3>1, <4>1
      <3>3. CASE t # t0
        BY <1>4, <3>1, <3>3
      <3>4. QED
        BY <3>2, <3>3
    <2>2. QED
      BY <1>4, <2>1 DEF TInv, TeamsAreShaped
  <1>7. granted' \subseteq Spellings \X Teams
    BY <1>1, <1>2 DEF TInv, SeatInv
  <1>8. SuccessIsKept'
    <2> SUFFICES ASSUME NEW g \in granted'
                 PROVE  \E s \in 1..Size : teams'[g[2]].players[s] = g[1]
      BY DEF SuccessIsKept
    <2>1. CASE g = <<by, t0>>
      BY <1>2, <1>5, <2>1
    <2>2. CASE g \in granted
      <3>1. g[1] \in Spellings /\ g[2] \in Teams
        BY <2>2 DEF TInv, SeatInv
      <3>2. PICK s \in 1..Size : teams[g[2]].players[s] = g[1]
        BY <2>2 DEF TInv, SeatInv, SeatsAreKept, SuccessIsKept
      <3>3. ~ (g[2] = t0 /\ s = s0)
        BY <1>2, <3>1, <3>2, TournamentAssumption
      <3>4. QED
        BY <1>5, <3>1, <3>2, <3>3
    <2>3. QED
      BY <1>1, <2>1, <2>2
  <1>9. \A t \in Teams, s \in 1..Size :
           teams[t].players[s] # Empty =>
               Canonical[teams[t].players[s]] # Canonical[by]
    BY <1>2 DEF Registered
  <1>10. OneSeatEach'
    <2> SUFFICES ASSUME NEW t \in Teams, NEW u \in Teams,
                        NEW s \in 1..Size, NEW v \in 1..Size,
                        <<t, s>> # <<u, v>>,
                        teams'[t].players[s] # Empty, teams'[u].players[v] # Empty
                 PROVE  Canonical[teams'[t].players[s]] # Canonical[teams'[u].players[v]]
      BY DEF OneSeatEach
    <2>1. CASE t = t0 /\ s = s0
      BY <1>5, <1>9, <2>1
    <2>2. CASE u = t0 /\ v = s0
      BY <1>5, <1>9, <2>2
    <2>3. CASE ~(t = t0 /\ s = s0) /\ ~(u = t0 /\ v = s0)
      BY <1>5, <2>3 DEF TInv, SeatInv, SeatsAreKept, OneSeatEach
    <2>4. QED
      BY <2>1, <2>2, <2>3
  <1>11. DecidesOnTheRows'
    BY <1>1, <1>3, LeavesDecides
  <1>12. TableAddsUp'
    BY <1>1, <1>4, TableUntouched
  <1>13. QED
    BY <1>1, <1>6, <1>7, <1>8, <1>10, <1>11, <1>12
       DEF TInv, MatchesAreShaped, SeatInv, SeatsAreKept

\* submit_result adds the sheets up again, on the rows it locked.
LEMMA ResultTInv == ASSUME TInv, NEW r \in Callers, SubmitResult(r) PROVE TInv'
  <1> DEFINE n0 == call[r].op.n
             sheet == call[r].op.sheet
             fine == call[r].op.fine
             ms == Scored(call[r].seen.matches, n0, sheet)
             ts == Fined(call[r].seen.teams, fine)
  <1>1. /\ call[r].pc = "commit" /\ call[r].op.kind = "result"
        /\ Leaves(r, "bust") /\ UNCHANGED granted
        /\ matches' = [matches EXCEPT ![n0] = ms[n0]]
        /\ teams' = [t \in Teams |->
             [Standing(ms, ts, t) EXCEPT !.players = teams[t].players,
                                         !.captain = teams[t].captain]]
        /\ counted' = Ended(ms)
        /\ charged' = [t \in Teams |->
             charged[t] + IF t \in DOMAIN fine THEN fine[t] ELSE 0]
    BY DEF SubmitResult, Deciding
  <1>2. /\ call[r].seen.teams = teams /\ call[r].seen.matches = matches
        /\ n0 \in MatchNumbers /\ sheet \in Sheets /\ fine \in Fines
    BY <1>1 DEF TInv, DecidesOnTheRows
  <1>3. /\ matches' = ms /\ DOMAIN ms = MatchNumbers
        /\ ms[n0] = [status |-> "ended", result |-> sheet]
        /\ \A n \in MatchNumbers \ {n0} : ms[n] = matches[n]
    BY <1>1, <1>2 DEF Scored, TInv, MatchesAreShaped
  <1>4. MatchesAreShaped'
    BY <1>2, <1>3 DEF TInv, MatchesAreShaped
  <1>5. \A n \in Ended(ms) : n \in MatchNumbers /\ ms[n].result \in Sheets
    BY <1>3, <1>4 DEF MatchesAreShaped, Ended
  <1>6. ASSUME NEW t \in Teams
        PROVE  /\ DOMAIN ts[t] = DOMAIN teams[t]
               /\ ts[t].penalties = charged'[t] /\ charged'[t] \in Int
    <2>1. {"penalties", "total"} \subseteq DOMAIN teams[t]
      BY DEF TInv, TeamsAreShaped
    <2>2. ts[t] = IF t \in DOMAIN fine
                  THEN [teams[t] EXCEPT !.penalties = @ + fine[t]] ELSE teams[t]
      BY <1>2 DEF Fined
    <2>3. teams[t].penalties = charged[t] /\ charged[t] \in Int
      BY DEF TInv, TableAddsUp
    <2>4. t \in DOMAIN fine => fine[t] \in Int
      BY <1>2, SheetsAssumption
    <2>5. charged'[t] = charged[t] + IF t \in DOMAIN fine THEN fine[t] ELSE 0
      BY <1>1
    <2> HIDE DEF ts, fine
    <2>6. QED
      BY <2>1, <2>2, <2>3, <2>4, <2>5
  <1> HIDE DEF ms, ts, n0, sheet, fine
  <1>7. ASSUME NEW t \in Teams
        PROVE  /\ DOMAIN teams'[t] = DOMAIN teams[t]
               /\ teams'[t].players = teams[t].players
               /\ teams'[t].penalties = charged'[t]
               /\ teams'[t].total = Tally(ms, Ended(ms), t) - charged'[t]
    <2>1. {"players", "captain", "perMatch", "penalties", "bonus", "total"}
            \subseteq DOMAIN ts[t]
      BY <1>6 DEF TInv, TeamsAreShaped
    <2>2. teams'[t] = [Standing(ms, ts, t) EXCEPT !.players = teams[t].players,
                                                  !.captain = teams[t].captain]
      BY <1>1
    <2>3. /\ SumFunction(Points(ms, t)) + Bonus(ms, t) = Tally(ms, Ended(ms), t)
          /\ SumFunction(Points(ms, t)) \in Int /\ Bonus(ms, t) \in Int
      BY <1>5, StandingIsTally
    <2>4. /\ DOMAIN Standing(ms, ts, t) = DOMAIN ts[t]
          /\ Standing(ms, ts, t).penalties = ts[t].penalties
          /\ Standing(ms, ts, t).total
               = SumFunction(Points(ms, t)) + (Bonus(ms, t) - ts[t].penalties)
      BY <2>1 DEF Standing
    <2>5. QED
      BY <1>6, <2>1, <2>2, <2>3, <2>4
  <1>8. DOMAIN teams' = Teams
    BY <1>1
  <1>9. TeamsAreShaped' /\ SeatInv'
    BY <1>1, <1>7, <1>8, SeatsUntouched
  <1>10. DecidesOnTheRows'
    BY <1>1, LeavesDecides
  <1>11. TableAddsUp'
    <2>1. \A t \in Teams : teams'[t].total = Tally(matches', counted', t) - charged'[t]
      BY <1>1, <1>3, <1>7
    <2>2. QED
      BY <1>1, <1>3, <1>5, <1>6, <1>7, <2>1 DEF TableAddsUp
  <1>12. QED
    BY <1>4, <1>9, <1>10, <1>11 DEF TInv

LEMMA LinkTInv == ASSUME TInv, NEW r \in Callers, SetMatchLink(r) PROVE TInv'
  <1>1. /\ call[r].pc = "commit" /\ Leaves(r, "bust")
        /\ matches' = [matches EXCEPT ![call[r].op.n].status = call[r].op.status]
        /\ UNCHANGED <<teams, granted, counted, charged>>
    BY DEF SetMatchLink, Deciding
  <1>2. /\ DOMAIN matches' = MatchNumbers
        /\ \A n \in MatchNumbers : /\ DOMAIN matches'[n] = DOMAIN matches[n]
                                   /\ matches'[n].result = matches[n].result
    BY <1>1 DEF TInv, MatchesAreShaped
  <1>3. MatchesAreShaped'
    BY <1>2 DEF TInv, MatchesAreShaped
  <1>4. TableAddsUp'
    BY <1>1, <1>2, TableUntouched
  <1>5. DecidesOnTheRows'
    BY <1>1, LeavesDecides
  <1>6. TeamsAreShaped' /\ SeatInv'
    BY <1>1 DEF TInv, TeamsAreShaped, SeatInv, SeatsAreKept, SuccessIsKept, OneSeatEach
  <1>7. QED
    BY <1>3, <1>4, <1>5, <1>6 DEF TInv

LEMMA StepTInv == TInv /\ [TournamentNext]_tournamentVars => TInv'
  <1> SUFFICES ASSUME TInv, [TournamentNext]_tournamentVars PROVE TInv'
    OBVIOUS
  <1>1. ASSUME UNCHANGED <<teams, matches, granted, counted, charged>>,
               DecidesOnTheRows'
        PROVE  TInv'
    <2>1. TableAddsUp'
      BY <1>1, TableUntouched
    <2>2. QED
      BY <1>1, <2>1 DEF TInv, TeamsAreShaped, MatchesAreShaped, SeatInv,
                        SeatsAreKept, SuccessIsKept, OneSeatEach
  <1>2. ASSUME NEW r \in Callers, NEW q, q.pc # "commit",
               call' = [call EXCEPT ![r] = q], 
               UNCHANGED <<lock, teams, matches, granted, counted, charged>>
        PROVE  TInv'
    <2>1. DecidesOnTheRows'
      BY <1>2 DEF TInv, DecidesOnTheRows
    <2>2. QED
      BY <1>1, <1>2, <2>1
  <1>3. ASSUME NEW r \in Callers, CreateTournament(r) PROVE TInv'
    BY <1>2, <1>3 DEF CreateTournament
  <1>4. ASSUME NEW r \in Callers, Bust(r) PROVE TInv'
    <2>1. /\ call' = [call EXCEPT ![r] = AtRest] /\ AtRest.pc # "commit"
          /\ UNCHANGED <<lock, teams, matches, granted, counted, charged>>
      BY <1>4 DEF Bust, AtRest, row
    <2>2. QED
      BY <1>2, <2>1
  <1>5. ASSUME NEW r \in Callers, AskSeat(r) PROVE TInv'
    <2>1. PICK op \in Joins : Lock(r, op)
      BY <1>5 DEF AskSeat
    <2>2. op.kind # "result"
      BY DEF Joins
    <2>3. QED
      BY <2>1, <2>2, LockTInv
  <1>6. ASSUME NEW r \in Callers, AskLink(r) PROVE TInv'
    <2>1. PICK op : Lock(r, op) /\ op.kind = "link"
      BY <1>6 DEF AskLink
    <2>2. QED
      BY <2>1, LockTInv
  <1>7. ASSUME NEW r \in Callers, AskResult(r) PROVE TInv'
    <2>1. PICK op : /\ Lock(r, op) /\ op.kind = "result" /\ op.n \in MatchNumbers
                    /\ op.sheet \in Sheets /\ op.fine \in Fines
      BY <1>7 DEF AskResult
    <2>2. QED
      BY <2>1, LockTInv
  <1>8. ASSUME NEW r \in Callers, Refuse(r) \/ Abort(r) PROVE TInv'
    <2>1. /\ call[r].pc = "commit" /\ Leaves(r, "idle")
          /\ UNCHANGED <<teams, matches, granted, counted, charged>>
      BY <1>8 DEF Refuse, Abort, Deciding, row
    <2>2. QED
      BY <1>1, <2>1, LeavesDecides
  <1>9. CASE (\E d \in Readers : ReadList(d) \/ StoreList(d)) \/ PageAges \/ UNCHANGED tournamentVars
    <2>1. UNCHANGED <<lock, call, teams, matches, granted, counted, charged>>
      BY <1>9 DEF ReadList, StoreList, PageAges, tournamentVars, row
    <2>2. QED
      BY <1>1, <2>1 DEF TInv, DecidesOnTheRows
  <1>10. QED
    BY <1>3, <1>4, <1>5, <1>6, <1>7, <1>8, <1>9,
       SeatTInv, LinkTInv, ResultTInv
       DEF TournamentNext, Work

LEMMA AlwaysTInv == TournamentSpec => []TInv
  BY InitTInv, StepTInv, PTL DEF TournamentSpec

\* tournaments/service.py: every registration that was answered with success
\* keeps its seat, and no player has two, in any spelling and through any number
\* of concurrent requests, crashes of the API included.
THEOREM SeatsStayKept == TournamentSpec => []SeatsAreKept
  <1>1. TInv => SeatsAreKept
    BY DEF TInv, SeatInv
  <1>2. QED
    BY <1>1, AlwaysTInv, PTL

\* Added up by the teams and by the sheets, it is the same.
LEMMA TotalsBalance == TInv => BooksBalance
  <1> SUFFICES ASSUME TInv PROVE BooksBalance
    OBVIOUS
  <1> DEFINE w == [n \in MatchNumbers |-> [t \in Teams |-> Worth(matches, n, t)]]
             v == [t \in Teams |-> [n \in MatchNumbers |-> Worth(matches, n, t)]]
             a == [t \in Teams |-> teams[t].total + charged[t]]
             b == [n \in counted |-> SheetPoints(n)]
  <1>1. IsFiniteSet(Teams) /\ IsFiniteSet(counted) /\ counted \subseteq MatchNumbers
    <2>1. IsFiniteSet(Teams) /\ IsFiniteSet(MatchNumbers)
      BY TournamentAssumption, FS_Interval DEF Teams, MatchNumbers
    <2>2. counted \in SUBSET MatchNumbers
      BY DEF TInv, TableAddsUp
    <2>3. QED
      BY <2>1, <2>2, FS_Subset
  <1>2. \A n \in counted : matches[n].result \in Sheets
    BY DEF TInv, TableAddsUp
  <1>3. \A t \in Teams, n \in counted : v[t][n] \in Int /\ w[n][t] = v[t][n]
    BY <1>1, <1>2, WorthIsInteger
  <1>4. ASSUME NEW t \in Teams PROVE a[t] = SumFunctionOnSet(v[t], counted)
    <2>1. /\ teams[t].total = Tally(matches, counted, t) - charged[t]
          /\ charged[t] \in Int
      BY DEF TInv, TableAddsUp
    <2>2. Tally(matches, counted, t) = SumFunctionOnSet(v[t], counted)
      BY DEF Tally
    <2>3. SumFunctionOnSet(v[t], counted) \in Int
      BY <1>1, <1>3, SumIsInteger
    <2>4. a[t] = teams[t].total + charged[t]
      OBVIOUS
    <2> HIDE DEF a, v
    <2>5. QED
      BY <2>1, <2>2, <2>3, <2>4
  <1>5. ASSUME NEW n \in counted PROVE b[n] = SumFunctionOnSet(w[n], Teams)
    <2> DEFINE sheet == matches[n].result
               p == [t \in DOMAIN sheet |->
                       Scoring(sheet[t].placement) + Capped(sheet[t].bravura)]
    <2>1. b[n] = SumFunctionOnSet(p, DOMAIN sheet)
      BY DEF SheetPoints, SumFunction
    <2>2. DOMAIN sheet \in SUBSET Teams
      BY <1>2, SheetsAssumption
    <2>3. n \in MatchNumbers
      BY <1>1
    <2>4. \A t \in DOMAIN sheet : p[t] \in Int /\ w[n][t] = p[t]
      BY <1>2, <2>2, <2>3, WorthIsInteger DEF Worth
    <2>5. \A t \in Teams \ DOMAIN sheet : w[n][t] = 0
      BY <2>3 DEF Worth
    <2> DEFINE D == DOMAIN sheet
               u == w[n]
    <2> HIDE DEF p, w, b, D, u
    <2>6. D \in SUBSET Teams /\ (\A t \in D : p[t] \in Int /\ u[t] = p[t])
          /\ \A t \in Teams \ D : u[t] = 0
      BY <2>2, <2>4, <2>5 DEF D, u
    <2>7. SumFunctionOnSet(u, Teams) = SumFunctionOnSet(p, D)
      <3>1. Extends(Teams, D, p, u)
        BY <1>1, <2>6 DEF Extends
      <3>2. QED
        BY <3>1, SumOfSome
    <2>8. QED
      BY <2>1, <2>7 DEF D, u
  <1>6. BooksBalance <=> SumFunctionOnSet(a, Teams) = SumFunctionOnSet(b, counted)
    BY DEF BooksBalance, SumFunction
  <1>7. SumFunctionOnSet(a, Teams) = SumFunctionOnSet(b, counted)
    <2>1. \A t \in Teams : a[t] = SumFunctionOnSet(v[t], counted)
      BY <1>4
    <2>2. \A n \in counted : b[n] = SumFunctionOnSet(w[n], Teams)
      BY <1>5
    <2> HIDE DEF a, b, v, w
    <2>3. AddsUp(Teams, counted, v, w, a, b)
      BY <1>1, <1>3, <2>1, <2>2 DEF AddsUp
    <2>4. QED
      BY <2>3, SumsSwap
  <1>8. QED
    BY <1>6, <1>7

\* tournaments/scoring.py and submit_result: whatever results are submitted,
\* corrected and fined in whichever order, with matches set back by their links
\* in between, the table adds up to the sheets in force and to every fine once.
THEOREM BooksStayBalanced == TournamentSpec => []BooksBalance
  BY AlwaysTInv, TotalsBalance, PTL
=============================================================================
