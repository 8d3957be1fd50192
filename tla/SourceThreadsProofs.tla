------------------------- MODULE SourceThreadsProofs -------------------------
(***************************************************************************)
(* Proofs about SourceThreads, for any senders, window, number of          *)
(* messages, failures and interruptions, and with or without MsgIds.       *)
(***************************************************************************)
EXTENDS SourceThreads, FiniteSetTheorems, SequenceTheorems, TLAPS

-----------------------------------------------------------------------------
(* Least elements, and the latest of several rows. *)

\* Among the intervals 0 .. m there is one that contains no other.
LEMMA Smallest ==
  ASSUME NEW T, T \subseteq Nat, T # {}
  PROVE \E m \in T : \A k \in T : m <= k
<1> DEFINE R == StrictSubsetOrdering(Nat)
           F == FiniteSubsetsOf(Nat)
           U == {0 .. m : m \in T}
<1>1. IsWellFoundedOn(R, F)
  BY FS_StrictSubsetOrderingWellFounded
<1>2. U \subseteq F /\ U # {}
  <2>1. \A m \in T : IsFiniteSet(0 .. m) /\ 0 .. m \in SUBSET Nat
    BY FS_Interval
  <2> QED
    BY <2>1 DEF FiniteSubsetsOf
<1>3. \E x \in U : \A y \in U : ~ (<<y, x>> \in R)
  <2> HIDE DEF R, F, U
  <2> QED BY <1>1, <1>2, WFMin
<1>4. \A x, y \in Nat : x < y => <<0 .. x, 0 .. y>> \in R
  BY DEF StrictSubsetOrdering
<1>5. PICK m \in T : \A k \in T : ~ (<<0 .. k, 0 .. m>> \in R)
  <2> HIDE DEF R
  <2> QED
    BY <1>3
<1>6. ASSUME NEW k \in T PROVE m <= k
  <2>1. ~ (k < m)
    BY <1>4, <1>5
  <2> QED
    BY <2>1
<1> QED BY <1>6

LEMMA LatestExists ==
  ASSUME TypeOK, NEW S, S \subseteq DOMAIN rows, S # {}
  PROVE  \E c \in S : \A k \in S :
           rows[k].at < rows[c].at \/ (rows[k].at = rows[c].at /\ k <= c)
<1>1. /\ DOMAIN rows = 1 .. Len(rows) /\ Len(rows) \in Nat /\ MaxClock \in Nat
      /\ \A k \in DOMAIN rows : rows[k].at \in 0 .. MaxClock
  <2>1. rows \in Seq(Row) /\ MaxClock \in Nat
    BY ThreadBounds DEF TypeOK
  <2>2. DOMAIN rows = 1 .. Len(rows) /\ Len(rows) \in Nat
    BY <2>1, LenProperties
  <2>3. \A k \in DOMAIN rows : rows[k] \in Row
    BY <2>1, <2>2, ElementOfSeq
  <2> QED
    BY <2>1, <2>2, <2>3 DEF Row
<1> DEFINE age(k) == MaxClock - rows[k].at
           Ages == {age(k) : k \in S}
<1>2. Ages \subseteq Nat /\ Ages # {}
  BY <1>1
<1>3. PICK a \in Ages : \A b \in Ages : a <= b
  <2> HIDE DEF Ages
  <2> QED
    BY <1>2, Smallest
<1>4. PICK k0 \in S : a = age(k0)
  OBVIOUS
<1>5. \A k \in S : rows[k].at <= rows[k0].at
  <2> SUFFICES ASSUME NEW k \in S PROVE rows[k].at <= rows[k0].at
    OBVIOUS
  <2>1. age(k0) <= age(k)
    BY <1>3, <1>4
  <2> QED
    BY <2>1, <1>1
<1> DEFINE T == {k \in S : rows[k].at = rows[k0].at}
           Rest == {Len(rows) - k : k \in T}
<1>6. Rest \subseteq Nat /\ Rest # {}
  BY <1>1, <1>4
<1>7. PICK r \in Rest : \A q \in Rest : r <= q
  <2> HIDE DEF Rest
  <2> QED
    BY <1>6, Smallest
<1>8. PICK c \in T : r = Len(rows) - c
  OBVIOUS
<1>9. \A k \in T : k <= c
  <2> SUFFICES ASSUME NEW k \in T PROVE k <= c
    OBVIOUS
  <2>1. Len(rows) - c <= Len(rows) - k
    BY <1>7, <1>8
  <2> QED
    BY <2>1, <1>1
<1> QED
  <2> SUFFICES ASSUME NEW k \in S
               PROVE  rows[k].at < rows[c].at \/ (rows[k].at = rows[c].at /\ k <= c)
    OBVIOUS
  <2> QED
    BY <1>1, <1>5, <1>8, <1>9

-----------------------------------------------------------------------------
(* Appending to a table. *)

LEMMA AppendColumn ==
  ASSUME NEW n \in Nat, NEW S, NEW f \in [1 .. n -> S], NEW x \in S
  PROVE  /\ Append(f, x) \in [1 .. n + 1 -> S]
         /\ \A i \in 1 .. n : Append(f, x)[i] = f[i]
         /\ Append(f, x)[n + 1] = x
<1>1. f \in Seq(S) /\ Len(f) = n
  OBVIOUS
<1>2. /\ Append(f, x) \in Seq(S) /\ Len(Append(f, x)) = n + 1
      /\ \A i \in 1 .. n : Append(f, x)[i] = f[i]
      /\ Append(f, x)[n + 1] = x
  BY <1>1
<1>3. Append(f, x) \in [1 .. Len(Append(f, x)) -> S]
  BY <1>2, LenProperties
<1> QED
  BY <1>2, <1>3

\* Rows are added and finished, never moved: sender, kind and time stay.
RowsStay ==
  /\ DOMAIN rows \subseteq DOMAIN rows'
  /\ \A k \in DOMAIN rows : /\ rows'[k].from = rows[k].from
                            /\ rows'[k].kind = rows[k].kind
                            /\ rows'[k].at = rows[k].at

LEMMA NewRow ==
  ASSUME TypeOK, NEW s \in Sender, NEW kind \in {"item", "new"},
         NEW hasId \in MsgIds, NEW at \in 0 .. MaxClock, Arrive(s, kind, hasId, at)
  PROVE  /\ rows' \in Seq(Row) /\ Len(rows') <= MaxMessages
         /\ Len(rows') = Len(rows) + 1
         /\ DOMAIN rows' = DOMAIN rows \cup {Len(rows) + 1}
         /\ \A k \in DOMAIN rows : rows'[k] = rows[k]
         /\ rows'[Len(rows) + 1].status # "source_written"
         /\ job' \in [DOMAIN rows' -> {"none", "pending", "processing", "done", "failed"}]
         /\ \A k \in DOMAIN rows : job'[k] = job[k]
         /\ job'[Len(rows) + 1] # "done"
         /\ due' \in [DOMAIN rows' -> Nat]
<1> DEFINE row == [from |-> s, kind |-> kind, at |-> at, hasId |-> hasId,
                   status |-> IF kind = "new" THEN "command" ELSE "queued"]
           n == Len(rows)
           status == IF kind = "new" THEN "none" ELSE "pending"
           J == {"none", "pending", "processing", "done", "failed"}
<1>1. row \in Row
  BY ThreadBounds DEF Row
<1>2. n \in Nat /\ DOMAIN rows = 1 .. n /\ rows \in Seq(Row)
  BY DEF TypeOK
<1>3. rows' = Append(rows, row) /\ job' = Append(job, status) /\ due' = Append(due, at)
  BY DEF Arrive
<1>4. /\ rows' \in Seq(Row) /\ Len(rows') = n + 1
      /\ \A k \in 1 .. n : rows'[k] = rows[k]
      /\ rows'[n + 1] = row
  BY <1>1, <1>2, <1>3
<1>5. DOMAIN rows' = 1 .. n + 1
  BY <1>4
<1>6. job \in [1 .. n -> J] /\ status \in J
  BY <1>2 DEF TypeOK
<1>a. due \in [1 .. n -> Nat] /\ at \in Nat
  BY <1>2, ThreadBounds DEF TypeOK
<1>7. /\ job' \in [1 .. n + 1 -> J]
      /\ \A k \in 1 .. n : job'[k] = job[k]
      /\ job'[n + 1] = status
  <2>1. n \in Nat /\ job' = Append(job, status)
    BY <1>2, <1>3
  <2> HIDE DEF n, status, J
  <2> QED
    BY <2>1, <1>6, AppendColumn
<1>8. due' \in [1 .. n + 1 -> Nat]
  <2>1. n \in Nat /\ due' = Append(due, at)
    BY <1>2, <1>3
  <2> HIDE DEF n, status, J
  <2> QED
    BY <2>1, <1>a, AppendColumn
<1>9. n < MaxMessages
  BY DEF Arrive
<1> QED
  BY <1>2, <1>4, <1>5, <1>7, <1>8, <1>9, ThreadBounds


\* Which actions a step may be.
LEMMA Steps ==
  ASSUME TypeOK, Next
  PROVE  \/ \E s \in Sender, kind \in {"item", "new"}, hasId \in MsgIds, at \in 0 .. MaxClock :
               Arrive(s, kind, hasId, at)
         \/ Tick
         \/ \E i \in DOMAIN rows : Claim(i) \/ Requeue(i)
         \/ ChooseThread \/ WriteItem \/ MarkWritten \/ MarkDone \/ Fail \/ Interrupt
<1>1. clock \in 0 .. MaxClock /\ MaxClock \in Nat
  BY ThreadBounds DEF TypeOK
<1>2. \A t \in 0 .. clock : t \in 0 .. MaxClock
  BY <1>1
<1> QED
  BY <1>2 DEF Next

\* Writing the status of a row.
LEMMA SetStatus ==
  ASSUME TypeOK, current \in DOMAIN rows, NEW st \in {"source_written", "failed"},
         rows' = [rows EXCEPT ![current].status = st]
  PROVE  /\ rows' \in Seq(Row) /\ Len(rows') = Len(rows) /\ DOMAIN rows' = DOMAIN rows
         /\ rows'[current].status = st
         /\ \A k \in DOMAIN rows : k # current => rows'[k] = rows[k]
         /\ RowsStay
<1> DEFINE new == [rows[current] EXCEPT !.status = st]
<1>1. rows \in Seq(Row) /\ current \in 1 .. Len(rows)
  BY DEF TypeOK
<1>2. rows[current] \in Row
  BY <1>1, ElementOfSeq
<1>3. /\ new \in Row /\ new.status = st
      /\ new.from = rows[current].from /\ new.kind = rows[current].kind /\ new.at = rows[current].at
  BY <1>2 DEF Row
<1>4. rows' = [rows EXCEPT ![current] = new]
  OBVIOUS
<1> HIDE DEF new
<1>5. /\ rows' \in Seq(Row) /\ Len(rows') = Len(rows)
      /\ \A k \in 1 .. Len(rows) : rows'[k] = IF k = current THEN new ELSE rows[k]
  BY <1>1, <1>3, <1>4, ExceptSeq
<1>6. DOMAIN rows' = 1 .. Len(rows) /\ DOMAIN rows = 1 .. Len(rows)
  BY <1>1, <1>5, LenProperties
<1> QED
  BY <1>1, <1>3, <1>5, <1>6 DEF RowsStay

-----------------------------------------------------------------------------
(* Names. *)

\* The name a message is given fits it: the anchor has its sender, is near,
\* and no /new lies between.
LEMMA ChosenFits ==
  ASSUME TypeOK, NEW i \in DOMAIN rows
  PROVE  ThreadFor(i) \in Name /\ Fits(ThreadFor(i), i)
<1>1. /\ rows \in Seq(Row) /\ DOMAIN rows = 1 .. Len(rows) /\ Len(rows) \in Nat
      /\ DOMAIN rows \subseteq Ids /\ \A k \in DOMAIN rows : rows[k].at \in Nat
      /\ Window \in Nat
  <2>1. rows \in Seq(Row) /\ Window \in Nat /\ MaxClock \in Nat /\ MaxMessages \in Nat
    BY ThreadBounds DEF TypeOK
  <2>2. DOMAIN rows = 1 .. Len(rows) /\ Len(rows) \in Nat
    BY <2>1, LenProperties
  <2>3. \A k \in DOMAIN rows : rows[k] \in Row
    BY <2>1, <2>2, ElementOfSeq
  <2>4. Len(rows) <= MaxMessages
    BY DEF TypeOK
  <2> QED
    BY <2>1, <2>2, <2>3, <2>4 DEF Row, Ids
<1>2. CASE Candidates(i) = {}
  <2>1. ThreadFor(i) = <<"key", i>> /\ ThreadFor(i)[2] = i
    BY <1>2 DEF ThreadFor, MessageKey
  <2>2. ~ NewBetween(i, i)
    BY <1>1 DEF NewBetween
  <2> QED
    BY <1>1, <2>1, <2>2 DEF Fits, Name
<1>3. CASE Candidates(i) # {}
  <2> DEFINE c == Latest(Candidates(i))
  <2>1. c \in Candidates(i)
    <3>1. Candidates(i) \subseteq DOMAIN rows
      BY DEF Candidates
    <3> QED
      BY <1>3, <3>1, LatestExists DEF Latest
  <2>2. ThreadFor(i) \in {<<"key", c>>, <<"id", c>>} /\ ThreadFor(i)[2] = c
    BY <1>3 DEF ThreadFor, AnchorKey, MessageKey
  <2> HIDE DEF c
  <2> QED
    BY <1>1, <2>1, <2>2 DEF Candidates, Near, Fits, Name
<1> QED
  BY <1>2, <1>3


\* A name keeps fitting: later rows lie behind the item, not before it.
LEMMA FitsStay ==
  ASSUME TypeOK, rows' \in Seq(Row), RowsStay,
         NEW name \in Name, NEW i \in DOMAIN rows, Fits(name, i)
  PROVE  Fits(name, i)'
<1>1. /\ DOMAIN rows = 1 .. Len(rows) /\ Len(rows) \in Nat
      /\ DOMAIN rows' = 1 .. Len(rows') /\ Len(rows') \in Nat
  BY DEF TypeOK
<1>2. name[2] \in 1 .. i /\ 1 .. i \subseteq DOMAIN rows
  BY <1>1 DEF Fits
<1>3. ASSUME NEW k \in DOMAIN rows', k < i PROVE k \in DOMAIN rows
  BY <1>1, <1>3
<1>4. ~ NewBetween(name[2], i)'
  <2>1. ~ NewBetween(name[2], i)
    BY DEF Fits
  <2> QED
    BY <2>1, <1>3 DEF NewBetween, RowsStay
<1> QED
  BY <1>2, <1>4 DEF Fits, RowsStay

-----------------------------------------------------------------------------
(* Copies. *)

LEMMA CopiesCount ==
  ASSUME TypeOK, NEW i
  PROVE  IsFiniteSet(ThreadsOf(i)) /\ Cardinality(ThreadsOf(i)) \in Nat
<1>1. IsFiniteSet(Ids)
  BY FS_Interval, ThreadBounds DEF Ids
<1>2. IsFiniteSet({"key", "id"})
  <2>1. {"key", "id"} = {"key"} \cup {"id"}
    OBVIOUS
  <2>2. IsFiniteSet({"key"})
    BY FS_Singleton
  <2> QED
    BY <2>1, <2>2, FS_AddElement
<1>3. IsFiniteSet(Name)
  BY <1>1, <1>2, FS_Product DEF Name
<1>4. ThreadsOf(i) \in SUBSET Name
  BY DEF TypeOK, ThreadsOf
<1> QED
  BY <1>3, <1>4, FS_Subset, FS_CardinalityType

\* Filing an item adds at most one copy, to the message in hand.
LEMMA OneMore ==
  ASSUME TypeOK, WriteItem
  PROVE  /\ ThreadsOf(current)' = ThreadsOf(current) \cup {thread}
         /\ \A i \in DOMAIN rows : i # current => ThreadsOf(i)' = ThreadsOf(i)
         /\ Cardinality(ThreadsOf(current)') <= Cardinality(ThreadsOf(current)) + 1
<1>1. items' = items \cup {[thread |-> thread, msg |-> current]} /\ current' = current
  BY DEF WriteItem
<1>2. ThreadsOf(current)' = ThreadsOf(current) \cup {thread}
  <2> DEFINE new == [thread |-> thread, msg |-> current]
             Filed(s) == {x.thread : x \in {y \in s : y.msg = current}}
  <2>1. new.thread = thread /\ new.msg = current
    OBVIOUS
  <2>2. {y \in items \cup {new} : y.msg = current} = {y \in items : y.msg = current} \cup {new}
    BY <2>1
  <2> HIDE DEF new
  <2>3. Filed(items \cup {new}) = Filed(items) \cup {new.thread}
    BY <2>2
  <2> QED
    BY <1>1, <2>1, <2>3 DEF ThreadsOf, new
<1>3. \A i \in DOMAIN rows : i # current => ThreadsOf(i)' = ThreadsOf(i)
  BY <1>1 DEF ThreadsOf
<1>4. IsFiniteSet(ThreadsOf(current)) /\ Cardinality(ThreadsOf(current)) \in Nat
  BY CopiesCount
<1>5. Cardinality(ThreadsOf(current) \cup {thread}) <= Cardinality(ThreadsOf(current)) + 1
  <2>1. Cardinality(ThreadsOf(current) \cup {thread})
          = IF thread \in ThreadsOf(current) THEN Cardinality(ThreadsOf(current))
            ELSE Cardinality(ThreadsOf(current)) + 1
    BY <1>4, FS_AddElement
  <2> HIDE DEF ThreadsOf
  <2> QED
    BY <1>4, <2>1
<1> QED
  BY <1>2, <1>3, <1>5

LEMMA SomeCopy ==
  ASSUME TypeOK, NEW i
  PROVE  /\ ThreadsOf(i) = {} <=> Cardinality(ThreadsOf(i)) = 0
         /\ lost \in Nat
<1>1. IsFiniteSet(ThreadsOf(i))
  BY CopiesCount
<1>2. lost \in Nat
  BY ThreadBounds DEF TypeOK
<1> QED
  BY <1>1, <1>2, FS_EmptySet

-----------------------------------------------------------------------------
(* The inductive invariant. *)

LEMMA TypeStep ==
  ASSUME ThreadsInv, [Next]_vars
  PROVE  TypeOK'
<1> USE DEF ThreadsInv
<1> DEFINE J == {"none", "pending", "processing", "done", "failed"}
<1>0. /\ Len(rows) \in Nat /\ DOMAIN rows = 1 .. Len(rows) /\ DOMAIN rows \subseteq Ids
      /\ job \in [DOMAIN rows -> J] /\ MaxClock \in Nat /\ clock \in Nat
      /\ {RetryDelay, MaxFailures, MaxLost} \subseteq Nat
  BY ThreadBounds DEF TypeOK, Ids
<1>a. ASSUME Release PROVE pc' = "idle" /\ current' = 0 /\ thread' = NoThread
  BY <1>a DEF Release
<1>1. CASE UNCHANGED vars
  BY <1>1 DEF TypeOK, vars, tableVars, workerVars, envVars
<1>2. ASSUME NEW s \in Sender, NEW kind \in {"item", "new"}, NEW hasId \in MsgIds,
             NEW at \in 0 .. MaxClock, Arrive(s, kind, hasId, at)
      PROVE  TypeOK'
  <2>1. /\ rows' \in Seq(Row) /\ Len(rows') <= MaxMessages
        /\ job' \in [DOMAIN rows' -> J] /\ due' \in [DOMAIN rows' -> Nat]
        /\ DOMAIN rows \subseteq DOMAIN rows'
    BY <1>2, NewRow
  <2>2. UNCHANGED <<items, pc, current, thread, clock, failures, lost>>
    BY <1>2 DEF Arrive, workerVars, envVars
  <2> QED
    BY <2>1, <2>2 DEF TypeOK
<1>3. CASE Tick
  BY <1>0, <1>3 DEF TypeOK, Tick, tableVars, workerVars
<1>4. ASSUME NEW i \in DOMAIN rows, Claim(i) PROVE TypeOK'
  BY <1>0, <1>4 DEF TypeOK, Claim, envVars
<1>5. ASSUME NEW i \in DOMAIN rows, Requeue(i) PROVE TypeOK'
  BY <1>0, <1>5 DEF TypeOK, Requeue, workerVars, envVars
<1>6. CASE ChooseThread
  <2>1. current \in DOMAIN rows
    BY <1>6 DEF ChooseThread, InHand
  <2>2. ThreadFor(current) \in Name
    BY <2>1, ChosenFits
  <2> QED
    BY <2>2, <1>6 DEF TypeOK, ChooseThread, tableVars, envVars
<1>7. CASE WriteItem
  <2>1. current \in DOMAIN rows /\ thread \in Name
    BY <1>7 DEF WriteItem, InHand
  <2> QED
    BY <2>1, <1>7 DEF TypeOK, WriteItem, tableVars, envVars
<1>8. CASE MarkWritten
  <2>1. current \in DOMAIN rows
    BY <1>8 DEF MarkWritten, InHand
  <2>2. rows' \in Seq(Row) /\ Len(rows') = Len(rows) /\ DOMAIN rows' = DOMAIN rows
    BY <2>1, <1>8, SetStatus DEF MarkWritten
  <2> QED
    BY <2>2, <1>8 DEF TypeOK, MarkWritten, envVars
<1>9. CASE MarkDone
  BY <1>0, <1>9, <1>a DEF TypeOK, MarkDone, envVars
<1>10. CASE Fail
  <2>1. current \in DOMAIN rows
    BY <1>10 DEF Fail, InHand
  <2>2. rows' \in Seq(Row) /\ Len(rows') = Len(rows) /\ DOMAIN rows' = DOMAIN rows
    <3>1. \/ UNCHANGED rows \/ rows' = [rows EXCEPT ![current].status = "failed"]
      BY <1>10 DEF Fail
    <3> QED
      BY <2>1, <3>1, SetStatus DEF TypeOK
  <2>3. job' \in [DOMAIN rows -> J] /\ due' \in [DOMAIN rows -> Nat]
    <3>1. due \in [DOMAIN rows -> Nat] /\ clock + RetryDelay \in Nat
      BY <1>0 DEF TypeOK
    <3>2. /\ \/ job' = [job EXCEPT ![current] = "pending"]
             \/ job' = [job EXCEPT ![current] = "failed"]
          /\ \/ due' = [due EXCEPT ![current] = clock + RetryDelay]
             \/ due' = due
      BY <1>10 DEF Fail
    <3> QED
      BY <1>0, <3>1, <3>2
  <2>4. failures' \in 0 .. MaxFailures
    BY <1>0, <1>10 DEF Fail, TypeOK
  <2>5. Release /\ UNCHANGED <<items, clock, lost>>
    BY <1>10 DEF Fail
  <2> QED
    BY <1>a, <2>2, <2>3, <2>4, <2>5 DEF TypeOK
<1>11. CASE Interrupt
  BY <1>0, <1>11, <1>a DEF TypeOK, Interrupt, tableVars
<1> QED
  BY <1>1, <1>2, <1>3, <1>4, <1>5, <1>6, <1>7, <1>8, <1>9, <1>10, <1>11, Steps

\* While the rows only grow and nothing is filed, what was filed stays filed
\* well, and every message keeps its copies.
LEMMA FilingStays ==
  ASSUME ThreadsInv, rows' \in Seq(Row), RowsStay, items' = items
  PROVE  FiledWell' /\ \A i : ThreadsOf(i)' = ThreadsOf(i)
<1>1. \A i : ThreadsOf(i)' = ThreadsOf(i)
  BY DEF ThreadsOf
<1>2. ASSUME NEW x \in items PROVE Fits(x.thread, x.msg)'
  <2>1. x.thread \in Name /\ x.msg \in DOMAIN rows /\ Fits(x.thread, x.msg)
    BY DEF ThreadsInv, TypeOK, FiledWell
  <2> QED
    BY <2>1, FitsStay DEF ThreadsInv
<1> QED
  BY <1>1, <1>2 DEF FiledWell

\* The same for a step that leaves the rows alone.
LEMMA FilingSame ==
  ASSUME ThreadsInv, rows' = rows, items' = items
  PROVE  /\ rows' \in Seq(Row) /\ RowsStay /\ FiledWell'
         /\ \A i : ThreadsOf(i)' = ThreadsOf(i)
         /\ \A name, i : Fits(name, i)' <=> Fits(name, i)
<1>1. rows' \in Seq(Row) /\ RowsStay
  BY DEF ThreadsInv, TypeOK, RowsStay
<1>2. \A name, i : Fits(name, i)' <=> Fits(name, i)
  BY DEF Fits, NewBetween
<1> QED
  BY <1>1, <1>2, FilingStays

\* A message that has a copy but is not settled was interrupted.
LEMMA UnsettledCopy ==
  ASSUME ThreadsInv, NEW i \in DOMAIN rows, ~ Settled(i), ThreadsOf(i) # {}
  PROVE  lost > 0
<1>1. Cardinality(ThreadsOf(i)) <= lost
  BY DEF ThreadsInv, CopiesPaid
<1>2. Cardinality(ThreadsOf(i)) \in Nat /\ Cardinality(ThreadsOf(i)) # 0 /\ lost \in Nat
  BY CopiesCount, SomeCopy DEF ThreadsInv
<1> QED
  BY <1>1, <1>2

\* A message that arrives has no copy.
LEMMA ArriveStep ==
  ASSUME ThreadsInv, TypeOK', NEW s \in Sender, NEW kind \in {"item", "new"},
         NEW hasId \in MsgIds, NEW at \in 0 .. MaxClock, Arrive(s, kind, hasId, at)
  PROVE  ThreadsInv'
<1> DEFINE n == Len(rows) + 1
<1> USE DEF ThreadsInv
<1>1. /\ rows' \in Seq(Row) /\ DOMAIN rows' = DOMAIN rows \cup {n}
      /\ \A k \in DOMAIN rows : rows'[k] = rows[k] /\ job'[k] = job[k]
      /\ rows'[n].status # "source_written" /\ job'[n] # "done"
  BY NewRow
<1>2. UNCHANGED <<items, pc, current, thread, lost>>
  BY DEF Arrive, workerVars, envVars
<1>3. n \notin DOMAIN rows
  BY DEF TypeOK
<1>4. RowsStay
  BY <1>1 DEF RowsStay
<1>5. FiledWell' /\ \A i : ThreadsOf(i)' = ThreadsOf(i)
  BY <1>1, <1>2, <1>4, FilingStays
<1>6. ThreadsOf(n) = {} /\ Cardinality(ThreadsOf(n)) = 0 /\ lost \in Nat
  <2>1. ThreadsOf(n) = {}
    BY <1>3 DEF TypeOK, ThreadsOf
  <2> QED
    BY <2>1, SomeCopy
<1> HIDE DEF n
<1>7. InHand'
  <2>1. pc = "write" => thread \in Name /\ Fits(thread, current)'
    <3> SUFFICES ASSUME pc = "write" PROVE thread \in Name /\ Fits(thread, current)'
      OBVIOUS
    <3>1. current \in DOMAIN rows /\ thread \in Name /\ Fits(thread, current)
      BY DEF InHand
    <3> QED
      BY <1>1, <1>2, <1>4, <3>1, FitsStay
  <2>2. ThreadsOf(current)' = ThreadsOf(current)
    BY <1>2 DEF ThreadsOf
  <2> QED
    BY <1>1, <1>2, <2>1, <2>2 DEF InHand
<1>8. DoneIsWritten'
  BY <1>1 DEF DoneIsWritten
<1>9. CopiesPaid'
  <2>1. ASSUME NEW i \in DOMAIN rows PROVE Settled(i)' <=> Settled(i)
    BY <1>1, <1>2 DEF Settled
  <2>2. ASSUME NEW i \in DOMAIN rows'
        PROVE  Cardinality(ThreadsOf(i)') <= IF Settled(i)' THEN 1 + lost ELSE lost
    <3>1. CASE i \in DOMAIN rows
      BY <1>5, <2>1, <3>1 DEF CopiesPaid
    <3>2. CASE i = n
      BY <1>5, <1>6, <3>2
    <3> QED
      BY <1>1, <3>1, <3>2
  <2> QED
    BY <1>2, <2>2 DEF CopiesPaid
<1>10. WrittenMeansInSource'
  <2>1. ASSUME NEW i \in DOMAIN rows'
        PROVE  /\ rows'[i].status = "source_written" => ThreadsOf(i)' # {}
               /\ ThreadsOf(i)' # {} => \/ rows'[i].status = "source_written"
                                        \/ current' = i /\ pc' = "mark"
                                        \/ lost' > 0
    <3>1. CASE i \in DOMAIN rows
      BY <1>1, <1>2, <1>5, <3>1 DEF WrittenMeansInSource
    <3>2. CASE i = n
      BY <1>1, <1>5, <1>6, <3>2
    <3> QED
      BY <1>1, <3>1, <3>2
  <2> QED
    BY <2>1 DEF WrittenMeansInSource
<1> QED
  BY <1>5, <1>7, <1>8, <1>9, <1>10

\* Steps of the jobs and of the worker that leave rows and file alone: what
\* remains of the invariant is about the job states and the message in hand.
LEMMA TableStep ==
  ASSUME ThreadsInv, TypeOK', rows' = rows, items' = items, InHand',
         lost' \in {lost, lost + 1},
         \A i \in DOMAIN rows : job'[i] = "done" => rows[i].status = "source_written",
         \A i \in DOMAIN rows : Settled(i) /\ ~ Settled(i)' => lost' = lost + 1,
         pc = "mark" => lost' = lost + 1 \/ UNCHANGED <<pc, current>>
  PROVE  ThreadsInv'
<1> USE DEF ThreadsInv
<1>1. FiledWell' /\ \A i : ThreadsOf(i)' = ThreadsOf(i)
  BY FilingSame
<1>2. lost \in Nat
  BY SomeCopy
<1>3. DoneIsWritten'
  BY DEF DoneIsWritten
<1>4. CopiesPaid'
  <2>1. ASSUME NEW i \in DOMAIN rows
        PROVE  Cardinality(ThreadsOf(i)') <= IF Settled(i)' THEN 1 + lost' ELSE lost'
    <3>1. Cardinality(ThreadsOf(i)) \in Nat
      BY CopiesCount
    <3>2. Cardinality(ThreadsOf(i)) <= IF Settled(i) THEN 1 + lost ELSE lost
      BY DEF CopiesPaid
    <3>3. CASE Settled(i) /\ ~ Settled(i)'
      BY <1>1, <1>2, <3>1, <3>2, <3>3
    <3>4. CASE ~ (Settled(i) /\ ~ Settled(i)')
      <4>1. Cardinality(ThreadsOf(i)') = Cardinality(ThreadsOf(i))
        BY <1>1
      <4> HIDE DEF ThreadsOf, Settled
      <4> QED
        BY <1>2, <3>1, <3>2, <3>4, <4>1
    <3> QED
      BY <3>3, <3>4
  <2> QED
    BY <2>1 DEF CopiesPaid
<1>5. WrittenMeansInSource'
  <2>1. \A i \in DOMAIN rows : /\ rows[i].status = "source_written" => ThreadsOf(i) # {}
                               /\ ThreadsOf(i) # {} => \/ rows[i].status = "source_written"
                                                       \/ current' = i /\ pc' = "mark"
                                                       \/ lost' > 0
    BY <1>2 DEF WrittenMeansInSource
  <2> QED
    BY <1>1, <2>1 DEF WrittenMeansInSource
<1> QED
  BY <1>1, <1>3, <1>4, <1>5

LEMMA TickStep ==
  ASSUME ThreadsInv, TypeOK', Tick \/ UNCHANGED vars
  PROVE  ThreadsInv'
<1>1. UNCHANGED <<rows, job, items, pc, current, thread, lost>>
  BY DEF Tick, vars, tableVars, workerVars, envVars
<1>2. InHand'
  <2>1. Fits(thread, current)' <=> Fits(thread, current)
    BY <1>1 DEF Fits, NewBetween
  <2>2. ThreadsOf(current)' = ThreadsOf(current)
    BY <1>1 DEF ThreadsOf
  <2> QED
    BY <1>1, <2>1, <2>2 DEF ThreadsInv, InHand
<1>3. \A i \in DOMAIN rows : job'[i] = "done" => rows[i].status = "source_written"
  BY <1>1 DEF ThreadsInv, DoneIsWritten
<1>4. \A i : Settled(i)' <=> Settled(i)
  BY <1>1 DEF Settled
<1> QED
  BY <1>1, <1>2, <1>3, <1>4, TableStep

LEMMA QueueStep ==
  ASSUME ThreadsInv, TypeOK', NEW j \in DOMAIN rows, Claim(j) \/ Requeue(j)
  PROVE  ThreadsInv'
<1> USE DEF ThreadsInv
<1>1. /\ UNCHANGED <<rows, items, thread, lost>>
      /\ \A i \in DOMAIN rows : i # j => job'[i] = job[i]
      /\ job'[j] \in {"pending", "processing"} /\ job[j] # "done"
      /\ job \in [DOMAIN rows -> {"none", "pending", "processing", "done", "failed"}]
  BY DEF TypeOK, Claim, Due, Requeue, workerVars, envVars
<1>2. \/ pc = "idle" /\ pc' = "choose" /\ current' = j /\ job'[j] = "processing"
      \/ UNCHANGED <<pc, current>> /\ j # current
  BY <1>1 DEF Claim, Requeue, workerVars, TypeOK
<1>3. InHand'
  <2>1. CASE UNCHANGED <<pc, current>> /\ j # current
    <3>1. Fits(thread, current)' <=> Fits(thread, current)
      BY <1>1, <2>1 DEF Fits, NewBetween
    <3>2. ThreadsOf(current)' = ThreadsOf(current)
      BY <1>1, <2>1 DEF ThreadsOf
    <3> QED
      BY <1>1, <2>1, <3>1, <3>2 DEF InHand
  <2>2. CASE pc' = "choose" /\ current' = j /\ job'[j] = "processing"
    BY <1>1, <2>2 DEF InHand
  <2> QED
    BY <1>2, <2>1, <2>2
<1>4. \A i \in DOMAIN rows : job'[i] = "done" => rows[i].status = "source_written"
  BY <1>1 DEF DoneIsWritten
<1>5. \A i \in DOMAIN rows : Settled(i) => Settled(i)'
  BY <1>1, <1>2 DEF Settled
<1>6. pc = "mark" => UNCHANGED <<pc, current>>
  BY <1>2
<1> QED
  BY <1>1, <1>3, <1>4, <1>5, <1>6, TableStep

LEMMA ChooseStep ==
  ASSUME ThreadsInv, TypeOK', ChooseThread
  PROVE  ThreadsInv'
<1> USE DEF ThreadsInv
<1>1. /\ UNCHANGED <<rows, job, items, current, lost>>
      /\ pc = "choose" /\ pc' = "write" /\ thread' = ThreadFor(current)
  BY DEF ChooseThread, tableVars, envVars
<1>2. current \in DOMAIN rows /\ job[current] = "processing"
  BY <1>1 DEF InHand
<1>3. thread' \in Name /\ Fits(thread, current)'
  <2>1. ThreadFor(current) \in Name /\ Fits(ThreadFor(current), current)
    BY <1>2, ChosenFits
  <2> QED
    BY <1>1, <2>1 DEF Fits, NewBetween
<1>4. InHand'
  BY <1>1, <1>2, <1>3 DEF InHand
<1>5. \A i \in DOMAIN rows : job'[i] = "done" => rows[i].status = "source_written"
  BY <1>1 DEF DoneIsWritten
<1>6. \A i \in DOMAIN rows : Settled(i) => Settled(i)'
  BY <1>1 DEF Settled
<1> QED
  BY <1>1, <1>4, <1>5, <1>6, TableStep

\* A released worker has nothing in hand.
LEMMA Released ==
  ASSUME Release
  PROVE  InHand'
BY DEF Release, InHand

LEMMA DoneStep ==
  ASSUME ThreadsInv, TypeOK', MarkDone
  PROVE  ThreadsInv'
<1> USE DEF ThreadsInv
<1>1. /\ UNCHANGED <<rows, items, lost>>
      /\ pc = "done" /\ Release /\ job' = [job EXCEPT ![current] = "done"]
  BY DEF MarkDone, envVars
<1>2. current \in DOMAIN rows /\ rows[current].status = "source_written"
  BY <1>1 DEF InHand
<1>3. /\ job'[current] = "done"
      /\ \A i \in DOMAIN rows : i # current => job'[i] = job[i]
  BY <1>1, <1>2 DEF TypeOK
<1>4. \A i \in DOMAIN rows : job'[i] = "done" => rows[i].status = "source_written"
  BY <1>2, <1>3 DEF DoneIsWritten
<1>5. \A i \in DOMAIN rows : Settled(i) => Settled(i)'
  BY <1>3 DEF Settled
<1>6. InHand'
  BY <1>1, Released
<1> QED
  BY <1>1, <1>4, <1>5, <1>6, TableStep

LEMMA InterruptStep ==
  ASSUME ThreadsInv, TypeOK', Interrupt
  PROVE  ThreadsInv'
<1>1. UNCHANGED <<rows, job, items>> /\ lost' = lost + 1 /\ Release
  BY DEF Interrupt, tableVars
<1>2. \A i \in DOMAIN rows : job'[i] = "done" => rows[i].status = "source_written"
  BY <1>1 DEF ThreadsInv, DoneIsWritten
<1>3. InHand'
  BY <1>1, Released
<1> QED
  BY <1>1, <1>2, <1>3, TableStep

\* The message in hand gets its copy when the attempt makes it settled.
LEMMA WriteStep ==
  ASSUME ThreadsInv, TypeOK', WriteItem
  PROVE  ThreadsInv'
<1> USE DEF ThreadsInv
<1>1. /\ UNCHANGED <<rows, job, current, thread, lost>> /\ pc = "write" /\ pc' = "mark"
      /\ items' = items \cup {[thread |-> thread, msg |-> current]}
  BY DEF WriteItem, tableVars, envVars
<1>2. /\ current \in DOMAIN rows /\ job[current] = "processing"
      /\ thread \in Name /\ Fits(thread, current)
  BY <1>1 DEF InHand
<1>3. /\ ThreadsOf(current)' = ThreadsOf(current) \cup {thread}
      /\ \A i \in DOMAIN rows : i # current => ThreadsOf(i)' = ThreadsOf(i)
      /\ Cardinality(ThreadsOf(current)') <= Cardinality(ThreadsOf(current)) + 1
  BY OneMore
<1>4. FiledWell'
  <2>1. \A x \in items' : Fits(x.thread, x.msg)
    BY <1>1, <1>2 DEF FiledWell
  <2> QED
    BY <1>1, <2>1 DEF FiledWell, Fits, NewBetween
<1>5. InHand'
  BY <1>1, <1>2, <1>3 DEF InHand
<1>6. DoneIsWritten'
  BY <1>1 DEF DoneIsWritten
<1>7. /\ ~ Settled(current) /\ Settled(current)'
      /\ \A i \in DOMAIN rows : i # current => (Settled(i)' <=> Settled(i))
  BY <1>1, <1>2 DEF Settled
<1>8. CopiesPaid'
  <2>1. ASSUME NEW i \in DOMAIN rows, i # current
        PROVE  Cardinality(ThreadsOf(i)') <= IF Settled(i)' THEN 1 + lost ELSE lost
    BY <1>3, <1>7, <2>1 DEF CopiesPaid
  <2>2. Cardinality(ThreadsOf(current)') <= 1 + lost
    <3>1. /\ Cardinality(ThreadsOf(current)) <= lost
          /\ Cardinality(ThreadsOf(current)) \in Nat /\ lost \in Nat
      BY <1>2, <1>7, CopiesCount, SomeCopy DEF CopiesPaid
    <3>2. Cardinality(ThreadsOf(current)') \in Nat
      BY CopiesCount, <1>1, <1>3, FS_AddElement
    <3> QED
      BY <1>3, <3>1, <3>2
  <2>3. ASSUME NEW i \in DOMAIN rows
        PROVE  Cardinality(ThreadsOf(i)') <= IF Settled(i)' THEN 1 + lost ELSE lost
    <3>1. CASE i = current
      <4>1. ThreadsOf(i)' = ThreadsOf(current)' /\ Settled(i)'
        BY <1>1, <1>7, <3>1 DEF ThreadsOf, Settled
      <4> QED
        BY <2>2, <4>1
    <3> QED
      BY <2>1, <3>1
  <2> QED
    BY <1>1, <2>3 DEF CopiesPaid
<1>9. WrittenMeansInSource'
  <2>1. ASSUME NEW i \in DOMAIN rows
        PROVE  /\ rows[i].status = "source_written" => ThreadsOf(i)' # {}
               /\ ThreadsOf(i)' # {} => \/ rows[i].status = "source_written"
                                        \/ current' = i /\ pc' = "mark"
                                        \/ lost' > 0
    <3>1. CASE i = current
      <4>1. ThreadsOf(i)' = ThreadsOf(current)'
        BY <1>1, <3>1 DEF ThreadsOf
      <4> QED
        BY <1>1, <1>3, <3>1, <4>1
    <3>2. CASE i # current
      BY <1>1, <1>3, <3>2 DEF WrittenMeansInSource
    <3> QED
      BY <3>1, <3>2
  <2> QED
    BY <1>1, <2>1 DEF WrittenMeansInSource
<1> QED
  BY <1>4, <1>5, <1>6, <1>8, <1>9

\* The row of the message in hand gets its final status.
LEMMA StatusStep ==
  ASSUME ThreadsInv, TypeOK', current \in DOMAIN rows, NEW st \in {"source_written", "failed"},
         rows' = [rows EXCEPT ![current].status = st], items' = items, lost' = lost,
         InHand', job[current] = "processing", job'[current] # "done",
         \A i \in DOMAIN rows : i # current => job'[i] = job[i],
         \A i \in DOMAIN rows : Settled(i)' <=> Settled(i),
         st = "source_written" => ThreadsOf(current) # {},
         st = "failed" => ~ Settled(current)
  PROVE  ThreadsInv'
<1> USE DEF ThreadsInv
<1>1. /\ rows' \in Seq(Row) /\ DOMAIN rows' = DOMAIN rows /\ RowsStay
      /\ rows'[current].status = st
      /\ \A k \in DOMAIN rows : k # current => rows'[k] = rows[k]
  BY SetStatus
<1>2. FiledWell' /\ \A i : ThreadsOf(i)' = ThreadsOf(i)
  BY <1>1, FilingStays
<1>3. DoneIsWritten'
  BY <1>1 DEF DoneIsWritten
<1>4. CopiesPaid'
  <2>1. \A i \in DOMAIN rows :
          Cardinality(ThreadsOf(i)') <= IF Settled(i)' THEN 1 + lost ELSE lost
    BY <1>2 DEF CopiesPaid
  <2> QED
    BY <1>1, <2>1 DEF CopiesPaid
<1>5. WrittenMeansInSource'
  <2>1. ASSUME NEW i \in DOMAIN rows
        PROVE  /\ rows'[i].status = "source_written" => ThreadsOf(i) # {}
               /\ ThreadsOf(i) # {} => rows'[i].status = "source_written" \/ lost > 0
                                        \/ (current' = i /\ pc' = "mark")
    <3>1. CASE i = current /\ st = "source_written"
      BY <1>1, <3>1
    <3>2. CASE i = current /\ st = "failed"
      <4>1. ThreadsOf(i) # {} => lost > 0
        BY <3>2, UnsettledCopy
      <4> QED
        BY <1>1, <3>2, <4>1
    <3>3. CASE i # current
      BY <1>1, <3>3 DEF WrittenMeansInSource
    <3> QED
      BY <3>1, <3>2, <3>3
  <2> QED
    BY <1>1, <1>2, <2>1 DEF WrittenMeansInSource
<1> QED
  BY <1>2, <1>3, <1>4, <1>5

LEMMA WrittenStep ==
  ASSUME ThreadsInv, TypeOK', MarkWritten
  PROVE  ThreadsInv'
<1> USE DEF ThreadsInv
<1>1. /\ rows' = [rows EXCEPT ![current].status = "source_written"]
      /\ pc = "mark" /\ pc' = "done" /\ UNCHANGED <<job, items, current, thread, lost>>
  BY DEF MarkWritten, envVars
<1>2. current \in DOMAIN rows /\ job[current] = "processing" /\ ThreadsOf(current) # {}
  BY <1>1 DEF InHand
<1>3. DOMAIN rows' = DOMAIN rows /\ rows'[current].status = "source_written"
  BY <1>2, <1>1, SetStatus
<1>4. ThreadsOf(current)' = ThreadsOf(current)
  BY <1>1 DEF ThreadsOf
<1>5. InHand'
  BY <1>1, <1>2, <1>3, <1>4 DEF InHand
<1>6. \A i \in DOMAIN rows : Settled(i)' <=> Settled(i)
  BY <1>1 DEF Settled
<1> QED
  BY <1>1, <1>2, <1>5, <1>6, StatusStep

LEMMA FailStep ==
  ASSUME ThreadsInv, TypeOK', Fail
  PROVE  ThreadsInv'
<1> USE DEF ThreadsInv
<1>1. pc \in {"choose", "write"} /\ Release /\ UNCHANGED <<items, lost>>
  BY DEF Fail
<1>2. current \in DOMAIN rows /\ job[current] = "processing"
  BY <1>1 DEF InHand
<1>3. \/ rows' = rows /\ job' = [job EXCEPT ![current] = "pending"]
      \/ /\ rows' = [rows EXCEPT ![current].status = "failed"]
         /\ job' = [job EXCEPT ![current] = "failed"]
  BY DEF Fail
<1>4. /\ job'[current] \in {"pending", "failed"}
      /\ \A i \in DOMAIN rows : i # current => job'[i] = job[i]
  BY <1>2, <1>3 DEF TypeOK
<1>5. InHand'
  BY <1>1, Released
<1>6. ~ Settled(current) /\ \A i \in DOMAIN rows : Settled(i)' <=> Settled(i)
  BY <1>1, <1>2, <1>4 DEF Settled, Release
<1>7. CASE rows' = rows
  <2>1. \A i \in DOMAIN rows : job'[i] = "done" => rows[i].status = "source_written"
    BY <1>4 DEF DoneIsWritten
  <2> QED
    BY <1>1, <1>5, <1>6, <1>7, <2>1, TableStep
<1>8. CASE rows' = [rows EXCEPT ![current].status = "failed"]
  BY <1>1, <1>2, <1>4, <1>5, <1>6, <1>8, StatusStep
<1> QED
  BY <1>3, <1>7, <1>8

LEMMA ThreadsStep ==
  ASSUME ThreadsInv, [Next]_vars
  PROVE  ThreadsInv'
<1>1. TypeOK'
  BY TypeStep
<1>2. \/ \E s \in Sender, kind \in {"item", "new"}, hasId \in MsgIds, at \in 0 .. MaxClock :
           Arrive(s, kind, hasId, at)
      \/ Tick \/ UNCHANGED vars
      \/ \E i \in DOMAIN rows : Claim(i) \/ Requeue(i)
      \/ ChooseThread \/ WriteItem \/ MarkWritten \/ MarkDone \/ Fail \/ Interrupt
  BY Steps DEF ThreadsInv
<1> QED
  BY <1>1, <1>2, ArriveStep, TickStep, QueueStep, ChooseStep, WriteStep, WrittenStep,
     DoneStep, FailStep, InterruptStep

LEMMA ThreadsStart == Init => ThreadsInv
<1> SUFFICES ASSUME Init PROVE ThreadsInv
  OBVIOUS
<1>1. rows \in Seq(Row) /\ DOMAIN rows = {} /\ Len(rows) = 0
  BY DEF Init
<1>2. TypeOK
  BY <1>1, ThreadBounds DEF Init, TypeOK
<1> QED
  BY <1>1, <1>2 DEF Init, ThreadsInv, FiledWell, InHand, DoneIsWritten, CopiesPaid,
                    WrittenMeansInSource

-----------------------------------------------------------------------------
(* Theorems. *)

\* What was filed fits its name, the message in hand is where the worker says,
\* and copies are paid for by interruptions.
THEOREM ThreadsInvariant == Spec => []ThreadsInv
BY ThreadsStart, ThreadsStep, PTL DEF Spec

\* Rows, jobs, items and the worker's variables keep their types.
THEOREM ThreadTypes == Spec => []TypeOK
<1>1. ThreadsInv => TypeOK
  BY DEF ThreadsInv
<1> QED
  BY <1>1, ThreadsInvariant, PTL

\* Messages of one thread block have one sender, and no /new of that sender
\* lies between any two of them: the block's name lies before both, and a /new
\* between them would lie between the name and the later one.
THEOREM ThreadsApart == Spec => []ThreadsKeepApart
<1>1. ThreadsInv => ThreadsKeepApart
  <2> SUFFICES ASSUME ThreadsInv, NEW i \in DOMAIN rows, NEW j \in DOMAIN rows, Shared(i, j)
               PROVE  rows[i].from = rows[j].from /\ ~ NewBetween(i, j)
    BY DEF ThreadsKeepApart
  <2>1. PICK x \in items, y \in items : x.msg = i /\ y.msg = j /\ x.thread = y.thread
    BY DEF Shared, ThreadsOf
  <2>2. Fits(x.thread, i) /\ Fits(x.thread, j)
    BY <2>1 DEF ThreadsInv, FiledWell
  <2>3. /\ DOMAIN rows = 1 .. Len(rows) /\ Len(rows) \in Nat
        /\ x.thread[2] \in 1 .. i /\ x.thread[2] <= i
    BY <2>2 DEF Fits, ThreadsInv, TypeOK
  <2>4. NewBetween(i, j) => NewBetween(x.thread[2], j)
    BY <2>3 DEF NewBetween
  <2> QED
    BY <2>2, <2>4 DEF Fits
<1> QED
  BY <1>1, ThreadsInvariant, PTL

\* However threads chain, no item is further than the window behind the
\* message its block is named by.
THEOREM NamersAreNear == Spec => []NamerIsNear
<1>1. ThreadsInv => NamerIsNear
  <2> SUFFICES ASSUME ThreadsInv, NEW x \in items
               PROVE  x.thread[2] <= x.msg /\ rows[x.msg].at <= rows[x.thread[2]].at + Window
    BY DEF NamerIsNear
  <2>1. Fits(x.thread, x.msg) /\ x.msg \in DOMAIN rows /\ DOMAIN rows \subseteq Nat
    BY DEF ThreadsInv, FiledWell, TypeOK
  <2> QED
    BY <2>1 DEF Fits
<1> QED
  BY <1>1, ThreadsInvariant, PTL

\* A message is in the source at most once more than attempts were interrupted.
THEOREM CopiesAreBounded == Spec => []OneThreadPerItem
<1>1. ThreadsInv => OneThreadPerItem
  <2> SUFFICES ASSUME ThreadsInv, NEW i \in DOMAIN rows
               PROVE  Cardinality(ThreadsOf(i)) <= 1 + lost
    BY DEF OneThreadPerItem
  <2>1. Cardinality(ThreadsOf(i)) \in Nat /\ lost \in Nat
    BY CopiesCount, SomeCopy DEF ThreadsInv
  <2>2. Cardinality(ThreadsOf(i)) <= IF Settled(i) THEN 1 + lost ELSE lost
    BY DEF ThreadsInv, CopiesPaid
  <2> HIDE DEF ThreadsOf
  <2> QED
    BY <2>1, <2>2
<1> QED
  BY <1>1, ThreadsInvariant, PTL

\* source_written is the truth about the file, and every item no row vouches
\* for is from an attempt that is running or was interrupted.
THEOREM WrittenIsInSource == Spec => []WrittenMeansInSource
<1>1. ThreadsInv => WrittenMeansInSource
  BY DEF ThreadsInv
<1> QED
  BY <1>1, ThreadsInvariant, PTL

=============================================================================
