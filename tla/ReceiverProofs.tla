--------------------------- MODULE ReceiverProofs ---------------------------
(***************************************************************************)
(* Proofs about Receiver: types and one row per message for all inputs;    *)
(* for inputs where every supported message carries its MsgId, that jobs   *)
(* go to members only and that no accepted message is without its job.     *)
(***************************************************************************)
EXTENDS Receiver, FiniteSetTheorems, TLAPS

Typed == /\ TypeOK
         /\ IsFiniteSet(whitelist)
         /\ \A h \in Handler : pc[h] # "idle" => msg[h] \in Message

\* Jobs and members can be counted, as last_insert_rowid does.
LEMMA Countable ==
  ASSUME Typed
  PROVE  Cardinality(jobs) \in Nat /\ Cardinality(whitelist) \in Nat
<1>1. IsFiniteSet(1 .. Len(rows))
  BY FS_Interval DEF Typed, TypeOK
<1>2. jobs \subseteq 1 .. Len(rows)
  BY DEF Typed, TypeOK
<1> QED
  BY <1>1, <1>2, FS_Subset, FS_CardinalityType DEF Typed

\* What the insert does to the table: nothing, or one new last row.
LEMMA InsertRow ==
  ASSUME TypeOK, NEW h \in Handler, NEW c \in Conn, InsertMessage(h, c), msg[h] \in Message
  PROVE  \/ /\ HasMsgId[msg[h]] /\ RowsOf(msg[h]) # {}
            /\ rows' = rows /\ lastRowid' = lastRowid
         \/ /\ ~ (HasMsgId[msg[h]] /\ RowsOf(msg[h]) # {})
            /\ rows' \in Seq(Row) /\ Len(rows') = Len(rows) + 1
            /\ DOMAIN rows' = DOMAIN rows \cup {Len(rows) + 1}
            /\ \A i \in DOMAIN rows : rows'[i] = rows[i]
            /\ rows'[Len(rows) + 1] = [msg |-> msg[h], status |-> StatusFor(msg[h], authorized[h])]
            /\ lastRowid' = [lastRowid EXCEPT ![c] = Len(rows) + 1]
<1> DEFINE r == [msg |-> msg[h], status |-> StatusFor(msg[h], authorized[h])]
<1>1. r \in Row
  BY DEF Row, StatusFor
<1>2. rows \in Seq(Row) /\ Len(rows) \in Nat
  BY DEF TypeOK
<1>3. /\ Append(rows, r) \in Seq(Row)
      /\ Len(Append(rows, r)) = Len(rows) + 1
      /\ \A i \in 1 .. Len(rows) : Append(rows, r)[i] = rows[i]
      /\ Append(rows, r)[Len(rows) + 1] = r
  BY <1>1, <1>2
<1>4. DOMAIN rows = 1 .. Len(rows) /\ DOMAIN Append(rows, r) = 1 .. (Len(rows) + 1)
  BY <1>2, <1>3
<1>5. 1 .. (Len(rows) + 1) = (1 .. Len(rows)) \cup {Len(rows) + 1}
  BY <1>2
<1> QED
  BY <1>3, <1>4, <1>5 DEF InsertMessage, Duplicate

\* Every step keeps the types.
LEMMA TypeStep == Typed /\ [Next]_vars => Typed'
<1> SUFFICES ASSUME Typed, [Next]_vars PROVE Typed'
  OBVIOUS
<1> USE InputAssumption, ReceiverBounds
    DEF Typed, TypeOK, tableVars, handlerVars, wechatVars, HandlerStep, Goto, At, Return
<1>0. Cardinality(jobs) \in Nat /\ Cardinality(whitelist) \in Nat
  BY Countable
<1>a. Len(rows) \in Nat /\ DOMAIN rows = 1 .. Len(rows) /\ DOMAIN rows \subseteq Nat
  <2>1. rows \in Seq(Row)
    OBVIOUS
  <2> QED
    BY ONLY <2>1
<1>b. /\ \A c \in Conn : \A n \in Nat : [lastRowid EXCEPT ![c] = n] \in [Conn -> Nat]
      /\ \A n \in Nat : n + 1 \in Nat
  <2>1. lastRowid \in [Conn -> Nat]
    OBVIOUS
  <2> QED
    BY ONLY <2>1
<1>1. ASSUME NEW h \in Handler, NEW m \in Message, Deliver(h, m) PROVE Typed'
  BY <1>1 DEF Deliver
<1>2. ASSUME NEW h \in Handler, CheckWhitelist(h) PROVE Typed'
  BY <1>2 DEF CheckWhitelist
<1>3. ASSUME NEW h \in Handler, Reply(h) PROVE Typed'
  BY <1>3 DEF Reply
<1>4. ASSUME NEW h \in Handler, NEW c \in Conn, InsertMessage(h, c) PROVE Typed'
  <2>1. msg[h] \in Message
    BY <1>4 DEF InsertMessage
  <2>2. rows' \in Seq(Row) /\ DOMAIN rows \subseteq DOMAIN rows'
    BY <1>4, <2>1, InsertRow
  <2>3. lastRowid' \in [Conn -> Nat]
    <3>1. \/ lastRowid' = lastRowid
          \/ lastRowid' = [lastRowid EXCEPT ![c] = Len(rows) + 1]
      BY <1>4, <2>1, InsertRow
    <3>2. Len(rows) + 1 \in Nat
      BY <1>a
    <3> QED
      BY <1>b, <3>1, <3>2
  <2> QED
    BY <1>4, <2>2, <2>3 DEF InsertMessage
<1>5. ASSUME NEW h \in Handler, NEW c \in Conn, FindId(h, c) PROVE Typed'
  <2>1. rowId' \in [Handler -> Nat]
    BY <1>5, <1>a DEF FindId, RowsOf
  <2>2. NextStep(msg[h], authorized[h]) \in HandlerStep
    BY DEF NextStep
  <2> QED
    BY <1>5, <2>1, <2>2 DEF FindId
<1>6. ASSUME NEW h \in Handler, NEW c \in Conn, JoinWhitelist(h, c) PROVE Typed'
  <2>1. msg[h] \in Message
    BY <1>6 DEF JoinWhitelist
  <2>2. IsFiniteSet(whitelist') /\ whitelist' \subseteq Sender
    BY <1>6, <2>1, FS_AddElement DEF JoinWhitelist
  <2> QED
    BY <1>0, <1>6, <2>2 DEF JoinWhitelist
<1>7. ASSUME NEW h \in Handler, NEW c \in Conn, CreateJobOnce(h, c) PROVE Typed'
  <2>1. msg[h] \in Message
    BY <1>7 DEF CreateJobOnce
  <2>2. jobs' \subseteq DOMAIN rows
    BY <1>7, <2>1 DEF CreateJobOnce
  <2>3. lastRowid' \in [Conn -> Nat]
    <3>1. \/ lastRowid' = lastRowid
          \/ lastRowid' = [lastRowid EXCEPT ![c] = Cardinality(jobs) + 1]
      BY <1>7 DEF CreateJobOnce
    <3> QED
      BY <1>0, <1>b, <3>1
  <2>4. CASE rowId[h] \in DOMAIN rows
    BY <1>7, <2>2, <2>3, <2>4 DEF CreateJobOnce
  <2>5. CASE rowId[h] \notin DOMAIN rows
    <3>1. Return(h) /\ UNCHANGED <<tableVars, wechatVars>>
      BY ONLY <1>7, <2>5 DEF CreateJobOnce, tableVars
    <3> QED
      BY <3>1
  <2> QED
    BY <2>4, <2>5
<1>8. ASSUME NEW h \in Handler, HandlerLost(h) PROVE Typed'
  BY <1>8 DEF HandlerLost
<1>9. ASSUME NEW h \in Handler, AnswerQueued(h) PROVE Typed'
  BY <1>9 DEF AnswerQueued
<1>10. CASE UNCHANGED vars
  BY <1>10 DEF vars
<1> QED
  BY <1>1, <1>2, <1>3, <1>4, <1>5, <1>6, <1>7, <1>8, <1>9, <1>10 DEF Next, Handle

\* Every variable keeps its type, for any messages, handlers and connections.
THEOREM ReceiverTypes == Spec => []TypeOK
<1>1. Init => Typed
  BY InputAssumption, ReceiverBounds DEF Init, Typed, TypeOK, HandlerStep
<1>2. Typed => TypeOK
  BY DEF Typed
<1> QED
  BY <1>1, <1>2, TypeStep, PTL DEF Spec

-----------------------------------------------------------------------------
(* One row per message. *)

\* Only an insert touches the table, and it refuses a MsgId it knows.
LEMMA RowStep == Typed /\ OneRowPerMessage /\ [Next]_vars => OneRowPerMessage'
<1> SUFFICES ASSUME Typed, OneRowPerMessage, [Next]_vars PROVE OneRowPerMessage'
  OBVIOUS
<1>1. CASE UNCHANGED rows
  BY <1>1 DEF OneRowPerMessage
<1>2. ASSUME NEW h \in Handler, NEW c \in Conn, InsertMessage(h, c) PROVE OneRowPerMessage'
  <2>1. msg[h] \in Message /\ Len(rows) \in Nat
    BY <1>2 DEF InsertMessage, At, Typed, TypeOK
  <2>2. CASE rows' = rows
    BY <2>2 DEF OneRowPerMessage
  <2>3. CASE rows' # rows
    <3>1. /\ ~ (HasMsgId[msg[h]] /\ RowsOf(msg[h]) # {})
          /\ DOMAIN rows' = DOMAIN rows \cup {Len(rows) + 1}
          /\ \A i \in DOMAIN rows : rows'[i] = rows[i]
          /\ rows'[Len(rows) + 1] = [msg |-> msg[h], status |-> StatusFor(msg[h], authorized[h])]
      BY <1>2, <2>1, <2>3, InsertRow DEF Typed
    <3>a. rows'[Len(rows) + 1].msg = msg[h]
      BY <3>1
    <3>2. HasMsgId[msg[h]] => \A i \in DOMAIN rows : rows[i].msg # msg[h]
      BY <3>1 DEF RowsOf
    <3> SUFFICES ASSUME NEW i \in DOMAIN rows', NEW j \in DOMAIN rows',
                        rows'[i].msg = rows'[j].msg, HasMsgId[rows'[i].msg]
                 PROVE  i = j
      BY DEF OneRowPerMessage
    <3>3. CASE i \in DOMAIN rows /\ j \in DOMAIN rows
      BY <3>1, <3>3 DEF OneRowPerMessage
    <3>4. CASE ~ (i \in DOMAIN rows /\ j \in DOMAIN rows)
      BY <3>1, <3>a, <3>2, <3>4
    <3> QED
      BY <3>3, <3>4
  <2> QED
    BY <2>2, <2>3
<1> QED
  BY <1>1, <1>2 DEF Next, Handle, vars, tableVars, Deliver, CheckWhitelist, Reply, FindId,
     JoinWhitelist, CreateJobOnce, AnswerQueued, HandlerLost

\* However often and however much at the same time a message with a MsgId is
\* delivered, it has one row.
THEOREM OneRow == Spec => []OneRowPerMessage
<1>1. Init => Typed /\ OneRowPerMessage
  BY InputAssumption, ReceiverBounds DEF Init, Typed, TypeOK, HandlerStep, OneRowPerMessage
<1> QED
  BY <1>1, TypeStep, RowStep, PTL DEF Spec

-----------------------------------------------------------------------------
(* The inductive invariant, for messages of which every item has a MsgId. *)

\* What the steps do to the tables: rows stay as they are, members and jobs
\* stay, and only a join, an insert or a job creation adds to them.
LEMMA Monotone ==
  ASSUME Typed, [Next]_vars
  PROVE  /\ DOMAIN rows \subseteq DOMAIN rows'
         /\ \A i \in DOMAIN rows : rows'[i] = rows[i]
         /\ whitelist \subseteq whitelist'
         /\ jobs \subseteq jobs'
         /\ lost \in Nat /\ lost' >= lost
<1> USE DEF vars, tableVars, handlerVars, wechatVars
<1>0. lost \in Nat
  BY ReceiverBounds DEF Typed, TypeOK
<1>1. ASSUME NEW h \in Handler, NEW c \in Conn, InsertMessage(h, c)
      PROVE  /\ DOMAIN rows \subseteq DOMAIN rows' /\ \A i \in DOMAIN rows : rows'[i] = rows[i]
             /\ UNCHANGED <<jobs, whitelist, lost>>
  <2>1. msg[h] \in Message
    BY <1>1 DEF InsertMessage, At, Typed
  <2> QED
    BY <1>1, <2>1, InsertRow DEF InsertMessage, Typed
<1>2. ASSUME NEW h \in Handler, NEW c \in Conn, JoinWhitelist(h, c) \/ CreateJobOnce(h, c)
      PROVE  UNCHANGED <<rows, lost>> /\ jobs \subseteq jobs' /\ whitelist \subseteq whitelist'
  BY <1>2 DEF JoinWhitelist, CreateJobOnce
<1>3. ASSUME NEW h \in Handler, HandlerLost(h)
      PROVE  UNCHANGED tableVars /\ lost' = lost + 1
  BY <1>3 DEF HandlerLost
<1> QED
  BY <1>0, <1>1, <1>2, <1>3 DEF Next, Handle, Deliver, CheckWhitelist, Reply, FindId, AnswerQueued

\* The handlers and rows of a message are looked at one action at a time.
LEMMA ReceiverStep ==
  ASSUME ItemsCarryMsgId, ReceiverInv, Typed, [Next]_vars
  PROVE  ReceiverInv'
<1>a. /\ TypeOK /\ LocalsHold /\ RowsOwed /\ OneRowPerMessage /\ JobsOnlyForMembers
      /\ AcceptedHaveJobs /\ RowsMatchWhitelist
  BY DEF ReceiverInv
<1>b. Typed' /\ OneRowPerMessage'
  BY <1>a, TypeStep, RowStep
<1>c. JobsOnlyForMembers' \/ jobs' # jobs
  BY <1>a, Monotone DEF JobsOnlyForMembers, TypeOK
<1>d. AcceptedHaveJobs' \/ accepted' # accepted
  BY <1>a, Monotone DEF AcceptedHaveJobs, TypeOK
<1> DEFINE Rest == LocalsHold /\ RowsOwed /\ RowsMatchWhitelist
<1> USE <1>a DEF tableVars, handlerVars, wechatVars, Goto, At, Return, InFlight
<1>1. ASSUME NEW h \in Handler, NEW m \in Message, Deliver(h, m) PROVE Rest'
  <2>1. LocalsHold'
    BY <1>1, Monotone DEF Deliver, TypeOK, LocalsHold, RowsOf
  <2>2. RowsOwed'
    BY <1>1, Monotone DEF Deliver, TypeOK, LocalsHold, RowsOwed, RowOwed, RowsOf
  <2>3. RowsMatchWhitelist'
    BY <1>1, Monotone DEF Deliver, TypeOK, LocalsHold, RowsMatchWhitelist, RowMatches, RowsOwed, RowOwed, RowsOf
  <2> QED
    BY <2>1, <2>2, <2>3
<1>2. ASSUME NEW h \in Handler, CheckWhitelist(h) PROVE Rest'
  <2>1. LocalsHold'
    BY <1>2, Monotone DEF CheckWhitelist, TypeOK, LocalsHold, RowsOf
  <2>2. RowsOwed'
    BY <1>2, Monotone DEF CheckWhitelist, TypeOK, LocalsHold, RowsOwed, RowOwed, RowsOf
  <2>3. RowsMatchWhitelist'
    BY <1>2, Monotone DEF CheckWhitelist, TypeOK, LocalsHold, RowsMatchWhitelist, RowMatches, RowsOwed, RowOwed, RowsOf
  <2> QED
    BY <2>1, <2>2, <2>3
<1>3. ASSUME NEW h \in Handler, Reply(h) PROVE Rest'
  <2>1. LocalsHold'
    BY <1>3, Monotone DEF Reply, TypeOK, LocalsHold, RowsOf
  <2>2. RowsOwed'
    BY <1>3, Monotone DEF Reply, TypeOK, LocalsHold, RowsOwed, RowOwed, RowsOf
  <2>3. RowsMatchWhitelist'
    BY <1>3, Monotone DEF Reply, TypeOK, LocalsHold, RowsMatchWhitelist, RowMatches, RowsOwed, RowOwed, RowsOf
  <2> QED
    BY <2>1, <2>2, <2>3
<1>4. ASSUME NEW h \in Handler, HandlerLost(h) PROVE Rest'
  <2>1. LocalsHold'
    BY <1>4, Monotone DEF HandlerLost, TypeOK, LocalsHold, RowsOf
  <2>2. RowsOwed'
    BY <1>4, Monotone DEF HandlerLost, TypeOK, LocalsHold, RowsOwed, RowOwed, RowsOf
  <2>3. RowsMatchWhitelist'
    BY <1>4, Monotone DEF HandlerLost, TypeOK, LocalsHold, RowsMatchWhitelist, RowMatches, RowsOwed, RowOwed, RowsOf
  <2> QED
    BY <2>1, <2>2, <2>3
<1>5. ASSUME NEW h \in Handler, NEW c \in Conn, InsertMessage(h, c) PROVE Rest'
  <2> DEFINE m == msg[h]  r == [msg |-> m, status |-> StatusFor(m, authorized[h])]
  <2>0. m \in Message /\ Len(rows) \in Nat
    BY <1>5 DEF InsertMessage, LocalsHold, TypeOK
  <2>1. LocalsHold'
    BY <1>5, Monotone DEF InsertMessage, TypeOK, LocalsHold, RowsOf
  <2>2. /\ UNCHANGED <<jobs, whitelist, msg, authorized, lost>>
        /\ pc' = [pc EXCEPT ![h] = "find"] /\ pc[h] = "insert"
    BY <1>5 DEF InsertMessage
  <2>3. \A i \in DOMAIN rows' : i \in DOMAIN rows \/ (rows'[i].msg = m /\ rows'[i].status = r.status)
    <3>1. \/ rows' = rows
          \/ DOMAIN rows' = DOMAIN rows \cup {Len(rows) + 1} /\ rows'[Len(rows) + 1] = r
      BY <1>5, <2>0, InsertRow
    <3> QED
      BY <3>1
  <2>4. /\ r.status = "queued" => Kind[m] = "item" /\ authorized[h]
        /\ r.status = "command" => authorized[h]
        /\ r.status = "whitelisted" => Kind[m] = "join"
    BY DEF StatusFor
  <2>5. ASSUME NEW g \in Handler PROVE pc[g] \in {"find", "createJob", "join"} => pc'[g] = pc[g]
    BY <2>2 DEF TypeOK
  <2>6. pc'[h] = "find" /\ msg'[h] = m /\ authorized'[h] = authorized[h]
    BY <2>2 DEF TypeOK
  <2>7. RowsOwed'
    <3> SUFFICES ASSUME NEW i \in DOMAIN rows' PROVE RowOwed(i)'
      BY DEF RowsOwed
    <3>1. CASE i \in DOMAIN rows
      <4>1. RowOwed(i) /\ rows'[i] = rows[i]
        BY <3>1, Monotone DEF RowsOwed
      <4> QED
        BY <4>1, <2>2, <2>5 DEF RowOwed
    <3>2. CASE i \notin DOMAIN rows
      BY <3>2, <2>3, <2>4, <2>6 DEF RowOwed
    <3> QED
      BY <3>1, <3>2
  <2>8. RowsMatchWhitelist'
    <3>1. authorized[h] => From[m] \in whitelist
      BY DEF LocalsHold
    <3> SUFFICES ASSUME NEW i \in DOMAIN rows' PROVE RowMatches(i)'
      BY DEF RowsMatchWhitelist
    <3>2. CASE i \in DOMAIN rows
      <4>1. RowMatches(i) /\ rows'[i] = rows[i]
        BY <3>2, Monotone DEF RowsMatchWhitelist
      <4> QED
        BY <4>1, <2>2, <2>5 DEF RowMatches
    <3>3. CASE i \notin DOMAIN rows
      BY <3>1, <3>3, <2>2, <2>3, <2>4, <2>6 DEF RowMatches
    <3> QED
      BY <3>2, <3>3
  <2> QED
    BY <2>1, <2>7, <2>8
<1>6. ASSUME NEW h \in Handler, NEW c \in Conn, FindId(h, c) PROVE Rest'
  <2> DEFINE step == NextStep(msg[h], authorized[h])
  <2>0. /\ msg[h] \in Message /\ pc[h] = "find" /\ pc' = [pc EXCEPT ![h] = step]
        /\ UNCHANGED <<rows, jobs, whitelist, lost, msg, authorized>>
    BY <1>6 DEF FindId, LocalsHold
  <2>1. /\ step \in {"join", "reply", "createJob"}
        /\ step = "join" <=> Kind[msg[h]] = "join"
        /\ step = "createJob" <=> Kind[msg[h]] = "item" /\ authorized[h]
    BY DEF NextStep
  <2>2. /\ \A g \in Handler : g # h => rowId'[g] = rowId[g] /\ pc'[g] = pc[g]
        /\ pc'[h] = step
        /\ step = "createJob" => rowId'[h] \in RowsOf(msg[h])
    BY <1>6, <2>0, <2>1 DEF FindId, TypeOK, ItemsCarryMsgId
  <2>3. LocalsHold'
    BY <2>0, <2>1, <2>2 DEF LocalsHold, RowsOf
  <2>4. RowsOwed'
    BY <2>0, <2>1, <2>2 DEF RowsOwed, RowOwed
  <2>5. RowsMatchWhitelist'
    BY <2>0, <2>1, <2>2 DEF RowsMatchWhitelist, RowMatches, RowsOwed, RowOwed
  <2> QED
    BY <2>3, <2>4, <2>5
<1>7. ASSUME NEW h \in Handler, NEW c \in Conn, JoinWhitelist(h, c) PROVE Rest'
  <2>1. LocalsHold'
    BY <1>7, Monotone DEF JoinWhitelist, TypeOK, LocalsHold, RowsOf
  <2>2. RowsOwed'
    BY <1>7, Monotone DEF JoinWhitelist, TypeOK, LocalsHold, RowsOwed, RowOwed, RowsOf
  <2>3. RowsMatchWhitelist'
    <3>1. /\ whitelist' = whitelist \cup {From[msg[h]]} /\ UNCHANGED <<rows, lost>>
          /\ \A g \in Handler : g # h => pc'[g] = pc[g] /\ msg'[g] = msg[g]
      BY <1>7 DEF JoinWhitelist, TypeOK
    <3> QED
      BY <3>1 DEF RowsMatchWhitelist, RowMatches
  <2> QED
    BY <2>1, <2>2, <2>3
<1>8. ASSUME NEW h \in Handler, NEW c \in Conn, CreateJobOnce(h, c) PROVE Rest'
  <2>1. LocalsHold'
    BY <1>8, Monotone DEF CreateJobOnce, TypeOK, LocalsHold, RowsOf
  <2>2. RowsOwed'
    <3>1. /\ rowId[h] \in DOMAIN rows /\ rows[rowId[h]].msg = msg[h] /\ msg[h] \in Message
          /\ HasMsgId[msg[h]]
      BY <1>8 DEF CreateJobOnce, LocalsHold, RowsOf, ItemsCarryMsgId
    <3>2. /\ jobs' = jobs \cup {rowId[h]} /\ UNCHANGED <<rows, lost>>
          /\ \A g \in Handler : g # h => pc'[g] = pc[g] /\ msg'[g] = msg[g] /\ authorized'[g] = authorized[g]
      BY <1>8, <3>1 DEF CreateJobOnce, TypeOK
    <3>3. \A i \in DOMAIN rows : rows[i].msg = msg[h] => i = rowId[h]
      BY <3>1 DEF OneRowPerMessage
    <3> QED
      BY <3>2, <3>3 DEF RowsOwed, RowOwed
  <2>3. RowsMatchWhitelist'
    <3>1. /\ UNCHANGED <<rows, whitelist, lost>> /\ pc[h] = "createJob" /\ Kind[msg[h]] = "item"
          /\ \A g \in Handler : g # h => pc'[g] = pc[g] /\ msg'[g] = msg[g]
      BY <1>8 DEF CreateJobOnce, TypeOK, LocalsHold
    <3>2. \A i \in DOMAIN rows : rows[i].status = "whitelisted" => rows[i].msg # msg[h]
      BY <3>1 DEF RowsOwed, RowOwed
    <3> QED
      BY <3>1, <3>2 DEF RowsMatchWhitelist, RowMatches
  <2> QED
    BY <2>1, <2>2, <2>3
<1>9. ASSUME NEW h \in Handler, AnswerQueued(h) PROVE Rest' /\ AcceptedHaveJobs'
  <2>1. LocalsHold'
    BY <1>9, Monotone DEF AnswerQueued, TypeOK, LocalsHold, RowsOf
  <2>2. RowsOwed'
    BY <1>9, Monotone DEF AnswerQueued, TypeOK, LocalsHold, RowsOwed, RowOwed, RowsOf
  <2>3. RowsMatchWhitelist'
    BY <1>9, Monotone DEF AnswerQueued, TypeOK, LocalsHold, RowsMatchWhitelist, RowMatches, RowsOwed, RowOwed, RowsOf
  <2>4. AcceptedHaveJobs'
    BY <1>9 DEF AnswerQueued, LocalsHold, RowsOf, AcceptedHaveJobs
  <2> QED
    BY <2>1, <2>2, <2>3, <2>4
<1>10. ASSUME NEW h \in Handler, NEW c \in Conn, CreateJobOnce(h, c)
       PROVE  JobsOnlyForMembers'
  <2>1. /\ rowId[h] \in RowsOf(msg[h]) /\ Kind[msg[h]] = "item" /\ From[msg[h]] \in whitelist
    BY <1>10 DEF CreateJobOnce, LocalsHold
  <2>2. /\ jobs' = jobs \cup {rowId[h]}
        /\ UNCHANGED <<rows, whitelist>> /\ rows[rowId[h]].msg = msg[h]
    BY <1>10, <2>1 DEF CreateJobOnce, RowsOf
  <2> QED
    BY <2>1, <2>2 DEF JobsOnlyForMembers
<1>11. CASE UNCHANGED vars
  BY <1>11 DEF vars, ReceiverInv, LocalsHold, RowsOwed, RowOwed, RowsMatchWhitelist, RowMatches, RowsOf, OneRowPerMessage,
     JobsOnlyForMembers, AcceptedHaveJobs, TypeOK
<1>12. CASE Next
  <2>1. Rest'
    BY <1>12, <1>1, <1>2, <1>3, <1>4, <1>5, <1>6, <1>7, <1>8, <1>9 DEF Next, Handle
  <2>2. JobsOnlyForMembers' /\ AcceptedHaveJobs'
    BY <1>12, <1>c, <1>d, <1>9, <1>10 DEF Next, Handle, Deliver, CheckWhitelist, Reply, InsertMessage,
       FindId, JoinWhitelist, CreateJobOnce, AnswerQueued, HandlerLost
  <2> QED
    BY <2>1, <2>2, <1>b DEF ReceiverInv, Typed
<1> QED
  BY <1>11, <1>12

\* ReceiverInv holds throughout, for any interleaving of handlers, any
\* redeliveries and any number of lost handlers.
THEOREM ReceiverInvariant == ItemsCarryMsgId => (Spec => []ReceiverInv)
<1> SUFFICES ASSUME ItemsCarryMsgId PROVE Spec => []ReceiverInv
  OBVIOUS
<1>1. Init => Typed /\ ReceiverInv
  BY InputAssumption, ReceiverBounds
  DEF Init, Typed, ReceiverInv, TypeOK, HandlerStep, LocalsHold, RowsOwed, OneRowPerMessage,
      JobsOnlyForMembers, AcceptedHaveJobs, RowsMatchWhitelist
<1>2. Typed /\ ReceiverInv /\ [Next]_vars => (Typed /\ ReceiverInv)'
  BY TypeStep, ReceiverStep
<1> QED
  BY <1>1, <1>2, PTL DEF Spec

\* A job is there only for a supported message of a member, although the
\* whitelist is asked long before the job is created.
THEOREM JobsAreForMembers == ItemsCarryMsgId => (Spec => []JobsOnlyForMembers)
<1> SUFFICES ASSUME ItemsCarryMsgId PROVE Spec => []JobsOnlyForMembers
  OBVIOUS
<1>1. ReceiverInv => JobsOnlyForMembers
  BY DEF ReceiverInv
<1> QED
  BY <1>1, ReceiverInvariant, PTL

\* A member's item that was answered with 200, and is not sent again, has a job.
THEOREM AcceptedAreQueued == ItemsCarryMsgId => (Spec => []AcceptedHaveJobs)
<1> SUFFICES ASSUME ItemsCarryMsgId PROVE Spec => []AcceptedHaveJobs
  OBVIOUS
<1>1. ReceiverInv => AcceptedHaveJobs
  BY DEF ReceiverInv
<1> QED
  BY <1>1, ReceiverInvariant, PTL

\* A queued row without a job has a handler about to create it, or lost one.
THEOREM QueuedGetJobs == ItemsCarryMsgId => (Spec => []QueuedRowsGetJobs)
<1> SUFFICES ASSUME ItemsCarryMsgId PROVE Spec => []QueuedRowsGetJobs
  OBVIOUS
<1>1. ReceiverInv => QueuedRowsGetJobs
  BY DEF ReceiverInv, RowsOwed, RowOwed, QueuedRowsGetJobs, InFlight
<1> QED
  BY <1>1, ReceiverInvariant, PTL

\* What the stored statuses say of the whitelist is so.
THEOREM RowsAreTrue == ItemsCarryMsgId => (Spec => []RowsMatchWhitelist)
<1> SUFFICES ASSUME ItemsCarryMsgId PROVE Spec => []RowsMatchWhitelist
  OBVIOUS
<1>1. ReceiverInv => RowsMatchWhitelist
  BY DEF ReceiverInv
<1> QED
  BY <1>1, ReceiverInvariant, PTL
=============================================================================
