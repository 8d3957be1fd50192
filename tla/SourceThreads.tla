---------------------------- MODULE SourceThreads ----------------------------
(***************************************************************************)
(* How the worker sorts messages into the wechat-thread blocks of the AI   *)
(* source: the anchor query of store/mod.rs, the thread id worker/mod.rs   *)
(* makes of its answer, and the upsert of source/mod.rs, while messages    *)
(* arrive, attempts fail and are retried later, and the process dies.      *)
(* One day's file is modelled.                                             *)
(***************************************************************************)
EXTENDS Naturals, Sequences, FiniteSets

CONSTANTS
  Sender,       \* OpenIDs
  Window,       \* AI_SOURCE_THREAD_WINDOW_MINUTES
  RetryDelay,   \* backoff of a failed attempt
  Commands,     \* BOOLEAN: may /new be sent
  MsgIds,       \* subset of BOOLEAN: do messages carry a MsgId
  MaxMessages,  \* bound: messages sent
  MaxClock,     \* bound: the last instant modelled
  MaxSkew,      \* bound: age of received_at when the row is inserted
  MaxFailures,  \* bound: attempts that fail
  MaxLost       \* bound: attempts interrupted after the item was written

ASSUME ThreadBounds ==
  /\ {Window, RetryDelay, MaxMessages, MaxClock, MaxSkew, MaxFailures, MaxLost} \subseteq Nat
  /\ Commands \in BOOLEAN /\ MsgIds \subseteq BOOLEAN

VARIABLES
  rows,       \* messages table: [from, kind, at, hasId, status]
  job, due,   \* per row: job status and next_run_at
  items,      \* the AI source: pairs [thread, msg]
  pc, current, thread,  \* the worker: step, message, chosen thread id
  clock, failures, lost

tableVars  == <<rows, job, due>>
workerVars == <<pc, current, thread>>
envVars    == <<clock, failures, lost>>
vars       == <<tableVars, items, workerVars, envVars>>

Ids == 1 .. MaxMessages
\* What a thread block can be named by: a message key (MsgId, or message_<id>)
\* or, when the anchor has no MsgId, its bare row id.
Name == {"key", "id"} \X Ids
NoThread == <<"none", 0>>
Row == [from : Sender, kind : {"item", "new"}, at : 0 .. MaxClock, hasId : BOOLEAN,
        status : {"queued", "command", "source_written", "failed"}]

TypeOK ==
  /\ rows \in Seq(Row) /\ Len(rows) <= MaxMessages
  /\ job \in [DOMAIN rows -> {"none", "pending", "processing", "done", "failed"}]
  /\ due \in [DOMAIN rows -> Nat]
  /\ items \subseteq [thread : Name, msg : DOMAIN rows]
  /\ pc \in {"idle", "choose", "write", "mark", "done"}
  /\ current \in Ids \cup {0}
  /\ thread \in Name \cup {NoThread}
  /\ clock \in 0 .. MaxClock
  /\ failures \in 0 .. MaxFailures
  /\ lost \in 0 .. MaxLost

Init ==
  /\ rows = <<>> /\ job = <<>> /\ due = <<>>
  /\ items = {}
  /\ pc = "idle" /\ current = 0 /\ thread = NoThread
  /\ clock = 0 /\ failures = 0 /\ lost = 0

-----------------------------------------------------------------------------
(* Messages of whitelisted senders come in. *)

\* received_at is read before the row is inserted, so a row with a higher id
\* can carry the earlier time.
Arrive(s, kind, hasId, at) ==
  /\ Len(rows) < MaxMessages
  /\ kind = "new" => Commands
  /\ rows' = Append(rows, [from |-> s, kind |-> kind, at |-> at, hasId |-> hasId,
                           status |-> IF kind = "new" THEN "command" ELSE "queued"])
  /\ job' = Append(job, IF kind = "new" THEN "none" ELSE "pending")
  /\ due' = Append(due, at)
  /\ UNCHANGED <<items, workerVars, envVars>>

Tick ==
  /\ clock < MaxClock
  /\ clock' = clock + 1
  /\ UNCHANGED <<tableVars, items, workerVars, failures, lost>>

-----------------------------------------------------------------------------
(* The worker. *)

Due == {i \in DOMAIN rows : job[i] = "pending" /\ due[i] <= clock}

Claim(i) ==
  /\ pc = "idle"
  /\ i \in Due
  /\ \A k \in Due : due[i] < due[k] \/ (due[i] = due[k] /\ i <= k)
  /\ job' = [job EXCEPT ![i] = "processing"]
  /\ pc' = "choose"
  /\ current' = i
  /\ UNCHANGED <<rows, due, items, thread, envVars>>

\* A /new of the same sender between rows a and b.
NewBetween(a, b) ==
  \E k \in DOMAIN rows : /\ a < k /\ k < b
                         /\ rows[k].from = rows[b].from
                         /\ rows[k].kind = "new"

NearOrNext(c, i) == rows[c].at + Window + 1 >= rows[i].at  \* mutant of Near
Near(c, i) == rows[c].at + Window >= rows[i].at

CandidatesAcrossNew(i) ==  \* mutant of Candidates: /new is not looked for
  {c \in DOMAIN rows : /\ c < i /\ rows[c].from = rows[i].from
                       /\ Near(c, i) /\ rows[c].status = "source_written"}
\* The rows find_ai_thread_anchor considers for message i.
Candidates(i) ==
  {c \in DOMAIN rows :
     /\ c < i
     /\ rows[c].from = rows[i].from
     /\ Near(c, i)
     /\ rows[c].status = "source_written"
     /\ ~ NewBetween(c, i)}

\* ORDER BY received_at DESC, id DESC
Latest(S) == CHOOSE c \in S : \A k \in S :
  rows[k].at < rows[c].at \/ (rows[k].at = rows[c].at /\ k <= c)

\* The worker falls back to message_<id> for a row without MsgId, the store
\* to <id>: the two names differ.
MessageKey(i) == <<"key", i>>
AnchorKey(c)  == IF rows[c].hasId THEN MessageKey(c) ELSE <<"id", c>>

\* thread_id_for_message: the anchor's own key, not the thread it is in.
ThreadFor(i) ==
  IF Candidates(i) = {} THEN MessageKey(i) ELSE AnchorKey(Latest(Candidates(i)))

ChooseThread ==
  /\ pc = "choose"
  /\ thread' = ThreadFor(current)
  /\ pc' = "write"
  /\ UNCHANGED <<tableVars, items, current, envVars>>

WriteOverFile ==  \* mutant of WriteItem: an unreadable file counts as missing
  /\ pc = "write"
  /\ items' = {[thread |-> thread, msg |-> current]}
  /\ pc' = "mark"
  /\ UNCHANGED <<tableVars, current, thread, envVars>>
\* upsert_ai_thread_item replaces the item within the chosen thread's block
\* only; a copy in another block stays.
WriteItem ==
  /\ pc = "write"
  /\ items' = items \cup {[thread |-> thread, msg |-> current]}
  /\ pc' = "mark"
  /\ UNCHANGED <<tableVars, current, thread, envVars>>

Release ==
  /\ pc' = "idle"
  /\ current' = 0
  /\ thread' = NoThread

MarkProcessed ==  \* mutant of MarkWritten: a status of the jobs table
  /\ pc = "mark"
  /\ rows' = [rows EXCEPT ![current].status = "done"]
  /\ pc' = "done"
  /\ UNCHANGED <<job, due, items, current, thread, envVars>>
MarkWritten ==
  /\ pc = "mark"
  /\ rows' = [rows EXCEPT ![current].status = "source_written"]
  /\ pc' = "done"
  /\ UNCHANGED <<job, due, items, current, thread, envVars>>

MarkForgotten ==  \* mutant of MarkDone: the job is left processing
  /\ pc = "done"
  /\ Release
  /\ UNCHANGED <<tableVars, items, envVars>>
MarkDone ==
  /\ pc = "done"
  /\ job' = [job EXCEPT ![current] = "done"]
  /\ Release
  /\ UNCHANGED <<rows, due, items, envVars>>

\* The attempt fails before the item is in the file: retried after the
\* backoff, or given up.
Fail ==
  /\ pc \in {"choose", "write"}
  /\ failures < MaxFailures
  /\ failures' = failures + 1
  /\ \/ /\ job' = [job EXCEPT ![current] = "pending"]
        /\ due' = [due EXCEPT ![current] = clock + RetryDelay]
        /\ UNCHANGED rows
     \/ /\ job' = [job EXCEPT ![current] = "failed"]
        /\ rows' = [rows EXCEPT ![current].status = "failed"]
        /\ UNCHANGED due
  /\ Release
  /\ UNCHANGED <<items, clock, lost>>

\* The process dies, or a statement after the write fails: the item is in the
\* file and the job is processing still, to be requeued.
Interrupt ==
  /\ pc \in {"mark", "done"}
  /\ lost < MaxLost
  /\ lost' = lost + 1
  /\ Release
  /\ UNCHANGED <<tableVars, items, clock, failures>>

\* requeue_stale_processing_jobs, some time after the interruption.
Requeue(i) ==
  /\ job[i] = "processing"
  /\ i # current
  /\ job' = [job EXCEPT ![i] = "pending"]
  /\ due' = [due EXCEPT ![i] = clock]
  /\ UNCHANGED <<rows, items, workerVars, envVars>>

-----------------------------------------------------------------------------
Next ==
  \/ \E s \in Sender, kind \in {"item", "new"}, hasId \in MsgIds,
        at \in {t \in 0 .. clock : clock <= t + MaxSkew} : Arrive(s, kind, hasId, at)
  \/ Tick
  \/ \E i \in DOMAIN rows : Claim(i) \/ Requeue(i)
  \/ ChooseThread \/ WriteItem \/ MarkWritten \/ MarkDone \/ Fail \/ Interrupt

Spec == Init /\ [][Next]_vars

-----------------------------------------------------------------------------
(* Properties. *)

ThreadsOf(i) == {x.thread : x \in {y \in items : y.msg = i}}
Shared(i, j) == ThreadsOf(i) \cap ThreadsOf(j) # {}

\* ai-source-format, thread boundaries: whatever order retries and restarts
\* wrote them in, two messages of a thread have one sender and no /new of that
\* sender came in between.
ThreadsKeepApart ==
  \A i, j \in DOMAIN rows : Shared(i, j) =>
    rows[i].from = rows[j].from /\ ~ NewBetween(i, j)

\* No item is further than the window behind the message its thread is named
\* by, so a thread cannot grow without end by a chain of close messages.
NamerIsNear ==
  \A x \in items : LET namer == x.thread[2] IN
    namer <= x.msg /\ rows[x.msg].at <= rows[namer].at + Window

\* The upsert of a message that is written again finds its earlier item, for
\* lack of which the item would be there twice: only an interrupted attempt,
\* written again after an older message was, can leave a second copy.
OneThreadPerItem == \A i \in DOMAIN rows : Cardinality(ThreadsOf(i)) <= 1 + lost

\* A message is source_written only when its item is in the source, and an
\* item no row vouches for comes from an interrupted attempt or a live one.
WrittenMeansInSource ==
  \A i \in DOMAIN rows :
    /\ rows[i].status = "source_written" => ThreadsOf(i) # {}
    /\ ThreadsOf(i) # {} => \/ rows[i].status = "source_written"
                            \/ current = i /\ pc = "mark"
                            \/ lost > 0

\* What a thread's name promises of an item that is filed under it.
Fits(name, i) ==
  LET namer == name[2] IN
    /\ namer \in 1 .. i
    /\ rows[namer].from = rows[i].from
    /\ rows[i].at <= rows[namer].at + Window
    /\ ~ NewBetween(namer, i)

FiledWell == \A x \in items : Fits(x.thread, x.msg)

\* The message in hand, and what has been done with it.
InHand ==
  /\ pc = "idle" => current = 0
  /\ pc # "idle" => current \in DOMAIN rows /\ job[current] = "processing"
  /\ pc = "write" => thread \in Name /\ Fits(thread, current)
  /\ pc \in {"mark", "done"} => ThreadsOf(current) # {}
  /\ pc = "done" => rows[current].status = "source_written"

DoneIsWritten == \A i \in DOMAIN rows : job[i] = "done" => rows[i].status = "source_written"

Settled(i) == job[i] = "done" \/ (current = i /\ pc \in {"mark", "done"})

\* Only a message that is in the file for good has a copy no interruption paid
\* for.
CopiesPaid ==
  \A i \in DOMAIN rows :
    Cardinality(ThreadsOf(i)) <= IF Settled(i) THEN 1 + lost ELSE lost

\* The inductive invariant.
ThreadsInv == TypeOK /\ FiledWell /\ InHand /\ DoneIsWritten /\ CopiesPaid /\ WrittenMeansInSource

\* docs/ai-source-format.en.md:32: messages next to each other within the
\* window, with nothing between them, are grouped.
NextTo(i, j) ==
  /\ i < j
  /\ rows[i].from = rows[j].from
  /\ rows[i].at <= rows[j].at /\ rows[j].at <= rows[i].at + Window
  /\ \A k \in (i + 1) .. (j - 1) : rows[k].from # rows[j].from
AdjacentShareThread ==
  \A i, j \in DOMAIN rows :
    NextTo(i, j) /\ rows[i].status = "source_written" /\ rows[j].status = "source_written"
      => Shared(i, j)
=============================================================================
