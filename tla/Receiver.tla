------------------------------ MODULE Receiver ------------------------------
(***************************************************************************)
(* The callback handler of receiver/mod.rs over the messages, jobs and     *)
(* whitelist tables of store/mod.rs.  Handlers run concurrently, each      *)
(* statement on whichever connection of the pool is free, none inside a    *)
(* transaction; WeChat delivers a message again when an answer is missing. *)
(***************************************************************************)
EXTENDS Naturals, Sequences, FiniteSets

CONSTANTS
  Message,        \* what users send
  Sender,         \* OpenIDs
  NoMsg,          \* the message of an idle handler
  From,           \* the sender of a message
  Kind,           \* join | command | item (supported) | unsupported
  HasMsgId,       \* does the XML carry a MsgId?
  Admins,         \* ADMIN_OPENIDS, whitelisted at start-up
  Handler,        \* callback requests in progress at a time
  Conn,           \* pooled SQLite connections
  MaxDeliveries,  \* bound: how often WeChat posts one message
  MaxLost         \* bound: handlers cut short by an error, a disconnect or a crash

ASSUME InputAssumption ==
  /\ NoMsg \notin Message
  /\ From \in [Message -> Sender]
  /\ Kind \in [Message -> {"join", "command", "item", "unsupported"}]
  /\ HasMsgId \in [Message -> BOOLEAN]
  /\ Admins \subseteq Sender /\ IsFiniteSet(Admins)
ASSUME ReceiverBounds == {MaxDeliveries, MaxLost} \subseteq Nat

VARIABLES
  rows,       \* messages table: row i is [msg, status]
  jobs,       \* message ids that have a job
  whitelist,  \* enabled whitelist_subjects
  lastRowid,  \* sqlite3_last_insert_rowid of each connection
  pc, msg, authorized, rowId,  \* per handler: step and locals
  deliveries, \* per message: how often WeChat posted it
  accepted,   \* messages of whitelisted senders answered with 200
  lost        \* handlers cut short

tableVars   == <<rows, jobs, whitelist, lastRowid>>
handlerVars == <<pc, msg, authorized, rowId>>
wechatVars  == <<deliveries, accepted, lost>>
vars        == <<tableVars, handlerVars, wechatVars>>

HandlerStep == {"idle", "check", "insert", "find", "join", "reply", "createJob", "answer"}
Row == [msg : Message, status : {"whitelisted", "command", "queued", "ignored"}]

TypeOK ==
  /\ rows \in Seq(Row)
  /\ jobs \subseteq DOMAIN rows
  /\ whitelist \subseteq Sender
  /\ lastRowid \in [Conn -> Nat]
  /\ pc \in [Handler -> HandlerStep]
  /\ msg \in [Handler -> Message \cup {NoMsg}]
  /\ authorized \in [Handler -> BOOLEAN]
  /\ rowId \in [Handler -> Nat]
  /\ deliveries \in [Message -> 0 .. MaxDeliveries]
  /\ accepted \subseteq Message
  /\ lost \in 0 .. MaxLost

Init ==
  /\ rows = <<>>
  /\ jobs = {}
  /\ whitelist = Admins
  /\ lastRowid = [c \in Conn |-> 0]
  /\ pc = [h \in Handler |-> "idle"]
  /\ msg = [h \in Handler |-> NoMsg]
  /\ authorized = [h \in Handler |-> FALSE]
  /\ rowId = [h \in Handler |-> 0]
  /\ deliveries = [m \in Message |-> 0]
  /\ accepted = {}
  /\ lost = 0

-----------------------------------------------------------------------------
(* One callback: check the sender, insert the row, find its id, act. *)

Goto(h, step) == pc' = [pc EXCEPT ![h] = step]
At(h, step)   == pc[h] = step

\* The handler's future ends, and its locals with it.
Return(h) ==
  /\ Goto(h, "idle")
  /\ msg' = [msg EXCEPT ![h] = NoMsg]
  /\ authorized' = [authorized EXCEPT ![h] = FALSE]
  /\ rowId' = [rowId EXCEPT ![h] = 0]

StatusOfJob(m, auth) == "pending"  \* mutant of StatusFor: the job's status
StatusOfKind(m, auth) ==  \* mutant of StatusFor: the sender is not asked
  CASE Kind[m] = "item" -> "queued"
    [] Kind[m] = "join" -> "whitelisted"
    [] OTHER            -> "ignored"
\* The branch process_plain_xml takes, and the status it stores.
StatusFor(m, auth) ==
  CASE Kind[m] = "join"                 -> "whitelisted"
    [] Kind[m] = "command" /\ auth      -> "command"
    [] Kind[m] = "item" /\ auth         -> "queued"
    [] OTHER                            -> "ignored"

NextStepOfKind(m, auth) ==  \* mutant of NextStep: the sender is not asked
  CASE Kind[m] = "join" -> "join"
    [] Kind[m] = "item" -> "createJob"
    [] OTHER            -> "reply"
\* A join or command text is an ordinary supported message to a stranger.
NextStep(m, auth) ==
  CASE Kind[m] = "join"        -> "join"
    [] Kind[m] = "item" /\ auth -> "createJob"
    [] OTHER                   -> "reply"

\* WeChat posts m, for the first time or again; handlers may overlap.
Deliver(h, m) ==
  /\ At(h, "idle")
  /\ deliveries[m] < MaxDeliveries
  /\ deliveries' = [deliveries EXCEPT ![m] = @ + 1]
  /\ msg' = [msg EXCEPT ![h] = m]
  /\ Goto(h, "check")
  /\ UNCHANGED <<tableVars, authorized, rowId, accepted, lost>>

\* is_openid_whitelisted; the answer is used to the end of the request.
CheckWhitelist(h) ==
  /\ At(h, "check")
  /\ authorized' = [authorized EXCEPT ![h] = From[msg[h]] \in whitelist]
  /\ Goto(h, "insert")
  /\ UNCHANGED <<tableVars, msg, rowId, wechatVars>>

RowsOf(m) == {i \in DOMAIN rows : rows[i].msg = m}

NeverDuplicate(m) == FALSE  \* mutant of Duplicate: no unique index
\* The partial unique index on wechat_msg_id refuses the row.
Duplicate(m) == HasMsgId[m] /\ RowsOf(m) # {}

InsertOrReturn(h, c) ==  \* mutant of InsertMessage: a duplicate is answered at once
  LET m == msg[h] IN
  /\ At(h, "insert")
  /\ IF Duplicate(m)
     THEN Return(h) /\ UNCHANGED <<rows, lastRowid>>
     ELSE /\ rows' = Append(rows, [msg |-> m, status |-> StatusFor(m, authorized[h])])
          /\ lastRowid' = [lastRowid EXCEPT ![c] = Len(rows) + 1]
          /\ Goto(h, "find") /\ UNCHANGED <<msg, authorized, rowId>>
  /\ UNCHANGED <<jobs, whitelist, wechatVars>>
\* INSERT OR IGNORE.
InsertMessage(h, c) ==
  LET m == msg[h] IN
  /\ At(h, "insert")
  /\ IF Duplicate(m)
     THEN UNCHANGED <<rows, lastRowid>>
     ELSE /\ rows' = Append(rows, [msg |-> m, status |-> StatusFor(m, authorized[h])])
          /\ lastRowid' = [lastRowid EXCEPT ![c] = Len(rows) + 1]
  /\ Goto(h, "find")
  /\ UNCHANGED <<jobs, whitelist, msg, authorized, rowId, wechatVars>>

FindLatest(h, c) ==  \* mutant of FindId: the newest row
  /\ At(h, "find")
  /\ rowId' = [rowId EXCEPT ![h] = Len(rows)]
  /\ Goto(h, NextStep(msg[h], authorized[h]))
  /\ UNCHANGED <<tableVars, msg, authorized, wechatVars>>
\* The id is looked up by MsgId, or is the last rowid of whichever
\* connection the pool hands out.
FindId(h, c) ==
  LET m == msg[h] IN
  /\ At(h, "find")
  /\ IF HasMsgId[m]
     THEN \E i \in RowsOf(m) : rowId' = [rowId EXCEPT ![h] = i]
     ELSE rowId' = [rowId EXCEPT ![h] = lastRowid[c]]
  /\ Goto(h, NextStep(m, authorized[h]))
  /\ UNCHANGED <<tableVars, msg, authorized, wechatVars>>

JoinForgotten(h, c) ==  \* mutant of JoinWhitelist: only the row says so
  /\ At(h, "join")
  /\ Return(h)
  /\ UNCHANGED <<tableVars, wechatVars>>
\* upsert_whitelist by the join command; a first join inserts a row.
JoinWhitelist(h, c) ==
  LET s == From[msg[h]] IN
  /\ At(h, "join")
  /\ whitelist' = whitelist \cup {s}
  /\ lastRowid' = IF s \in whitelist THEN lastRowid
                  ELSE [lastRowid EXCEPT ![c] = Cardinality(whitelist) + 1]
  /\ Return(h)
  /\ UNCHANGED <<rows, jobs, wechatVars>>

\* A command's reply, the honeypot's, or an empty 200.
Reply(h) ==
  /\ At(h, "reply")
  /\ Return(h)
  /\ UNCHANGED <<tableVars, wechatVars>>

\* create_job_once: INSERT OR IGNORE under the unique index on message_id; the
\* foreign key makes an id that names no row an error, then 400.
CreateJobOnce(h, c) ==
  LET i == rowId[h] IN
  /\ At(h, "createJob")
  /\ IF i \in DOMAIN rows
     THEN /\ jobs' = jobs \cup {i}
          /\ lastRowid' = IF i \in jobs THEN lastRowid
                          ELSE [lastRowid EXCEPT ![c] = Cardinality(jobs) + 1]
          /\ Goto(h, "answer") /\ UNCHANGED <<msg, authorized, rowId>>
     ELSE UNCHANGED <<jobs, lastRowid>> /\ Return(h)
  /\ UNCHANGED <<rows, whitelist, wechatVars>>

\* The job's id is read, and the 200 reaches WeChat.
AnswerQueued(h) ==
  /\ At(h, "answer")
  /\ accepted' = accepted \cup {msg[h]}
  /\ Return(h)
  /\ UNCHANGED <<tableVars, deliveries, lost>>

\* A statement fails (400), WeChat hangs up and the future is dropped, or the
\* process dies: nothing after the last finished statement happens.
HandlerLost(h) ==
  /\ ~ At(h, "idle")
  /\ lost < MaxLost
  /\ lost' = lost + 1
  /\ Return(h)
  /\ UNCHANGED <<tableVars, deliveries, accepted>>

-----------------------------------------------------------------------------
Handle(h) ==
  \/ CheckWhitelist(h) \/ Reply(h) \/ AnswerQueued(h)
  \/ \E c \in Conn : \/ InsertMessage(h, c) \/ FindId(h, c)
                     \/ JoinWhitelist(h, c) \/ CreateJobOnce(h, c)

Next == \E h \in Handler :
  \/ \E m \in Message : Deliver(h, m)
  \/ Handle(h)
  \/ HandlerLost(h)

Spec == Init /\ [][Next]_vars

\* A request never waits for anything but the database, and WeChat posts a
\* message again until it is answered or the retries are used up.
FairSpec ==
  /\ Spec
  /\ \A h \in Handler : WF_vars(Handle(h))
  /\ \A m \in Message : WF_vars(m \notin accepted /\ \E h \in Handler : Deliver(h, m))

-----------------------------------------------------------------------------
(* Properties. *)

InFlight(m, steps) == \E h \in Handler : msg[h] = m /\ pc[h] \in steps

\* A message with a MsgId has one row however often, and however much at the
\* same time, it is delivered; so it can have only one job.
OneRowPerMessage ==
  \A i, j \in DOMAIN rows :
    rows[i].msg = rows[j].msg /\ HasMsgId[rows[i].msg] => i = j

\* docs/technical-design.en.md:82 and docs/product-design.en.md:100: a job is
\* there only for a supported message of a whitelisted sender.
JobsOnlyForMembers ==
  \A i \in jobs : Kind[rows[i].msg] = "item" /\ From[rows[i].msg] \in whitelist

\* A supported message of a whitelisted sender that was answered with 200, so
\* that WeChat will not send it again, has its job.
AcceptedHaveJobs ==
  \A m \in accepted : \E i \in jobs : rows[i].msg = m

\* A queued row without a job has a handler that is about to create it, unless
\* a handler was lost between its two inserts.
QueuedRowsGetJobs ==
  \A i \in DOMAIN rows : rows[i].status = "queued" =>
    \/ i \in jobs
    \/ InFlight(rows[i].msg, {"find", "createJob"})
    \/ lost > 0

\* What a row says of its sender is so: members are queued and obeyed, and a
\* join takes effect unless its handler was lost before the whitelist was told.
RowMatches(i) ==
  /\ rows[i].status \in {"queued", "command"} => From[rows[i].msg] \in whitelist
  /\ rows[i].status = "whitelisted" =>
       \/ From[rows[i].msg] \in whitelist
       \/ InFlight(rows[i].msg, {"find", "join"})
       \/ lost > 0
RowsMatchWhitelist == \A i \in DOMAIN rows : RowMatches(i)

\* The deployed program sees this: only events come without a MsgId.
ItemsCarryMsgId == \A m \in Message : Kind[m] = "item" => HasMsgId[m]

\* What a handler holds is still so when it acts on it: a member stays one, and
\* the row it found is its message's.
LocalsHold ==
  \A h \in Handler :
    /\ pc[h] # "idle" => msg[h] \in Message
    /\ authorized[h] => pc[h] # "idle" /\ From[msg[h]] \in whitelist
    /\ pc[h] = "join" => Kind[msg[h]] = "join"
    /\ pc[h] = "createJob" => /\ Kind[msg[h]] = "item" /\ authorized[h]
                              /\ rowId[h] \in RowsOf(msg[h])
    /\ pc[h] = "answer" => rowId[h] \in jobs \cap RowsOf(msg[h])

\* Who owes a row its job or its place in the whitelist: the handler that
\* inserted it, not just any handler of the message.
RowOwed(i) ==
  /\ rows[i].status = "queued" =>
       /\ Kind[rows[i].msg] = "item"
       /\ \/ i \in jobs
          \/ \E h \in Handler : /\ msg[h] = rows[i].msg /\ authorized[h]
                               /\ pc[h] \in {"find", "createJob"}
          \/ lost > 0
  /\ rows[i].status = "whitelisted" => Kind[rows[i].msg] = "join"
RowsOwed == \A i \in DOMAIN rows : RowOwed(i)

\* The inductive invariant.
ReceiverInv ==
  /\ TypeOK /\ IsFiniteSet(whitelist)
  /\ LocalsHold /\ RowsOwed
  /\ OneRowPerMessage /\ JobsOnlyForMembers /\ AcceptedHaveJobs
  /\ RowsMatchWhitelist

\* A supported message of an admin is queued in the end, whatever is lost, as
\* long as WeChat still retries it.
AdminItemsAreQueued ==
  \A m \in Message :
    Kind[m] = "item" /\ From[m] \in Admins /\ HasMsgId[m] /\ deliveries[m] > 0
      ~> \E i \in jobs : rows[i].msg = m
=============================================================================
