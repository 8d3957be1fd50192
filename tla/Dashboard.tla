----------------------------- MODULE Dashboard -----------------------------
(***************************************************************************)
(* Reading the tables while receiver and worker write them: the paged      *)
(* message list of the admin pages (src/src/admin.rs, list_messages in     *)
(* src/src/store/mod.rs) and the status snapshot (status_snapshot), which  *)
(* the admin status page, the status command and the /status reply share.  *)
(*                                                                         *)
(* Every SELECT is a step of its own: nothing puts two of them in one      *)
(* transaction.  Readers change nothing, so one reader at a time is        *)
(* enough; it walks the list by its Next links, or takes one snapshot.     *)
(* The writers are those of modules Receiver and JobQueue, reduced to what *)
(* the readers see.                                                        *)
(***************************************************************************)
EXTENDS Integers, Sequences, FiniteSets, Functions

CONSTANTS
    Arrivals,     \* rows a handler may insert: time (seconds and a fraction's
                  \* digits), type, authorized, status
    MaxRows,      \* bound on the rows that arrive
    MaxCounted,   \* bound on those there are by the end of a snapshot
    MaxJobs,      \* bound on the jobs, each for one of the first rows
    MaxAttempts,  \* bound on the claims of a job
    Asked, Filters,   \* per_page values (0: none) and filters asked for
    ViewKey,      \* the configured view key, or "none"
    DefaultPerPage, AdminMaxPerPage,   \* the page sizes of the configuration
    StoreMaxPerPage,                   \* the largest page the store gives
    Word          \* page arithmetic is modulo this (2^32 in the code)

Time == [sec : Int, digits : Seq(0..9)]
Type == {"text", "image", "voice", "video", "shortvideo", "location", "link", "unsupported"}
Status == {"queued", "ignored", "command", "whitelisted", "source_written", "failed"}
Row == [time : Time, type : Type, authorized : BOOLEAN, status : Status]

\* The handler ignores whom it does not authorize, and stores no message as
\* processed; and the table is smaller than the numbers its pages are computed
\* with.
ASSUME DashboardAssumption ==
    /\ Arrivals \subseteq Row
    /\ \A row \in Arrivals : /\ row.status \in {"queued", "ignored", "command", "whitelisted"}
                             /\ row.authorized \/ row.status = "ignored"
    /\ MaxRows \in Nat /\ MaxCounted \in 0..MaxRows /\ MaxAttempts \in Nat \ {0}
    /\ Asked \subseteq Nat /\ DefaultPerPage \in Nat /\ AdminMaxPerPage \in Nat
    /\ StoreMaxPerPage \in Nat \ {0}
    /\ Word \in Nat /\ MaxRows + StoreMaxPerPage < Word

VARIABLES
    rows,     \* the messages, by id
    jobs,     \* each message's job, or NoJob
    reader,   \* what is being read: "idle", "count", "rows", "page", "snapshot"
    query,    \* the list asked for
    total,    \* the count of the page being read
    page,     \* the ids on the page shown
    owed,     \* matched when the walk began and not shown yet
    snapshot  \* the readings taken so far, in order

tables == <<rows, jobs>>
walk == <<query, total, page, owed>>
vars == <<tables, reader, walk, snapshot>>

NoJob == [status |-> "none", attempts |-> 0]
NoQuery == [page |-> 1, perPage |-> 1, desc |-> TRUE, filter |-> "all"]

Ids == DOMAIN rows

Init ==
    /\ rows = <<>> /\ jobs = <<>>
    /\ reader = "idle"
    /\ query = NoQuery /\ total = 0 /\ page = <<>>
    /\ owed = {}
    /\ snapshot = <<>>

----------------------------------------------------------------------------
(* The writers                                                             *)

Written == UNCHANGED <<reader, walk, snapshot>>

\* A handler stamps its message before it inserts it, so rows need not
\* arrive in the order of their times.
Arrive(row) ==
    /\ Len(rows) < (IF reader = "snapshot" THEN MaxCounted ELSE MaxRows)
    /\ rows' = Append(rows, row)
    /\ jobs' = Append(jobs, NoJob)
    /\ Written

SetJob(id, status, attempts) ==
    jobs' = [jobs EXCEPT ![id] = [status |-> status, attempts |-> attempts]]

\* create_job_once asks nothing of the row: the handler before it has looked at
\* its own sender and its own message.  A redelivery after the sender's join
\* gives a job to the row stored when he was a stranger, and one for a message
\* without MsgId may name any row (module Receiver).
CreateJob(id) ==
    /\ jobs[id] = NoJob
    /\ id <= MaxJobs
    /\ SetJob(id, "pending", 0)
    /\ Written /\ UNCHANGED rows

Claim(id) ==
    /\ jobs[id].status = "pending" /\ jobs[id].attempts < MaxAttempts
    /\ SetJob(id, "processing", jobs[id].attempts + 1)
    /\ Written /\ UNCHANGED rows

MarkWritten(id) ==
    /\ jobs[id].status = "processing"
    /\ rows' = [rows EXCEPT ![id].status = "source_written"]
    /\ Written /\ UNCHANGED jobs

\* Done, put back for another attempt, or failed.
EndJob(id) ==
    /\ jobs[id].status = "processing"
    /\ \E status \in {"done", "pending", "failed"} :
         /\ status = "done" => rows[id].status = "source_written"
         /\ SetJob(id, status, jobs[id].attempts)
    /\ Written /\ UNCHANGED rows

FailMessage(id) ==
    /\ jobs[id].status = "failed"
    /\ rows' = [rows EXCEPT ![id].status = "failed"]
    /\ Written /\ UNCHANGED jobs

----------------------------------------------------------------------------
(* The order of the list                                                   *)

\* The end of an RFC 3339 text as character codes: "Z", or a point, as many
\* digits as the fraction needs, and "Z".
Tail3339(digits) ==
    IF digits = <<>> THEN <<90>> ELSE <<46>> \o [i \in DOMAIN digits |-> 48 + digits[i]] \o <<90>>

\* Character by character; no text is the beginning of another.
SmallerText(s, t) ==
    \E i \in DOMAIN s \cap DOMAIN t :
        s[i] < t[i] /\ \A j \in 1..(i - 1) : s[j] = t[j]

\* How SQLite compares two received_at texts.
TextBefore(s, t) ==
    \/ s.sec < t.sec
    \/ s.sec = t.sec /\ SmallerText(Tail3339(s.digits), Tail3339(t.digits))

\* A bug: rows are taken to arrive in the order of their times.
ListedByIdBefore(i, j) == IF query.desc THEN j < i ELSE i < j

\* ORDER BY received_at, id, both in the direction asked for.
ListedBefore(i, j) ==
    LET earlier(a, b) == \/ TextBefore(rows[a].time, rows[b].time)
                         \/ rows[a].time = rows[b].time /\ a < b
    IN IF query.desc THEN earlier(j, i) ELSE earlier(i, j)

\* The WHERE clause: no filter, one on the type, which never changes, or one
\* on the status, which does.
Matching == {id \in Ids : CASE query.filter = "all"  -> TRUE
                            [] query.filter = "type" -> rows[id].type = "text"
                            [] OTHER                 -> rows[id].status = "queued"}

\* How many rows of the list are ahead of one, and the row with n ahead of it.
Rank(id) == Cardinality({other \in Matching : ListedBefore(other, id)})
RowAt(n) == CHOOSE id \in Matching : Rank(id) = n

----------------------------------------------------------------------------
(* The list pages                                                          *)

Least(a, b) == IF a < b THEN a ELSE b
Clamp(n, most) == IF n < 1 THEN 1 ELSE Least(n, most)
AtLeastOne(n) == IF n < 1 THEN 1 ELSE n

\* authorized: without a configured key nobody is.
Authorized(key) == ViewKey /= "none" /\ key = ViewKey

\* A bug: only the configured limit applies.
PerPageOfAdmin(asked) ==
    Clamp(IF asked = 0 THEN DefaultPerPage ELSE asked, AtLeastOne(AdminMaxPerPage))

\* The page size asked for, within the limits of the configuration and then
\* of the store.
PerPage(asked) ==
    LET wanted == IF asked = 0 THEN DefaultPerPage ELSE asked
    IN Clamp(Clamp(wanted, AtLeastOne(AdminMaxPerPage)), StoreMaxPerPage)

\* A bug: pages are numbered from nought.
OffsetFromZero == (query.page * query.perPage) % Word

\* The product is taken in 32 bits.
Offset == ((query.page - 1) * query.perPage) % Word

\* list_messages in admin.rs: the first page of a walk.
OpenList(key, asked, desc, filter) ==
    /\ reader = "idle"
    /\ Authorized(key)
    /\ reader' = "count"
    /\ query' = [page |-> 1, perPage |-> PerPage(asked), desc |-> desc, filter |-> filter]
    /\ UNCHANGED <<tables, total, page, owed, snapshot>>

\* SELECT COUNT(*).
CountRows ==
    /\ reader = "count"
    /\ total' = Cardinality(Matching)
    /\ owed' = IF query.page = 1 THEN Matching ELSE owed
    /\ reader' = "rows"
    /\ UNCHANGED <<tables, query, page, snapshot>>

\* SELECT ... LIMIT perPage OFFSET offset.
ReadRows ==
    /\ reader = "rows"
    /\ page' = [r \in 1..Least(query.perPage, Cardinality(Matching) - Offset) |->
                  RowAt(Offset + r - 1)]
    /\ owed' = owed \ Range(page')
    /\ reader' = "page"
    /\ UNCHANGED <<tables, query, total, snapshot>>

\* render_list_page's link, until an empty page; the page number is a 32-bit
\* one too, and at least 1.
FollowNext ==
    /\ reader = "page"
    /\ page /= <<>>
    /\ query' = [query EXCEPT !.page = AtLeastOne((@ + 1) % Word)]
    /\ reader' = "count"
    /\ UNCHANGED <<tables, total, page, owed, snapshot>>

----------------------------------------------------------------------------
(* The snapshot                                                            *)

\* A bug: the totals are read after the groups.
StatementsReordered == <<"by_status", "by_type", "jobs_by_status",
                         "total", "authorized", "jobs", "attempts", "retries">>

\* status_snapshot's statements, in order, without those that count what may
\* also shrink: failed and written messages, and bytes.
Statements == <<"total", "authorized", "jobs", "attempts", "retries",
                "by_status", "by_type", "jobs_by_status">>

HasJob == {id \in Ids : jobs[id] /= NoJob}

\* GROUP BY: how many ids have each label.
Grouped(label) ==
    [l \in Range(label) |-> Cardinality({id \in DOMAIN label : label[id] = l})]

Read(name) == snapshot[CHOOSE i \in DOMAIN Statements : Statements[i] = name]

\* One line of such a reading.
Counted(groups, l) == IF l \in DOMAIN groups THEN groups[l] ELSE 0

\* The sum of a function's values, by counting.
SumOf(f) == Cardinality(UNION {{x} \X (1..f[x]) : x \in DOMAIN f})

Reading(statement) ==
    CASE statement = "total"      -> Cardinality(Ids)
      [] statement = "authorized" -> Cardinality({id \in Ids : rows[id].authorized})
      [] statement = "jobs"       -> Cardinality(HasJob)
      [] statement = "attempts"   -> SumOf([id \in HasJob |-> jobs[id].attempts])
      [] statement = "retries"    -> SumOf([id \in HasJob |-> AtLeastOne(jobs[id].attempts) - 1])
      [] statement = "by_status"  -> Grouped([id \in Ids |-> rows[id].status])
      [] statement = "by_type"    -> Grouped([id \in Ids |-> rows[id].type])
      [] OTHER                    -> Grouped([id \in HasJob |-> jobs[id].status])

StartSnapshot ==
    /\ reader = "idle"
    /\ Len(rows) <= MaxCounted
    /\ reader' = "snapshot"
    /\ UNCHANGED <<tables, walk, snapshot>>

NextStatement ==
    /\ reader = "snapshot"
    /\ Len(snapshot) < Len(Statements)
    /\ snapshot' = Append(snapshot, Reading(Statements[Len(snapshot) + 1]))
    /\ UNCHANGED <<tables, reader, walk>>

----------------------------------------------------------------------------
Next ==
    \/ \E row \in Arrivals : Arrive(row)
    \/ \E id \in Ids : \/ CreateJob(id) \/ Claim(id) \/ MarkWritten(id)
                       \/ EndJob(id) \/ FailMessage(id)
    \/ \E asked \in Asked, desc \in BOOLEAN, filter \in Filters :
          OpenList(ViewKey, asked, desc, filter)
    \/ CountRows \/ ReadRows \/ FollowNext
    \/ StartSnapshot \/ NextStatement

Spec == Init /\ [][Next]_vars

----------------------------------------------------------------------------
(* Properties                                                              *)

\* A page never holds more rows than asked for, nor rows that do not exist
\* (list_messages).
TypeOK ==
    /\ Len(rows) \in 0..MaxRows /\ DOMAIN jobs = Ids
    /\ \A id \in Ids : jobs[id].attempts \in 0..MaxAttempts
    /\ query.perPage \in 1..StoreMaxPerPage
    /\ Len(page) <= StoreMaxPerPage
    /\ Range(page) \cup owed \subseteq Ids

\* Whoever follows the Next links of an unfiltered list, or of one filtered
\* by what never changes, to the empty page has been shown every row there
\* was when the first page was asked for, however many arrived meanwhile and
\* wherever in the order they went (list_messages, render_list_page).
NothingSkipped ==
    (reader = "page" /\ page = <<>> /\ query.filter \in {"all", "type"}) =>
        owed = {}

\* The list is in the order of time to the second; only within one second
\* may the texts order rows otherwise (list_messages_sql).
ListedBySecond ==
    \A i, j \in DOMAIN page : i < j =>
        IF query.desc THEN rows[page[i]].time.sec >= rows[page[j]].time.sec
        ELSE rows[page[i]].time.sec <= rows[page[j]].time.sec

\* The counts come from different moments, yet they bound each other: of two
\* counts of what only grows the later is not the smaller.  The groups add up
\* to no less than the total before them, those by type to no less than those
\* by status.  Whoever is missing among the authorized is still ignored or has
\* got a job after all, and nobody is written or failed without a job.  No more
\* attempts than one per job are missing among the retries (status_snapshot).
LaterReadingsCover ==
    Len(snapshot) = Len(Statements) =>
        LET byStatus == Read("by_status")
            byJob    == SumOf(Read("jobs_by_status"))
        IN /\ SumOf(byStatus) >= Read("total")
           /\ SumOf(Read("by_type")) >= SumOf(byStatus)
           /\ Read("authorized") + Counted(byStatus, "ignored") + byJob >= Read("total")
           /\ Counted(byStatus, "source_written") + Counted(byStatus, "failed") <= byJob
           /\ byJob >= Read("jobs")
           /\ Read("retries") + byJob >= Read("attempts")
============================================================================
