# sage-wiki-bridge in TLA+

`sage-wiki-bridge` is one Rust process (axum, tokio, SQLite through an sqlx
pool). WeChat posts messages to it; it stores them, queues a job for each
message of a whitelisted sender, and one worker turns the jobs into Markdown:
a verbose daily log and the compact *AI source* another program compiles.

This directory models what the program does with its state: everything that
runs concurrently, is interrupted, is retried, or has to be decided in the right
order. Paths below are relative to the repository.

## 1. Inventory

| Component | State | Operations | Talks to |
| --- | --- | --- | --- |
| receiver `src/receiver/mod.rs` | none of its own | verify, receive plain or encrypted, join, `/new` `/status` `/help`, honeypot | store, raw archive, wechat protocol |
| store `src/store/mod.rs` | tables `messages`, `jobs`, `whitelist_subjects` | insert, create job, claim, requeue stale, done, retry or fail, anchor query, listing, snapshot | SQLite pool |
| worker loop `src/lib.rs`, `src/worker/mod.rs` | the claimed job, the turn's `now` | requeue, claim, process, finish or retry | store, processing pipeline |
| processing pipeline `src/worker/mod.rs`, `src/worker/media_processor.rs` | what the attempt has gathered | by type: read pages, geocode, fetch and describe media; save, log, source, row | clients, archive, source writer, store |
| source writer `src/source/mod.rs` | one file per day and output | upsert of an entry or of a thread item, atomic rename | files |
| media and token `src/media/mod.rs` | cached access token | token fetch, download | WeChat |
| clients `src/enrich/`, `src/llm/` | none | one request each, with timeout and size limit | Jina, Tencent, Gemini |
| raw archive and artifacts `src/archive/mod.rs`, `src/preprocess/` | write-only files | save with temporary file and rename, render Markdown | files |
| wechat protocol `src/wechat/` | none | signature, AES framing, XML | receiver |
| configuration `src/config.rs` | built once at start | command line, environment, env file; merge, read, report | everything |
| start and commands `src/lib.rs`, `src/main.rs` | none | doctor, status, health, ready, the start-up sequence | everything |
| admin, status `src/admin.rs`, `src/status.rs`, `src/health.rs` | none | paged list, detail, snapshot, health routes | store |
| scripts `scripts/` | a PID file | start, stop, status | the process |

Handlers, readers and the worker share nothing but the database, the pool and
the files. No operation uses a transaction over more than one statement, so
every gap between two statements, and between a statement and a file write, is
a place where the process can die, a statement can be refused, or another task
can run. `PROJECT.json` lists every component and, under `hazards`, each hazard
at its line with the properties that would catch it going wrong.

What is hard, and what has to hold in spite of it:

* **Job queue and worker.** Death between the source write, the message update
  and the job update; a retry that is two statements; a stale requeue that
  knows nothing of `max_attempts`; updates by job id without an owner test.
  No job is lost or stuck, none completes unpublished, attempts and rewrites
  are paid for by interruptions, nobody takes a job from the worker.
* **Receiver.** Overlapping deliveries of one message, a handler lost between
  its two inserts, a whitelist answer that grows old, a row id asked of a pool.
  One row and one job per message, jobs for members only, no acknowledged
  message without a job.
* **Pipeline.** Five kinds of file and four places for the result, no
  transaction, failures anywhere, a cached token that is tested at one moment and
  used at another. What is published is complete; no place runs ahead of the
  one written before it; no request in time carries a dead token.
* **Source files.** Upserts that find their place by searching for marker lines,
  among bodies that go in unescaped and may hold such lines themselves; repeated
  with another thread, interrupted around the rename. Ahead of the first block
  with such a body the markers nest and nothing but the entry written changes;
  the log covers the source.
* **Threads.** The anchor query sees only finished messages, so retries change
  the answer. A thread never mixes senders, never crosses `/new`, and a message
  is not filed twice without reason.
* **Configuration and start.** Three layers, several spellings of one key, blanks
  that mean different things in each layer, a `doctor` with checks of its own.
  The top layer decides, the report says so, and what doctor approved answers.
* **Callback checks.** Archive, signature, key, padding, length, app id, XML: a
  row exists only for what was signed and framed for this app.
* **Listing and snapshot.** Several statements while rows change and arrive
  anywhere in the order. Nobody who follows the links misses a row; counts of
  different moments still bound each other.

## 2. Plan

| Order | Module | What | Status |
| --- | --- | --- | --- |
| 1 | `JobQueue`, `JobContract`, `JobQueueProofs` | queue and worker, its contract | done, proved |
| 2 | `Receiver`, `ReceiverProofs` | callback handlers over the tables | done, proved |
| 3 | `SourceThreads`, `SourceThreadsProofs` | thread choice and filing | done, proved |
| 4 | `Pipeline`, `PipelineProofs` | one attempt: clients, token, files, result | done, proved |
| 5 | `SourceDocument`, `KeyedEntries`, `SourceDocumentProofs` | the documents and their upserts, against keyed lists | done, proved |
| 6 | `Configuration`, `Framing`, `Callback`, `Service`; `FramingProofs`, `ServiceProofs` | configuration, start, callback checks | done, proved |
| 7 | `Dashboard`, `DashboardProofs` | list and snapshot under writers | done, proved |

Three steps of the worker are modelled more than once, each time as far as the
question needs: `JobQueue` has the attempt as one step that may fail and the
queue in full, `Pipeline` the attempt in full and the queue as "try again", and
`SourceThreads` and `SourceDocument` what the two outputs keep. They meet in the
same few statements (log, source, row, job, in that order), so a composition of
receiver and queue would only multiply their states: they share the row's status
and the existence of the job, which `Receiver` ends with (`QueuedRowsGetJobs`)
and `JobQueue` begins with (`CreateJob`). `Service` does compose: it extends
`Configuration` and `Callback`, which extends `Framing`, and hands over to
`Receiver` at the first statement on the store.

## 3. The modules

**JobQueue** (`src/store/mod.rs:298-595`, `src/lib.rs:640-681`,
`src/worker/mod.rs:196-274`). The columns of `jobs` are functions of the job
id; `pc`, `current`, `now` and `tries` are what the worker holds in memory. Each
statement and each file write is one action, named after the function it is in.
`ProcessingFails` stands for every error before the source is written.
`StoreFault` is a refused statement, with the continuation the code gives each:
a failed requeue is logged, a failed message update fails the job, anything else
ends the turn. `Crash` forgets `pc`. Time is an integer clock read by `WakeUp`,
once per turn, as in the code. A job and its message share an id.

**JobContract**: the same queue with neither workers nor locks nor time.
`JobQueue!KeepsContract` maps `state` to `jobs.status`, `starts` to
`jobs.attempts` and `published` to the messages that are in the AI source.

**Receiver** (`src/receiver/mod.rs:110-411`, `src/store/mod.rs:199-325`). Each
handler walks through check, insert, find, then join, reply or create the job
and answer; a job can be there though its 200 never left.
`lastRowid` is kept per pooled connection, because SQLite does. `Deliver` is
WeChat posting a message, first or again; `HandlerLost` is an error answer, a
dropped future or a crash.

**SourceThreads** (`src/store/mod.rs:436-480`, `src/worker/mod.rs:276-291`,
`src/source/mod.rs:220-278`). Rows arrive in id order with times that may be
slightly out of order; one worker claims the earliest due job, asks for the
anchor, files the item, marks the row, ends the job. `Fail` and `Interrupt` put
messages out of order. The worker is that of `JobQueue`, without locks and with
one turn at a time.

**Pipeline** (`src/worker/mod.rs`, `src/worker/media_processor.rs`,
`src/media/mod.rs`, `src/archive/mod.rs`, the clients). `pc` walks through
`process_claimed_job`: `Begin` looks at the message's type, a text reads its
addresses one by one and saves each page, a link reads one, a location is
geocoded, media takes the cached token or fetches one, downloads, describes;
`Render` then saves `processed.md`, and log, source, row and job follow. Every
file goes through `CreateTmp`, `WriteTmp`, `RenameTmp`; contents are the number
of the attempt that wrote them. `Fail` is any error, `Crash` also forgets the
token. A token has two ends: WeChat's, from the moment it is issued, and the
cache's, from the moment the answer is read. `InTime` is the client's timeout.

**SourceDocument** (`src/source/mod.rs`): a file is a sequence of marker tokens
and texts, the upserts are the searches and splices of the code, and each
output is written through a temporary file. A body is user text, a fetched page
or an answer of the model, and is pushed as it is (lines 137 and 184): for each
document it *quotes* some sequence of that document's markers (`MarkdownBody`),
and a quoted marker is the same token as one of the writer's own, as it is for
`str::find`. The history variable `spoilt`, which no action reads, keeps the blocks
and entries that were given a body with quotations; `SoundPart` is the document
up to the first of them, all of it as a rule. What is abstracted: the text
between two quoted markers (a body is text around consecutive ones), layout, and
quotations of the other document's markers, which are text to the searches.
**KeyedEntries** is what the writer is good for, with neither markers nor files:
lists in which a key is replaced where it stands or goes to the end of its block,
and which are cut, once, where a block is spoilt. A list is given by the entries
it holds and by which place is ahead of which, so an operation on it can be stated
without moving indices. `KeepsEntries` is the refinement; `Entries` reads the list
off the bodies of a sound part and the blocks they are in.

**Configuration** (`src/config.rs`): `launch` is the command line, the process
environment, the env file and the disk. Arguments are parsed one per step, then
each layer is merged in a step, then all keys are read. A text is a word in a
shape (blank, padded, quoted, separators only, wrong kind, huge), which is what
trimming, unquoting and the getters tell apart. Spellings of one key in one layer
are inserted in any order, as a hash map yields them (`Insertions`).

**Framing** (`src/wechat/crypto.rs`): padding and the frame around the XML, as
operators on sequences. **Callback** (`src/wechat/`): signatures, keys, required
elements, the columns a row keeps. **Service** (`src/lib.rs`,
`src/receiver/mod.rs:110-317`): the commands, the start-up sequence with what it
leaves behind when a step fails, and one callback up to its row. An operator may
start what doctor approved (`StartApproved`), with the same command line less the
word the parser took for the command: a flag's value may well be that word too.
`Launch` is the set of all launches, which `ServiceAssumption` confines the
considered ones to. It also says that issued secrets carry no blanks, that nothing
is no message, and how a request is written down: `xml` is the text its payload
frames, if the payload frames a message, behind the one prefix the model has for
the random bytes (which no check reads). Its last conjunct is the cipher's part:
opening a payload with another key does not give the configured app id.

**Dashboard** (`src/admin.rs`, `src/status.rs`, `src/store/mod.rs:597-820`): one
reader walks the list by its links or takes a snapshot, a statement a step, while
reduced writers change rows and jobs. Times are seconds and the digits of a
fraction, compared as texts. The list is given by ranks: `RowAt(n)` is the row
with n others ahead of it, which is what ORDER BY, LIMIT and OFFSET select by;
sums are counted. `CreateJob` asks nothing of the row, as `create_job_once` does
not: the handler has looked at its own sender and message, and INSERT OR IGNORE
may have kept a row stored as a stranger's. A table is assumed to be smaller than the 32-bit numbers its
pages are computed with.

Operators whose comment begins with *mutant of* or *A bug:* are not part of the
models: each is a wrong variant of the definition that follows it or that it
names, kept to see that a property notices the difference.

## 4. Runs

| Run | Bounds | Shows |
| --- | --- | --- |
| `job_queue` | 2 jobs, 1 worker, 2 attempts, clock to 3, 2 crashes, 1 fault | all safety properties, the inductive invariant, the contract; every job ends |
| `source_rewritten` | 1 job, 1 crash | **violation**, below |
| `receiver` | 2 handlers, 4 messages (join, event, command, item), 2 deliveries each, 1 lost handler | rows, jobs and whitelist agree |
| `receiver_live` | 3 messages, same bounds | redelivery repairs a lost handler |
| `job_for_stranger` | messages without MsgId, 2 connections | **violation**, below |
| `source_threads` | 2 senders, 3 messages, `/new`, 1 failure, 1 interruption, window 1, clock to 2 | threads keep apart, copies are paid for |
| `threads_split` | 1 sender, 3 messages, nothing goes wrong | **violation**, below |
| `pipeline` | 5 messages (2 texts, link, location, picture), 2 attempts, clock to 5, lifetimes 3 and 6 | tokens are good, results in order and complete |
| `source_document` | 3 messages of 2 days, 3 attempts, each failing anywhere; bodies quoting nothing, a block's end, a block's start, a log entry | sound parts nest and change as keyed lists, log covers source |
| `source_quoted` | the same messages, 2 attempts, bodies quoting nothing or a block's end | **violation**, below |
| `configuration` | 7 keys, each over every layer and shape; other command lines; 16 callbacks | layers, report, doctor, callbacks |
| `dashboard` | 3 rows of 4 kinds, 1 job of 2 attempts, pages of 1 and 2 | walks and snapshots |

Why these bounds suffice to see the interesting cases. Queue: with two attempts
the first fails and is retried and the last one gives up; two crashes hit the
same job twice, or one job and then the other; a timeout of one and a clock to
three let a lock go stale, be requeued and be claimed again; two jobs compete for
a claim and go stale together. Receiver: two handlers and two deliveries give
every overlap of a message with itself and with another. Threads: three messages
are needed for one between two others, be it a `/new` or the link of a chain.
Pipeline: two attempts give a second one that finds the remains of the first, and
a cached token that the second uses; the lifetimes lie on both sides of the
margin, so both branches of the saturating subtraction are taken; the texts have
a repeated and a refused address. Document: three attempts put a second item
into a block that stands before another, and write an item again under another
thread; the second day shows that the first stays. A quoted end makes the search
for a block's end stop early, a quoted start makes that for another thread's block
land in this one, a quoted log entry does both; three attempts can spoil a block,
write ahead of it and write behind it. Configuration: keys do not
influence each other before the last step, so one at a time is varied over all
combinations of layers, with two spellings in one layer, while the rest is as
issued. Dashboard: three rows are needed for one to enter above, below and within
the page being read; between the eight modelled statements of a snapshot (the
code has more, see below) a job is created, claimed, put back and ended, and it may
be that of a stranger's row.

`CHECK_DEADLOCK FALSE` is set where all bounded inputs can be used up or the
modelled story ends (a command exits, a walk reaches its empty page); the worker
loop never stops.

**Fairness.** `JobQueue!FairSpec`: the ticker fires and no step of the loop
blocks for ever, since every HTTP client has a timeout; failing, dying and being
refused stay optional. `EveryJobEnds` excuses only a job that is not due, or
whose lock is not stale, before the clock's bound. `Receiver!FairSpec`: a handler
waits for the database alone, and WeChat posts a message until it is answered
or its retries are used up. The other modules state safety only: what must
eventually happen is the queue's business.

**What the violations say.**
* `source_rewritten`: after a crash behind `mark_message_source_written` the job
  is requeued and the message processed and written again, though
  `docs/technical-design.zh-CN.md:1504` says it is not. The upsert makes it
  harmless unless the thread changed; the external services are called again.
* `job_for_stranger`: `insert_message_idempotent` (`src/store/mod.rs:289`) asks
  `last_insert_rowid()` of a pooled connection. The member's job can name a
  stranger's ignored row. Real messages carry a MsgId; only events do not, and
  they get no job, so it takes a supported message without one.
* `source_quoted`: a body that quotes `<!-- /swb:thread -->`, in a pasted text or a
  page behind a link, ends its block for the search at line 238. The item's own end
  then lies behind that, so when an interrupted attempt is repeated the item is
  written a second time, and so for any later item of that thread, which goes into
  the quoting body. `docs/technical-design.en.md:116` says the markers upsert entries
  idempotently. What is not harmed is what `WellFormed` and `KeepsEntries` state.
* `threads_split`: `thread_id_for_message` returns the anchor's own key instead
  of the thread the anchor is in. A third message within the window starts a
  new block, although `docs/ai-source-format.en.md:32` groups by adjacency.

**What the models take care to say, and a reader of the code may miss.**
* The stale requeue lets a job be attempted more often than `max_attempts`, once
  per interruption; `AttemptsBounded` states the exact bound.
* `TokenGoodWhenUsed` needs a skew of two request timeouts (`TimeAssumption`):
  one for the answer that brought the token, one for the request that uses it.
  The defaults, 300 s and 30 s, leave room; a configured timeout need not.
* `ApprovedServiceAnswers` has two premises. `OneSpelling`: of two spellings of a
  key in one layer either may win, at each start anew, so doctor and service can
  read different values. `AsIssued`: a secret with a blank around it passes
  doctor and is refused later. Doctor does not ask for `WECHAT_APP_ID`, without
  which every encrypted callback is answered 400, and it rejects a database URL
  without a directory, which the start accepts.
* The worker is spawned before the address is bound; seeding adds admins and
  never revokes one; a blank line in the env file hides the process environment,
  a blank variable does not.
* The snapshot's counts are of different moments. `LaterReadingsCover` says what
  can still be concluded. A member who joined after his first message stays
  unauthorized in the table though his message is processed, so authorized and
  ignored need not add up to the total: the jobs make up for the rest. The model
  leaves out the statements for failed and written messages and for bytes,
  which may shrink, and the bytes count a day's file once for each of its rows.
* A walk filtered by status can skip rows, since they leave the filter while it
  pages; `NothingSkipped` is stated for the other filters. Within a second the
  list is in the order of texts, not of times (`ListedBySecond`).
* Without the key for Tencent's service the reader of links is not built either.
* The page of a link message is not saved, although
  `docs/technical-design.zh-CN.md:1045` speaks of `link.jina-reader.md`.

## 5. Proofs

TLC checks the inductive invariants or what follows from them on the instances
above; the theorems hold for every value of the constants.

`JobQueueProofs`, for every number of jobs, attempts, crashes and faults and
every timeout and delay:

* `TypeCorrect` and `LocksMatch`, for any number of workers;
* for a single worker (`SingleWorker`, what `run_with_report` spawns)
  `QueueInvariant`, and from it `WritesAreBounded`, `AttemptsAreBounded`,
  `ClaimIsHeld`, `DoneIsPublic`, `OutcomeIsReported` and `Implements`: the queue
  keeps `JobContract`.

`QueueInv` strengthens the bounds in two ways. `Budget` says that a job nobody
has in hand has used up strictly less than the bound, so a claim may add one:
an attempt that ends without `mark_job_retry_or_failed` was ended by a crash or
a fault, and that is what pays for the next. `StepsBehind` keeps what the
finished steps of the turn have left in the outputs, which is what `done` then
rests on. `ClaimHeld` is where the single worker is needed: the requeue runs
only between jobs. Assumptions: the job ids and bounds are naturals, at least
one attempt is allowed, and no worker is called by the null owner.

`ReceiverProofs`, for any messages, senders, handlers, connections, redeliveries
and lost handlers:

* `ReceiverTypes` and `OneRow`, whatever the messages are;
* when every supported message carries its MsgId (`ItemsCarryMsgId`: of what
  WeChat sends, events alone have none) `ReceiverInvariant`, and from it
  `JobsAreForMembers`, `AcceptedAreQueued`, `QueuedGetJobs` and `RowsAreTrue`.
  `job_for_stranger` shows that `JobsAreForMembers` needs that hypothesis.

`ReceiverInv` adds two facts to the properties. `LocalsHold`: what a handler has
read is still so when it acts on it, since members and rows are never removed
(`Monotone`) and the id it found is its message's. `RowsOwed`: a queued row
without a job is owed one by an authorized handler of the same message; when a
handler creates a job and leaves, `OneRowPerMessage` says that the row it served
is the only one it could have owed. `Admins` is assumed finite, for the whitelist
to be counted; nothing is assumed of the sets of handlers and connections.

`SourceThreadsProofs`, for any senders, window, delays, number of messages,
failures and interruptions, with and without MsgIds: `ThreadsInvariant`, and from
it all five properties of the run. `ThreadsInv` says of every item that its
block's name fits it (`FiledWell`: the named message is not later, is of the same
sender, is near, and no `/new` lies between); rows never move and new ones come
behind, so a name that fits keeps fitting (`FitsStay`), and the name the anchor
query yields fits (`ChosenFits`, for which the latest of several rows must exist:
`LatestExists`). Two messages under one name then have one sender, and a `/new`
between them would lie between the name and the later one. `CopiesPaid` counts:
a message that is not settled has at most as many copies as attempts were
interrupted, so that the one write of an attempt may add one.

`PipelineProofs`, for any messages, addresses, keys, lifetimes and bounds:
`TypeCorrect`, `PipelineInvariant`, `TokensAreGood`, `TrailsAreInOrder`,
`ItemsAreComplete`. `TokenMargin` is why tokens are good: a cached one is dropped
at least a timeout before its real end, a fresh one is in hand at most a timeout
after it was issued; it rests on `TimeAssumption`. `FilesBehind` keeps what this
attempt has saved so far, and that a rename moves a whole file.

`FramingProofs`, for texts of any length, any block size and any number of random
bytes: padding and frame are taken off again (`PaddingRoundTrip`,
`FrameRoundTrip`).

`SourceDocumentProofs`, for any keys, days, choices of threads, quotations and
number of attempts: `TypeCorrect`, `DocumentsWellFormed`, `SourceIsCovered` and
`Refinement`. Instead of reasoning about blocks in blocks, `Shape` says of the
sound part of a document what is local: which token may follow which (`Follows`),
and that no marker that opens a block or an entry occurs twice. From that it
follows where `IndexFrom` finds what, that the token before a block's end closes an
item, and that a splice there keeps the shape, which gives the outcome of an
upsert (`Outcome`): one entry changed or added behind those it belongs to, the
places of the others in the order they had. That is the case of a body without
quotations (`CleanPart`). For the rest, `PartUntouched` says that a splice behind
the end of the sound part leaves it alone, and what is searched for there is
searched for behind it; `QuotingPart` that a body with quotations cuts the sound
part just before its own block or entry (`CutPart`). Of what lies behind, nothing is
known but that it consists of tokens, which is all `LogCoversSource` needs: its
invariant counts bodies wherever they stand, and only an unspoilt log has to keep
them all. `IInv` adds that no body is newer than the attempt, that the draft is
still the document's next version when it is renamed, and that the log has the
body by the time the source is written.

`ServiceProofs`, for any launches and requests: `TypeCorrect`, `TopLayerWins`,
`ReportIsTrue`, `ApprovalHolds`, `OnlyGenuineAccepted`. The invariant has a part
for each.
* `MergeInv` says for each phase what the map of values holds: the mention of the
  highest layer so far that has one. `OneIsLast` is why the order of a hash map
  does not matter to that: whichever spelling is inserted last, it is one of that
  layer.
* `LaunchInv` carries doctor's verdict over to the start, which parses another
  command line. `Says` describes what the first n arguments amount to without
  following the parser (the last mention of a flag, whether a switch occurs), so
  that dropping the command changes nothing it says (`SaysInv`); `Merged` says
  the same of the merge, which has one outcome if no key has rivals (`OneMerge`).
  `Fit` is what doctor established, of the launch alone.
* `AnswerInv` keeps at each stage of a callback what the checks before it vouch
  for (`Vouched`), and `GenuineInv` that a genuine one passes them; both rest on
  `FrameRoundTrip`.

`DashboardProofs`, for any arrivals, filters, page sizes and tables:
`TypeCorrect`, `WalkShowsAll`, `PagesAreOrdered`, `ReadingsBoundEachOther`. The
order of the list is a total order of the rows (`ListedBefore`), so the ranks of
the matching rows are 0, 1, ... without a gap. `WalkInv` then says that no row
still owed has a rank below the page to be read: while rows arrive and change,
those the walk matches still do and ranks only grow (`RanksGrow`), and the page
takes all ranks up to its end. A walk filtered by status is exempt, since its rows
leave. `SnapshotInv` bounds each count by the present state as long as the
statement it is compared with is to come, and by that statement's count
afterwards. It rests on what the tables keep (`RowsInv`): a row without a job is as
its handler stored it, so whoever is neither authorized nor ignored, and whoever is
written or failed, has a job, and jobs only grow in number.

Every invariant of the passing runs is stated by a theorem, and so are the two
refinements. Only model-checked: the liveness properties `EveryJobEnds` and
`AdminItemsAreQueued`, which are outside the prover's reach; and the four
violations, which are counterexamples.

## 6. Not modelled

* External and stateless: SHA-1, AES, Base64, the XML reader, the formats of
  requests and answers, which addresses are public (`PublicUrl` is a constant),
  the wording of Markdown, HTML, replies and logs.
* The echo of `verify_callback` and encrypted replies: no state, and the reply is
  framed as the callback was. `get_message_detail`: one SELECT. Health routes,
  directory figures, telemetry, the access log and the crypto check tool.
* Configuration keys that are only a number or a path: they are read like those
  that are modelled, and nothing branches on them before they are used.
* The scripts: wrappers around one process.
* Two instances on one database (see the hazard at `src/lib.rs:423`): the second
  ends with its failure to bind, and its worker with it, which is `JobQueue`'s
  `Crash`; while both run `LocksMatch` holds, the single-worker theorems do not.
* The day boundary within `SourceThreads`, which has one day's file;
  `SourceDocument` has two.
