------------------------------ MODULE JobQueue ------------------------------
(***************************************************************************)
(* The jobs table of store/mod.rs and the worker loop of lib.rs that works *)
(* it off: wake-up, requeue of stale jobs, claim, the two source writes,   *)
(* the message and job updates that follow, retry with backoff.            *)
(*                                                                         *)
(* Every statement sent to SQLite and every file written is a step of its  *)
(* own, since the process can die, and a statement can fail, between any   *)
(* two of them.  A job has exactly one message (unique index on message_id *)
(* and job_type, and one job_type is in use), so the message of job j is   *)
(* called j as well; its row is there before the job is.                   *)
(***************************************************************************)
EXTENDS Naturals

CONSTANTS
  Job,                \* job ids (jobs.id), numbers: the id breaks ties in claims
  Workers,            \* worker loops; the deployed program spawns one
  Nobody,             \* locked_by IS NULL
  MaxAttempts,        \* jobs.max_attempts, 3 by the schema's default
  ProcessingTimeout,  \* WORKER_PROCESSING_TIMEOUT_SECONDS
  RetryBase,          \* WORKER_RETRY_BASE_SECONDS
  RetryMax,           \* WORKER_RETRY_MAX_SECONDS
  MaxClock,           \* bound: the last instant modelled
  MaxCrashes,         \* bound: how often a worker process dies
  MaxFaults           \* bound: how many statements SQLite refuses

ASSUME JobAssumption == Job \subseteq Nat
ASSUME WorkersAssumption == Nobody \notin Workers
ASSUME BoundsAssumption ==
  /\ MaxAttempts \in Nat \ {0}
  /\ {ProcessingTimeout, RetryBase, RetryMax} \subseteq Nat
  /\ {MaxClock, MaxCrashes, MaxFaults} \subseteq Nat

VARIABLES
  jobStatus, attempts, nextRunAt, lockedBy, lockedAt,  \* columns of jobs
  msgStatus,             \* messages.status
  logged, writes,        \* in the daily log? how often written to the AI source
  pc, current, now, tries,  \* per worker: step, job, the tick's `now`, job.attempts
  clock, crashes, faults

jobVars    == <<jobStatus, attempts, nextRunAt, lockedBy, lockedAt>>
outputVars == <<msgStatus, logged, writes>>
localVars  == <<current, now, tries>>
envVars    == <<clock, crashes, faults>>
vars       == <<jobVars, outputVars, pc, localVars, envVars>>

JobStatus == {"none", "pending", "processing", "done", "failed"}
Running   == {"process", "writeSource", "markWritten", "markDone", "retryJob"}
Steps     == Running \cup {"idle", "requeue", "claim", "failMessage"}

TypeOK ==
  /\ jobStatus \in [Job -> JobStatus]
  /\ attempts \in [Job -> Nat]
  /\ nextRunAt \in [Job -> Nat]
  /\ lockedBy \in [Job -> Workers \cup {Nobody}]
  /\ lockedAt \in [Job -> Nat]
  /\ msgStatus \in [Job -> {"queued", "source_written", "failed"}]
  /\ logged \in SUBSET Job
  /\ writes \in [Job -> Nat]
  /\ pc \in [Workers -> Steps]
  /\ current \in [Workers -> Job]
  /\ now \in [Workers -> 0 .. MaxClock]
  /\ tries \in [Workers -> Nat]
  /\ clock \in 0 .. MaxClock
  /\ crashes \in 0 .. MaxCrashes
  /\ faults \in 0 .. MaxFaults

Init ==
  /\ jobStatus = [j \in Job |-> "none"]
  /\ attempts = [j \in Job |-> 0]
  /\ nextRunAt = [j \in Job |-> 0]
  /\ lockedBy = [j \in Job |-> Nobody]
  /\ lockedAt = [j \in Job |-> 0]
  /\ msgStatus = [j \in Job |-> "queued"]
  /\ logged = {}
  /\ writes = [j \in Job |-> 0]
  /\ pc = [w \in Workers |-> "idle"]
  /\ current \in [Workers -> Job]
  /\ now = [w \in Workers |-> 0]
  /\ tries = [w \in Workers |-> 0]
  /\ clock = 0
  /\ crashes = 0
  /\ faults = 0

-----------------------------------------------------------------------------
(* The receiver and the clock. *)

\* create_job_once: the handler read received_at before its two inserts.
CreateJob(j) ==
  /\ jobStatus[j] = "none"
  /\ \E received \in 0 .. clock :
       nextRunAt' = [nextRunAt EXCEPT ![j] = received]
  /\ jobStatus' = [jobStatus EXCEPT ![j] = "pending"]
  /\ UNCHANGED <<attempts, lockedBy, lockedAt, outputVars, pc, localVars, envVars>>

Tick ==
  /\ clock < MaxClock
  /\ clock' = clock + 1
  /\ UNCHANGED <<jobVars, outputVars, pc, localVars, crashes, faults>>

-----------------------------------------------------------------------------
(* One turn of run_worker_loop. *)

Goto(w, step) == pc' = [pc EXCEPT ![w] = step]
At(w, step)   == pc[w] = step

\* The ticker fires; `now` is read once and used for the rest of the turn.
WakeUp(w) ==
  /\ At(w, "idle")
  /\ now' = [now EXCEPT ![w] = clock]
  /\ Goto(w, "requeue")
  /\ UNCHANGED <<jobVars, outputVars, current, tries, envVars>>

StaleWhateverStatus(t) ==  \* mutant of Stale: jobs that ended keep their lock
  {j \in Job : lockedBy[j] # Nobody /\ lockedAt[j] + ProcessingTimeout <= t}
StaleUnlocked(t) ==  \* mutant of Stale: the NULL test inverted
  {j \in Job : jobStatus[j] = "processing" /\ lockedBy[j] = Nobody}
\* Jobs that requeue_stale_processing_jobs selects at time t.
Stale(t) == {j \in Job : /\ jobStatus[j] = "processing"
                         /\ lockedBy[j] # Nobody
                         /\ lockedAt[j] + ProcessingTimeout <= t}

\* locked_at = NULL, locked_by = NULL
UnlockTimeOnly(S) ==  \* mutant of Unlock: the owner stays
  /\ lockedAt' = [j \in Job |-> IF j \in S THEN 0 ELSE lockedAt[j]]
  /\ UNCHANGED lockedBy
Unlock(S) ==
  /\ lockedBy' = [j \in Job |-> IF j \in S THEN Nobody ELSE lockedBy[j]]
  /\ lockedAt' = [j \in Job |-> IF j \in S THEN 0 ELSE lockedAt[j]]

RequeueStale(w) ==
  /\ At(w, "requeue")
  /\ LET S == Stale(now[w]) IN
       /\ jobStatus' = [j \in Job |-> IF j \in S THEN "pending" ELSE jobStatus[j]]
       /\ nextRunAt' = [j \in Job |-> IF j \in S THEN now[w] ELSE nextRunAt[j]]
       /\ Unlock(S)
  /\ Goto(w, "claim")
  /\ UNCHANGED <<attempts, outputVars, localVars, envVars>>

Due(t) == {j \in Job : jobStatus[j] = "pending" /\ nextRunAt[j] <= t}

\* ORDER BY next_run_at ASC, id ASC
Before(j, k) == \/ nextRunAt[j] < nextRunAt[k]
                \/ nextRunAt[j] = nextRunAt[k] /\ j <= k

ClaimNextJob(w) ==
  /\ At(w, "claim")
  /\ \E j \in Due(now[w]) :
       /\ \A k \in Due(now[w]) : Before(j, k)
       /\ jobStatus' = [jobStatus EXCEPT ![j] = "processing"]
       /\ lockedAt' = [lockedAt EXCEPT ![j] = now[w]]
       /\ lockedBy' = [lockedBy EXCEPT ![j] = w]
       /\ attempts' = [attempts EXCEPT ![j] = @ + 1]
       /\ current' = [current EXCEPT ![w] = j]
       /\ tries' = [tries EXCEPT ![w] = attempts[j] + 1]
  /\ Goto(w, "process")
  /\ UNCHANGED <<nextRunAt, outputVars, now, envVars>>

NoJob(w) ==
  /\ At(w, "claim")
  /\ Due(now[w]) = {}
  /\ Goto(w, "idle")
  /\ UNCHANGED <<jobVars, outputVars, localVars, envVars>>

WriteLogSkipped(w) ==  \* mutant of WriteLog: its error is ignored
  /\ At(w, "process")
  /\ Goto(w, "writeSource")
  /\ UNCHANGED <<jobVars, outputVars, localVars, envVars>>
\* Preprocessing succeeds and the entry goes to the daily log.
WriteLog(w) ==
  /\ At(w, "process")
  /\ logged' = logged \cup {current[w]}
  /\ Goto(w, "writeSource")
  /\ UNCHANGED <<jobVars, msgStatus, writes, localVars, envVars>>

\* The item is upserted into the AI source.
WriteSource(w) ==
  /\ At(w, "writeSource")
  /\ writes' = [writes EXCEPT ![current[w]] = @ + 1]
  /\ Goto(w, "markWritten")
  /\ UNCHANGED <<jobVars, msgStatus, logged, localVars, envVars>>

ProcessingFailsUnnoticed(w) ==  \* mutant of ProcessingFails: a lost `?`
  /\ pc[w] \in {"process", "writeSource"}
  /\ Goto(w, "markWritten")
  /\ UNCHANGED <<jobVars, outputVars, localVars, envVars>>
\* Any error of process_claimed_job up to the second source write: a message
\* that cannot be loaded, an external service, the disk.
ProcessingFails(w) ==
  /\ pc[w] \in {"process", "writeSource"}
  /\ Goto(w, "retryJob")
  /\ UNCHANGED <<jobVars, outputVars, localVars, envVars>>

MarkMessageDone(w) ==  \* mutant of MarkMessageSourceWritten: the job's status
  /\ At(w, "markWritten")
  /\ msgStatus' = [msgStatus EXCEPT ![current[w]] = "done"]
  /\ Goto(w, "markDone")
  /\ UNCHANGED <<jobVars, logged, writes, localVars, envVars>>
MarkBothAtOnce(w) ==  \* mutant of MarkMessageSourceWritten: ends the job early
  /\ At(w, "markWritten")
  /\ msgStatus' = [msgStatus EXCEPT ![current[w]] = "source_written"]
  /\ jobStatus' = [jobStatus EXCEPT ![current[w]] = "done"]
  /\ Goto(w, "markDone")
  /\ UNCHANGED <<attempts, nextRunAt, lockedBy, lockedAt, logged, writes, localVars, envVars>>
MarkMessageSourceWritten(w) ==
  /\ At(w, "markWritten")
  /\ msgStatus' = [msgStatus EXCEPT ![current[w]] = "source_written"]
  /\ Goto(w, "markDone")
  /\ UNCHANGED <<jobVars, logged, writes, localVars, envVars>>

MarkJobForgotten(w) ==  \* mutant of MarkJobDone: left processing
  /\ At(w, "markDone")
  /\ Goto(w, "idle")
  /\ UNCHANGED <<jobVars, outputVars, localVars, envVars>>
MarkJobDone(w) ==
  /\ At(w, "markDone")
  /\ jobStatus' = [jobStatus EXCEPT ![current[w]] = "done"]
  /\ Goto(w, "idle")
  /\ UNCHANGED <<attempts, nextRunAt, lockedBy, lockedAt, outputVars, localVars, envVars>>

\* retry_delay_seconds: the base doubles with each attempt, five times at most.
Doubling == <<1, 2, 4, 8, 16, 32>>
RetryDelay(n) ==
  LET delay == RetryBase * Doubling[IF n < 1 THEN 1 ELSE IF n > 6 THEN 6 ELSE n]
  IN  IF delay < RetryMax THEN delay ELSE RetryMax

MayRetryOnceMore(j) == attempts[j] <= MaxAttempts  \* mutant of MayRetry
MayRetry(j) == attempts[j] < MaxAttempts

\* First statement of mark_job_retry_or_failed.  The delay counts from the
\* turn's `now`, not from the failure.
RetryOrFailJob(w) ==
  /\ At(w, "retryJob")
  /\ LET j == current[w] IN
       /\ jobStatus' = [jobStatus EXCEPT ![j] = IF MayRetry(j) THEN "pending" ELSE "failed"]
       /\ nextRunAt' = [nextRunAt EXCEPT ![j] = IF MayRetry(j) THEN now[w] + RetryDelay(tries[w]) ELSE @]
       /\ Unlock({j})
  /\ Goto(w, "failMessage")
  /\ UNCHANGED <<attempts, outputVars, localVars, envVars>>

FailMessageTooEarly(w) ==  \* mutant of FailMessage: tests the other outcome
  /\ At(w, "failMessage")
  /\ LET j == current[w] IN
       msgStatus' = [msgStatus EXCEPT ![j] = IF jobStatus[j] = "pending" THEN "failed" ELSE @]
  /\ Goto(w, "idle")
  /\ UNCHANGED <<jobVars, logged, writes, localVars, envVars>>
\* Second statement: only a failed job fails its message.
FailMessage(w) ==
  /\ At(w, "failMessage")
  /\ LET j == current[w] IN
       msgStatus' = [msgStatus EXCEPT ![j] = IF jobStatus[j] = "failed" THEN "failed" ELSE @]
  /\ Goto(w, "idle")
  /\ UNCHANGED <<jobVars, logged, writes, localVars, envVars>>

-----------------------------------------------------------------------------
(* What goes wrong around the worker. *)

\* SQLite refuses a statement.  A failed requeue is only logged; a failed
\* mark_message_source_written is an error of the job; any other ends the turn.
StoreFault(w) ==
  /\ faults < MaxFaults
  /\ faults' = faults + 1
  /\ \/ At(w, "requeue") /\ Goto(w, "claim")
     \/ At(w, "markWritten") /\ Goto(w, "retryJob")
     \/ pc[w] \in {"claim", "markDone", "retryJob", "failMessage"} /\ Goto(w, "idle")
  /\ UNCHANGED <<jobVars, outputVars, localVars, clock, crashes>>

\* The process dies and is restarted: what the worker knew is gone.
Crash(w) ==
  /\ crashes < MaxCrashes
  /\ ~ At(w, "idle")
  /\ crashes' = crashes + 1
  /\ Goto(w, "idle")
  /\ UNCHANGED <<jobVars, outputVars, localVars, clock, faults>>

-----------------------------------------------------------------------------
WorkerStep(w) ==
  \/ WakeUp(w) \/ RequeueStale(w) \/ ClaimNextJob(w) \/ NoJob(w)
  \/ WriteLog(w) \/ WriteSource(w) \/ ProcessingFails(w)
  \/ MarkMessageSourceWritten(w) \/ MarkJobDone(w)
  \/ RetryOrFailJob(w) \/ FailMessage(w)

Next ==
  \/ \E j \in Job : CreateJob(j)
  \/ Tick
  \/ \E w \in Workers : WorkerStep(w) \/ StoreFault(w) \/ Crash(w)

Spec == Init /\ [][Next]_vars

\* The loop never stops and no step of it blocks for ever (the HTTP clients
\* have a timeout); nothing obliges a process to die or SQLite to refuse.
FairSpec == Spec /\ WF_vars(Tick) /\ \A w \in Workers : WF_vars(WorkerStep(w))

-----------------------------------------------------------------------------
(* Properties. *)

\* Interruptions so far: each may cost a job one attempt and one extra write.
Lost == crashes + faults

\* The deployed program: run_with_report spawns one worker loop.
SingleWorker == \A v, w \in Workers : v = w

\* While a worker works on a job, the table still says so: nobody requeued or
\* reclaimed the job under it, so its unconditional UPDATEs hit its own claim.
ClaimHeld ==
  \A w \in Workers : pc[w] \in Running =>
    LET j == current[w] IN
      /\ jobStatus[j] = "processing"
      /\ lockedBy[j] = w
      /\ tries[w] = attempts[j]

\* A processing job always carries a lock, so the stale requeue can find it
\* after a crash; a job that waits or was given up carries none.
LockMatchesStatus ==
  \A j \in Job :
    /\ jobStatus[j] = "processing" => lockedBy[j] # Nobody
    /\ jobStatus[j] \in {"none", "pending", "failed"} => lockedBy[j] = Nobody

\* A job is done only when its entry is in both outputs.
DoneIsPublished ==
  \A j \in Job : jobStatus[j] = "done" => j \in logged /\ writes[j] > 0

\* The message tells how its job ended.  It never fails while there are
\* attempts left; a job is given up only after all of them, and then the
\* message fails too, unless the second statement is still to come or was lost.
OutcomeReported ==
  \A j \in Job :
    /\ jobStatus[j] = "done" => msgStatus[j] = "source_written"
    /\ msgStatus[j] = "failed" => jobStatus[j] = "failed"
    /\ jobStatus[j] = "failed" =>
         /\ attempts[j] >= MaxAttempts
         /\ \/ msgStatus[j] = "failed"
            \/ \E w \in Workers : pc[w] = "failMessage" /\ current[w] = j
            \/ Lost > 0

\* The stale requeue ignores max_attempts, yet every attempt beyond them is
\* paid for by an interruption.
AttemptsBounded == \A j \in Job : attempts[j] <= MaxAttempts + Lost

\* Exactly one write to the AI source per message, but for interruptions.
WritesBounded == \A j \in Job : writes[j] <= 1 + Lost

\* The queue keeps the contract.
Contract == INSTANCE JobContract WITH
  state <- jobStatus, starts <- attempts, published <- {j \in Job : writes[j] > 0}
KeepsContract == Contract!Spec

\* Why the bounds hold, for one worker.  A job nobody works on has used up
\* less than the bound allows; the interruption that ends an attempt without
\* retryJob is what pays for the next one.
InHand(j, steps) == \E w \in Workers : pc[w] \in steps /\ current[w] = j
Unfinished(j)    == jobStatus[j] \in {"none", "pending", "processing"}

Budget ==
  \A j \in Job : Unfinished(j) =>
    /\ ~ InHand(j, Running) => attempts[j] < MaxAttempts + Lost
    /\ ~ InHand(j, {"markWritten", "markDone"}) => writes[j] <= Lost

\* What the steps a worker has behind it left in the outputs.
StepsBehind ==
  \A w \in Workers :
    LET j == current[w] IN
      /\ pc[w] \in {"writeSource", "markWritten", "markDone"} => j \in logged
      /\ pc[w] \in {"markWritten", "markDone"} => writes[j] > 0
      /\ pc[w] = "markDone" => msgStatus[j] = "source_written"

\* The inductive invariant: everything above together.
QueueInv ==
  /\ TypeOK /\ ClaimHeld /\ LockMatchesStatus /\ StepsBehind
  /\ DoneIsPublished /\ OutcomeReported
  /\ AttemptsBounded /\ WritesBounded /\ Budget

\* Beyond the modelled time: due, or stale, only after MaxClock.
OutOfTime(j) ==
  \/ jobStatus[j] = "pending" /\ nextRunAt[j] > MaxClock
  \/ /\ jobStatus[j] = "processing"
     /\ lockedAt[j] + ProcessingTimeout > MaxClock
     /\ \A w \in Workers : pc[w] \in Running => current[w] # j

\* Every job ends, done or failed, whatever is interrupted, unless time runs out.
EveryJobEnds ==
  \A j \in Job : jobStatus[j] # "none" ~>
    [](jobStatus[j] \in {"done", "failed"} \/ OutOfTime(j))

\* docs/technical-design.zh-CN.md:1504, a message that is source_written is
\* not written to the source again.
SourceWrittenIsNotRewritten ==
  [][\A j \in Job : msgStatus[j] = "source_written" => writes'[j] = writes[j]]_vars

\* docs/technical-design.zh-CN.md:860, a job past max_attempts is dead.
NoAttemptPastMax == \A j \in Job : attempts[j] <= MaxAttempts
=============================================================================
