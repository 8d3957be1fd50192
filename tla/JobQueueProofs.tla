--------------------------- MODULE JobQueueProofs ---------------------------
(***************************************************************************)
(* Proofs about JobQueue: type correctness and the lock discipline for any *)
(* number of workers, and for the one worker the program spawns the        *)
(* inductive invariant and that the queue keeps JobContract.               *)
(***************************************************************************)
EXTENDS JobQueue, TLAPS

\* retry_delay_seconds never leaves the naturals and never exceeds the maximum.
LEMMA RetryDelayBounded ==
  ASSUME NEW n \in Nat
  PROVE  RetryDelay(n) \in Nat /\ RetryDelay(n) <= RetryMax
<1>1. RetryBase \in Nat /\ RetryMax \in Nat
  BY BoundsAssumption
<1>2. Doubling[IF n < 1 THEN 1 ELSE IF n > 6 THEN 6 ELSE n] \in Nat
  BY DEF Doubling
<1>3. RetryBase * Doubling[IF n < 1 THEN 1 ELSE IF n > 6 THEN 6 ELSE n] \in Nat
  BY <1>1, <1>2
<1> QED
  BY <1>1, <1>3 DEF RetryDelay

\* Every step keeps the types.
LEMMA TypeStep == TypeOK /\ [Next]_vars => TypeOK'
<1> USE BoundsAssumption DEF TypeOK
<1> SUFFICES ASSUME TypeOK, [Next]_vars PROVE TypeOK'
  OBVIOUS
<1> USE DEF jobVars, outputVars, localVars, envVars, Goto, At, Steps, Running, JobStatus
<1>1. ASSUME NEW j \in Job, CreateJob(j) PROVE TypeOK'
  <2>1. \A t \in 0 .. clock : t \in Nat
    OBVIOUS
  <2> QED BY <1>1, <2>1 DEF CreateJob
<1>2. CASE Tick
  BY <1>2 DEF Tick
<1>3. ASSUME NEW w \in Workers, WorkerStep(w) PROVE TypeOK'
  <2>1. CASE WakeUp(w)
    BY <2>1 DEF WakeUp
  <2>2. CASE RequeueStale(w)
    BY <2>2 DEF RequeueStale, Unlock
  <2>3. CASE ClaimNextJob(w)
    BY <2>3 DEF ClaimNextJob, Due
  <2>4. CASE NoJob(w)
    BY <2>4 DEF NoJob
  <2>5. CASE WriteLog(w)
    BY <2>5 DEF WriteLog
  <2>6. CASE WriteSource(w)
    BY <2>6 DEF WriteSource
  <2>7. CASE ProcessingFails(w)
    BY <2>7 DEF ProcessingFails
  <2>8. CASE MarkMessageSourceWritten(w)
    BY <2>8 DEF MarkMessageSourceWritten
  <2>9. CASE MarkJobDone(w)
    BY <2>9 DEF MarkJobDone
  <2>10. CASE RetryOrFailJob(w)
    <3>1. RetryDelay(tries[w]) \in Nat /\ now[w] \in Nat
      BY RetryDelayBounded
    <3> QED BY <2>10, <3>1 DEF RetryOrFailJob, Unlock, MayRetry
  <2>11. CASE FailMessage(w)
    BY <2>11 DEF FailMessage
  <2> QED
    BY <1>3, <2>1, <2>2, <2>3, <2>4, <2>5, <2>6, <2>7, <2>8, <2>9, <2>10, <2>11 DEF WorkerStep
<1>4. ASSUME NEW w \in Workers, StoreFault(w) PROVE TypeOK'
  BY <1>4 DEF StoreFault
<1>5. ASSUME NEW w \in Workers, Crash(w) PROVE TypeOK'
  BY <1>5 DEF Crash
<1>6. CASE UNCHANGED vars
  BY <1>6 DEF vars
<1> QED
  BY <1>1, <1>2, <1>3, <1>4, <1>5, <1>6 DEF Next

\* Every column and local keeps its type, for any number of workers, jobs,
\* crashes and refused statements.
THEOREM TypeCorrect == Spec => []TypeOK
<1>1. Init => TypeOK
  BY BoundsAssumption DEF Init, TypeOK, JobStatus, Steps, Running
<1> QED
  BY <1>1, TypeStep, PTL DEF Spec

-----------------------------------------------------------------------------
(* Which steps touch what: the frame facts the invariants below share. *)

\* The worker's turn, split into the steps that leave the jobs table alone
\* and the five statements that change it.
LEMMA StepKinds ==
  ASSUME NEW w \in Workers, WorkerStep(w)
  PROVE  \/ RequeueStale(w) \/ ClaimNextJob(w) \/ MarkJobDone(w) \/ RetryOrFailJob(w)
         \/ UNCHANGED jobVars
  BY DEF WorkerStep, WakeUp, NoJob, WriteLog, WriteSource, ProcessingFails,
         MarkMessageSourceWritten, FailMessage

\* Locks follow the status through every step.
LEMMA LockStep == TypeOK /\ LockMatchesStatus /\ [Next]_vars => LockMatchesStatus'
<1> USE DEF LockMatchesStatus
<1> SUFFICES ASSUME TypeOK, LockMatchesStatus, [Next]_vars PROVE LockMatchesStatus'
  OBVIOUS
<1> USE DEF TypeOK, JobStatus
<1>1. CASE UNCHANGED jobVars
  BY <1>1 DEF jobVars
<1>2. ASSUME NEW j \in Job, CreateJob(j) PROVE LockMatchesStatus'
  BY <1>2 DEF CreateJob
<1>3. ASSUME NEW w \in Workers, RequeueStale(w) PROVE LockMatchesStatus'
  BY <1>3 DEF RequeueStale, Unlock
<1>4. ASSUME NEW w \in Workers, ClaimNextJob(w) PROVE LockMatchesStatus'
  BY <1>4, WorkersAssumption DEF ClaimNextJob, Due
<1>5. ASSUME NEW w \in Workers, MarkJobDone(w) PROVE LockMatchesStatus'
  BY <1>5 DEF MarkJobDone
<1>6. ASSUME NEW w \in Workers, RetryOrFailJob(w) PROVE LockMatchesStatus'
  BY <1>6 DEF RetryOrFailJob, Unlock, MayRetry
<1> QED
  BY <1>1, <1>2, <1>3, <1>4, <1>5, <1>6, StepKinds
  DEF Next, vars, Tick, StoreFault, Crash

\* A job is processing only under a lock, so the stale requeue reaches every
\* job a crash left behind; holds for any number of workers.
THEOREM LocksMatch == Spec => []LockMatchesStatus
<1>1. Init => LockMatchesStatus
  BY DEF Init, LockMatchesStatus
<1> QED
  BY <1>1, LockStep, TypeCorrect, PTL DEF Spec

-----------------------------------------------------------------------------
(* One worker: the inductive invariant. *)

\* What the steps of one worker, w, say about the job it has in hand.
LEMMA OneWorker ==
  ASSUME SingleWorker, NEW w \in Workers
  PROVE  /\ \A v \in Workers : v = w
         /\ \A j, S : InHand(j, S) <=> pc[w] \in S /\ current[w] = j
  BY DEF SingleWorker, InHand

\* The part of the invariant that is not already proved for every worker.
Rest == /\ ClaimHeld /\ StepsBehind /\ DoneIsPublished /\ OutcomeReported
        /\ AttemptsBounded /\ WritesBounded /\ Budget

\* Every step of the one worker, and of what surrounds it, keeps the inductive
\* invariant.
LEMMA QueueStep ==
  ASSUME SingleWorker, QueueInv, [Next]_vars
  PROVE  QueueInv'
<1> USE BoundsAssumption, WorkersAssumption
<1>a. TypeOK /\ LockMatchesStatus /\ Rest
  BY DEF QueueInv, Rest
<1>b. TypeOK' /\ LockMatchesStatus'
  BY <1>a, TypeStep, LockStep
<1> USE <1>a, <1>b DEF jobVars, outputVars, localVars, envVars, Goto, At, Lost, Running
<1> USE DEF Rest, TypeOK, ClaimHeld, StepsBehind, DoneIsPublished, OutcomeReported,
       AttemptsBounded, WritesBounded, Budget, InHand, Unfinished
<1>1. ASSUME NEW j \in Job, CreateJob(j) PROVE Rest'
  BY <1>1 DEF CreateJob
<1>2. ASSUME Tick \/ UNCHANGED vars PROVE Rest'
  <2>1. UNCHANGED <<jobVars, outputVars, pc, localVars, crashes, faults>>
    BY <1>2 DEF Tick, vars
  <2>2. ClaimHeld' /\ StepsBehind' /\ DoneIsPublished' /\ OutcomeReported'
    BY <2>1
  <2>3. AttemptsBounded' /\ WritesBounded' /\ Budget'
    BY <2>1
  <2> QED
    BY <2>2, <2>3
<1>3. ASSUME NEW w \in Workers, WakeUp(w) PROVE Rest'
  BY <1>3, OneWorker DEF WakeUp
<1>4. ASSUME NEW w \in Workers, RequeueStale(w) PROVE Rest'
  BY <1>4, OneWorker DEF RequeueStale, Unlock, Stale
<1>5. ASSUME NEW w \in Workers, ClaimNextJob(w) PROVE Rest'
  BY <1>5, OneWorker DEF ClaimNextJob, Due
<1>6. ASSUME NEW w \in Workers, NoJob(w) PROVE Rest'
  BY <1>6, OneWorker DEF NoJob
<1>7. ASSUME NEW w \in Workers, WriteLog(w) PROVE Rest'
  BY <1>7, OneWorker DEF WriteLog
<1>8. ASSUME NEW w \in Workers, WriteSource(w) PROVE Rest'
  BY <1>8, OneWorker DEF WriteSource
<1>9. ASSUME NEW w \in Workers, ProcessingFails(w) PROVE Rest'
  BY <1>9, OneWorker DEF ProcessingFails
<1>10. ASSUME NEW w \in Workers, MarkMessageSourceWritten(w) PROVE Rest'
  BY <1>10, OneWorker DEF MarkMessageSourceWritten
<1>11. ASSUME NEW w \in Workers, MarkJobDone(w) PROVE Rest'
  BY <1>11, OneWorker DEF MarkJobDone
<1>12. ASSUME NEW w \in Workers, RetryOrFailJob(w) PROVE Rest'
  BY <1>12, OneWorker DEF RetryOrFailJob, Unlock, MayRetry
<1>13. ASSUME NEW w \in Workers, FailMessage(w) PROVE Rest'
  BY <1>13, OneWorker DEF FailMessage
<1>14. ASSUME NEW w \in Workers, StoreFault(w) PROVE Rest'
  BY <1>14, OneWorker DEF StoreFault
<1>15. ASSUME NEW w \in Workers, Crash(w) PROVE Rest'
  BY <1>15, OneWorker DEF Crash
<1>16. ASSUME NEW w \in Workers, WorkerStep(w) PROVE Rest'
  BY <1>16, <1>3, <1>4, <1>5, <1>6, <1>7, <1>8, <1>9, <1>10, <1>11, <1>12, <1>13 DEF WorkerStep
<1>17. Rest'
  BY <1>1, <1>2, <1>14, <1>15, <1>16 DEF Next
<1> QED
  BY <1>17 DEF QueueInv, Rest

\* The inductive invariant holds of the deployed program for every number of
\* jobs, attempts, crashes and refused statements, whatever the delays are.
THEOREM QueueInvariant == SingleWorker => (Spec => []QueueInv)
<1> SUFFICES ASSUME SingleWorker PROVE Spec => []QueueInv
  OBVIOUS
<1>1. Init => TypeOK
  BY BoundsAssumption DEF Init, TypeOK, JobStatus, Steps, Running
<1>2. Init => QueueInv
  BY <1>1, BoundsAssumption DEF Init, QueueInv, ClaimHeld, LockMatchesStatus, StepsBehind,
     DoneIsPublished, OutcomeReported, AttemptsBounded, WritesBounded, Budget, InHand,
     Unfinished, Running, Lost
<1>3. QueueInv /\ [Next]_vars => QueueInv'
  BY QueueStep
<1> QED
  BY <1>2, <1>3, PTL DEF Spec

\* Exactly one write to the AI source per message, but for interruptions:
\* each crash or refused statement explains at most one more.
THEOREM WritesAreBounded == SingleWorker => (Spec => []WritesBounded)
  BY QueueInvariant, PTL DEF QueueInv

\* No job is attempted more than MaxAttempts times plus once per interruption.
THEOREM AttemptsAreBounded == SingleWorker => (Spec => []AttemptsBounded)
  BY QueueInvariant, PTL DEF QueueInv

\* A job that is done is in the log and in the AI source.
THEOREM DoneIsPublic == SingleWorker => (Spec => []DoneIsPublished)
  BY QueueInvariant, PTL DEF QueueInv

\* The message tells how its job ended, but for a report that was lost.
THEOREM OutcomeIsReported == SingleWorker => (Spec => []OutcomeReported)
  BY QueueInvariant, PTL DEF QueueInv

\* A worker never loses the job it works on.
THEOREM ClaimIsHeld == SingleWorker => (Spec => []ClaimHeld)
  BY QueueInvariant, PTL DEF QueueInv

-----------------------------------------------------------------------------
(* The queue implements its contract. *)

\* The steps that leave state, starts and published alone are stutters.
LEMMA StutterStep ==
  ASSUME UNCHANGED <<jobStatus, attempts, writes>>
  PROVE  UNCHANGED Contract!contractVars
  BY DEF Contract!contractVars

\* Every step is a step of the contract, or changes nothing it speaks of.
LEMMA ContractStep ==
  ASSUME QueueInv, [Next]_vars
  PROVE  [Contract!Next]_(Contract!contractVars)
<1> USE DEF QueueInv, jobVars, outputVars, localVars, envVars, Goto, At
<1>1. ASSUME NEW j \in Job, CreateJob(j) PROVE Contract!Accept(j)
  BY <1>1 DEF CreateJob, Contract!Accept, Contract!Move
<1>2. ASSUME NEW w \in Workers, RequeueStale(w) PROVE Contract!GiveBack(Stale(now[w]))
  BY <1>2 DEF RequeueStale, Unlock, Stale, Contract!GiveBack
<1>3. ASSUME NEW w \in Workers, ClaimNextJob(w) PROVE \E j \in Job : Contract!Start(j)
  BY <1>3 DEF ClaimNextJob, Due, Contract!Start, Contract!Move
<1>4. ASSUME NEW w \in Workers, WriteSource(w) PROVE Contract!Publish(current[w])
  <2>1. jobStatus[current[w]] = "processing"
    BY <1>4 DEF WriteSource, ClaimHeld, Running
  <2>2. {j \in Job : writes'[j] > 0} = {j \in Job : writes[j] > 0} \cup {current[w]}
    BY <1>4 DEF WriteSource, TypeOK
  <2> QED
    BY <1>4, <2>1, <2>2 DEF WriteSource, Contract!Publish
<1>5. ASSUME NEW w \in Workers, MarkJobDone(w) PROVE Contract!Complete(current[w])
  BY <1>5 DEF MarkJobDone, ClaimHeld, Running, StepsBehind, TypeOK, Contract!Complete, Contract!Move
<1>6. ASSUME NEW w \in Workers, RetryOrFailJob(w)
      PROVE  Contract!GiveUp(current[w]) \/ Contract!GiveBack({current[w]})
  <2>1. jobStatus[current[w]] = "processing"
    BY <1>6 DEF RetryOrFailJob, Unlock, MayRetry, ClaimHeld, Running
  <2>2. CASE attempts[current[w]] < MaxAttempts
    BY <1>6, <2>1, <2>2 DEF RetryOrFailJob, Unlock, MayRetry, TypeOK, Contract!GiveBack
  <2>3. CASE ~ (attempts[current[w]] < MaxAttempts)
    BY <1>6, <2>1, <2>3, BoundsAssumption
    DEF RetryOrFailJob, Unlock, MayRetry, TypeOK, Contract!GiveUp, Contract!Move
  <2> QED
    BY <2>2, <2>3
<1>7. ASSUME NEW w \in Workers,
             \/ WakeUp(w) \/ NoJob(w) \/ WriteLog(w) \/ ProcessingFails(w)
             \/ MarkMessageSourceWritten(w) \/ FailMessage(w) \/ StoreFault(w) \/ Crash(w)
      PROVE  UNCHANGED Contract!contractVars
  BY <1>7, StutterStep DEF WakeUp, NoJob, WriteLog, ProcessingFails,
     MarkMessageSourceWritten, FailMessage, StoreFault, Crash
<1>8. ASSUME Tick \/ UNCHANGED vars PROVE UNCHANGED Contract!contractVars
  BY <1>8, StutterStep DEF Tick, vars
<1>9. ASSUME NEW w \in Workers PROVE Stale(now[w]) \in SUBSET Job /\ current[w] \in Job
  BY <1>9 DEF Stale, TypeOK
<1>10. ASSUME NEW w \in Workers, WorkerStep(w) \/ StoreFault(w) \/ Crash(w)
       PROVE  [Contract!Next]_(Contract!contractVars)
  <2>1. {current[w]} \in SUBSET Job
    BY <1>9
  <2>2. CASE RequeueStale(w)
    <3>1. \E S \in SUBSET Job : Contract!GiveBack(S)
      BY <2>2, <1>2, <1>9
    <3> QED
      BY <3>1 DEF Contract!Next
  <2>3. CASE ClaimNextJob(w)
    BY <2>3, <1>3 DEF Contract!Next
  <2>4. CASE WriteSource(w)
    <3>1. Contract!Publish(current[w]) /\ current[w] \in Job
      BY <2>4, <1>4, <1>9
    <3>2. \E j \in Job : Contract!Publish(j)
      BY <3>1 DEF Contract!Publish
    <3> QED
      BY <3>2 DEF Contract!Next
  <2>5. CASE MarkJobDone(w)
    <3>1. \E j \in Job : Contract!Complete(j)
      BY <2>5, <1>5, <1>9
    <3> QED
      BY <3>1 DEF Contract!Next
  <2>6. CASE RetryOrFailJob(w)
    <3>1. \/ \E S \in SUBSET Job : Contract!GiveBack(S)
          \/ \E j \in Job : Contract!GiveUp(j)
      BY <2>6, <2>1, <1>6, <1>9
    <3> QED
      BY <3>1 DEF Contract!Next
  <2> QED
    BY <1>10, <2>2, <2>3, <2>4, <2>5, <2>6, <1>7 DEF WorkerStep
<1>11. ASSUME NEW j \in Job, CreateJob(j) PROVE Contract!Next
  BY <1>11, <1>1 DEF Contract!Next
<1> QED
  BY <1>8, <1>10, <1>11 DEF Next

\* The worker loop implements JobContract: no job is started after it ended,
\* completed without having been published, or given up early.
THEOREM Implements == SingleWorker => (Spec => KeepsContract)
<1> SUFFICES ASSUME SingleWorker PROVE Spec => KeepsContract
  OBVIOUS
<1>1. Init => Contract!Init
  BY DEF Init, Contract!Init
<1>2. QueueInv /\ [Next]_vars => [Contract!Next]_(Contract!contractVars)
  BY ContractStep
<1> QED
  BY <1>1, <1>2, QueueInvariant, PTL DEF Spec, KeepsContract, Contract!Spec
=============================================================================
