--------------------------- MODULE JobQueueProofs ---------------------------
(***************************************************************************)
(* Theorems about JobQueue, for all documents, settings and bounds.        *)
(***************************************************************************)
EXTENDS JobQueue, TLAPS

-----------------------------------------------------------------------------
(* What the helpers return.                                                *)

LEMMA DelayIsInteger == ASSUME NEW a \in Nat PROVE Delay(a) \in Int
<1>1. 2^(a - 1) \in Int
  BY SMT
<1>2. RetryBase * 2^(a - 1) \in Int
  BY <1>1, SettingsAssumption
<1> QED
  BY <1>2, SettingsAssumption DEF Delay, Lesser

LEMMA NullIsId == Null \in Nat /\ Null \in Int
BY DEF Null

LEMMA StatesOfRows ==
  /\ WaitingStates \subseteq JobStates /\ SettledStates \subseteq JobStates
  /\ "queued" \in JobStates /\ "retry_wait" \in JobStates /\ "processing" \in JobStates
BY DEF JobStates, WaitingStates, SettledStates

\* Writing columns of a row of `jobs' with values of their types gives a row.
LEMMA ColumnsWritten ==
  ASSUME NEW job \in JobRecord, NEW trigger \in Triggers, NEW state \in JobStates,
         NEW count \in Nat, NEW at \in Int, NEW lease \in Int, NEW run \in Nat
  PROVE  /\ [job EXCEPT !.trigger = trigger, !.state = state, !.next_attempt_at = at,
                         !.created_at = lease] \in JobRecord
         /\ [job EXCEPT !.trigger = trigger, !.state = state, !.attempt_count = count,
                         !.next_attempt_at = at, !.lease_until = lease,
                         !.current_run_id = run] \in JobRecord
         /\ [job EXCEPT !.state = state, !.attempt_count = count, !.lease_until = lease,
                         !.current_run_id = run] \in JobRecord
         /\ [job EXCEPT !.state = state, !.lease_until = lease] \in JobRecord
         /\ [job EXCEPT !.state = state, !.lease_until = lease,
                         !.next_attempt_at = at] \in JobRecord
BY DEF JobRecord

\* The rows that the queue writes are rows of the tables.
LEMMA WrittenJobsTyped ==
  ASSUME TypeOK, NEW job \in JobRecord, NEW trigger \in Triggers
  PROVE  /\ NoJob \in JobRecord
         /\ NewJob(trigger) \in JobRecord
         /\ Requeued(job, trigger) \in JobRecord
         /\ Claimed(job) \in JobRecord
<1>0. /\ clock \in Int /\ now \in Int /\ LeaseSeconds \in Int
      /\ now + LeaseSeconds \in Int /\ Len(runs) + 1 \in Nat
  BY LiteralsAssumption DEF TypeOK
<1>1. NoJob \in JobRecord
  BY NullIsId DEF NoJob, JobRecord, Triggers
<1>2. NewJob(trigger) \in JobRecord
  BY <1>0, <1>1, StatesOfRows, NullIsId, ColumnsWritten DEF NewJob
<1>3. Requeued(job, trigger) \in JobRecord
  BY <1>0, StatesOfRows, NullIsId, ColumnsWritten DEF Requeued
<1>4. Claimed(job) \in JobRecord
  <2>1. job.attempt_count + 1 \in Nat
    BY DEF JobRecord
  <2> QED
    BY <1>0, <2>1, StatesOfRows, ColumnsWritten DEF Claimed
<1> QED
  BY <1>1, <1>2, <1>3, <1>4

LEMMA ColumnsOfRunWritten ==
  ASSUME NEW run \in RunRecord, NEW state \in JobStates, NEW at \in Int
  PROVE  [run EXCEPT !.state = state, !.finished_at = at] \in RunRecord
BY DEF RunRecord

LEMMA RunsTyped ==
  ASSUME TypeOK
  PROVE  \A r \in RunIds : runs[r] \in RunRecord /\ runs[r].document \in Documents
<1>1. \A r \in RunIds : runs[r] \in RunRecord
  BY DEF TypeOK, RunIds
<1> QED
  BY <1>1 DEF RunRecord

\* Closing the current run keeps the table's length and its other rows.
LEMMA FinishCurrentRunEffect ==
  ASSUME TypeOK, PointersWithinRuns, NEW d \in Documents,
         NEW state \in JobStates
  PROVE  /\ FinishCurrentRun(d, state) \in Seq(RunRecord)
         /\ Len(FinishCurrentRun(d, state)) = Len(runs)
         /\ \A r \in RunIds : FinishCurrentRun(d, state)[r] =
              IF r = jobs[d].current_run_id
              THEN [runs[r] EXCEPT !.state = state, !.finished_at = now] ELSE runs[r]
<1> DEFINE cur == jobs[d].current_run_id
           closed == [runs[cur] EXCEPT !.state = state, !.finished_at = now]
<1>1. CASE cur = Null
  <2>1. FinishCurrentRun(d, state) = runs
    BY <1>1 DEF FinishCurrentRun
  <2>2. \A r \in RunIds : r # cur
    BY <1>1 DEF RunIds, Null, TypeOK
  <2> QED
    BY <2>1, <2>2 DEF TypeOK
<1>2. CASE cur # Null
  <2>1. cur \in 1 .. Len(runs) /\ runs[cur] \in RunRecord
    BY <1>2 DEF PointersWithinRuns, RunIds, TypeOK
  <2>2. closed \in RunRecord
    <3>1. now \in Int
      BY DEF TypeOK
    <3> QED
      BY <2>1, <3>1, ColumnsOfRunWritten
  <2>3. FinishCurrentRun(d, state) = [runs EXCEPT ![cur] = closed]
    BY <1>2 DEF FinishCurrentRun
  <2> HIDE DEF closed
  <2>4. /\ [runs EXCEPT ![cur] = closed] \in Seq(RunRecord)
        /\ Len([runs EXCEPT ![cur] = closed]) = Len(runs)
        /\ \A r \in 1 .. Len(runs) :
              [runs EXCEPT ![cur] = closed][r] = IF r = cur THEN closed ELSE runs[r]
    BY <2>1, <2>2 DEF TypeOK
  <2> QED
    BY <2>3, <2>4 DEF RunIds, closed
<1> QED
  BY <1>1, <1>2

-----------------------------------------------------------------------------
LEMMA InitEstablishesIInv == Init => IInv
<1> SUFFICES ASSUME Init PROVE IInv
  OBVIOUS
<1>1. NoJob \in JobRecord
  BY NullIsId DEF NoJob, JobRecord, Triggers
<1>2. TypeOK
  <2>1. jobs \in [Documents -> JobRecord]
    BY <1>1 DEF Init
  <2>2. runs \in Seq(RunRecord)
    BY DEF Init
  <2> QED
    BY <2>1, <2>2, NullIsId DEF Init, TypeOK
<1>3. RunIds = {}
  BY DEF Init, RunIds
<1>4. PointersWithinRuns /\ WaitingJobHasAttemptLeft
  BY DEF Init, PointersWithinRuns, NoJob, Null, WaitingJobHasAttemptLeft, WaitingStates
<1>5. RunJobAgreement /\ AttemptsWithinBudget
  BY <1>3, SettingsAssumption DEF Init, RunJobAgreement, NoJob, AttemptsWithinBudget
<1>6. WorkerHoldsOpenRun /\ ClosedRunsAreStamped
  BY <1>3 DEF Init, WorkerHoldsOpenRun, ClosedRunsAreStamped, Null
<1> QED
  BY <1>2, <1>4, <1>5, <1>6 DEF IInv

-----------------------------------------------------------------------------
(* Every step changes the tables in one of three ways, or not at all.      *)

\* Row d is put back to the start of a cycle.
RowQueued(d) ==
  \E job \in JobRecord :
    /\ job.state = "queued" /\ job.attempt_count = 0 /\ job.current_run_id = Null
    /\ jobs[d].state \notin ActiveStates
    /\ job.next_attempt_at = clock
    /\ jobs[d].state # "absent" => job.trigger = "reprocess"
    /\ jobs' = [jobs EXCEPT ![d] = job]
    /\ UNCHANGED <<runs, worker, stop, clock, faults>>

\* Row d is claimed and points at the run appended for it.
RowClaimed(d) ==
  \E job \in JobRecord, run \in RunRecord :
    /\ pc = "cleaning" /\ jobs[d].state \in WaitingStates
    /\ job.state = "processing" /\ job.attempt_count = jobs[d].attempt_count + 1
    /\ job.current_run_id = Len(runs) + 1
    /\ run.document = d /\ run.attempt = job.attempt_count
    /\ run.state = "processing" /\ run.finished_at = Null
    /\ run.trigger = jobs[d].trigger /\ job.trigger = jobs[d].trigger
    /\ run.started_at = now
    /\ jobs[d].next_attempt_at <= now
    /\ \A e \in DueJobs : OrderedBefore(d, e)
    /\ jobs' = [jobs EXCEPT ![d] = job]
    /\ runs' = Append(runs, run)
    /\ pc' = "processing" /\ claimed' = Len(runs) + 1
    /\ UNCHANGED <<now, stop, environment>>

\* The outcome of the attempt in the worker's hands is saved.
RowSaved(d, state) ==
  \E job \in JobRecord :
    /\ pc = "processing" /\ d = ClaimedDocument
    /\ job.state = state /\ job.attempt_count = jobs[d].attempt_count
    /\ job.current_run_id = jobs[d].current_run_id
    /\ job.trigger = jobs[d].trigger
    /\ state = "retry_wait" =>
          /\ runs[claimed].attempt < MaxAttempts
          /\ job.next_attempt_at >= now
          /\ job.next_attempt_at >= now + Delay(runs[claimed].attempt)
          /\ job.next_attempt_at <= now + Delay(runs[claimed].attempt) + MaxJitter
    /\ jobs' = [jobs EXCEPT ![d] = job]
    /\ runs' = FinishCurrentRun(d, state)
    /\ pc' = "idle"
    /\ UNCHANGED <<now, stop, environment>>

\* A run stays in the worker's hands only while it goes on processing it, and
\* only a fault takes it away.
TablesUntouched ==
  /\ UNCHANGED database
  /\ pc' = "processing" => pc = "processing" /\ claimed' = claimed /\ now' = now
  /\ pc = "processing" /\ pc' # "processing" => faults' = faults + 1
  /\ faults' \in {faults, faults + 1}
  /\ now' \in {now, clock} /\ clock' \in {clock, clock + 1}

LEMMA EnqueueQueuesRow ==
  ASSUME TypeOK, NEW d \in Documents, NEW trigger \in Triggers, NEW force \in BOOLEAN,
         force => trigger = "reprocess", Request, Enqueue(d, trigger, force)
  PROVE  RowQueued(d) \/ TablesUntouched
<1> USE DEF Request, environment, worker, database
<1>0. jobs[d] \in JobRecord
  BY DEF TypeOK
<1>1. CASE jobs[d].state = "absent"
  <2>1. jobs' = [jobs EXCEPT ![d] = NewJob(trigger)]
    BY <1>1 DEF Enqueue
  <2>2. NewJob(trigger) \in JobRecord
    BY <1>0, WrittenJobsTyped
  <2>3. /\ NewJob(trigger).state = "queued" /\ NewJob(trigger).attempt_count = 0
        /\ NewJob(trigger).current_run_id = Null /\ NewJob(trigger).next_attempt_at = clock
    BY DEF NewJob, NoJob
  <2>4. RowQueued(d)
    BY <1>1, <2>1, <2>2, <2>3 DEF RowQueued, ActiveStates
  <2> QED
    BY <2>4
<1>2. CASE jobs[d].state # "absent" /\ force /\ jobs[d].state \notin ActiveStates
  <2>1. jobs' = [jobs EXCEPT ![d] = Requeued(jobs[d], trigger)]
    BY <1>2 DEF Enqueue
  <2>2. Requeued(jobs[d], trigger) \in JobRecord
    BY <1>0, WrittenJobsTyped
  <2>3. /\ Requeued(jobs[d], trigger).state = "queued"
        /\ Requeued(jobs[d], trigger).attempt_count = 0
        /\ Requeued(jobs[d], trigger).current_run_id = Null
        /\ Requeued(jobs[d], trigger).next_attempt_at = clock
        /\ Requeued(jobs[d], trigger).trigger = trigger
    BY <1>0 DEF Requeued, JobRecord
  <2>4. RowQueued(d)
    BY <1>2, <2>1, <2>2, <2>3 DEF RowQueued
  <2> QED
    BY <2>4
<1>3. CASE ~(jobs[d].state = "absent") /\
           ~(jobs[d].state # "absent" /\ force /\ jobs[d].state \notin ActiveStates)
  <2>1. jobs' = jobs
    BY <1>3 DEF Enqueue
  <2> QED
    BY <2>1 DEF TablesUntouched
<1> QED
  BY <1>1, <1>2, <1>3

LEMMA ClaimClaimsRow ==
  ASSUME TypeOK, NEW d \in Documents, ClaimDueJob(d)
  PROVE  RowClaimed(d)
<1>0. jobs[d] \in JobRecord
  BY DEF TypeOK
<1>1. Claimed(jobs[d]) \in JobRecord
  BY <1>0, WrittenJobsTyped DEF Triggers
<1>2. /\ Claimed(jobs[d]).state = "processing"
      /\ Claimed(jobs[d]).attempt_count = jobs[d].attempt_count + 1
      /\ Claimed(jobs[d]).current_run_id = Len(runs) + 1
      /\ Claimed(jobs[d]).trigger = jobs[d].trigger
  BY <1>0 DEF Claimed, JobRecord
<1>3. NewRun(d) \in RunRecord
  BY <1>0 DEF NewRun, RunRecord, JobRecord, TypeOK, JobStates, Null
<1>4. /\ NewRun(d).document = d /\ NewRun(d).attempt = jobs[d].attempt_count + 1
      /\ NewRun(d).state = "processing" /\ NewRun(d).finished_at = Null
      /\ NewRun(d).trigger = jobs[d].trigger /\ NewRun(d).started_at = now
  BY DEF NewRun
<1> QED
  BY <1>1, <1>2, <1>3, <1>4 DEF ClaimDueJob, RowClaimed, DueJobs

\* What the claim left behind for the worker, which nobody else changes.
LEMMA ClaimedRunIsCurrent ==
  ASSUME IInv, pc = "processing"
  PROVE  /\ claimed \in RunIds /\ runs[claimed] \in RunRecord
         /\ ClaimedDocument \in Documents /\ jobs[ClaimedDocument] \in JobRecord
         /\ jobs[ClaimedDocument].state = "processing"
         /\ jobs[ClaimedDocument].current_run_id = claimed
         /\ jobs[ClaimedDocument].attempt_count = ClaimedAttempt
<1>1. claimed \in RunIds /\ runs[claimed].state = "processing"
  BY DEF IInv, WorkerHoldsOpenRun
<1>2. runs[claimed] \in RunRecord
  BY <1>1 DEF IInv, TypeOK, RunIds
<1>3. runs[claimed].document \in Documents /\ jobs[runs[claimed].document] \in JobRecord
  BY <1>2 DEF RunRecord, IInv, TypeOK
<1>4. /\ jobs[runs[claimed].document].state = "processing"
      /\ jobs[runs[claimed].document].current_run_id = claimed
  BY <1>1 DEF IInv, RunJobAgreement
<1>5. jobs[runs[claimed].document].attempt_count = runs[claimed].attempt
  BY <1>3, <1>4 DEF IInv, RunJobAgreement
<1> QED
  BY <1>1, <1>2, <1>3, <1>4, <1>5 DEF ClaimedDocument, ClaimedAttempt

\* A leaf of the four outcomes: both finish_run and schedule_retry save row d.
LEMMA FinishSavesRow ==
  ASSUME IInv, pc = "processing", NEW state \in SettledStates,
         FinishRun(ClaimedDocument, state)
  PROVE  RowSaved(ClaimedDocument, state)
<1> DEFINE job == [jobs[ClaimedDocument] EXCEPT !.state = state, !.lease_until = Null]
<1>1. jobs[ClaimedDocument] \in JobRecord
  BY ClaimedRunIsCurrent
<1>2. job \in JobRecord
  BY <1>1, StatesOfRows, NullIsId, ColumnsWritten DEF Triggers
<1>2a. /\ job.state = state
       /\ job.attempt_count = jobs[ClaimedDocument].attempt_count
       /\ job.current_run_id = jobs[ClaimedDocument].current_run_id
       /\ job.trigger = jobs[ClaimedDocument].trigger
  BY <1>1 DEF JobRecord
<1>3. jobs' = [jobs EXCEPT ![ClaimedDocument] = job]
  BY DEF FinishRun
<1>4. state # "retry_wait"
  BY DEF SettledStates
<1> HIDE DEF job
<1> QED
  BY <1>2, <1>2a, <1>3, <1>4 DEF RowSaved, FinishRun, Return

LEMMA RetrySavesRow ==
  ASSUME IInv, ScheduleAnotherAttempt
  PROVE  RowSaved(ClaimedDocument, "retry_wait")
<1>0. pc = "processing"
  BY DEF ScheduleAnotherAttempt
<1>1. jobs[ClaimedDocument] \in JobRecord /\ runs[claimed] \in RunRecord
  BY <1>0, ClaimedRunIsCurrent
<1>2. ClaimedAttempt \in Nat
  BY <1>1 DEF RunRecord, ClaimedAttempt
<1>3. PICK jitter \in 0 .. Lesser(Delay(ClaimedAttempt), MaxJitter) :
        ScheduleRetry(ClaimedDocument, RetryAt(ClaimedAttempt, jitter))
  BY DEF ScheduleAnotherAttempt
<1>4. RetryAt(ClaimedAttempt, jitter) \in Int
  <2>1. Delay(ClaimedAttempt) \in Int
    BY <1>2, DelayIsInteger
  <2>2. now \in Int
    BY DEF IInv, TypeOK
  <2>3. jitter \in Int
    BY <1>3
  <2> QED
    BY <2>1, <2>2, <2>3 DEF RetryAt
<1> DEFINE at == RetryAt(ClaimedAttempt, jitter)
           job == [jobs[ClaimedDocument] EXCEPT !.state = "retry_wait", !.lease_until = Null,
                                                !.next_attempt_at = at]
<1> HIDE DEF at
<1>5. job \in JobRecord
  BY <1>1, <1>4, StatesOfRows, NullIsId, ColumnsWritten DEF at, Triggers
<1>5a. /\ job.state = "retry_wait"
       /\ job.attempt_count = jobs[ClaimedDocument].attempt_count
       /\ job.current_run_id = jobs[ClaimedDocument].current_run_id
       /\ job.trigger = jobs[ClaimedDocument].trigger
  BY <1>1 DEF JobRecord
<1>5b. /\ job.next_attempt_at >= now
       /\ job.next_attempt_at >= now + Delay(runs[claimed].attempt)
       /\ job.next_attempt_at <= now + Delay(runs[claimed].attempt) + MaxJitter
  <2>1. job.next_attempt_at = at
    BY <1>1 DEF JobRecord
  <2>2. /\ Delay(ClaimedAttempt) \in Int /\ now \in Int
        /\ jitter \in Int /\ 0 <= jitter /\ jitter <= Delay(ClaimedAttempt)
        /\ MaxJitter \in Int /\ jitter <= MaxJitter
    BY <1>2, <1>3, DelayIsInteger, LiteralsAssumption DEF IInv, TypeOK, Lesser
  <2> QED
    BY <2>1, <2>2 DEF at, RetryAt, ClaimedAttempt
<1>6. jobs' = [jobs EXCEPT ![ClaimedDocument] = job]
  BY <1>3 DEF ScheduleRetry, at
<1>7. runs[claimed].attempt < MaxAttempts
  BY <1>2, SettingsAssumption DEF ScheduleAnotherAttempt, Exhausted, ClaimedAttempt
<1> HIDE DEF job
<1> QED
  BY <1>0, <1>3, <1>5, <1>5a, <1>5b, <1>6, <1>7 DEF RowSaved, ScheduleRetry, Return

SavedStates == SettledStates \union {"retry_wait"}

\* The case split that every invariant below is proved along.
LEMMA StepChangesOneRow ==
  ASSUME IInv, [Next]_vars
  PROVE  \/ \E d \in Documents : RowQueued(d)
         \/ \E d \in Documents : RowClaimed(d)
         \/ \E d \in Documents, state \in SavedStates : RowSaved(d, state)
         \/ TablesUntouched
<1> USE DEF database, worker, environment
<1>0. TypeOK
  BY DEF IInv
<1>1. ASSUME NEW d \in Documents, PaperlessWebhook(d) PROVE RowQueued(d) \/ TablesUntouched
  BY <1>0, <1>1, EnqueueQueuesRow DEF PaperlessWebhook, Triggers
<1>2. ASSUME NEW d \in Documents, ReprocessDocument(d) PROVE RowQueued(d) \/ TablesUntouched
  BY <1>0, <1>2, EnqueueQueuesRow DEF ReprocessDocument, Triggers
<1>3. ASSUME NEW d \in Documents, ClaimDueJob(d) PROVE RowClaimed(d)
  BY <1>0, <1>3, ClaimClaimsRow
<1>4. ASSUME pc = "processing", NEW state \in SettledStates, FinishRun(ClaimedDocument, state)
      PROVE  \E d \in Documents, s \in SavedStates : RowSaved(d, s)
  <2>1. RowSaved(ClaimedDocument, state)
    BY <1>4, FinishSavesRow
  <2>2. ClaimedDocument \in Documents
    BY <1>4, ClaimedRunIsCurrent
  <2> QED
    BY <2>1, <2>2 DEF SavedStates
<1>5. ASSUME NEW state \in {"succeeded", "conflict"}, SaveResult(state)
      PROVE  \E d \in Documents, s \in SavedStates : RowSaved(d, s)
  BY <1>4, <1>5 DEF SaveResult, SettledStates
<1>6. CASE FailPermanently \/ GiveUp
  BY <1>4, <1>6 DEF FailPermanently, GiveUp, SettledStates
<1>7. CASE ScheduleAnotherAttempt
  <2>1. RowSaved(ClaimedDocument, "retry_wait")
    BY <1>7, RetrySavesRow
  <2>2. ClaimedDocument \in Documents
    BY <1>7, ClaimedRunIsCurrent DEF ScheduleAnotherAttempt
  <2> QED
    BY <2>1, <2>2 DEF SavedStates
<1>8. CASE BeginIteration
  BY <1>8 DEF BeginIteration, TablesUntouched
<1>9. CASE NothingDue
  BY <1>9 DEF NothingDue, TablesUntouched
<1>10. CASE StorageFailure
  BY <1>10 DEF StorageFailure, TablesUntouched
<1>11. CASE Stop
  BY <1>11 DEF Stop, TablesUntouched
<1>12. CASE Exit \/ Crash \/ Restart
  BY <1>12 DEF Exit, Crash, Restart, TablesUntouched
<1>13. CASE Tick
  BY <1>13 DEF Tick, TablesUntouched
<1>14. CASE UNCHANGED vars
  BY <1>14 DEF vars, TablesUntouched
<1> QED
  BY <1>1, <1>2, <1>3, <1>5, <1>6, <1>7, <1>8, <1>9, <1>10, <1>11, <1>12, <1>13, <1>14
     DEF Next, WorkerStep

-----------------------------------------------------------------------------
(* The inductive invariant.                                                *)

LEMMA ControlTyped ==
  ASSUME TypeOK, [Next]_vars
  PROVE  /\ pc' \in {"idle", "cleaning", "processing", "dead", "down"}
         /\ now' \in Nat /\ claimed' \in Nat /\ stop' \in BOOLEAN /\ clock' \in Nat
         /\ requests' \in Nat /\ stops' \in Nat /\ faults' \in Nat
<1> DEFINE Typed ==
      /\ pc' \in {"idle", "cleaning", "processing", "dead", "down"}
      /\ now' \in Nat /\ claimed' \in Nat /\ stop' \in BOOLEAN /\ clock' \in Nat
      /\ requests' \in Nat /\ stops' \in Nat /\ faults' \in Nat
<1> USE NullIsId DEF TypeOK, worker, environment
<1>1. ASSUME Request PROVE Typed
  BY <1>1 DEF Request
<1>2. ASSUME NEW d \in Documents, ClaimDueJob(d) PROVE Typed
  BY <1>2 DEF ClaimDueJob
<1>3. ASSUME Return PROVE Typed
  BY <1>3 DEF Return
<1>4. ASSUME NEW d \in Documents, PaperlessWebhook(d) \/ ReprocessDocument(d) PROVE Request
  BY <1>4 DEF PaperlessWebhook, ReprocessDocument
<1>5. ASSUME NEW state \in {"succeeded", "conflict"}, SaveResult(state)
      PROVE  Return
  BY <1>5 DEF SaveResult, FinishRun
<1>6. ASSUME FailPermanently \/ GiveUp \/ ScheduleAnotherAttempt PROVE Return
  BY <1>6 DEF FailPermanently, GiveUp, ScheduleAnotherAttempt, FinishRun, ScheduleRetry
<1>7. ASSUME BeginIteration \/ NothingDue PROVE Typed
  BY <1>7 DEF BeginIteration, NothingDue
<1>8. ASSUME StorageFailure PROVE Typed
  BY <1>8 DEF StorageFailure
<1>9. ASSUME Stop PROVE Typed
  BY <1>9 DEF Stop
<1>10. ASSUME Exit \/ Crash \/ Restart PROVE Typed
  <2>1. CASE Exit
    BY <2>1 DEF Exit
  <2>2. CASE Crash
    BY <2>2 DEF Crash
  <2>3. CASE Restart
    BY <2>3 DEF Restart
  <2> QED
    BY <1>10, <2>1, <2>2, <2>3
<1>11. ASSUME Tick PROVE Typed
  BY <1>11 DEF Tick
<1>12. ASSUME UNCHANGED vars PROVE Typed
  BY <1>12 DEF vars, TypeOK
<1> HIDE DEF Typed
<1>13. Typed
  BY <1>1, <1>2, <1>3, <1>4, <1>5, <1>6, <1>7, <1>8, <1>9, <1>10, <1>11, <1>12
     DEF Next, WorkerStep
<1> QED
  BY <1>13 DEF Typed

LEMMA QueuedRowKeepsIInv ==
  ASSUME IInv, TypeOK', NEW d \in Documents, RowQueued(d)
  PROVE  IInv'
<1>1. PICK job \in JobRecord :
        /\ job.state = "queued" /\ job.attempt_count = 0 /\ job.current_run_id = Null
        /\ jobs[d].state \notin ActiveStates
        /\ jobs' = [jobs EXCEPT ![d] = job]
        /\ UNCHANGED <<runs, worker, stop, clock>>
  BY DEF RowQueued
<1>2. jobs'[d] = job /\ \A e \in Documents \ {d} : jobs'[e] = jobs[e]
  BY <1>1 DEF IInv, TypeOK
<1>3. /\ runs' = runs /\ RunIds' = RunIds
      /\ pc' = pc /\ claimed' = claimed /\ now' = now /\ clock' = clock
  BY <1>1 DEF RunIds, worker
<1>4. jobs[d].state # "processing"
  BY <1>1 DEF ActiveStates
<1>5. PointersWithinRuns'
  BY <1>1, <1>2, <1>3 DEF IInv, PointersWithinRuns
<1>6. RunJobAgreement'
  <2>1. \A r \in RunIds : runs[r].document = d => runs[r].state # "processing"
    BY <1>4 DEF IInv, RunJobAgreement
  <2>2. \A r \in RunIds : runs[r].document \in Documents
    BY RunsTyped DEF IInv
  <2> QED
    BY <1>1, <1>2, <1>3, <2>1, <2>2 DEF IInv, RunJobAgreement
<1>7. WorkerHoldsOpenRun' /\ ClosedRunsAreStamped'
  BY <1>3 DEF IInv, WorkerHoldsOpenRun, ClosedRunsAreStamped
<1>8. WaitingJobHasAttemptLeft' /\ AttemptsWithinBudget'
  BY <1>1, <1>2, <1>3, SettingsAssumption DEF IInv, WaitingJobHasAttemptLeft, AttemptsWithinBudget
<1> QED
  BY <1>5, <1>6, <1>7, <1>8 DEF IInv

LEMMA ClaimedRowKeepsIInv ==
  ASSUME IInv, TypeOK', NEW d \in Documents, RowClaimed(d)
  PROVE  IInv'
<1>1. PICK job \in JobRecord, run \in RunRecord :
        /\ pc = "cleaning" /\ jobs[d].state \in WaitingStates
        /\ job.state = "processing" /\ job.attempt_count = jobs[d].attempt_count + 1
        /\ job.current_run_id = Len(runs) + 1
        /\ run.document = d /\ run.attempt = job.attempt_count
        /\ run.state = "processing" /\ run.finished_at = Null
        /\ jobs' = [jobs EXCEPT ![d] = job]
        /\ runs' = Append(runs, run)
        /\ pc' = "processing" /\ claimed' = Len(runs) + 1
        /\ UNCHANGED <<now, stop, environment>>
  BY DEF RowClaimed
<1> DEFINE new == Len(runs) + 1
<1>2. jobs'[d] = job /\ \A e \in Documents \ {d} : jobs'[e] = jobs[e]
  BY <1>1 DEF IInv, TypeOK
<1>3. /\ RunIds' = RunIds \union {new} /\ new \notin RunIds /\ new \in Nat
      /\ runs'[new] = run
      /\ \A r \in RunIds : runs'[r] = runs[r]
  BY <1>1 DEF IInv, TypeOK, RunIds
<1>4. now' = now /\ clock' = clock
  BY <1>1 DEF environment
<1>5. jobs[d].state # "processing" /\ jobs[d].attempt_count < MaxAttempts
  BY <1>1 DEF WaitingStates, IInv, WaitingJobHasAttemptLeft
<1>6. \A r \in RunIds : /\ runs[r].document \in Documents
                        /\ runs[r].document = d => runs[r].state # "processing"
  BY <1>5, RunsTyped DEF IInv, RunJobAgreement
<1>7. PointersWithinRuns'
  <2>1. jobs'[d].current_run_id \in RunIds' /\ runs'[jobs'[d].current_run_id].document = d
    BY <1>1, <1>2, <1>3
  <2>2. ASSUME NEW e \in Documents \ {d}, jobs'[e].current_run_id # Null
        PROVE  /\ jobs'[e].current_run_id \in RunIds'
               /\ runs'[jobs'[e].current_run_id].document = e
    BY <1>2, <1>3, <2>2 DEF IInv, PointersWithinRuns
  <2> QED
    BY <2>1, <2>2 DEF PointersWithinRuns
<1>8. RunJobAgreement'
  <2>1. \A e \in Documents : jobs'[e].state = "processing" =>
           /\ jobs'[e].current_run_id \in RunIds'
           /\ runs'[jobs'[e].current_run_id].attempt = jobs'[e].attempt_count
    <3>1. /\ jobs'[d].current_run_id \in RunIds'
          /\ runs'[jobs'[d].current_run_id].attempt = jobs'[d].attempt_count
      BY <1>1, <1>2, <1>3
    <3>2. ASSUME NEW e \in Documents \ {d}, jobs'[e].state = "processing"
          PROVE  /\ jobs'[e].current_run_id \in RunIds'
                 /\ runs'[jobs'[e].current_run_id].attempt = jobs'[e].attempt_count
      BY <1>2, <1>3, <3>2 DEF IInv, RunJobAgreement
    <3> QED
      BY <3>1, <3>2
  <2>2. \A r \in RunIds' : runs'[r].state = "processing" <=>
           /\ jobs'[runs'[r].document].state = "processing"
           /\ jobs'[runs'[r].document].current_run_id = r
    <3>1. ASSUME NEW r \in RunIds, runs[r].document = d
          PROVE  runs'[r].state # "processing" /\ jobs'[d].current_run_id # r
      <4>1. runs'[r] = runs[r] /\ runs[r].state # "processing"
        BY <1>3, <1>6, <3>1
      <4>2. r # new /\ jobs'[d].current_run_id = new
        BY <1>1, <1>2, <1>3
      <4> QED
        BY <4>1, <4>2
    <3>2. ASSUME NEW r \in RunIds, runs[r].document # d
          PROVE  runs'[r].state = "processing" <=>
                   /\ jobs'[runs'[r].document].state = "processing"
                   /\ jobs'[runs'[r].document].current_run_id = r
      BY <1>2, <1>3, <1>6, <3>2 DEF IInv, RunJobAgreement
    <3>3. /\ runs'[new].state = "processing" /\ runs'[new].document = d
          /\ jobs'[d].state = "processing" /\ jobs'[d].current_run_id = new
      BY <1>1, <1>2, <1>3
    <3> QED
      BY <1>3, <3>1, <3>2, <3>3
  <2> QED
    BY <2>1, <2>2 DEF RunJobAgreement
<1>9. WorkerHoldsOpenRun'
  BY <1>1, <1>3 DEF WorkerHoldsOpenRun
<1>10. WaitingJobHasAttemptLeft'
  BY <1>1, <1>2 DEF IInv, WaitingJobHasAttemptLeft, WaitingStates
<1>11. AttemptsWithinBudget'
  <2>1. job.attempt_count \in Nat /\ jobs[d].attempt_count \in Nat
    BY DEF JobRecord, IInv, TypeOK
  <2>2. job.attempt_count <= MaxAttempts
    BY <1>1, <1>5, <2>1, SettingsAssumption
  <2> QED
    BY <1>1, <1>2, <1>3, <2>2 DEF IInv, AttemptsWithinBudget
<1>12. ClosedRunsAreStamped'
  BY <1>1, <1>3, <1>4 DEF IInv, ClosedRunsAreStamped
<1> QED
  BY <1>7, <1>8, <1>9, <1>10, <1>11, <1>12 DEF IInv

LEMMA SavedRowKeepsIInv ==
  ASSUME IInv, TypeOK', NEW d \in Documents, NEW state \in SavedStates, RowSaved(d, state)
  PROVE  IInv'
<1>1. PICK job \in JobRecord :
        /\ pc = "processing" /\ d = ClaimedDocument
        /\ job.state = state /\ job.attempt_count = jobs[d].attempt_count
        /\ job.current_run_id = jobs[d].current_run_id
        /\ state = "retry_wait" => runs[claimed].attempt < MaxAttempts
        /\ jobs' = [jobs EXCEPT ![d] = job]
        /\ runs' = FinishCurrentRun(d, state)
        /\ pc' = "idle"
        /\ UNCHANGED <<now, stop, environment>>
  BY DEF RowSaved
<1>2. jobs'[d] = job /\ \A e \in Documents \ {d} : jobs'[e] = jobs[e]
  BY <1>1 DEF IInv, TypeOK
<1>3. /\ claimed \in RunIds /\ runs[claimed].document = d
      /\ jobs[d].state = "processing" /\ jobs[d].current_run_id = claimed
      /\ jobs[d].attempt_count = runs[claimed].attempt
  BY <1>1, ClaimedRunIsCurrent DEF ClaimedDocument, ClaimedAttempt
<1>4. state \in JobStates /\ state # "processing"
  BY DEF SavedStates, JobStates, SettledStates, WaitingStates
<1> DEFINE closed == [runs[claimed] EXCEPT !.state = state, !.finished_at = now]
<1>5. RunIds' = RunIds /\ \A r \in RunIds : runs'[r] = IF r = claimed THEN closed ELSE runs[r]
  <2>1. Len(runs') = Len(runs)
    BY <1>1, <1>4, FinishCurrentRunEffect DEF IInv
  <2>2. \A r \in RunIds : runs'[r] = IF r = jobs[d].current_run_id
             THEN [runs[r] EXCEPT !.state = state, !.finished_at = now] ELSE runs[r]
    BY <1>1, <1>4, FinishCurrentRunEffect DEF IInv
  <2> QED
    BY <1>3, <2>1, <2>2 DEF RunIds
<1>6. /\ closed.document = d /\ closed.attempt = runs[claimed].attempt
      /\ closed.state = state /\ closed.finished_at = now
  BY <1>1, <1>3, ClaimedRunIsCurrent DEF RunRecord
<1> HIDE DEF closed
<1>7. now' = now /\ clock' = clock
  BY <1>1 DEF environment
<1>8. \A r \in RunIds : /\ runs[r].document \in Documents
                        /\ runs[r].document = d /\ r # claimed => runs[r].state # "processing"
  BY <1>3, RunsTyped DEF IInv, RunJobAgreement
<1>9. PointersWithinRuns'
  BY <1>1, <1>2, <1>3, <1>5, <1>6 DEF IInv, PointersWithinRuns
<1>10. RunJobAgreement'
  <2>1. \A e \in Documents : jobs'[e].state = "processing" =>
           /\ jobs'[e].current_run_id \in RunIds'
           /\ runs'[jobs'[e].current_run_id].attempt = jobs'[e].attempt_count
    BY <1>1, <1>2, <1>4, <1>5, <1>6 DEF IInv, RunJobAgreement
  <2>2. ASSUME NEW r \in RunIds
        PROVE  runs'[r].state = "processing" <=>
                 /\ jobs'[runs'[r].document].state = "processing"
                 /\ jobs'[runs'[r].document].current_run_id = r
    <3>1. CASE runs[r].document = d
      BY <1>1, <1>2, <1>4, <1>5, <1>6, <1>8, <3>1
    <3>2. CASE runs[r].document # d
      BY <1>2, <1>3, <1>5, <1>8, <3>2 DEF IInv, RunJobAgreement
    <3> QED
      BY <3>1, <3>2
  <2> QED
    BY <1>5, <2>1, <2>2 DEF RunJobAgreement
<1>11. WorkerHoldsOpenRun'
  BY <1>1 DEF WorkerHoldsOpenRun
<1>12. WaitingJobHasAttemptLeft'
  <2>1. state \in WaitingStates => state = "retry_wait"
    BY DEF SavedStates, SettledStates, WaitingStates
  <2> QED
    BY <1>1, <1>2, <1>3, <2>1 DEF IInv, WaitingJobHasAttemptLeft
<1>13. AttemptsWithinBudget'
  BY <1>1, <1>2, <1>3, <1>5, <1>6 DEF IInv, AttemptsWithinBudget
<1>14. ClosedRunsAreStamped'
  BY <1>4, <1>5, <1>6, <1>7 DEF IInv, ClosedRunsAreStamped
<1> QED
  BY <1>9, <1>10, <1>11, <1>12, <1>13, <1>14 DEF IInv

LEMMA UntouchedTablesKeepIInv ==
  ASSUME IInv, TypeOK', TablesUntouched
  PROVE  IInv'
<1>1. jobs' = jobs /\ runs' = runs /\ RunIds' = RunIds
  BY DEF TablesUntouched, database, RunIds
<1>2. now' # Null /\ clock' # Null
  BY DEF TablesUntouched, IInv, TypeOK, ClosedRunsAreStamped, Null
<1>3. WorkerHoldsOpenRun'
  BY <1>1 DEF TablesUntouched, IInv, WorkerHoldsOpenRun
<1>4. ClosedRunsAreStamped'
  BY <1>1, <1>2 DEF IInv, ClosedRunsAreStamped
<1>5. PointersWithinRuns' /\ RunJobAgreement'
  BY <1>1 DEF IInv, PointersWithinRuns, RunJobAgreement
<1>6. WaitingJobHasAttemptLeft' /\ AttemptsWithinBudget'
  BY <1>1 DEF IInv, WaitingJobHasAttemptLeft, AttemptsWithinBudget
<1> QED
  BY <1>3, <1>4, <1>5, <1>6 DEF IInv

LEMMA TablesTyped ==
  ASSUME IInv, [Next]_vars
  PROVE  jobs' \in [Documents -> JobRecord] /\ runs' \in Seq(RunRecord)
<1>1. TypeOK
  BY DEF IInv
<1>2. ASSUME NEW d \in Documents, RowQueued(d) \/ RowClaimed(d)
      PROVE  jobs' \in [Documents -> JobRecord] /\ runs' \in Seq(RunRecord)
  BY <1>1, <1>2 DEF RowQueued, RowClaimed, TypeOK
<1>3. ASSUME NEW d \in Documents, NEW state \in SavedStates, RowSaved(d, state)
      PROVE  jobs' \in [Documents -> JobRecord] /\ runs' \in Seq(RunRecord)
  <2>1. state \in JobStates
    BY StatesOfRows DEF SavedStates
  <2>2. FinishCurrentRun(d, state) \in Seq(RunRecord)
    BY <1>1, <2>1, FinishCurrentRunEffect DEF IInv
  <2> QED
    BY <1>1, <1>3, <2>2 DEF RowSaved, TypeOK
<1>4. CASE TablesUntouched
  BY <1>1, <1>4 DEF TablesUntouched, database, TypeOK
<1> QED
  BY <1>2, <1>3, <1>4, StepChangesOneRow

LEMMA StepKeepsIInv == IInv /\ [Next]_vars => IInv'
<1> SUFFICES ASSUME IInv, [Next]_vars PROVE IInv'
  OBVIOUS
<1>1. TypeOK'
  <2>1. TypeOK
    BY DEF IInv
  <2> QED
    BY <2>1, ControlTyped, TablesTyped DEF TypeOK
<1> QED
  BY <1>1, StepChangesOneRow, QueuedRowKeepsIInv, ClaimedRowKeepsIInv, SavedRowKeepsIInv,
     UntouchedTablesKeepIInv

\* Types, the agreement of both tables, the attempt budget and their
\* strengthening hold for every set of documents and every setting.
THEOREM QueueInvariant == Spec => []IInv
BY InitEstablishesIInv, StepKeepsIInv, PTL DEF Spec

\* The variables keep their types.
THEOREM TypeCorrectness == Spec => []TypeOK
<1>1. IInv => TypeOK
  BY DEF IInv
<1> QED
  BY <1>1, QueueInvariant, PTL

\* A job is processing exactly while its current run is, through any number of
\* requests, attempts, crashes and restarts.
THEOREM TablesAgree == Spec => []RunJobAgreement
<1>1. IInv => RunJobAgreement
  BY DEF IInv
<1> QED
  BY <1>1, QueueInvariant, PTL

\* No document is attempted more than max_attempts times per request.
THEOREM BudgetHolds == Spec => []AttemptsWithinBudget
<1>1. IInv => AttemptsWithinBudget
  BY DEF IInv
<1> QED
  BY <1>1, QueueInvariant, PTL

-----------------------------------------------------------------------------
(* History.                                                                *)

\* A closed run is never rewritten, whatever happens to its job later.
THEOREM HistoryIsImmutable == Spec => ClosedRunsStayClosed
<1>1. IInv /\ [Next]_vars => ClosedRunsKept
  <2> SUFFICES ASSUME IInv, [Next]_vars PROVE ClosedRunsKept
    OBVIOUS
  <2> USE DEF ClosedRunsKept
  <2>1. ASSUME NEW d \in Documents, RowQueued(d) PROVE ClosedRunsKept
    BY <2>1 DEF RowQueued, RunIds
  <2>2. ASSUME NEW d \in Documents, RowClaimed(d) PROVE ClosedRunsKept
    BY <2>2 DEF RowClaimed, RunIds, IInv, TypeOK
  <2>3. ASSUME NEW d \in Documents, NEW state \in SavedStates, RowSaved(d, state)
        PROVE  ClosedRunsKept
    <3>1. /\ pc = "processing" /\ d = ClaimedDocument /\ runs' = FinishCurrentRun(d, state)
      BY <2>3 DEF RowSaved
    <3>2. claimed \in RunIds /\ jobs[d].current_run_id = claimed
      BY <3>1, ClaimedRunIsCurrent
    <3>3. runs[claimed].finished_at = Null
      BY <3>1, <3>2 DEF IInv, WorkerHoldsOpenRun, ClosedRunsAreStamped
    <3>4. state \in JobStates
      BY StatesOfRows DEF SavedStates
    <3>5. /\ Len(runs') = Len(runs)
          /\ \A r \in RunIds : r # claimed => runs'[r] = runs[r]
      BY <3>1, <3>2, <3>4, FinishCurrentRunEffect DEF IInv
    <3> QED
      BY <3>3, <3>5 DEF RunIds
  <2>4. CASE TablesUntouched
    BY <2>4 DEF TablesUntouched, database, RunIds
  <2> QED
    BY <2>1, <2>2, <2>3, <2>4, StepChangesOneRow
<1> QED
  BY <1>1, QueueInvariant, PTL DEF Spec, ClosedRunsStayClosed

-----------------------------------------------------------------------------
(* The queue implements JobLifecycle.                                      *)

\* One document changes its status, the others keep theirs.
LEMMA StatusChange ==
  ASSUME NEW d \in Documents, NEW s,
         \A e \in Documents \ {d} : LifecycleStatus(e)' = LifecycleStatus(e),
         LifecycleStatus(d)' = s
  PROVE  [e \in Documents |-> LifecycleStatus(e)]'
           = [[e \in Documents |-> LifecycleStatus(e)] EXCEPT ![d] = s]
OBVIOUS

LEMMA StatusByState ==
  ASSUME NEW d \in Documents, jobs[d] \in JobRecord
  PROVE  /\ jobs[d].state \in WaitingStates <=> LifecycleStatus(d) = "waiting"
         /\ jobs[d].state \in SettledStates <=> LifecycleStatus(d) = "settled"
         /\ jobs[d].state = "absent" <=> LifecycleStatus(d) = "unknown"
         /\ jobs[d].state = "processing" /\ Stranded(d) <=> LifecycleStatus(d) = "lost"
         /\ jobs[d].state = "processing" /\ ~Stranded(d) <=> LifecycleStatus(d) = "running"
BY DEF JobRecord, JobStates, WaitingStates, SettledStates, LifecycleStatus

LEMMA LifecycleInit == Init => Lifecycle!Init
<1> SUFFICES ASSUME Init PROVE Lifecycle!Init
  OBVIOUS
<1>1. \A d \in Documents : jobs[d].state = "absent" /\ jobs[d].attempt_count = 0
  BY DEF Init, NoJob
<1>2. \A d \in Documents : LifecycleStatus(d) = "unknown"
  BY <1>1 DEF LifecycleStatus, WaitingStates, SettledStates
<1> QED
  BY <1>1, <1>2 DEF Lifecycle!Init

LEMMA JobsTyped ==
  ASSUME TypeOK, NEW d \in Documents
  PROVE  jobs[d] \in JobRecord /\ jobs[d].attempt_count \in Nat
BY DEF TypeOK, JobRecord

\* Who is stranded depends on the worker only.
LEMMA StatusOfUntouchedRow ==
  ASSUME NEW e \in Documents, jobs'[e] = jobs[e], Stranded(e)' <=> Stranded(e)
  PROVE  LifecycleStatus(e)' = LifecycleStatus(e)
BY DEF LifecycleStatus

LEMMA QueuedRowIsAccepted ==
  ASSUME IInv, IInv', NEW d \in Documents, RowQueued(d)
  PROVE  Lifecycle!Accept(d)
<1>1. PICK job \in JobRecord :
        /\ job.state = "queued" /\ job.attempt_count = 0 /\ job.current_run_id = Null
        /\ jobs[d].state \notin ActiveStates
        /\ jobs' = [jobs EXCEPT ![d] = job]
        /\ UNCHANGED <<runs, worker, stop, clock>>
  BY DEF RowQueued
<1>2. jobs'[d] = job /\ \A e \in Documents \ {d} : jobs'[e] = jobs[e]
  BY <1>1 DEF IInv, TypeOK
<1>3. jobs[d] \in JobRecord /\ jobs'[d] \in JobRecord
  BY <1>2, JobsTyped DEF IInv
<1>4. LifecycleStatus(d) \in {"unknown", "settled"}
  BY <1>1, <1>3, StatusByState DEF JobRecord, JobStates, ActiveStates, WaitingStates
<1>5. LifecycleStatus(d)' = "waiting"
  BY <1>1, <1>2 DEF LifecycleStatus, WaitingStates, SettledStates
<1>6. ASSUME NEW e \in Documents \ {d} PROVE LifecycleStatus(e)' = LifecycleStatus(e)
  <2>1. Stranded(e)' <=> Stranded(e)
    BY <1>1, <1>2 DEF Stranded, ClaimedDocument, worker
  <2> QED
    BY <1>2, <2>1, StatusOfUntouchedRow
<1>7. [e \in Documents |-> LifecycleStatus(e)]'
        = [[e \in Documents |-> LifecycleStatus(e)] EXCEPT ![d] = "waiting"]
  BY <1>5, <1>6, StatusChange
<1>8. [e \in Documents |-> jobs[e].attempt_count]'
        = [[e \in Documents |-> jobs[e].attempt_count] EXCEPT ![d] = 0]
  <2>1. \A e \in Documents : jobs'[e].attempt_count = IF e = d THEN 0 ELSE jobs[e].attempt_count
    BY <1>1, <1>2
  <2> QED
    BY <2>1
<1> QED
  BY <1>4, <1>7, <1>8 DEF Lifecycle!Accept

LEMMA ClaimedRowIsStarted ==
  ASSUME IInv, IInv', NEW d \in Documents, RowClaimed(d)
  PROVE  Lifecycle!Start(d)
<1>1. PICK job \in JobRecord, run \in RunRecord :
        /\ pc = "cleaning" /\ jobs[d].state \in WaitingStates
        /\ job.state = "processing" /\ job.attempt_count = jobs[d].attempt_count + 1
        /\ job.current_run_id = Len(runs) + 1
        /\ run.document = d /\ run.attempt = job.attempt_count
        /\ run.state = "processing" /\ run.finished_at = Null
        /\ jobs' = [jobs EXCEPT ![d] = job]
        /\ runs' = Append(runs, run)
        /\ pc' = "processing" /\ claimed' = Len(runs) + 1
        /\ UNCHANGED <<now, stop, environment>>
  BY DEF RowClaimed
<1>2. jobs'[d] = job /\ \A e \in Documents \ {d} : jobs'[e] = jobs[e]
  BY <1>1 DEF IInv, TypeOK
<1>3. ClaimedDocument' = d
  BY <1>1 DEF ClaimedDocument, IInv, TypeOK
<1>4. \A e \in Documents : jobs[e] \in JobRecord
  BY JobsTyped DEF IInv
<1>5. \A e \in Documents : jobs[e].state = "processing" => Stranded(e)
  BY <1>1 DEF Stranded
<1>6. LifecycleStatus(d) = "waiting"
  BY <1>1, <1>4, StatusByState
<1>7. \A e \in Documents : LifecycleStatus(e) # "running"
  BY <1>4, <1>5, StatusByState
<1>8. LifecycleStatus(d)' = "running"
  <2>1. ~Stranded(d)'
    BY <1>1, <1>3 DEF Stranded
  <2> QED
    BY <1>1, <1>2, <2>1 DEF LifecycleStatus, WaitingStates, SettledStates
<1>9. ASSUME NEW e \in Documents \ {d} PROVE LifecycleStatus(e)' = LifecycleStatus(e)
  <2>1. Stranded(e)' <=> Stranded(e)
    BY <1>1, <1>2, <1>3, <1>5 DEF Stranded
  <2> QED
    BY <1>2, <2>1, StatusOfUntouchedRow
<1>10. [e \in Documents |-> LifecycleStatus(e)]'
         = [[e \in Documents |-> LifecycleStatus(e)] EXCEPT ![d] = "running"]
  BY <1>8, <1>9, StatusChange
<1>11. [e \in Documents |-> jobs[e].attempt_count]'
         = [[e \in Documents |-> jobs[e].attempt_count] EXCEPT
              ![d] = [e \in Documents |-> jobs[e].attempt_count][d] + 1]
  <2>1. \A e \in Documents : jobs'[e].attempt_count =
            IF e = d THEN jobs[d].attempt_count + 1 ELSE jobs[e].attempt_count
    BY <1>1, <1>2
  <2> QED
    BY <2>1
<1>12. jobs[d].attempt_count < MaxAttempts
  BY <1>1 DEF IInv, WaitingJobHasAttemptLeft
<1> QED
  BY <1>6, <1>7, <1>10, <1>11, <1>12 DEF Lifecycle!Start

LEMMA SavedRowIsSettledOrRetried ==
  ASSUME IInv, IInv', NEW d \in Documents, NEW state \in SavedStates, RowSaved(d, state)
  PROVE  Lifecycle!Settle(d) \/ Lifecycle!Retry(d)
<1>1. PICK job \in JobRecord :
        /\ pc = "processing" /\ d = ClaimedDocument
        /\ job.state = state /\ job.attempt_count = jobs[d].attempt_count
        /\ job.current_run_id = jobs[d].current_run_id
        /\ state = "retry_wait" => runs[claimed].attempt < MaxAttempts
        /\ jobs' = [jobs EXCEPT ![d] = job]
        /\ runs' = FinishCurrentRun(d, state)
        /\ pc' = "idle"
        /\ UNCHANGED <<now, stop, environment>>
  BY DEF RowSaved
<1>2. jobs'[d] = job /\ \A e \in Documents \ {d} : jobs'[e] = jobs[e]
  BY <1>1 DEF IInv, TypeOK
<1>3. jobs[d].state = "processing" /\ jobs[d].attempt_count = runs[claimed].attempt
  BY <1>1, ClaimedRunIsCurrent DEF ClaimedAttempt
<1>4. LifecycleStatus(d) = "running"
  BY <1>1, <1>3 DEF LifecycleStatus, Stranded, WaitingStates, SettledStates
<1>5. ASSUME NEW e \in Documents \ {d} PROVE LifecycleStatus(e)' = LifecycleStatus(e)
  <2>1. Stranded(e)' <=> Stranded(e)
    BY <1>1, <1>2 DEF Stranded
  <2> QED
    BY <1>2, <2>1, StatusOfUntouchedRow
<1>6. [e \in Documents |-> jobs[e].attempt_count]' = [e \in Documents |-> jobs[e].attempt_count]
  BY <1>1, <1>2
<1>7. CASE state \in SettledStates
  <2>1. LifecycleStatus(d)' = "settled"
    BY <1>1, <1>2, <1>7 DEF LifecycleStatus, WaitingStates, SettledStates
  <2>2. [e \in Documents |-> LifecycleStatus(e)]'
          = [[e \in Documents |-> LifecycleStatus(e)] EXCEPT ![d] = "settled"]
    BY <1>5, <2>1, StatusChange
  <2> QED
    BY <1>4, <1>6, <2>2 DEF Lifecycle!Settle
<1>8. CASE state = "retry_wait"
  <2>1. LifecycleStatus(d)' = "waiting"
    BY <1>1, <1>2, <1>8 DEF LifecycleStatus, WaitingStates, SettledStates
  <2>2. [e \in Documents |-> LifecycleStatus(e)]'
          = [[e \in Documents |-> LifecycleStatus(e)] EXCEPT ![d] = "waiting"]
    BY <1>5, <2>1, StatusChange
  <2>3. jobs[d].attempt_count < MaxAttempts
    BY <1>1, <1>3, <1>8
  <2> QED
    BY <1>4, <1>6, <2>2, <2>3 DEF Lifecycle!Retry
<1> QED
  BY <1>7, <1>8 DEF SavedStates

\* The tables stand still: a document is lost when the worker lets go of it.
LEMMA UntouchedTablesLoseOrStutter ==
  ASSUME IInv, IInv', TablesUntouched
  PROVE  \/ \E d \in Documents : Lifecycle!Lose(d)
         \/ UNCHANGED Lifecycle!lifecycle
<1>1. jobs' = jobs /\ runs' = runs
  BY DEF TablesUntouched, database
<1>2. [e \in Documents |-> jobs[e].attempt_count]' = [e \in Documents |-> jobs[e].attempt_count]
  BY <1>1
<1>3. CASE pc = "processing" /\ pc' # "processing"
  <2> DEFINE d == ClaimedDocument
  <2>1. d \in Documents /\ jobs[d].state = "processing"
    BY <1>3, ClaimedRunIsCurrent
  <2>2. LifecycleStatus(d) = "running"
    BY <1>3, <2>1 DEF LifecycleStatus, Stranded, WaitingStates, SettledStates
  <2>3. \A e \in Documents : jobs'[e].state = "processing" => Stranded(e)'
    BY <1>3 DEF Stranded
  <2>4. PICK c \in Documents : c = d
    BY <2>1
  <2>5. LifecycleStatus(c)' = "lost"
    BY <1>1, <2>1, <2>3, <2>4 DEF LifecycleStatus, WaitingStates, SettledStates
  <2>6. ASSUME NEW e \in Documents \ {c} PROVE LifecycleStatus(e)' = LifecycleStatus(e)
    <3>1. Stranded(e)' <=> Stranded(e)
      BY <1>1, <1>3, <2>4 DEF Stranded
    <3> QED
      BY <1>1, <3>1, StatusOfUntouchedRow
  <2>7. [e \in Documents |-> LifecycleStatus(e)]'
          = [[e \in Documents |-> LifecycleStatus(e)] EXCEPT ![c] = "lost"]
    BY <2>5, <2>6, StatusChange
  <2>8. Lifecycle!Lose(c)
    BY <1>2, <2>2, <2>4, <2>7 DEF Lifecycle!Lose
  <2> QED
    BY <2>8
<1>4. CASE ~(pc = "processing" /\ pc' # "processing")
  <2>1. ASSUME NEW e \in Documents PROVE LifecycleStatus(e)' = LifecycleStatus(e)
    <3>1. Stranded(e)' <=> Stranded(e)
      BY <1>1, <1>4 DEF Stranded, ClaimedDocument, TablesUntouched
    <3> QED
      BY <1>1, <3>1, StatusOfUntouchedRow
  <2>2. [e \in Documents |-> LifecycleStatus(e)]' = [e \in Documents |-> LifecycleStatus(e)]
    BY <2>1
  <2> QED
    BY <1>2, <2>2 DEF Lifecycle!lifecycle
<1> QED
  BY <1>3, <1>4

\* Every step of handlers, worker and process moves one document along its
\* abstract life, or none: one attempt at a time, within the budget, and never
\* again after an interruption.
THEOREM QueueImplementsLifecycle == Spec => ImplementsLifecycle
<1>1. IInv /\ IInv' /\ [Next]_vars => [Lifecycle!Next]_(Lifecycle!lifecycle)
  <2> SUFFICES ASSUME IInv, IInv', [Next]_vars
               PROVE  Lifecycle!Next \/ UNCHANGED Lifecycle!lifecycle
    OBVIOUS
  <2>1. ASSUME NEW d \in Documents, RowQueued(d) \/ RowClaimed(d) PROVE Lifecycle!Next
    BY <2>1, QueuedRowIsAccepted, ClaimedRowIsStarted DEF Lifecycle!Next
  <2>2. ASSUME NEW d \in Documents, NEW state \in SavedStates, RowSaved(d, state)
        PROVE  Lifecycle!Next
    BY <2>2, SavedRowIsSettledOrRetried DEF Lifecycle!Next
  <2>3. CASE TablesUntouched
    BY <2>3, UntouchedTablesLoseOrStutter DEF Lifecycle!Next
  <2> QED
    BY <2>1, <2>2, <2>3, StepChangesOneRow
<1> QED
  BY <1>1, LifecycleInit, QueueInvariant, PTL DEF Spec, ImplementsLifecycle, Lifecycle!Spec
=============================================================================
