-------------------------- MODULE MistralDockProofs --------------------------
(***************************************************************************)
(* Theorems about MistralDock, for all settings, tags, owners and bounds:  *)
(* the program does what its two parts do, so what is proved of a part     *)
(* holds in it, and what only the two together promise.                    *)
(***************************************************************************)
EXTENDS MistralDock, FiniteSetTheorems, TLAPS

\* The theorems of the parts, about the variables of the program.
QueueProofs == INSTANCE JobHistoryProofs WITH Documents <- {Document}
UpdateProofs == INSTANCE DocumentUpdateProofs WITH
    pc <- UpdatePc, attempts <- job.attempt_count, MaxReprocesses <- MaxRequests

-----------------------------------------------------------------------------
(* Each step is a step of the queue, or none.                              *)

LEMMA QueueSettings ==
    /\ QueueProofs!DocumentsAssumption /\ QueueProofs!SettingsAssumption
    /\ QueueProofs!LiteralsAssumption /\ QueueProofs!BoundsAssumption
BY QueueConstants
   DEF QueueProofs!DocumentsAssumption, QueueProofs!SettingsAssumption,
       QueueProofs!LiteralsAssumption, QueueProofs!BoundsAssumption,
       Queue!SettingsAssumption, Queue!LiteralsAssumption, Queue!BoundsAssumption

\* The definitions of the two instances are the same.
LEMMA SameTables ==
    /\ Queue!Init <=> QueueProofs!Init
    /\ Queue!vars = QueueProofs!vars
    /\ Queue!TypeOK <=> QueueProofs!TypeOK
BY DEF Queue!Init, QueueProofs!Init, Queue!vars, QueueProofs!vars, Queue!NoJob, QueueProofs!NoJob,
       Queue!Null, QueueProofs!Null, Queue!TypeOK, QueueProofs!TypeOK,
       Queue!JobRecord, QueueProofs!JobRecord, Queue!RunRecord, QueueProofs!RunRecord,
       Queue!Triggers, QueueProofs!Triggers, Queue!JobStates, QueueProofs!JobStates,
       Queue!WaitingStates, QueueProofs!WaitingStates,
       Queue!SettledStates, QueueProofs!SettledStates

LEMMA SameRequests ==
    /\ Queue!PaperlessWebhook(Document) <=> QueueProofs!PaperlessWebhook(Document)
    /\ Queue!ReprocessDocument(Document) <=> QueueProofs!ReprocessDocument(Document)
<1>1. Queue!Request <=> QueueProofs!Request
  BY DEF Queue!Request, QueueProofs!Request, Queue!Serving, QueueProofs!Serving,
         Queue!worker, QueueProofs!worker
<1>2. \A trigger, force : Queue!Enqueue(Document, trigger, force)
                            <=> QueueProofs!Enqueue(Document, trigger, force)
  BY DEF Queue!Enqueue, QueueProofs!Enqueue, Queue!NewJob, QueueProofs!NewJob,
         Queue!Requeued, QueueProofs!Requeued, Queue!NoJob, QueueProofs!NoJob,
         Queue!Null, QueueProofs!Null, Queue!ActiveStates, QueueProofs!ActiveStates
<1> QED
  BY <1>1, <1>2 DEF Queue!PaperlessWebhook, QueueProofs!PaperlessWebhook,
                    Queue!ReprocessDocument, QueueProofs!ReprocessDocument

LEMMA SameIteration ==
    /\ Queue!BeginIteration <=> QueueProofs!BeginIteration
    /\ Queue!ClaimDueJob(Document) <=> QueueProofs!ClaimDueJob(Document)
    /\ Queue!NothingDue <=> QueueProofs!NothingDue
<1>1. Queue!DueJobs = QueueProofs!DueJobs
  BY DEF Queue!DueJobs, QueueProofs!DueJobs, Queue!WaitingStates, QueueProofs!WaitingStates
<1>2. Queue!BeginIteration <=> QueueProofs!BeginIteration
  BY DEF Queue!BeginIteration, QueueProofs!BeginIteration, Queue!database, QueueProofs!database,
         Queue!environment, QueueProofs!environment
<1>3. Queue!ClaimDueJob(Document) <=> QueueProofs!ClaimDueJob(Document)
  BY <1>1 DEF Queue!ClaimDueJob, QueueProofs!ClaimDueJob,
              Queue!OrderedBefore, QueueProofs!OrderedBefore, Queue!Claimed, QueueProofs!Claimed,
              Queue!NewRun, QueueProofs!NewRun, Queue!Null, QueueProofs!Null,
              Queue!environment, QueueProofs!environment
<1>4. Queue!NothingDue <=> QueueProofs!NothingDue
  BY <1>1 DEF Queue!NothingDue, QueueProofs!NothingDue, Queue!database, QueueProofs!database,
              Queue!environment, QueueProofs!environment
<1> QED
  BY <1>2, <1>3, <1>4

LEMMA SameOutcomes ==
    /\ \A state : Queue!SaveResult(state) <=> QueueProofs!SaveResult(state)
    /\ Queue!FailPermanently <=> QueueProofs!FailPermanently
    /\ Queue!ScheduleAnotherAttempt <=> QueueProofs!ScheduleAnotherAttempt
    /\ Queue!GiveUp <=> QueueProofs!GiveUp
<1>1. \A d, state : Queue!FinishCurrentRun(d, state) = QueueProofs!FinishCurrentRun(d, state)
  BY DEF Queue!FinishCurrentRun, QueueProofs!FinishCurrentRun, Queue!Null, QueueProofs!Null
<1>2. Queue!Return <=> QueueProofs!Return
  BY DEF Queue!Return, QueueProofs!Return, Queue!Null, QueueProofs!Null,
         Queue!environment, QueueProofs!environment
<1>3. \A d, state : Queue!FinishRun(d, state) <=> QueueProofs!FinishRun(d, state)
  BY <1>1, <1>2 DEF Queue!FinishRun, QueueProofs!FinishRun, Queue!Null, QueueProofs!Null
<1>4. \A d, at : Queue!ScheduleRetry(d, at) <=> QueueProofs!ScheduleRetry(d, at)
  BY <1>1, <1>2 DEF Queue!ScheduleRetry, QueueProofs!ScheduleRetry, Queue!Null, QueueProofs!Null
<1>5. /\ Queue!ClaimedDocument = QueueProofs!ClaimedDocument
      /\ Queue!ClaimedAttempt = QueueProofs!ClaimedAttempt
      /\ \A a : Queue!Exhausted(a) <=> QueueProofs!Exhausted(a)
      /\ \A a : Queue!Delay(a) = QueueProofs!Delay(a)
      /\ \A a, b : Queue!Lesser(a, b) = QueueProofs!Lesser(a, b)
      /\ \A a, j : Queue!RetryAt(a, j) = QueueProofs!RetryAt(a, j)
  BY DEF Queue!ClaimedDocument, QueueProofs!ClaimedDocument,
         Queue!ClaimedAttempt, QueueProofs!ClaimedAttempt,
         Queue!Exhausted, QueueProofs!Exhausted, Queue!Delay, QueueProofs!Delay,
         Queue!Lesser, QueueProofs!Lesser, Queue!RetryAt, QueueProofs!RetryAt
<1>6. \A state : Queue!SaveResult(state) <=> QueueProofs!SaveResult(state)
  BY <1>3, <1>5 DEF Queue!SaveResult, QueueProofs!SaveResult
<1>7. Queue!FailPermanently <=> QueueProofs!FailPermanently
  BY <1>3, <1>5 DEF Queue!FailPermanently, QueueProofs!FailPermanently
<1>8. Queue!ScheduleAnotherAttempt <=> QueueProofs!ScheduleAnotherAttempt
  BY <1>4, <1>5 DEF Queue!ScheduleAnotherAttempt, QueueProofs!ScheduleAnotherAttempt
<1>9. Queue!GiveUp <=> QueueProofs!GiveUp
  BY <1>3, <1>5 DEF Queue!GiveUp, QueueProofs!GiveUp
<1> QED
  BY <1>6, <1>7, <1>8, <1>9

LEMMA SameProcess ==
    /\ Queue!StorageFailure <=> QueueProofs!StorageFailure
    /\ Queue!Stop <=> QueueProofs!Stop
    /\ Queue!Exit <=> QueueProofs!Exit
    /\ Queue!Crash <=> QueueProofs!Crash
    /\ Queue!Restart <=> QueueProofs!Restart
    /\ Queue!Tick <=> QueueProofs!Tick
BY DEF Queue!StorageFailure, QueueProofs!StorageFailure, Queue!Stop, QueueProofs!Stop,
       Queue!Exit, QueueProofs!Exit, Queue!Crash, QueueProofs!Crash,
       Queue!Restart, QueueProofs!Restart, Queue!Tick, QueueProofs!Tick,
       Queue!Serving, QueueProofs!Serving, Queue!worker, QueueProofs!worker,
       Queue!database, QueueProofs!database, Queue!environment, QueueProofs!environment,
       Queue!Null, QueueProofs!Null

LEMMA SameNext == Queue!Next <=> QueueProofs!Next
<1>1. Queue!WorkerStep <=> QueueProofs!WorkerStep
  BY SameIteration, SameOutcomes DEF Queue!WorkerStep, QueueProofs!WorkerStep
<1> QED
  BY <1>1, SameRequests, SameProcess DEF Queue!Next, QueueProofs!Next

LEMMA StepOfTheQueue == [Next]_vars => [Queue!Next]_(Queue!vars)
<1> SUFFICES ASSUME [Next]_vars PROVE Queue!Next \/ UNCHANGED queueVars
  BY DEF Queue!vars, queueVars
<1>1. CASE Webhook \/ Reprocess
  BY <1>1 DEF Webhook, Reprocess, Queue!Next
<1>2. CASE QueueStep \/ Outside
  BY <1>2 DEF QueueStep, Outside, Queue!Next, Queue!WorkerStep
<1>3. CASE Claim
  BY <1>3 DEF Claim, Queue!Next, Queue!WorkerStep
<1>4. CASE Attempt \/ World
  BY <1>4 DEF Attempt, World
<1>5. CASE Succeed \/ FindConflict
  BY <1>5 DEF Succeed, FindConflict, Queue!Next, Queue!WorkerStep
<1>6. CASE Fail \/ RetryLater
  BY <1>6 DEF Fail, RetryLater, Queue!Next, Queue!WorkerStep
<1>7. CASE CutOff
  BY <1>7 DEF CutOff, Queue!Next
<1>8. CASE UNCHANGED vars
  BY <1>8 DEF vars
<1> QED
  BY <1>1, <1>2, <1>3, <1>4, <1>5, <1>6, <1>7, <1>8 DEF Next, WorkerStep

\* What happens to the tables of MistralDock happens to those of a queue: composing
\* the worker with the processor takes nothing away from the queue and adds nothing.
THEOREM RunsTheQueue == Spec => Queue!Spec
<1>1. Init => Queue!Init
  BY DEF Init
<1> QED
  BY <1>1, StepOfTheQueue, PTL DEF Spec, Queue!Spec

LEMMA RunsTheProvedQueue == Spec => QueueProofs!Spec
<1>1. Init => QueueProofs!Init
  BY SameTables DEF Init
<1>2. [Next]_vars => [QueueProofs!Next]_(QueueProofs!vars)
  <2>1. Queue!Next => QueueProofs!Next
    BY SameNext
  <2>2. UNCHANGED Queue!vars => UNCHANGED QueueProofs!vars
    BY DEF Queue!vars, QueueProofs!vars
  <2> QED
    BY <2>1, <2>2, StepOfTheQueue
<1> QED
  BY <1>1, <1>2, PTL DEF Spec, QueueProofs!Spec

\* The invariant of the queue, and what its theorems say.
LEMMA QueueInvariant == Spec => []QueueProofs!IInv
BY RunsTheProvedQueue, QueueSettings, QueueProofs!QueueInvariant, PTL

\* When the queue is about to end an attempt, the run it ends is the claimed one.
LEMMA ClaimedRun ==
    ASSUME QueueProofs!IInv, pc = "processing"
    PROVE  /\ claimed \in 1 .. Len(runs) /\ runs[claimed].document = Document
           /\ runs[claimed].state = "processing"
           /\ job.state = "processing" /\ job.current_run_id = claimed
<1>1. /\ claimed \in QueueProofs!RunIds /\ QueueProofs!ClaimedDocument \in {Document}
      /\ jobs[QueueProofs!ClaimedDocument].state = "processing"
      /\ jobs[QueueProofs!ClaimedDocument].current_run_id = claimed
  BY QueueSettings, QueueProofs!ClaimedRunIsCurrent
<1>2. runs[claimed].state = "processing"
  BY DEF QueueProofs!IInv, QueueProofs!WorkerHoldsOpenRun
<1> QED
  BY <1>1, <1>2 DEF QueueProofs!RunIds, QueueProofs!ClaimedDocument, job

-----------------------------------------------------------------------------
(* What the steps of the queue do to the job and to the runs.              *)

Settled == {"succeeded", "failed", "conflict"}

LEMMA JobTyped ==
    ASSUME QueueProofs!IInv
    PROVE  /\ jobs \in [{Document} -> QueueProofs!JobRecord] /\ job \in QueueProofs!JobRecord
           /\ job.state \in {"absent", "queued", "retry_wait", "processing"} \union Settled
           /\ Len(runs) \in Nat /\ DOMAIN runs = 1 .. Len(runs) /\ requests \in Nat
           /\ runs \in Seq(QueueProofs!RunRecord)
BY DEF QueueProofs!IInv, QueueProofs!TypeOK, QueueProofs!JobRecord, QueueProofs!JobStates,
       QueueProofs!WaitingStates, QueueProofs!SettledStates, job, Settled

\* A request queues a job that is absent or, when it is forced, settled.
LEMMA EffectOfRequest ==
    ASSUME QueueProofs!IInv, NEW trigger, NEW force \in BOOLEAN,
           Queue!Request, Queue!Enqueue(Document, trigger, force)
    PROVE  /\ runs' = runs /\ pc' = pc /\ claimed' = claimed
           /\ requests < MaxRequests /\ requests' = requests + 1
           /\ job.state = "absent" \/ (force /\ job.state \in Settled)
                => job'.state = "queued" /\ job'.attempt_count = 0
           /\ ~(job.state = "absent" \/ (force /\ job.state \in Settled)) => job' = job
<1>1. runs' = runs /\ pc' = pc /\ claimed' = claimed
      /\ requests < MaxRequests /\ requests' = requests + 1
  BY DEF Queue!Request, Queue!worker
<1>2. Document \in DOMAIN jobs
  BY JobTyped
<1>3. CASE job.state = "absent"
  <2>1. jobs' = [jobs EXCEPT ![Document] = Queue!NewJob(trigger)]
    BY <1>3 DEF Queue!Enqueue, job
  <2>2. Queue!NewJob(trigger).state = "queued" /\ Queue!NewJob(trigger).attempt_count = 0
    BY DEF Queue!NewJob, Queue!NoJob
  <2> QED
    BY <1>1, <1>2, <1>3, <2>1, <2>2 DEF job
<1>4. CASE force /\ job.state \in Settled
  <2>1. jobs' = [jobs EXCEPT ![Document] = Queue!Requeued(job, trigger)]
    BY <1>4 DEF Queue!Enqueue, Queue!ActiveStates, job, Settled
  <2>2. Queue!Requeued(job, trigger).state = "queued"
        /\ Queue!Requeued(job, trigger).attempt_count = 0
    BY JobTyped DEF Queue!Requeued, QueueProofs!JobRecord
  <2>3. job' = Queue!Requeued(job, trigger)
    BY <1>2, <2>1 DEF job
  <2> QED
    BY <1>1, <1>4, <2>2, <2>3
<1>5. CASE ~(job.state = "absent" \/ (force /\ job.state \in Settled))
  <2>1. job.state \in Settled \/ job.state \in Queue!ActiveStates
    BY <1>5, JobTyped DEF Queue!ActiveStates
  <2>2. jobs' = jobs
    BY <1>5, <2>1 DEF Queue!Enqueue, job
  <2> QED
    BY <1>1, <1>5, <2>2 DEF job
<1> QED
  BY <1>3, <1>4, <1>5

LEMMA EffectOfClaim ==
    ASSUME QueueProofs!IInv, Queue!ClaimDueJob(Document)
    PROVE  /\ pc = "cleaning" /\ job.state \in {"queued", "retry_wait"}
           /\ job'.state = "processing" /\ job'.attempt_count = job.attempt_count + 1
           /\ Len(runs') = Len(runs) + 1 /\ DOMAIN runs' = 1 .. Len(runs')
           /\ \A r \in DOMAIN runs : r \in DOMAIN runs' /\ runs'[r] = runs[r]
           /\ pc' = "processing" /\ claimed' = Len(runs) + 1 /\ requests' = requests
<1>1. /\ jobs' = [jobs EXCEPT ![Document] = Queue!Claimed(job)]
      /\ runs' = Append(runs, Queue!NewRun(Document))
      /\ pc = "cleaning" /\ job.state \in {"queued", "retry_wait"}
      /\ pc' = "processing" /\ claimed' = Len(runs) + 1 /\ requests' = requests
  BY DEF Queue!ClaimDueJob, Queue!DueJobs, Queue!WaitingStates, Queue!environment, job
<1>2. job' = Queue!Claimed(job)
  BY <1>1, JobTyped DEF job
<1>3. Queue!Claimed(job).state = "processing"
      /\ Queue!Claimed(job).attempt_count = job.attempt_count + 1
  BY JobTyped DEF Queue!Claimed, QueueProofs!JobRecord
<1>4. /\ Len(runs') = Len(runs) + 1 /\ DOMAIN runs' = 1 .. Len(runs')
      /\ \A r \in DOMAIN runs : r \in DOMAIN runs' /\ runs'[r] = runs[r]
  BY <1>1, JobTyped
<1> QED
  BY <1>1, <1>2, <1>3, <1>4

\* The end of an attempt: the job and its run get the same state, other runs none.
EndsWith(state) ==
    /\ pc = "processing" /\ pc' = "idle" /\ requests' = requests
    /\ job'.state = state /\ job'.attempt_count = job.attempt_count
    /\ DOMAIN runs' = DOMAIN runs /\ runs'[claimed].state = state
    /\ \A r \in DOMAIN runs \ {claimed} : runs'[r] = runs[r]

LEMMA EffectOfEnd ==
    ASSUME QueueProofs!IInv, pc = "processing", NEW state,
           \/ Queue!FinishRun(Queue!ClaimedDocument, state)
           \/ state = "retry_wait" /\ \E at : Queue!ScheduleRetry(Queue!ClaimedDocument, at)
    PROVE  EndsWith(state)
<1>1. Queue!ClaimedDocument = Document /\ claimed \in DOMAIN runs
  BY ClaimedRun, JobTyped DEF Queue!ClaimedDocument
<1>2. /\ runs' = Queue!FinishCurrentRun(Document, state)
      /\ pc' = "idle" /\ requests' = requests
  BY <1>1 DEF Queue!FinishRun, Queue!ScheduleRetry, Queue!Return, Queue!environment
<1>3. job'.state = state /\ job'.attempt_count = job.attempt_count
  <2>1. CASE Queue!FinishRun(Queue!ClaimedDocument, state)
    <3>1. job' = [job EXCEPT !.state = state, !.lease_until = Queue!Null]
      BY <2>1, <1>1, JobTyped DEF Queue!FinishRun, job
    <3> QED
      BY <3>1, JobTyped DEF QueueProofs!JobRecord
  <2>2. CASE state = "retry_wait" /\ \E at : Queue!ScheduleRetry(Queue!ClaimedDocument, at)
    <3>1. PICK at : Queue!ScheduleRetry(Document, at)
      BY <2>2, <1>1
    <3>2. job' = [job EXCEPT !.state = "retry_wait", !.lease_until = Queue!Null,
                             !.next_attempt_at = at]
      BY <3>1, JobTyped DEF Queue!ScheduleRetry, job
    <3> QED
      BY <2>2, <3>2, JobTyped DEF QueueProofs!JobRecord
  <2> QED
    BY <2>1, <2>2
<1>4. job.current_run_id = claimed /\ claimed # Queue!Null
  BY ClaimedRun DEF Queue!Null
<1>5. runs' = [runs EXCEPT ![claimed] =
                  [runs[claimed] EXCEPT !.state = state, !.finished_at = now]]
  BY <1>2, <1>4 DEF Queue!FinishCurrentRun, job
<1>6. DOMAIN runs' = DOMAIN runs /\ \A r \in DOMAIN runs \ {claimed} : runs'[r] = runs[r]
  BY <1>5
<1>7. runs'[claimed].state = state
  <2>1. runs[claimed] \in QueueProofs!RunRecord
    BY <1>1, JobTyped
  <2>2. runs'[claimed] = [runs[claimed] EXCEPT !.state = state, !.finished_at = now]
    BY <1>1, <1>5
  <2> QED
    BY <2>1, <2>2 DEF QueueProofs!RunRecord
<1> QED
  BY <1>2, <1>3, <1>6, <1>7 DEF EndsWith

\* Which state each of the outcomes saves.
LEMMA EffectOfOutcome ==
    ASSUME QueueProofs!IInv
    PROVE  /\ Succeed => EndsWith("succeeded")
           /\ FindConflict => EndsWith("conflict")
           /\ Fail => EndsWith("failed")
           /\ RetryLater => EndsWith("failed") \/ EndsWith("retry_wait")
<1>1. \A state : Queue!SaveResult(state) => EndsWith(state)
  BY EffectOfEnd DEF Queue!SaveResult
<1>2. Queue!FailPermanently \/ Queue!GiveUp => EndsWith("failed")
  BY EffectOfEnd DEF Queue!FailPermanently, Queue!GiveUp
<1>3. Queue!ScheduleAnotherAttempt => EndsWith("retry_wait")
  <2>1. Queue!ScheduleAnotherAttempt =>
            pc = "processing" /\ \E at : Queue!ScheduleRetry(Queue!ClaimedDocument, at)
    BY DEF Queue!ScheduleAnotherAttempt
  <2> QED
    BY <2>1, EffectOfEnd
<1> QED
  BY <1>1, <1>2, <1>3 DEF Succeed, FindConflict, Fail, RetryLater

\* Without an attempt, and when an attempt is cut off, the tables stay as they are.
LEMMA EffectOfProcess ==
    /\ QueueStep \/ Outside => /\ jobs' = jobs /\ runs' = runs /\ requests' = requests
                               /\ pc' = "processing" <=> pc = "processing"
                               /\ pc' = "processing" => claimed' = claimed
    /\ CutOff => /\ jobs' = jobs /\ runs' = runs /\ requests' = requests
                 /\ pc = "processing" /\ pc' # "processing"
BY DEF QueueStep, Outside, CutOff, NoAttempt, Queue!BeginIteration, Queue!NothingDue,
       Queue!StorageFailure, Queue!Crash, Queue!Exit, Queue!Restart, Queue!Stop, Queue!Tick,
       Queue!database, Queue!environment, Queue!worker

-----------------------------------------------------------------------------
(* Where the attempt is.                                                   *)

\* The stage is that of the attempt in the worker's hands; a job that is processed
\* by nobody is stranded.
StageTellsTheAttempt ==
    /\ stage \in {"none", "stranded"} \union Update!Running
    /\ (stage = "none") = (job.state # "processing")
    /\ (stage \in Update!Running) = (pc = "processing")

CountersAgree ==
    /\ job.state = "absent" => job.attempt_count = 0
    /\ reprocesses \in Nat /\ reprocesses <= requests

StageInv == StageTellsTheAttempt /\ CountersAgree

LEMMA Stages ==
    /\ Update!Running = {"get", "relisting", "patch", "listing", "ocr", "fresh"}
    /\ Update!Final = Settled
BY DEF Update!Running, Update!Reading, Update!Final, Settled

LEMMA UpdatePcIs ==
    /\ job.state \in {"absent", "queued", "retry_wait"} => UpdatePc = "waiting"
    /\ job.state = "processing" => UpdatePc = stage
    /\ job.state \in Settled => UpdatePc = job.state
BY DEF UpdatePc, Settled

LEMMA NextUpdatePcIs ==
    /\ job'.state \in {"absent", "queued", "retry_wait"} => UpdatePc' = "waiting"
    /\ job'.state = "processing" => UpdatePc' = stage'
    /\ job'.state \in Settled => UpdatePc' = job'.state
BY DEF UpdatePc, Settled

LEMMA InitStage == Init => StageInv
<1> SUFFICES ASSUME Init PROVE StageInv
  OBVIOUS
<1>1. job.state = "absent" /\ job.attempt_count = 0 /\ pc = "idle" /\ stage = "none"
      /\ requests = 0 /\ reprocesses = 0
  BY DEF Init, Queue!Init, Queue!NoJob, Update!Init, job
<1> QED
  BY <1>1, Stages DEF StageInv, StageTellsTheAttempt, CountersAgree

\* No step but a reprocess request counts one.
LEMMA ReprocessesOfStep ==
    ASSUME \/ Webhook \/ QueueStep \/ Outside \/ WorkerStep \/ CutOff \/ World
           \/ UNCHANGED vars
    PROVE  reprocesses' = reprocesses
<1>1. CASE Webhook \/ QueueStep \/ Outside
  BY <1>1 DEF Webhook, QueueStep, Outside, updateVars
<1>2. CASE Claim
  BY <1>2 DEF Claim, Update!Claim, Update!history
<1>3. CASE Attempt
  BY <1>3 DEF Attempt, Update!GetOriginal, Update!ListTags, Update!ListInitialTags,
              Update!ListCurrentTags, Update!Recognise, Update!GetFresh,
              Update!ValidateUpdate, Update!history
<1>4. CASE Succeed \/ FindConflict
  BY <1>4 DEF Succeed, FindConflict, Update!PatchAnswered, Update!ReportProposal,
              Update!Conflict, Update!history
<1>5. CASE Fail \/ RetryLater
  BY <1>5 DEF Fail, RetryLater, Update!CallFails, Update!PatchRefused, Update!PatchLost,
              Update!history
<1>6. CASE CutOff
  BY <1>6 DEF CutOff, Update!CutOff
<1>7. CASE World
  BY <1>7 DEF World, Update!Users, Update!LatePatch, Update!LateLost, Update!EditDocument,
              Update!EditTags, Update!ChangeOwner, Update!UploadVersion, Update!AssignTag,
              Update!DeleteTag, Update!UserActs, Update!history
<1>8. CASE UNCHANGED vars
  BY <1>8 DEF vars, updateVars
<1> QED
  BY <1>1, <1>2, <1>3, <1>4, <1>5, <1>6, <1>7, <1>8 DEF WorkerStep

LEMMA NextStage == QueueProofs!IInv /\ StageInv /\ [Next]_vars => StageInv'
<1> SUFFICES ASSUME QueueProofs!IInv, StageInv, [Next]_vars PROVE StageInv'
  OBVIOUS
<1> USE DEF StageInv, StageTellsTheAttempt, CountersAgree
<1>1. CASE Webhook
  <2>1. /\ stage' = stage /\ pc' = pc /\ requests' = requests + 1
        /\ job.state = "absent" => job'.state = "queued" /\ job'.attempt_count = 0
        /\ job.state # "absent" => job' = job
    BY <1>1, EffectOfRequest DEF Webhook, Queue!PaperlessWebhook
  <2>2. reprocesses' = reprocesses /\ requests \in Nat
    BY <1>1, ReprocessesOfStep, JobTyped
  <2> QED
    BY <2>1, <2>2
<1>2. CASE Reprocess
  <2>1. /\ stage' = stage /\ pc' = pc /\ requests' = requests + 1
        /\ job.state \in {"absent"} \union Settled =>
              job'.state = "queued" /\ job'.attempt_count = 0
        /\ job.state \notin {"absent"} \union Settled => job' = job
    BY <1>2, EffectOfRequest DEF Reprocess, Queue!ReprocessDocument
  <2>2. reprocesses' = reprocesses + 1 /\ requests \in Nat
    BY <1>2, JobTyped DEF Reprocess
  <2> QED
    BY <2>1, <2>2 DEF Settled
<1>3. CASE QueueStep \/ Outside
  <2>1. stage' = stage /\ job' = job /\ requests' = requests
        /\ (pc' = "processing" <=> pc = "processing")
    BY <1>3, EffectOfProcess DEF QueueStep, Outside, job
  <2>2. reprocesses' = reprocesses
    BY <1>3, ReprocessesOfStep
  <2> QED
    BY <2>1, <2>2
<1>4. CASE Claim
  <2>1. stage' = "get" /\ job'.state = "processing" /\ pc' = "processing"
        /\ requests' = requests
    BY <1>4, EffectOfClaim DEF Claim
  <2>2. reprocesses' = reprocesses
    BY <1>4, ReprocessesOfStep DEF WorkerStep
  <2> QED
    BY <2>1, <2>2, Stages
<1>5. CASE Attempt
  <2>1. stage' \in Update!Running /\ job' = job /\ pc' = pc /\ pc = "processing"
        /\ requests' = requests
    BY <1>5 DEF Attempt, NoAttempt, queueVars, job
  <2>2. reprocesses' = reprocesses
    BY <1>5, ReprocessesOfStep DEF WorkerStep
  <2>3. stage # "none" /\ stage' # "none"
    BY <2>1, Stages
  <2> QED
    BY <2>1, <2>2, <2>3
<1>6. CASE Succeed \/ FindConflict \/ Fail \/ RetryLater
  <2>1. stage' = "none"
    BY <1>6 DEF Succeed, FindConflict, Fail, RetryLater, Finished
  <2>2. PICK state \in {"retry_wait"} \union Settled : EndsWith(state)
    BY <1>6, EffectOfOutcome DEF Settled
  <2>3. job'.state \notin {"absent", "processing"} /\ pc' = "idle" /\ requests' = requests
    BY <2>2 DEF EndsWith, Settled
  <2>4. reprocesses' = reprocesses
    BY <1>6, ReprocessesOfStep DEF WorkerStep
  <2> QED
    BY <2>1, <2>3, <2>4, Stages
<1>7. CASE CutOff
  <2>1. stage' = "stranded" /\ job' = job /\ requests' = requests
        /\ pc = "processing" /\ pc' # "processing"
    BY <1>7, EffectOfProcess DEF CutOff, job
  <2>2. reprocesses' = reprocesses
    BY <1>7, ReprocessesOfStep
  <2> QED
    BY <2>1, <2>2, Stages
<1>8. CASE World
  <2>1. stage' = stage /\ job' = job /\ pc' = pc /\ requests' = requests
    BY <1>8 DEF World, queueVars, job
  <2>2. reprocesses' = reprocesses
    BY <1>8, ReprocessesOfStep
  <2> QED
    BY <2>1, <2>2
<1>9. CASE UNCHANGED vars
  BY <1>9 DEF vars, queueVars, updateVars, job
<1> QED
  BY <1>1, <1>2, <1>3, <1>4, <1>5, <1>6, <1>7, <1>8, <1>9 DEF Next, WorkerStep

LEMMA StageInvariant == Spec => []StageInv
BY InitStage, NextStage, QueueInvariant, PTL DEF Spec

-----------------------------------------------------------------------------
(* Seen from the document.                                                 *)

\* A step that leaves the variables of DocumentUpdate and what it sees of the queue.
LEMMA UpdateStutters ==
    ASSUME UNCHANGED updateVars, UpdatePc' = UpdatePc,
           job'.attempt_count = job.attempt_count
    PROVE  UNCHANGED Update!vars
BY DEF updateVars, Update!vars, Update!attempt, Update!locals, Update!users, Update!history

LEMMA SameCardinality == \A S : Update!Cardinality(S) = Cardinality(S)
BY DEF Update!Cardinality, Cardinality

LEMMA StepOfTheUpdate ==
    QueueProofs!IInv /\ StageInv /\ [Next]_vars => [Update!Next]_(Update!vars)
<1> SUFFICES ASSUME QueueProofs!IInv, StageInv, [Next]_vars
             PROVE  Update!Next \/ UNCHANGED Update!vars
  OBVIOUS
<1>1. CASE Webhook
  <2>1. /\ stage' = stage /\ UNCHANGED updateVars
        /\ job.state = "absent" => job'.state = "queued" /\ job'.attempt_count = 0
        /\ job.state # "absent" => job' = job
    BY <1>1, EffectOfRequest DEF Webhook, Queue!PaperlessWebhook
  <2>2. job'.attempt_count = job.attempt_count
    BY <2>1 DEF StageInv, CountersAgree
  <2>3. UpdatePc' = UpdatePc
    BY <2>1, UpdatePcIs, NextUpdatePcIs, JobTyped
  <2> QED
    BY <2>1, <2>2, <2>3, UpdateStutters
<1>2. CASE Reprocess
  <2>1. /\ stage' = stage /\ requests < MaxRequests
        /\ job.state \in {"absent"} \union Settled =>
              job'.state = "queued" /\ job'.attempt_count = 0
        /\ job.state \notin {"absent"} \union Settled => job' = job
    BY <1>2, EffectOfRequest DEF Reprocess, Queue!ReprocessDocument
  <2>2. /\ reprocesses' = reprocesses + 1
        /\ IF UpdatePc \in Update!Final
           THEN lost' = Cardinality(late) /\ writes' = 0
           ELSE UNCHANGED <<lost, writes>>
        /\ UNCHANGED <<dryRun, doc, text, tagOwner, late, original, fresh, initialTags,
                       currentTags, content, payload, edits, editedWhileReading,
                       ownedSinceRead>>
    BY <1>2 DEF Reprocess
  <2>3. reprocesses < MaxRequests
    <3>1. MaxRequests \in Nat /\ requests \in Nat /\ reprocesses \in Nat
          /\ reprocesses <= requests
      BY QueueSettings, JobTyped DEF QueueProofs!BoundsAssumption, StageInv, CountersAgree
    <3> QED
      BY <2>1, <3>1
  <2>4. CASE job.state \in Settled
    <3>1. UpdatePc \in Update!Final /\ UpdatePc' = "waiting" /\ job'.attempt_count = 0
      BY <2>1, <2>4, UpdatePcIs, NextUpdatePcIs, Stages
    <3> QED
      BY <2>2, <2>3, <3>1, SameCardinality
         DEF Update!Next, Update!Reprocess, Update!paperless, Update!attempt, Update!locals,
             Update!users
  <2>5. CASE job.state \notin Settled
    <3>1. UpdatePc \notin Update!Final
      BY <2>5, UpdatePcIs, JobTyped, Stages DEF StageInv, StageTellsTheAttempt, Settled
    <3>2. UpdatePc' = UpdatePc
      BY <2>1, <2>5, UpdatePcIs, NextUpdatePcIs, JobTyped
    <3>3. job'.attempt_count = job.attempt_count
      BY <2>1, <2>5 DEF StageInv, CountersAgree
    <3> QED
      BY <2>2, <2>3, <3>1, <3>2, <3>3
         DEF Update!Next, Update!Reprocess, Update!paperless, Update!attempt, Update!locals,
             Update!users
  <2> QED
    BY <2>4, <2>5
<1>3. CASE QueueStep \/ Outside
  <2>1. stage' = stage /\ job' = job /\ UNCHANGED updateVars
    BY <1>3, EffectOfProcess DEF QueueStep, Outside, job
  <2>2. UpdatePc' = UpdatePc
    BY <2>1, UpdatePcIs, NextUpdatePcIs, JobTyped
  <2> QED
    BY <2>1, <2>2, UpdateStutters
<1>4. CASE Claim
  BY <1>4 DEF Claim, Update!Next
<1>5. CASE Attempt
  BY <1>5 DEF Attempt, Update!Next, Update!Processor
<1>6. CASE Succeed \/ FindConflict
  BY <1>6 DEF Succeed, FindConflict, Update!Next, Update!Processor
<1>7. CASE Fail \/ RetryLater
  BY <1>7 DEF Fail, RetryLater, Update!Next, Update!Processor
<1>8. CASE CutOff
  BY <1>8 DEF CutOff, Update!Next
<1>9. CASE World
  BY <1>9 DEF World, Update!Next
<1>10. CASE UNCHANGED vars
  <2>1. stage' = stage /\ job' = job /\ UNCHANGED updateVars
    BY <1>10 DEF vars, queueVars, updateVars, job
  <2>2. UpdatePc' = UpdatePc
    BY <2>1, UpdatePcIs, NextUpdatePcIs, JobTyped
  <2> QED
    BY <2>1, <2>2, UpdateStutters
<1> QED
  BY <1>1, <1>2, <1>3, <1>4, <1>5, <1>6, <1>7, <1>8, <1>9, <1>10 DEF Next, WorkerStep

\* Seen from the document the program is DocumentUpdate: jobs and runs tell the
\* processor when a cycle begins, which attempt it is and what was cut off.
THEOREM ProgramImplementsUpdate == Spec => ImplementsUpdate
<1>1. Init => Update!Init
  BY DEF Init
<1> QED
  BY <1>1, StepOfTheUpdate, QueueInvariant, StageInvariant, PTL
     DEF Spec, ImplementsUpdate, Update!Spec

-----------------------------------------------------------------------------
\* The definitions of the two instances of DocumentUpdate are the same.
LEMMA SameUpdate ==
    /\ Update!Init <=> UpdateProofs!Init
    /\ Update!vars = UpdateProofs!vars
    /\ Update!TypeOK <=> UpdateProofs!TypeOK
    /\ Update!Running = UpdateProofs!Running
BY DEF Update!Init, UpdateProofs!Init, Update!vars, UpdateProofs!vars, Update!TypeOK,
       UpdateProofs!TypeOK, Update!AnyOwner, UpdateProofs!AnyOwner,
       Update!UniqueNames, UpdateProofs!UniqueNames, Update!NoDocument, UpdateProofs!NoDocument,
       Update!NoPayload, UpdateProofs!NoPayload, Update!attempt, UpdateProofs!attempt,
       Update!locals, UpdateProofs!locals,
       Update!users, UpdateProofs!users, Update!history, UpdateProofs!history,
       Update!PaperlessDocument, UpdateProofs!PaperlessDocument, Update!Versions,
       UpdateProofs!Versions, Update!Payload, UpdateProofs!Payload, Update!Running,
       UpdateProofs!Running, Update!Reading, UpdateProofs!Reading, Update!Final,
       UpdateProofs!Final

LEMMA SameUsers ==
    /\ Update!Users <=> UpdateProofs!Users
    /\ Update!LatePatch <=> UpdateProofs!LatePatch
    /\ Update!LateLost <=> UpdateProofs!LateLost
<1>1. \A changes : Update!UserActs(changes) <=> UpdateProofs!UserActs(changes)
  BY DEF Update!TagsForOwner, UpdateProofs!TagsForOwner, Update!Existing, UpdateProofs!Existing,
         Update!UserActs, UpdateProofs!UserActs, Update!Reading, UpdateProofs!Reading,
         Update!attempt, UpdateProofs!attempt, Update!locals, UpdateProofs!locals,
         Update!history, UpdateProofs!history
<1>2. /\ Update!Existing = UpdateProofs!Existing /\ Update!AnyOwner = UpdateProofs!AnyOwner
      /\ \A p : Update!Accepts(p) <=> UpdateProofs!Accepts(p)
      /\ \A p : Update!Applied(p) <=> UpdateProofs!Applied(p)
  BY DEF Update!Existing, UpdateProofs!Existing, Update!AnyOwner, UpdateProofs!AnyOwner,
         Update!Accepts, UpdateProofs!Accepts, Update!Applied, UpdateProofs!Applied
<1>3. Update!EditDocument <=> UpdateProofs!EditDocument
  BY <1>1, <1>2 DEF Update!EditDocument, UpdateProofs!EditDocument
<1>4. Update!EditTags <=> UpdateProofs!EditTags
  BY <1>1, <1>2 DEF Update!EditTags, UpdateProofs!EditTags
<1>5. Update!ChangeOwner <=> UpdateProofs!ChangeOwner
  BY <1>1, <1>2 DEF Update!ChangeOwner, UpdateProofs!ChangeOwner
<1>6. Update!UploadVersion <=> UpdateProofs!UploadVersion
  BY <1>1 DEF Update!UploadVersion, UpdateProofs!UploadVersion
<1>7. Update!AssignTag <=> UpdateProofs!AssignTag
  BY <1>1, <1>2 DEF Update!AssignTag, UpdateProofs!AssignTag,
                    Update!UniqueNames, UpdateProofs!UniqueNames
<1>8. Update!DeleteTag <=> UpdateProofs!DeleteTag
  BY <1>1, <1>2 DEF Update!DeleteTag, UpdateProofs!DeleteTag
<1>9. Update!LatePatch <=> UpdateProofs!LatePatch
  BY <1>2 DEF Update!LatePatch, UpdateProofs!LatePatch, Update!attempt, UpdateProofs!attempt,
         Update!locals, UpdateProofs!locals,
              Update!users, UpdateProofs!users
<1>10. Update!LateLost <=> UpdateProofs!LateLost
  BY DEF Update!LateLost, UpdateProofs!LateLost, Update!paperless, UpdateProofs!paperless,
         Update!attempt, UpdateProofs!attempt, Update!locals, UpdateProofs!locals, Update!users,
         UpdateProofs!users,
         Update!history, UpdateProofs!history
<1> QED
  BY <1>3, <1>4, <1>5, <1>6, <1>7, <1>8, <1>9, <1>10 DEF Update!Users, UpdateProofs!Users

LEMMA SameAttempt ==
    /\ Update!Processor <=> UpdateProofs!Processor
    /\ Update!Claim <=> UpdateProofs!Claim
    /\ Update!CallFails <=> UpdateProofs!CallFails
    /\ Update!CutOff <=> UpdateProofs!CutOff
    /\ Update!Reprocess <=> UpdateProofs!Reprocess
<1> USE DEF Update!paperless, UpdateProofs!paperless, Update!attempt, UpdateProofs!attempt,
            Update!locals, UpdateProofs!locals,
            Update!users, UpdateProofs!users, Update!history, UpdateProofs!history
<1>1. /\ Update!Running = UpdateProofs!Running /\ Update!Final = UpdateProofs!Final
      /\ Update!RetryOrFail = UpdateProofs!RetryOrFail
      /\ Update!Refused = UpdateProofs!Refused
      /\ Update!Live = UpdateProofs!Live
      /\ Update!Changed = UpdateProofs!Changed
  BY DEF Update!Running, UpdateProofs!Running, Update!Reading, UpdateProofs!Reading,
         Update!Final, UpdateProofs!Final, Update!RetryOrFail, UpdateProofs!RetryOrFail,
         Update!Refused, UpdateProofs!Refused,
         Update!Live, UpdateProofs!Live, Update!Changed, UpdateProofs!Changed
<1>2. /\ Update!Leave <=> UpdateProofs!Leave
      /\ \A owner : Update!TagsForOwner(owner) = UpdateProofs!TagsForOwner(owner)
      /\ \A ids, owner : Update!AfterPage(ids, owner) = UpdateProofs!AfterPage(ids, owner)
      /\ \A p : Update!Accepts(p) <=> UpdateProofs!Accepts(p)
      /\ \A p : Update!Applied(p) <=> UpdateProofs!Applied(p)
      /\ \A proposed, ids :
            Update!MergedTags(proposed, ids) = UpdateProofs!MergedTags(proposed, ids)
  BY DEF Update!Leave, UpdateProofs!Leave, Update!NoDocument, UpdateProofs!NoDocument,
         Update!NoPayload, UpdateProofs!NoPayload, Update!Existing, UpdateProofs!Existing,
         Update!TagsForOwner, UpdateProofs!TagsForOwner, Update!AfterPage, UpdateProofs!AfterPage,
         Update!Accepts, UpdateProofs!Accepts, Update!Applied, UpdateProofs!Applied,
         Update!MergedTags, UpdateProofs!MergedTags
<1>3. Update!GetOriginal <=> UpdateProofs!GetOriginal
  BY <1>1 DEF Update!GetOriginal, UpdateProofs!GetOriginal
<1>4. Update!ListTags <=> UpdateProofs!ListTags
  BY <1>1, <1>2 DEF Update!ListTags, UpdateProofs!ListTags, Update!ListInitialTags,
     UpdateProofs!ListInitialTags, Update!ListCurrentTags, UpdateProofs!ListCurrentTags
<1>5. Update!Recognise <=> UpdateProofs!Recognise
  BY <1>1 DEF Update!Recognise, UpdateProofs!Recognise
<1>6. /\ Update!GetFresh <=> UpdateProofs!GetFresh
      /\ Update!Conflict <=> UpdateProofs!Conflict
  BY <1>1, <1>2 DEF Update!GetFresh, UpdateProofs!GetFresh, Update!Conflict, UpdateProofs!Conflict,
                    Update!Changed, UpdateProofs!Changed
<1>7. Update!ValidateUpdate <=> UpdateProofs!ValidateUpdate
  BY <1>1, <1>2 DEF Update!ValidateUpdate, UpdateProofs!ValidateUpdate,
                    Update!Live, UpdateProofs!Live
<1>8. Update!ReportProposal <=> UpdateProofs!ReportProposal
  BY <1>1, <1>2 DEF Update!ReportProposal, UpdateProofs!ReportProposal,
                    Update!Live, UpdateProofs!Live
<1>9. /\ Update!PatchAnswered <=> UpdateProofs!PatchAnswered
      /\ Update!PatchRefused <=> UpdateProofs!PatchRefused
      /\ Update!PatchLost <=> UpdateProofs!PatchLost
  BY <1>1, <1>2 DEF Update!PatchAnswered, UpdateProofs!PatchAnswered,
                    Update!PatchRefused, UpdateProofs!PatchRefused,
                    Update!PatchLost, UpdateProofs!PatchLost
<1>10. Update!Processor <=> UpdateProofs!Processor
  BY <1>3, <1>4, <1>5, <1>6, <1>7, <1>8, <1>9 DEF Update!Processor, UpdateProofs!Processor
<1>11. Update!Claim <=> UpdateProofs!Claim
  BY <1>1 DEF Update!Claim, UpdateProofs!Claim
<1>12. Update!CallFails <=> UpdateProofs!CallFails
  BY <1>1, <1>2 DEF Update!CallFails, UpdateProofs!CallFails
<1>13. Update!CutOff <=> UpdateProofs!CutOff
  BY <1>1, <1>2 DEF Update!CutOff, UpdateProofs!CutOff,
                    Update!PerhapsUnderWay, UpdateProofs!PerhapsUnderWay
<1>14. Update!Reprocess <=> UpdateProofs!Reprocess
  <2>1. Update!Cardinality(late) = UpdateProofs!Cardinality(late)
    BY DEF Update!Cardinality, UpdateProofs!Cardinality
  <2> QED
    BY <1>1, <2>1 DEF Update!Reprocess, UpdateProofs!Reprocess
<1> QED
  BY <1>10, <1>11, <1>12, <1>13, <1>14

LEMMA UpdateSettings == UpdateProofs!DocumentConstants
BY UpdateConstants DEF Update!DocumentConstants, UpdateProofs!DocumentConstants

LEMMA ImplementsTheProvedUpdate == Spec => UpdateProofs!Spec
<1>1. Init => UpdateProofs!Init
  BY SameUpdate DEF Init
<1>2. QueueProofs!IInv /\ StageInv /\ [Next]_vars
          => [UpdateProofs!Next]_(UpdateProofs!vars)
  <2>1. Update!Next => UpdateProofs!Next
    BY SameUsers, SameAttempt DEF Update!Next, UpdateProofs!Next
  <2>2. UNCHANGED Update!vars => UNCHANGED UpdateProofs!vars
    BY DEF Update!vars, UpdateProofs!vars, Update!attempt, UpdateProofs!attempt, Update!locals,
           UpdateProofs!locals,
           Update!users, UpdateProofs!users, Update!history, UpdateProofs!history
  <2> QED
    BY <2>1, <2>2, StepOfTheUpdate
<1> QED
  BY <1>1, <1>2, QueueInvariant, StageInvariant, PTL DEF Spec, UpdateProofs!Spec

\* What is proved of DocumentUpdate is true of the document of the program.
LEMMA DocumentInvariant == Spec => []UpdateProofs!IInv
BY ImplementsTheProvedUpdate, UpdateSettings, UpdateProofs!Invariance, PTL

-----------------------------------------------------------------------------
(* What only the queue and the attempt together promise.                   *)

\* An attempt that is past its first read has read what was wanted.
WantedIsRead ==
    /\ wanted \in Nat /\ wanted <= doc.version /\ read \in 0 .. MaxVersions
    /\ RequestedVersionIsRead
    /\ stage \in Update!Running \ {"get"} => read >= wanted

\* Every PATCH was sent by a run of its own: it is applied, still late, being sent,
\* or lost.
Sending == IF stage = "patch" THEN 1 ELSE 0
Succeeded == {r \in senders : runs[r].state = "succeeded"}

WritesHaveSenders ==
    /\ written \in Nat /\ senders \subseteq DOMAIN runs
    /\ stage \in Update!Running \ {"patch"} => claimed \notin senders
    /\ Cardinality(Succeeded) <= written
    /\ written + Cardinality(late) + Sending <= Cardinality(senders)
    /\ \A r \in senders : runs[r].state # "conflict"

DockInv == WantedIsRead /\ WritesHaveSenders

LEMMA DocumentTyped ==
    ASSUME UpdateProofs!IInv
    PROVE  /\ doc \in Update!PaperlessDocument
           /\ doc.version \in Nat /\ doc.version <= MaxVersions
           /\ MaxVersions \in Nat /\ IsFiniteSet(late) /\ Cardinality(late) \in Nat
<1>1. doc \in Update!PaperlessDocument
  BY SameUpdate DEF UpdateProofs!IInv, Update!TypeOK
<1>2. doc.version \in 1 .. MaxVersions
  BY <1>1 DEF Update!PaperlessDocument, Update!Versions
<1>3. IsFiniteSet(late)
  BY DEF UpdateProofs!IInv, UpdateProofs!IsFiniteSet, IsFiniteSet
<1>4. MaxVersions \in Nat
  BY UpdateSettings DEF UpdateProofs!DocumentConstants
<1> QED
  BY <1>1, <1>2, <1>3, <1>4, FS_CardinalityType

\* Versions are only added, and only users add them.
LEMMA VersionsGrow ==
    ASSUME UpdateProofs!IInv, [Update!Next]_(Update!vars)
    PROVE  doc'.version \in Nat /\ doc.version <= doc'.version
<1> DEFINE D == Update!PaperlessDocument
<1>1. doc \in D /\ doc.version \in Nat
  BY DocumentTyped
<1>2. doc' = doc \/ doc'.version \in {doc.version, doc.version + 1}
  <2>1. \A p : Update!Applied(p) => doc'.version = doc.version
    BY <1>1 DEF Update!Applied, Update!PaperlessDocument
  <2>2. CASE Update!Users
    <3>1. CASE Update!EditDocument
      BY <1>1, <3>1 DEF Update!EditDocument, Update!PaperlessDocument
    <3>2. CASE Update!EditTags
      BY <1>1, <3>2 DEF Update!EditTags, Update!PaperlessDocument
    <3>3. CASE Update!ChangeOwner
      BY <1>1, <3>3 DEF Update!ChangeOwner, Update!PaperlessDocument
    <3>4. CASE Update!UploadVersion
      BY <1>1, <3>4 DEF Update!UploadVersion, Update!PaperlessDocument
    <3>5. CASE Update!AssignTag
      BY <3>5 DEF Update!AssignTag
    <3>6. CASE Update!DeleteTag
      BY <1>1, <3>6 DEF Update!DeleteTag, Update!PaperlessDocument
    <3> QED
      BY <2>2, <3>1, <3>2, <3>3, <3>4, <3>5, <3>6 DEF Update!Users
  <2>3. CASE Update!LatePatch \/ Update!LateLost
    BY <2>1, <2>3 DEF Update!LatePatch, Update!LateLost, Update!paperless
  <2>4. CASE Update!Processor
    BY <2>1, <2>4 DEF Update!Processor, Update!GetOriginal, Update!ListTags,
       Update!ListInitialTags, Update!ListCurrentTags, Update!Recognise, Update!GetFresh,
       Update!Conflict, Update!ValidateUpdate,
       Update!ReportProposal, Update!PatchAnswered, Update!PatchRefused, Update!PatchLost,
       Update!paperless
  <2>5. CASE Update!Claim \/ Update!CallFails \/ Update!CutOff \/ Update!Reprocess
    BY <2>5 DEF Update!Claim, Update!CallFails, Update!CutOff, Update!Reprocess,
       Update!paperless
  <2>6. CASE UNCHANGED Update!vars
    BY <2>6 DEF Update!vars
  <2> QED
    BY <2>2, <2>3, <2>4, <2>5, <2>6 DEF Update!Next
<1> QED
  BY <1>1, <1>2

LEMMA InitDock == Init => DockInv
<1> SUFFICES ASSUME Init PROVE DockInv
  OBVIOUS
<1>1. /\ wanted = 0 /\ read = 0 /\ senders = {} /\ written = 0 /\ stage = "none" /\ late = {}
      /\ job.state = "absent"
      /\ doc.version = 1
  BY DEF Init, Queue!Init, Queue!NoJob, Update!Init, job
<1>2. MaxVersions \in Nat
  BY UpdateSettings DEF UpdateProofs!DocumentConstants
<1>3. WantedIsRead
  BY <1>1, <1>2, Stages DEF WantedIsRead, RequestedVersionIsRead
<1>4. Succeeded = {} /\ Sending = 0 /\ Cardinality({}) = 0
  BY <1>1, FS_EmptySet DEF Succeeded, Sending
<1>5. WritesHaveSenders
  BY <1>1, <1>4 DEF WritesHaveSenders
<1> QED
  BY <1>3, <1>5 DEF DockInv

LEMMA NextWanted ==
    ASSUME QueueProofs!IInv, StageInv, UpdateProofs!IInv, WantedIsRead, [Next]_vars
    PROVE  WantedIsRead'
<1> USE DEF WantedIsRead, RequestedVersionIsRead
<1>1. doc'.version \in Nat /\ doc.version \in Nat /\ doc.version <= doc'.version
      /\ doc.version <= MaxVersions /\ MaxVersions \in Nat
  BY VersionsGrow, DocumentTyped, StepOfTheUpdate
<1>2. CASE Webhook
  <2>1. /\ stage' = stage /\ read' = read /\ doc' = doc
        /\ wanted' \in {wanted, doc.version}
        /\ job.state = "absent" => job'.state = "queued" /\ stage = "none"
        /\ job.state # "absent" => job' = job /\ wanted' = wanted
    BY <1>2, EffectOfRequest
       DEF Webhook, Queue!PaperlessWebhook, Wants, updateVars, StageInv, StageTellsTheAttempt
  <2> QED
    BY <1>1, <2>1, Stages
<1>3. CASE Reprocess
  <2>1. /\ stage' = stage /\ read' = read /\ doc' = doc
        /\ job.state = "processing" => wanted' = wanted
        /\ job.state # "processing" => wanted' = doc.version /\ stage = "none"
        /\ job.state \in {"absent"} \union Settled => job'.state = "queued"
        /\ job.state \notin {"absent"} \union Settled => job' = job
    BY <1>3, EffectOfRequest
       DEF Reprocess, Queue!ReprocessDocument, Wants, StageInv, StageTellsTheAttempt
  <2>2. job'.state \notin {"succeeded", "conflict"}
    BY <2>1 DEF Settled
  <2> QED
    BY <1>1, <2>1, <2>2, Stages
<1>4. CASE QueueStep \/ Outside
  <2>1. stage' = stage /\ job' = job /\ doc' = doc /\ wanted' = wanted /\ read' = read
    BY <1>4, EffectOfProcess DEF QueueStep, Outside, job, updateVars, history
  <2> QED
    BY <2>1
<1>5. CASE Claim
  <2>1. /\ stage' = "get" /\ wanted' = wanted /\ read' = read
        /\ job'.state = "processing"
    BY <1>5, EffectOfClaim DEF Claim, history
  <2> QED
    BY <1>1, <2>1
<1>6. CASE Attempt
  <2>1. /\ wanted' = wanted /\ job' = job /\ stage \in Update!Running
        /\ job.state = "processing"
        /\ read' = IF stage = "get" THEN doc.version ELSE read
    BY <1>6, Stages
       DEF Attempt, NoAttempt, queueVars, job, StageInv, StageTellsTheAttempt
  <2> QED
    BY <1>1, <2>1
<1>7. CASE Succeed \/ FindConflict \/ Fail \/ RetryLater
  <2>1. stage' = "none" /\ wanted' = wanted /\ read' = read
    BY <1>7 DEF Succeed, FindConflict, Fail, RetryLater, Finished
  <2>2. PICK state : EndsWith(state) /\ (state \in {"succeeded", "conflict"}
                                            => Succeed \/ FindConflict)
    BY <1>7, EffectOfOutcome
  <2>3. job'.state = state /\ pc = "processing"
    BY <2>2 DEF EndsWith
  <2>4. UpdatePc = stage
    BY <2>3, UpdatePcIs, Stages DEF StageInv, StageTellsTheAttempt
  <2>5. Succeed \/ FindConflict => stage \in {"patch", "relisting", "fresh"}
    BY <2>4 DEF Succeed, FindConflict, Update!PatchAnswered, Update!ReportProposal,
                Update!Conflict
  <2> QED
    BY <1>1, <2>1, <2>2, <2>3, <2>5, Stages
<1>8. CASE CutOff
  <2>1. stage' = "stranded" /\ wanted' = wanted /\ read' = read /\ job' = job
        /\ job.state = "processing"
    BY <1>8, EffectOfProcess, ClaimedRun DEF CutOff, history, job
  <2> QED
    BY <1>1, <2>1, Stages
<1>9. CASE World
  <2>1. stage' = stage /\ wanted' = wanted /\ read' = read /\ job' = job
    BY <1>9 DEF World, queueVars, job
  <2> QED
    BY <1>1, <2>1
<1>10. CASE UNCHANGED vars
  <2>1. stage' = stage /\ job' = job /\ doc' = doc /\ wanted' = wanted /\ read' = read
    BY <1>10 DEF vars, queueVars, updateVars, history, job
  <2> QED
    BY <2>1
<1> QED
  BY <1>2, <1>3, <1>4, <1>5, <1>6, <1>7, <1>8, <1>9, <1>10 DEF Next, WorkerStep

\* The senders are runs, so there are finitely many.
LEMMA SendersFinite ==
    ASSUME Len(runs) \in Nat, DOMAIN runs = 1 .. Len(runs), senders \subseteq DOMAIN runs
    PROVE  /\ IsFiniteSet(senders) /\ Cardinality(senders) \in Nat
           /\ \A S \in SUBSET senders :
                 IsFiniteSet(S) /\ Cardinality(S) \in Nat /\ Cardinality(S) <= Cardinality(senders)
<1>1. IsFiniteSet(1 .. Len(runs))
  BY FS_Interval
<1>2. IsFiniteSet(senders)
  BY <1>1, FS_Subset
<1> QED
  BY <1>2, FS_Subset, FS_CardinalityType

\* A step that sends nothing new and reports no success moves PATCHes only from one
\* account to the next, or loses them.
LEMMA AccountsMove ==
    ASSUME WritesHaveSenders, Len(runs) \in Nat, DOMAIN runs = 1 .. Len(runs),
           Cardinality(late) \in Nat, Cardinality(late') \in Nat,
           senders' = senders, DOMAIN runs \subseteq DOMAIN runs',
           \A r \in senders : runs'[r].state \in {"succeeded", "conflict"}
                                  => runs'[r].state = runs[r].state,
           written' \in {written, written + 1},
           written' + Cardinality(late') + Sending' <= written + Cardinality(late) + Sending,
           stage' \in Update!Running \ {"patch"} => claimed' \notin senders
    PROVE  WritesHaveSenders'
<1> USE DEF WritesHaveSenders
<1>1. Succeeded' \subseteq Succeeded /\ Succeeded \subseteq senders
  BY DEF Succeeded
<1>2. /\ Cardinality(Succeeded') <= Cardinality(Succeeded)
      /\ Cardinality(Succeeded') \in Nat /\ Cardinality(Succeeded) \in Nat
      /\ Cardinality(senders) \in Nat
  <2>1. IsFiniteSet(Succeeded) /\ Cardinality(Succeeded) \in Nat /\ Cardinality(senders) \in Nat
    BY <1>1, SendersFinite
  <2>2. Cardinality(Succeeded') <= Cardinality(Succeeded) /\ IsFiniteSet(Succeeded')
    BY <1>1, <2>1, FS_Subset
  <2> QED
    BY <2>1, <2>2, FS_CardinalityType
<1>3. Sending \in Nat /\ Sending' \in Nat
  BY DEF Sending
<1>4. written' \in Nat /\ Cardinality(Succeeded') <= written'
  BY <1>2
<1>5. written' + Cardinality(late') + Sending' <= Cardinality(senders)
  BY <1>2, <1>3, <1>4
<1>6. senders' \subseteq DOMAIN runs' /\ \A r \in senders' : runs'[r].state # "conflict"
  OBVIOUS
<1> QED
  BY <1>4, <1>5, <1>6

\* PATCHes that are late: one may join them, one may leave them.
LEMMA LateChanges ==
    ASSUME IsFiniteSet(late), NEW p
    PROVE  /\ Cardinality(late) \in Nat
           /\ Cardinality(late \union {p}) \in Nat
           /\ Cardinality(late \union {p}) <= Cardinality(late) + 1
           /\ p \in late => /\ Cardinality(late \ {p}) \in Nat
                            /\ Cardinality(late \ {p}) + 1 = Cardinality(late)
<1>1. Cardinality(late) \in Nat
  BY FS_CardinalityType
<1>2. /\ IsFiniteSet(late \union {p})
      /\ Cardinality(late \union {p}) =
            IF p \in late THEN Cardinality(late) ELSE Cardinality(late) + 1
  BY FS_AddElement
<1>3. ASSUME p \in late
      PROVE  Cardinality(late \ {p}) \in Nat /\ Cardinality(late \ {p}) + 1 = Cardinality(late)
  <2>1. IsFiniteSet(late \ {p})
        /\ Cardinality(late \ {p}) = IF p \in late THEN Cardinality(late) - 1 ELSE Cardinality(late)
    BY FS_RemoveElement
  <2>2. Cardinality(late \ {p}) \in Nat
    BY <2>1, FS_CardinalityType
  <2> QED
    BY <1>1, <1>3, <2>1, <2>2
<1> QED
  BY <1>1, <1>2, <1>3

LEMMA AttemptAccounts ==
    ASSUME QueueProofs!IInv, StageInv, UpdateProofs!IInv, WritesHaveSenders, Attempt
    PROVE  WritesHaveSenders'
<1>1. /\ pc = "processing" /\ stage \in Update!Running /\ stage' \in Update!Running
      /\ runs' = runs /\ claimed' = claimed /\ written' = written
      /\ senders' = IF stage' = "patch" THEN senders \union {claimed} ELSE senders
      /\ late' = late
  BY DEF Attempt, NoAttempt, queueVars, StageInv, StageTellsTheAttempt, Update!GetOriginal,
         Update!ListTags, Update!ListInitialTags, Update!ListCurrentTags, Update!Recognise,
         Update!GetFresh, Update!ValidateUpdate
<1>2. stage # "patch"
  <2>1. UpdatePc = stage
    BY <1>1, ClaimedRun, UpdatePcIs
  <2> QED
    BY <2>1 DEF Attempt, Update!GetOriginal, Update!ListTags, Update!ListInitialTags,
                Update!ListCurrentTags, Update!Recognise,
                Update!GetFresh, Update!ValidateUpdate
<1>3. /\ claimed \in DOMAIN runs /\ runs[claimed].state = "processing"
      /\ Len(runs) \in Nat /\ DOMAIN runs = 1 .. Len(runs)
  BY <1>1, ClaimedRun, JobTyped
<1>4. claimed \notin senders
  BY <1>1, <1>2 DEF WritesHaveSenders
<1>5. Cardinality(late) \in Nat
  BY DocumentTyped
<1>6. CASE stage' # "patch"
  <2>1. Sending = 0 /\ Sending' = 0
    BY <1>2, <1>6 DEF Sending
  <2>2. senders' = senders
    BY <1>1, <1>6
  <2>3. written' + Cardinality(late') + Sending' <= written + Cardinality(late) + Sending
    BY <1>1, <1>5, <2>1 DEF WritesHaveSenders
  <2> QED
    BY <1>1, <1>3, <1>4, <1>5, <2>2, <2>3, AccountsMove
<1>7. CASE stage' = "patch"
  <2>1. senders' = senders \union {claimed}
    BY <1>1, <1>7
  <2>2. IsFiniteSet(senders) /\ Cardinality(senders) \in Nat
    BY <1>3, SendersFinite DEF WritesHaveSenders
  <2>3. Cardinality(senders') = Cardinality(senders) + 1
    BY <1>4, <2>1, <2>2, FS_AddElement
  <2>4. Sending = 0 /\ Sending' = 1
    BY <1>2, <1>7 DEF Sending
  <2>5. Succeeded' = Succeeded
    BY <1>1, <1>3, <2>1 DEF Succeeded
  <2>6. written' + Cardinality(late') + Sending' <= Cardinality(senders')
    BY <1>1, <1>5, <2>2, <2>3, <2>4 DEF WritesHaveSenders
  <2> QED
    BY <1>1, <1>3, <1>7, <2>1, <2>5, <2>6 DEF WritesHaveSenders
<1> QED
  BY <1>6, <1>7

\* The PATCH that was being sent is applied, and its run is recorded as succeeded.
LEMMA SuccessAccounts ==
    ASSUME QueueProofs!IInv, StageInv, UpdateProofs!IInv, WritesHaveSenders,
           Succeed, Update!PatchAnswered, written' = written + 1
    PROVE  WritesHaveSenders'
<1>1. EndsWith("succeeded")
  BY EffectOfOutcome
<1>2. /\ pc = "processing" /\ DOMAIN runs' = DOMAIN runs
      /\ \A r \in DOMAIN runs \ {claimed} : runs'[r] = runs[r]
      /\ stage' = "none" /\ senders' = senders /\ runs'[claimed].state = "succeeded"
  BY <1>1 DEF EndsWith, Succeed, Finished
<1>3. UpdatePc = stage /\ Len(runs) \in Nat /\ DOMAIN runs = 1 .. Len(runs)
  BY <1>2, ClaimedRun, UpdatePcIs, JobTyped
<1>4. stage = "patch" /\ late' = late
  BY <1>3 DEF Update!PatchAnswered
<1>5. Sending = 1 /\ Sending' = 0
  BY <1>2, <1>4 DEF Sending
<1>6. Cardinality(late) \in Nat
  BY DocumentTyped
<1>7. Succeeded' \subseteq Succeeded \union {claimed}
  BY <1>2 DEF Succeeded, WritesHaveSenders
<1>8. IsFiniteSet(Succeeded) /\ Cardinality(Succeeded) \in Nat /\ Cardinality(senders) \in Nat
  <2>1. Succeeded \subseteq senders
    BY DEF Succeeded
  <2> QED
    BY <1>3, <2>1, SendersFinite DEF WritesHaveSenders
<1>9. Cardinality(Succeeded') \in Nat /\ Cardinality(Succeeded') <= Cardinality(Succeeded) + 1
  <2>1. IsFiniteSet(Succeeded \union {claimed})
        /\ Cardinality(Succeeded \union {claimed}) =
              IF claimed \in Succeeded THEN Cardinality(Succeeded) ELSE Cardinality(Succeeded) + 1
    BY <1>8, FS_AddElement
  <2>2. /\ IsFiniteSet(Succeeded')
        /\ Cardinality(Succeeded') <= Cardinality(Succeeded \union {claimed})
    BY <1>7, <2>1, FS_Subset
  <2>3. Cardinality(Succeeded') \in Nat
    BY <2>2, FS_CardinalityType
  <2> QED
    BY <1>8, <2>1, <2>2, <2>3
<1>10. written' \in Nat /\ Cardinality(Succeeded') <= written'
  BY <1>8, <1>9 DEF WritesHaveSenders
<1>11. written' + Cardinality(late') + Sending' <= Cardinality(senders')
  BY <1>2, <1>4, <1>5, <1>6, <1>8 DEF WritesHaveSenders
<1>12. \A r \in senders' : runs'[r].state # "conflict"
  BY <1>2 DEF WritesHaveSenders
<1> QED
  BY <1>2, <1>10, <1>11, <1>12, Stages DEF WritesHaveSenders

\* Any other end: what was being sent is late or lost.
LEMMA EndingAccounts ==
    ASSUME QueueProofs!IInv, StageInv, UpdateProofs!IInv, WritesHaveSenders, written' = written,
           \/ Succeed /\ Update!ReportProposal
           \/ FindConflict
           \/ Fail
           \/ RetryLater
    PROVE  WritesHaveSenders'
<1>1. stage' = "none" /\ senders' = senders
  BY DEF Succeed, FindConflict, Fail, RetryLater, Finished
<1>2. PICK state : /\ EndsWith(state)
                   /\ state \in {"succeeded", "conflict"} =>
                         Update!ReportProposal \/ Update!Conflict
  <2>1. CASE Succeed /\ Update!ReportProposal
    BY <2>1, EffectOfOutcome
  <2>2. CASE FindConflict
    BY <2>2, EffectOfOutcome DEF FindConflict
  <2>3. CASE Fail \/ RetryLater
    BY <2>3, EffectOfOutcome
  <2> QED
    BY <2>1, <2>2, <2>3
<1>3. /\ pc = "processing" /\ DOMAIN runs' = DOMAIN runs
      /\ \A r \in DOMAIN runs \ {claimed} : runs'[r] = runs[r]
      /\ runs'[claimed].state = state
  BY <1>2 DEF EndsWith
<1>4. UpdatePc = stage /\ Len(runs) \in Nat /\ DOMAIN runs = 1 .. Len(runs)
  BY <1>3, ClaimedRun, UpdatePcIs, JobTyped
<1>5. state \in {"succeeded", "conflict"} => claimed \notin senders
  BY <1>2, <1>4, Stages DEF WritesHaveSenders, Update!ReportProposal, Update!Conflict
<1>6. \A r \in senders : runs'[r].state \in {"succeeded", "conflict"}
                             => runs'[r].state = runs[r].state
  BY <1>3, <1>5 DEF WritesHaveSenders
<1>7. late' = late \/ (stage = "patch" /\ late' = late \union {payload})
  BY <1>4 DEF Succeed, FindConflict, Fail, RetryLater, Update!ReportProposal, Update!Conflict,
              Update!CallFails, Update!PatchRefused, Update!PatchLost
<1>8. /\ Cardinality(late) \in Nat /\ Cardinality(late') \in Nat
      /\ Cardinality(late') + Sending' <= Cardinality(late) + Sending
  <2>1. /\ Cardinality(late) \in Nat /\ Cardinality(late \union {payload}) \in Nat
        /\ Cardinality(late \union {payload}) <= Cardinality(late) + 1
    BY DocumentTyped, LateChanges
  <2>2. Sending' = 0 /\ Sending \in Nat /\ (stage = "patch" => Sending = 1)
    BY <1>1 DEF Sending
  <2> QED
    BY <1>7, <2>1, <2>2
<1>9. written' + Cardinality(late') + Sending' <= written + Cardinality(late) + Sending
  BY <1>8 DEF WritesHaveSenders, Sending
<1> QED
  BY <1>1, <1>3, <1>4, <1>6, <1>8, <1>9, Stages, AccountsMove

LEMMA NextWrites ==
    ASSUME QueueProofs!IInv, StageInv, UpdateProofs!IInv, WritesHaveSenders, [Next]_vars
    PROVE  WritesHaveSenders'
<1>1. Len(runs) \in Nat /\ DOMAIN runs = 1 .. Len(runs)
  BY JobTyped
<1>2. Cardinality(late) \in Nat /\ IsFiniteSet(late)
  BY DocumentTyped
<1>3. written \in Nat /\ Sending \in Nat
  BY DEF WritesHaveSenders, Sending
<1>4. ASSUME runs' = runs, stage' = stage, senders' = senders, written' = written, late' = late,
             pc' = "processing" => claimed' = claimed,
             pc' = "processing" <=> pc = "processing"
      PROVE  WritesHaveSenders'
  <2>1. Sending' = Sending
    BY <1>4 DEF Sending
  <2>2. stage' \in Update!Running \ {"patch"} => claimed' \notin senders
    BY <1>4 DEF WritesHaveSenders, StageInv, StageTellsTheAttempt
  <2>3. \A r \in senders : runs'[r].state = runs[r].state
    BY <1>4
  <2> QED
    BY <1>1, <1>2, <1>3, <1>4, <2>1, <2>2, <2>3, AccountsMove
<1>5. CASE Webhook
  BY <1>4, <1>5, EffectOfRequest DEF Webhook, Queue!PaperlessWebhook, updateVars
<1>6. CASE Reprocess
  BY <1>4, <1>6, EffectOfRequest DEF Reprocess, Queue!ReprocessDocument
<1>7. CASE QueueStep \/ Outside
  BY <1>4, <1>7, EffectOfProcess DEF QueueStep, Outside, updateVars, history
<1>8. CASE Claim
  <2>1. /\ stage' = "get" /\ senders' = senders /\ written' = written /\ late' = late
        /\ claimed' = Len(runs) + 1
        /\ \A r \in DOMAIN runs : r \in DOMAIN runs' /\ runs'[r] = runs[r]
    BY <1>8, EffectOfClaim DEF Claim, history, Update!Claim
  <2>2. claimed' \notin senders
    BY <1>1, <2>1 DEF WritesHaveSenders
  <2>3. Sending' = 0
    BY <2>1 DEF Sending
  <2>4. written' + Cardinality(late') + Sending' <= written + Cardinality(late) + Sending
    BY <1>2, <1>3, <2>1, <2>3
  <2>5. \A r \in senders : runs'[r].state = runs[r].state
    BY <2>1 DEF WritesHaveSenders
  <2> QED
    BY <1>1, <1>2, <2>1, <2>2, <2>4, <2>5, AccountsMove
<1>9. CASE Attempt
  BY <1>9, AttemptAccounts
<1>10. CASE Succeed \/ FindConflict \/ Fail \/ RetryLater
  <2>1. CASE Succeed /\ Update!PatchAnswered /\ written' = written + 1
    BY <2>1, SuccessAccounts
  <2>2. CASE Succeed /\ Update!ReportProposal /\ written' = written
    BY <2>2, EndingAccounts
  <2>3. CASE FindConflict \/ Fail \/ RetryLater
    BY <2>3, EndingAccounts DEF FindConflict, Fail, RetryLater
  <2> QED
    BY <1>10, <2>1, <2>2, <2>3 DEF Succeed
<1>11. CASE CutOff
  <2>1. /\ runs' = runs /\ stage' = "stranded" /\ senders' = senders /\ written' = written
        /\ pc = "processing"
    BY <1>11, EffectOfProcess DEF CutOff, history
  <2>2. UpdatePc = stage
    BY <2>1, ClaimedRun, UpdatePcIs
  <2>3. late' = late \/ (stage = "patch" /\ late' = late \union {payload})
    BY <1>11, <2>2 DEF CutOff, Update!CutOff, Update!PerhapsUnderWay
  <2>4. Cardinality(late \union {payload}) \in Nat
        /\ Cardinality(late \union {payload}) <= Cardinality(late) + 1
    BY <1>2, LateChanges
  <2>5. Sending' = 0 /\ (stage = "patch" => Sending = 1)
    BY <2>1 DEF Sending
  <2>6. Cardinality(late') \in Nat
        /\ written' + Cardinality(late') + Sending' <= written + Cardinality(late) + Sending
    <3>1. CASE late' = late
      BY <1>2, <1>3, <2>1, <2>5, <3>1
    <3>2. CASE stage = "patch" /\ late' = late \union {payload}
      <4>1. Cardinality(late') \in Nat /\ Cardinality(late') <= Cardinality(late) + 1
        BY <2>4, <3>2
      <4> QED
        BY <1>2, <1>3, <2>1, <2>5, <3>2, <4>1
    <3> QED
      BY <2>3, <3>1, <3>2
  <2>7. \A r \in senders : runs'[r].state = runs[r].state
    BY <2>1
  <2> QED
    BY <1>1, <1>2, <2>1, <2>6, <2>7, Stages, AccountsMove
<1>12. CASE World
  <2>1. /\ runs' = runs /\ stage' = stage /\ senders' = senders /\ claimed' = claimed
        /\ pc' = pc
    BY <1>12 DEF World, queueVars
  <2>2. CASE Update!Users /\ written' = written
    <3>1. late' = late
      BY <2>2 DEF Update!Users, Update!EditDocument, Update!EditTags, Update!ChangeOwner,
                  Update!UploadVersion, Update!AssignTag, Update!DeleteTag, Update!UserActs
    <3> QED
      BY <1>4, <2>1, <2>2, <3>1
  <2>3. CASE (Update!LatePatch /\ written' = written + 1)
             \/ (Update!LateLost /\ written' = written)
    <3>1. PICK p \in late : late' = late \ {p}
      BY <2>3 DEF Update!LatePatch, Update!LateLost
    <3>2. Cardinality(late') \in Nat /\ Cardinality(late') + 1 = Cardinality(late)
      BY <1>2, <3>1, LateChanges
    <3>3. Sending' = Sending
      BY <2>1 DEF Sending
    <3>4. written' \in {written, written + 1}
          /\ written' + Cardinality(late') + Sending' <= written + Cardinality(late) + Sending
      BY <1>2, <1>3, <2>3, <3>2, <3>3
    <3>5. stage' \in Update!Running \ {"patch"} => claimed' \notin senders
      BY <2>1 DEF WritesHaveSenders
    <3>6. \A r \in senders : runs'[r].state = runs[r].state
      BY <2>1
    <3> QED
      BY <1>1, <1>2, <2>1, <3>2, <3>4, <3>5, <3>6, AccountsMove
  <2> QED
    BY <1>12, <2>2, <2>3 DEF World
<1>13. CASE UNCHANGED vars
  BY <1>4, <1>13 DEF vars, queueVars, updateVars, history
<1> QED
  BY <1>5, <1>6, <1>7, <1>8, <1>9, <1>10, <1>11, <1>12, <1>13 DEF Next, WorkerStep

\* The inductive invariant of the composition, on top of those of its parts.
LEMMA DockInvariant == Spec => []DockInv
<1>1. /\ QueueProofs!IInv /\ StageInv /\ UpdateProofs!IInv /\ DockInv /\ [Next]_vars
      => DockInv'
  BY NextWanted, NextWrites DEF DockInv
<1> QED
  BY <1>1, InitDock, QueueInvariant, StageInvariant, DocumentInvariant, PTL DEF Spec

\* The tables, the document, the attempt and the history keep their types.
THEOREM TypeCorrectness == Spec => []TypeOK
<1>1. QueueProofs!IInv /\ StageInv /\ UpdateProofs!IInv /\ DockInv => TypeOK
  <2> SUFFICES ASSUME QueueProofs!IInv, StageInv, UpdateProofs!IInv, DockInv PROVE TypeOK
    OBVIOUS
  <2>1. Queue!TypeOK
    BY SameTables DEF QueueProofs!IInv
  <2>2. Update!TypeOK
    BY SameUpdate DEF UpdateProofs!IInv
  <2>3. wanted \in 0 .. MaxVersions
    BY DocumentTyped DEF DockInv, WantedIsRead
  <2> QED
    BY <2>1, <2>2, <2>3 DEF TypeOK, StageInv, StageTellsTheAttempt, DockInv, WantedIsRead,
                            WritesHaveSenders
<1> QED
  BY <1>1, QueueInvariant, StageInvariant, DocumentInvariant, DockInvariant, PTL

\* A document that is settled with a result was read by its last attempt as it was
\* at the last request that found no attempt running, or newer.
THEOREM RequestsAreRead == Spec => []RequestedVersionIsRead
<1>1. DockInv => RequestedVersionIsRead
  BY DEF DockInv, WantedIsRead
<1> QED
  BY <1>1, DockInvariant, PTL

\* The history of runs accounts for what was written to the document.
THEOREM RunsAccount == Spec => []RunsAccountForWrites
<1>1. QueueProofs!IInv /\ UpdateProofs!IInv /\ DockInv => RunsAccountForWrites
  <2> SUFFICES ASSUME QueueProofs!IInv, UpdateProofs!IInv, DockInv PROVE RunsAccountForWrites
    OBVIOUS
  <2>1. Len(runs) \in Nat /\ DOMAIN runs = 1 .. Len(runs) /\ Cardinality(late) \in Nat
    BY JobTyped, DocumentTyped
  <2>2. Cardinality(senders) \in Nat /\ Cardinality(Succeeded) \in Nat
    <3>1. Succeeded \in SUBSET senders
      BY DEF Succeeded
    <3> QED
      BY <2>1, <3>1, SendersFinite DEF DockInv, WritesHaveSenders
  <2>3. written \in Cardinality(Succeeded) .. Cardinality(senders)
    BY <2>1, <2>2 DEF DockInv, WritesHaveSenders, Sending
  <2> QED
    BY <2>3 DEF RunsAccountForWrites, Succeeded, DockInv, WritesHaveSenders
<1> QED
  BY <1>1, QueueInvariant, DocumentInvariant, DockInvariant, PTL

-----------------------------------------------------------------------------
(* What the parts promise, the program keeps.                              *)

\* However the queue repeats, ends and cuts off attempts, the content of a version
\* comes from that version's file, no attempt that writes has overlooked an edit or
\* adds a tag that had left the owner by the second read, and the writes of a cycle are
\* accounted for.
THEOREM DocumentPromises ==
    Spec => [](Update!ContentOfVersion /\ Update!NoWriteAfterAnEdit
               /\ Update!AddedTagsWereStillTheOwners /\ Update!WritesAreAccountedFor)
<1>1. UpdateProofs!IInv => Update!ContentOfVersion /\ Update!NoWriteAfterAnEdit
  BY DEF UpdateProofs!IInv, Update!ContentOfVersion, UpdateProofs!ContentOfVersion,
         Update!NoWriteAfterAnEdit, UpdateProofs!NoWriteAfterAnEdit
<1>2. UpdateProofs!WritesAreAccountedFor => Update!WritesAreAccountedFor
  BY DEF UpdateProofs!WritesAreAccountedFor, Update!WritesAreAccountedFor
<1>3. Spec => []UpdateProofs!WritesAreAccountedFor
  BY ImplementsTheProvedUpdate, UpdateSettings, UpdateProofs!WritesCorrect, PTL
<1>4. UpdateProofs!AddedTagsWereStillTheOwners => Update!AddedTagsWereStillTheOwners
  BY DEF UpdateProofs!AddedTagsWereStillTheOwners, Update!AddedTagsWereStillTheOwners
<1>5. Spec => []UpdateProofs!AddedTagsWereStillTheOwners
  BY ImplementsTheProvedUpdate, UpdateSettings, UpdateProofs!AddedTagsCorrect, PTL
<1> QED
  BY <1>1, <1>2, <1>3, <1>4, <1>5, DocumentInvariant, PTL

\* Whatever happens to the document, its runs form cycles within the budget, agree
\* with the job, and start as far apart as the backoff says, and a retry is due no
\* later than it says.
THEOREM QueuePromises ==
    Spec => [](Queue!RunJobAgreement /\ Queue!AttemptsWithinBudget
               /\ Queue!AttemptsFormCycles /\ Queue!AttemptsSpacedByBackoff
               /\ Queue!RetryIsDueInTime)
<1>1. QueueProofs!IInv => Queue!RunJobAgreement /\ Queue!AttemptsWithinBudget
  BY DEF QueueProofs!IInv, Queue!RunJobAgreement, QueueProofs!RunJobAgreement,
         Queue!AttemptsWithinBudget, QueueProofs!AttemptsWithinBudget,
         Queue!RunIds, QueueProofs!RunIds
<1>2. QueueProofs!AttemptsFormCycles => Queue!AttemptsFormCycles
  BY DEF Queue!AttemptsFormCycles, QueueProofs!AttemptsFormCycles, Queue!RunIds,
         QueueProofs!RunIds, Queue!Consecutive, QueueProofs!Consecutive,
         Queue!SettledStates, QueueProofs!SettledStates
<1>3. QueueProofs!AttemptsSpacedByBackoff => Queue!AttemptsSpacedByBackoff
  BY DEF Queue!AttemptsSpacedByBackoff, QueueProofs!AttemptsSpacedByBackoff, Queue!RunIds,
         QueueProofs!RunIds, Queue!Consecutive, QueueProofs!Consecutive,
         Queue!Lesser, QueueProofs!Lesser
<1>4. Spec => []QueueProofs!AttemptsFormCycles
  BY RunsTheProvedQueue, QueueSettings, QueueProofs!HistoryFormsCycles, PTL
<1>5. Spec => []QueueProofs!AttemptsSpacedByBackoff
  BY RunsTheProvedQueue, QueueSettings, QueueProofs!AttemptsAreSpaced, PTL
<1>6. QueueProofs!RetryIsDueInTime => Queue!RetryIsDueInTime
  BY DEF Queue!RetryIsDueInTime, QueueProofs!RetryIsDueInTime, Queue!RunIds,
         QueueProofs!RunIds, Queue!Lesser, QueueProofs!Lesser
<1>7. Spec => []QueueProofs!RetryIsDueInTime
  BY RunsTheProvedQueue, QueueSettings, QueueProofs!RetriesAreDueInTime, PTL
<1> QED
  BY <1>1, <1>2, <1>3, <1>4, <1>5, <1>6, <1>7, QueueInvariant, PTL
=============================================================================
