------------------------------ MODULE JobQueue ------------------------------
(***************************************************************************)
(* The durable job queue of MistralDock: the tables `jobs' and `runs' of   *)
(* JobRepository, the API handlers that enqueue documents, the worker loop *)
(* that claims one due job per iteration and saves its outcome, and the    *)
(* life of the process that runs both (SIGTERM, crash, restart).           *)
(*                                                                         *)
(* What an attempt does to a document is another module's matter: here it  *)
(* is one of the outcomes that Worker.run_once tells apart.                *)
(***************************************************************************)
EXTENDS Integers, Sequences, FiniteSets

CONSTANTS
    Documents,      \* Paperless document ids; `jobs.document_id' is unique
    MaxAttempts,    \* settings.max_attempts
    RetryBase,      \* settings.retry_base_seconds
    RetryMax,       \* settings.retry_max_seconds
    MaxJitter,      \* the literal 30 in the worker's default jitter
    LeaseSeconds,   \* Worker(lease_seconds = 300)
    \* Bounds of a checked instance.
    MaxClock,       \* the clock stops here
    MaxLag,         \* ticks from the start of an iteration, or of an outage, to the next
    LastRequestAt,  \* no request arrives later
    MaxRequests,    \* requests served
    MaxStops,       \* SIGTERMs
    MaxFaults       \* crashes and storage failures

ASSUME DocumentsAssumption == Documents # {}

\* config.py declares all three with ge=1; RetryMax < RetryBase is accepted.
ASSUME SettingsAssumption ==
    /\ MaxAttempts \in Nat \ {0}
    /\ RetryBase \in Nat \ {0}
    /\ RetryMax \in Nat \ {0}

ASSUME LiteralsAssumption ==
    /\ MaxJitter \in Nat
    /\ LeaseSeconds \in Nat \ {0}

ASSUME BoundsAssumption ==
    /\ MaxClock \in Nat
    /\ MaxLag \in Nat
    /\ LastRequestAt \in Nat
    /\ MaxRequests \in Nat
    /\ MaxStops \in Nat
    /\ MaxFaults \in Nat

VARIABLES
    jobs,       \* table `jobs', by document_id
    runs,       \* table `runs', in the order of insertion; a run's id is its index
    pc,         \* where the worker task is; "down": no process
    now,        \* `now' of the current or last iteration; of the shutdown while down
    claimed,    \* run_id of the ClaimedJob being processed
    stop,       \* the asyncio.Event set by the lifespan's exit
    clock,      \* datetime.now(UTC), one tick per second
    requests, stops, faults     \* counters for the bounds

database == <<jobs, runs>>
worker == <<pc, now, claimed>>
environment == <<clock, requests, stops, faults>>
vars == <<jobs, runs, pc, now, claimed, stop, clock, requests, stops, faults>>

-----------------------------------------------------------------------------
(* Persistent and in-memory state models.                                  *)

\* SQL NULL of an id or a timestamp (ids and the clock start at 1).
Null == 0

Triggers == {"automatic", "reprocess"}
WaitingStates == {"queued", "retry_wait"}
SettledStates == {"succeeded", "failed", "conflict"}
JobStates == WaitingStates \union {"processing"} \union SettledStates

\* Faulty: a job that is being processed does not count as active.
ActiveStatesWithoutProcessing == {"queued", "retry_wait"}
ActiveStates == {"queued", "processing", "retry_wait"}

\* A row of `jobs'; state "absent" stands for a document without a row.
JobRecord == [trigger : Triggers, state : JobStates \union {"absent"},
              attempt_count : Nat, next_attempt_at : Int, lease_until : Int,
              current_run_id : Nat, created_at : Int]

NoJob == [trigger |-> "automatic", state |-> "absent", attempt_count |-> 0,
          next_attempt_at |-> Null, lease_until |-> Null,
          current_run_id |-> Null, created_at |-> Null]

\* A row of `runs'; only release_expired_leases writes "interrupted".
RunRecord == [document : Documents, trigger : Triggers, attempt : Nat,
              state : JobStates \union {"interrupted"},
              started_at : Int, finished_at : Int]

TypeOK ==
    /\ jobs \in [Documents -> JobRecord]
    /\ runs \in Seq(RunRecord)
    /\ pc \in {"idle", "cleaning", "processing", "dead", "down"}
    /\ now \in Nat
    /\ claimed \in Nat
    /\ stop \in BOOLEAN
    /\ clock \in Nat
    /\ requests \in Nat /\ stops \in Nat /\ faults \in Nat

Init ==
    /\ jobs = [d \in Documents |-> NoJob]
    /\ runs = <<>>
    /\ pc = "idle" /\ now = 1 /\ claimed = Null
    /\ stop = FALSE
    /\ clock = 1 /\ requests = 0 /\ stops = 0 /\ faults = 0

-----------------------------------------------------------------------------
(* Enqueueing.  An API handler is a coroutine without an await: it runs to *)
(* its commit between two steps of the worker.                             *)

\* Requests are served until uvicorn leaves the lifespan.
Serving == pc # "down" /\ ~stop

NewJob(trigger) ==
    [NoJob EXCEPT !.trigger = trigger, !.state = "queued",
                  !.next_attempt_at = clock, !.created_at = clock]

\* Faulty: the attempts of the job's previous life still count.
RequeuedKeepingAttempts(job, trigger) ==
    [job EXCEPT !.trigger = trigger, !.state = "queued", !.next_attempt_at = clock,
                !.lease_until = Null, !.current_run_id = Null]

Requeued(job, trigger) ==
    [job EXCEPT !.trigger = trigger, !.state = "queued", !.attempt_count = 0,
                !.next_attempt_at = clock, !.lease_until = Null,
                !.current_run_id = Null]

\* JobRepository._enqueue: at most one job per document; an active job is
\* left as it is, a settled one starts over only when forced.
Enqueue(d, trigger, force) ==
    jobs' = CASE jobs[d].state = "absent" -> [jobs EXCEPT ![d] = NewJob(trigger)]
              [] jobs[d].state # "absent" /\ force /\ jobs[d].state \notin ActiveStates
                    -> [jobs EXCEPT ![d] = Requeued(@, trigger)]
              [] OTHER -> jobs

Request ==
    /\ Serving
    /\ clock <= LastRequestAt /\ requests < MaxRequests
    /\ requests' = requests + 1
    /\ UNCHANGED <<runs, worker, stop, clock, stops, faults>>

\* Faulty: a repeated webhook forces a new cycle.
ForcedWebhook(d) == Request /\ Enqueue(d, "automatic", TRUE)

\* POST /v1/webhooks/paperless.
PaperlessWebhook(d) == Request /\ Enqueue(d, "automatic", FALSE)

\* Faulty: a settled document is left as it is.
ReprocessUnlessKnown(d) == Request /\ Enqueue(d, "reprocess", FALSE)

\* POST /v1/documents/{document_id}/reprocess.
ReprocessDocument(d) == Request /\ Enqueue(d, "reprocess", TRUE)

-----------------------------------------------------------------------------
(* One iteration of _worker_loop: capture `now', clean up remote files,    *)
(* claim at most one due job, process it, save the outcome.                *)

\* Faulty: the loop does not look at the event.
BeginIterationAnyway ==
    /\ pc = "idle"
    /\ pc' = "cleaning" /\ now' = clock
    /\ UNCHANGED <<database, claimed, stop, environment>>

\* `while not stop.is_set()', datetime.now(UTC), then the first await.
BeginIteration ==
    /\ pc = "idle" /\ ~stop
    /\ pc' = "cleaning" /\ now' = clock
    /\ UNCHANGED <<database, claimed, stop, environment>>

\* Faulty: a row in state processing blocks the queue.
DueUnlessBusy ==
    {d \in Documents : /\ jobs[d].state \in WaitingStates
                      /\ jobs[d].next_attempt_at <= now
                      /\ \A e \in Documents : jobs[e].state # "processing"}

DueJobs == {d \in Documents : /\ jobs[d].state \in WaitingStates
                              /\ jobs[d].next_attempt_at <= now}

\* Faulty: the oldest row first, whenever it became due.
CreatedBefore(d, e) == jobs[d].created_at <= jobs[e].created_at

\* ORDER BY next_attempt_at, created_at.
OrderedBefore(d, e) ==
    \/ jobs[d].next_attempt_at < jobs[e].next_attempt_at
    \/ /\ jobs[d].next_attempt_at = jobs[e].next_attempt_at
       /\ jobs[d].created_at <= jobs[e].created_at

\* Faulty: a state that JobState does not have.
ClaimedAsUnknownState(job) ==
    [job EXCEPT !.state = "claimed", !.attempt_count = @ + 1,
                !.lease_until = now + LeaseSeconds,
                !.current_run_id = Len(runs) + 1]

Claimed(job) ==
    [job EXCEPT !.state = "processing", !.attempt_count = @ + 1,
                !.lease_until = now + LeaseSeconds,
                !.current_run_id = Len(runs) + 1]

NewRun(d) ==
    [document |-> d, trigger |-> jobs[d].trigger,
     attempt |-> jobs[d].attempt_count + 1, state |-> "processing",
     started_at |-> now, finished_at |-> Null]

\* JobRepository.claim_due_job.  The loop does not look at `stop' again.
ClaimDueJob(d) ==
    /\ pc = "cleaning"
    /\ d \in DueJobs
    /\ \A e \in DueJobs : OrderedBefore(d, e)
    /\ jobs' = [jobs EXCEPT ![d] = Claimed(@)]
    /\ runs' = Append(runs, NewRun(d))
    /\ pc' = "processing" /\ claimed' = Len(runs) + 1
    /\ UNCHANGED <<now, stop, environment>>

NothingDue ==
    /\ pc = "cleaning"
    /\ DueJobs = {}
    /\ pc' = "idle"
    /\ UNCHANGED <<database, now, claimed, stop, environment>>

-----------------------------------------------------------------------------
(* The outcome of an attempt.  Every timestamp is the iteration's `now'.   *)

\* Faulty: the run row of a finished attempt is left open.
RunLeftOpen(d, state) == runs

\* Faulty: the runs are selected by document instead of by current_run_id.
FinishEveryRun(d, state) ==
    [r \in DOMAIN runs |->
        IF runs[r].document = d THEN [runs[r] EXCEPT !.state = state, !.finished_at = now]
        ELSE runs[r]]

\* JobRepository._finish_current_run, and the same lines of finish_run.
FinishCurrentRun(d, state) ==
    IF jobs[d].current_run_id = Null THEN runs
    ELSE [runs EXCEPT ![jobs[d].current_run_id] =
            [@ EXCEPT !.state = state, !.finished_at = now]]

\* Control returns to the loop, which waits and starts over.
Return == pc' = "idle" /\ claimed' = Null /\ UNCHANGED <<now, stop, environment>>

\* JobRepository.finish_run.
FinishRun(d, state) ==
    /\ jobs' = [jobs EXCEPT ![d] = [@ EXCEPT !.state = state, !.lease_until = Null]]
    /\ runs' = FinishCurrentRun(d, state)
    /\ Return

\* JobRepository.schedule_retry.
ScheduleRetry(d, next_attempt_at) ==
    /\ jobs' = [jobs EXCEPT ![d] = [@ EXCEPT !.state = "retry_wait", !.lease_until = Null,
                                             !.next_attempt_at = next_attempt_at]]
    /\ runs' = FinishCurrentRun(d, "retry_wait")
    /\ Return

ClaimedDocument == runs[claimed].document
ClaimedAttempt == runs[claimed].attempt

Lesser(a, b) == IF a <= b THEN a ELSE b

\* Faulty: the delay is not capped.
DelayWithoutCap(attempt) == RetryBase * 2^(attempt - 1)

Delay(attempt) == Lesser(RetryBase * 2^(attempt - 1), RetryMax)

\* Faulty: only the jitter separates two attempts.
RetryWithoutDelay(attempt, jitter) == now + jitter

RetryAt(attempt, jitter) == now + Delay(attempt) + jitter

\* Faulty: the last attempt is one too many.
OneMoreAttempt(attempt) == attempt > MaxAttempts

Exhausted(attempt) == attempt >= MaxAttempts

\* DocumentProcessor.process returned a result.
SaveResult(state) ==
    /\ pc = "processing"
    /\ FinishRun(ClaimedDocument, state)

\* PermanentProcessingError.
FailPermanently ==
    /\ pc = "processing"
    /\ FinishRun(ClaimedDocument, "failed")

\* RetryableProcessingError, or any other exception: Worker._save_retry_or_failure.
ScheduleAnotherAttempt ==
    /\ pc = "processing"
    /\ ~Exhausted(ClaimedAttempt)
    /\ \E jitter \in 0 .. Lesser(Delay(ClaimedAttempt), MaxJitter) :
          ScheduleRetry(ClaimedDocument, RetryAt(ClaimedAttempt, jitter))

\* Faulty: the last failure is logged and not saved.
GiveUpWithoutSaving ==
    /\ pc = "processing"
    /\ Exhausted(ClaimedAttempt)
    /\ UNCHANGED database
    /\ Return

GiveUp ==
    /\ pc = "processing"
    /\ Exhausted(ClaimedAttempt)
    /\ FinishRun(ClaimedDocument, "failed")

-----------------------------------------------------------------------------
(* The process.                                                            *)

\* A repository call of the iteration raises: the transaction is rolled back,
\* nothing catches the exception, the worker task ends and the API stays up.
StorageFailure ==
    /\ pc \in {"cleaning", "processing"}
    /\ faults < MaxFaults /\ faults' = faults + 1
    /\ pc' = "dead" /\ claimed' = Null
    /\ UNCHANGED <<database, now, stop, clock, requests, stops>>

\* SIGTERM: the lifespan's exit sets the event ...
Stop ==
    /\ Serving
    /\ stops < MaxStops /\ stops' = stops + 1
    /\ stop' = TRUE
    /\ UNCHANGED <<database, worker, clock, requests, faults>>

\* ... and waits for the worker task to end.
Exit ==
    /\ stop /\ pc \in {"idle", "dead"}
    /\ pc' = "down" /\ now' = clock
    /\ UNCHANGED <<database, claimed, stop, environment>>

\* SIGKILL (also at the end of the grace period), power loss, out of memory.
Crash ==
    /\ pc # "down"
    /\ faults < MaxFaults /\ faults' = faults + 1
    /\ pc' = "down" /\ now' = clock /\ claimed' = Null
    /\ UNCHANGED <<database, stop, clock, requests, stops>>

\* lifespan: create_schema() leaves the rows alone, a new worker task starts.
Restart ==
    /\ pc = "down"
    /\ pc' = "idle" /\ stop' = FALSE
    /\ UNCHANGED <<database, now, claimed, environment>>

\* A dead worker starts no iteration, so no lag bounds the time it is dead; the
\* end of the requests does, for nothing else can happen to it.
Tick ==
    /\ clock < MaxClock
    /\ (pc = "dead" /\ clock <= LastRequestAt) \/ clock - now < MaxLag
    /\ clock' = clock + 1
    /\ UNCHANGED <<database, worker, stop, requests, stops, faults>>

-----------------------------------------------------------------------------
WorkerStep ==
    \/ BeginIteration
    \/ \E d \in Documents : ClaimDueJob(d)
    \/ NothingDue
    \/ \E state \in {"succeeded", "conflict"} : SaveResult(state)
    \/ FailPermanently
    \/ ScheduleAnotherAttempt
    \/ GiveUp

Next ==
    \/ \E d \in Documents : PaperlessWebhook(d)
    \/ \E d \in Documents : ReprocessDocument(d)
    \/ WorkerStep
    \/ StorageFailure
    \/ Stop
    \/ Exit
    \/ Crash
    \/ Restart
    \/ Tick

Spec == Init /\ [][Next]_vars

\* The event loop keeps scheduling the worker task and the calls of an attempt
\* return or raise; the container is restarted; time passes.
FairSpec ==
    /\ Spec
    /\ WF_vars(WorkerStep)
    /\ WF_vars(Exit)
    /\ WF_vars(Restart)
    /\ WF_vars(Tick)

-----------------------------------------------------------------------------
(* JobRepository.release_expired_leases.  Nothing under src/ calls it but   *)
(* its unit test, so it is no step of Next.  SpecWithRelease is for what it *)
(* does to the tables if it is called between two iterations; that it ever  *)
(* is, nothing says.                                                        *)

ExpiredLeases == {d \in Documents : /\ jobs[d].state = "processing"
                                    /\ jobs[d].lease_until # Null
                                    /\ jobs[d].lease_until <= clock}

Released(job) ==
    [job EXCEPT !.state = "retry_wait", !.lease_until = Null, !.next_attempt_at = clock]

\* Faulty: the run of the interrupted attempt stays open.
NotInterrupted(run) == run

Interrupted(run) == [run EXCEPT !.state = "interrupted", !.finished_at = clock]

ReleaseExpiredLeases ==
    /\ pc = "idle" /\ ~stop
    /\ ExpiredLeases # {}
    /\ jobs' = [d \in Documents |-> IF d \in ExpiredLeases THEN Released(jobs[d]) ELSE jobs[d]]
    /\ runs' = [r \in DOMAIN runs |->
                  IF \E d \in ExpiredLeases : jobs[d].current_run_id = r
                  THEN Interrupted(runs[r]) ELSE runs[r]]
    /\ UNCHANGED <<worker, stop, environment>>

NextWithRelease == Next \/ ReleaseExpiredLeases

SpecWithRelease == Init /\ [][NextWithRelease]_vars

-----------------------------------------------------------------------------
(* Safety.                                                                  *)

RunIds == 1 .. Len(runs)

\* d is being processed by nobody: the attempt's process or task is gone.
Stranded(d) ==
    /\ jobs[d].state = "processing"
    /\ ~(pc = "processing" /\ ClaimedDocument = d)

\* A job is processing exactly while its current run is, and no other run is
\* open: claim_due_job, finish_run and schedule_retry each write both tables,
\* and _finish_current_run silently skips a job that points at no run.
RunJobAgreement ==
    /\ \A d \in Documents : jobs[d].state = "processing" =>
          /\ jobs[d].current_run_id \in RunIds
          /\ runs[jobs[d].current_run_id].attempt = jobs[d].attempt_count
    /\ \A r \in RunIds : runs[r].state = "processing" <=>
          /\ jobs[runs[r].document].state = "processing"
          /\ jobs[runs[r].document].current_run_id = r

\* Crashes, storage failures, restarts and repeated requests never make a
\* document's attempt number exceed max_attempts.
AttemptsWithinBudget ==
    /\ \A d \in Documents : jobs[d].attempt_count <= MaxAttempts
    /\ \A r \in RunIds : runs[r].attempt <= MaxAttempts

\* r and s are consecutive runs of one document.
Consecutive(r, s) ==
    /\ r < s /\ runs[r].document = runs[s].document
    /\ \A q \in r + 1 .. s - 1 : runs[q].document # runs[s].document

\* The history of a document is a sequence of cycles: an attempt follows one
\* that waits for a retry of the same request, with the next number, or starts
\* a cycle that a reprocess request opened after the last one was settled.
AttemptsFormCycles ==
    \A r, s \in RunIds : Consecutive(r, s) =>
        \/ /\ runs[r].state = "retry_wait"
           /\ runs[s].attempt = runs[r].attempt + 1
           /\ runs[s].trigger = runs[r].trigger
        \/ /\ runs[r].state \in SettledStates
           /\ runs[s].attempt = 1
           /\ runs[s].trigger = "reprocess"

\* However often the Paperless workflow fires for a document, automatic
\* processing starts once (design, "Zustandsmodell": automatic duplicates are
\* deduplicated by document id).
AutomaticProcessingStartsOnce ==
    \A r, s \in RunIds :
        /\ runs[r].trigger = "automatic" /\ runs[r].attempt = 1
        /\ runs[s].trigger = "automatic" /\ runs[s].attempt = 1
        /\ runs[r].document = runs[s].document
        => r = s

\* Two attempts of one cycle start at least the backoff apart, whatever
\* requests, restarts and other jobs come between them.  (From start to start: an
\* attempt that takes longer than the delay to fail is due again at once.)
AttemptsSpacedByBackoff ==
    \A r, s \in RunIds :
        Consecutive(r, s) /\ runs[s].attempt = runs[r].attempt + 1
        => runs[s].started_at - runs[r].started_at
             >= Lesser(RetryBase * 2^(runs[r].attempt - 1), RetryMax)

\* A retry is due no later than the capped backoff and its jitter after the start
\* of the attempt that failed, however many attempts, requests and restarts were
\* before it.
RetryIsDueInTime ==
    \A d \in Documents : jobs[d].state = "retry_wait" =>
        LET failed == runs[jobs[d].current_run_id]
        IN  jobs[d].next_attempt_at
              <= failed.started_at + Lesser(RetryBase * 2^(failed.attempt - 1), RetryMax)
                   + MaxJitter

\* A waiting job is overtaken at most once by each other job after it became
\* due: retries of e queue up behind d (the order of claim_due_job).
WaitingJobIsOvertakenOnce ==
    \A d \in Documents : jobs[d].state \in WaitingStates =>
        \A e \in Documents \ {d} :
            Cardinality({r \in RunIds : /\ runs[r].document = e
                                       /\ runs[r].started_at > jobs[d].next_attempt_at}) <= 1

\* Only a crash or a storage failure leaves a job in state processing that
\* nobody processes, and each of them leaves at most one.
FaultStrandsOneJob ==
    Cardinality({d \in Documents : Stranded(d)}) <= faults

-----------------------------------------------------------------------------
(* The inductive invariant behind the first three.                          *)

\* A job points at a run of its own document, or at none.
PointersWithinRuns ==
    \A d \in Documents : jobs[d].current_run_id # Null =>
        /\ jobs[d].current_run_id \in RunIds
        /\ runs[jobs[d].current_run_id].document = d

\* The run in the worker's hands is open.
WorkerHoldsOpenRun ==
    pc = "processing" => claimed \in RunIds /\ runs[claimed].state = "processing"

\* A job that can be claimed has an attempt left.
WaitingJobHasAttemptLeft ==
    \A d \in Documents : jobs[d].state \in WaitingStates =>
        jobs[d].attempt_count < MaxAttempts

\* finished_at is set exactly when a run is closed.
ClosedRunsAreStamped ==
    /\ now # Null /\ clock # Null
    /\ \A r \in RunIds : runs[r].finished_at = Null <=> runs[r].state = "processing"

IInv ==
    /\ TypeOK
    /\ PointersWithinRuns
    /\ RunJobAgreement
    /\ WorkerHoldsOpenRun
    /\ WaitingJobHasAttemptLeft
    /\ AttemptsWithinBudget
    /\ ClosedRunsAreStamped

-----------------------------------------------------------------------------
(* The queue implements JobLifecycle.                                       *)

LifecycleStatus(d) ==
    CASE jobs[d].state = "absent" -> "unknown"
      [] jobs[d].state \in WaitingStates -> "waiting"
      [] jobs[d].state \in SettledStates -> "settled"
      [] jobs[d].state = "processing" -> IF Stranded(d) THEN "lost" ELSE "running"

Lifecycle == INSTANCE JobLifecycle WITH
    status <- [d \in Documents |-> LifecycleStatus(d)],
    attempts <- [d \in Documents |-> jobs[d].attempt_count]

\* Each step of handlers, worker and process is a step of one document's life
\* or none: no document is attempted twice at once, and one that an
\* interruption has cut off is never attempted again.
ImplementsLifecycle == Lifecycle!Spec

-----------------------------------------------------------------------------
(* Action properties.                                                       *)

\* A run is history once it is closed: no later request, attempt, restart or
\* sweep rewrites it, and no run disappears.
ClosedRunsKept ==
    \A r \in RunIds : /\ r \in 1 .. Len(runs')
                      /\ runs[r].finished_at # Null => runs'[r] = runs[r]

ClosedRunsStayClosed == [][ClosedRunsKept]_vars

\* A job leaves processing by the hand of the worker that claimed it; a
\* request for an active document, or the end of the process, changes nothing.
ActiveJobUntouchedByOthers ==
    [][\A d \in Documents :
         jobs[d].state \in WaitingStates \union {"processing"} /\ jobs'[d] # jobs[d] =>
            \/ pc = "cleaning" /\ pc' = "processing" /\ runs'[claimed'].document = d
            \/ pc = "processing" /\ pc' = "idle" /\ ClaimedDocument = d]_vars

-----------------------------------------------------------------------------
(* Liveness.                                                                *)

Waiting(d) == jobs[d].state \in WaitingStates
Settled(d) == jobs[d].state \in SettledStates

\* Every accepted document is settled: retries end, a deferred job is claimed, a
\* shutdown with a restart loses nothing.  With faults, the only job that may miss
\* its outcome is the one whose attempt was cut off; the others survive the
\* restart (a dead worker task aside).
AcceptedDocumentsSettle ==
    \A d \in Documents :
        Waiting(d) ~> (Settled(d) \/ (faults > 0 /\ (Stranded(d) \/ pc = "dead")))

\* A process that was told to stop ends, wherever its worker is: in the cleanup,
\* before the claim of a job that it will still process, or dead.
ShutdownCompletes == stop ~> pc = "down"

-----------------------------------------------------------------------------
(* What the documents say and the code does not do.                        *)

\* Work that an interruption cut off becomes runnable again after a restart
\* (design, "Zustandsmodell": the lease expires and the job returns to
\* retry_wait).
InterruptedWorkRunsAgain ==
    \A d \in Documents : Stranded(d) ~> (~Stranded(d) \/ pc = "dead")
=============================================================================
