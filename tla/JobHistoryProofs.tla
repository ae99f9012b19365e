--------------------------- MODULE JobHistoryProofs ---------------------------
(***************************************************************************)
(* Theorems about the history that the queue writes: which attempts follow *)
(* which, when, at whose request, and what faults leave behind.            *)
(***************************************************************************)
EXTENDS JobQueueProofs, FiniteSetTheorems

RunsOf(d) == {r \in RunIds : runs[r].document = d}
Latest(r) == \A s \in RunIds : runs[s].document = runs[r].document => s <= r

\* No run starts in the future, and what a worker holds it claimed in this iteration.
RunsStartInThePast ==
    /\ now <= clock
    /\ \A r \in RunIds : runs[r].started_at <= now /\ runs[r].attempt >= 1
    /\ pc = "processing" => runs[claimed].started_at = now

\* A job that is not at the start of a cycle tells what its latest run was; at
\* the start, any earlier run is settled and the request is to reprocess.
JobTellsItsLatestRun ==
    \A d \in Documents :
        /\ jobs[d].state = "absent" => RunsOf(d) = {}
        /\ jobs[d].state = "queued" =>
              /\ jobs[d].attempt_count = 0
              /\ \A r \in RunsOf(d) :
                    /\ jobs[d].trigger = "reprocess"
                    /\ Latest(r) => runs[r].state \in SettledStates
        /\ jobs[d].state \notin {"absent", "queued"} =>
              /\ jobs[d].current_run_id \in RunsOf(d) /\ Latest(jobs[d].current_run_id)
              /\ runs[jobs[d].current_run_id].state = jobs[d].state
              /\ runs[jobs[d].current_run_id].attempt = jobs[d].attempt_count
              /\ runs[jobs[d].current_run_id].trigger = jobs[d].trigger

\* A waiting job is due after all its runs began, and a retry after the delay
\* and before the delay and the largest jitter have passed.
WaitingJobIsDueLater ==
    \A d \in Documents : jobs[d].state \in WaitingStates =>
        /\ \A r \in RunsOf(d) : runs[r].started_at <= jobs[d].next_attempt_at
        /\ jobs[d].state = "retry_wait" =>
              /\ jobs[d].next_attempt_at >= runs[jobs[d].current_run_id].started_at
                                              + Delay(runs[jobs[d].current_run_id].attempt)
              /\ jobs[d].next_attempt_at <= runs[jobs[d].current_run_id].started_at
                                              + Delay(runs[jobs[d].current_run_id].attempt)
                                              + MaxJitter

\* Two runs of e that both began after the waiting d was due are the same.
OvertakenOnce ==
    \A d \in Documents : jobs[d].state \in WaitingStates =>
        \A e \in Documents \ {d} : \A r, s \in RunsOf(e) :
            /\ runs[r].started_at > jobs[d].next_attempt_at
            /\ runs[s].started_at > jobs[d].next_attempt_at
            => r = s

HistoryInv ==
    /\ RunsStartInThePast
    /\ JobTellsItsLatestRun
    /\ WaitingJobIsDueLater
    /\ AttemptsFormCycles
    /\ AutomaticProcessingStartsOnce
    /\ AttemptsSpacedByBackoff
    /\ OvertakenOnce

-----------------------------------------------------------------------------
(* What the three kinds of writes do to the tables.                        *)

LEMMA RunColumns ==
  ASSUME IInv, NEW r \in RunIds
  PROVE  /\ r \in Nat /\ runs[r].document \in Documents
         /\ runs[r].attempt \in Nat /\ runs[r].started_at \in Int
<1>1. runs[r] \in RunRecord
  BY RunsTyped DEF IInv
<1> QED
  BY <1>1 DEF RunRecord, RunIds

LEMMA JobColumns ==
  ASSUME IInv, NEW d \in Documents
  PROVE  /\ jobs[d].state \in JobStates \union {"absent"}
         /\ jobs[d].attempt_count \in Nat /\ jobs[d].next_attempt_at \in Int
BY DEF IInv, TypeOK, JobRecord

\* After a request for d.
LEMMA QueuedRow ==
  ASSUME IInv, NEW d \in Documents, RowQueued(d)
  PROVE  /\ jobs[d].state \in SettledStates \union {"absent"}
         /\ jobs'[d].state = "queued" /\ jobs'[d].attempt_count = 0
         /\ jobs'[d].next_attempt_at = clock
         /\ jobs[d].state # "absent" => jobs'[d].trigger = "reprocess"
         /\ \A e \in Documents \ {d} : jobs'[e] = jobs[e]
         /\ runs' = runs /\ RunIds' = RunIds
         /\ pc' = pc /\ now' = now /\ claimed' = claimed /\ clock' = clock /\ faults' = faults
<1>1. jobs[d].state \in SettledStates \union {"absent"}
  BY JobColumns DEF RowQueued, JobStates, WaitingStates, ActiveStates
<1>2. PICK job \in JobRecord :
        /\ job.state = "queued" /\ job.attempt_count = 0 /\ job.next_attempt_at = clock
        /\ jobs[d].state # "absent" => job.trigger = "reprocess"
        /\ jobs' = [jobs EXCEPT ![d] = job]
        /\ UNCHANGED <<runs, worker, stop, clock, faults>>
  BY DEF RowQueued
<1>3. jobs'[d] = job /\ \A e \in Documents \ {d} : jobs'[e] = jobs[e]
  BY <1>2 DEF IInv, TypeOK
<1> QED
  BY <1>1, <1>2, <1>3 DEF worker, RunIds

\* After a claim of d: one more run, in the worker's hands.
LEMMA ClaimedRow ==
  ASSUME IInv, NEW d \in Documents, RowClaimed(d)
  PROVE  /\ pc = "cleaning" /\ pc' = "processing" /\ claimed' = Len(runs) + 1
         /\ jobs[d].state \in WaitingStates /\ jobs[d].next_attempt_at <= now
         /\ \A e \in DueJobs : OrderedBefore(d, e)
         /\ jobs'[d].state = "processing" /\ jobs'[d].current_run_id = Len(runs) + 1
         /\ jobs'[d].attempt_count = jobs[d].attempt_count + 1
         /\ jobs'[d].trigger = jobs[d].trigger
         /\ \A e \in Documents \ {d} : jobs'[e] = jobs[e]
         /\ RunIds' = RunIds \union {Len(runs) + 1}
         /\ Len(runs) + 1 \in Nat /\ \A r \in RunIds : r < Len(runs) + 1 /\ runs'[r] = runs[r]
         /\ runs'[Len(runs) + 1].document = d
         /\ runs'[Len(runs) + 1].state = "processing"
         /\ runs'[Len(runs) + 1].attempt = jobs[d].attempt_count + 1
         /\ runs'[Len(runs) + 1].trigger = jobs[d].trigger
         /\ runs'[Len(runs) + 1].started_at = now
         /\ now' = now /\ clock' = clock /\ faults' = faults
<1>1. PICK job \in JobRecord, run \in RunRecord :
        /\ pc = "cleaning" /\ jobs[d].state \in WaitingStates
        /\ job.state = "processing" /\ job.attempt_count = jobs[d].attempt_count + 1
        /\ job.current_run_id = Len(runs) + 1
        /\ run.document = d /\ run.attempt = job.attempt_count
        /\ run.state = "processing"
        /\ run.trigger = jobs[d].trigger /\ job.trigger = jobs[d].trigger
        /\ run.started_at = now
        /\ jobs[d].next_attempt_at <= now
        /\ \A e \in DueJobs : OrderedBefore(d, e)
        /\ jobs' = [jobs EXCEPT ![d] = job]
        /\ runs' = Append(runs, run)
        /\ pc' = "processing" /\ claimed' = Len(runs) + 1
        /\ UNCHANGED <<now, stop, environment>>
  BY DEF RowClaimed
<1>2. jobs'[d] = job /\ \A e \in Documents \ {d} : jobs'[e] = jobs[e]
  BY <1>1 DEF IInv, TypeOK
<1>3. /\ RunIds' = RunIds \union {Len(runs) + 1} /\ Len(runs) + 1 \in Nat
      /\ runs'[Len(runs) + 1] = run
      /\ \A r \in RunIds : r < Len(runs) + 1 /\ runs'[r] = runs[r]
  BY <1>1 DEF IInv, TypeOK, RunIds
<1> QED
  BY <1>1, <1>2, <1>3 DEF environment

\* After the outcome of d's attempt is saved: the run in hand is closed.
LEMMA SavedRow ==
  ASSUME IInv, NEW d \in Documents, NEW state \in SavedStates, RowSaved(d, state)
  PROVE  /\ pc = "processing" /\ pc' = "idle"
         /\ claimed \in RunIds /\ runs[claimed].document = d /\ jobs[d].state = "processing"
         /\ ClaimedDocument = d
         /\ jobs[d].current_run_id = claimed /\ jobs'[d].current_run_id = claimed
         /\ jobs'[d].state = state /\ state # "processing"
         /\ jobs'[d].attempt_count = jobs[d].attempt_count
         /\ jobs'[d].trigger = jobs[d].trigger
         /\ state = "retry_wait" =>
               /\ jobs'[d].next_attempt_at >= now
               /\ jobs'[d].next_attempt_at >= now + Delay(runs[claimed].attempt)
               /\ jobs'[d].next_attempt_at <= now + Delay(runs[claimed].attempt) + MaxJitter
         /\ \A e \in Documents \ {d} : jobs'[e] = jobs[e]
         /\ RunIds' = RunIds /\ runs'[claimed].state = state
         /\ \A r \in RunIds : /\ runs'[r].document = runs[r].document
                              /\ runs'[r].attempt = runs[r].attempt
                              /\ runs'[r].trigger = runs[r].trigger
                              /\ runs'[r].started_at = runs[r].started_at
                              /\ r # claimed => runs'[r].state = runs[r].state
         /\ now' = now /\ clock' = clock /\ faults' = faults
<1>1. PICK job \in JobRecord :
        /\ pc = "processing" /\ d = ClaimedDocument
        /\ job.state = state /\ job.attempt_count = jobs[d].attempt_count
        /\ job.current_run_id = jobs[d].current_run_id
        /\ job.trigger = jobs[d].trigger
        /\ state = "retry_wait" =>
              /\ job.next_attempt_at >= now
              /\ job.next_attempt_at >= now + Delay(runs[claimed].attempt)
              /\ job.next_attempt_at <= now + Delay(runs[claimed].attempt) + MaxJitter
        /\ jobs' = [jobs EXCEPT ![d] = job]
        /\ runs' = FinishCurrentRun(d, state)
        /\ pc' = "idle"
        /\ UNCHANGED <<now, stop, environment>>
  BY DEF RowSaved
<1>2. jobs'[d] = job /\ \A e \in Documents \ {d} : jobs'[e] = jobs[e]
  BY <1>1 DEF IInv, TypeOK
<1>3. /\ claimed \in RunIds /\ runs[claimed].document = d
      /\ jobs[d].state = "processing" /\ jobs[d].current_run_id = claimed
  BY <1>1, ClaimedRunIsCurrent DEF ClaimedDocument
<1>4. state \in JobStates /\ state # "processing"
  BY DEF SavedStates, JobStates, SettledStates, WaitingStates
<1>5. /\ Len(runs') = Len(runs)
      /\ \A r \in RunIds : runs'[r] = IF r = claimed
             THEN [runs[r] EXCEPT !.state = state, !.finished_at = now] ELSE runs[r]
  BY <1>1, <1>3, <1>4, FinishCurrentRunEffect DEF IInv
<1>6. \A r \in RunIds : runs[r] \in RunRecord
  BY RunsTyped DEF IInv
<1>7. /\ runs'[claimed].state = state
      /\ \A r \in RunIds : /\ runs'[r].document = runs[r].document
                           /\ runs'[r].attempt = runs[r].attempt
                           /\ runs'[r].trigger = runs[r].trigger
                           /\ runs'[r].started_at = runs[r].started_at
                           /\ r # claimed => runs'[r].state = runs[r].state
  <2>1. ASSUME NEW r \in RunIds, r # claimed PROVE runs'[r] = runs[r]
    BY <1>5, <2>1
  <2>2. runs'[claimed] = [runs[claimed] EXCEPT !.state = state, !.finished_at = now]
    BY <1>3, <1>5
  <2>3. /\ runs'[claimed].state = state
        /\ runs'[claimed].document = runs[claimed].document
        /\ runs'[claimed].attempt = runs[claimed].attempt
        /\ runs'[claimed].trigger = runs[claimed].trigger
        /\ runs'[claimed].started_at = runs[claimed].started_at
    BY <1>3, <1>6, <2>2 DEF RunRecord
  <2> QED
    BY <2>1, <2>3
<1>8. RunIds' = RunIds
  BY <1>5 DEF RunIds
<1> QED
  BY <1>1, <1>2, <1>3, <1>4, <1>7, <1>8 DEF environment

-----------------------------------------------------------------------------
(* The history invariant is inductive, given IInv.                         *)

LEMMA InitEstablishesHistory == Init => HistoryInv
<1> SUFFICES ASSUME Init PROVE HistoryInv
  OBVIOUS
<1>1. RunIds = {} /\ now <= clock /\ pc # "processing"
  BY DEF Init, RunIds
<1>2. \A d \in Documents : jobs[d].state = "absent" /\ RunsOf(d) = {}
  BY <1>1 DEF Init, NoJob, RunsOf
<1>3. RunsStartInThePast /\ AttemptsFormCycles /\ AutomaticProcessingStartsOnce
      /\ AttemptsSpacedByBackoff
  BY <1>1 DEF RunsStartInThePast, AttemptsFormCycles, AutomaticProcessingStartsOnce,
     AttemptsSpacedByBackoff
<1>4. JobTellsItsLatestRun /\ WaitingJobIsDueLater /\ OvertakenOnce
  BY <1>2 DEF JobTellsItsLatestRun, WaitingJobIsDueLater, OvertakenOnce, WaitingStates
<1> QED
  BY <1>3, <1>4 DEF HistoryInv

\* The parts that speak of runs alone.
LEMMA SameRunsSameHistory ==
  ASSUME runs' = runs, RunIds' = RunIds
  PROVE  /\ \A e : RunsOf(e)' = RunsOf(e)
         /\ \A r : Latest(r)' = Latest(r)
         /\ AttemptsFormCycles' = AttemptsFormCycles
         /\ AutomaticProcessingStartsOnce' = AutomaticProcessingStartsOnce
         /\ AttemptsSpacedByBackoff' = AttemptsSpacedByBackoff
BY DEF RunsOf, Latest, AttemptsFormCycles, Consecutive, AutomaticProcessingStartsOnce,
   AttemptsSpacedByBackoff

\* Two latest runs of one document are the same.
LEMMA LatestIsUnique ==
  ASSUME IInv, NEW r \in RunIds, NEW s \in RunIds, runs[r].document = runs[s].document,
         Latest(r), Latest(s)
  PROVE  r = s
<1>1. r <= s /\ s <= r
  BY DEF Latest
<1> QED
  BY <1>1, RunColumns

LEMMA RunsBeforeTheClock ==
  ASSUME IInv, RunsStartInThePast, NEW r \in RunIds
  PROVE  runs[r].started_at <= clock
<1>1. runs[r].started_at \in Int /\ now \in Int /\ clock \in Int
  BY RunColumns DEF IInv, TypeOK
<1> QED
  BY <1>1 DEF RunsStartInThePast

LEMMA QueuedRowKeepsHistory ==
  ASSUME IInv, HistoryInv, NEW d \in Documents, RowQueued(d)
  PROVE  HistoryInv'
<1>0. RunsStartInThePast /\ JobTellsItsLatestRun /\ WaitingJobIsDueLater /\ OvertakenOnce
  BY DEF HistoryInv
<1>1. /\ jobs[d].state \in SettledStates \union {"absent"}
      /\ jobs'[d].state = "queued" /\ jobs'[d].attempt_count = 0
      /\ jobs'[d].next_attempt_at = clock
      /\ jobs[d].state # "absent" => jobs'[d].trigger = "reprocess"
      /\ \A e \in Documents \ {d} : jobs'[e] = jobs[e]
  BY QueuedRow
<1>2. /\ runs' = runs /\ RunIds' = RunIds
      /\ pc' = pc /\ now' = now /\ claimed' = claimed /\ clock' = clock
  BY QueuedRow
<1>3. \A e : RunsOf(e)' = RunsOf(e)
  BY <1>2, SameRunsSameHistory
<1>4. \A r : Latest(r)' = Latest(r)
  BY <1>2, SameRunsSameHistory
<1>5. AttemptsFormCycles' /\ AutomaticProcessingStartsOnce' /\ AttemptsSpacedByBackoff'
  BY <1>2, SameRunsSameHistory DEF HistoryInv
<1>6. RunsStartInThePast'
  BY <1>0, <1>2 DEF RunsStartInThePast
<1>7. JobTellsItsLatestRun'
  <2>1. ASSUME NEW r \in RunsOf(d)
        PROVE  jobs[d].state # "absent" /\ (Latest(r) => runs[r].state \in SettledStates)
    <3>1. jobs[d].state # "absent"
      BY <1>0, <2>1 DEF JobTellsItsLatestRun
    <3>2. jobs[d].state \in SettledStates
      BY <1>1, <3>1
    <3>3. jobs[d].state \notin {"absent", "queued"}
      BY <3>2 DEF SettledStates
    <3> DEFINE cur == jobs[d].current_run_id
    <3>4. cur \in RunsOf(d) /\ Latest(cur) /\ runs[cur].state = jobs[d].state
      BY <1>0, <3>3 DEF JobTellsItsLatestRun
    <3>5. Latest(r) => r = cur
      BY <3>4, LatestIsUnique DEF RunsOf
    <3> QED
      BY <3>1, <3>2, <3>4, <3>5
  <2>2. ASSUME NEW e \in Documents \ {d}
        PROVE  jobs'[e] = jobs[e] /\ RunsOf(e)' = RunsOf(e)
    BY <1>1, <1>3
  <2> QED
    BY <1>0, <1>1, <1>2, <1>3, <1>4, <2>1, <2>2 DEF JobTellsItsLatestRun
<1>8. WaitingJobIsDueLater'
  <2>1. \A r \in RunsOf(d) : runs[r].started_at <= clock
    BY <1>0, RunsBeforeTheClock DEF RunsOf
  <2> QED
    BY <1>0, <1>1, <1>2, <1>3, <2>1 DEF WaitingJobIsDueLater
<1>9. OvertakenOnce'
  <2>1. \A e \in Documents : \A r \in RunsOf(e) : ~(runs[r].started_at > clock)
    <3> SUFFICES ASSUME NEW e \in Documents, NEW r \in RunsOf(e)
                 PROVE  ~(runs[r].started_at > clock)
      OBVIOUS
    <3>1. r \in RunIds /\ clock \in Int
      BY DEF RunsOf, IInv, TypeOK
    <3> QED
      BY <1>0, <3>1, RunsBeforeTheClock, RunColumns
  <2> QED
    BY <1>0, <1>1, <1>2, <1>3, <2>1 DEF OvertakenOnce
<1> QED
  BY <1>5, <1>6, <1>7, <1>8, <1>9 DEF HistoryInv

\* The latest run before the one that a claim appends.
LEMMA RunBeforeTheNewOne ==
  ASSUME IInv, HistoryInv, NEW d \in Documents, RowClaimed(d),
         NEW r \in RunsOf(d), Latest(r)
  PROVE  \/ /\ jobs[d].state = "queued"
            /\ jobs[d].attempt_count = 0 /\ jobs[d].trigger = "reprocess"
            /\ runs[r].state \in SettledStates
         \/ /\ jobs[d].state = "retry_wait"
            /\ r = jobs[d].current_run_id /\ runs[r].state = "retry_wait"
            /\ runs[r].attempt = jobs[d].attempt_count /\ runs[r].trigger = jobs[d].trigger
<1>1. jobs[d].state \in WaitingStates /\ JobTellsItsLatestRun
  BY ClaimedRow DEF HistoryInv
<1>2. CASE jobs[d].state = "queued"
  BY <1>1, <1>2 DEF JobTellsItsLatestRun
<1>3. CASE jobs[d].state = "retry_wait"
  <2> DEFINE cur == jobs[d].current_run_id
  <2>1. /\ cur \in RunsOf(d) /\ Latest(cur) /\ runs[cur].state = "retry_wait"
        /\ runs[cur].attempt = jobs[d].attempt_count /\ runs[cur].trigger = jobs[d].trigger
    BY <1>1, <1>3 DEF JobTellsItsLatestRun
  <2>2. r = cur
    BY <2>1, LatestIsUnique DEF RunsOf
  <2> QED
    BY <1>3, <2>1, <2>2
<1> QED
  BY <1>1, <1>2, <1>3 DEF WaitingStates

LEMMA ClaimedRowKeepsHistory ==
  ASSUME IInv, HistoryInv, NEW d \in Documents, RowClaimed(d)
  PROVE  HistoryInv'
<1> PICK new : new = Len(runs) + 1
  OBVIOUS
<1>0. /\ RunsStartInThePast /\ JobTellsItsLatestRun /\ WaitingJobIsDueLater /\ OvertakenOnce
      /\ AttemptsFormCycles /\ AutomaticProcessingStartsOnce /\ AttemptsSpacedByBackoff
  BY DEF HistoryInv
<1>1. /\ pc' = "processing" /\ claimed' = new
      /\ jobs[d].state \in WaitingStates /\ jobs[d].next_attempt_at <= now
      /\ \A e \in DueJobs : OrderedBefore(d, e)
      /\ now' = now /\ clock' = clock
  BY ClaimedRow
<1>2. /\ jobs'[d].state = "processing" /\ jobs'[d].current_run_id = new
      /\ jobs'[d].attempt_count = jobs[d].attempt_count + 1
      /\ jobs'[d].trigger = jobs[d].trigger
      /\ \A e \in Documents \ {d} : jobs'[e] = jobs[e]
  BY ClaimedRow
<1>3. /\ RunIds' = RunIds \union {new} /\ new \in Nat
      /\ \A r \in RunIds : r < new /\ runs'[r] = runs[r]
  BY ClaimedRow
<1>4. /\ runs'[new].document = d /\ runs'[new].state = "processing"
      /\ runs'[new].attempt = jobs[d].attempt_count + 1
      /\ runs'[new].trigger = jobs[d].trigger /\ runs'[new].started_at = now
  BY ClaimedRow
<1>5. /\ now \in Int /\ clock \in Int
      /\ \A e \in Documents : jobs[e].attempt_count \in Nat /\ jobs[e].next_attempt_at \in Int
      /\ \A r \in RunIds : /\ r \in Nat /\ runs[r].document \in Documents
                           /\ runs[r].attempt \in Nat /\ runs[r].started_at \in Int
  BY RunColumns, JobColumns DEF IInv, TypeOK
<1>6. /\ \A e \in Documents \ {d} : RunsOf(e)' = RunsOf(e)
      /\ RunsOf(d)' = RunsOf(d) \union {new}
      /\ \A r \in RunIds : runs[r].document # d => Latest(r)' = Latest(r)
      /\ Latest(new)'
  <2>1. ASSUME NEW e \in Documents \ {d} PROVE RunsOf(e)' = RunsOf(e)
    BY <1>3, <1>4 DEF RunsOf
  <2>2. RunsOf(d)' = RunsOf(d) \union {new}
    BY <1>3, <1>4 DEF RunsOf
  <2>3. ASSUME NEW r \in RunIds, runs[r].document # d PROVE Latest(r)' = Latest(r)
    BY <1>3, <1>4, <2>3 DEF Latest
  <2>4. Latest(new)'
    BY <1>3, <1>5 DEF Latest
  <2> QED
    BY <2>1, <2>2, <2>3, <2>4
<1>7. RunsStartInThePast'
  BY <1>0, <1>1, <1>3, <1>4, <1>5 DEF RunsStartInThePast
<1>8. JobTellsItsLatestRun'
  <2>1. ASSUME NEW e \in Documents \ {d}
        PROVE  /\ jobs'[e] = jobs[e] /\ RunsOf(e)' = RunsOf(e)
               /\ \A r \in RunsOf(e) : runs'[r] = runs[r] /\ Latest(r)' = Latest(r)
    BY <1>2, <1>3, <1>6 DEF RunsOf
  <2>2. /\ new \in RunsOf(d)' /\ Latest(new)'
        /\ runs'[new].state = jobs'[d].state
        /\ runs'[new].attempt = jobs'[d].attempt_count
        /\ runs'[new].trigger = jobs'[d].trigger
    BY <1>2, <1>4, <1>6
  <2> QED
    BY <1>0, <1>2, <2>1, <2>2 DEF JobTellsItsLatestRun
<1>9. WaitingJobIsDueLater'
  <2>1. ASSUME NEW e \in Documents \ {d}
        PROVE  /\ jobs'[e] = jobs[e] /\ RunsOf(e)' = RunsOf(e)
               /\ \A r \in RunsOf(e) : runs'[r] = runs[r]
               /\ jobs[e].state = "retry_wait" => jobs[e].current_run_id \in RunsOf(e)
    BY <1>0, <1>2, <1>3, <1>6 DEF RunsOf, JobTellsItsLatestRun
  <2>2. jobs'[d].state \notin WaitingStates
    BY <1>2 DEF WaitingStates
  <2> QED
    BY <1>0, <2>1, <2>2 DEF WaitingJobIsDueLater
\* A run that precedes the new one was its document's latest.
<1>10. ASSUME NEW r \in RunIds', Consecutive(r, new)'
       PROVE  r \in RunsOf(d) /\ Latest(r) /\ runs'[r] = runs[r]
  <2>1. r \in RunIds /\ r < new /\ runs'[r].document = d
    BY <1>3, <1>4, <1>5, <1>10 DEF Consecutive
  <2>2. \A q \in RunIds : q > r => runs[q].document # d
    BY <1>3, <1>4, <1>5, <1>10, <2>1 DEF Consecutive
  <2> QED
    BY <1>3, <1>5, <2>1, <2>2 DEF RunsOf, Latest
<1>11. ASSUME NEW r \in RunIds', NEW s \in RunIds, Consecutive(r, s)'
       PROVE  r \in RunIds /\ Consecutive(r, s) /\ runs'[r] = runs[r] /\ runs'[s] = runs[s]
  <2>1. r \in RunIds /\ r < s
    BY <1>3, <1>5, <1>11 DEF Consecutive
  <2>2. \A q \in r + 1 .. s - 1 : q \in RunIds
    BY <1>5, <2>1 DEF RunIds, IInv, TypeOK
  <2> QED
    BY <1>3, <1>11, <2>1, <2>2 DEF Consecutive
<1>12. AttemptsFormCycles'
  <2> SUFFICES ASSUME NEW r \in RunIds', NEW s \in RunIds', Consecutive(r, s)'
               PROVE  \/ /\ runs'[r].state = "retry_wait"
                         /\ runs'[s].attempt = runs'[r].attempt + 1
                         /\ runs'[s].trigger = runs'[r].trigger
                      \/ /\ runs'[r].state \in SettledStates
                         /\ runs'[s].attempt = 1
                         /\ runs'[s].trigger = "reprocess"
    BY DEF AttemptsFormCycles
  <2>1. CASE s = new
    BY <1>4, <1>10, <2>1, RunBeforeTheNewOne
  <2>2. CASE s \in RunIds
    BY <1>0, <1>11, <2>2 DEF AttemptsFormCycles
  <2> QED
    BY <1>3, <2>1, <2>2
<1>13. AttemptsSpacedByBackoff'
  <2> SUFFICES ASSUME NEW r \in RunIds', NEW s \in RunIds', Consecutive(r, s)',
                      runs'[s].attempt = runs'[r].attempt + 1
               PROVE  runs'[s].started_at - runs'[r].started_at >= Delay(runs'[r].attempt)
    BY DEF AttemptsSpacedByBackoff, Delay
  <2>1. CASE s = new
    <3>1. r \in RunsOf(d) /\ r \in RunIds /\ Latest(r) /\ runs'[r] = runs[r]
      BY <1>10, <2>1 DEF RunsOf
    <3>2. runs[r].attempt >= 1 /\ runs[r].attempt \in Nat /\ runs[r].started_at \in Int
      BY <1>0, <1>5, <3>1 DEF RunsStartInThePast
    <3>3. jobs[d].state = "retry_wait" /\ r = jobs[d].current_run_id
      <4>1. jobs[d].attempt_count # 0
        BY <1>4, <1>5, <2>1, <3>1, <3>2
      <4> QED
        BY <3>1, <4>1, RunBeforeTheNewOne
    <3>4. jobs[d].next_attempt_at >= runs[r].started_at + Delay(runs[r].attempt)
      BY <1>0, <3>3 DEF WaitingJobIsDueLater, WaitingStates
    <3>5. Delay(runs[r].attempt) \in Int
      BY <3>2, DelayIsInteger
    <3> QED
      BY <1>1, <1>4, <1>5, <2>1, <3>1, <3>2, <3>4, <3>5
  <2>2. CASE s \in RunIds
    BY <1>0, <1>11, <2>2 DEF AttemptsSpacedByBackoff, Delay
  <2> QED
    BY <1>3, <2>1, <2>2
<1>14. AutomaticProcessingStartsOnce'
  <2>1. ASSUME NEW r \in RunsOf(d), jobs[d].trigger = "automatic" PROVE jobs[d].attempt_count # 0
    <3>1. CASE jobs[d].state = "queued"
      BY <1>0, <2>1, <3>1 DEF JobTellsItsLatestRun
    <3>2. CASE jobs[d].state = "retry_wait"
      <4>1. /\ jobs[d].current_run_id \in RunIds
            /\ runs[jobs[d].current_run_id].attempt = jobs[d].attempt_count
        BY <1>0, <3>2 DEF JobTellsItsLatestRun, RunsOf
      <4> QED
        BY <1>0, <4>1 DEF RunsStartInThePast
    <3> QED
      BY <1>1, <3>1, <3>2 DEF WaitingStates
  <2>2. ASSUME NEW r \in RunIds, runs'[r].document = d,
               runs'[new].trigger = "automatic", runs'[new].attempt = 1
        PROVE  FALSE
    BY <1>3, <1>4, <1>5, <2>1, <2>2 DEF RunsOf
  <2> QED
    BY <1>0, <1>3, <1>4, <2>2 DEF AutomaticProcessingStartsOnce
<1>15. OvertakenOnce'
  <2> SUFFICES ASSUME NEW e \in Documents, jobs'[e].state \in WaitingStates,
                      NEW f \in Documents \ {e}, NEW r \in RunsOf(f)', NEW s \in RunsOf(f)',
                      runs'[r].started_at > jobs'[e].next_attempt_at,
                      runs'[s].started_at > jobs'[e].next_attempt_at
               PROVE  r = s
    BY DEF OvertakenOnce
  <2>1. e # d /\ jobs'[e] = jobs[e] /\ jobs[e].state \in WaitingStates
    BY <1>2 DEF WaitingStates
  <2>2. ASSUME NEW q \in RunsOf(d), runs[q].started_at > jobs[e].next_attempt_at,
               now > jobs[e].next_attempt_at
        PROVE  FALSE
    <3>1. OrderedBefore(d, e)
      BY <1>1, <1>5, <2>1, <2>2 DEF DueJobs
    <3>2. runs[q].started_at <= jobs[d].next_attempt_at
      BY <1>0, <1>1 DEF WaitingJobIsDueLater
    <3> QED
      BY <1>5, <2>2, <3>1, <3>2 DEF OrderedBefore, RunsOf
  <2>3. CASE f = d
    <3>1. ASSUME NEW q \in RunsOf(d)', runs'[q].started_at > jobs[e].next_attempt_at,
                 q # new
          PROVE  q \in RunsOf(d) /\ runs[q].started_at > jobs[e].next_attempt_at
      BY <1>3, <1>6, <3>1 DEF RunsOf
    <3>2. CASE r = new
      BY <1>4, <2>1, <2>2, <2>3, <3>1, <3>2
    <3>3. CASE s = new
      BY <1>4, <2>1, <2>2, <2>3, <3>1, <3>3
    <3>4. CASE r # new /\ s # new
      BY <1>0, <2>1, <2>3, <3>1, <3>4 DEF OvertakenOnce
    <3> QED
      BY <3>2, <3>3, <3>4
  <2>4. CASE f # d
    <3>1. r \in RunsOf(f) /\ s \in RunsOf(f) /\ runs'[r] = runs[r] /\ runs'[s] = runs[s]
      BY <1>3, <1>6, <2>4 DEF RunsOf
    <3> QED
      BY <1>0, <2>1, <3>1 DEF OvertakenOnce
  <2> QED
    BY <2>3, <2>4
<1> QED
  BY <1>7, <1>8, <1>9, <1>12, <1>13, <1>14, <1>15 DEF HistoryInv

LEMMA SavedRowKeepsHistory ==
  ASSUME IInv, HistoryInv, NEW d \in Documents, NEW state \in SavedStates, RowSaved(d, state)
  PROVE  HistoryInv'
<1> PICK held : held = claimed
  OBVIOUS
<1>0. /\ RunsStartInThePast /\ JobTellsItsLatestRun /\ WaitingJobIsDueLater /\ OvertakenOnce
      /\ AttemptsFormCycles /\ AutomaticProcessingStartsOnce /\ AttemptsSpacedByBackoff
  BY DEF HistoryInv
<1>1. /\ pc = "processing" /\ pc' = "idle" /\ now' = now /\ clock' = clock
      /\ held \in RunIds /\ runs[held].document = d /\ jobs[d].state = "processing"
      /\ jobs[d].current_run_id = held
  BY SavedRow
<1>2. /\ jobs'[d].current_run_id = held
      /\ jobs'[d].state = state /\ state # "processing"
      /\ jobs'[d].attempt_count = jobs[d].attempt_count
      /\ jobs'[d].trigger = jobs[d].trigger
      /\ state = "retry_wait" =>
            /\ jobs'[d].next_attempt_at >= now
            /\ jobs'[d].next_attempt_at >= now + Delay(runs[held].attempt)
            /\ jobs'[d].next_attempt_at <= now + Delay(runs[held].attempt) + MaxJitter
      /\ \A e \in Documents \ {d} : jobs'[e] = jobs[e]
  BY SavedRow
<1>3. /\ RunIds' = RunIds /\ runs'[held].state = state
      /\ \A r \in RunIds : /\ runs'[r].document = runs[r].document
                           /\ runs'[r].attempt = runs[r].attempt
                           /\ runs'[r].trigger = runs[r].trigger
                           /\ runs'[r].started_at = runs[r].started_at
                           /\ r # held => runs'[r].state = runs[r].state
  BY SavedRow
<1>4. state \in SettledStates \union {"retry_wait"} /\ state \notin {"absent", "queued"}
  BY DEF SavedStates, SettledStates
<1>5. /\ \A e : RunsOf(e)' = RunsOf(e)
      /\ \A r \in RunIds : Latest(r)' = Latest(r)
      /\ \A r, s \in RunIds : Consecutive(r, s)' = Consecutive(r, s)
  <2>1. ASSUME NEW e PROVE RunsOf(e)' = RunsOf(e)
    BY <1>3 DEF RunsOf
  <2>2. ASSUME NEW r \in RunIds PROVE Latest(r)' = Latest(r)
    BY <1>3 DEF Latest
  <2>3. ASSUME NEW r \in RunIds, NEW s \in RunIds
        PROVE  Consecutive(r, s)' = Consecutive(r, s)
    <3>1. \A q \in r + 1 .. s - 1 : q \in RunIds
      BY RunColumns DEF RunIds, IInv, TypeOK
    <3> QED
      BY <1>3, <3>1 DEF Consecutive
  <2> QED
    BY <2>1, <2>2, <2>3
<1>6. Latest(held) /\ held \in RunsOf(d) /\ runs[held].started_at = now
  <2>1. Latest(held) /\ held \in RunsOf(d)
    BY <1>0, <1>1 DEF JobTellsItsLatestRun
  <2> QED
    BY <1>0, <1>1, <2>1 DEF RunsStartInThePast
<1>7. RunsStartInThePast'
  BY <1>0, <1>1, <1>3 DEF RunsStartInThePast
<1>8. JobTellsItsLatestRun'
  <2>1. ASSUME NEW e \in Documents \ {d}
        PROVE  /\ jobs'[e] = jobs[e] /\ RunsOf(e)' = RunsOf(e)
               /\ \A r \in RunsOf(e) : /\ runs'[r].state = runs[r].state
                                       /\ runs'[r].attempt = runs[r].attempt
                                       /\ runs'[r].trigger = runs[r].trigger
                                       /\ Latest(r)' = Latest(r)
    <3>1. \A r \in RunsOf(e) : r \in RunIds /\ r # held
      BY <1>1 DEF RunsOf
    <3> QED
      BY <1>2, <1>3, <1>5, <3>1
  <2>2. /\ held \in RunsOf(d)' /\ Latest(held)'
        /\ runs'[held].state = jobs'[d].state
        /\ runs'[held].attempt = jobs'[d].attempt_count
        /\ runs'[held].trigger = jobs'[d].trigger
    BY <1>0, <1>1, <1>2, <1>3, <1>5, <1>6 DEF JobTellsItsLatestRun
  <2> QED
    BY <1>0, <1>2, <1>4, <2>1, <2>2 DEF JobTellsItsLatestRun
<1>9. \A r \in RunIds : runs[r].started_at <= now
  BY <1>0 DEF RunsStartInThePast
<1>10. WaitingJobIsDueLater'
  <2>1. ASSUME NEW e \in Documents \ {d}, jobs[e].state \in WaitingStates
        PROVE  /\ \A r \in RunsOf(e) : runs'[r].started_at <= jobs[e].next_attempt_at
               /\ jobs[e].state = "retry_wait" =>
                     /\ jobs[e].next_attempt_at
                           >= runs'[jobs[e].current_run_id].started_at
                                + Delay(runs'[jobs[e].current_run_id].attempt)
                     /\ jobs[e].next_attempt_at
                           <= runs'[jobs[e].current_run_id].started_at
                                + Delay(runs'[jobs[e].current_run_id].attempt) + MaxJitter
    <3>1. jobs[e].state = "retry_wait" => jobs[e].current_run_id \in RunIds
      BY <1>0 DEF JobTellsItsLatestRun, RunsOf
    <3> QED
      BY <1>0, <1>3, <2>1, <3>1 DEF WaitingJobIsDueLater, RunsOf
  <2>2. ASSUME state = "retry_wait"
        PROVE  /\ \A r \in RunsOf(d) : runs'[r].started_at <= jobs'[d].next_attempt_at
               /\ jobs'[d].next_attempt_at >= runs'[held].started_at + Delay(runs'[held].attempt)
               /\ jobs'[d].next_attempt_at <= runs'[held].started_at
                                                + Delay(runs'[held].attempt) + MaxJitter
    <3>1. jobs'[d].next_attempt_at \in Int /\ now \in Int
      BY <1>2 DEF IInv, TypeOK, JobRecord, RowSaved
    <3>2. \A r \in RunsOf(d) : r \in RunIds /\ runs[r].started_at \in Int
      BY RunColumns DEF RunsOf
    <3> QED
      BY <1>1, <1>2, <1>3, <1>6, <1>9, <2>2, <3>1, <3>2
  <2>3. state \in WaitingStates => state = "retry_wait"
    BY <1>4 DEF WaitingStates, SettledStates
  <2> QED
    BY <1>2, <1>5, <2>1, <2>2, <2>3 DEF WaitingJobIsDueLater
<1>11. AttemptsFormCycles'
  <2> SUFFICES ASSUME NEW r \in RunIds, NEW s \in RunIds, Consecutive(r, s)
               PROVE  \/ /\ runs'[r].state = "retry_wait"
                         /\ runs'[s].attempt = runs'[r].attempt + 1
                         /\ runs'[s].trigger = runs'[r].trigger
                      \/ /\ runs'[r].state \in SettledStates
                         /\ runs'[s].attempt = 1
                         /\ runs'[s].trigger = "reprocess"
    BY <1>3, <1>5 DEF AttemptsFormCycles
  <2>1. r # held
    BY <1>1, <1>6, RunColumns DEF Consecutive, Latest
  <2> QED
    BY <1>0, <1>3, <2>1 DEF AttemptsFormCycles
<1>12. AutomaticProcessingStartsOnce'
  BY <1>0, <1>3 DEF AutomaticProcessingStartsOnce
<1>13. AttemptsSpacedByBackoff'
  BY <1>0, <1>3, <1>5 DEF AttemptsSpacedByBackoff
<1>14. OvertakenOnce'
  <2>1. ASSUME state = "retry_wait", NEW r \in RunIds
        PROVE  ~(runs'[r].started_at > jobs'[d].next_attempt_at)
    <3>1. jobs'[d].next_attempt_at \in Int /\ now \in Int /\ runs[r].started_at \in Int
      BY RunColumns, <1>2 DEF IInv, TypeOK, JobRecord, RowSaved
    <3> QED
      BY <1>2, <1>3, <1>9, <2>1, <3>1
  <2>2. state \in WaitingStates => state = "retry_wait"
    BY <1>4 DEF WaitingStates, SettledStates
  <2>3. \A e : \A r \in RunsOf(e) : r \in RunIds /\ runs'[r].started_at = runs[r].started_at
    BY <1>3 DEF RunsOf
  <2> QED
    BY <1>0, <1>2, <1>5, <2>1, <2>2, <2>3 DEF OvertakenOnce
<1> QED
  BY <1>7, <1>8, <1>10, <1>11, <1>12, <1>13, <1>14 DEF HistoryInv

LEMMA UntouchedTablesKeepHistory ==
  ASSUME IInv, HistoryInv, TablesUntouched
  PROVE  HistoryInv'
<1>1. jobs' = jobs /\ runs' = runs /\ RunIds' = RunIds
  BY DEF TablesUntouched, database, RunIds
<1>2. (\A e : RunsOf(e)' = RunsOf(e)) /\ (\A r : Latest(r)' = Latest(r))
  BY <1>1, SameRunsSameHistory
<1>3. AttemptsFormCycles' /\ AutomaticProcessingStartsOnce' /\ AttemptsSpacedByBackoff'
  BY <1>1, SameRunsSameHistory DEF HistoryInv
<1>4. RunsStartInThePast'
  <2>1. now \in Int /\ clock \in Int /\ \A r \in RunIds : runs[r].started_at \in Int
    BY RunColumns DEF IInv, TypeOK
  <2>2. now' <= clock' /\ now <= now'
    BY <2>1 DEF TablesUntouched, HistoryInv, RunsStartInThePast
  <2>3. now' \in Int
    BY <2>1 DEF TablesUntouched
  <2> QED
    BY <1>1, <2>1, <2>2, <2>3 DEF TablesUntouched, HistoryInv, RunsStartInThePast
<1>5. JobTellsItsLatestRun' /\ WaitingJobIsDueLater' /\ OvertakenOnce'
  BY <1>1, <1>2 DEF HistoryInv, JobTellsItsLatestRun, WaitingJobIsDueLater, OvertakenOnce
<1> QED
  BY <1>3, <1>4, <1>5 DEF HistoryInv

LEMMA StepKeepsHistory == IInv /\ HistoryInv /\ [Next]_vars => HistoryInv'
BY StepChangesOneRow, QueuedRowKeepsHistory, ClaimedRowKeepsHistory, SavedRowKeepsHistory,
   UntouchedTablesKeepHistory

LEMMA HistoryInvariant == Spec => []HistoryInv
BY InitEstablishesHistory, StepKeepsHistory, QueueInvariant, PTL DEF Spec

\* A document's runs are cycles of attempts with rising numbers; a new cycle
\* begins only after the last one was settled and a reprocess request came.
THEOREM HistoryFormsCycles == Spec => []AttemptsFormCycles
<1>1. HistoryInv => AttemptsFormCycles
  BY DEF HistoryInv
<1> QED
  BY <1>1, HistoryInvariant, PTL

\* However often the webhook is called for a document, in whatever state its job
\* is, it starts one automatic cycle.
THEOREM WebhooksAreDeduplicated == Spec => []AutomaticProcessingStartsOnce
<1>1. HistoryInv => AutomaticProcessingStartsOnce
  BY DEF HistoryInv
<1> QED
  BY <1>1, HistoryInvariant, PTL

\* From start to start, the attempts of a cycle are the backoff apart, for every
\* base, limit and jitter.
THEOREM AttemptsAreSpaced == Spec => []AttemptsSpacedByBackoff
<1>1. HistoryInv => AttemptsSpacedByBackoff
  BY DEF HistoryInv
<1> QED
  BY <1>1, HistoryInvariant, PTL

\* A retry is not put off beyond the capped delay and the jitter.
THEOREM RetriesAreDueInTime == Spec => []RetryIsDueInTime
<1>1. HistoryInv => RetryIsDueInTime
  <2> SUFFICES ASSUME HistoryInv, NEW d \in Documents, jobs[d].state = "retry_wait"
               PROVE  LET failed == runs[jobs[d].current_run_id]
                      IN  jobs[d].next_attempt_at <= failed.started_at
                            + Lesser(RetryBase * 2^(failed.attempt - 1), RetryMax) + MaxJitter
    BY DEF RetryIsDueInTime
  <2>1. jobs[d].state \in WaitingStates
    BY DEF WaitingStates
  <2> QED
    BY <2>1 DEF HistoryInv, WaitingJobIsDueLater, Delay
<1> QED
  BY <1>1, HistoryInvariant, PTL

\* A set whose elements are all the same has at most one.
LEMMA AtMostOne ==
  ASSUME NEW S, \A x, y \in S : x = y
  PROVE  IsFiniteSet(S) /\ Cardinality(S) <= 1
<1>1. CASE S = {}
  BY <1>1, FS_EmptySet
<1>2. CASE S # {}
  <2>1. PICK x \in S : TRUE
    BY <1>2
  <2>2. S = {x}
    BY <2>1
  <2>3. IsFiniteSet(S) /\ Cardinality(S) = 1
    BY <2>2, FS_Singleton
  <2> QED
    BY <2>3
<1> QED
  BY <1>1, <1>2

\* No job starves: each other job goes first at most once after it became due.
THEOREM NobodyStarves == Spec => []WaitingJobIsOvertakenOnce
<1>1. OvertakenOnce => WaitingJobIsOvertakenOnce
  <2> SUFFICES ASSUME OvertakenOnce,
                      NEW d \in Documents, jobs[d].state \in WaitingStates,
                      NEW e \in Documents \ {d}
               PROVE  Cardinality({r \in RunIds : /\ runs[r].document = e
                                     /\ runs[r].started_at > jobs[d].next_attempt_at}) <= 1
    BY DEF WaitingJobIsOvertakenOnce
  <2> DEFINE S == {r \in RunIds : /\ runs[r].document = e
                                  /\ runs[r].started_at > jobs[d].next_attempt_at}
  <2>1. \A r, s \in S : r = s
    BY DEF OvertakenOnce, RunsOf
  <2> HIDE DEF S
  <2>2. Cardinality(S) <= 1
    BY <2>1, AtMostOne
  <2> QED
    BY <2>2 DEF S
<1>2. HistoryInv => OvertakenOnce
  BY DEF HistoryInv
<1> QED
  BY <1>1, <1>2, HistoryInvariant, PTL

-----------------------------------------------------------------------------
(* What a fault leaves behind.                                             *)

StrandedJobs == {d \in Documents : Stranded(d)}
FaultsInv == IsFiniteSet(StrandedJobs) /\ Cardinality(StrandedJobs) <= faults

LEMMA InitEstablishesFaults == Init => FaultsInv
<1> SUFFICES ASSUME Init PROVE FaultsInv
  OBVIOUS
<1>1. StrandedJobs = {} /\ faults = 0
  BY DEF Init, StrandedJobs, Stranded, NoJob
<1> QED
  BY <1>1, FS_EmptySet DEF FaultsInv

\* Only the end of the worker strands a job, the one it held, and that is a fault.
LEMMA StepStrandsAtMostOne ==
  ASSUME IInv, [Next]_vars
  PROVE  \/ StrandedJobs' = StrandedJobs /\ faults' \in {faults, faults + 1}
         \/ StrandedJobs' = StrandedJobs \union {ClaimedDocument} /\ faults' = faults + 1
<1>1. ASSUME NEW d \in Documents, RowQueued(d)
      PROVE  StrandedJobs' = StrandedJobs /\ faults' = faults
  <2>1. /\ jobs[d].state # "processing" /\ jobs'[d].state # "processing"
        /\ \A e \in Documents \ {d} : jobs'[e] = jobs[e]
        /\ runs' = runs /\ pc' = pc /\ claimed' = claimed /\ faults' = faults
    BY <1>1, QueuedRow DEF SettledStates
  <2> QED
    BY <2>1 DEF StrandedJobs, Stranded, ClaimedDocument
<1>2. ASSUME NEW d \in Documents, RowClaimed(d)
      PROVE  StrandedJobs' = StrandedJobs /\ faults' = faults
  <2>1. /\ pc = "cleaning" /\ pc' = "processing" /\ claimed' = Len(runs) + 1
        /\ jobs[d].state \in WaitingStates
        /\ \A e \in Documents \ {d} : jobs'[e] = jobs[e]
        /\ runs'[Len(runs) + 1].document = d /\ faults' = faults
    BY <1>2, ClaimedRow
  <2>2. ClaimedDocument' = d
    BY <2>1 DEF ClaimedDocument
  <2> QED
    BY <2>1, <2>2 DEF StrandedJobs, Stranded, WaitingStates
<1>3. ASSUME NEW d \in Documents, NEW state \in SavedStates, RowSaved(d, state)
      PROVE  StrandedJobs' = StrandedJobs /\ faults' = faults
  <2>1. /\ pc = "processing" /\ pc' = "idle" /\ ClaimedDocument = d
        /\ jobs'[d].state # "processing"
        /\ \A e \in Documents \ {d} : jobs'[e] = jobs[e]
        /\ faults' = faults
    BY <1>3, SavedRow
  <2> QED
    BY <2>1 DEF StrandedJobs, Stranded
<1>4. CASE TablesUntouched /\ pc = "processing" /\ pc' # "processing"
  <2>1. jobs' = jobs /\ runs' = runs /\ faults' = faults + 1
    BY <1>4 DEF TablesUntouched, database
  <2>2. ClaimedDocument \in Documents /\ jobs[ClaimedDocument].state = "processing"
    BY <1>4, ClaimedRunIsCurrent
  <2> QED
    BY <1>4, <2>1, <2>2 DEF StrandedJobs, Stranded
<1>5. CASE TablesUntouched /\ ~(pc = "processing" /\ pc' # "processing")
  <2>1. jobs' = jobs /\ runs' = runs /\ faults' \in {faults, faults + 1}
    BY <1>5 DEF TablesUntouched, database
  <2>2. \A d \in Documents : Stranded(d)' <=> Stranded(d)
    BY <1>5, <2>1 DEF Stranded, ClaimedDocument, TablesUntouched
  <2> QED
    BY <2>1, <2>2 DEF StrandedJobs
<1> QED
  BY <1>1, <1>2, <1>3, <1>4, <1>5, StepChangesOneRow

LEMMA StepKeepsFaults == IInv /\ FaultsInv /\ [Next]_vars => FaultsInv'
<1> SUFFICES ASSUME IInv, FaultsInv, [Next]_vars PROVE FaultsInv'
  OBVIOUS
<1>1. faults \in Nat /\ Cardinality(StrandedJobs) \in Nat
  BY FS_CardinalityType DEF IInv, TypeOK, FaultsInv
<1>2. CASE StrandedJobs' = StrandedJobs /\ faults' \in {faults, faults + 1}
  BY <1>1, <1>2 DEF FaultsInv
<1>3. CASE StrandedJobs' = StrandedJobs \union {ClaimedDocument} /\ faults' = faults + 1
  <2>1. /\ IsFiniteSet(StrandedJobs \union {ClaimedDocument})
        /\ Cardinality(StrandedJobs \union {ClaimedDocument}) <= Cardinality(StrandedJobs) + 1
    BY <1>1, FS_AddElement DEF FaultsInv
  <2>2. Cardinality(StrandedJobs \union {ClaimedDocument}) \in Nat
    BY <2>1, FS_CardinalityType
  <2> QED
    BY <1>1, <1>3, <2>1, <2>2 DEF FaultsInv
<1> QED
  BY <1>2, <1>3, StepStrandsAtMostOne

\* Each crash or storage failure leaves at most one job in processing for good,
\* and nothing else leaves any, among any number of documents.
THEOREM FaultsStrandOneJobEach == Spec => []FaultStrandsOneJob
<1>1. FaultsInv => FaultStrandsOneJob
  BY DEF FaultsInv, FaultStrandsOneJob, StrandedJobs
<1> QED
  BY <1>1, InitEstablishesFaults, StepKeepsFaults, QueueInvariant, PTL DEF Spec

-----------------------------------------------------------------------------
\* Nobody but the worker that claims a job or holds it changes an active row.
THEOREM ActiveJobsAreTheWorkers == Spec => ActiveJobUntouchedByOthers
<1> DEFINE Untouched == \A d \in Documents :
      jobs[d].state \in WaitingStates \union {"processing"} /\ jobs'[d] # jobs[d] =>
         \/ pc = "cleaning" /\ pc' = "processing" /\ runs'[claimed'].document = d
         \/ pc = "processing" /\ pc' = "idle" /\ ClaimedDocument = d
<1>1. IInv /\ [Next]_vars => Untouched
  <2> SUFFICES ASSUME IInv, [Next]_vars PROVE Untouched
    OBVIOUS
  <2>1. ASSUME NEW d \in Documents, RowQueued(d) PROVE Untouched
    <3>1. /\ jobs[d].state \in SettledStates \union {"absent"}
          /\ \A e \in Documents \ {d} : jobs'[e] = jobs[e]
      BY <2>1, QueuedRow
    <3> QED
      BY <3>1 DEF SettledStates, WaitingStates
  <2>2. ASSUME NEW d \in Documents, RowClaimed(d) PROVE Untouched
    <3>1. /\ pc = "cleaning" /\ pc' = "processing" /\ runs'[claimed'].document = d
          /\ \A e \in Documents \ {d} : jobs'[e] = jobs[e]
      BY <2>2, ClaimedRow
    <3> QED
      BY <3>1
  <2>3. ASSUME NEW d \in Documents, NEW state \in SavedStates, RowSaved(d, state)
        PROVE  Untouched
    <3>1. /\ pc = "processing" /\ pc' = "idle" /\ ClaimedDocument = d
          /\ \A e \in Documents \ {d} : jobs'[e] = jobs[e]
      BY <2>3, SavedRow
    <3> QED
      BY <3>1
  <2>4. CASE TablesUntouched
    BY <2>4 DEF TablesUntouched, database
  <2> HIDE DEF Untouched
  <2> QED
    BY <2>1, <2>2, <2>3, <2>4, StepChangesOneRow
<1> QED
  BY <1>1, QueueInvariant, PTL DEF Spec, ActiveJobUntouchedByOthers
=============================================================================
