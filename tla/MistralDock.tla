----------------------------- MODULE MistralDock -----------------------------
(***************************************************************************)
(* The program around one document: the queue (JobQueue) decides when it   *)
(* is attempted and records what came of it, the attempt (DocumentUpdate)  *)
(* reads and writes the document among its users.  One step of both is one *)
(* conjunction; the queue's tables say where DocumentUpdate's job is.      *)
(***************************************************************************)
EXTENDS Integers, Sequences, FiniteSets

CONSTANTS
    Document,
    MaxAttempts, RetryBase, RetryMax, MaxJitter, LeaseSeconds,
    MaxClock, MaxLag, LastRequestAt, MaxRequests, MaxStops, MaxFaults,
    Tags, Owners, NoOwner, Names, NameOf, MaxEdits, MaxVersions

VARIABLES
    jobs, runs, pc, now, claimed, stop, clock, requests, stops, faults,
    dryRun, doc, text, tagOwner, late, original, fresh, initialTags, currentTags, content,
    payload, edits, reprocesses, editedWhileReading, ownedSinceRead, lost, writes,
    stage,      \* how far the attempt is; "none": there is none
    wanted,     \* history: the version at the last request that found no attempt running
    read,       \* history: the version the last attempt read
    senders,    \* history: runs that got as far as the PATCH
    written     \* history: PATCHes applied in all

queueVars == <<jobs, runs, pc, now, claimed, stop, clock, requests, stops, faults>>
updateVars == <<dryRun, doc, text, tagOwner, late, original, fresh, initialTags, currentTags,
                content, payload, edits, reprocesses, editedWhileReading, ownedSinceRead,
                lost, writes>>
history == <<wanted, read, senders, written>>
vars == <<queueVars, updateVars, stage, history>>

job == jobs[Document]

\* `pc' of DocumentUpdate.
UpdatePc ==
    CASE job.state \in {"absent", "queued", "retry_wait"} -> "waiting"
      [] job.state = "processing" -> stage
      [] OTHER -> job.state

Queue == INSTANCE JobQueue WITH Documents <- {Document}
Update == INSTANCE DocumentUpdate WITH
    pc <- UpdatePc, attempts <- job.attempt_count, MaxReprocesses <- MaxRequests

\* What the two modules assume of their constants.
ASSUME QueueConstants ==
    Queue!SettingsAssumption /\ Queue!LiteralsAssumption /\ Queue!BoundsAssumption
ASSUME UpdateConstants == Update!DocumentConstants

TypeOK ==
    /\ Queue!TypeOK /\ Update!TypeOK
    /\ stage \in {"none", "stranded"} \union Update!Running
    /\ (stage = "none") = (job.state # "processing")
    /\ wanted \in 0 .. MaxVersions /\ read \in 0 .. MaxVersions
    /\ senders \subseteq DOMAIN runs /\ written \in Nat

Init ==
    /\ Queue!Init /\ stage = "none" /\ Update!Init
    /\ wanted = 0 /\ read = 0 /\ senders = {} /\ written = 0

-----------------------------------------------------------------------------
(* The handlers and the idle worker.                                       *)

\* A request that finds no attempt running wants what the document is now.
Wants == wanted' = IF job.state = "processing" THEN wanted ELSE doc.version

\* A repeated webhook asks for nothing.
Webhook ==
    /\ Queue!PaperlessWebhook(Document)
    /\ IF job.state = "absent" THEN Wants ELSE UNCHANGED wanted
    /\ UNCHANGED <<stage, updateVars, read, senders, written>>

\* A job that starts over starts its cycle's account over.
Reprocess ==
    /\ Queue!ReprocessDocument(Document)
    /\ reprocesses' = reprocesses + 1
    /\ IF UpdatePc \in Update!Final
       THEN lost' = Cardinality(late) /\ writes' = 0
       ELSE UNCHANGED <<lost, writes>>
    /\ Wants
    /\ UNCHANGED <<stage, dryRun, doc, text, tagOwner, late, original, fresh, initialTags,
                   currentTags, content, payload, edits, editedWhileReading, ownedSinceRead,
                   read, senders, written>>

NoAttempt == pc # "processing"

QueueStep ==
    /\ NoAttempt
    /\ \/ Queue!BeginIteration
       \/ Queue!NothingDue
       \/ Queue!StorageFailure
       \/ Queue!Crash
       \/ Queue!Exit
       \/ Queue!Restart
    /\ UNCHANGED <<stage, updateVars, history>>

Outside == (Queue!Stop \/ Queue!Tick) /\ UNCHANGED <<stage, updateVars, history>>

-----------------------------------------------------------------------------
(* The attempt.                                                             *)

Claim ==
    /\ Queue!ClaimDueJob(Document) /\ stage' = "get"
    /\ Update!Claim
    /\ UNCHANGED history

Attempt ==
    /\ ~NoAttempt
    /\ UNCHANGED <<queueVars, wanted, written>>
    /\ stage' \in Update!Running
    /\ \/ Update!GetOriginal
       \/ Update!ListTags
       \/ Update!Recognise
       \/ Update!GetFresh
       \/ Update!ValidateUpdate
    /\ read' = IF stage = "get" THEN doc.version ELSE read
    /\ senders' = IF stage' = "patch" THEN senders \union {claimed} ELSE senders

Finished == stage' = "none" /\ UNCHANGED <<wanted, read, senders>>

Succeed ==
    /\ Queue!SaveResult("succeeded") /\ Finished
    /\ \/ Update!PatchAnswered /\ written' = written + 1
       \/ Update!ReportProposal /\ UNCHANGED written

FindConflict ==
    /\ Queue!SaveResult("conflict") /\ Finished
    /\ Update!Conflict
    /\ UNCHANGED written

Fail ==
    /\ Queue!FailPermanently /\ Finished
    /\ Update!CallFails \/ Update!PatchRefused
    /\ UNCHANGED written

RetryLater ==
    /\ Queue!ScheduleAnotherAttempt \/ Queue!GiveUp
    /\ Finished
    /\ Update!CallFails \/ Update!PatchRefused \/ Update!PatchLost
    /\ UNCHANGED written

\* Also when the outcome of an answered PATCH cannot be saved: the request is then
\* one that was applied and whose answer nobody knows.
CutOff ==
    /\ ~NoAttempt
    /\ Queue!StorageFailure \/ Queue!Crash
    /\ stage' = "stranded"
    /\ Update!CutOff
    /\ UNCHANGED history

-----------------------------------------------------------------------------
(* Users, and requests that arrive late.                                   *)

World ==
    /\ UNCHANGED <<queueVars, stage, wanted, read, senders>>
    /\ \/ Update!Users /\ UNCHANGED written
       \/ Update!LatePatch /\ written' = written + 1
       \/ Update!LateLost /\ UNCHANGED written

WorkerStep == Claim \/ Attempt \/ Succeed \/ FindConflict \/ Fail \/ RetryLater

Next == Webhook \/ Reprocess \/ QueueStep \/ Outside \/ WorkerStep \/ CutOff \/ World

Spec == Init /\ [][Next]_vars

-----------------------------------------------------------------------------
\* Whoever asked for the document while no attempt was running gets an attempt
\* that read it as it was then, or newer: requests that are merged into a waiting
\* job lose nothing, requests for a settled one start it again.  (A request during
\* an attempt may be merged into one that has read an older version.)
RequestedVersionIsRead == job.state \in {"succeeded", "conflict"} => read >= wanted

\* The history of runs accounts for the document: each run that got to its PATCH
\* and is recorded as succeeded has written it, no run wrote twice, and none that
\* is recorded as a conflict has sent anything.
RunsAccountForWrites ==
    /\ written \in Cardinality({r \in senders : runs[r].state = "succeeded"})
                   .. Cardinality(senders)
    /\ \A r \in senders : runs[r].state # "conflict"

\* Seen from the document, the program is DocumentUpdate: the tables of the queue
\* agree with what the processor does about when a cycle begins, when its attempts
\* are used up and what is left of an attempt that was cut off.
ImplementsUpdate == Update!Spec
=============================================================================
