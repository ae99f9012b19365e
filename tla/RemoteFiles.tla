----------------------------- MODULE RemoteFiles -----------------------------
(***************************************************************************)
(* Files that MistralDock uploads for OCR and has to delete again: the     *)
(* calls of one chunk (DocumentProcessor._ocr_chunk), the table            *)
(* `remote_files' that remembers what is still to be deleted, and the      *)
(* cleanup that runs at the start of every iteration of the worker.        *)
(*                                                                         *)
(* The worker gives control away at each provider call, so each call is a  *)
(* step: it changes the provider and leaves its answer to the next step.   *)
(***************************************************************************)
EXTENDS Integers, Sequences, FiniteSets, Chunking

CONSTANTS
    MaxFiles,       \* bound: uploads
    MaxPages,       \* bound: pages of a document
    ChunkSize,      \* settings.ocr_chunk_pages
    CleanupBase,    \* the literal 30 in cleanup_remote_files
    CleanupMax,     \* the literal 3600
    MaxClock,       \* bound: the clock stops here
    MaxLag,         \* bound: ticks from the start of an iteration, or a crash, to the next
    LastJobAt,      \* bound: no job is claimed later
    MaxFaults       \* bound: calls that fail or lose their answer, storage errors, crashes

ASSUME RemoteConstants ==
    /\ MaxFiles \in Nat /\ MaxPages \in Nat \ {0} /\ MaxFaults \in Nat
    /\ MaxClock \in Nat /\ MaxLag \in Nat /\ LastJobAt \in Nat
    /\ ChunkSize \in Nat \ {0}
    /\ CleanupBase \in Nat \ {0} /\ CleanupMax \in Nat \ {0}

VARIABLES
    stored,     \* ids of the files that exist at Mistral
    rows,       \* table `remote_files', by provider_file_id
    pc,         \* where the worker is; "dead": its task ended with an error, "down": no process
    now,        \* `now' of the iteration; while down, of the end of the process
    pending,    \* records of the cleanup's loop still to come
    file,       \* file in hand: of the chunk, or of the record being cleaned up
    answer,     \* what the last delete call said
    pages,      \* pages of the document in hand
    start,      \* first page of the chunk in hand
    page_count, \* pages of the chunk's OCR result; 0: it failed
    results,    \* the pages recognised so far, in the order of the content
    clock,
    uploaded,   \* ids handed out by Mistral
    faults,     \* counter for the bound
    registeredAt    \* history: when each file got its row

provider == <<stored, uploaded>>
document == <<pages, start, page_count, results>>
loop == <<pc, now, pending, file, answer, document>>
vars == <<stored, rows, pc, now, pending, file, answer, document, clock, uploaded,
          faults, registeredAt>>

None == 0
FileIds == 1 .. MaxFiles
Tracked == DOMAIN rows
registered == DOMAIN registeredAt

RemoteFileRecord == [delete_attempts : Nat, next_attempt_at : Int]
PendingRemoteFile == [file : FileIds, delete_attempts : Nat, due : Int]

TypeOK ==
    /\ stored \subseteq FileIds
    /\ Tracked \subseteq FileIds /\ rows \in [Tracked -> RemoteFileRecord]
    /\ pc \in {"idle", "cleaning", "cleaned", "chunk", "uploaded", "ocr", "finally",
               "deleted", "recognised", "dead", "down"}
    /\ now \in Nat /\ clock \in Nat /\ faults \in Nat
    /\ pending \subseteq PendingRemoteFile
    /\ file \in FileIds \union {None}
    /\ answer \in {"success", "error", "not_found"}
    /\ pages \in 0 .. MaxPages /\ start \in 0 .. MaxPages
    /\ page_count \in 0 .. ChunkSize + 1
    /\ results \in Seq(0 .. MaxPages)
    /\ uploaded \in 0 .. MaxFiles
    /\ registered \subseteq FileIds /\ registeredAt \in [registered -> Nat]

Init ==
    /\ stored = {} /\ uploaded = 0
    /\ rows = [f \in {} |-> [delete_attempts |-> 0, next_attempt_at |-> 0]]
    /\ pc = "idle" /\ now = 1 /\ pending = {} /\ file = None
    /\ answer = "success"
    /\ pages = 0 /\ start = 0 /\ page_count = 0 /\ results = <<>>
    /\ clock = 1 /\ faults = 0
    /\ registeredAt = [f \in {} |-> 0]

Fault == faults < MaxFaults /\ faults' = faults + 1

-----------------------------------------------------------------------------
(* Table operations of JobRepository.                                      *)

\* Faulty: the file is registered but not committed.
RegisterWithoutCommit(f) == rows

RegisterRemoteFile(f) ==
    [g \in Tracked \union {f} |->
        IF g = f THEN [delete_attempts |-> 0, next_attempt_at |-> clock] ELSE rows[g]]

\* Faulty: the statement has no WHERE clause.
RemoveEveryFile(f) == [g \in {} |-> rows[g]]

RemoveRemoteFile(f) == [g \in Tracked \ {f} |-> rows[g]]

\* Faulty: an old record is taken for a lost cause.
DueForFirstDeletion == {f \in Tracked : /\ rows[f].next_attempt_at <= now'
                                        /\ rows[f].delete_attempts = 0}

\* pending_remote_files: WHERE next_attempt_at <= now.
DueFiles == {f \in Tracked : rows[f].next_attempt_at <= now'}

CleanupDelay(attempts) == LesserOf(CleanupBase * 2^attempts, CleanupMax)

\* Faulty: the attempts are counted down.
RescheduledCountingDown(f, attempts) ==
    [rows EXCEPT ![f] = [delete_attempts |-> @.delete_attempts - 1,
                         next_attempt_at |-> now + CleanupDelay(attempts)]]

\* Faulty: the delay is not added to the time.
RescheduledAtOnce(f, attempts) ==
    [rows EXCEPT ![f] = [delete_attempts |-> @.delete_attempts + 1,
                         next_attempt_at |-> now]]

\* The delay comes from the record the loop read, the count from the row.
RescheduleRemoteFile(f, attempts) ==
    [rows EXCEPT ![f] = [delete_attempts |-> @.delete_attempts + 1,
                         next_attempt_at |-> now + CleanupDelay(attempts)]]

-----------------------------------------------------------------------------
(* MistralClient.delete_file as seen by its two callers: a deletion may    *)
(* fail, or succeed and lose its answer; a file that is gone is not found. *)

Delete(f) ==
    \/ /\ f \in stored
       /\ stored' = stored \ {f} /\ answer' = "success" /\ UNCHANGED faults
    \/ /\ f \in stored /\ Fault
       /\ stored' \in {stored, stored \ {f}} /\ answer' = "error"
    \/ /\ f \notin stored
       /\ answer' = "not_found" /\ UNCHANGED <<stored, faults>>

-----------------------------------------------------------------------------
(* cleanup_remote_files.                                                   *)

BeginCleanup ==
    /\ pc = "idle"
    /\ pc' = "cleaning" /\ now' = clock
    /\ pending' = {[file |-> f, delete_attempts |-> rows[f].delete_attempts,
                    due |-> rows[f].next_attempt_at] : f \in DueFiles}
    /\ file' = None
    /\ UNCHANGED <<stored, rows, answer, document, clock, uploaded, faults, registeredAt>>

\* The next record of the loop, in the order of next_attempt_at.
CleanupDelete ==
    /\ pc = "cleaning"
    /\ \E record \in pending :
          /\ \A other \in pending : record.due <= other.due
          /\ file' = record.file
          /\ Delete(record.file)
    /\ pc' = "cleaned"
    /\ UNCHANGED <<rows, now, pending, document, clock, uploaded, registeredAt>>

RecordInHand == CHOOSE record \in pending : record.file = file

\* Faulty: the record is dropped whatever the answer was.
CleanupForgets(record) == RemoveRemoteFile(record.file)

\* Any exception reschedules the record, a missing file's as well.
CleanupOutcome(record) ==
    IF answer = "success" THEN RemoveRemoteFile(record.file)
    ELSE RescheduleRemoteFile(record.file, record.delete_attempts)

SaveCleanup ==
    /\ pc = "cleaned"
    /\ rows' = CleanupOutcome(RecordInHand)
    /\ pending' = pending \ {RecordInHand}
    /\ pc' = "cleaning" /\ file' = None
    /\ UNCHANGED <<provider, now, answer, document, clock, faults, registeredAt>>

NoJobDue ==
    /\ pc = "cleaning" /\ pending = {}
    /\ pc' = "idle"
    /\ UNCHANGED <<provider, rows, now, pending, file, answer, document, clock, faults,
                   registeredAt>>

\* A job was claimed and its document downloaded: chunk_document.
BeginAttempt ==
    /\ pc = "cleaning" /\ pending = {}
    /\ clock <= LastJobAt
    /\ pages' \in 1 .. MaxPages
    /\ start' = 0
    /\ pc' = "chunk"
    /\ UNCHANGED <<provider, rows, now, pending, file, answer, page_count, results, clock,
                   faults, registeredAt>>

-----------------------------------------------------------------------------
(* DocumentProcessor._ocr_chunk.                                           *)

EndAttempt ==
    /\ pc' = "idle" /\ file' = None
    /\ pages' = 0 /\ start' = 0 /\ page_count' = 0 /\ results' = <<>>

\* MistralClient.upload_chunk, first call.
Upload ==
    /\ pc = "chunk" /\ uploaded < MaxFiles
    /\ uploaded' = uploaded + 1
    /\ stored' = stored \union {uploaded'}
    /\ file' = uploaded' /\ pc' = "uploaded"
    /\ UNCHANGED <<rows, now, pending, answer, document, clock, faults, registeredAt>>

\* The upload is refused, or accepted and its answer lost or without an id.
UploadFails ==
    /\ pc = "chunk"
    /\ \/ UNCHANGED <<provider, faults>>
       \/ /\ uploaded < MaxFiles /\ Fault
          /\ uploaded' = uploaded + 1
          /\ stored' = stored \union {uploaded'}
    /\ EndAttempt
    /\ UNCHANGED <<rows, now, pending, answer, clock, registeredAt>>

\* upload_chunk's second call answers and _ocr_chunk commits the row, with no
\* await between the two.
Register ==
    /\ pc = "uploaded"
    /\ rows' = RegisterRemoteFile(file)
    /\ registeredAt' = [f \in registered \union {file} |->
                           IF f = file THEN clock ELSE registeredAt[f]]
    /\ pc' = "ocr"
    /\ UNCHANGED <<provider, now, pending, file, answer, document, clock, faults>>

\* get_signed_url raises or returns no URL, or the row cannot be committed: the
\* attempt fails and nothing is registered.
RegisterFails ==
    /\ pc = "uploaded" /\ Fault
    /\ EndAttempt
    /\ UNCHANGED <<provider, rows, now, pending, answer, clock, registeredAt>>

Chunk == ChunkPages(start, pages, ChunkSize)

\* ocr_uploaded raises, or returns some number of pages.
Ocr ==
    /\ pc = "ocr"
    /\ page_count' \in 0 .. Cardinality(Chunk) + 1
    /\ pc' = "finally"
    /\ UNCHANGED <<provider, rows, now, pending, file, answer, pages, start, results, clock,
                   faults, registeredAt>>

InlineDelete ==
    /\ pc = "finally"
    /\ Delete(file)
    /\ pc' = "deleted"
    /\ UNCHANGED <<rows, now, pending, file, document, clock, uploaded, registeredAt>>

\* `else' of the inner try: the row is removed only when the call returned.
InlineOutcome == IF answer = "success" THEN RemoveRemoteFile(file) ELSE rows

\* Faulty: whatever was recognised is taken.
AnyResult == page_count > 0

\* A result of another number of pages fails the attempt.
Complete == page_count > 0 /\ page_count = Cardinality(Chunk)

LaterStarts == {later \in ChunkStarts(pages, ChunkSize) : later > start}

NextChunk ==
    /\ pc = "deleted"
    /\ rows' = InlineOutcome
    /\ Complete
    /\ results' = results \o [i \in 1 .. page_count |-> start + i - 1]
    /\ page_count' = 0 /\ file' = None
    /\ IF LaterStarts = {}
       THEN pc' = "recognised" /\ UNCHANGED start
       ELSE pc' = "chunk" /\ start' = CHOOSE s \in LaterStarts : \A t \in LaterStarts : s <= t
    /\ UNCHANGED <<provider, now, pending, answer, pages, clock, faults, registeredAt>>

ChunkFails ==
    /\ pc = "deleted"
    /\ rows' = InlineOutcome
    /\ ~Complete
    /\ EndAttempt
    /\ UNCHANGED <<provider, now, pending, answer, clock, faults, registeredAt>>

\* The row of a file just deleted cannot be removed: the error leaves the `finally'
\* and, like any error of an attempt, is caught by run_once.
InlineRemovalFails ==
    /\ pc = "deleted" /\ answer = "success" /\ Fault
    /\ EndAttempt
    /\ UNCHANGED <<provider, rows, now, pending, answer, clock, registeredAt>>

\* What follows is another module's matter.
UseContent ==
    /\ pc = "recognised"
    /\ EndAttempt
    /\ UNCHANGED <<provider, rows, now, pending, answer, clock, faults, registeredAt>>

-----------------------------------------------------------------------------
(* Ends of the worker.                                                     *)

LeaveMemory ==
    /\ pending' = {} /\ file' = None
    /\ pages' = 0 /\ start' = 0 /\ page_count' = 0 /\ results' = <<>>

\* A repository call outside an attempt raises: when the cleanup reads or writes its
\* rows, when the job is claimed, when the outcome is saved.  It leaves _worker_loop,
\* and the API goes on without a worker task.
StorageFailure ==
    /\ pc \in {"idle", "cleaned"} \/ (pc = "cleaning" /\ pending = {})
    /\ Fault
    /\ pc' = "dead"
    /\ LeaveMemory
    /\ UNCHANGED <<provider, rows, now, answer, clock, registeredAt>>

\* The process dies.
Crash ==
    /\ pc # "down" /\ Fault
    /\ pc' = "down" /\ now' = clock
    /\ LeaveMemory
    /\ UNCHANGED <<provider, rows, answer, clock, registeredAt>>

\* The service without a worker task is stopped.  (A stop that meets a live worker
\* lets its iteration end.)
Shutdown ==
    /\ pc = "dead"
    /\ pc' = "down" /\ now' = clock
    /\ UNCHANGED <<provider, rows, pending, file, answer, document, clock, faults,
                   registeredAt>>

Restart ==
    /\ pc = "down"
    /\ pc' = "idle"
    /\ UNCHANGED <<provider, rows, now, pending, file, answer, document, clock, faults,
                   registeredAt>>

Tick ==
    /\ clock < MaxClock
    /\ (pc = "dead" /\ clock <= LastJobAt) \/ clock - now < MaxLag
    /\ clock' = clock + 1
    /\ UNCHANGED <<provider, rows, loop, faults, registeredAt>>

Worker ==
    \/ BeginCleanup
    \/ CleanupDelete
    \/ SaveCleanup
    \/ NoJobDue
    \/ BeginAttempt
    \/ Upload
    \/ UploadFails
    \/ Register
    \/ RegisterFails
    \/ Ocr
    \/ InlineDelete
    \/ NextChunk
    \/ ChunkFails
    \/ InlineRemovalFails
    \/ UseContent

Next == Worker \/ StorageFailure \/ Crash \/ Shutdown \/ Restart \/ Tick

Spec == Init /\ [][Next]_vars

\* Calls end, a process that died is started again, time passes.  Nothing starts a
\* dead worker task again, and nobody need stop the service around it.
FairSpec == Spec /\ WF_vars(Worker) /\ WF_vars(Restart) /\ WF_vars(Tick)

-----------------------------------------------------------------------------
(* Safety.                                                                  *)

\* A file between its upload and its registration is known to the worker only.
InTransit == IF pc = "uploaded" THEN {file} ELSE {}

\* Once registered, a file that still exists has a row, through failed inline
\* deletions, failed cleanups, crashes and restarts.
RegisteredFilesStayTracked == registered \intersect stored \subseteq Tracked

\* Each file that exists unknown to the sidecar goes back to one failed call or
\* crash of its own: normal operation loses none.
LostFilesHaveAFault ==
    Cardinality(stored \ (Tracked \union InTransit)) <= faults

\* The content an attempt goes on with has every page of the document once, in
\* order: the chunks leave none out and overlap nowhere, and a result that lost a
\* page is not taken.
ContentHasEveryPage ==
    pc = "recognised" => results = [i \in 1 .. pages |-> i - 1]

\* What the cleanup read before its awaits is still true when it writes: the
\* record has a row, with the same count, that was due.
PendingSnapshotIsCurrent ==
    \A record \in pending :
        /\ record.file \in Tracked
        /\ rows[record.file] = [delete_attempts |-> record.delete_attempts,
                                next_attempt_at |-> record.due]
        /\ record.due <= now

\* The delays of the first n failed cleanups of a file, added up.
DelaySum[n \in Nat] == IF n = 0 THEN 0 ELSE DelaySum[n - 1] + CleanupDelay(n - 1)

\* The delays of failed cleanups add up: after n of them the next one comes no
\* earlier than the first n delays after the registration.
CleanupsBackOff ==
    \A f \in Tracked :
        rows[f].next_attempt_at >= registeredAt[f] + DelaySum[rows[f].delete_attempts]

-----------------------------------------------------------------------------
(* Liveness.                                                                *)

\* A file with a row is deleted in the end, whatever interrupted its chunk, unless
\* the worker task dies; a restart of the service takes the deletion up again.
TrackedFilesAreDeleted ==
    \A f \in FileIds : f \in Tracked ~> (f \notin stored \/ pc = "dead")

-----------------------------------------------------------------------------
(* What the documents say and the code does not do.                        *)

\* Design, "Zustandsmodell": the cleanup is retried until Mistral reports
\* success or "not found".
NotFoundEndsCleanup ==
    [][pc = "cleaned" /\ pc' = "cleaning" /\ answer # "error" => file \notin DOMAIN rows']_vars
=============================================================================
