# MistralDock: TLA+ models, checks and proofs

MistralDock is a sidecar of Paperless-ngx. A webhook or a reprocess request queues a
document id; one worker per process downloads the original, sends it to Mistral OCR chunk by
chunk, validates what comes back and, in live mode, patches the Paperless document. This
directory models the parts of it that have state and can go wrong through order, failure or
time. Paths below are relative to `src/`; "design" is
`docs/superpowers/specs/2026-08-15-mistraldock-design.md`.

## Inventory

| Component | State | Operations | Hard behaviour | What makes it correct |
|---|---|---|---|---|
| Job queue (`repository.py`, `models.py`) | tables `jobs`, `runs` | enqueue (automatic, reprocess), claim, finish, schedule retry, release leases | two tables written through one pointer; handlers commit between claim and outcome | job and run agree; history is never rewritten; at most one job per document and one cycle at a time |
| Worker (`services/worker.py`, `_worker_loop` in `api.py`) | iteration time, claimed job | one iteration: cleanup, claim, process, save | a time stamp read before long awaits; retries with backoff; an exception that ends the task | attempts within budget, spaced by the backoff; every job settles |
| API and process (`api.py`) | stop event, worker task | webhook, reprocess, SIGTERM, start, crash | SIGTERM in the middle of an iteration; a dead worker under a live API; crash with a claimed job | duplicates merge; one fault costs at most one job |
| Remote files (`services/remote_cleanup.py`, `_ocr_chunk` in `services/processor.py`, `clients/mistral.py`) | table `remote_files`, files at Mistral | upload, register, OCR, delete, cleanup, reschedule | failure between upload and registration; deletion with a lost answer; rows read before awaits | a registered file is tracked until it is deleted, and is deleted while there is a worker |
| Document processor (`services/processor.py`, `clients/paperless.py`) | locals of an attempt; the document and the tags at Paperless | two reads, two tag listings, download, OCR, PATCH | users edit at every await; a PATCH without an answer; requests that arrive late | an edit between the reads is never overwritten; content goes to the version it came from; tags added were still the owner's |
| Chunking (`services/chunking.py`) | none | split a PDF into page ranges | first and last chunk, exact multiples, results of another length | every page once, in order |
| Validation (`services/validation.py`) | none | content, title, date, tags | bounds, before and after blanks are normalised; a vocabulary read a moment ago | only admissible payloads; what is dropped from a proposal can be seen afterwards (it cannot: `ValidatedUpdateWarnings`) |
| Tag listing (`list_tags` in `clients/paperless.py`) | pages already merged | follow `next` links | tags are renamed, deleted and handed over between requests, so that a name is met twice, a tag never, or the next page is gone | a name resolves to a tag that had it; little is overlooked; it ends |
| Prompts, response schema, settings, database engine | constants, connection | - | - | - |

Interactions: API handlers and the worker share the database only; a handler is a coroutine
without an `await`, so it runs as a whole between two steps of the worker. Within an iteration
the order is cleanup, claim, attempt, outcome. The attempt calls Paperless and Mistral, and
those calls are where everything else may happen. `PROJECT.json` lists the same components
with their status, and under `hazards` the places where this code can go wrong in a way that a
unit test would hardly reach, with the properties that would notice.

## Modules

| Module | Models | State and actions |
|---|---|---|
| `JobQueue` | queue, worker loop, process | `jobs` and `runs` are the tables (a run's id is its index); `pc`, `now`, `claimed` the worker task; `stop` the event. One action per handler (`PaperlessWebhook`, `ReprocessDocument`), per part of an iteration between awaits (`BeginIteration`, `ClaimDueJob`, `NothingDue`), per outcome of `run_once` (`SaveResult`, `FailPermanently`, `ScheduleAnotherAttempt`, `GiveUp`) and per event of the process (`StorageFailure`, `Stop`, `Exit`, `Crash`, `Restart`) |
| `JobLifecycle` | the abstract specification of the queue | a status and an attempt count per document: accepted, started, settled, retried, or lost for good |
| `JobQueueProofs` | - | the proofs about the tables and the life cycle of `JobQueue` |
| `JobHistoryProofs` | - | the proofs about the history of runs that `JobQueue` writes, on top of `JobQueueProofs` |
| `Chunking` | `chunk_document` | where chunks start and which pages they have |
| `RemoteFiles` | remote files, OCR of the chunks of a document | `stored` are the files at Mistral (external), `rows` the table; `pages`, `start`, `page_count`, `results` the document in hand. Each provider call is one step that changes the provider and leaves its answer to the next: `CleanupDelete` then `SaveCleanup`, `Upload` then `Register` or `RegisterFails`, `Ocr`, `InlineDelete` then `NextChunk`, `ChunkFails` or `InlineRemovalFails`; `UseContent` hands the content on. `StorageFailure` ends the worker task alone, `Crash` the process, which `Restart` starts again; only `Shutdown` leads from a dead worker task to a restart |
| `RemoteFilesProofs` | - | the proofs about `RemoteFiles` and `Chunking` |
| `DocumentUpdate` | one document through attempts, users and retries | `doc`, `text`, `tagOwner` are Paperless (external); `dryRun` the write mode; `original`, `fresh`, `initialTags`, `currentTags`, `content`, `payload` the locals of `_process`; `late` the PATCH requests the client gave up and the server may still apply. One action per await of `_process`, and per page of its two tag listings (`ListInitialTags`, `ListCurrentTags`, `ValidateUpdate`); `CutOff` ends the process or its task at any of them and strands the job |
| `DocumentUpdateProofs` | - | the proofs about `DocumentUpdate` |
| `TagListing` | `list_tags` | `tags` is Paperless (external), `next_url`, `tags_by_name` the locals; `FetchPage` is one request, between two of which users create, rename, delete and hand over tags; `PageGone` is the 404 of a page that no longer exists |
| `Validation` | `build_validated_update` | no state: titles reduced to their length before and after normalisation and to what they contain or equal, days as numbers, tags through the listed names |
| `ValidatedUpdate` | `TagListing` and `Validation` together | the end of `_process` before the PATCH: `List` until the listing is done, then `Build` or `Reject`; and what is left of the result: `run` is the run's row after `SaveResult`, `ListRuns` what the endpoint answers about it |
| `ValidatedUpdateProofs` | - | the proofs about `TagListing`, `Validation` and `ValidatedUpdate` |
| `MistralDock` | `JobQueue` and `DocumentUpdate` together | one document. A step of queue and attempt is a conjunction of an action of each (`Succeed` is `SaveResult` and `PatchAnswered`); `UpdatePc` reads from the tables where the attempt's job is |
| `MistralDockProofs` | - | the proofs about `MistralDock`; they take the theorems of its parts over |
| `MCJobQueue`, `MCDocumentUpdate`, `MCValidatedUpdate`, `MCMistralDock` | - | constants for TLC, symmetry sets, the initial states of `ValidatedUpdate` that are tried |

`MistralDock` and `DocumentUpdate` are related twice: the composition uses the actions of
`DocumentUpdate`, and its run checks that the result implements `DocumentUpdate` with `pc` and
`attempts` replaced by what the tables say. The second is not a consequence of the first: it
says that the queue's bookkeeping (budget, new cycle, stranded job) is the one the processor's
model assumes, and that no step of the queue moves the job while the attempt does not. It is
also proved (`ProgramImplementsUpdate`), and so is that the composition is a `JobQueue`
(`RunsTheQueue`), so that what is proved of the parts holds of the whole.
`JobLifecycle`, in turn, is what the queue promises a document.

Data are abstracted to what the properties tell apart: the content of a version is the number
of the version it was recognised from, tags have ids, owners and names and nothing else, an
attempt in `JobQueue` is one of the outcomes that `run_once` distinguishes, and its error codes and
proposals are left out (`ValidatedUpdate` has the row's proposal). Definitions commented
"Faulty:" are deliberately wrong variants of the definition that follows; each belongs to a
property and shows that the property notices that mistake (`mutants` in `PROJECT.json`). They are
not used by any specification.

## Runs

Passing runs:

| Run | Question | Bounds |
|---|---|---|
| `JobQueueTables` | Do both tables stay consistent, do requests merge, are webhooks deduplicated, does nobody starve, does the queue implement `JobLifecycle`, with crashes, storage failures and SIGTERM between any two steps; is every accepted document settled, and does a fault cost only the job in hand? | 2 documents, 2 requests, 2 attempts, 1 fault, 1 SIGTERM |
| `JobQueueBackoff` | Is a document's whole history made of cycles of attempts within the budget and spaced neither less nor more than the backoff says, and does a process that is told to stop end? | 1 document, 2 requests, 4 attempts, so delays 1, 2, 3 (capped), with a jitter of 0 or 1; 1 fault, 1 SIGTERM |
| `JobQueueRelease` | Would `release_expired_leases`, if called between iterations, keep the tables consistent? | 2 documents, 1 fault |
| `RemoteFiles` | Is what is registered tracked until deleted, and deleted in the end unless the worker task is dead; do failed deletions back off; is the content of an attempt complete? | 3 uploads, up to 3 pages in chunks of 2, 3 faults |
| `DocumentUpdate` | Which content goes where, which tags does a PATCH keep and add, is every write accounted for? | 2 versions, 2 tags of one name with an owner or none, 2 edits, 2 attempts, 1 reprocess |
| `ValidatedUpdate` | Which tags does an update add and overlook while users change tags between the pages; does the listing end? | 3 tags, 2 names, 2 owners, 1 tag per page, 2 changes; titles from 2 to 6 for bounds 3 and 5, days around both bounds |
| `MistralDock` | Are requests answered by an attempt that read what they asked for, do the runs account for the writes, and is the program what `DocumentUpdate` says of one document? | 1 document, 2 versions, 1 edit, 2 requests, 2 attempts, 1 fault, 1 SIGTERM, no tags |

Runs that TLC ends with a counterexample, each a place where the code does something other
than the design or the README says (`findings` in `PROJECT.json` quotes the lines):

| Run | What it shows |
|---|---|
| `JobQueueInterrupted` | A crash during an attempt leaves the job in `processing` for ever: nothing calls `release_expired_leases` but `tests/unit/test_repository.py`, and `_enqueue` leaves active rows alone, so not even a reprocess request helps. |
| `RemoteFilesNotFound` | A record whose file is already gone is rescheduled for ever. |
| `DocumentUpdateTagRemoved` | A tag added between the second read and the PATCH is removed by it. |
| `DocumentUpdateUncertain` | A PATCH whose answer was lost is followed by another one instead of a verification. |
| `ValidatedUpdateWarnings` | A proposal that validation dropped is named by a warning that nobody ever sees: the worker does not save it, and neither the table `runs` nor the run endpoint has a place for it. |

Other behaviour of the code that the models show and no property forbids:

- SIGTERM during the cleanup of remote files does not keep that iteration from claiming a job
  (`Stop` is enabled between `BeginIteration` and `ClaimDueJob`); the process ends after it
  (`ShutdownCompletes`).
- `finished_at` is the time the iteration began, and the backoff counts from there, so a
  failure slower than the delay is due again at once (`FinishCurrentRun`, `RetryAt`).
- A storage error outside an attempt ends the worker task under a live API: no job is claimed and
  no file deleted until somebody stops the service (`StorageFailure`, `dead`).
  `AcceptedDocumentsSettle` and `TrackedFilesAreDeleted` hold up to that.
- A file whose signed URL cannot be had is neither deleted nor tracked (`RegisterFails`;
  `LostFilesHaveAFault` bounds such files by the faults).
- A reprocess request for a job whose attempt has already read an older version is merged into
  it, and the conflict that follows is final (`Reprocess`, `Conflict`). `RequestedVersionIsRead`
  says what holds of all other requests.
- A late PATCH of an earlier attempt that arrives between the two reads of the next one is
  taken for an edit: the job ends as a conflict although it has written the document
  (`LatePatch`, `Changed`).
- Users who delete tags during a listing can make the next page a 404, which fails the document
  for good (`PageGone`); a name may resolve to a tag that was renamed, handed over or deleted since
  its page was read (the properties say that the tag was the owner's at some moment of the
  listing; the PATCH fails if it no longer exists), and a tag that was left alone can slide over
  the edge of a page unseen (`ProposedTagsAreApplied` says how many).
- `runs.page_count` and `runs.chunk_count`, which the endpoint returns, are never written.
- Validation asks for an alphanumeric character in the whole content, not on each page as the
  design says, accepts titles made of digits, which the design excludes, and has its earliest
  date as a literal. A multi-frame TIFF counts as one page, so a result of one page per frame
  fails (`Complete`).

### Bounds, and why they are enough

Bounds are constants that end in or begin with `Max` or `Last` and are named in the modules; they
appear in guards of the environment (requests, faults, edits, the clock), never in a guard of the
code except `MaxFiles`, which stops uploads, and `LastJobAt`, after which no job is claimed.
`MaxAttempts`, `MaxJitter` and `MaxTitle` are the program's own. Two documents are enough for
questions of order and interference because one worker has one job in hand: what matters is the
job and some other. Budgets of two attempts give first, last and exhausted; the backoff run takes
four so that a doubled and a capped delay both occur, and a clock on which a fifth would fit. One
fault of the process is enough where each fault is to cost one job; three in `RemoteFiles` let a
crash hit a file whose deletion has already failed or lost its answer. The clock stops late enough
after `LastRequestAt` (jobs) or `LastJobAt` (files) for all delays to elapse, which the liveness
runs need. `MaxLag` is how long the worker may be late; it is unbounded in the program, and a
larger lag only delays what the properties speak of. Users act twice in `DocumentUpdate`: one edit
in the window a property is about, and one that prepares it (a tag to remove, an owner to lose).
Symmetry permutes tags in `DocumentUpdate`, which has safety properties only; the other runs use
none. In `JobQueueTables` requests arrive until time 1 of 7, that is, before, during and after the
first attempts, and every retry and settlement of theirs fits in; in `JobQueueBackoff` they arrive
until time 2. That the safety properties do not depend on such bounds is what the proofs show.

Up to three pages in chunks of two give a document below, of exactly and above one chunk. One tag
per page is the finest cut of a listing, and three tags with two changes let a tag pass another's
place before and after its page was read, or take and lose a name. Title bounds of 3 and 5 stand
for 5 and 128: lengths on both sides of each, before and after normalisation, are all that the
rules compare. (They decide whether there is an update at all; no property is about the rules
themselves, which it could only repeat.) In `ValidatedUpdate` either users act and the title is
plain, or nobody acts and every answer is tried (`MCInit`), since validation happens after the
last page and without an await. `MistralDock` leaves tags to the other runs: what it asks is about versions, edits and
writes; two requests, two attempts and one edit give every order of request, claim, read and
write.

`CHECK_DEADLOCK FALSE` is said where the system may really stop: a worker task that a storage
error ended waits for a restart that only a SIGTERM or a crash brings (the runs of `JobQueue` and
`MistralDock`, where these are bounded), in `DocumentUpdate` a job that has ended with no further
request or edit, in `ValidatedUpdate` a run that is finished. In `RemoteFiles` deadlock is checked.

### Fairness

Weak fairness of the worker's steps: the event loop keeps scheduling the task and every call of
an attempt returns or raises (`httpx` timeouts of 300 s; the SDK's own). In `ValidatedUpdate` this
is weak fairness of `FetchPage` and `PageGone`, and `ListingEnds` shows that a listing over
numbered pages ends however tags move; `next` links that Paperless itself joined to a cycle would
keep the worker for ever and are left out. Weak fairness of `Exit`, `Restart` and `Tick`:
the lifespan waits for the worker and ends, the compose file restarts a container whose process
has ended (`restart: unless-stopped`), time passes. A dead worker task is not a dead process:
`lifespan` creates the task once, so nothing fair leads out of `dead`, neither in `JobQueue` nor in
`RemoteFiles`, and the liveness properties say "or the worker is dead". Nothing is assumed of
requests, users, SIGTERM (`Stop`, `Shutdown`) or faults, nor of a caller of
`release_expired_leases`, which the program does not have (`SpecWithRelease` has no fairness; what
the design expects of the leases is `InterruptedWorkRunsAgain`, which the program violates). Fairness is
chosen for the worker as a whole, not per outcome: no attempt is assumed to succeed.

## Proofs

`JobQueueProofs` proves for every set of documents, every budget, delay and bound:

| Theorem | Statement |
|---|---|
| `QueueInvariant` | `Spec => []IInv` |
| `TypeCorrectness` | `Spec => []TypeOK` |
| `TablesAgree` | `Spec => []RunJobAgreement` |
| `BudgetHolds` | `Spec => []AttemptsWithinBudget` |
| `HistoryIsImmutable` | `Spec => ClosedRunsStayClosed` |
| `QueueImplementsLifecycle` | `Spec => ImplementsLifecycle` |

The argument. None of the goals is inductive: `RunJobAgreement` says that a processing job and
its current run agree, but saving an outcome keeps that only if the run closed is the one the
worker holds, which is open, and belongs to this document. So `IInv` adds
`PointersWithinRuns` (a job points at a run of its own document), `WorkerHoldsOpenRun`,
`WaitingJobHasAttemptLeft` (without it a claim could exceed the budget) and
`ClosedRunsAreStamped` (closed runs are the ones with `finished_at`, which is what immutability
is about). `JobQueueTables` checks `IInv` with TLC.

Each step of `Next` changes the tables in one of four ways: a row is queued, claimed, its
outcome saved, or nothing changes (`StepChangesOneRow`). `IInv` is shown to be kept in each of
the four cases (`QueuedRowKeepsIInv`, `ClaimedRowKeepsIInv`, `SavedRowKeepsIInv`,
`UntouchedTablesKeepIInv`), and `HistoryIsImmutable` and the refinement reuse the same split:
a queued row is `Accept`, a claimed one `Start`, a saved one `Settle` or `Retry`, and a step
that touches no table stutters or, when the worker vanishes with a claimed job, is `Lose`.

`JobHistoryProofs` goes on from there to what the history of runs looks like:

| Theorem | Statement |
|---|---|
| `HistoryFormsCycles` | `Spec => []AttemptsFormCycles` |
| `WebhooksAreDeduplicated` | `Spec => []AutomaticProcessingStartsOnce` |
| `AttemptsAreSpaced` | `Spec => []AttemptsSpacedByBackoff`, from start to start |
| `RetriesAreDueInTime` | `Spec => []RetryIsDueInTime`, the upper bound |
| `NobodyStarves` | `Spec => []WaitingJobIsOvertakenOnce` |
| `FaultsStrandOneJobEach` | `Spec => []FaultStrandsOneJob` |
| `ActiveJobsAreTheWorkers` | `Spec => ActiveJobUntouchedByOthers` |

These speak of the order of runs, which only the job row connects: the claim reads the attempt
number and the trigger from the row, not from the run before. `HistoryInv` therefore says what
the row remembers. `JobTellsItsLatestRun`: past the start of a cycle the row points at the
document's latest run and has its state, number and trigger; at the start of one every run before
is settled, and if there is one the request was to reprocess. `WaitingJobIsDueLater`: a waiting
job is due no earlier than any of its runs began, and a retry no earlier than the delay after its
last run, although `RetryAt` counts from the start of an iteration and the claim compares with the
start of a later one (`RunsStartInThePast`). That it is due no later than the capped delay and the
largest jitter after that start (`RetriesAreDueInTime`) is the other bound of the same fact; the
lower one alone would not notice a delay that is never capped. `OvertakenOnce` says "at most one" as "any two are
the same", since a job that has gone first is due later than the one it overtook and is not chosen
again before it. The count of stranded jobs is like that of lost files below: each step strands
none, or is a fault and strands one (`StepStrandsAtMostOne`).

The proofs of both modules concern the program as it is, without a release: with one, a crash in
the last attempt would put a job with no attempt left back into `retry_wait`, and
`AttemptsWithinBudget` would not hold.

`RemoteFilesProofs` proves for all bounds, numbers of pages and chunk sizes:

| Theorem | Statement |
|---|---|
| `TypeCorrect` | `Spec => []TypeOK` |
| `RegisteredFilesTracked` | `Spec => []RegisteredFilesStayTracked` |
| `SnapshotCurrent` | `Spec => []PendingSnapshotIsCurrent` |
| `LostFilesAccounted` | `Spec => []LostFilesHaveAFault` |
| `ContentComplete` | `Spec => []ContentHasEveryPage` |
| `CleanupsAreSpaced` | `Spec => []CleanupsBackOff` |

A registered file stays tracked because its row is removed only after a deletion that
succeeded, and then the file is gone: that is `HandInv`, which also says that the cleanup's
record in hand is one of its list and that the list is empty outside of the cleanup. The list
agrees with the table because a record is written back only under its own file, and a file has
one record (two records with the same row are equal). New files get ids that no row and no
record of the list has (`FilesInv`). For the count of lost files each step is shown to lose
none, or to be a fault and lose one (`StepLosesAtMostOne`). The content is complete because a
chunk starts where the one before it ended (`NextChunkStart`, which is about multiples of the
chunk size), a result of another length is refused, and no start is left exactly when the pages
are used up (`NextChunkContinues`). The delays of the cleanup add up because the record that is
written back was due in this iteration, so that the new delay starts no earlier than the last one
ended; `CleanupsAreSpaced` rests on `SnapshotCurrent` for that. `DelaySum` is a recursive
function, that is, a choice among the functions that satisfy its equation, and the library's
induction theorems cannot be applied to it. `LeastNumber` (a set of numbers has a least one, from
the well-foundedness of `<`) takes their place: by smallest counterexample the partial sums exist
(`PartialSumsExist`) and agree where they meet (`PartialSumsAgree`), so some function satisfies
the equation and `DelaySum` does (`DelaySumEquation`).

`DocumentUpdateProofs` proves for all tags, owners, names, budgets and bounds:

| Theorem | Statement |
|---|---|
| `TypeCorrect` | `Spec => []TypeOK` |
| `ContentCorrect` | `Spec => []ContentOfVersion` |
| `EditsAreRespected` | `Spec => []NoWriteAfterAnEdit` |
| `PatchIsAdditive` | `Spec => PatchKeepsTags` |
| `AddedTagsCorrect` | `Spec => []AddedTagsWereStillTheOwners` |
| `WritesCorrect` | `Spec => []WritesAreAccountedFor` |

The inductive invariant adds that a request, sent or still under way, carries the content of the
version it names (`RequestsNameTheirVersion`), that the two reads agree on version and owner
(`ReadsAgree`), that the version and the time stamp have only grown since the first read and an
edit made one of them grow (`EditsLeaveATrace`; this is why comparing them for equality is
enough), and that the list that is sent has the tags of the second read (`PayloadHasTags`).
`ListingInv` is about the second tag listing: what its pages have shown so far, and so what is
added to the payload, was the owner's at some moment since the second read, although users
delete tags and hand them over between any two pages.
For the count of writes `WritesInv` counts requests that are still under way as if they had been
applied: what is written and what may still arrive together never exceed the reported write and
the lost answers.

`ValidatedUpdateProofs` proves for any tags, names, owners, page size, number of changes and
bounds of validation:

| Theorem | Statement |
|---|---|
| `Invariance` | `Spec => []IInv` |
| `TypeCorrect` | `Spec => []TypeOK` |
| `DuplicatesAreUsersDoing` | `Spec => []DuplicatesNeedTwoChanges` |
| `NobodyElsesTagIsAdded` | `Spec => []AddedTagsWereTheOwners` |
| `DeparturesBoundTheLoss` | `Spec => []ProposedTagsAreApplied` |

`ListingInv` says that a name already merged was held by its tag at some time of the listing
(`MergedNamesWereHeld`), that the entry of a name whose tag was left alone is that tag
(`UntouchedNamesAreTheirs`; two entries of one name need a change of each, which is
`DuplicatesNeedTwoChanges`), and how many tags that were left alone the pages already read can
have missed (`DeparturesHideTags`). A tag's place in the listing is the number of tags before it.
Pages are read by place, so a tag that stays is missed only when its place falls from beyond the
pages read to within them; one change moves every place by one at most
(`OneChangeMovesOnePlace`), two tags have different places (`PlacesDiffer`), and only a tag that
leaves a place before lowers it, so each departure hides one tag at most. What is built is
validated against that listing (`UpdateInv`).

`MistralDockProofs` proves for the composition, for all numbers of versions, edits, requests,
attempts, faults and for any tags and owners:

| Theorem | Statement |
|---|---|
| `RunsTheQueue` | `Spec => Queue!Spec` |
| `ProgramImplementsUpdate` | `Spec => ImplementsUpdate`, the refinement of `DocumentUpdate` |
| `TypeCorrectness` | `Spec => []TypeOK` |
| `RequestsAreRead` | `Spec => []RequestedVersionIsRead` |
| `RunsAccount` | `Spec => []RunsAccountForWrites` |
| `DocumentPromises` | content, edits, tags and writes, as proved of `DocumentUpdate`, in the composition |
| `QueuePromises` | agreement, budget, cycles and spacing, as proved of `JobQueue`, in the composition |

It instantiates the proof modules of both parts. First every step is a step of the queue or leaves
its tables alone, so `Queue!IInv` holds. With that, `StageInv` ties the attempt to the job: the
document is in an attempt exactly while its job is processing, the attempt runs exactly while the
worker does, and as many cycles were repeated as the tables say. From these two the refinement
follows step by step: a claim is a `Claim` with the attempt number that `DocumentUpdate` counts,
an outcome of the queue is the outcome of the attempt, a crash is a `CutOff` that leaves the job
stranded, a merged request is no step. Then the invariants of `DocumentUpdate` hold too, and
`DockInv`, which needs all three, gives the rest: `WantedIsRead` (once an attempt has read the
document it has read what the last request wanted) and `WritesHaveSenders` (requests applied,
under way and about to be sent are together at most the runs that sent one; a request that is
applied late was counted when it was sent).

All theorems rest on the named assumptions of the modules (settings satisfy the `ge=1` of
`config.py`; literals and bounds are numbers; there is a document; `QueueConstants` and
`UpdateConstants` of `MistralDock` are the assumptions of its parts for the constants it passes
on) and on nothing else. TLC evaluates each of them on the constants of the runs.

Only model-checked: liveness (`AcceptedDocumentsSettle`, `ShutdownCompletes`,
`TrackedFilesAreDeleted`, `ListingEnds`; fairness and `ENABLED` are out of the prover's reach)
and everything under `SpecWithRelease`, which is not the program as it is. Every other property that a passing run checks is a theorem.

## Not modelled

- Authentication, health, metrics: no state changes. (What the read-only runs endpoint answers is
  `ListRuns` of `ValidatedUpdate`.)
- Prompts and the response schema: constant texts.
- What the clients accept as a response: a response they refuse is a call that fails, retryably
  or not.
- Reading and writing PDF files and images: an unsupported or damaged file is an attempt that
  fails before any upload.
- The consolidation of the chunks' metadata: it succeeds or fails as part of the attempt.
- `next` links that form a cycle: Paperless numbers its pages.
- Database engine: a commit is one atomic step; SQLite in WAL mode behind one session per
  handler and one per iteration.
- Several processes on one database: the compose file runs one.
- What Paperless does inside a request. `DocumentUpdate` assumes that a PATCH is all or
  nothing, replaces the tag list, names the version whose content it replaces, and changes
  `modified`; an edit of the document's own fields changes `modified` too, while bulk edits of
  tags, changes of owner and uploads need not. `TagListing` assumes a listing ordered by name and cut
  into numbered pages anew at each request, and names that are unique per owner.

## Plan

Done: the queue and its abstract life cycle, remote files with chunking, the document's update,
the tag listing with validation, the composition, and proofs of all their safety properties and
refinements.

What is left:

1. `RunJobAgreement` and `ClosedRunsStayClosed` under `SpecWithRelease` as theorems: the invariant
   is `IInv` without `WaitingJobHasAttemptLeft`, and a release is one more way to save a row.
2. An abstract specification of a document update (read, then compare and write) that
   `DocumentUpdate` implements except for the window before the PATCH.
