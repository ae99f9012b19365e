--------------------------- MODULE DocumentUpdate ---------------------------
(***************************************************************************)
(* What one document lives through while MistralDock processes it: the     *)
(* reads and the PATCH of DocumentProcessor._process, attempt after        *)
(* attempt, interleaved at every await with users who edit the document,   *)
(* upload versions and manage tags in Paperless.                           *)
(*                                                                         *)
(* Paperless is external.  Nothing is assumed of it beyond what the code   *)
(* relies on; in particular only an edit of the document's own fields is   *)
(* sure to change `modified'.                                              *)
(***************************************************************************)
EXTENDS Integers, FiniteSets

CONSTANTS
    Tags,           \* ids of the tags of Paperless
    Owners,         \* ids of its users
    NoOwner,        \* owner null
    Names,          \* names of tags, those Mistral may propose
    NameOf,         \* the name of each tag
    MaxAttempts,
    MaxEdits,       \* bound: what users do
    MaxVersions,    \* bound: versions of the document
    MaxReprocesses  \* bound: calls of the reprocess endpoint

ASSUME DocumentConstants ==
    /\ NoOwner \notin Owners
    /\ NameOf \in [Tags -> Names]
    /\ MaxAttempts \in Nat \ {0} /\ MaxVersions \in Nat \ {0}
    /\ MaxEdits \in Nat /\ MaxReprocesses \in Nat

VARIABLES
    dryRun,     \* WRITE_MODE of the process is dry-run
    doc,        \* the document at Paperless
    text,       \* per version, the version its content was recognised from
    tagOwner,   \* owner of each tag that exists
    late,       \* PATCH requests whose answer was lost and that may still be applied
    pc,         \* where the job and its attempt are
    attempts,
    original, fresh,    \* PaperlessDocument of the two reads
    initialTags,    \* initial_tags: ids of the vocabulary, as far as it is listed
    currentTags,    \* current_tags, likewise
    content,        \* the version whose file was recognised
    payload,
    edits, reprocesses,     \* counters for the bounds
    editedWhileReading,     \* history: document changed between the two reads
    ownedSinceRead,     \* history: tags that were the owner's since the second read
    lost,       \* history: PATCHes without an answer, of this cycle or still late
    writes      \* history: PATCHes applied in this cycle

users == <<edits, editedWhileReading>>
paperless == <<doc, text, tagOwner>>
locals == <<original, fresh, initialTags, currentTags, content, payload>>
attempt == <<locals, ownedSinceRead>>
history == <<lost, writes, reprocesses>>
vars == <<dryRun, doc, text, tagOwner, late, pc, attempts, attempt, users, history>>

Versions == 1 .. MaxVersions
AnyOwner == Owners \union {NoOwner}
PaperlessDocument ==
    [version : Versions, modified : Nat, owner : AnyOwner, tags : SUBSET Tags]
NoDocument == [version |-> 1, modified |-> 0, owner |-> NoOwner, tags |-> {}]
Payload == [version : Versions, content : Versions, tags : SUBSET Tags]
NoPayload == [version |-> 1, content |-> 1, tags |-> {}]

Reading == {"listing", "ocr", "fresh"}
Running == {"get", "relisting", "patch"} \union Reading
Final == {"succeeded", "failed", "conflict"}

TypeOK ==
    /\ dryRun \in BOOLEAN
    /\ doc \in PaperlessDocument
    /\ text \in [1 .. doc.version -> 0 .. MaxVersions]
    /\ DOMAIN tagOwner \subseteq Tags /\ tagOwner \in [DOMAIN tagOwner -> AnyOwner]
    /\ late \subseteq Payload
    /\ pc \in {"waiting", "stranded"} \union Running \union Final
    /\ attempts \in 0 .. MaxAttempts
    /\ original \in PaperlessDocument /\ fresh \in PaperlessDocument
    /\ initialTags \subseteq Tags /\ currentTags \subseteq Tags
    /\ ownedSinceRead \subseteq Tags
    /\ content \in 0 .. MaxVersions
    /\ payload \in Payload
    /\ edits \in Nat /\ reprocesses \in Nat /\ lost \in Nat /\ writes \in Nat
    /\ editedWhileReading \in BOOLEAN

\* Tags have unique names per owner, as Paperless (external) guarantees.
UniqueNames(owned) ==
    \A s, t \in DOMAIN owned : owned[s] = owned[t] /\ NameOf[s] = NameOf[t] => s = t

Init ==
    /\ dryRun = TRUE
    /\ \E owner \in AnyOwner :
          doc = [version |-> 1, modified |-> 0, owner |-> owner, tags |-> {}]
    /\ text = [v \in {1} |-> 0]
    /\ \E existing \in SUBSET Tags : \E owned \in [existing -> AnyOwner] :
          UniqueNames(owned) /\ tagOwner = owned
    /\ late = {} /\ pc = "waiting" /\ attempts = 0
    /\ original = NoDocument /\ fresh = NoDocument
    /\ initialTags = {} /\ currentTags = {} /\ ownedSinceRead = {} /\ content = 0
    /\ payload = NoPayload
    /\ edits = 0 /\ reprocesses = 0 /\ editedWhileReading = FALSE
    /\ lost = 0 /\ writes = 0

-----------------------------------------------------------------------------
(* Paperless (external).                                                   *)

Existing == DOMAIN tagOwner

\* What a listing would find at this moment; without an owner there is none.
TagsForOwner(owner) ==
    IF owner = NoOwner THEN {} ELSE {t \in Existing : tagOwner[t] = owner}

\* One more page of list_tags merged into what is listed: some of the owner's tags, as
\* they are now.  Which ones are on it is TagListing's matter.  Two tags of one name
\* make the call fail.
AfterPage(listed, owner) ==
    {tags \in {listed \union page : page \in SUBSET TagsForOwner(owner)} :
        \A s, t \in tags : NameOf[s] = NameOf[t] => s = t}

\* PATCH is all or nothing, replaces the tags, and names the version whose
\* content it replaces.
Accepts(p) == p.tags \subseteq Existing
Applied(p) ==
    /\ doc' = [doc EXCEPT !.tags = p.tags, !.modified = @ + 1]
    /\ text' = [text EXCEPT ![p.version] = p.content]
    /\ writes' = writes + 1

\* A request given up by the client arrives after all.
LatePatch ==
    /\ \E p \in late : Accepts(p) /\ Applied(p) /\ late' = late \ {p}
    /\ UNCHANGED <<dryRun, tagOwner, pc, attempts, attempt, users, lost, reprocesses>>

LateLost ==
    /\ \E p \in late : late' = late \ {p}
    /\ UNCHANGED <<dryRun, paperless, pc, attempts, attempt, users, history>>

UserActs(changesDocument) ==
    /\ edits < MaxEdits /\ edits' = edits + 1
    /\ editedWhileReading' = (editedWhileReading \/ (changesDocument /\ pc \in Reading))
    /\ UNCHANGED <<dryRun, late, pc, attempts, locals, history>>
    /\ ownedSinceRead' = ownedSinceRead \union
                             IF pc = "relisting" THEN TagsForOwner(fresh.owner)' ELSE {}

\* The document's own fields; tags may be among them.
EditDocument ==
    /\ \E tags \in SUBSET Existing :
          doc' = [doc EXCEPT !.tags = tags, !.modified = @ + 1]
    /\ UNCHANGED <<text, tagOwner>>
    /\ UserActs(TRUE)

\* Bulk edit of tags: `modified' stays.
EditTags ==
    /\ \E tags \in SUBSET Existing : doc' = [doc EXCEPT !.tags = tags]
    /\ UNCHANGED <<text, tagOwner>>
    /\ UserActs(FALSE)

ChangeOwner ==
    /\ \E owner \in AnyOwner \ {doc.owner} : doc' = [doc EXCEPT !.owner = owner]
    /\ UNCHANGED <<text, tagOwner>>
    /\ UserActs(FALSE)

UploadVersion ==
    /\ doc.version < MaxVersions
    /\ doc' = [doc EXCEPT !.version = @ + 1]
    /\ text' = [v \in 1 .. doc.version + 1 |-> IF v \in DOMAIN text THEN text[v] ELSE 0]
    /\ UNCHANGED tagOwner
    /\ UserActs(TRUE)

\* Creating a tag, or giving it to another owner.
AssignTag ==
    /\ \E t \in Tags, owner \in AnyOwner :
          /\ tagOwner' = [s \in Existing \union {t} |-> IF s = t THEN owner ELSE tagOwner[s]]
          /\ UniqueNames(tagOwner')
    /\ UNCHANGED <<doc, text>>
    /\ UserActs(FALSE)

DeleteTag ==
    /\ \E t \in Existing :
          /\ tagOwner' = [s \in Existing \ {t} |-> tagOwner[s]]
          /\ doc' = [doc EXCEPT !.tags = @ \ {t}]
    /\ UNCHANGED text
    /\ UserActs(FALSE)

-----------------------------------------------------------------------------
(* The job, as far as the processor sees it: Worker.run_once's reaction to *)
(* the exceptions, and the reprocess endpoint.                             *)

\* Before an attempt the process may have been restarted in the other mode.
Claim ==
    /\ pc = "waiting"
    /\ pc' = "get" /\ attempts' = attempts + 1
    /\ dryRun' \in BOOLEAN
    /\ UNCHANGED <<paperless, late, attempt, users, history>>

\* The locals of _process are gone.
Leave ==
    /\ original' = NoDocument /\ fresh' = NoDocument
    /\ initialTags' = {} /\ currentTags' = {} /\ content' = 0 /\ payload' = NoPayload
    /\ ownedSinceRead' = {}

\* Faulty: the budget is not checked.
AlwaysRetry == "waiting"

\* RetryableProcessingError.
RetryOrFail == IF attempts < MaxAttempts THEN "waiting" ELSE "failed"

\* Any call of _process but the PATCH fails, retryably or for good: a status, a
\* lost answer, an unusable response, a wrong page count.
CallFails ==
    /\ pc \in Running \ {"patch"}
    /\ pc' \in {RetryOrFail, "failed"}
    /\ Leave
    /\ UNCHANGED <<dryRun, paperless, late, attempts, users, history>>

\* Whether the PATCH has left when the attempt is cut off, nobody knows.
PerhapsUnderWay ==
    \/ UNCHANGED <<late, lost>>
    \/ pc = "patch" /\ late' = late \union {payload} /\ lost' = lost + 1

\* The process or its worker task ends during the attempt.
CutOff ==
    /\ pc \in Running
    /\ PerhapsUnderWay
    /\ pc' = "stranded" /\ Leave
    /\ UNCHANGED <<dryRun, paperless, attempts, users, writes, reprocesses>>

\* A final job starts over; an active one is merely reported.
Reprocess ==
    /\ reprocesses < MaxReprocesses /\ reprocesses' = reprocesses + 1
    /\ IF pc \in Final
       THEN pc' = "waiting" /\ attempts' = 0 /\ lost' = Cardinality(late) /\ writes' = 0
       ELSE UNCHANGED <<pc, attempts, lost, writes>>
    /\ UNCHANGED <<dryRun, paperless, late, attempt, users>>

-----------------------------------------------------------------------------
(* DocumentProcessor._process, one step per await.                         *)

GetOriginal ==
    /\ pc = "get"
    /\ original' = doc /\ pc' = "listing"
    /\ editedWhileReading' = FALSE
    /\ UNCHANGED <<dryRun, paperless, late, attempts, fresh, initialTags, currentTags, content,
                   payload, ownedSinceRead, edits, history>>

\* A page of the vocabulary, perhaps the last.
ListInitialTags ==
    /\ pc = "listing"
    /\ initialTags' \in AfterPage(initialTags, original.owner)
    /\ pc' \in {"listing", "ocr"}
    /\ UNCHANGED <<dryRun, paperless, late, attempts, original, fresh, currentTags, content,
                   payload, ownedSinceRead, users, history>>

\* The file of the version that was read first is downloaded, its chunks are
\* recognised and their metadata consolidated; what this yields does not depend
\* on when it happens, so the awaits are one step.
Recognise ==
    /\ pc = "ocr"
    /\ content' = original.version /\ pc' = "fresh"
    /\ UNCHANGED <<dryRun, paperless, late, attempts, original, fresh, initialTags,
                   currentTags, payload, ownedSinceRead, users, history>>

\* Faulty: the time stamp alone is compared.
ModifiedLater == doc.modified # original.modified

\* Faulty: the time stamp is not compared.
MovedOn == doc.version # original.version \/ doc.owner # original.owner

Changed ==
    \/ doc.version # original.version
    \/ doc.modified # original.modified
    \/ doc.owner # original.owner

GetFresh ==
    /\ pc = "fresh"
    /\ fresh' = doc /\ ~Changed
    /\ pc' = "relisting"
    /\ ownedSinceRead' = TagsForOwner(doc.owner)
    /\ UNCHANGED <<dryRun, paperless, late, attempts, original, initialTags, currentTags,
                   content, payload, users, history>>

\* ProcessResult(JobState.CONFLICT).
Conflict ==
    /\ pc = "fresh"
    /\ Changed
    /\ pc' = "conflict" /\ Leave
    /\ UNCHANGED <<dryRun, paperless, late, attempts, users, history>>

\* Faulty: the tags of the first read are kept instead of the second's.
TagsOfFirstRead(proposed, tagIds) ==
    original.tags \union {t \in tagIds : NameOf[t] \in proposed}

\* Faulty: the vocabulary of the prompt validates the answer.
MergedWithVocabulary(proposed, tagIds) ==
    fresh.tags \union {t \in initialTags : NameOf[t] \in proposed}

\* Known names among the proposals, and what the document has.
MergedTags(proposed, tagIds) == fresh.tags \union {t \in tagIds : NameOf[t] \in proposed}

\* Every page of the second listing but the last.
ListCurrentTags ==
    /\ pc = "relisting"
    /\ currentTags' \in AfterPage(currentTags, fresh.owner)
    /\ UNCHANGED <<dryRun, paperless, late, pc, attempts, original, fresh, initialTags, content,
                   payload, ownedSinceRead, users, history>>

Live == ~dryRun

\* The last page and, with no await in between, build_validated_update and the test
\* of the write mode; Mistral proposes whatever names it likes.
ValidateUpdate ==
    /\ pc = "relisting" /\ Live
    /\ currentTags' \in AfterPage(currentTags, fresh.owner)
    /\ \E proposed \in SUBSET Names :
          payload' = [version |-> fresh.version, content |-> content,
                      tags |-> MergedTags(proposed, currentTags')]
    /\ pc' = "patch"
    /\ UNCHANGED <<dryRun, paperless, late, attempts, original, fresh, initialTags, content,
                   ownedSinceRead, users, history>>

\* The same in dry-run mode: the proposal is recorded with the run.
ReportProposal ==
    /\ pc = "relisting" /\ ~Live
    /\ pc' = "succeeded" /\ Leave
    /\ UNCHANGED <<dryRun, paperless, late, attempts, users, history>>

PatchAnswered ==
    /\ pc = "patch" /\ Accepts(payload)
    /\ Applied(payload) /\ pc' = "succeeded" /\ Leave
    /\ UNCHANGED <<dryRun, tagOwner, late, attempts, users, lost, reprocesses>>

\* Faulty: the status of the answer is not looked at.
RefusedUnnoticed == {"succeeded"}

\* 4xx fails the job, 429 and 5xx are tried again.
Refused == {"failed", RetryOrFail}

PatchRefused ==
    /\ pc = "patch"
    /\ pc' \in Refused /\ Leave
    /\ UNCHANGED <<dryRun, paperless, late, attempts, users, history>>

\* A transport error, or a gateway's 5xx: applied or not, now or later, the
\* attempt is retried.
PatchLost ==
    /\ pc = "patch"
    /\ late' = late \union {payload}
    /\ lost' = lost + 1
    /\ pc' = RetryOrFail /\ Leave
    /\ UNCHANGED <<dryRun, paperless, attempts, users, writes, reprocesses>>

ListTags == ListInitialTags \/ ListCurrentTags

Processor ==
    \/ GetOriginal
    \/ ListTags
    \/ Recognise
    \/ GetFresh
    \/ Conflict
    \/ ValidateUpdate
    \/ ReportProposal
    \/ PatchAnswered
    \/ PatchRefused
    \/ PatchLost

Users ==
    \/ EditDocument
    \/ EditTags
    \/ ChangeOwner
    \/ UploadVersion
    \/ AssignTag
    \/ DeleteTag

Next == Processor \/ Users \/ Claim \/ CallFails \/ CutOff \/ Reprocess \/ LatePatch \/ LateLost

Spec == Init /\ [][Next]_vars

-----------------------------------------------------------------------------
(* Safety.                                                                  *)

\* The content of a version was recognised from that version's file, through
\* uploads during an attempt, retries, and requests that arrive late.
ContentOfVersion == \A v \in DOMAIN text : text[v] \in {0, v}

\* An attempt that goes on to write has read a document nobody edited, and no
\* one uploaded a version of, between its two reads.
NoWriteAfterAnEdit == pc \in {"relisting", "patch"} => ~editedWhileReading

\* A tag the document had at the second read and still has, the answered PATCH
\* keeps, although bulk edits of tags during the attempt go unnoticed.
PatchKeepsTags ==
    [][pc = "patch" /\ pc' = "succeeded" => doc.tags \intersect fresh.tags \subseteq doc'.tags]_vars

\* A PATCH adds only tags that, at some moment since the second read, existed and
\* were the document's owner's: a tag of the first listing that was deleted or handed
\* over in the meantime, however long the recognition took, is not added.
AddedTagsWereStillTheOwners ==
    pc = "patch" => payload.tags \ fresh.tags \subseteq ownedSinceRead

\* The document is written once per cycle, by the attempt that reports success,
\* and otherwise only by a PATCH whose answer was lost: a refused PATCH, a
\* conflict or a failed read leaves it alone.  In dry-run mode nothing is written.
WritesAreAccountedFor ==
    LET reported == IF pc = "succeeded" /\ ~dryRun THEN 1 ELSE 0
    IN  writes \in reported .. reported + lost

-----------------------------------------------------------------------------
(* What the documents say and the code does not do.                        *)

\* Design, "Validierung und Paperless-Update": no existing tag is removed.
ExistingTagsAreKept ==
    [][writes' > writes => doc.tags \subseteq doc'.tags]_vars

\* Design, "Zustandsmodell": an uncertain PATCH is verified by a GET and then
\* counts as a success or a conflict; nothing is written again blindly.
UncertainPatchIsNotRepeated == lost > 0 => pc # "patch"
=============================================================================
