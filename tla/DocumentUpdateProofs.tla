------------------------- MODULE DocumentUpdateProofs -------------------------
(***************************************************************************)
(* Theorems about DocumentUpdate, for all tags, owners, names and bounds.  *)
(***************************************************************************)
EXTENDS DocumentUpdate, FiniteSetTheorems, TLAPS

\* A job that waits has an attempt left.
AttemptsLeft == pc = "waiting" => attempts < MaxAttempts

\* The second read has found the version and the owner that the first one found,
\* and the content was recognised from that version's file.
ReadsAgree ==
    /\ pc \in {"fresh", "relisting"} => content = original.version
    /\ pc = "relisting" => fresh.version = original.version /\ fresh.owner = original.owner

\* A PATCH, sent or still under way, carries the content of the version it names.
RequestsNameTheirVersion ==
    \A p \in late \union {payload} : p.version = p.content

\* Since the first read, version and time stamp have only grown, and an edit has
\* made one of them grow.
EditsLeaveATrace ==
    pc \in Reading =>
        /\ doc.version >= original.version /\ doc.modified >= original.modified
        /\ editedWhileReading =>
              doc.version # original.version \/ doc.modified # original.modified

\* The tag list that is sent has the tags of the second read.
PayloadHasTags == pc = "patch" => fresh.tags \subseteq payload.tags

IInv ==
    /\ TypeOK /\ IsFiniteSet(late)
    /\ AttemptsLeft
    /\ ReadsAgree
    /\ RequestsNameTheirVersion
    /\ ContentOfVersion
    /\ EditsLeaveATrace
    /\ NoWriteAfterAnEdit
    /\ PayloadHasTags

\* The parts that speak of Paperless, of requests, and of the attempt.
PaperlessInv ==
    /\ doc \in PaperlessDocument
    /\ text \in [1 .. doc.version -> 0 .. MaxVersions]
    /\ DOMAIN tagOwner \subseteq Tags /\ tagOwner \in [DOMAIN tagOwner -> AnyOwner]
    /\ ContentOfVersion

RequestInv ==
    /\ late \subseteq Payload /\ payload \in Payload /\ IsFiniteSet(late)
    /\ RequestsNameTheirVersion

CountersInv ==
    /\ dryRun \in BOOLEAN /\ editedWhileReading \in BOOLEAN
    /\ attempts \in 0 .. MaxAttempts
    /\ edits \in Nat /\ reprocesses \in Nat /\ lost \in Nat /\ writes \in Nat

ReadsInv ==
    /\ original \in PaperlessDocument /\ fresh \in PaperlessDocument
    /\ initialTags \subseteq Tags /\ currentTags \subseteq Tags
    /\ ownedSinceRead \subseteq Tags /\ content \in 0 .. MaxVersions
    /\ pc \in {"waiting", "stranded"} \union Running \union Final

AttemptInv == AttemptsLeft /\ ReadsAgree /\ EditsLeaveATrace /\ NoWriteAfterAnEdit /\ PayloadHasTags

-----------------------------------------------------------------------------
LEMMA Constants ==
  /\ 1 \in Versions /\ NoOwner \in AnyOwner
  /\ NoDocument \in PaperlessDocument /\ NoPayload \in Payload
BY DocumentConstants DEF Versions, AnyOwner, NoDocument, NoPayload, PaperlessDocument, Payload

LEMMA DocumentFields ==
  ASSUME NEW d \in PaperlessDocument
  PROVE  /\ d.version \in Versions /\ d.modified \in Nat
         /\ d.owner \in AnyOwner /\ d.tags \subseteq Tags
BY DEF PaperlessDocument

\* A page brings tags of the owner.
LEMMA PageOfTheOwner ==
  ASSUME PaperlessInv, NEW listed, NEW owner, NEW tags \in AfterPage(listed, owner)
  PROVE  /\ tags \subseteq listed \union TagsForOwner(owner)
         /\ TagsForOwner(owner) \subseteq Tags
BY DEF AfterPage, TagsForOwner, Existing, PaperlessInv

LEMMA PartsOfIInv ==
  IInv <=> PaperlessInv /\ RequestInv /\ CountersInv /\ ReadsInv /\ AttemptInv
BY DEF IInv, TypeOK, PaperlessInv, RequestInv, CountersInv, ReadsInv, AttemptInv

LEMMA PartsOfIInvNext ==
  PaperlessInv' /\ RequestInv' /\ CountersInv' /\ ReadsInv' /\ AttemptInv' => IInv'
BY DEF IInv, TypeOK, PaperlessInv, RequestInv, CountersInv, ReadsInv, AttemptInv

LEMMA InitEstablishesIInv == Init => IInv
<1> SUFFICES ASSUME Init PROVE IInv
  OBVIOUS
<1>1. doc \in PaperlessDocument /\ doc.version = 1
  BY Constants DEF Init, PaperlessDocument
<1>2. text \in [1 .. 1 -> 0 .. MaxVersions] /\ \A v \in DOMAIN text : text[v] = 0
  BY DocumentConstants DEF Init
<1>3. DOMAIN tagOwner \subseteq Tags /\ tagOwner \in [DOMAIN tagOwner -> AnyOwner]
  BY DEF Init
<1>4. attempts \in 0 .. MaxAttempts /\ content \in 0 .. MaxVersions /\ attempts < MaxAttempts
  BY DocumentConstants DEF Init
<1>5. TypeOK
  BY <1>1, <1>2, <1>3, <1>4, Constants DEF Init, TypeOK, Running
<1>6. IsFiniteSet(late)
  BY FS_EmptySet DEF Init
<1>7. RequestsNameTheirVersion
  BY DEF Init, RequestsNameTheirVersion, NoPayload
<1>8. ContentOfVersion
  BY <1>2 DEF ContentOfVersion
<1>9. AttemptInv
  BY <1>4 DEF Init, AttemptInv, AttemptsLeft, ReadsAgree, EditsLeaveATrace,
     NoWriteAfterAnEdit, PayloadHasTags, Reading
<1> QED
  BY <1>5, <1>6, <1>7, <1>8, <1>9 DEF IInv, AttemptInv

-----------------------------------------------------------------------------
(* Paperless and its users.                                                *)

\* A PATCH that Paperless applies keeps the versions, and puts the content of the
\* version it names where it belongs, or nowhere.
LEMMA AppliedRequest ==
  ASSUME PaperlessInv, NEW p \in Payload, p.version = p.content, Applied(p)
  PROVE  /\ UNCHANGED tagOwner => PaperlessInv'
         /\ doc'.version = doc.version /\ doc'.modified = doc.modified + 1
         /\ doc'.tags = p.tags
<1>1. PICK at \in Nat : at = doc.modified + 1
  BY DocumentFields DEF PaperlessInv
<1>2. PICK tags \in SUBSET Tags : tags = p.tags
  BY DEF Payload
<1>3. doc \in PaperlessDocument /\ doc' = [doc EXCEPT !.tags = tags, !.modified = at]
  BY <1>1, <1>2 DEF PaperlessInv, Applied
<1>4. /\ doc' \in PaperlessDocument
      /\ doc'.version = doc.version /\ doc'.modified = at /\ doc'.tags = tags
  BY <1>3 DEF PaperlessDocument
<1>5. /\ text \in [1 .. doc.version -> 0 .. MaxVersions]
      /\ text' = [text EXCEPT ![p.version] = p.content]
      /\ \A v \in DOMAIN text : text[v] \in {0, v}
  BY DEF PaperlessInv, Applied, ContentOfVersion
<1>6. p.content \in 0 .. MaxVersions
  BY DEF Payload, Versions
<1>7. text' \in [1 .. doc.version -> 0 .. MaxVersions]
  BY <1>5, <1>6
<1>8. ContentOfVersion'
  BY <1>5 DEF ContentOfVersion
<1> QED
  BY <1>1, <1>2, <1>4, <1>7, <1>8 DEF PaperlessInv

\* What users change leaves a trace when it is an edit of the document's fields.
LEMMA UserActsKeepsIInv ==
  ASSUME IInv, PaperlessInv',
         UserActs(TRUE) \/ UserActs(FALSE),
         doc'.version >= doc.version, doc'.modified >= doc.modified,
         UserActs(FALSE) \/ doc'.version > doc.version \/ doc'.modified > doc.modified
  PROVE  IInv'
<1>1. /\ UNCHANGED <<dryRun, late, pc, attempts, original, fresh, initialTags, currentTags,
                     content, payload, reprocesses, lost, writes>>
      /\ edits' = edits + 1 /\ editedWhileReading' \in BOOLEAN
  BY PartsOfIInv DEF UserActs, locals, history, CountersInv
<1>2. /\ editedWhileReading' /\ ~editedWhileReading => pc \in Reading
      /\ editedWhileReading' /\ ~editedWhileReading =>
            doc'.version > doc.version \/ doc'.modified > doc.modified
      /\ UNCHANGED <<pc, attempts, original, fresh, content, payload>>
  BY DEF UserActs, locals
<1>7. ownedSinceRead' \subseteq Tags
  <2>1. ownedSinceRead \subseteq Tags /\ TagsForOwner(fresh.owner)' \subseteq Tags
    BY PartsOfIInv DEF ReadsInv, PaperlessInv, TagsForOwner, Existing
  <2> QED
    BY <2>1 DEF UserActs
<1>6. RequestInv' /\ CountersInv' /\ ReadsInv'
  BY <1>1, <1>7, PartsOfIInv DEF RequestInv, CountersInv, ReadsInv, RequestsNameTheirVersion
<1>3. AttemptsLeft' /\ ReadsAgree' /\ PayloadHasTags'
  BY <1>2 DEF IInv, AttemptsLeft, ReadsAgree, PayloadHasTags
<1>4. NoWriteAfterAnEdit'
  BY <1>2 DEF IInv, NoWriteAfterAnEdit, Reading
<1>5. EditsLeaveATrace'
  <2> SUFFICES ASSUME pc \in Reading
               PROVE  /\ doc'.version >= original.version /\ doc'.modified >= original.modified
                      /\ editedWhileReading' => doc'.version # original.version
                                             \/ doc'.modified # original.modified
    BY <1>2 DEF EditsLeaveATrace
  <2>1. /\ doc.version >= original.version /\ doc.modified >= original.modified
        /\ editedWhileReading => doc.version # original.version
                              \/ doc.modified # original.modified
    BY DEF IInv, EditsLeaveATrace
  <2>2. /\ original.version \in Nat /\ original.modified \in Nat
        /\ doc.version \in Nat /\ doc.modified \in Nat
        /\ doc'.version \in Nat /\ doc'.modified \in Nat
    BY PartsOfIInv, DocumentFields, DocumentConstants DEF PaperlessInv, ReadsInv, Versions
  <2> QED
    BY <1>2, <2>1, <2>2
<1> QED
  BY <1>3, <1>4, <1>5, <1>6, PartsOfIInvNext DEF AttemptInv

LEMMA UsersKeepIInv ==
  ASSUME IInv, Users
  PROVE  IInv'
<1>1. /\ doc \in PaperlessDocument
      /\ text \in [1 .. doc.version -> 0 .. MaxVersions]
      /\ DOMAIN tagOwner \subseteq Tags /\ tagOwner \in [DOMAIN tagOwner -> AnyOwner]
      /\ \A v \in DOMAIN text : text[v] \in {0, v}
  BY PartsOfIInv DEF PaperlessInv, ContentOfVersion
<1>2. doc.version \in 1 .. MaxVersions /\ doc.modified \in Nat /\ doc.tags \subseteq Tags
  BY <1>1, DocumentFields DEF Versions
<1>3. CASE EditDocument
  <2>1. PICK tags \in SUBSET Tags : doc' = [doc EXCEPT !.tags = tags, !.modified = @ + 1]
    BY <1>1, <1>3 DEF EditDocument, Existing
  <2>2. PICK at \in Nat : at = doc.modified + 1
    BY <1>2
  <2>3. doc' = [doc EXCEPT !.tags = tags, !.modified = at]
    BY <2>1, <2>2
  <2>4. doc' \in PaperlessDocument /\ doc'.version = doc.version /\ doc'.modified = at
    BY <1>1, <2>3 DEF PaperlessDocument
  <2>5. PaperlessInv'
    BY <1>1, <1>3, <2>4 DEF EditDocument, PaperlessInv, ContentOfVersion
  <2>6. /\ doc'.version >= doc.version /\ doc'.modified >= doc.modified
        /\ doc'.modified > doc.modified
    BY <1>2, <2>2, <2>4
  <2>7. UserActs(TRUE)
    BY <1>3 DEF EditDocument
  <2> QED
    BY <2>5, <2>6, <2>7, UserActsKeepsIInv
<1>4. CASE EditTags
  <2>1. PICK tags \in SUBSET Tags : doc' = [doc EXCEPT !.tags = tags]
    BY <1>1, <1>4 DEF EditTags, Existing
  <2>2. doc' \in PaperlessDocument /\ doc'.version = doc.version /\ doc'.modified = doc.modified
    BY <1>1, <2>1 DEF PaperlessDocument
  <2>3. PaperlessInv'
    BY <1>1, <1>4, <2>2 DEF EditTags, PaperlessInv, ContentOfVersion
  <2> QED
    BY <1>2, <1>4, <2>2, <2>3, UserActsKeepsIInv DEF EditTags
<1>5. CASE ChangeOwner
  <2>1. PICK owner \in AnyOwner : doc' = [doc EXCEPT !.owner = owner]
    BY <1>5 DEF ChangeOwner
  <2>2. doc' \in PaperlessDocument /\ doc'.version = doc.version /\ doc'.modified = doc.modified
    BY <1>1, <2>1 DEF PaperlessDocument
  <2>3. PaperlessInv'
    BY <1>1, <1>5, <2>2 DEF ChangeOwner, PaperlessInv, ContentOfVersion
  <2> QED
    BY <1>2, <1>5, <2>2, <2>3, UserActsKeepsIInv DEF ChangeOwner
<1>6. CASE UploadVersion
  <2>1. PICK new \in 1 .. MaxVersions : new = doc.version + 1
    BY <1>2, <1>6, DocumentConstants DEF UploadVersion
  <2>2. doc' = [doc EXCEPT !.version = new]
    BY <1>6, <2>1 DEF UploadVersion
  <2>3. doc' \in PaperlessDocument /\ doc'.version = new /\ doc'.modified = doc.modified
    BY <1>1, <2>2, <2>1 DEF PaperlessDocument, Versions
  <2>4. text' = [v \in 1 .. new |-> IF v \in DOMAIN text THEN text[v] ELSE 0]
    BY <1>6, <2>1 DEF UploadVersion
  <2>5. text' \in [1 .. new -> 0 .. MaxVersions] /\ \A v \in DOMAIN text' : text'[v] \in {0, v}
    BY <1>1, <2>4, DocumentConstants
  <2>6. PaperlessInv'
    BY <1>1, <1>6, <2>3, <2>5 DEF UploadVersion, PaperlessInv, ContentOfVersion
  <2>7. /\ doc'.version >= doc.version /\ doc'.modified >= doc.modified
        /\ doc'.version > doc.version
    BY <1>2, <2>1, <2>3
  <2>8. UserActs(TRUE)
    BY <1>6 DEF UploadVersion
  <2> QED
    BY <2>6, <2>7, <2>8, UserActsKeepsIInv
<1>7. CASE AssignTag
  <2>1. PICK t \in Tags, owner \in AnyOwner :
           tagOwner' = [s \in DOMAIN tagOwner \union {t} |-> IF s = t THEN owner ELSE tagOwner[s]]
    BY <1>7 DEF AssignTag, Existing
  <2>2. DOMAIN tagOwner' \subseteq Tags /\ tagOwner' \in [DOMAIN tagOwner' -> AnyOwner]
    BY <1>1, <2>1
  <2>3. PaperlessInv'
    BY <1>1, <1>7, <2>2 DEF AssignTag, PaperlessInv, ContentOfVersion
  <2> QED
    BY <1>2, <1>7, <2>3, UserActsKeepsIInv DEF AssignTag
<1>8. CASE DeleteTag
  <2>1. PICK t \in Existing : /\ tagOwner' = [s \in DOMAIN tagOwner \ {t} |-> tagOwner[s]]
                              /\ doc' = [doc EXCEPT !.tags = @ \ {t}]
    BY <1>8 DEF DeleteTag, Existing
  <2>2. PICK tags \in SUBSET Tags : tags = doc.tags \ {t}
    BY <1>2
  <2>3. doc' = [doc EXCEPT !.tags = tags]
    BY <2>1, <2>2
  <2>4. doc' \in PaperlessDocument /\ doc'.version = doc.version /\ doc'.modified = doc.modified
    BY <1>1, <2>3 DEF PaperlessDocument
  <2>5. DOMAIN tagOwner' \subseteq Tags /\ tagOwner' \in [DOMAIN tagOwner' -> AnyOwner]
    BY <1>1, <2>1
  <2>6. PaperlessInv'
    BY <1>1, <1>8, <2>4, <2>5 DEF DeleteTag, PaperlessInv, ContentOfVersion
  <2> QED
    BY <1>2, <1>8, <2>4, <2>6, UserActsKeepsIInv DEF DeleteTag
<1> QED
  BY <1>3, <1>4, <1>5, <1>6, <1>7, <1>8 DEF Users

-----------------------------------------------------------------------------
(* The attempt and the job.                                                *)

\* An attempt that ends leaves nothing behind but, perhaps, its request.
LEMMA LeaveKeepsIInv ==
  ASSUME IInv, PaperlessInv', Leave,
         UNCHANGED <<dryRun, attempts, edits, editedWhileReading, reprocesses>>,
         late' = late \/ late' = late \union {payload},
         lost' \in Nat, writes' \in Nat,
         pc' \in {"waiting", "stranded"} \union Final, AttemptsLeft'
  PROVE  IInv'
<1>1. RequestInv'
  <2>1. late' \subseteq Payload /\ payload' \in Payload
    BY PartsOfIInv, Constants DEF RequestInv, Leave
  <2>2. IsFiniteSet(late')
    BY PartsOfIInv, FS_AddElement DEF RequestInv
  <2>3. RequestsNameTheirVersion'
    BY PartsOfIInv DEF RequestInv, RequestsNameTheirVersion, Leave, NoPayload
  <2> QED
    BY <2>1, <2>2, <2>3 DEF RequestInv
<1>2. CountersInv'
  BY PartsOfIInv DEF CountersInv
<1>3. ReadsInv'
  BY Constants, DocumentConstants DEF ReadsInv, Leave
<1>4. AttemptInv'
  BY DEF AttemptInv, ReadsAgree, EditsLeaveATrace, NoWriteAfterAnEdit, PayloadHasTags,
     Reading, Final
<1> QED
  BY <1>1, <1>2, <1>3, <1>4, PartsOfIInvNext

LEMMA ProcessorKeepsIInv ==
  ASSUME IInv, Processor
  PROVE  IInv'
<1> USE DEF paperless, history, users
<1>1. /\ PaperlessInv /\ RequestInv /\ CountersInv /\ ReadsInv /\ AttemptInv
      /\ AttemptsLeft /\ ReadsAgree /\ EditsLeaveATrace /\ NoWriteAfterAnEdit /\ PayloadHasTags
  BY PartsOfIInv DEF AttemptInv
<1>2. UNCHANGED paperless => PaperlessInv'
  BY <1>1 DEF PaperlessInv, ContentOfVersion
<1>3. RetryOrFail \in {"waiting", "failed"} /\ (RetryOrFail = "waiting" => attempts < MaxAttempts)
  BY DEF RetryOrFail
<1>4. CASE GetOriginal
  <2>1. RequestInv' /\ CountersInv'
    BY <1>1, <1>4 DEF GetOriginal, RequestInv, CountersInv, RequestsNameTheirVersion
  <2>2. ReadsInv'
    BY <1>1, <1>4 DEF GetOriginal, ReadsInv, PaperlessInv, Running, Reading
  <2>3. doc.version \in Nat /\ doc.modified \in Nat
    BY <1>1, DocumentFields DEF PaperlessInv, Versions
  <2>4. AttemptInv'
    BY <1>4, <2>3 DEF GetOriginal, AttemptInv, AttemptsLeft, ReadsAgree, EditsLeaveATrace,
       NoWriteAfterAnEdit, PayloadHasTags
  <2> QED
    BY <1>2, <1>4, <2>1, <2>2, <2>4, PartsOfIInvNext DEF GetOriginal
<1>5. CASE ListInitialTags
  <2>1. RequestInv' /\ CountersInv'
    BY <1>1, <1>5 DEF ListInitialTags, RequestInv, CountersInv, RequestsNameTheirVersion
  <2>2. initialTags' \subseteq Tags
    BY <1>1, <1>5, PageOfTheOwner DEF ListInitialTags, ReadsInv
  <2>3. ReadsInv'
    BY <1>1, <1>5, <2>2 DEF ListInitialTags, ReadsInv, Running, Reading
  <2>4. AttemptInv'
    BY <1>1, <1>5 DEF ListInitialTags, AttemptInv, AttemptsLeft, ReadsAgree, EditsLeaveATrace,
       NoWriteAfterAnEdit, PayloadHasTags, Reading
  <2> QED
    BY <1>2, <1>5, <2>1, <2>3, <2>4, PartsOfIInvNext DEF ListInitialTags
<1>6. CASE Recognise
  <2>1. RequestInv' /\ CountersInv'
    BY <1>1, <1>6 DEF Recognise, RequestInv, CountersInv, RequestsNameTheirVersion
  <2>2. original.version \in 0 .. MaxVersions
    BY <1>1, DocumentFields, DocumentConstants DEF ReadsInv, Versions
  <2>3. ReadsInv'
    BY <1>1, <1>6, <2>2 DEF Recognise, ReadsInv, Running, Reading
  <2>4. AttemptInv'
    BY <1>1, <1>6 DEF Recognise, AttemptInv, AttemptsLeft, ReadsAgree, EditsLeaveATrace,
       NoWriteAfterAnEdit, PayloadHasTags, Reading
  <2> QED
    BY <1>2, <1>6, <2>1, <2>3, <2>4, PartsOfIInvNext DEF Recognise
<1>7. CASE GetFresh
  <2>1. RequestInv' /\ CountersInv'
    BY <1>1, <1>7 DEF GetFresh, RequestInv, CountersInv, RequestsNameTheirVersion
  <2>2. ReadsInv'
    BY <1>1, <1>7 DEF GetFresh, ReadsInv, PaperlessInv, TagsForOwner, Existing, Running
  <2>3. ~editedWhileReading
    BY <1>1, <1>7 DEF GetFresh, Changed, EditsLeaveATrace, Reading
  <2>4. AttemptInv'
    BY <1>1, <1>7, <2>3 DEF GetFresh, Changed, AttemptInv, AttemptsLeft, ReadsAgree,
       EditsLeaveATrace, NoWriteAfterAnEdit, PayloadHasTags, Reading
  <2> QED
    BY <1>2, <1>7, <2>1, <2>2, <2>4, PartsOfIInvNext DEF GetFresh
<1>8. CASE Conflict
  <2>1. AttemptsLeft'
    BY <1>8 DEF Conflict, AttemptsLeft
  <2> QED
    BY <1>1, <1>2, <1>8, <2>1, LeaveKeepsIInv DEF Conflict, CountersInv, Final
<1>9. CASE ValidateUpdate
  <2>1. PICK proposed \in SUBSET Names :
           payload' = [version |-> fresh.version, content |-> content,
                       tags |-> MergedTags(proposed, currentTags')]
    BY <1>9 DEF ValidateUpdate
  <2>2. fresh.version \in Versions /\ fresh.tags \subseteq Tags /\ content = fresh.version
    BY <1>1, <1>9, DocumentFields DEF ValidateUpdate, ReadsInv, ReadsAgree
  <2>8. currentTags' \subseteq Tags
    BY <1>1, <1>9, PageOfTheOwner DEF ValidateUpdate, ReadsInv
  <2>3. fresh.tags \subseteq MergedTags(proposed, currentTags')
        /\ MergedTags(proposed, currentTags') \subseteq Tags
    BY <2>2, <2>8 DEF MergedTags
  <2>4. /\ payload' \in Payload /\ payload'.version = payload'.content
        /\ fresh.tags \subseteq payload'.tags
    BY <2>1, <2>2, <2>3 DEF Payload
  <2>5. RequestInv' /\ CountersInv'
    BY <1>1, <1>9, <2>4 DEF ValidateUpdate, RequestInv, CountersInv, RequestsNameTheirVersion
  <2>6. ReadsInv'
    BY <1>1, <1>9, <2>8 DEF ValidateUpdate, ReadsInv, Running
  <2>7. AttemptInv'
    BY <1>1, <1>9, <2>4 DEF ValidateUpdate, AttemptInv, AttemptsLeft, ReadsAgree,
       EditsLeaveATrace, NoWriteAfterAnEdit, PayloadHasTags, Reading
  <2> QED
    BY <1>2, <1>9, <2>5, <2>6, <2>7, PartsOfIInvNext DEF ValidateUpdate
<1>10. CASE ReportProposal
  <2>1. AttemptsLeft'
    BY <1>10 DEF ReportProposal, AttemptsLeft
  <2> QED
    BY <1>1, <1>2, <1>10, <2>1, LeaveKeepsIInv DEF ReportProposal, CountersInv, Final
<1>11. CASE PatchAnswered
  <2>1. Applied(payload) /\ UNCHANGED tagOwner
    BY <1>11 DEF PatchAnswered
  <2>2. payload \in Payload /\ payload.version = payload.content
    BY <1>1 DEF RequestInv, RequestsNameTheirVersion
  <2>3. PaperlessInv'
    BY <1>1, <2>1, <2>2, AppliedRequest
  <2>4. writes' \in Nat /\ AttemptsLeft'
    BY <1>1, <1>11, <2>1 DEF PatchAnswered, Applied, CountersInv, AttemptsLeft
  <2> QED
    BY <1>1, <1>11, <2>3, <2>4, LeaveKeepsIInv DEF PatchAnswered, CountersInv, Final
<1>12. CASE PatchRefused
  <2>1. pc' \in {"waiting", "failed"} /\ AttemptsLeft'
    BY <1>3, <1>12 DEF PatchRefused, Refused, AttemptsLeft
  <2> QED
    BY <1>1, <1>2, <1>12, <2>1, LeaveKeepsIInv DEF PatchRefused, CountersInv, Final
<1>13. CASE PatchLost
  <2>1. pc' \in {"waiting", "failed"} /\ AttemptsLeft'
    BY <1>3, <1>13 DEF PatchLost, AttemptsLeft
  <2>2. lost' \in Nat /\ writes' \in Nat
    BY <1>1, <1>13 DEF PatchLost, CountersInv
  <2> QED
    BY <1>2, <1>13, <2>1, <2>2, LeaveKeepsIInv DEF PatchLost, Final
<1>14. CASE ListCurrentTags
  <2>1. RequestInv' /\ CountersInv'
    BY <1>1, <1>14 DEF ListCurrentTags, RequestInv, CountersInv, RequestsNameTheirVersion
  <2>2. currentTags' \subseteq Tags
    BY <1>1, <1>14, PageOfTheOwner DEF ListCurrentTags, ReadsInv
  <2>3. ReadsInv'
    BY <1>1, <1>14, <2>2 DEF ListCurrentTags, ReadsInv
  <2>4. AttemptInv'
    BY <1>1, <1>14 DEF ListCurrentTags, AttemptInv, AttemptsLeft, ReadsAgree, EditsLeaveATrace,
       NoWriteAfterAnEdit, PayloadHasTags, Reading
  <2> QED
    BY <1>2, <1>14, <2>1, <2>3, <2>4, PartsOfIInvNext DEF ListCurrentTags
<1> QED
  BY <1>4, <1>5, <1>6, <1>7, <1>8, <1>9, <1>10, <1>11, <1>12, <1>13, <1>14 DEF Processor, ListTags

LEMMA JobKeepsIInv ==
  ASSUME IInv, Claim \/ CallFails \/ CutOff \/ Reprocess
  PROVE  IInv'
<1> USE DEF paperless, history, users
<1>1. /\ PaperlessInv /\ RequestInv /\ CountersInv /\ ReadsInv /\ AttemptInv
      /\ AttemptsLeft /\ ReadsAgree /\ EditsLeaveATrace /\ NoWriteAfterAnEdit /\ PayloadHasTags
  BY PartsOfIInv DEF AttemptInv
<1>2. UNCHANGED paperless => PaperlessInv'
  BY <1>1 DEF PaperlessInv, ContentOfVersion
<1>3. CASE Claim
  <2>1. attempts' \in 0 .. MaxAttempts
    BY <1>1, <1>3, DocumentConstants DEF Claim, AttemptsLeft, CountersInv
  <2>2. RequestInv' /\ CountersInv'
    BY <1>1, <1>3, <2>1
    DEF Claim, attempt, locals, RequestInv, CountersInv, RequestsNameTheirVersion
  <2>3. ReadsInv' /\ AttemptInv'
    BY <1>1, <1>3
    DEF Claim, attempt, locals, ReadsInv, Running, AttemptInv, AttemptsLeft, ReadsAgree,
       EditsLeaveATrace, NoWriteAfterAnEdit, PayloadHasTags, Reading
  <2> QED
    BY <1>2, <1>3, <2>2, <2>3, PartsOfIInvNext DEF Claim
<1>4. CASE CallFails
  <2>1. pc' \in {"waiting", "failed"} /\ AttemptsLeft'
    BY <1>4 DEF CallFails, RetryOrFail, AttemptsLeft
  <2> QED
    BY <1>1, <1>2, <1>4, <2>1, LeaveKeepsIInv DEF CallFails, CountersInv, Final
<1>5. CASE CutOff
  <2>1. AttemptsLeft' /\ lost' \in Nat /\ writes' \in Nat
    BY <1>1, <1>5 DEF CutOff, PerhapsUnderWay, AttemptsLeft, CountersInv
  <2> QED
    BY <1>2, <1>5, <2>1, LeaveKeepsIInv DEF CutOff, PerhapsUnderWay
<1>6. CASE Reprocess
  <2>1. Cardinality(late) \in Nat
    BY <1>1, FS_CardinalityType DEF RequestInv
  <2>2. RequestInv' /\ CountersInv'
    BY <1>1, <1>6, <2>1, DocumentConstants
    DEF Reprocess, attempt, locals, RequestInv, CountersInv, RequestsNameTheirVersion
  <2>3. ReadsInv' /\ AttemptInv'
    BY <1>1, <1>6, DocumentConstants
    DEF Reprocess, attempt, locals, ReadsInv, Running, AttemptInv, AttemptsLeft, ReadsAgree,
       EditsLeaveATrace, NoWriteAfterAnEdit, PayloadHasTags, Reading, Final
  <2> QED
    BY <1>2, <1>6, <2>2, <2>3, PartsOfIInvNext DEF Reprocess
<1> QED
  BY <1>3, <1>4, <1>5, <1>6

LEMMA LateRequestsKeepIInv ==
  ASSUME IInv, LatePatch \/ LateLost
  PROVE  IInv'
<1> USE DEF paperless, history, users, attempt, locals
<1>1. /\ PaperlessInv /\ RequestInv /\ CountersInv /\ ReadsInv /\ AttemptInv
      /\ AttemptsLeft /\ ReadsAgree /\ EditsLeaveATrace /\ NoWriteAfterAnEdit /\ PayloadHasTags
  BY PartsOfIInv DEF AttemptInv
<1>2. PICK p \in late : late' = late \ {p}
  BY DEF LatePatch, LateLost
<1>3. IsFiniteSet(late')
  BY <1>1, <1>2, FS_RemoveElement DEF RequestInv
<1>4. UNCHANGED <<dryRun, tagOwner, pc, attempts, locals, ownedSinceRead, edits,
                 editedWhileReading, lost, reprocesses>>
  BY DEF LatePatch, LateLost
<1>5. RequestInv' /\ ReadsInv'
  BY <1>1, <1>2, <1>3, <1>4 DEF RequestInv, ReadsInv, RequestsNameTheirVersion
<1>6. /\ PaperlessInv' /\ writes' \in Nat
      /\ doc'.version = doc.version /\ doc'.modified \in {doc.modified, doc.modified + 1}
  <2>1. CASE LateLost
    BY <1>1, <2>1 DEF LateLost, PaperlessInv, ContentOfVersion, CountersInv
  <2>2. CASE LatePatch
    <3>1. PICK q \in late : Applied(q)
      BY <2>2 DEF LatePatch
    <3>2. q \in Payload /\ q.version = q.content
      BY <1>1 DEF RequestInv, RequestsNameTheirVersion
    <3>3. PaperlessInv' /\ doc'.version = doc.version /\ doc'.modified = doc.modified + 1
      BY <1>1, <1>4, <3>1, <3>2, AppliedRequest
    <3>4. writes' \in Nat
      BY <1>1, <3>1 DEF Applied, CountersInv
    <3> QED
      BY <3>3, <3>4
  <2> QED
    BY <2>1, <2>2
<1>7. CountersInv'
  BY <1>1, <1>4, <1>6 DEF CountersInv
<1>8. EditsLeaveATrace'
  <2>1. /\ original.version \in Nat /\ original.modified \in Nat
        /\ doc.version \in Nat /\ doc.modified \in Nat
    BY <1>1, DocumentFields DEF PaperlessInv, ReadsInv, Versions
  <2> QED
    BY <1>1, <1>4, <1>6, <2>1 DEF EditsLeaveATrace
<1>9. AttemptInv'
  BY <1>1, <1>4, <1>8
  DEF AttemptInv, AttemptsLeft, ReadsAgree, NoWriteAfterAnEdit, PayloadHasTags
<1> QED
  BY <1>5, <1>6, <1>7, <1>9, PartsOfIInvNext

LEMMA NextKeepsIInv == IInv /\ [Next]_vars => IInv'
<1> SUFFICES ASSUME IInv, [Next]_vars PROVE IInv'
  OBVIOUS
<1>1. CASE UNCHANGED vars
  BY <1>1 DEF vars, attempt, locals, users, history, IInv, TypeOK, AttemptsLeft, ReadsAgree,
     RequestsNameTheirVersion, ContentOfVersion, EditsLeaveATrace, NoWriteAfterAnEdit,
     PayloadHasTags
<1> QED
  BY <1>1, UsersKeepIInv, ProcessorKeepsIInv, JobKeepsIInv, LateRequestsKeepIInv DEF Next

-----------------------------------------------------------------------------
(* Theorems.                                                               *)

LEMMA Invariance == Spec => []IInv
BY InitEstablishesIInv, NextKeepsIInv, PTL DEF Spec

\* Every variable keeps its type; in particular the attempts stay within the
\* budget whatever is retried, cut off and reprocessed.
THEOREM TypeCorrect == Spec => []TypeOK
BY Invariance, PTL DEF IInv

\* What Paperless holds as the content of a version was recognised from that
\* version's file, however requests are lost, delayed and repeated.
THEOREM ContentCorrect == Spec => []ContentOfVersion
BY Invariance, PTL DEF IInv

\* An attempt never goes on to write after an edit it could have seen between its
\* two reads.
THEOREM EditsAreRespected == Spec => []NoWriteAfterAnEdit
BY Invariance, PTL DEF IInv

\* What PatchKeepsTags says of a step.
TagsKept == pc = "patch" /\ pc' = "succeeded" => doc.tags \intersect fresh.tags \subseteq doc'.tags

LEMMA StepKeepsTags == IInv /\ [Next]_vars => TagsKept
<1> SUFFICES ASSUME IInv, [Next]_vars, pc = "patch", pc' = "succeeded"
             PROVE  doc.tags \intersect fresh.tags \subseteq doc'.tags
  BY DEF TagsKept
<1>1. PatchAnswered
  <2>1. RetryOrFail # "succeeded"
    BY DEF RetryOrFail
  <2>2. ~PatchRefused /\ ~PatchLost
    BY <2>1 DEF PatchRefused, Refused, PatchLost
  <2>3. ~Users /\ ~LatePatch /\ ~LateLost /\ pc' # pc
    BY DEF Users, EditDocument, EditTags, ChangeOwner, UploadVersion, AssignTag, DeleteTag,
       UserActs, LatePatch, LateLost
  <2>4. ~Claim /\ ~CallFails /\ ~CutOff /\ ~Reprocess
    BY DEF Claim, CallFails, CutOff, Reprocess, Running, Reading, Final
  <2>5. /\ ~GetOriginal /\ ~ListInitialTags /\ ~Recognise /\ ~GetFresh /\ ~Conflict
        /\ ~ListCurrentTags /\ ~ValidateUpdate /\ ~ReportProposal
    BY DEF GetOriginal, ListInitialTags, Recognise, GetFresh, Conflict, ListCurrentTags,
       ValidateUpdate, ReportProposal
  <2> QED
    BY <2>2, <2>3, <2>4, <2>5 DEF Next, Processor, ListTags, vars
<1>2. Applied(payload) /\ payload \in Payload /\ payload.version = payload.content
  BY <1>1, PartsOfIInv DEF PatchAnswered, RequestInv, RequestsNameTheirVersion
<1>3. doc'.tags = payload.tags
  BY <1>2, PartsOfIInv, AppliedRequest
<1> QED
  BY <1>3, PartsOfIInv DEF AttemptInv, PayloadHasTags

\* The answered PATCH removes no tag that the second read has seen and the document
\* still has: the list that is sent includes them.
THEOREM PatchIsAdditive == Spec => PatchKeepsTags
<1>1. IInv /\ [Next]_vars => TagsKept
  BY StepKeepsTags
<1> QED
  BY Invariance, <1>1, PTL DEF Spec, PatchKeepsTags, TagsKept

-----------------------------------------------------------------------------
(* The second listing.                                                     *)

\* What is listed, and what could be listed next, was the owner's since the second read.
ListingInv ==
    /\ pc \notin {"relisting", "patch"} => currentTags = {}
    /\ pc = "relisting" =>
          currentTags \union TagsForOwner(fresh.owner) \subseteq ownedSinceRead
    /\ AddedTagsWereStillTheOwners

LEMMA NextKeepsListingInv == IInv /\ ListingInv /\ [Next]_vars => ListingInv'
<1> SUFFICES ASSUME IInv, ListingInv, [Next]_vars PROVE ListingInv'
  OBVIOUS
<1> USE DEF users
<1>1. PaperlessInv
  BY PartsOfIInv
<1>2. ASSUME UNCHANGED <<pc, tagOwner, attempt>> PROVE ListingInv'
  BY <1>2 DEF ListingInv, AddedTagsWereStillTheOwners, attempt, locals, TagsForOwner, Existing
<1>3. ASSUME Leave, pc' \notin {"relisting", "patch"} PROVE ListingInv'
  BY <1>3 DEF ListingInv, AddedTagsWereStillTheOwners, Leave
<1>4. CASE UNCHANGED vars \/ LatePatch \/ LateLost
  BY <1>2, <1>4 DEF vars, LatePatch, LateLost, paperless
<1>5. CASE Users
  <2>1. /\ UNCHANGED <<pc, locals>>
        /\ ownedSinceRead' = ownedSinceRead \union
                                 IF pc = "relisting" THEN TagsForOwner(fresh.owner)' ELSE {}
    BY <1>5 DEF Users, EditDocument, EditTags, ChangeOwner, UploadVersion, AssignTag, DeleteTag,
       UserActs
  <2> QED
    BY <2>1 DEF ListingInv, AddedTagsWereStillTheOwners, locals
<1>6. CASE CallFails \/ CutOff \/ Conflict \/ ReportProposal \/ PatchAnswered \/ PatchRefused
           \/ PatchLost
  BY <1>3, <1>6 DEF CallFails, CutOff, Conflict, ReportProposal, PatchAnswered, PatchRefused,
     Refused, PatchLost, RetryOrFail
<1>7. CASE Claim \/ Reprocess
  <2>1. CASE UNCHANGED pc
    BY <1>2, <1>7, <2>1 DEF Claim, Reprocess, paperless
  <2>2. CASE pc' # pc
    <3>1. UNCHANGED currentTags /\ {pc, pc'} \intersect {"relisting", "patch"} = {}
      BY <1>7, <2>2 DEF Claim, Reprocess, attempt, locals, Final
    <3> QED
      BY <3>1 DEF ListingInv, AddedTagsWereStillTheOwners
  <2> QED
    BY <2>1, <2>2
<1>8. CASE GetOriginal \/ ListInitialTags \/ Recognise
  <2>1. /\ UNCHANGED <<currentTags, payload, ownedSinceRead>>
        /\ pc \in {"get"} \union Reading /\ pc' \in Reading
    BY <1>8 DEF GetOriginal, ListInitialTags, Recognise, Reading
  <2> QED
    BY <2>1 DEF ListingInv, AddedTagsWereStillTheOwners, Reading
<1>9. CASE GetFresh
  <2>1. /\ pc = "fresh" /\ pc' = "relisting" /\ UNCHANGED <<currentTags, tagOwner>>
        /\ fresh' = doc /\ ownedSinceRead' = TagsForOwner(doc.owner)
    BY <1>9 DEF GetFresh, paperless
  <2> QED
    BY <2>1 DEF ListingInv, AddedTagsWereStillTheOwners, Reading, TagsForOwner, Existing
<1>10. CASE ListCurrentTags
  <2>1. /\ pc = "relisting" /\ UNCHANGED <<pc, fresh, tagOwner, ownedSinceRead>>
        /\ currentTags' \in AfterPage(currentTags, fresh.owner)
    BY <1>10 DEF ListCurrentTags, paperless
  <2>2. currentTags' \subseteq currentTags \union TagsForOwner(fresh.owner)
    BY <1>1, <2>1, PageOfTheOwner
  <2> QED
    BY <2>1, <2>2
    DEF ListingInv, AddedTagsWereStillTheOwners, Reading, TagsForOwner, Existing
<1>11. CASE ValidateUpdate
  <2>1. /\ pc = "relisting" /\ pc' = "patch" /\ UNCHANGED <<fresh, ownedSinceRead>>
        /\ currentTags' \in AfterPage(currentTags, fresh.owner)
    BY <1>11 DEF ValidateUpdate
  <2>2. PICK proposed \in SUBSET Names : payload'.tags = MergedTags(proposed, currentTags')
    BY <1>11 DEF ValidateUpdate
  <2>3. currentTags' \subseteq currentTags \union TagsForOwner(fresh.owner)
    BY <1>1, <2>1, PageOfTheOwner
  <2>4. payload'.tags \ fresh.tags \subseteq ownedSinceRead
    BY <2>1, <2>2, <2>3 DEF ListingInv, MergedTags
  <2> QED
    BY <2>1, <2>4 DEF ListingInv, AddedTagsWereStillTheOwners, Reading
<1> QED
  BY <1>4, <1>5, <1>6, <1>7, <1>8, <1>9, <1>10, <1>11 DEF Next, Processor, ListTags

\* A PATCH adds no tag that was not, at some moment between the second read and the
\* last page of the second listing, an existing tag of the document's owner.
THEOREM AddedTagsCorrect == Spec => []AddedTagsWereStillTheOwners
<1>1. Init => ListingInv
  BY DEF Init, ListingInv, AddedTagsWereStillTheOwners, Reading
<1>2. ListingInv => AddedTagsWereStillTheOwners
  BY DEF ListingInv
<1> QED
  BY <1>1, <1>2, NextKeepsListingInv, Invariance, PTL DEF Spec

-----------------------------------------------------------------------------
(* The count of writes.  A PATCH whose answer was lost may still arrive, so *)
(* those that are under way count as if they had been applied.             *)

Reported == IF pc = "succeeded" /\ ~dryRun THEN 1 ELSE 0

WritesInv ==
    /\ Reported <= writes
    /\ writes + Cardinality(late) <= Reported + lost
    /\ pc = "patch" => ~dryRun

LEMMA SizeOfLate ==
  ASSUME IsFiniteSet(late), NEW p
  PROVE  /\ Cardinality(late) \in Nat
         /\ Cardinality(late \union {p}) \in Nat
         /\ Cardinality(late \union {p}) <= Cardinality(late) + 1
         /\ p \in late => /\ Cardinality(late \ {p}) \in Nat
                         /\ Cardinality(late \ {p}) = Cardinality(late) - 1
<1>1. /\ IsFiniteSet(late \union {p})
      /\ Cardinality(late \union {p})
           = IF p \in late THEN Cardinality(late) ELSE Cardinality(late) + 1
  BY FS_AddElement
<1>2. /\ IsFiniteSet(late \ {p})
      /\ Cardinality(late \ {p}) = IF p \in late THEN Cardinality(late) - 1 ELSE Cardinality(late)
  BY FS_RemoveElement
<1> QED
  BY <1>1, <1>2, FS_CardinalityType

LEMMA InitEstablishesWritesInv == Init => WritesInv
BY FS_EmptySet DEF Init, WritesInv, Reported

LEMMA NextKeepsWritesInv == IInv /\ WritesInv /\ [Next]_vars => WritesInv'
<1> SUFFICES ASSUME IInv, WritesInv, [Next]_vars PROVE WritesInv'
  OBVIOUS
<1> USE DEF paperless, users, history
<1>1. IsFiniteSet(late) /\ lost \in Nat /\ writes \in Nat /\ Cardinality(late) \in Nat
  BY FS_CardinalityType DEF IInv, TypeOK
<1>2. ASSUME UNCHANGED <<dryRun, late, lost, writes>>,
             pc' = pc \/ (pc' \notin {"succeeded", "patch"} /\ pc # "succeeded")
      PROVE  WritesInv'
  BY <1>1, <1>2 DEF WritesInv, Reported
<1>3. CASE Users \/ UNCHANGED vars
  BY <1>2, <1>3 DEF vars, Users, EditDocument, EditTags, ChangeOwner, UploadVersion, AssignTag,
     DeleteTag, UserActs
<1>4. CASE GetOriginal \/ ListInitialTags \/ ListCurrentTags \/ Recognise \/ GetFresh
           \/ Conflict \/ PatchRefused \/ CallFails
  BY <1>2, <1>4 DEF GetOriginal, ListInitialTags, ListCurrentTags, Recognise, GetFresh, Conflict,
     PatchRefused, Refused, CallFails, RetryOrFail, Running, Reading
<1>5. CASE ValidateUpdate
  BY <1>1, <1>5 DEF ValidateUpdate, Live, WritesInv, Reported
<1>6. CASE ReportProposal
  BY <1>1, <1>6 DEF ReportProposal, Live, WritesInv, Reported
<1>7. CASE PatchAnswered
  BY <1>1, <1>7 DEF PatchAnswered, Applied, WritesInv, Reported
<1>8. CASE PatchLost
  <2>1. /\ Cardinality(late') \in Nat /\ Cardinality(late') <= Cardinality(late) + 1
        /\ lost' = lost + 1 /\ writes' = writes /\ pc = "patch"
    BY <1>1, <1>8, SizeOfLate DEF PatchLost
  <2>2. Reported = 0 /\ Reported' = 0 /\ pc' # "patch"
    BY <1>8 DEF PatchLost, RetryOrFail, Reported
  <2> QED
    BY <1>1, <2>1, <2>2 DEF WritesInv
<1>9. CASE CutOff
  <2>1. /\ Cardinality(late') \in Nat /\ writes' = writes
        /\ \/ lost' = lost /\ Cardinality(late') = Cardinality(late)
           \/ lost' = lost + 1 /\ Cardinality(late') <= Cardinality(late) + 1
    BY <1>1, <1>9, SizeOfLate DEF CutOff, PerhapsUnderWay
  <2>2. Reported = 0 /\ Reported' = 0 /\ pc' # "patch"
    BY <1>9 DEF CutOff, Running, Reading, Reported
  <2> QED
    BY <1>1, <2>1, <2>2 DEF WritesInv
<1>10. CASE Claim
  BY <1>1, <1>10 DEF Claim, WritesInv, Reported
<1>11. CASE Reprocess
  BY <1>1, <1>11 DEF Reprocess, WritesInv, Reported
<1>12. CASE LatePatch \/ LateLost
  <2>1. PICK p \in late : late' = late \ {p}
    BY <1>12 DEF LatePatch, LateLost
  <2>2. Cardinality(late') \in Nat /\ Cardinality(late') = Cardinality(late) - 1
    BY <1>1, <2>1, SizeOfLate
  <2>3. UNCHANGED <<pc, dryRun, lost>>
    BY <1>12 DEF LatePatch, LateLost
  <2>4. writes' = writes + 1 \/ writes' = writes
    BY <1>12 DEF LatePatch, LateLost, Applied
  <2>5. Reported' = Reported /\ Reported \in Nat
    BY <2>3 DEF Reported
  <2> QED
    BY <1>1, <2>2, <2>3, <2>4, <2>5 DEF WritesInv
<1> QED
  BY <1>3, <1>4, <1>5, <1>6, <1>7, <1>8, <1>9, <1>10, <1>11, <1>12
  DEF Next, Processor, ListTags

\* In every cycle the document is written once by the attempt that reports it, and
\* otherwise only by a PATCH whose answer was lost.
THEOREM WritesCorrect == Spec => []WritesAreAccountedFor
<1>1. IInv /\ WritesInv => WritesAreAccountedFor
  <2> SUFFICES ASSUME IInv, WritesInv PROVE WritesAreAccountedFor
    OBVIOUS
  <2>1. lost \in Nat /\ writes \in Nat /\ Cardinality(late) \in Nat /\ Reported \in Nat
    BY FS_CardinalityType DEF IInv, TypeOK, Reported
  <2>2. writes \in Reported .. Reported + lost
    BY <2>1 DEF WritesInv
  <2> QED
    BY <2>2 DEF WritesAreAccountedFor, Reported
<1> QED
  BY <1>1, InitEstablishesWritesInv, NextKeepsWritesInv, Invariance, PTL DEF Spec
=============================================================================
