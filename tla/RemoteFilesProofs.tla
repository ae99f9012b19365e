--------------------------- MODULE RemoteFilesProofs ---------------------------
(***************************************************************************)
(* Theorems about RemoteFiles, for all sizes of documents and chunks and   *)
(* all bounds.                                                             *)
(***************************************************************************)
EXTENDS RemoteFiles, FiniteSetTheorems, SequenceTheorems, WellFoundedInduction, TLAPS

-----------------------------------------------------------------------------
(* Chunks: the first one starts at page 0, and each next one where the one  *)
(* before it ends.                                                         *)

LEMMA MultiplesApart ==
  ASSUME NEW j \in Nat, NEW k \in Nat, NEW size \in Nat \ {0}, j * size < k * size
  PROVE  (j + 1) * size <= k * size
<1>1. j < k
  <2> SUFFICES ASSUME k <= j PROVE FALSE
    OBVIOUS
  <2>1. PICK d \in Nat : j = k + d
    OBVIOUS
  <2>2. j * size = k * size + d * size /\ d * size >= 0
    BY <2>1
  <2> QED
    BY <2>2
<1>2. PICK d \in Nat : k = (j + 1) + d
  BY <1>1
<1>3. k * size = (j + 1) * size + d * size /\ d * size >= 0
  BY <1>2
<1> QED
  BY <1>3

LEMMA FirstChunkStart ==
  ASSUME NEW n \in Nat \ {0}, NEW size \in Nat \ {0}
  PROVE  0 \in ChunkStarts(n, size)
BY DEF ChunkStarts

LEMMA StartsWithinPages ==
  ASSUME NEW n \in Nat, NEW size \in Nat \ {0}, NEW s \in ChunkStarts(n, size)
  PROVE  s \in Nat /\ s < n
BY DEF ChunkStarts

LEMMA NextChunkStart ==
  ASSUME NEW n \in Nat, NEW size \in Nat \ {0}, NEW s \in ChunkStarts(n, size)
  PROVE  /\ \A t \in ChunkStarts(n, size) : t > s => t >= s + size
         /\ s + size < n => s + size \in ChunkStarts(n, size)
<1>1. PICK j \in 0 .. n : s = j * size
  BY DEF ChunkStarts
<1>2. (j + 1) * size = s + size /\ s \in Nat
  BY <1>1
<1>3. ASSUME NEW t \in ChunkStarts(n, size), t > s PROVE t >= s + size
  <2>1. PICK k \in 0 .. n : t = k * size
    BY DEF ChunkStarts
  <2>2. (j + 1) * size <= k * size
    BY <1>1, <1>3, <2>1, MultiplesApart
  <2>3. t \in Nat
    BY <2>1
  <2> QED
    BY <1>2, <2>1, <2>2, <2>3
<1>4. ASSUME s + size < n PROVE s + size \in ChunkStarts(n, size)
  <2>1. j <= j * size
    <3>1. PICK d \in Nat : size = 1 + d
      OBVIOUS
    <3>2. j * size = j + j * d /\ j * d >= 0
      BY <3>1
    <3> QED
      BY <3>2
  <2>2. j + 1 \in 0 .. n
    BY <1>1, <1>2, <1>4, <2>1
  <2> QED
    BY <1>2, <1>4, <2>2 DEF ChunkStarts
<1> QED
  BY <1>3, <1>4

LEMMA ChunkLength ==
  ASSUME NEW n \in Nat, NEW size \in Nat \ {0}, NEW s \in Nat, s < n
  PROVE  /\ Cardinality(ChunkPages(s, n, size)) = LesserOf(s + size, n) - s
         /\ LesserOf(s + size, n) \in s + 1 .. n
         /\ Cardinality(ChunkPages(s, n, size)) \in 1 .. size
<1>1. LesserOf(s + size, n) \in s + 1 .. n /\ LesserOf(s + size, n) <= s + size
  BY DEF LesserOf
<1>2. Cardinality(s .. LesserOf(s + size, n) - 1) = LesserOf(s + size, n) - s
  BY <1>1, FS_Interval
<1> QED
  BY <1>1, <1>2 DEF ChunkPages

\* The pages of the first n places of the content.
FirstPages(n) == [i \in 1 .. n |-> i - 1]

LEMMA PagesJoin ==
  ASSUME NEW m \in Nat, NEW n \in Nat
  PROVE  FirstPages(m) \o [i \in 1 .. n |-> m + i - 1] = FirstPages(m + n)
<1> DEFINE part == [i \in 1 .. n |-> m + i - 1]
<1>1. FirstPages(m) \in Seq(Int) /\ Len(FirstPages(m)) = m
  BY DEF FirstPages
<1>2. part \in Seq(Int) /\ Len(part) = n
  OBVIOUS
<1>3. FirstPages(m + n) \in Seq(Int) /\ Len(FirstPages(m + n)) = m + n
  BY DEF FirstPages
<1>4. /\ FirstPages(m) \o part \in Seq(Int) /\ Len(FirstPages(m) \o part) = m + n
      /\ \A i \in 1 .. m + n : (FirstPages(m) \o part)[i] =
             IF i <= m THEN FirstPages(m)[i] ELSE part[i - m]
  BY <1>1, <1>2, ConcatProperties
<1>5. \A i \in 1 .. m + n : (FirstPages(m) \o part)[i] = FirstPages(m + n)[i]
  BY <1>4 DEF FirstPages
<1> QED
  BY <1>3, <1>4, <1>5, SeqEqual

-----------------------------------------------------------------------------
(* The document in hand.                                                   *)

InChunk == {"chunk", "uploaded", "ocr", "finally", "deleted"}

\* While a chunk is worked on, the content has the pages before it.
DocumentInv ==
    /\ pages \in 0 .. MaxPages /\ start \in 0 .. MaxPages /\ page_count \in 0 .. ChunkSize + 1
    /\ pc \in InChunk => start \in ChunkStarts(pages, ChunkSize) /\ results = FirstPages(start)
    /\ pc = "recognised" => results = FirstPages(pages)
    /\ pc \notin InChunk \union {"recognised"} => results = FirstPages(0)

LEMMA NoPages == FirstPages(0) = <<>>
<1>1. FirstPages(0) \in Seq(Int) /\ Len(FirstPages(0)) = 0
  BY DEF FirstPages
<1> QED
  BY <1>1, EmptySeq

LEMMA InitEstablishesDocumentInv == Init => DocumentInv
BY NoPages, RemoteConstants DEF Init, DocumentInv, InChunk

\* The next chunk begins where this one ends; after the last one no page is left.
LEMMA NextChunkContinues ==
  ASSUME DocumentInv, NextChunk
  PROVE  DocumentInv'
<1> DEFINE next == LesserOf(start + ChunkSize, pages)
<1>1. /\ start \in ChunkStarts(pages, ChunkSize) /\ results = FirstPages(start)
      /\ pages \in Nat /\ pages \in 0 .. MaxPages
  BY DEF DocumentInv, NextChunk, InChunk
<1>2. start \in Nat /\ start < pages /\ ChunkSize \in Nat \ {0}
  BY <1>1, StartsWithinPages, RemoteConstants
<1>3. page_count = next - start /\ next \in start + 1 .. pages /\ page_count \in Nat
  BY <1>1, <1>2, ChunkLength DEF NextChunk, Complete, Chunk
<1>4. results' = FirstPages(next)
  <2>1. results' = FirstPages(start) \o [i \in 1 .. page_count |-> start + i - 1]
    BY <1>1 DEF NextChunk
  <2>2. results' = FirstPages(start + page_count)
    BY <2>1, <1>2, <1>3, PagesJoin
  <2>3. start + page_count = next
    BY <1>2, <1>3
  <2> QED
    BY <2>2, <2>3
<1>5. /\ \A t \in LaterStarts : t \in Nat /\ t < pages /\ t >= start + ChunkSize
      /\ start + ChunkSize < pages => start + ChunkSize \in LaterStarts
  BY <1>1, <1>2, StartsWithinPages, NextChunkStart DEF LaterStarts
<1>6. CASE LaterStarts = {}
  <2>1. next = pages
    BY <1>1, <1>2, <1>5, <1>6 DEF LesserOf
  <2>2. pc' = "recognised" /\ start' = start /\ pages' = pages /\ page_count' = 0
    BY <1>6 DEF NextChunk
  <2> QED
    BY <1>1, <1>2, <1>4, <2>1, <2>2, RemoteConstants DEF DocumentInv, InChunk
<1>7. CASE LaterStarts # {}
  <2>1. start + ChunkSize < pages
    BY <1>1, <1>2, <1>5, <1>7
  <2>2. start + ChunkSize \in LaterStarts /\ \A t \in LaterStarts : start + ChunkSize <= t
    BY <1>2, <1>5, <2>1
  <2>3. start' \in LaterStarts /\ \A t \in LaterStarts : start' <= t
    BY <1>7, <2>2 DEF NextChunk
  <2>4. start' = start + ChunkSize
    BY <1>2, <1>5, <2>2, <2>3
  <2>5. next = start + ChunkSize
    BY <1>1, <1>2, <2>1 DEF LesserOf
  <2>6. start' \in ChunkStarts(pages, ChunkSize)
    BY <2>3 DEF LaterStarts
  <2>7. pc' = "chunk" /\ pages' = pages /\ page_count' = 0
    BY <1>7 DEF NextChunk
  <2>8. start' \in 0 .. MaxPages
    BY <1>1, <1>5, <2>3, RemoteConstants
  <2> QED
    BY <1>1, <1>2, <1>4, <2>4, <2>5, <2>6, <2>7, <2>8, RemoteConstants DEF DocumentInv, InChunk
<1> QED
  BY <1>6, <1>7

LEMMA NextKeepsDocumentInv == DocumentInv /\ [Next]_vars => DocumentInv'
<1> SUFFICES ASSUME DocumentInv, [Next]_vars PROVE DocumentInv'
  OBVIOUS
<1> USE DEF provider, document, loop
<1>1. ASSUME UNCHANGED document,
             \/ pc \in InChunk /\ pc' \in InChunk
             \/ pc = "recognised" /\ pc' = "recognised"
             \/ /\ pc \notin InChunk \union {"recognised"}
                /\ pc' \notin InChunk \union {"recognised"}
      PROVE  DocumentInv'
  BY <1>1 DEF DocumentInv, InChunk
<1>2. CASE UNCHANGED vars \/ Tick
  <2>1. UNCHANGED document /\ pc' = pc
    BY <1>2 DEF vars, Tick
  <2> QED
    BY <2>1 DEF DocumentInv, InChunk
<1>3. CASE BeginCleanup \/ CleanupDelete \/ SaveCleanup \/ NoJobDue \/ Shutdown \/ Restart
  BY <1>1, <1>3 DEF BeginCleanup, CleanupDelete, SaveCleanup, NoJobDue, Shutdown, Restart, InChunk
<1>4. CASE Upload \/ Register \/ InlineDelete
  BY <1>1, <1>4 DEF Upload, Register, InlineDelete, InChunk
<1>5. CASE UploadFails \/ RegisterFails \/ ChunkFails \/ InlineRemovalFails \/ UseContent
           \/ StorageFailure \/ Crash
  <2>1. /\ pages' = 0 /\ start' = 0 /\ page_count' = 0 /\ results' = <<>>
        /\ pc' \notin InChunk \union {"recognised"}
    BY <1>5 DEF UploadFails, RegisterFails, ChunkFails, InlineRemovalFails, UseContent,
       EndAttempt, StorageFailure, Crash, LeaveMemory, InChunk
  <2> QED
    BY <2>1, NoPages, RemoteConstants DEF DocumentInv, InChunk
<1>6. CASE BeginAttempt
  <2>1. /\ pages' \in 1 .. MaxPages /\ start' = 0 /\ pc' = "chunk"
        /\ UNCHANGED <<results, page_count>> /\ results = FirstPages(0)
    BY <1>6 DEF BeginAttempt, DocumentInv, InChunk
  <2>2. 0 \in ChunkStarts(pages', ChunkSize)
    BY <2>1, FirstChunkStart, RemoteConstants
  <2> QED
    BY <2>1, <2>2, RemoteConstants DEF DocumentInv, InChunk
<1>7. CASE Ocr
  <2>1. pages \in Nat /\ start \in ChunkStarts(pages, ChunkSize)
    BY <1>7 DEF Ocr, DocumentInv, InChunk
  <2>2. Cardinality(Chunk) \in 1 .. ChunkSize
    BY <2>1, StartsWithinPages, ChunkLength, RemoteConstants DEF Chunk
  <2>3. page_count' \in 0 .. ChunkSize + 1
    BY <1>7, <2>2, RemoteConstants DEF Ocr
  <2> QED
    BY <1>7, <2>3 DEF Ocr, DocumentInv, InChunk
<1>8. CASE NextChunk
  BY <1>8, NextChunkContinues
<1> QED
  BY <1>2, <1>3, <1>4, <1>5, <1>6, <1>7, <1>8 DEF Next, Worker

\* Content is complete for every number of pages and every size of chunks.
THEOREM ContentComplete == Spec => []ContentHasEveryPage
<1>1. DocumentInv => ContentHasEveryPage
  BY DEF DocumentInv, ContentHasEveryPage, FirstPages
<1> QED
  BY <1>1, InitEstablishesDocumentInv, NextKeepsDocumentInv, PTL DEF Spec

-----------------------------------------------------------------------------
(* The files and the table.                                                *)

States == {"idle", "cleaning", "cleaned", "chunk", "uploaded", "ocr", "finally", "deleted",
           "recognised", "dead", "down"}

FilesInv ==
    /\ pc \in States
    /\ now \in Nat /\ clock \in Nat /\ faults \in Nat
    /\ uploaded \in 0 .. MaxFiles /\ stored \subseteq 1 .. uploaded
    /\ registered \subseteq 1 .. uploaded /\ registeredAt \in [registered -> Nat]
    /\ Tracked \subseteq FileIds /\ rows \in [Tracked -> RemoteFileRecord]
    /\ pending \subseteq PendingRemoteFile
    /\ file \in FileIds \union {None}
    /\ answer \in {"success", "error", "not_found"}

\* What is known of the file in hand and of the cleanup's loop.
HandInv ==
    /\ pc = "uploaded" => file \in 1 .. uploaded
    /\ pc = "cleaned" => \E record \in pending : record.file = file
    /\ pc \in {"cleaned", "deleted"} /\ answer = "success" => file \notin stored
    /\ pc \notin {"cleaning", "cleaned"} => pending = {}

IInv == FilesInv /\ HandInv /\ RegisteredFilesStayTracked /\ PendingSnapshotIsCurrent

LEMMA InitEstablishesIInv == Init => IInv
<1> SUFFICES ASSUME Init PROVE IInv
  OBVIOUS
<1>1. Tracked = {} /\ registered = {}
  BY DEF Init, Tracked, registered
<1>2. FilesInv
  BY <1>1, RemoteConstants DEF Init, FilesInv, States, Tracked, registered
<1>3. HandInv /\ RegisteredFilesStayTracked /\ PendingSnapshotIsCurrent
  BY <1>1 DEF Init, HandInv, RegisteredFilesStayTracked, PendingSnapshotIsCurrent
<1> QED
  BY <1>2, <1>3 DEF IInv

LEMMA CleanupDelayIsInteger == ASSUME NEW n \in Nat PROVE CleanupDelay(n) \in Int
<1>1. 2^n \in Int
  BY SMT
<1>2. CleanupBase * 2^n \in Int
  BY <1>1, RemoteConstants
<1> QED
  BY <1>2, RemoteConstants DEF CleanupDelay, LesserOf

\* A deletion removes at most the file, and its success means that it is gone.
LEMMA DeleteEffect ==
  ASSUME FilesInv, NEW f, Delete(f)
  PROVE  /\ stored' \subseteq stored /\ faults' \in Nat /\ faults' >= faults
         /\ answer' \in {"success", "error", "not_found"}
         /\ answer' = "success" => f \notin stored'
BY DEF FilesInv, Delete, Fault

LEMMA RemoveEffect ==
  ASSUME FilesInv, NEW f, rows' = RemoveRemoteFile(f)
  PROVE  /\ Tracked' = Tracked \ {f} /\ rows' \in [Tracked' -> RemoteFileRecord]
         /\ \A g \in Tracked \ {f} : rows'[g] = rows[g]
BY DEF FilesInv, RemoveRemoteFile, Tracked

LEMMA RegisterEffect ==
  ASSUME FilesInv, NEW f, rows' = RegisterRemoteFile(f)
  PROVE  Tracked' = Tracked \union {f} /\ rows' \in [Tracked' -> RemoteFileRecord]
<1>1. [delete_attempts |-> 0, next_attempt_at |-> clock] \in RemoteFileRecord
  BY DEF FilesInv, RemoteFileRecord
<1>2. rows' = [g \in Tracked \union {f} |->
                 IF g = f THEN [delete_attempts |-> 0, next_attempt_at |-> clock] ELSE rows[g]]
  BY DEF RegisterRemoteFile
<1>3. rows \in [Tracked -> RemoteFileRecord]
  BY DEF FilesInv
<1>4. Tracked' = Tracked \union {f}
  BY <1>2 DEF Tracked
<1> QED
  BY <1>1, <1>2, <1>3, <1>4

LEMMA RescheduleEffect ==
  ASSUME FilesInv, NEW f \in Tracked, NEW n \in Nat, rows' = RescheduleRemoteFile(f, n)
  PROVE  /\ Tracked' = Tracked /\ rows' \in [Tracked' -> RemoteFileRecord]
         /\ \A g \in Tracked \ {f} : rows'[g] = rows[g]
<1>1. rows \in [Tracked -> RemoteFileRecord]
  BY DEF FilesInv
<1>2. rows[f].delete_attempts + 1 \in Nat
  BY <1>1 DEF RemoteFileRecord
<1>3. now + CleanupDelay(n) \in Int
  BY CleanupDelayIsInteger DEF FilesInv
<1>4. PICK row \in RemoteFileRecord :
        row = [delete_attempts |-> rows[f].delete_attempts + 1,
               next_attempt_at |-> now + CleanupDelay(n)]
  BY <1>2, <1>3 DEF RemoteFileRecord
<1>5. rows' = [rows EXCEPT ![f] = row]
  BY <1>4 DEF RescheduleRemoteFile
<1>6. rows' \in [Tracked -> RemoteFileRecord] /\ \A g \in Tracked \ {f} : rows'[g] = rows[g]
  BY <1>1, <1>5
<1>7. Tracked' = Tracked
  BY <1>1, <1>6 DEF Tracked
<1> QED
  BY <1>6, <1>7

\* A step that leaves the table alone, and takes at most files away.
LEMMA TableUntouched ==
  ASSUME IInv, FilesInv', HandInv', UNCHANGED <<rows, registeredAt>>,
         registered \intersect stored' \subseteq stored,
         pending' = {} \/ (pending' = pending /\ now' = now)
  PROVE  IInv'
<1>1. Tracked' = Tracked /\ registered' = registered
  BY DEF Tracked, registered
<1>2. RegisteredFilesStayTracked'
  BY <1>1 DEF IInv, RegisteredFilesStayTracked
<1>3. PendingSnapshotIsCurrent'
  BY <1>1 DEF IInv, PendingSnapshotIsCurrent
<1> QED
  BY <1>2, <1>3 DEF IInv

\* The cleanup reads the table.
LEMMA BeginCleanupKeepsIInv ==
  ASSUME IInv, BeginCleanup
  PROVE  IInv'
<1> USE DEF provider, document
<1>1. /\ UNCHANGED <<stored, uploaded, rows, answer, clock, faults, registeredAt>>
      /\ pc' = "cleaning" /\ now' = clock /\ file' = None
      /\ Tracked' = Tracked /\ registered' = registered
  BY DEF BeginCleanup, Tracked, registered
<1>2. DueFiles \subseteq Tracked /\ \A f \in DueFiles : rows[f].next_attempt_at <= now'
  BY DEF DueFiles
<1>3. \A f \in Tracked : f \in FileIds /\ rows[f] \in RemoteFileRecord
  BY DEF IInv, FilesInv
<1>4. \A record \in pending' :
         \E f \in DueFiles : /\ record = [file |-> f, delete_attempts |-> rows[f].delete_attempts,
                                         due |-> rows[f].next_attempt_at]
  BY DEF BeginCleanup
<1>5. ASSUME NEW record \in pending'
      PROVE  /\ record \in PendingRemoteFile /\ record.file \in Tracked
             /\ rows[record.file] = [delete_attempts |-> record.delete_attempts,
                                     next_attempt_at |-> record.due]
             /\ record.due <= now'
  <2>1. PICK f \in DueFiles : record = [file |-> f, delete_attempts |-> rows[f].delete_attempts,
                                       due |-> rows[f].next_attempt_at]
    BY <1>4
  <2>2. f \in FileIds /\ rows[f] \in RemoteFileRecord /\ f \in Tracked
    BY <1>2, <1>3
  <2>3. record \in PendingRemoteFile
    BY <2>1, <2>2 DEF PendingRemoteFile, RemoteFileRecord
  <2>4. rows[f] = [delete_attempts |-> rows[f].delete_attempts,
                   next_attempt_at |-> rows[f].next_attempt_at]
    BY <2>2 DEF RemoteFileRecord
  <2> QED
    BY <1>2, <2>1, <2>2, <2>3, <2>4
<1>6. FilesInv'
  BY <1>1, <1>5 DEF IInv, FilesInv, States
<1>7. HandInv'
  BY <1>1 DEF HandInv
<1>8. RegisteredFilesStayTracked'
  BY <1>1 DEF IInv, RegisteredFilesStayTracked
<1>9. PendingSnapshotIsCurrent'
  BY <1>1, <1>5 DEF PendingSnapshotIsCurrent
<1> QED
  BY <1>6, <1>7, <1>8, <1>9 DEF IInv

\* Deleting a file that is registered needs the row until the answer is there; a
\* deletion whose answer is lost keeps it.
LEMMA CleanupDeleteKeepsIInv ==
  ASSUME IInv, CleanupDelete
  PROVE  IInv'
<1> USE DEF provider, document
<1>1. PICK record \in pending : file' = record.file /\ Delete(record.file)
  BY DEF CleanupDelete
<1>2. /\ stored' \subseteq stored /\ faults' \in Nat
      /\ answer' \in {"success", "error", "not_found"}
      /\ answer' = "success" => file' \notin stored'
  BY <1>1, DeleteEffect DEF IInv
<1>3. /\ UNCHANGED <<rows, now, pending, clock, uploaded, registeredAt>> /\ pc' = "cleaned"
      /\ Tracked' = Tracked /\ registered' = registered
  BY DEF CleanupDelete, Tracked, registered
<1>4. file' \in FileIds
  BY <1>1 DEF IInv, FilesInv, PendingRemoteFile
<1>5. FilesInv'
  BY <1>2, <1>3, <1>4 DEF IInv, FilesInv, States
<1>6. HandInv'
  BY <1>1, <1>2, <1>3 DEF HandInv
<1> QED
  BY <1>2, <1>3, <1>5, <1>6, TableUntouched

LEMMA SaveCleanupKeepsIInv ==
  ASSUME IInv, SaveCleanup
  PROVE  IInv'
<1> USE DEF provider, document
<1>1. \E record \in pending : record.file = file
  BY DEF IInv, HandInv, SaveCleanup
<1>2. RecordInHand \in pending /\ RecordInHand.file = file
  BY <1>1 DEF RecordInHand
<1>3. PICK record \in pending : record = RecordInHand /\ record.file = file
  BY <1>2
<1>4. /\ UNCHANGED <<stored, uploaded, now, answer, clock, faults, registeredAt>>
      /\ rows' = CleanupOutcome(record) /\ pending' = pending \ {record}
      /\ pc' = "cleaning" /\ file' = None /\ registered' = registered
  BY <1>3 DEF SaveCleanup, registered
<1>5. file \in Tracked /\ record.delete_attempts \in Nat
  BY <1>3 DEF IInv, PendingSnapshotIsCurrent, FilesInv, PendingRemoteFile
<1>6. /\ rows' \in [Tracked' -> RemoteFileRecord]
      /\ \A g \in Tracked \ {file} : g \in Tracked' /\ rows'[g] = rows[g]
      /\ Tracked' \subseteq Tracked
      /\ file \in stored => file \in Tracked'
  <2>1. CASE answer = "success"
    <3>1. rows' = RemoveRemoteFile(file)
      BY <1>3, <1>4, <2>1 DEF CleanupOutcome
    <3>2. file \notin stored
      BY <2>1 DEF IInv, HandInv, SaveCleanup
    <3> QED
      BY <3>1, <3>2, RemoveEffect DEF IInv
  <2>2. CASE answer # "success"
    <3>1. rows' = RescheduleRemoteFile(file, record.delete_attempts)
      BY <1>3, <1>4, <2>2 DEF CleanupOutcome
    <3> QED
      BY <1>5, <3>1, RescheduleEffect DEF IInv
  <2> QED
    BY <2>1, <2>2
<1>7. FilesInv'
  BY <1>4, <1>6 DEF IInv, FilesInv, States
<1>8. HandInv'
  BY <1>4 DEF HandInv
<1>9. RegisteredFilesStayTracked'
  BY <1>4, <1>6 DEF IInv, RegisteredFilesStayTracked
<1>10. PendingSnapshotIsCurrent'
  <2> SUFFICES ASSUME NEW other \in pending'
               PROVE  /\ other.file \in Tracked'
                      /\ rows'[other.file] = [delete_attempts |-> other.delete_attempts,
                                              next_attempt_at |-> other.due]
                      /\ other.due <= now'
    BY DEF PendingSnapshotIsCurrent
  <2>1. other \in pending /\ other # record
    BY <1>4
  <2>2. /\ other.file \in Tracked
        /\ rows[other.file] = [delete_attempts |-> other.delete_attempts,
                               next_attempt_at |-> other.due]
        /\ rows[record.file] = [delete_attempts |-> record.delete_attempts,
                                next_attempt_at |-> record.due]
        /\ other.due <= now
    BY <2>1 DEF IInv, PendingSnapshotIsCurrent
  <2>3. other \in PendingRemoteFile /\ record \in PendingRemoteFile
    BY <2>1 DEF IInv, FilesInv
  <2>4. other.file # file
    <3> SUFFICES ASSUME other.file = record.file PROVE FALSE
      BY <1>3
    <3>1. other.delete_attempts = record.delete_attempts /\ other.due = record.due
      BY <2>2
    <3> QED
      BY <2>1, <2>3, <3>1 DEF PendingRemoteFile
  <2> QED
    BY <1>4, <1>6, <2>2, <2>4
<1> QED
  BY <1>7, <1>8, <1>9, <1>10 DEF IInv

\* A new file has an id that nothing refers to.
LEMMA UploadKeepsIInv ==
  ASSUME IInv, Upload \/ UploadFails
  PROVE  IInv'
<1> USE DEF provider, document
<1>1. /\ UNCHANGED <<rows, now, pending, answer, clock, registeredAt>> /\ pc = "chunk"
      /\ pc' \in {"uploaded", "idle"} /\ file' \in {uploaded', None}
      /\ pc' = "uploaded" => file' = uploaded' /\ uploaded' = uploaded + 1
      /\ faults' \in {faults, faults + 1}
      /\ \/ UNCHANGED <<stored, uploaded>> /\ file' = None
         \/ /\ uploaded < MaxFiles /\ uploaded' = uploaded + 1
            /\ stored' = stored \union {uploaded'}
  BY DEF Upload, UploadFails, EndAttempt, Fault
<1>2. /\ uploaded \in 0 .. MaxFiles /\ uploaded' \in 0 .. MaxFiles /\ uploaded' >= uploaded
      /\ stored' \subseteq 1 .. uploaded' /\ registered \subseteq 1 .. uploaded
  <2>1. /\ uploaded \in 0 .. MaxFiles
        /\ stored \subseteq 1 .. uploaded /\ registered \subseteq 1 .. uploaded
    BY DEF IInv, FilesInv
  <2>2. CASE UNCHANGED <<stored, uploaded>>
    BY <2>1, <2>2, RemoteConstants
  <2>3. CASE uploaded < MaxFiles /\ uploaded' = uploaded + 1 /\ stored' = stored \union {uploaded'}
    <3>1. uploaded' \in 0 .. MaxFiles /\ uploaded' >= uploaded /\ uploaded' \in 1 .. uploaded'
      BY <2>1, <2>3, RemoteConstants
    <3>2. \A f \in 1 .. uploaded : f \in 1 .. uploaded'
      BY <2>1, <2>3
    <3>3. stored' \subseteq 1 .. uploaded'
      BY <2>1, <2>3, <3>1, <3>2
    <3> QED
      BY <2>1, <3>1, <3>3
  <2> QED
    BY <1>1, <2>2, <2>3
<1>3. registered' = registered /\ Tracked' = Tracked /\ pending = {}
  BY <1>1 DEF IInv, HandInv, registered, Tracked
<1>4. file' \in FileIds \union {None}
  BY <1>1, <1>2 DEF IInv, FilesInv, FileIds, None
<1>5. FilesInv'
  BY <1>1, <1>2, <1>3, <1>4 DEF IInv, FilesInv, States
<1>6. HandInv'
  BY <1>1, <1>2, <1>3 DEF HandInv
<1>7. registered \intersect stored' \subseteq stored
  BY <1>1, <1>2
<1> QED
  BY <1>1, <1>3, <1>5, <1>6, <1>7, TableUntouched

LEMMA RegisterKeepsIInv ==
  ASSUME IInv, Register
  PROVE  IInv'
<1> USE DEF provider, document
<1>1. /\ UNCHANGED <<stored, uploaded, now, pending, file, answer, clock, faults>>
      /\ pc = "uploaded" /\ pc' = "ocr" /\ rows' = RegisterRemoteFile(file)
      /\ registeredAt' = [f \in registered \union {file} |->
                             IF f = file THEN clock ELSE registeredAt[f]]
  BY DEF Register
<1>2. pending = {} /\ file \in 1 .. uploaded /\ uploaded \in 0 .. MaxFiles
  BY <1>1 DEF IInv, HandInv, FilesInv
<1>3. Tracked' = Tracked \union {file} /\ rows' \in [Tracked' -> RemoteFileRecord]
  BY <1>1, RegisterEffect DEF IInv
<1>4. registered' = registered \union {file}
  BY <1>1 DEF registered
<1>5. registeredAt' \in [registered' -> Nat]
  BY <1>1, <1>4 DEF IInv, FilesInv
<1>6. FilesInv'
  <2>1. file \in FileIds
    BY <1>2, RemoteConstants DEF FileIds
  <2>2. Tracked' \subseteq FileIds /\ registered' \subseteq 1 .. uploaded
    BY <1>2, <1>3, <1>4, <2>1 DEF IInv, FilesInv
  <2> QED
    BY <1>1, <1>3, <1>5, <2>2 DEF IInv, FilesInv, States
<1>7. HandInv'
  BY <1>1, <1>2 DEF HandInv
<1>8. RegisteredFilesStayTracked'
  BY <1>1, <1>3, <1>4 DEF IInv, RegisteredFilesStayTracked
<1>9. PendingSnapshotIsCurrent'
  BY <1>1, <1>2 DEF PendingSnapshotIsCurrent
<1> QED
  BY <1>6, <1>7, <1>8, <1>9 DEF IInv

LEMMA InlineDeleteKeepsIInv ==
  ASSUME IInv, InlineDelete
  PROVE  IInv'
<1> USE DEF provider, document
<1>1. /\ stored' \subseteq stored /\ faults' \in Nat
      /\ answer' \in {"success", "error", "not_found"}
      /\ answer' = "success" => file \notin stored'
  BY DeleteEffect DEF IInv, InlineDelete
<1>2. /\ UNCHANGED <<rows, now, pending, file, clock, uploaded, registeredAt>>
      /\ pc = "finally" /\ pc' = "deleted"
      /\ Tracked' = Tracked /\ registered' = registered
  BY DEF InlineDelete, Tracked, registered
<1>3. FilesInv'
  BY <1>1, <1>2 DEF IInv, FilesInv, States
<1>4. HandInv'
  BY <1>1, <1>2 DEF IInv, HandInv
<1> QED
  BY <1>1, <1>2, <1>3, <1>4, TableUntouched

LEMMA ChunkEndKeepsIInv ==
  ASSUME IInv, NextChunk \/ ChunkFails
  PROVE  IInv'
<1> USE DEF provider, document
<1>1. /\ UNCHANGED <<stored, uploaded, now, pending, answer, clock, faults, registeredAt>>
      /\ pc = "deleted" /\ pc' \in {"idle", "chunk", "recognised"} /\ file' = None
      /\ rows' = InlineOutcome /\ registered' = registered
  BY DEF NextChunk, ChunkFails, EndAttempt, registered
<1>2. pending = {}
  BY <1>1 DEF IInv, HandInv
<1>3. /\ rows' \in [Tracked' -> RemoteFileRecord] /\ Tracked' \subseteq Tracked
      /\ Tracked \intersect stored \subseteq Tracked'
  <2>1. CASE answer = "success"
    <3>1. rows' = RemoveRemoteFile(file) /\ file \notin stored
      BY <1>1, <2>1 DEF InlineOutcome, IInv, HandInv
    <3> QED
      BY <3>1, RemoveEffect DEF IInv
  <2>2. CASE answer # "success"
    BY <1>1, <2>2 DEF InlineOutcome, IInv, FilesInv, Tracked
  <2> QED
    BY <2>1, <2>2
<1>4. FilesInv'
  BY <1>1, <1>3 DEF IInv, FilesInv, States
<1>5. HandInv'
  BY <1>1, <1>2 DEF HandInv
<1>6. RegisteredFilesStayTracked'
  BY <1>1, <1>3 DEF IInv, RegisteredFilesStayTracked
<1>7. PendingSnapshotIsCurrent'
  BY <1>1, <1>2 DEF PendingSnapshotIsCurrent
<1> QED
  BY <1>4, <1>5, <1>6, <1>7 DEF IInv

\* Nothing but the place of the worker, the time and the locals changes.
LEMMA OtherStepsKeepIInv ==
  ASSUME IInv,
         \/ NoJobDue \/ BeginAttempt \/ RegisterFails \/ Ocr \/ InlineRemovalFails \/ UseContent
         \/ StorageFailure \/ Crash \/ Shutdown \/ Restart \/ Tick \/ UNCHANGED vars
  PROVE  IInv'
<1> USE DEF provider, document, loop
<1>1. /\ UNCHANGED <<stored, uploaded, rows, answer, registeredAt>>
      /\ faults' \in {faults, faults + 1} /\ clock' \in {clock, clock + 1}
      /\ file' \in {file, None}
      /\ Tracked' = Tracked /\ registered' = registered
  BY DEF NoJobDue, BeginAttempt, RegisterFails, EndAttempt, Ocr, InlineRemovalFails, UseContent,
     StorageFailure, Crash, LeaveMemory, Shutdown, Restart, Tick,
     Fault, vars, Tracked, registered
<1>2. \/ pc' \in {"idle", "chunk", "finally", "dead", "down"}
      \/ pc' = pc /\ file' = file /\ pending' = pending
  BY DEF NoJobDue, BeginAttempt, RegisterFails, EndAttempt, Ocr, InlineRemovalFails, UseContent,
     StorageFailure, Crash, LeaveMemory, Shutdown, Restart, Tick,
     vars
<1>3. /\ now' \in {now, clock}
      /\ pending' = {} \/ (pending' = pending /\ now' = now)
      /\ pc' # pc => pending' = {}
  BY DEF NoJobDue, BeginAttempt, RegisterFails, EndAttempt, Ocr, InlineRemovalFails, UseContent,
     StorageFailure, Crash, LeaveMemory, Shutdown, Restart, Tick,
     vars, IInv, HandInv
<1>4. FilesInv'
  BY <1>1, <1>2, <1>3 DEF IInv, FilesInv, States
<1>5. HandInv'
  <2>1. CASE pc' = pc /\ file' = file /\ pending' = pending
    BY <1>1, <1>3, <2>1 DEF IInv, HandInv
  <2>2. CASE pc' \in {"idle", "chunk", "finally", "dead", "down"} /\ pc' # pc
    BY <1>3, <2>2 DEF HandInv
  <2>3. CASE pc' \in {"idle", "chunk", "finally", "dead", "down"} /\ pc' = pc
    BY <1>3, <2>3 DEF IInv, HandInv
  <2> QED
    BY <1>2, <2>1, <2>2, <2>3
<1> QED
  BY <1>1, <1>3, <1>4, <1>5, TableUntouched

LEMMA NextKeepsIInv == IInv /\ [Next]_vars => IInv'
BY BeginCleanupKeepsIInv, CleanupDeleteKeepsIInv, SaveCleanupKeepsIInv, UploadKeepsIInv,
   RegisterKeepsIInv, InlineDeleteKeepsIInv, ChunkEndKeepsIInv, OtherStepsKeepIInv
DEF Next, Worker

LEMMA Invariance == Spec => []IInv
BY InitEstablishesIInv, NextKeepsIInv, PTL DEF Spec

\* A registered file that still exists has a row, through failed deletions, lost
\* answers, crashes and restarts.
THEOREM RegisteredFilesTracked == Spec => []RegisteredFilesStayTracked
BY Invariance, PTL DEF IInv

\* What the cleanup read before its awaits still holds when it writes.
THEOREM SnapshotCurrent == Spec => []PendingSnapshotIsCurrent
BY Invariance, PTL DEF IInv

\* Every variable keeps its type.
THEOREM TypeCorrect == Spec => []TypeOK
<1>1. IInv /\ DocumentInv => TypeOK
  <2> SUFFICES ASSUME IInv, DocumentInv PROVE TypeOK
    OBVIOUS
  <2>1. ASSUME NEW n \in 0 .. MaxPages PROVE FirstPages(n) \in Seq(0 .. MaxPages)
    BY RemoteConstants DEF FirstPages
  <2>2. pc \in InChunk => start \in 0 .. MaxPages
    BY DEF DocumentInv
  <2>3. results \in Seq(0 .. MaxPages)
    BY <2>1, <2>2, RemoteConstants DEF DocumentInv
  <2>4. stored \subseteq FileIds /\ registered \subseteq FileIds
    <3>1. /\ uploaded \in 0 .. MaxFiles
          /\ stored \subseteq 1 .. uploaded /\ registered \subseteq 1 .. uploaded
      BY DEF IInv, FilesInv
    <3>2. \A f \in 1 .. uploaded : f \in 1 .. MaxFiles
      BY <3>1, RemoteConstants
    <3> QED
      BY <3>1, <3>2 DEF FileIds
  <2> QED
    BY <2>3, <2>4 DEF TypeOK, IInv, FilesInv, States, DocumentInv
<1> QED
  BY <1>1, Invariance, InitEstablishesDocumentInv, NextKeepsDocumentInv, PTL DEF Spec

-----------------------------------------------------------------------------
(* Files that exist unknown to the sidecar.                                *)

Lost == stored \ (Tracked \union InTransit)

LEMMA LostIsFinite ==
  ASSUME FilesInv
  PROVE  IsFiniteSet(Lost) /\ Cardinality(Lost) \in Nat
<1>1. stored \subseteq 1 .. uploaded /\ uploaded \in Int
  BY RemoteConstants DEF FilesInv
<1>2. IsFiniteSet(1 .. uploaded)
  BY <1>1, FS_Interval
<1>3. Lost \in SUBSET (1 .. uploaded)
  BY <1>1 DEF Lost
<1>4. IsFiniteSet(Lost)
  BY <1>2, <1>3, FS_Subset
<1> QED
  BY <1>4, FS_CardinalityType

LEMMA NoFileLost ==
  ASSUME FilesInv, LostFilesHaveAFault, NEW next \in SUBSET Lost, NEW count \in Nat, count >= faults
  PROVE  Cardinality(next) <= count
<1>1. Cardinality(Lost) <= faults /\ faults \in Nat
  BY DEF LostFilesHaveAFault, Lost, FilesInv
<1>2. /\ Cardinality(next) <= Cardinality(Lost)
      /\ Cardinality(next) \in Nat /\ Cardinality(Lost) \in Nat
  BY LostIsFinite, FS_Subset, FS_CardinalityType
<1> QED
  BY <1>1, <1>2

LEMMA OneFileLost ==
  ASSUME FilesInv, LostFilesHaveAFault, NEW f, NEW next \in SUBSET (Lost \union {f})
  PROVE  Cardinality(next) <= faults + 1
<1>1. Cardinality(Lost) <= faults /\ faults \in Nat
  BY DEF LostFilesHaveAFault, Lost, FilesInv
<1>2. /\ IsFiniteSet(Lost \union {f}) /\ Cardinality(Lost) \in Nat
      /\ Cardinality(Lost \union {f}) <= Cardinality(Lost) + 1
  <2>1. IsFiniteSet(Lost) /\ Cardinality(Lost) \in Nat
    BY LostIsFinite
  <2>2. /\ IsFiniteSet(Lost \union {f})
        /\ Cardinality(Lost \union {f})
             = IF f \in Lost THEN Cardinality(Lost) ELSE Cardinality(Lost) + 1
    BY <2>1, FS_AddElement
  <2> QED
    BY <2>1, <2>2
<1>3. /\ Cardinality(next) <= Cardinality(Lost \union {f})
      /\ Cardinality(next) \in Nat /\ Cardinality(Lost \union {f}) \in Nat
  BY <1>2, FS_Subset, FS_CardinalityType
<1> QED
  BY <1>1, <1>2, <1>3

\* A step loses no file, or it is a fault and loses one.
LEMMA StepLosesAtMostOne ==
  ASSUME IInv, [Next]_vars
  PROVE  \/ Lost' \subseteq Lost /\ faults' \in Nat /\ faults' >= faults
         \/ faults' = faults + 1 /\ \E f \in Nat : Lost' \subseteq Lost \union {f}
<1> USE DEF provider, document, loop
<1>1. FilesInv /\ HandInv /\ faults \in Nat /\ uploaded \in Nat /\ file \in Nat
  BY DEF IInv, FilesInv, FileIds, None
<1>2. CASE BeginCleanup \/ NoJobDue \/ BeginAttempt \/ Ocr \/ UseContent \/ Shutdown \/ Restart
           \/ Tick \/ UNCHANGED vars
  <2>1. UNCHANGED <<stored, rows, faults>> /\ InTransit' = InTransit
    BY <1>2 DEF BeginCleanup, NoJobDue, BeginAttempt, Ocr, UseContent, EndAttempt, Shutdown,
       Restart, Tick, vars, InTransit
  <2> QED
    BY <1>1, <2>1 DEF Lost, Tracked
<1>3. CASE CleanupDelete \/ InlineDelete
  <2>1. PICK f : Delete(f) /\ UNCHANGED rows /\ InTransit' = {} /\ InTransit = {}
    BY <1>3 DEF CleanupDelete, InlineDelete, InTransit
  <2>2. stored' \subseteq stored /\ faults' \in Nat /\ faults' >= faults
    BY <1>1, <2>1, DeleteEffect
  <2> QED
    BY <2>1, <2>2 DEF Lost, Tracked
<1>4. CASE SaveCleanup
  <2>1. /\ UNCHANGED <<stored, faults>> /\ InTransit' = {} /\ InTransit = {}
        /\ rows' = CleanupOutcome(RecordInHand)
    BY <1>4 DEF SaveCleanup, InTransit
  <2>2. RecordInHand \in pending /\ RecordInHand.file = file
    BY <1>1, <1>4 DEF HandInv, SaveCleanup, RecordInHand
  <2>3. PICK record \in pending : record = RecordInHand /\ record.file = file
    BY <2>2
  <2>4. file \in Tracked /\ record.delete_attempts \in Nat
    BY <2>3 DEF IInv, PendingSnapshotIsCurrent, FilesInv, PendingRemoteFile
  <2>5. Tracked \intersect stored \subseteq Tracked'
    <3>1. CASE answer = "success"
      <4>1. file \notin stored /\ rows' = RemoveRemoteFile(file)
        BY <1>1, <1>4, <2>1, <2>3, <3>1 DEF HandInv, SaveCleanup, CleanupOutcome
      <4> QED
        BY <1>1, <4>1, RemoveEffect
    <3>2. CASE answer # "success"
      <4>1. rows' = RescheduleRemoteFile(file, record.delete_attempts)
        BY <2>1, <2>3, <3>2 DEF CleanupOutcome
      <4> QED
        BY <1>1, <2>4, <4>1, RescheduleEffect
    <3> QED
      BY <3>1, <3>2
  <2> QED
    BY <1>1, <2>1, <2>5 DEF Lost
<1>5. CASE Upload
  <2>1. /\ stored' = stored \union {uploaded'} /\ InTransit' = {uploaded'} /\ InTransit = {}
        /\ UNCHANGED <<rows, faults>>
    BY <1>5 DEF Upload, InTransit
  <2> QED
    BY <1>1, <2>1 DEF Lost, Tracked
<1>6. CASE UploadFails
  <2>1. UNCHANGED rows /\ InTransit' = {} /\ InTransit = {}
    BY <1>6 DEF UploadFails, EndAttempt, InTransit
  <2>2. CASE UNCHANGED <<stored, faults>>
    BY <1>1, <2>1, <2>2 DEF Lost, Tracked
  <2>3. CASE /\ faults' = faults + 1 /\ uploaded' = uploaded + 1
             /\ stored' = stored \union {uploaded'}
    BY <1>1, <2>1, <2>3 DEF Lost, Tracked
  <2> QED
    BY <1>6, <2>2, <2>3 DEF UploadFails, Fault
<1>7. CASE Register
  <2>1. /\ UNCHANGED <<stored, faults>> /\ InTransit' = {} /\ InTransit = {file}
        /\ rows' = RegisterRemoteFile(file)
    BY <1>7 DEF Register, InTransit
  <2>2. Tracked' = Tracked \union {file}
    BY <1>1, <2>1, RegisterEffect
  <2> QED
    BY <1>1, <2>1, <2>2 DEF Lost
<1>8. CASE RegisterFails \/ InlineRemovalFails \/ StorageFailure \/ Crash
  <2>1. /\ UNCHANGED <<stored, rows>> /\ faults' = faults + 1 /\ InTransit' = {}
        /\ InTransit \subseteq {file}
    BY <1>8 DEF RegisterFails, InlineRemovalFails, EndAttempt, StorageFailure, Crash, Fault,
       InTransit
  <2> QED
    BY <1>1, <2>1 DEF Lost, Tracked
<1>9. CASE NextChunk \/ ChunkFails
  <2>1. /\ UNCHANGED <<stored, faults>> /\ InTransit' = {} /\ InTransit = {}
        /\ rows' = InlineOutcome /\ pc = "deleted"
    BY <1>9 DEF NextChunk, ChunkFails, EndAttempt, InTransit
  <2>2. CASE answer = "success"
    <3>1. file \notin stored /\ rows' = RemoveRemoteFile(file)
      BY <1>1, <2>1, <2>2 DEF HandInv, InlineOutcome
    <3>2. Tracked' = Tracked \ {file}
      BY <1>1, <3>1, RemoveEffect
    <3> QED
      BY <1>1, <2>1, <3>1, <3>2 DEF Lost
  <2>3. CASE answer # "success"
    BY <1>1, <2>1, <2>3 DEF InlineOutcome, Lost, Tracked
  <2> QED
    BY <2>2, <2>3
<1> QED
  BY <1>2, <1>3, <1>4, <1>5, <1>6, <1>7, <1>8, <1>9 DEF Next, Worker

LEMMA NextKeepsLost == IInv /\ LostFilesHaveAFault /\ [Next]_vars => LostFilesHaveAFault'
<1> SUFFICES ASSUME IInv, LostFilesHaveAFault, [Next]_vars
             PROVE  Cardinality(Lost') <= faults'
  BY DEF LostFilesHaveAFault, Lost
<1>1. CASE Lost' \subseteq Lost /\ faults' \in Nat /\ faults' >= faults
  BY <1>1, NoFileLost DEF IInv
<1>2. CASE faults' = faults + 1 /\ \E f \in Nat : Lost' \subseteq Lost \union {f}
  BY <1>2, OneFileLost DEF IInv
<1> QED
  BY <1>1, <1>2, StepLosesAtMostOne

\* However many documents are recognised, a file that nobody will ever delete goes
\* back to a failed call or a crash of its own.
THEOREM LostFilesAccounted == Spec => []LostFilesHaveAFault
<1>1. Init => LostFilesHaveAFault
  <2> SUFFICES ASSUME Init PROVE LostFilesHaveAFault
    OBVIOUS
  <2>1. stored \ (Tracked \union InTransit) = {} /\ faults = 0
    BY DEF Init
  <2> QED
    BY <2>1, FS_EmptySet DEF LostFilesHaveAFault
<1> QED
  BY <1>1, NextKeepsLost, Invariance, PTL DEF Spec

-----------------------------------------------------------------------------
(* The sum of the delays.  DelaySum is recursive, so that it has the value  *)
(* its definition gives only if some function has it: the partial sums up  *)
(* to n exist for each n, and they agree where they meet.                  *)

LessThan == {pair \in Nat \X Nat : pair[1] < pair[2]}

\* What makes up for induction: a set of numbers has a least one.
LEMMA LeastNumber ==
  ASSUME NEW T, T \subseteq Nat, T # {}
  PROVE  \E x \in T : \A y \in T : x <= y
<1>1. IsWellFoundedOn(LessThan, Nat)
  BY NatLessThanWellFounded DEF OpToRel, LessThan
<1>2. PICK x \in T : \A y \in T : <<y, x>> \notin LessThan
  BY <1>1, WFMin
<1>3. ASSUME NEW y \in T PROVE x <= y
  <2>1. <<y, x>> \in Nat \X Nat /\ <<y, x>> \notin LessThan
    BY <1>2
  <2>2. ~ (<<y, x>>[1] < <<y, x>>[2])
    BY <2>1, Zenon DEF LessThan
  <2> QED
    BY <2>2
<1> QED
  BY <1>3

PartialSums(n) ==
    {h \in [0 .. n -> Int] :
        h[0] = 0 /\ \A i \in 1 .. n : h[i] = h[i - 1] + CleanupDelay(i - 1)}

LEMMA PartialSumsExist == \A n \in Nat : PartialSums(n) # {}
<1> DEFINE T == {n \in Nat : PartialSums(n) = {}}
<1> SUFFICES ASSUME T # {} PROVE FALSE
  OBVIOUS
<1>1. PICK m \in T : \A y \in T : m <= y
  <2> HIDE DEF T
  <2>1. T \subseteq Nat
    BY DEF T
  <2> QED
    BY <2>1, LeastNumber
<1>2. m \in Nat /\ PartialSums(m) = {}
  OBVIOUS
<1>3. m # 0
  <2> SUFFICES ASSUME m = 0 PROVE FALSE
    OBVIOUS
  <2>1. [i \in 0 .. 0 |-> 0] \in PartialSums(0)
    BY DEF PartialSums
  <2> QED
    BY <1>2, <2>1
<1>4. m - 1 \in Nat /\ m - 1 \notin T
  BY <1>1, <1>2, <1>3
<1>5. PICK h : h \in PartialSums(m - 1)
  BY <1>4
<1> DEFINE g == [i \in 0 .. m |-> IF i = m THEN h[m - 1] + CleanupDelay(m - 1) ELSE h[i]]
<1>6. g \in PartialSums(m)
  <2>1. /\ h \in [0 .. m - 1 -> Int] /\ h[0] = 0
        /\ \A i \in 1 .. m - 1 : h[i] = h[i - 1] + CleanupDelay(i - 1)
    BY <1>5 DEF PartialSums
  <2>2. CleanupDelay(m - 1) \in Int
    BY <1>4, CleanupDelayIsInteger
  <2>3. h[m - 1] \in Int
    BY <1>4, <2>1
  <2>4. g \in [0 .. m -> Int]
    BY <1>2, <1>3, <2>1, <2>2, <2>3
  <2>5. g[0] = 0
    BY <1>2, <1>3, <2>1
  <2>6. ASSUME NEW i \in 1 .. m PROVE g[i] = g[i - 1] + CleanupDelay(i - 1)
    <3>1. CASE i = m
      BY <1>2, <1>3, <3>1
    <3>2. CASE i # m
      BY <1>2, <2>1, <3>2
    <3> QED
      BY <3>1, <3>2
  <2> HIDE DEF g
  <2> QED
    BY <2>4, <2>5, <2>6 DEF PartialSums
<1> QED
  BY <1>2, <1>6

LEMMA PartialSumsAgree ==
  ASSUME NEW n \in Nat, NEW m \in Nat, NEW g \in PartialSums(n), NEW h \in PartialSums(m),
         NEW k \in Nat, k <= n, k <= m
  PROVE  g[k] = h[k]
<1> DEFINE T == {i \in Nat : i <= n /\ i <= m /\ g[i] # h[i]}
<1> SUFFICES ASSUME T # {} PROVE FALSE
  OBVIOUS
<1>1. PICK i \in T : \A y \in T : i <= y
  <2> HIDE DEF T
  <2>1. T \subseteq Nat
    BY DEF T
  <2> QED
    BY <2>1, LeastNumber
<1>2. i \in Nat /\ i <= n /\ i <= m /\ g[i] # h[i]
  OBVIOUS
<1>3. g[0] = 0 /\ h[0] = 0
  BY DEF PartialSums
<1>4. i - 1 \in Nat /\ i - 1 \notin T
  BY <1>1, <1>2, <1>3
<1>5. g[i - 1] = h[i - 1]
  BY <1>2, <1>4
<1>6. g[i] = g[i - 1] + CleanupDelay(i - 1) /\ h[i] = h[i - 1] + CleanupDelay(i - 1)
  BY <1>2, <1>4 DEF PartialSums
<1> QED
  BY <1>2, <1>5, <1>6

\* DelaySum has the value its recursive definition gives.
LEMMA DelaySumEquation ==
  DelaySum = [n \in Nat |-> IF n = 0 THEN 0 ELSE DelaySum[n - 1] + CleanupDelay(n - 1)]
<1> DEFINE Sums(n) == CHOOSE h : h \in PartialSums(n)
           S == [n \in Nat |-> Sums(n)[n]]
<1>1. ASSUME NEW n \in Nat PROVE Sums(n) \in PartialSums(n)
  BY PartialSumsExist
<1>2. S[0] = 0
  BY <1>1 DEF PartialSums
<1>3. ASSUME NEW n \in Nat, n # 0 PROVE S[n] = S[n - 1] + CleanupDelay(n - 1)
  <2>1. n - 1 \in Nat
    BY <1>3
  <2>2. Sums(n) \in PartialSums(n) /\ Sums(n - 1) \in PartialSums(n - 1)
    BY <1>1, <2>1
  <2> HIDE DEF Sums
  <2>3. Sums(n)[n] = Sums(n)[n - 1] + CleanupDelay(n - 1)
    BY <1>3, <2>2 DEF PartialSums
  <2>4. Sums(n)[n - 1] = Sums(n - 1)[n - 1]
    BY <1>3, <2>1, <2>2, PartialSumsAgree
  <2> QED
    BY <2>1, <2>3, <2>4
<1>4. S = [n \in Nat |-> IF n = 0 THEN 0 ELSE S[n - 1] + CleanupDelay(n - 1)]
  <2>1. S = [n \in Nat |-> S[n]]
    OBVIOUS
  <2> HIDE DEF S
  <2>2. \A n \in Nat : S[n] = IF n = 0 THEN 0 ELSE S[n - 1] + CleanupDelay(n - 1)
    BY <1>2, <1>3
  <2> QED
    BY <2>1, <2>2
<1> HIDE DEF S
<1> QED
  BY <1>4 DEF DelaySum

LEMMA DelaySumStep ==
  ASSUME NEW n \in Nat
  PROVE  DelaySum[n] \in Int /\ DelaySum[n + 1] = DelaySum[n] + CleanupDelay(n)
<1>1. DelaySum[0] = 0
  BY DelaySumEquation
<1>2. ASSUME NEW k \in Nat PROVE DelaySum[k + 1] = DelaySum[k] + CleanupDelay(k)
  <2>1. k + 1 \in Nat /\ k + 1 # 0 /\ (k + 1) - 1 = k
    OBVIOUS
  <2> QED
    BY <2>1, DelaySumEquation
<1> DEFINE T == {k \in Nat : DelaySum[k] \notin Int}
<1>3. T = {}
  <2> SUFFICES ASSUME T # {} PROVE FALSE
    OBVIOUS
  <2>1. PICK k \in T : \A y \in T : k <= y
    <3> HIDE DEF T
    <3>1. T \subseteq Nat
      BY DEF T
    <3> QED
      BY <3>1, LeastNumber
  <2>2. k - 1 \in Nat /\ k - 1 \notin T
    BY <1>1, <2>1
  <2>3. DelaySum[k - 1] \in Int /\ CleanupDelay(k - 1) \in Int /\ (k - 1) + 1 = k
    BY <2>2, CleanupDelayIsInteger
  <2>4. DelaySum[k] = DelaySum[k - 1] + CleanupDelay(k - 1)
    BY <1>2, <2>2, <2>3
  <2>5. DelaySum[k] \in Int
    BY <2>3, <2>4
  <2> QED
    BY <2>1, <2>5
<1> QED
  BY <1>2, <1>3

-----------------------------------------------------------------------------
(* Failed cleanups back off.                                               *)

BackoffInv == Tracked \subseteq registered /\ CleanupsBackOff

\* A failed cleanup: the delay it adds comes from what the loop read, and the time
\* it starts from is not before the record was due.
LEMMA RescheduleBacksOff ==
  ASSUME IInv, BackoffInv, NEW record \in pending, UNCHANGED registeredAt,
         rows' = RescheduleRemoteFile(record.file, record.delete_attempts)
  PROVE  BackoffInv'
<1> DEFINE f == record.file
           n == record.delete_attempts
<1>1. /\ f \in Tracked /\ record.due <= now
      /\ rows[f] = [delete_attempts |-> n, next_attempt_at |-> record.due]
  BY DEF IInv, PendingSnapshotIsCurrent
<1>2. n \in Nat /\ record.due \in Int /\ now \in Int
  BY DEF IInv, FilesInv, PendingRemoteFile
<1>3. Tracked' = Tracked /\ \A g \in Tracked \ {f} : rows'[g] = rows[g]
  BY <1>1, <1>2, RescheduleEffect DEF IInv
<1>4. registered' = registered
  BY DEF registered
<1>5. rows[f].delete_attempts = n /\ rows[f].next_attempt_at = record.due
  BY <1>1
<1>6. rows'[f].delete_attempts = n + 1 /\ rows'[f].next_attempt_at = now + CleanupDelay(n)
  BY <1>1, <1>5 DEF RescheduleRemoteFile, IInv, FilesInv
<1>7. registeredAt[f] \in Int
  <2>1. registeredAt \in [registered -> Nat] /\ Tracked \subseteq registered
    BY DEF IInv, FilesInv, BackoffInv
  <2> QED
    BY <1>1, <2>1
<1>8. record.due >= registeredAt[f] + DelaySum[n]
  BY <1>1, <1>5 DEF BackoffInv, CleanupsBackOff
<1>9. CleanupDelay(n) \in Int /\ DelaySum[n] \in Int
      /\ DelaySum[n + 1] = DelaySum[n] + CleanupDelay(n)
  BY <1>2, CleanupDelayIsInteger, DelaySumStep
<1>10. now + CleanupDelay(n) >= registeredAt[f] + DelaySum[n + 1]
  <2> HIDE DEF f, n
  <2> QED
    BY <1>1, <1>2, <1>7, <1>8, <1>9
<1>11. ASSUME NEW g \in Tracked'
       PROVE  rows'[g].next_attempt_at
                >= registeredAt'[g] + DelaySum[rows'[g].delete_attempts]
  <2>1. CASE g = f
    BY <1>6, <1>10, <2>1
  <2>2. CASE g # f
    BY <1>3, <2>2 DEF BackoffInv, CleanupsBackOff
  <2> QED
    BY <2>1, <2>2
<1> QED
  BY <1>3, <1>4, <1>11 DEF BackoffInv, CleanupsBackOff

LEMMA RemoveBacksOff ==
  ASSUME IInv, BackoffInv, NEW f, rows' = RemoveRemoteFile(f), UNCHANGED registeredAt
  PROVE  BackoffInv'
<1>1. Tracked' = Tracked \ {f} /\ \A g \in Tracked \ {f} : rows'[g] = rows[g]
  BY RemoveEffect DEF IInv
<1> QED
  BY <1>1 DEF BackoffInv, CleanupsBackOff, registered

LEMMA RegisterBacksOff ==
  ASSUME IInv, BackoffInv, Register
  PROVE  BackoffInv'
<1>1. /\ rows' = RegisterRemoteFile(file)
      /\ registeredAt' = [f \in registered \union {file} |->
                             IF f = file THEN clock ELSE registeredAt[f]]
  BY DEF Register
<1>2. Tracked' = Tracked \union {file} /\ registered' = registered \union {file}
  BY <1>1 DEF RegisterRemoteFile, Tracked, registered
<1>3. ASSUME NEW g \in Tracked'
      PROVE  rows'[g].next_attempt_at >= registeredAt'[g] + DelaySum[rows'[g].delete_attempts]
  <2>1. CASE g = file
    <3>1. rows'[g] = [delete_attempts |-> 0, next_attempt_at |-> clock]
          /\ registeredAt'[g] = clock
      BY <1>1, <1>2, <2>1 DEF RegisterRemoteFile
    <3>2. DelaySum[0] = 0 /\ clock \in Int
      BY DelaySumEquation DEF IInv, FilesInv
    <3> QED
      BY <3>1, <3>2
  <2>2. CASE g # file
    <3>1. g \in Tracked /\ rows'[g] = rows[g] /\ registeredAt'[g] = registeredAt[g]
      BY <1>1, <1>2, <2>2 DEF RegisterRemoteFile, BackoffInv
    <3> QED
      BY <3>1 DEF BackoffInv, CleanupsBackOff
  <2> QED
    BY <2>1, <2>2
<1> QED
  BY <1>2, <1>3 DEF BackoffInv, CleanupsBackOff

LEMMA NextKeepsBackoff == IInv /\ BackoffInv /\ [Next]_vars => BackoffInv'
<1> USE DEF provider, document, loop
<1> SUFFICES ASSUME IInv, BackoffInv, [Next]_vars PROVE BackoffInv'
  OBVIOUS
<1>1. ASSUME UNCHANGED <<rows, registeredAt>> PROVE BackoffInv'
  BY <1>1 DEF BackoffInv, CleanupsBackOff, Tracked, registered
<1>2. CASE SaveCleanup
  <2>1. /\ UNCHANGED registeredAt /\ rows' = CleanupOutcome(RecordInHand)
        /\ \E record \in pending : record.file = file
    BY <1>2 DEF SaveCleanup, IInv, HandInv
  <2>2. PICK record \in pending : record = RecordInHand
    BY <2>1 DEF RecordInHand
  <2>3. \/ rows' = RemoveRemoteFile(record.file)
        \/ rows' = RescheduleRemoteFile(record.file, record.delete_attempts)
    BY <2>1, <2>2 DEF CleanupOutcome
  <2> QED
    BY <2>1, <2>3, RemoveBacksOff, RescheduleBacksOff
<1>3. CASE Register
  BY <1>3, RegisterBacksOff
<1>4. CASE NextChunk \/ ChunkFails
  <2>1. UNCHANGED registeredAt /\ (rows' = RemoveRemoteFile(file) \/ UNCHANGED rows)
    BY <1>4 DEF NextChunk, ChunkFails, InlineOutcome
  <2> QED
    BY <1>1, <2>1, RemoveBacksOff
<1>5. CASE BeginCleanup \/ CleanupDelete \/ NoJobDue \/ BeginAttempt \/ Upload \/ UploadFails
           \/ RegisterFails \/ Ocr \/ InlineDelete \/ InlineRemovalFails \/ UseContent
           \/ StorageFailure \/ Crash \/ Shutdown \/ Restart \/ Tick \/ UNCHANGED vars
  BY <1>1, <1>5 DEF BeginCleanup, CleanupDelete, NoJobDue, BeginAttempt, Upload, UploadFails,
     RegisterFails, Ocr, InlineDelete, InlineRemovalFails, UseContent, StorageFailure, Crash,
     Shutdown, Restart, Tick, vars
<1> QED
  BY <1>2, <1>3, <1>4, <1>5 DEF Next, Worker

\* However often the cleanup of a file fails, and whatever crashes come in between,
\* the n-th retry comes no earlier than the first n delays after the file's
\* registration: no failed cleanup shortens the wait of an earlier one.
THEOREM CleanupsAreSpaced == Spec => []CleanupsBackOff
<1>1. Init => BackoffInv
  BY DEF Init, BackoffInv, CleanupsBackOff, Tracked, registered
<1>2. BackoffInv => CleanupsBackOff
  BY DEF BackoffInv
<1> QED
  BY <1>1, <1>2, NextKeepsBackoff, Invariance, PTL DEF Spec
=============================================================================
