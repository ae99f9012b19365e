--------------------------- MODULE ValidatedUpdate ---------------------------
(***************************************************************************)
(* The last part of DocumentProcessor._process before the PATCH: the tags  *)
(* of the owner are listed again and, with no await after the last page,   *)
(* what Mistral proposed is validated against them.  The worker then       *)
(* finishes the run with what became of it; GET /v1/documents/{id}/runs    *)
(* reads no more than that row.                                            *)
(***************************************************************************)
EXTENDS TagListing, Validation

CONSTANTS
    Titles,     \* the titles, dates and tag names Mistral may answer with
    Dates,
    Today,      \* the day of the validation
    None        \* no update, no outcome yet, no error, no proposal

ASSUME ValidationConstants ==
    /\ MinTitle \in Nat /\ MaxTitle \in Nat /\ MinDate \in Int /\ Today \in Int
    /\ Titles \subseteq Title
    /\ Dates \subseteq Int \union {Null, Malformed}

VARIABLES
    metadata,       \* DocumentMetadata that Mistral returned
    content_alnum,  \* the recognised content has an alphanumeric character
    current_tag_ids,    \* of the second read of the document
    update,         \* the ValidatedUpdate
    run             \* the columns of the run's row that finish_run writes

answer == <<metadata, content_alnum, current_tag_ids>>
vars == <<listing, users, answer, update, run>>

Metadata == [title : Titles, created : Dates, tags : SUBSET Names]

TypeOK ==
    /\ ListingTypeOK
    /\ metadata \in Metadata /\ content_alnum \in BOOLEAN /\ current_tag_ids \subseteq Tags
    /\ update = None \/ (update.title \in Title /\ update.tags \subseteq Tags)
    /\ run = None \/ run.state \in {"succeeded", "failed"}

Init ==
    /\ ListingInit
    /\ metadata \in Metadata /\ content_alnum \in BOOLEAN /\ current_tag_ids \in SUBSET Existing
    /\ update = None /\ run = None

List == ListingNext /\ UNCHANGED <<answer, update, run>>

Row(state, applied, error_code, proposal) ==
    [state |-> state, applied |-> applied, error_code |-> error_code, proposal |-> proposal]

Build ==
    /\ outcome = "done" /\ update = None
    /\ Acceptable(metadata, content_alnum)
    /\ update' = BuildValidatedUpdate(metadata, current_tag_ids, tags_by_name, Today)
    /\ UNCHANGED <<listing, users, answer, run>>

\* MetadataValidationError, permanent: the run fails and nothing of the answer is used.
Reject ==
    /\ outcome = "done" /\ run = None
    /\ ~Acceptable(metadata, content_alnum)
    /\ run' = Row("failed", FALSE, "MetadataValidationError", None)
    /\ UNCHANGED <<listing, users, answer, update>>

\* The payload, which is the proposal but for the content.
SafeProposal(payload) ==
    [title |-> payload.title, tags |-> payload.tags, created |-> payload.created]

\* A dry run, or the PATCH was answered.
SaveResult ==
    /\ update # None /\ run = None
    /\ \E applied \in BOOLEAN :
          run' = Row("succeeded", applied, None, SafeProposal(update))
    /\ UNCHANGED <<listing, users, answer, update>>

Next == List \/ Build \/ Reject \/ SaveResult

Spec == Init /\ [][Next]_vars /\ ListingFairness

-----------------------------------------------------------------------------
Built == update # None

\* A tag the update adds was the owner's, under a proposed name, at some moment of
\* the listing: pages that were read at different times never combine into a pair
\* of name and tag that did not exist.
AddedTagsWereTheOwners ==
    Built => \A t \in update.tags \ current_tag_ids :
                 \E n \in metadata.tags : <<n, t>> \in held

\* A proposed tag that was the owner's and was left alone throughout is applied;
\* each tag that was deleted or moved to a later place meanwhile pulls at most one
\* over the edge of a page, unseen.
Overlooked == {t \in Existing \ touched : /\ tags[t].owner = Owner
                                        /\ tags[t].name \in metadata.tags
                                        /\ t \notin update.tags}
ProposedTagsAreApplied == Built => Cardinality(Overlooked) <= departures

-----------------------------------------------------------------------------
(* What the documents say and the code does not do.                        *)

\* What the endpoint answers about a finished run.
ListRuns(row) ==
    {<<"state", row.state>>, <<"applied", row.applied>>, <<"error_code", row.error_code>>}
    \union (IF row.proposal = None THEN {}
             ELSE {<<field, row.proposal[field]>> : field \in DOMAIN row.proposal})

\* The run endpoint shows the validation warnings (README, step 3; the design says it
\* of /runs, and that an unknown tag is dropped and logged as a warning).
WarningsAreShown ==
    run # None /\ update # None => update.warnings \subseteq ListRuns(run)
=============================================================================
