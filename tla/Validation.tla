------------------------------ MODULE Validation ------------------------------
(***************************************************************************)
(* build_validated_update: what Mistral says about a document becomes the  *)
(* body of a PATCH, or nothing at all.                                     *)
(*                                                                         *)
(* A title is what the rules look at: its length as it came and with blanks *)
(* normalised, and what it contains or equals.  Days are numbered.         *)
(***************************************************************************)
EXTENDS Integers

CONSTANTS
    MinTitle, MaxTitle,     \* the literals 5 and 128
    MinDate,                \* _MIN_DOCUMENT_DATE
    Null,                   \* no date
    Malformed               \* a string that is not an ISO date

Title == [length : Nat, normal_length : Nat, line_break : BOOLEAN, alnum : BOOLEAN,
          equals : {"nothing", "generic", "filename"}]

\* " ".join(title.split()); what a title equals is the same before and after.
Normalized(title) == [title EXCEPT !.length = title.normal_length]

Fits(title) == Normalized(title).length \in MinTitle .. MaxTitle

ValidTitle(title) ==
    /\ ~title.line_break
    /\ Fits(title)
    /\ title.alnum
    /\ title.equals \notin {"generic", "filename"}

ValidCreated(created, today) ==
    created \notin {Null, Malformed} /\ created \in MinDate .. today + 1

Known(proposed, tags_by_name) == proposed \intersect DOMAIN tags_by_name
ResolveTagIds(proposed, tags_by_name) ==
    {tags_by_name[n] : n \in Known(proposed, tags_by_name)}

Warnings(metadata, tags_by_name, today) ==
    {<<"unknown_tag", n>> : n \in metadata.tags \ DOMAIN tags_by_name}
    \union IF metadata.created = Null \/ ValidCreated(metadata.created, today) THEN {}
           ELSE {<<"invalid_created">>}

\* _validate_content, and _validate_title, which raise.
Acceptable(metadata, content_alnum) == content_alnum /\ ValidTitle(metadata.title)

\* `created' is left out of the payload unless it is valid.
BuildValidatedUpdate(metadata, current_tag_ids, tags_by_name, today) ==
    [title |-> Normalized(metadata.title),
     tags |-> current_tag_ids \union ResolveTagIds(metadata.tags, tags_by_name),
     created |-> IF ValidCreated(metadata.created, today) THEN metadata.created ELSE Null,
     warnings |-> Warnings(metadata, tags_by_name, today)]
=============================================================================
