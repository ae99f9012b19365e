-------------------------- MODULE MCValidatedUpdate --------------------------
(* An instance of ValidatedUpdate for TLC: either users act and the title is  *)
(* plain, or nobody acts and every answer of Mistral is tried.                *)
EXTENDS ValidatedUpdate

CONSTANTS me, other

MCOwners == {me, other}

Plain == [length |-> 4, normal_length |-> 4, line_break |-> FALSE, alnum |-> TRUE,
          equals |-> "nothing"]

\* Lengths on both sides of both bounds, before and after blanks go.
MCTitles == {title \in [length : 2 .. 6, normal_length : 2 .. 6, line_break : BOOLEAN,
                        alnum : BOOLEAN, equals : {"nothing", "generic", "filename"}] :
                title.normal_length <= title.length}

MCDates == {Null, Malformed} \union {MinDate - 1, MinDate, Today, Today + 1, Today + 2}

MCInit ==
    /\ Init
    /\ \/ edits = MaxEdits /\ metadata.title = Plain /\ metadata.created = Null
          /\ content_alnum /\ current_tag_ids = {}
       \/ edits = 0 /\ current_tag_ids \in {{}, {2}}
          /\ tags = [t \in {1, 2} |-> [name |-> t, owner |-> IF t = 1 THEN me ELSE other]]

MCSpec == MCInit /\ [][Next]_vars /\ ListingFairness
=============================================================================
