-------------------------- MODULE MCDocumentUpdate --------------------------
EXTENDS DocumentUpdate, TLC

CONSTANTS t1, t2, o1, o2, invoice

\* Two tags of one name: of different owners, or of one that is given away and
\* created anew.
MCTags == {t1, t2}
MCOwners == {o1, o2}
MCNames == {invoice}
MCNameOf == [t \in MCTags |-> invoice]

\* One tag and one owner, where tags do not matter.
MCOneTag == {t1}
MCOneOwner == {o1}
MCNameOfOne == [t \in MCOneTag |-> invoice]

MCSymmetry == Permutations(MCTags) \union Permutations(MCOwners)
=============================================================================
