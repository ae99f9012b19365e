----------------------------- MODULE MCJobQueue -----------------------------
(* Instances of JobQueue for TLC. *)
EXTENDS JobQueue

CONSTANTS d1, d2

MCDocuments == {d1, d2}
MCOneDocument == {d1}
=============================================================================
