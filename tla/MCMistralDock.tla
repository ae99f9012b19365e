---------------------------- MODULE MCMistralDock ----------------------------
(* An instance of MistralDock for TLC. *)
EXTENDS MistralDock

CONSTANTS invoice

MCNameOf == [t \in {} |-> invoice]
=============================================================================
