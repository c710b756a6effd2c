--------------------------- MODULE MCSharedState ---------------------------
(* SharedState with two keys and two values. *)
EXTENDS SharedState

=============================================================================
