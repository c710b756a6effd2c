--------------------------- MODULE MCSubWorkflow ---------------------------
(***************************************************************************)
(* Small instances of SubWorkflow for TLC.                                 *)
(***************************************************************************)
EXTENDS SubWorkflow
=============================================================================
