----------------------------- MODULE MCJobQueue -----------------------------
(***************************************************************************)
(* The instance of JobQueue for TLC: its constants are model values.       *)
(***************************************************************************)
EXTENDS JobQueue

=============================================================================
