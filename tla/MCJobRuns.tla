------------------------------ MODULE MCJobRuns ------------------------------
(***************************************************************************)
(* Small instances of JobRuns, given by the configurations alone.          *)
(***************************************************************************)
EXTENDS JobRuns
=============================================================================
