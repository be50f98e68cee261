--------------------------- MODULE MCRestartJobs ---------------------------
(***************************************************************************)
(* Finite instances of RestartJobs for TLC.                                *)
(***************************************************************************)
EXTENDS RestartJobs
=============================================================================
