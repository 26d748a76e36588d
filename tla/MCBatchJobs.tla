---------------------------- MODULE MCBatchJobs ----------------------------
(***************************************************************************)
(* BatchJobs for TLC.                                                      *)
(***************************************************************************)
EXTENDS BatchJobs

=============================================================================
