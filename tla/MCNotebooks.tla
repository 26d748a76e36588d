---------------------------- MODULE MCNotebooks ----------------------------
(***************************************************************************)
(* Notebooks for TLC.                                                      *)
(***************************************************************************)
EXTENDS Notebooks

=============================================================================
