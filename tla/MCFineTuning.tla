---------------------------- MODULE MCFineTuning ----------------------------
(***************************************************************************)
(* FineTuning for TLC.  Model ids are recycled once nothing refers to them,*)
(* so that a handful is enough for any number of attempts.                 *)
(***************************************************************************)
EXTENDS FineTuning, TLC

OneJob == {1}

TwoJobs == {1, 2}

\* Ids are compared for equality alone.  PreProcess chooses one that nothing
\* refers to; whichever it is, renaming ids leads from one outcome to another.
ModelSymmetry == Permutations(Models)

=============================================================================
