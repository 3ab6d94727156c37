-------------------------- MODULE MCEvidenceRunner --------------------------
(***************************************************************************)
(* Small instances of EvidenceRunner.  Runs are interchangeable, and so    *)
(* are the names of their directories.                                     *)
(***************************************************************************)
EXTENDS EvidenceRunner, TLC

MCSymmetry == Permutations(Run)

=============================================================================
