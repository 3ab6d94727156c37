-------------------------- MODULE MCEvidenceAudit --------------------------
(***************************************************************************)
(* Small instances of EvidenceAudit.  Runs are interchangeable.            *)
(***************************************************************************)
EXTENDS EvidenceAudit, TLC

MCSymmetry == Permutations(Run)

=============================================================================
