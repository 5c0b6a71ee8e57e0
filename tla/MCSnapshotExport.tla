-------------------------- MODULE MCSnapshotExport --------------------------
(* Instances of SnapshotExport for TLC.  Runs are interchangeable: the     *)
(* safety runs, which check no liveness, declare the symmetry.             *)
EXTENDS SnapshotExportRefines, TLC

RunSymmetry == Permutations(Runs)
=============================================================================
