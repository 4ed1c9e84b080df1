-------------------------- MODULE MCRecordChanges --------------------------
(* RecordChanges with few rows and requests. *)
EXTENDS RecordChanges, TLC

Symmetry ==
    Permutations(Op \ Migrated)

=============================================================================
