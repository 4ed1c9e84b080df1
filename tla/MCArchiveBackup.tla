-------------------------- MODULE MCArchiveBackup --------------------------
(* ArchiveBackup with few readings and runs. *)
EXTENDS ArchiveBackup, TLC

Symmetry ==
    Permutations(Reading) \union Permutations(Cron) \union Permutations(Export \ Cron)
       \union Permutations(Restore) \union Permutations(Removal)

=============================================================================
