-------------------------- MODULE MCLegacyBackup --------------------------
(* LegacyBackup with a few old rows. *)
EXTENDS LegacyBackup, TLC

Symmetry ==
    Permutations(Box) \union Permutations(Name) \union Permutations(Doc) \union Permutations(Export)

Begun == {x \in Export : estep'[x] # "upload"}

\* The other old rows mean nothing to the second script and to the application:
\* these are looked at after one run of the first script only, and over tables
\* whose rows refer to nothing.
AfterDevices ==
    backups' > 0 \/ swaps' > 0 \/ Begun # {} => runs = 1 /\ \A r \in Child : ref[r] = None

\* Swaps and exports share no state: a second export and a swap are looked at apart.
SwapsApart == swaps' = 0 \/ Cardinality(Begun) <= 1

MCNext == Next /\ AfterDevices /\ SwapsApart

MCSpec == Init /\ [][MCNext]_vars

=============================================================================
