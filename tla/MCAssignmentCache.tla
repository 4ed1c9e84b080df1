------------------------- MODULE MCAssignmentCache -------------------------
(* AssignmentCache on small sets. *)
EXTENDS AssignmentCache, TLC

\* Points, boxes, wards, requests and readers are interchangeable.
Symmetry ==
    Permutations(Device) \union Permutations(Serial) \union Permutations(Ward)
       \union Permutations(Request) \union Permutations(Reader)

=============================================================================
