---------------------------- MODULE MCDeviceLive ----------------------------
(* DeviceLive with few points, boxes and requests. *)
EXTENDS DeviceLive, TLC

Symmetry ==
    Permutations(Serial) \union Permutations(Note) \union Permutations(Device)
       \union Permutations(Edit \ Anonymous) \union Permutations(Anonymous)
       \union Permutations(Beat) \union Permutations(Swap)

=============================================================================
