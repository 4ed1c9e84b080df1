------------------------ MODULE MCDeviceAssignment ------------------------
(* DeviceAssignment on small sets of points, boxes and requests. *)
EXTENDS DeviceAssignment, TLC

\* Calls are symmetric only within Seeds and within the rest.  For runs without
\* liveness, which symmetry does not preserve.
Symmetry ==
    Permutations(Device) \union Permutations(Serial) \union Permutations(Call \ Seeds)

=============================================================================
