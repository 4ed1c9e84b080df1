-------------------------- MODULE InstallRegistry --------------------------
(***************************************************************************)
(* What the rest of the backend may assume of the registry of installed    *)
(* boxes: one table "installation point -> box", changed atomically.       *)
(*                                                                         *)
(* A Device is an installation point (a row of Devices, identified by its  *)
(* id); a Serial is a physical box.  A box is installed in at most one     *)
(* point, a point holds at most one box, and installing a box that sits    *)
(* elsewhere moves it.  DeviceAssignment implements this with seven SQL    *)
(* statements per call; AssignmentCache is built on top of it.             *)
(***************************************************************************)
EXTENDS Naturals

CONSTANTS
    Device,   \* installation points (Devices.id)
    Serial,   \* boxes (Hardware.serial)
    None      \* SQL NULL

VARIABLES
    registered,   \* the installation points that exist
    installed     \* the box in each of them, or None

registryVars == <<registered, installed>>

RegistryTypeOK ==
    /\ registered \in SUBSET Device
    /\ installed \in [Device -> Serial \union {None}]

\* No box is in two points, and only existing points hold boxes.
RegistryInit ==
    /\ RegistryTypeOK
    /\ \A d \in Device : installed[d] # None => d \in registered
    /\ \A d, e \in Device :
          installed[d] = installed[e] /\ installed[d] # None => d = e

\* A new, empty installation point.
Register(d) ==
    /\ d \notin registered
    /\ registered' = registered \union {d}
    /\ UNCHANGED installed

\* A new installation point with a box that is installed nowhere.
RegisterWith(d, s) ==
    /\ d \notin registered
    /\ \A e \in Device : installed[e] # s
    /\ registered' = registered \union {d}
    /\ installed' = [installed EXCEPT ![d] = s]

\* Box s goes into point d: out of the point it was in, and whatever was in
\* d comes out.
Install(d, s) ==
    /\ d \in registered
    /\ installed' = [e \in Device |->
          IF e = d THEN s
          ELSE IF installed[e] = s THEN None
          ELSE installed[e]]
    /\ UNCHANGED registered

RegistryNext ==
    \E d \in Device :
       \/ Register(d)
       \/ \E s \in Serial : RegisterWith(d, s) \/ Install(d, s)

RegistrySpec == RegistryInit /\ [][RegistryNext]_registryVars

=============================================================================
