--------------------------- MODULE LegacyDevices ---------------------------
(***************************************************************************)
(* The one-shot script that copies the old device database into this       *)
(* system's tables, and the ways it can be stopped and run again.          *)
(*                                                                         *)
(* The script has no transaction: each row is one awaited statement (three *)
(* for a device), so it may die between any two.  The manual then says to  *)
(* wipe devices and hardware and to start over, and that a run over a      *)
(* target that has rows already fails.                                     *)
(***************************************************************************)
EXTENDS Naturals

CONSTANTS
    Box,       \* serials of the old devices
    Name,      \* their staticNames
    Probe, Config, Repair, Warranty,   \* old rows
    MaxRuns,   \* bound: how often the script is started
    None       \* no value

RowsOf == <<Box, Probe, Config, Repair, Warranty>>   \* by stage
BySerial == Probe \union Config
Child == BySerial \union Repair \union Warranty

ASSUME LegacyAssumption ==
    /\ MaxRuns \in Nat
    /\ None \notin Box \union Name /\ Box \cap Name = {}
    /\ \A j, k \in 1 .. 5 : j # k => RowsOf[j] \cap RowsOf[k] = {}

VARIABLES
    nameOf,      \* old Devices: the staticName of each row
    ref,         \* what the other old rows refer to: a serial or a staticName
    stage,       \* 0: not running, 1..5: the table being copied, 6: done
    todo,        \* the rows of that table not yet copied
    row, step,   \* the device being copied, and its next statement
    copied,      \* the devices in serialToNewDeviceId and staticNameToSerial
    runs,        \* runs started
    hardware, devices, assigned,   \* new rows, named by the old serial
    copies       \* how often each other row is in the target

legacy  == <<nameOf, ref>>
script  == <<stage, todo, row, step, copied, runs>>
target  == <<hardware, devices, assigned, copies>>
deviceVars == <<legacy, script, target>>

\* configs_device_id_key, and repairs_seq_key: a repair keeps its seq.
Rejected(r) ==
    \/ r \in Config /\ \E c \in Config : copies[c] > 0 /\ ref[c] = ref[r]
    \/ r \in Repair /\ copies[r] > 0

-----------------------------------------------------------------------------

\* A run over a target that is migrated already is possible too.
Begin ==
    /\ stage \in {0, 6} /\ runs < MaxRuns
    /\ stage' = 1 /\ todo' = Box /\ step' = "hardware"
    /\ row' = None /\ copied' = {}
    /\ runs' = runs + 1
    /\ UNCHANGED <<legacy, target>>

UpsertHardware(b) ==
    /\ stage = 1 /\ step = "hardware" /\ b \in todo
    /\ hardware' = hardware \union {b}
    /\ row' = b /\ step' = "device"
    /\ UNCHANGED <<legacy, stage, todo, copied, runs, devices, assigned, copies>>

\* (mutant of CreateDevice) A point that an earlier run has made is passed over.
SkipExistingDevice ==
    /\ stage = 1 /\ step = "device"
    /\ IF row \in devices
       THEN todo' = todo \ {row} /\ row' = None /\ step' = "hardware" /\ UNCHANGED devices
       ELSE devices' = devices \union {row} /\ step' = "assignment" /\ UNCHANGED <<todo, row>>
    /\ UNCHANGED <<legacy, stage, copied, runs, hardware, assigned, copies>>

\* devices_static_name_key rejects a name the target has.
CreateDevice ==
    /\ stage = 1 /\ step = "device"
    /\ \A d \in devices : nameOf[d] # nameOf[row]
    /\ devices' = devices \union {row}
    /\ step' = "assignment"
    /\ UNCHANGED <<legacy, stage, todo, row, copied, runs, hardware, assigned, copies>>

CreateAssignment ==
    /\ stage = 1 /\ step = "assignment"
    /\ assigned' = assigned \union {row}
    /\ copied' = copied \union {row}
    /\ todo' = todo \ {row} /\ row' = None /\ step' = "hardware"
    /\ UNCHANGED <<legacy, stage, runs, hardware, devices, copies>>

\* A row whose device has not been copied is skipped.
Copy(r, owners) ==
    /\ r \in todo
    /\ \/ owners = {} /\ UNCHANGED copies
       \/ owners # {} /\ ~ Rejected(r) /\ copies' = [copies EXCEPT ![r] = @ + 1]
    /\ todo' = todo \ {r}
    /\ UNCHANGED <<legacy, stage, row, step, copied, runs, hardware, devices, assigned>>

\* The owner as serialToNewDeviceId has it, and as staticNameToSerial has it.
CopyBySerial(r) == r \in BySerial /\ Copy(r, {b \in copied : b = ref[r]})
CopyByName(r)   == r \notin BySerial /\ Copy(r, {b \in copied : nameOf[b] = ref[r]})

NextTable ==
    /\ stage \in 1 .. 5 /\ todo = {}
    /\ stage' = stage + 1
    /\ todo' = IF stage = 5 THEN {} ELSE RowsOf[stage + 1]
    /\ UNCHANGED <<legacy, row, step, copied, runs, target>>

\* A statement fails (a constraint, a lost connection) or the process dies;
\* the maps die with it.
Die ==
    /\ stage \in 1 .. 5
    /\ stage' = 0 /\ todo' = {} /\ row' = None /\ step' = "hardware" /\ copied' = {}
    /\ UNCHANGED <<legacy, runs, target>>

\* DELETE FROM devices and hardware: every other table goes with them, by the
\* ON DELETE CASCADE of its foreign key.
Wipe ==
    /\ stage = 0 /\ hardware # {}
    /\ hardware' = {} /\ devices' = {} /\ assigned' = {}
    /\ copies' = [r \in Child |-> 0]
    /\ UNCHANGED <<legacy, script>>

-----------------------------------------------------------------------------

DevicesInit ==
    /\ nameOf \in [Box -> Name]
    /\ ref \in [Child -> Box \union Name \union {None}]
    /\ \A r \in Child : ref[r] \in {None} \union (IF r \in BySerial THEN Box ELSE Name)
    /\ stage = 0 /\ todo = {} /\ row = None /\ step = "hardware"
    /\ copied = {} /\ runs = 0
    /\ hardware = {} /\ devices = {} /\ assigned = {}
    /\ copies = [r \in Child |-> 0]

DevicesNext ==
    \/ Begin \/ CreateDevice \/ CreateAssignment \/ NextTable \/ Die \/ Wipe
    \/ \E b \in Box : UpsertHardware(b)
    \/ \E r \in Child : CopyBySerial(r) \/ CopyByName(r)

-----------------------------------------------------------------------------
(* Properties. *)

DevicesTypeOK ==
    /\ nameOf \in [Box -> Name]
    /\ stage \in 0 .. 6 /\ runs \in 0 .. MaxRuns
    /\ row \in Box \union {None} /\ step \in {"hardware", "device", "assignment"}
    /\ copied \subseteq devices /\ devices \subseteq hardware /\ hardware \subseteq Box
    /\ assigned \subseteq devices
    /\ copies \in [Child -> 0 .. MaxRuns]

\* A run that gets to its end has left an exact image, whatever earlier runs
\* left behind and whatever was wiped in between: every box in its point, with
\* an open assignment, and every row that has an owner exactly once.
FinishedRunIsWhole ==
    stage = 6 =>
       /\ hardware = Box /\ devices = Box /\ assigned = Box
       /\ \A r \in Child :
             copies[r] = IF \E b \in Box : ref[r] \in {b, nameOf[b]} THEN 1 ELSE 0

=============================================================================
