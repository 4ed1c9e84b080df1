--------------------------- MODULE RecordChanges ---------------------------
(***************************************************************************)
(* What users file beside devices and probes: firmware releases with their *)
(* files in object storage, configs of points, repairs and warranties of   *)
(* boxes; the change events of all of them and the log of who did what.    *)
(*                                                                         *)
(* A request is a chain of awaited calls: (find,) (upload,) write,         *)
(* (delete a file,) emit.  Only the write is a transaction.  The listener  *)
(* of the event inserts into user_audit while the request is answered.     *)
(* migrate-firmware, which copies the old drive into the same table and    *)
(* bucket, is a creation that first looks whether the version is there.    *)
(***************************************************************************)
EXTENDS Naturals

CONSTANTS
    Version,   \* versions of firmware, which name a release
    Point,     \* points, which name a config (Configs.deviceId is unique)
    Repair, Warranty,   \* rows named by an id of their own
    Op,        \* requests, and files the migration copies
    Migrated,  \* the latter
    None       \* no value

Item == Version \union Point \union Repair \union Warranty

Row == [made : Op, file : Op \union {None}]

ASSUME RecordAssumption ==
    /\ Migrated \subseteq Op
    /\ None \notin Op \union Item \union Row
    /\ Version \intersect (Point \union Repair \union Warranty) = {}

VARIABLES
    row,       \* the table: per item None, or who made it and its file
    stored,    \* the bucket: files, named by the request that uploaded them
    pc,        \* what a request does next
    act,       \* "create", "update" or "remove", or "adjust", an update by the box
    item, id,  \* the row it is about: its key, and the request that made it
    up,        \* whether it brings a file
    old,       \* previousFileKey, or the file of the row it deleted
    wrote,     \* history: the requests whose write committed
    fired,     \* events emitted whose row in user_audit is not in yet
    trail,     \* user_audit: how often it names a request
    hurt       \* history: what may explain a file that is missing or left over

request == <<act, item>>
memory  == <<id, up, old>>
audit   == <<fired, trail>>
vars == <<row, stored, pc, request, memory, wrote, audit, hurt>>

Audited == Item \ Version
Goto(o, l) == pc' = [pc EXCEPT ![o] = l]
Keep(o, l) == Goto(o, l) /\ UNCHANGED memory
Leave(o) ==
    /\ Goto(o, "done")
    /\ id' = [id EXCEPT ![o] = None] /\ up' = [up EXCEPT ![o] = FALSE] /\ old' = [old EXCEPT ![o] = None]
Hurt(k, c) == hurt' = [hurt EXCEPT ![k] = @ \union {c}]

\* findUnique by the key the route has: the deviceId of a config, else the id.
Found(o) == row[item[o]] # None /\ (item[o] \in Point \/ row[item[o]].made = id[o])

-----------------------------------------------------------------------------
(* Requests. *)

Ask(o, a, i, f, first) ==
    /\ pc[o] = "idle"
    /\ act' = [act EXCEPT ![o] = a]
    /\ item' = [item EXCEPT ![o] = i]
    /\ up' = [up EXCEPT ![o] = f]
    /\ id' = [id EXCEPT ![o] = IF row[i] = None THEN None ELSE row[i].made]
    /\ Goto(o, first)
    /\ UNCHANGED <<row, stored, old, wrote, audit, hurt>>

\* POST (with a file), PUT (with a file or without) and DELETE /firmware.
ReleaseRequest(o, v) ==
    /\ o \notin Migrated
    /\ \/ Ask(o, "create", v, TRUE, "upload")
       \/ row[v] # None /\ \E f \in BOOLEAN : Ask(o, "update", v, f, IF f THEN "find" ELSE "write")
       \/ row[v] # None /\ Ask(o, "remove", v, FALSE, "write")

\* migrateFirmware leaves alone a version that is there, and an empty file.
Migrate(o, v) ==
    /\ o \in Migrated /\ row[v] = None
    /\ Ask(o, "create", v, TRUE, "upload")

\* The config of a point; a box changes its own by PATCH /adjust/:serial/config.
ConfigRequest(o, d) ==
    /\ o \notin Migrated
    /\ \/ Ask(o, "create", d, FALSE, "write")
       \/ row[d] # None /\ \E a \in {"update", "adjust", "remove"} : Ask(o, a, d, FALSE, "write")

\* Each row has an id of its own.
Fresh(i) == \A o \in Op : item[o] # i

\* remove looks for the repair first.
RepairRequest(o, r) ==
    /\ o \notin Migrated
    /\ \/ Fresh(r) /\ Ask(o, "create", r, FALSE, "write")
       \/ row[r] # None /\ Ask(o, "update", r, FALSE, "write")
       \/ row[r] # None /\ Ask(o, "remove", r, FALSE, "find")

\* Warranties are never removed.
WarrantyRequest(o, w) ==
    /\ o \notin Migrated
    /\ \/ Fresh(w) /\ Ask(o, "create", w, FALSE, "write")
       \/ row[w] # None /\ Ask(o, "update", w, FALSE, "write")

Find(o) ==
    /\ pc[o] = "find"
    /\ IF ~ Found(o)
       THEN Leave(o)
       ELSE /\ old' = [old EXCEPT ![o] = row[item[o]].file]
            /\ Goto(o, IF up[o] THEN "upload" ELSE "write")
            /\ UNCHANGED <<id, up>>
    /\ UNCHANGED <<row, stored, request, wrote, audit, hurt>>

\* (mutant of Upload) The new file takes the place of the previous one.
UploadOver(o) ==
    /\ pc[o] = "upload"
    /\ stored' = (stored \ {old[o]}) \union {o}
    /\ Keep(o, "write")
    /\ UNCHANGED <<row, request, wrote, audit, hurt>>

Upload(o) ==
    /\ pc[o] = "upload"
    /\ stored' = stored \union {o}
    /\ Keep(o, "write")
    /\ UNCHANGED <<row, request, wrote, audit, hurt>>

\* firmwares_version_key and configs_device_id_key; a row that is gone.
Accepted(o) == IF act[o] = "create" THEN row[item[o]] = None ELSE Found(o)

\* The row after the write.
After(o) ==
    LET now == row[item[o]] file == IF up[o] THEN o ELSE None IN
    CASE act[o] = "create" -> [made |-> o, file |-> file]
      [] act[o] \in {"update", "adjust"} -> IF up[o] THEN [now EXCEPT !.file = o] ELSE now
      [] act[o] = "remove" -> None

Put(o) ==
    /\ pc[o] = "write" /\ Accepted(o)
    /\ row' = [row EXCEPT ![item[o]] = After(o)]
    /\ wrote' = wrote \union {o}
    /\ UNCHANGED <<stored, request, audit>>

\* A file that another update has put there since this one looked.
Overtaken(o) == {k \in Op : act[o] = "update" /\ up[o] /\ row[item[o]].file = k /\ old[o] # k}

Write(o) ==
    /\ Put(o)
    /\ old' = IF act[o] = "remove" THEN [old EXCEPT ![o] = row[item[o]].file] ELSE old
    /\ Goto(o, IF old'[o] = None THEN "emit" ELSE "clean") /\ UNCHANGED <<id, up>>
    /\ hurt' = [k \in Op |-> IF k \in Overtaken(o) THEN hurt[k] \union {"overtaken"} ELSE hurt[k]]

\* The write commits and its answer is lost: the request sees an error, deletes
\* the file the row now refers to, and announces nothing; a file that the write
\* took from the row stays.
Replaced(o) ==
    {k \in Op : (up[o] \/ act[o] = "remove") /\ row[item[o]] # None /\ row[item[o]].file = k}

WriteUnknown(o) ==
    /\ Put(o)
    /\ IF up[o] THEN Keep(o, "undo") ELSE Leave(o)
    /\ hurt' = [k \in Op |-> IF k \in {o} \union Replaced(o) THEN hurt[k] \union {"unknown"} ELSE hurt[k]]

\* (mutant of WriteFails) The catch of the write does not delete the file.
WriteFailsQuietly(o) ==
    /\ pc[o] = "write"
    /\ Leave(o)
    /\ UNCHANGED <<row, stored, request, wrote, audit, hurt>>

\* The row is taken, or gone, or the statement fails.
WriteFails(o) ==
    /\ pc[o] = "write"
    /\ IF up[o] THEN Keep(o, "undo") ELSE Leave(o)
    /\ UNCHANGED <<row, stored, request, wrote, audit, hurt>>

\* FirmwareStorageService.delete: an error is logged and forgotten.
DeleteFile(k) ==
    /\ \/ stored' = stored \ {k} /\ UNCHANGED hurt
       \/ Hurt(k, "kept") /\ UNCHANGED stored
    /\ UNCHANGED <<row, request, wrote, audit>>

Undo(o) == pc[o] = "undo" /\ DeleteFile(o) /\ Leave(o)
Clean(o) == pc[o] = "clean" /\ DeleteFile(old[o]) /\ Keep(o, "emit")

\* (mutant of Emit) A removal is not announced.
EmitUnlessRemoved(o) ==
    /\ pc[o] = "emit"
    /\ fired' = IF item[o] \in Audited /\ act[o] \in {"create", "update"} THEN fired \union {o} ELSE fired
    /\ Leave(o)
    /\ UNCHANGED <<row, stored, request, wrote, trail, hurt>>

\* *.changed.  The listener passes over an event without an actor, which is
\* that of a box; firmware.changed has no listener, and the migration emits nothing.
Emit(o) ==
    /\ pc[o] = "emit"
    /\ fired' = IF item[o] \in Audited /\ act[o] # "adjust" THEN fired \union {o} ELSE fired
    /\ Leave(o)
    /\ UNCHANGED <<row, stored, request, wrote, trail, hurt>>

\* UserAuditListener: the INSERT is tried once.
Record(o) ==
    /\ o \in fired
    /\ fired' = fired \ {o}
    /\ trail' = [trail EXCEPT ![o] = @ + 1]
    /\ UNCHANGED <<row, stored, pc, request, memory, wrote, hurt>>

\* The INSERT fails, which is logged only; or the process dies before it.
RecordFails(o) ==
    /\ o \in fired
    /\ fired' = fired \ {o}
    /\ Hurt(o, "unrecorded")
    /\ UNCHANGED <<row, stored, pc, request, memory, wrote, trail>>

\* The request fails or the process dies between two calls.
Die(o) ==
    /\ pc[o] \in {"find", "upload", "write", "undo", "clean", "emit"}
    /\ hurt' = [k \in Op |-> IF k \in {o, old[o]} \intersect (stored \union wrote) THEN hurt[k] \union {"died"} ELSE hurt[k]]
    /\ Leave(o)
    /\ UNCHANGED <<row, stored, request, wrote, audit>>

-----------------------------------------------------------------------------

Init ==
    /\ row = [i \in Item |-> None] /\ stored = {}
    /\ pc = [o \in Op |-> "idle"]
    /\ act = [o \in Op |-> None] /\ item = act /\ id = act /\ old = act
    /\ up = [o \in Op |-> FALSE]
    /\ wrote = {} /\ fired = {} /\ trail = [o \in Op |-> 0]
    /\ hurt = [o \in Op |-> {}]

Step(o) ==
    \/ Find(o) \/ Upload(o) \/ Write(o) \/ WriteUnknown(o) \/ WriteFails(o)
    \/ Undo(o) \/ Clean(o) \/ Emit(o) \/ Record(o) \/ RecordFails(o) \/ Die(o)

Next ==
    \/ \E o \in Op, v \in Version : ReleaseRequest(o, v) \/ Migrate(o, v)
    \/ \E o \in Op, d \in Point : ConfigRequest(o, d)
    \/ \E o \in Op, r \in Repair : RepairRequest(o, r)
    \/ \E o \in Op, w \in Warranty : WarrantyRequest(o, w)
    \/ \E o \in Op : Step(o)

Spec == Init /\ [][Next]_vars

-----------------------------------------------------------------------------
(* Properties. *)

TypeOK ==
    /\ row \in [Item -> Row \union {None}]
    /\ stored \subseteq Op /\ wrote \subseteq Op /\ fired \subseteq wrote
    /\ pc \in [Op -> {"idle", "find", "upload", "write", "undo", "clean", "emit", "done"}]
    /\ item \in [Op -> Item \union {None}] /\ old \in [Op -> Op \union {None}]
    /\ trail \in [Op -> Nat]

Using(k) == \E v \in Version : row[v] # None /\ row[v].file = k

\* A release that is listed can be downloaded, however updates, removals and
\* migrations of its version overlap or die, unless the answer to the commit
\* that made it was lost.
ReleasesHaveFiles ==
    \A k \in Op : Using(k) /\ k \notin stored => "unknown" \in hurt[k]

\* A file no release refers to is on its way in or out, or its deletion failed
\* or never came, or an update replaced it that had looked before it was there.
NoStrayFiles ==
    \A k \in stored :
       \/ Using(k) \/ hurt[k] # {}
       \/ pc[k] \in {"write", "undo"}
       \/ \E o \in Op : pc[o] = "clean" /\ old[o] = k

\* Who changed what is on the trail once for every user's change that was
\* committed, and never for one that was not or that a box made itself, or it
\* is known why it is missing.
TrailIsComplete ==
    \A o \in wrote : item[o] \in Audited /\ pc[o] = "done" =>
       trail[o] = IF o \in fired \/ hurt[o] # {} \/ act[o] = "adjust" THEN 0 ELSE 1

=============================================================================
