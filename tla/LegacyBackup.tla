---------------------------- MODULE LegacyBackup ----------------------------
(***************************************************************************)
(* The script that brings in the old MongoDB backup, after LegacyDevices:  *)
(* notifications go to the live table in batches, and each month of        *)
(* logdays becomes an archive, as if exportMonth had written it: object,   *)
(* meta file, record.  The application runs meanwhile: its swaps take boxes *)
(* from their points, and its own exports write the same keys in the same  *)
(* three steps.  Script and exports may die anywhere, and the script may   *)
(* be run again, with --force or --skip-notifications or without.          *)
(***************************************************************************)
EXTENDS LegacyDevices, FiniteSets

CONSTANTS
    Doc,        \* documents of the collection notifications
    Month,      \* months of the collection logdays
    Current,    \* the month that is still being written
    BatchSize,  \* NOTIFICATION_BATCH_SIZE
    Export,     \* exports of the application, by its cron job or by hand
    MaxBackups, \* bound: how often the script is started
    MaxSwaps    \* bound: swaps of boxes

ASSUME BackupAssumption ==
    /\ Current \in Month /\ None \notin Month \union {"script", "app"}
    /\ BatchSize \in Nat \ {0} /\ MaxBackups \in Nat /\ MaxSwaps \in Nat

VARIABLES
    sender,     \* Mongo: the serial of each notification
    phase,      \* "idle", "notes", "months", "done"
    force, skip,   \* the script's options
    out, swaps, \* boxes that no point has any more, after so many swaps
    known,      \* the serials of serialToDeviceId, read once at the start
    left,       \* what the cursor has still to give: documents, then months
    batch,      \* notifications collected for createMany
    noteCopies, \* how often each has been inserted
    month, mstep,  \* the month being archived, and what comes next
    object, meta, record,   \* per month: who wrote it, "script" or "app"
    exporting, estep,       \* the month of each export, and what comes next
    backups,    \* runs started
    cause       \* history: what has gone wrong with a month since a writer last
                \* began on it alone

files    == <<object, meta, record>>
options  == <<force, skip, known, backups>>
cursor   == <<phase, left, batch, month, mstep>>
app      == <<exporting, estep>>
boxes    == <<out, swaps>>
backupVars == <<sender, cursor, options, noteCopies, files, app, boxes, cause>>
vars == <<deviceVars, backupVars>>

Writer == {None, "script", "app"}

\* What has happened to a month is remembered as a set of causes.
Note(m, c) == cause' = [cause EXCEPT ![m] = @ \union {c}]

\* Somebody has uploaded the month and is not done with it.
Exporting(m) == \E x \in Export : exporting[x] = m
InHand(m) == (month = m /\ mstep # "upload") \/ Exporting(m)

\* An upload replaces the object.  What was wrong before no longer matters, if
\* no other writer is about to write its meta file and its record.
PutObject(m, w) ==
    /\ object' = [object EXCEPT ![m] = w]
    /\ cause' = [cause EXCEPT ![m] = IF InHand(m) THEN @ \union {"raced"} ELSE {}]

-----------------------------------------------------------------------------

\* The serials are read first, from the points, so that a box which a swap has
\* taken out is not among them; listMonths leaves the current month out.
BeginBackup ==
    /\ stage = 6 /\ phase \in {"idle", "done"} /\ backups < MaxBackups
    /\ force' \in BOOLEAN /\ skip' \in BOOLEAN
    /\ known' = devices \ out
    /\ phase' = IF skip' THEN "months" ELSE "notes"
    /\ left' = IF skip' THEN Month \ {Current} ELSE Doc
    /\ batch' = {} /\ month' = None /\ mstep' = "exists"
    /\ backups' = backups + 1
    /\ UNCHANGED <<deviceVars, sender, noteCopies, files, app, boxes, cause>>

\* createMany, all or nothing.
Flush(docs) == noteCopies' = [d \in Doc |-> noteCopies[d] + IF d \in docs THEN 1 ELSE 0]

ReadNotification(d) ==
    LET full == batch \union ({d} \ {x \in Doc : sender[x] \notin known}) IN
    /\ phase = "notes" /\ d \in left
    /\ left' = left \ {d}
    /\ IF Cardinality(full) >= BatchSize
       THEN Flush(full) /\ batch' = {}
       ELSE batch' = full /\ UNCHANGED noteCopies
    /\ UNCHANGED <<deviceVars, sender, phase, month, mstep, options, files, app, boxes, cause>>

\* (mutant of LastBatch) What is left of the batch is forgotten.
ForgetLastBatch ==
    /\ phase = "notes" /\ left = {}
    /\ batch' = {}
    /\ phase' = "months" /\ left' = Month \ {Current}
    /\ UNCHANGED <<deviceVars, sender, month, mstep, options, noteCopies, files, app, boxes, cause>>

LastBatch ==
    /\ phase = "notes" /\ left = {}
    /\ Flush(batch) /\ batch' = {}
    /\ phase' = "months" /\ left' = Month \ {Current}
    /\ UNCHANGED <<deviceVars, sender, month, mstep, options, files, app, boxes, cause>>

-----------------------------------------------------------------------------

\* The next month: skipped when its object is there already, unless forced.
TakeMonth(m) ==
    /\ phase = "months" /\ mstep = "exists" /\ m \in left
    /\ left' = left \ {m}
    /\ IF force \/ object[m] = None
       THEN month' = m /\ mstep' = "upload"
       ELSE UNCHANGED <<month, mstep>>
    /\ UNCHANGED <<deviceVars, sender, phase, batch, options, noteCopies, files, app, boxes, cause>>

Upload ==
    /\ phase = "months" /\ mstep = "upload"
    /\ PutObject(month, "script")
    /\ mstep' = "count"
    /\ UNCHANGED <<deviceVars, sender, phase, left, batch, month, options, noteCopies, meta, record, app, boxes>>

\* The script ends; nothing of it is left but what it wrote.
Stop(p) ==
    /\ phase' = p /\ left' = {} /\ batch' = {} /\ month' = None /\ mstep' = "exists"
    /\ UNCHANGED <<deviceVars, sender, options, noteCopies, app, boxes>>

\* (mutant of Mismatch) The short file is left behind.
LeaveShortFile ==
    /\ phase = "months" /\ mstep = "count"
    /\ Note(month, "refused")
    /\ Stop("idle") /\ UNCHANGED files

\* The file has not as many rows as Mongo counted before: it is deleted, over
\* whatever --force had replaced with it, and the run ends.
Mismatch ==
    /\ phase = "months" /\ mstep = "count"
    /\ object' = [object EXCEPT ![month] = None]
    /\ Note(month, "refused")
    /\ Stop("idle") /\ UNCHANGED <<meta, record>>

\* (mutant of PutMeta) The meta file is left out.
SkipMeta ==
    /\ phase = "months" /\ mstep = "count"
    /\ mstep' = "record"
    /\ UNCHANGED <<deviceVars, sender, phase, left, batch, month, options, noteCopies, files, app, boxes, cause>>

PutMeta ==
    /\ phase = "months" /\ mstep = "count"
    /\ meta' = [meta EXCEPT ![month] = "script"]
    /\ mstep' = "record"
    /\ UNCHANGED <<deviceVars, sender, phase, left, batch, month, options, noteCopies, object, record, app, boxes, cause>>

RecordMonth ==
    /\ phase = "months" /\ mstep = "record"
    /\ record' = [record EXCEPT ![month] = "script"]
    /\ month' = None /\ mstep' = "exists"
    /\ UNCHANGED <<deviceVars, sender, phase, left, batch, options, noteCopies, object, meta, app, boxes, cause>>

Finish ==
    /\ phase = "months" /\ mstep = "exists" /\ left = {}
    /\ Stop("done") /\ UNCHANGED <<files, cause>>

\* A month whose object is up and whose record is not is left as it is.
Crash ==
    /\ phase \in {"notes", "months"}
    /\ IF mstep \in {"count", "record"} THEN Note(month, "died") ELSE UNCHANGED cause
    /\ Stop("idle") /\ UNCHANGED files

-----------------------------------------------------------------------------
(* The application. *)

\* A swap takes a box from its point, or gives a point one of the old boxes, or
\* both.
Swap ==
    /\ stage = 6 /\ swaps < MaxSwaps
    /\ \E gone, back \in {{}} \union {{b} : b \in Box} : out' = (out \union gone) \ back
    /\ swaps' = swaps + 1
    /\ UNCHANGED <<deviceVars, sender, cursor, options, noteCopies, files, app, cause>>

\* ArchiveExportService.exportMonth.  One that fails before its upload is through
\* leaves nothing.
ExportUpload(x, m) ==
    /\ stage = 6 /\ estep[x] = "upload"
    /\ PutObject(m, "app")
    /\ exporting' = [exporting EXCEPT ![x] = m]
    /\ estep' = [estep EXCEPT ![x] = "count"]
    /\ UNCHANGED <<deviceVars, sender, cursor, options, noteCopies, meta, record, boxes>>

ExportOver(x) ==
    /\ exporting' = [exporting EXCEPT ![x] = None]
    /\ estep' = [estep EXCEPT ![x] = "over"]
    /\ UNCHANGED <<deviceVars, sender, cursor, options, noteCopies, boxes>>

\* log_days has another number of rows than the file, which is deleted.
ExportMismatch(x) ==
    /\ estep[x] = "count"
    /\ object' = [object EXCEPT ![exporting[x]] = None]
    /\ Note(exporting[x], "withdrawn")
    /\ ExportOver(x) /\ UNCHANGED <<meta, record>>

ExportMeta(x) ==
    /\ estep[x] = "count"
    /\ meta' = [meta EXCEPT ![exporting[x]] = "app"]
    /\ estep' = [estep EXCEPT ![x] = "record"]
    /\ UNCHANGED <<deviceVars, sender, cursor, options, noteCopies, object, record, exporting, boxes, cause>>

ExportRecord(x) ==
    /\ estep[x] = "record"
    /\ record' = [record EXCEPT ![exporting[x]] = "app"]
    /\ ExportOver(x) /\ UNCHANGED <<object, meta, cause>>

\* A call fails, or the application dies: the object stays as it is.
ExportFails(x) ==
    /\ estep[x] \in {"count", "record"}
    /\ Note(exporting[x], "died")
    /\ ExportOver(x) /\ UNCHANGED files

-----------------------------------------------------------------------------

Init ==
    /\ DevicesInit
    /\ sender \in [Doc -> Box \union {None}]
    /\ phase = "idle" /\ force = FALSE /\ skip = FALSE
    /\ known = {} /\ left = {} /\ batch = {} /\ month = None /\ mstep = "exists"
    /\ noteCopies = [d \in Doc |-> 0]
    /\ object = [m \in Month |-> None] /\ meta = object /\ record = object
    /\ exporting = [x \in Export |-> None] /\ estep = [x \in Export |-> "upload"]
    /\ out = {} /\ swaps = 0 /\ backups = 0
    /\ cause = [m \in Month |-> {}]

\* The device script is run before this one; a wipe of its target takes the
\* pointers with it.
RunDevices ==
    /\ phase = "idle" /\ backups = 0
    /\ DevicesNext
    /\ out' = out \intersect hardware'
    /\ UNCHANGED <<sender, cursor, options, noteCopies, files, app, swaps, cause>>

Next ==
    \/ RunDevices
    \/ BeginBackup \/ LastBatch \/ Upload \/ Mismatch \/ PutMeta \/ RecordMonth \/ Finish \/ Crash
    \/ \E d \in Doc : ReadNotification(d)
    \/ \E m \in Month : TakeMonth(m)
    \/ Swap
    \/ \E x \in Export :
          \/ \E m \in Month : ExportUpload(x, m)
          \/ ExportMismatch(x) \/ ExportMeta(x) \/ ExportRecord(x) \/ ExportFails(x)

Spec == Init /\ [][Next]_vars

-----------------------------------------------------------------------------
(* Properties. *)

TypeOK ==
    /\ DevicesTypeOK
    /\ sender \in [Doc -> Box \union {None}]
    /\ phase \in {"idle", "notes", "months", "done"}
    /\ known \subseteq Box /\ left \subseteq Doc \union Month
    /\ batch \subseteq Doc /\ Cardinality(batch) < BatchSize
    /\ noteCopies \in [Doc -> 0 .. MaxBackups]
    /\ month \in Month \union {None} /\ (month = None) = (mstep = "exists")
    /\ \A f \in {object, meta, record} : f \in [Month -> Writer]
    /\ cause \in [Month -> SUBSET {"died", "raced", "refused", "withdrawn"}]
    /\ out \subseteq Box /\ swaps \in 0 .. MaxSwaps
    /\ exporting \in [Export -> Month \union {None}]
    /\ estep \in [Export -> {"upload", "count", "record", "over"}]
    /\ \A x \in Export : exporting[x] # None <=> estep[x] \in {"count", "record"}

\* A run that gets to its end has delivered every old notification of a box that
\* had a point when it began, the last and incomplete batch too; none is ever
\* delivered but for a box that was migrated.
NotificationsArrive ==
    phase = "done" /\ ~ skip =>
       \A d \in Doc :
          /\ sender[d] \in known => noteCopies[d] > 0
          /\ noteCopies[d] > 0 => sender[d] \in Box

\* What is on record of a month, its object and its meta file come from one
\* writer, unless somebody is at the month now, or since the last upload that met
\* no other writer one has died there, or two have raced, or a file was refused.
RecordIsOfOneWriter ==
    \A m \in Month :
       record[m] # None /\ ~ InHand(m) /\ cause[m] = {} =>
          object[m] = record[m] /\ meta[m] = record[m]

\* A run that gets to its end leaves every month but the current on record,
\* unless the object that made it skip the month was of a writer that has died
\* since its upload, or of an export which is still at it or has withdrawn it.
MonthsAreOnRecord ==
    phase = "done" =>
       \A m \in Month \ {Current} :
          record[m] # None \/ Exporting(m) \/ cause[m] \intersect {"died", "withdrawn"} # {}

=============================================================================
