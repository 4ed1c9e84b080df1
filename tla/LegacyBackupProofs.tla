------------------------- MODULE LegacyBackupProofs -------------------------
(***************************************************************************)
(* Proofs about LegacyDevices and LegacyBackup, for any old databases and  *)
(* any number of runs of the two scripts, of swaps and of exports.          *)
(***************************************************************************)
EXTENDS LegacyBackup, FiniteSetTheorems, TLAPS

-----------------------------------------------------------------------------
(* LegacyDevices: what each stage of a run knows. *)

RefsSound ==
    \A r \in Child : ref[r] \in {None} \union (IF r \in BySerial THEN Box ELSE Name)

Owned(r) == \E b \in Box : ref[r] \in {b, nameOf[b]}

\* A device that an earlier run has made, and that this run will stumble over.
Leftover == \E b \in devices \intersect todo : ~ (b = row /\ step = "assignment")

\* Its table is behind the run, or the row is.
Passed(r) ==
    \E k \in 2 .. 5 : r \in RowsOf[k] /\ (k < stage \/ (k = stage /\ r \notin todo))

\* The maps and the rows left to copy are those of the stage; a device is in the
\* target from its second statement on.
ScriptSound ==
    /\ stage \in {0, 6} => todo = {}
    /\ stage = 0 => copied = {}
    /\ stage = 1 => todo \subseteq Box /\ copied = Box \ todo
    /\ stage \in 2 .. 5 => todo \subseteq RowsOf[stage]
    /\ stage \in 2 .. 6 => copied = Box
    /\ stage # 0 => runs > 0
    /\ step # "hardware" => stage = 1 /\ row \in todo /\ row \in hardware
    /\ step = "assignment" => row \in devices
    /\ copied \subseteq assigned

\* A run gets past the devices only over a target without any, and so without
\* rows that refer to one; from there on each row is copied in its turn.
ImageSound ==
    /\ \A r \in Child : copies[r] > 0 => copies[r] = 1 /\ runs > 0
    /\ stage = 0 /\ devices = {} => \A r \in Child : copies[r] = 0
    /\ stage = 1 /\ ~ Leftover => \A r \in Child : copies[r] = 0
    /\ stage \in 2 .. 6 =>
          \A r \in Child : copies[r] = IF Passed(r) /\ Owned(r) THEN 1 ELSE 0

DevicesSound == DevicesTypeOK /\ RefsSound /\ ScriptSound /\ ImageSound

\* The tables share no row.
LEMMA TablesApart ==
    /\ Child = RowsOf[2] \union RowsOf[3] \union RowsOf[4] \union RowsOf[5]
    /\ RowsOf[1] = Box /\ Box \intersect Child = {}
    /\ \A j, k \in 1 .. 5 : \A r : r \in RowsOf[j] /\ r \in RowsOf[k] => j = k
<1>1. /\ RowsOf[1] = Box /\ RowsOf[2] = Probe /\ RowsOf[3] = Config /\ RowsOf[4] = Repair
      /\ RowsOf[5] = Warranty
      BY DEF RowsOf
<1>2. \A j, k \in 1 .. 5 : \A r : r \in RowsOf[j] /\ r \in RowsOf[k] => j = k
      BY LegacyAssumption
<1>3. Child = RowsOf[2] \union RowsOf[3] \union RowsOf[4] \union RowsOf[5]
      BY <1>1 DEF Child, BySerial
<1>4. Box \intersect Child = {}
      BY <1>1, <1>2, <1>3
<1>. QED
      BY <1>1, <1>2, <1>3, <1>4

LEMMA DevicesInitSound == DevicesInit => DevicesSound
<1> SUFFICES ASSUME DevicesInit PROVE DevicesSound
    OBVIOUS
<1>1. \A r \in Child : copies[r] = 0
      BY DEF DevicesInit
<1>2. DevicesTypeOK
      BY LegacyAssumption DEF DevicesInit, DevicesTypeOK
<1>3. RefsSound /\ ScriptSound
      BY DEF DevicesInit, RefsSound, ScriptSound
<1>4. ImageSound
      BY <1>1 DEF DevicesInit, ImageSound
<1>. QED
      BY <1>2, <1>3, <1>4 DEF DevicesSound

\* Once a run is past the devices, the target has all of them.
LEMMA AllCopied ==
    ASSUME DevicesSound, stage \in 2 .. 6
    PROVE  devices = Box /\ hardware = Box /\ assigned = Box
BY DEF DevicesSound, ScriptSound, DevicesTypeOK

LEMMA BeginSound == DevicesSound /\ Begin => DevicesSound'
<1> SUFFICES ASSUME DevicesSound, Begin PROVE DevicesSound'
    OBVIOUS
<1> USE DEF Begin, legacy, target, DevicesSound
<1>1. DevicesTypeOK' /\ RefsSound'
      BY LegacyAssumption DEF DevicesTypeOK, RefsSound
<1>2. ScriptSound'
      BY LegacyAssumption DEF ScriptSound, DevicesTypeOK
<1>3. ASSUME devices = {}, NEW r \in Child PROVE copies[r] = 0
  <2>1. CASE stage = 0
        BY <1>3, <2>1 DEF ImageSound
  <2>2. CASE stage = 6
        BY <1>3, <2>2, AllCopied DEF ImageSound, Owned
  <2>. QED
        BY <2>1, <2>2
<1>4. (~ Leftover)' => devices = {}
      BY DEF Leftover, DevicesTypeOK
<1>5. ImageSound'
      BY <1>3, <1>4, LegacyAssumption DEF ImageSound, DevicesTypeOK
<1>. QED
      BY <1>1, <1>2, <1>5

LEMMA UpsertHardwareSound ==
    ASSUME DevicesSound, NEW b \in Box, UpsertHardware(b)
    PROVE  DevicesSound'
<1> USE DEF UpsertHardware, legacy, DevicesSound
<1>1. DevicesTypeOK' /\ RefsSound'
      BY DEF DevicesTypeOK, RefsSound
<1>2. ScriptSound'
      BY DEF ScriptSound
<1>3. Leftover => Leftover'
      BY DEF Leftover
<1>4. ImageSound'
      BY <1>3 DEF ImageSound
<1>. QED
      BY <1>1, <1>2, <1>4

\* The name of a leftover is not free, so it is another device.
LEMMA CreateDeviceSound == DevicesSound /\ CreateDevice => DevicesSound'
<1> SUFFICES ASSUME DevicesSound, CreateDevice PROVE DevicesSound'
    OBVIOUS
<1> USE DEF CreateDevice, legacy, DevicesSound
<1>1. row \in todo /\ row \in hardware /\ row \notin devices
      BY DEF ScriptSound
<1>2. DevicesTypeOK' /\ RefsSound'
      BY <1>1 DEF DevicesTypeOK, RefsSound
<1>3. ScriptSound'
      BY <1>1 DEF ScriptSound
<1>4. Leftover => Leftover'
      BY <1>1 DEF Leftover
<1>5. ImageSound'
      BY <1>4 DEF ImageSound
<1>. QED
      BY <1>2, <1>3, <1>5

LEMMA CreateAssignmentSound == DevicesSound /\ CreateAssignment => DevicesSound'
<1> SUFFICES ASSUME DevicesSound, CreateAssignment PROVE DevicesSound'
    OBVIOUS
<1> USE DEF CreateAssignment, legacy, DevicesSound
<1>1. row \in todo /\ row \in devices
      BY DEF ScriptSound
<1>2. DevicesTypeOK' /\ RefsSound'
      BY <1>1 DEF DevicesTypeOK, RefsSound
<1>3. ScriptSound'
      BY <1>1 DEF ScriptSound
<1>4. Leftover => Leftover'
      BY <1>1 DEF Leftover
<1>5. ImageSound'
      BY <1>4 DEF ImageSound
<1>. QED
      BY <1>2, <1>3, <1>5

\* The owner that the maps give a row is the one it refers to.
LEMMA OwnersAreOwned ==
    ASSUME DevicesSound, copied = Box, NEW r \in Child
    PROVE  /\ r \in BySerial => ({b \in copied : b = ref[r]} # {} <=> Owned(r))
           /\ r \notin BySerial => ({b \in copied : nameOf[b] = ref[r]} # {} <=> Owned(r))
BY LegacyAssumption DEF DevicesSound, DevicesTypeOK, RefsSound, Owned

LEMMA CopySound ==
    ASSUME DevicesSound, NEW r \in Child, CopyBySerial(r) \/ CopyByName(r)
    PROVE  DevicesSound'
<1> USE DEF DevicesSound
<1>1. /\ r \in todo /\ todo' = todo \ {r}
      /\ UNCHANGED <<legacy, stage, row, step, copied, runs, hardware, devices, assigned>>
      BY DEF CopyBySerial, CopyByName, Copy
<1>2. stage \in 2 .. 5 /\ r \in RowsOf[stage] /\ copied = Box
      BY <1>1, TablesApart DEF ScriptSound, DevicesTypeOK
<1>3. ~ Passed(r) /\ copies[r] = 0
  <2>1. \A k \in 2 .. 5 : r \in RowsOf[k] => k = stage
        BY <1>2, TablesApart
  <2>2. ~ Passed(r)
        BY <1>1, <2>1 DEF Passed
  <2>. QED
        BY <1>2, <2>2 DEF ImageSound
<1>4. copies' = [copies EXCEPT ![r] = IF Owned(r) THEN 1 ELSE 0]
  <2>1. copies \in [Child -> 0 .. MaxRuns]
        BY DEF DevicesTypeOK
  <2>2. CASE r \in BySerial
    <3>1. Copy(r, {b \in copied : b = ref[r]})
          BY <2>2 DEF CopyBySerial, CopyByName
    <3>. QED
          BY <1>2, <1>3, <2>1, <2>2, <3>1, OwnersAreOwned DEF Copy
  <2>3. CASE r \notin BySerial
    <3>1. Copy(r, {b \in copied : nameOf[b] = ref[r]})
          BY <2>3 DEF CopyBySerial, CopyByName
    <3>. QED
          BY <1>2, <1>3, <2>1, <2>3, <3>1, OwnersAreOwned DEF Copy
  <2>. QED
        BY <2>2, <2>3
<1>5. \A q \in Child : /\ Passed(q)' <=> Passed(q) \/ q = r
                       /\ Owned(q)' <=> Owned(q)
      BY <1>1, <1>2 DEF Passed, Owned, legacy
<1>6. runs \in Nat /\ runs > 0 /\ runs <= MaxRuns
      BY <1>2, LegacyAssumption DEF ScriptSound, DevicesTypeOK
<1>7. DevicesTypeOK' /\ RefsSound'
      BY <1>1, <1>4, <1>6, LegacyAssumption DEF DevicesTypeOK, RefsSound, legacy
<1>8. ScriptSound'
      BY <1>1, <1>2 DEF ScriptSound, legacy
<1>9. ImageSound'
      BY <1>1, <1>2, <1>3, <1>4, <1>5, <1>6 DEF ImageSound, DevicesTypeOK
<1>. QED
      BY <1>7, <1>8, <1>9

LEMMA NextTableSound == DevicesSound /\ NextTable => DevicesSound'
<1> SUFFICES ASSUME DevicesSound, NextTable PROVE DevicesSound'
    OBVIOUS
<1> USE DEF NextTable, legacy, target, DevicesSound
<1>1. step = "hardware" /\ copied = Box /\ stage \in 1 .. 5 /\ stage' = stage + 1 /\ todo = {}
      BY DEF ScriptSound, DevicesTypeOK
<1>2. DevicesTypeOK' /\ RefsSound'
      BY <1>1 DEF DevicesTypeOK, RefsSound
<1>3. ScriptSound'
      BY <1>1 DEF ScriptSound
<1>4. ASSUME NEW r \in Child
      PROVE  copies[r] = IF Passed(r)' /\ Owned(r)' THEN 1 ELSE 0
  <2>1. Owned(r)' <=> Owned(r)
        BY DEF Owned
  <2>2. CASE stage = 1
    <3>1. ~ Leftover
          BY <1>1 DEF Leftover
    <3>2. ~ Passed(r)'
          BY <1>1, <2>2 DEF Passed
    <3>. QED
          BY <2>2, <3>1, <3>2 DEF ImageSound
  <2>3. CASE stage # 1
    <3>1. ASSUME NEW k \in 2 .. 5, r \in RowsOf[k]
          PROVE  (k < stage' \/ (k = stage' /\ r \notin todo'))
                    <=> (k < stage \/ (k = stage /\ r \notin todo))
          BY <1>1, <3>1
    <3>2. Passed(r)' <=> Passed(r)
          BY <3>1 DEF Passed
    <3>. QED
          BY <1>1, <2>1, <2>3, <3>2 DEF ImageSound
  <2>. QED
        BY <2>2, <2>3
<1>5. ImageSound'
      BY <1>1, <1>4 DEF ImageSound
<1>. QED
      BY <1>2, <1>3, <1>5

LEMMA DieSound == DevicesSound /\ Die => DevicesSound'
<1> SUFFICES ASSUME DevicesSound, Die PROVE DevicesSound'
    OBVIOUS
<1> USE DEF Die, legacy, target, DevicesSound
<1>1. DevicesTypeOK' /\ RefsSound' /\ ScriptSound'
      BY DEF DevicesTypeOK, RefsSound, ScriptSound
<1>2. ASSUME devices = {}, NEW r \in Child PROVE copies[r] = 0
  <2>1. CASE stage = 1
        BY <1>2, <2>1 DEF Leftover, ImageSound
  <2>2. CASE stage \in 2 .. 6
        BY <1>2, <2>2, AllCopied DEF Owned, ImageSound
  <2>. QED
        BY <2>1, <2>2
<1>3. ImageSound'
      BY <1>2 DEF ImageSound
<1>. QED
      BY <1>1, <1>3

LEMMA WipeSound == DevicesSound /\ Wipe => DevicesSound'
<1> SUFFICES ASSUME DevicesSound, Wipe PROVE DevicesSound'
    OBVIOUS
<1> USE DEF Wipe, legacy, script, DevicesSound
<1>1. \A r \in Child : copies'[r] = 0
      OBVIOUS
<1>2. DevicesTypeOK' /\ RefsSound' /\ ScriptSound'
      BY LegacyAssumption DEF DevicesTypeOK, RefsSound, ScriptSound
<1>3. ImageSound'
      BY <1>1 DEF ImageSound
<1>. QED
      BY <1>2, <1>3

LEMMA DevicesKept == DevicesSound /\ UNCHANGED deviceVars => DevicesSound'
BY DEF deviceVars, legacy, script, target, DevicesSound, DevicesTypeOK, RefsSound, ScriptSound,
       ImageSound, Leftover, Passed, Owned

LEMMA DevicesNextSound == DevicesSound /\ DevicesNext => DevicesSound'
BY BeginSound, UpsertHardwareSound, CreateDeviceSound, CreateAssignmentSound, CopySound,
   NextTableSound, DieSound, WipeSound
DEF DevicesNext

-----------------------------------------------------------------------------
(* LegacyBackup: types, and the devices while the second script runs. *)

\* The part of TypeOK that is not about the devices.
WorkTypeOK ==
    /\ sender \in [Doc -> Box \union {None}]
    /\ phase \in {"idle", "notes", "months", "done"}
    /\ known \subseteq Box /\ left \subseteq Doc \union Month
    /\ batch \subseteq Doc /\ Cardinality(batch) < BatchSize
    /\ month \in Month \union {None} /\ (month = None) = (mstep = "exists")
    /\ mstep \in {"exists", "upload", "count", "record"}
    /\ \A f \in {object, meta, record} : f \in [Month -> Writer]
    /\ cause \in [Month -> SUBSET {"died", "raced", "refused", "withdrawn"}]
    /\ out \subseteq Box /\ swaps \in 0 .. MaxSwaps
    /\ exporting \in [Export -> Month \union {None}]
    /\ estep \in [Export -> {"upload", "count", "record", "over"}]
    /\ \A x \in Export : exporting[x] # None <=> estep[x] \in {"count", "record"}
    /\ noteCopies \in [Doc -> Nat] /\ backups \in 0 .. MaxBackups
    /\ IsFiniteSet(batch)

Typed == DevicesSound /\ WorkTypeOK

\* The steps of an export, of the second script, and of all but the first script.
ExportStep(x) ==
    \/ \E m \in Month : ExportUpload(x, m)
    \/ ExportMismatch(x) \/ ExportMeta(x) \/ ExportRecord(x) \/ ExportFails(x)

ScriptStep ==
    \/ BeginBackup \/ LastBatch \/ Upload \/ Mismatch \/ PutMeta \/ RecordMonth \/ Finish \/ Crash
    \/ \E d \in Doc : ReadNotification(d)
    \/ \E m \in Month : TakeMonth(m)

BackupStep == ScriptStep \/ Swap \/ \E x \in Export : ExportStep(x)

LEMMA NextIs == Next => RunDevices \/ (BackupStep /\ UNCHANGED deviceVars)
<1>1. ScriptStep => UNCHANGED deviceVars
      BY DEF ScriptStep, BeginBackup, LastBatch, Upload, Mismatch, PutMeta, RecordMonth, Finish,
             Crash, ReadNotification, TakeMonth, Stop
<1>2. ASSUME NEW x \in Export, ExportStep(x) PROVE UNCHANGED deviceVars
      BY <1>2 DEF ExportStep, ExportUpload, ExportMismatch, ExportMeta, ExportRecord, ExportFails,
                  ExportOver
<1>3. Next => RunDevices \/ BackupStep
      BY DEF Next, BackupStep, ScriptStep, ExportStep
<1>. QED
      BY <1>1, <1>2, <1>3 DEF BackupStep, Swap

LEMMA BatchesTyped ==
    ASSUME Typed, NEW d \in Doc
    PROVE  LET full == batch \union ({d} \ {x \in Doc : sender[x] \notin known}) IN
           /\ full \subseteq Doc /\ IsFiniteSet(full) /\ Cardinality(full) \in Nat
           /\ \A x \in full : x \in batch \/ (x = d /\ sender[d] \in known)
           /\ sender[d] \in known => d \in full
           /\ batch \subseteq full
<1> DEFINE one == {d} \ {x \in Doc : sender[x] \notin known}
<1>1. IsFiniteSet(one)
      BY FS_Singleton, FS_Subset
<1>2. IsFiniteSet(batch \union one)
      BY <1>1, FS_Union DEF Typed, WorkTypeOK
<1>3. Cardinality(batch \union one) \in Nat
      BY <1>2, FS_CardinalityType
<1>. QED
      BY <1>2, <1>3 DEF Typed, WorkTypeOK

LEMMA EmptyBatch == IsFiniteSet({}) /\ Cardinality({}) = 0 /\ 0 < BatchSize
BY FS_EmptySet, BackupAssumption

LEMMA FlushTyped ==
    ASSUME Typed, NEW docs, Flush(docs)
    PROVE  /\ noteCopies' \in [Doc -> Nat]
           /\ \A d \in Doc : noteCopies'[d] = noteCopies[d] + IF d \in docs THEN 1 ELSE 0
<1>1. \A d \in Doc : (noteCopies[d] + IF d \in docs THEN 1 ELSE 0) \in Nat
      BY DEF Typed, WorkTypeOK
<1>. QED
      BY <1>1 DEF Flush

LEMMA InitTyped == Init => Typed
<1> SUFFICES ASSUME Init PROVE Typed
    OBVIOUS
<1>1. WorkTypeOK
      BY EmptyBatch, BackupAssumption DEF Init, WorkTypeOK, Writer
<1>. QED
      BY <1>1, DevicesInitSound DEF Init, Typed

LEMMA NextTyped == Typed /\ [Next]_vars => Typed'
<1> SUFFICES ASSUME Typed, [Next]_vars PROVE Typed'
    OBVIOUS
<1>1. DevicesSound'
      BY NextIs, DevicesNextSound, DevicesKept DEF Typed, vars, RunDevices
<1>2. ASSUME UNCHANGED backupVars \/ RunDevices PROVE WorkTypeOK'
      BY <1>2 DEF Typed, WorkTypeOK, RunDevices, backupVars, cursor, options, files, app, boxes
<1>3. ASSUME ScriptStep PROVE WorkTypeOK'
  <2> USE BackupAssumption DEF Typed, WorkTypeOK, options, cursor, files, app, boxes, Note, Writer,
                               PutObject
  <2>1. CASE BeginBackup
    <3>1. devices \subseteq Box /\ stage = 6
          BY <2>1 DEF BeginBackup, DevicesSound, DevicesTypeOK
    <3>. QED
          BY <2>1, <3>1, EmptyBatch DEF BeginBackup
  <2>2. CASE LastBatch
        BY <2>2, FlushTyped, EmptyBatch DEF LastBatch
  <2>3. CASE Upload
        BY <2>3 DEF Upload
  <2>4. CASE Mismatch
        BY <2>4, EmptyBatch DEF Mismatch, Stop
  <2>5. CASE PutMeta
        BY <2>5 DEF PutMeta
  <2>6. CASE RecordMonth
        BY <2>6 DEF RecordMonth
  <2>7. CASE Finish
        BY <2>7, EmptyBatch DEF Finish, Stop
  <2>8. CASE Crash
        BY <2>8, EmptyBatch DEF Crash, Stop
  <2>9. ASSUME NEW d \in Doc, ReadNotification(d) PROVE WorkTypeOK'
    <3> DEFINE full == batch \union ({d} \ {x \in Doc : sender[x] \notin known})
    <3>1. /\ phase = "notes" /\ left' = left \ {d}
          /\ IF Cardinality(full) >= BatchSize
             THEN Flush(full) /\ batch' = {}
             ELSE batch' = full /\ UNCHANGED noteCopies
          /\ UNCHANGED <<sender, phase, month, mstep, options, files, app, boxes, cause>>
          BY <2>9 DEF ReadNotification
    <3>2. full \subseteq Doc /\ IsFiniteSet(full) /\ Cardinality(full) \in Nat
          BY BatchesTyped
    <3> HIDE DEF full
    <3>3. CASE Cardinality(full) >= BatchSize
      <4>1. noteCopies' \in [Doc -> Nat] /\ batch' = {}
            BY <3>1, <3>3, FlushTyped
      <4>. QED
            BY <3>1, <4>1, EmptyBatch
    <3>4. CASE ~ (Cardinality(full) >= BatchSize)
          BY <3>1, <3>2, <3>4
    <3>. QED
          BY <3>3, <3>4
  <2>10. ASSUME NEW m \in Month, TakeMonth(m) PROVE WorkTypeOK'
        BY <2>10 DEF TakeMonth
  <2>. QED
        BY <1>3, <2>1, <2>2, <2>3, <2>4, <2>5, <2>6, <2>7, <2>8, <2>9, <2>10 DEF ScriptStep
<1>4. ASSUME NEW x \in Export, ExportStep(x) PROVE WorkTypeOK'
  <2> USE BackupAssumption DEF Typed, WorkTypeOK, options, cursor, files, boxes, Note, Writer
  <2>1. ASSUME NEW m \in Month, ExportUpload(x, m) PROVE WorkTypeOK'
        BY <2>1 DEF ExportUpload, PutObject
  <2>2. CASE ExportMismatch(x)
        BY <2>2 DEF ExportMismatch, ExportOver
  <2>3. CASE ExportMeta(x)
        BY <2>3 DEF ExportMeta
  <2>4. CASE ExportRecord(x)
        BY <2>4 DEF ExportRecord, ExportOver
  <2>5. CASE ExportFails(x)
        BY <2>5 DEF ExportFails, ExportOver
  <2>. QED
        BY <1>4, <2>1, <2>2, <2>3, <2>4, <2>5 DEF ExportStep
<1>5. ASSUME Swap PROVE WorkTypeOK'
      BY <1>5, BackupAssumption DEF Swap, Typed, WorkTypeOK, options, cursor, files, app
<1>6. WorkTypeOK'
      BY <1>2, <1>3, <1>4, <1>5, NextIs DEF vars, BackupStep
<1>. QED
      BY <1>1, <1>6 DEF Typed

\* A run of the first script that gets to its end has left an exact image.
THEOREM FinishedRunsAreWhole == Spec => []FinishedRunIsWhole
<1>1. Typed => FinishedRunIsWhole
  <2> SUFFICES ASSUME Typed, stage = 6, NEW r \in Child
               PROVE  /\ hardware = Box /\ devices = Box /\ assigned = Box
                      /\ copies[r] = IF Owned(r) THEN 1 ELSE 0
      BY AllCopied DEF FinishedRunIsWhole, Owned, Typed
  <2>1. Passed(r)
        BY TablesApart DEF Passed
  <2>. QED
        BY <2>1, AllCopied DEF Typed, DevicesSound, ImageSound
<1>. QED
      BY <1>1, InitTyped, NextTyped, PTL DEF Spec

-----------------------------------------------------------------------------
(* LegacyBackup: the notifications. *)

\* A batch is of documents read in this run, each of which is inserted once; a
\* document is left, or waits in the batch, or is in, or is of no box known.
Arrived(d) ==
    /\ noteCopies[d] <= backups
    /\ noteCopies[d] > 0 => sender[d] \in Box
    /\ phase = "notes" /\ d \in left \union batch => noteCopies[d] < backups
    /\ phase = "notes" /\ sender[d] \in known => d \in left \union batch \/ noteCopies[d] > 0
    /\ phase \in {"months", "done"} /\ ~ skip /\ sender[d] \in known => noteCopies[d] > 0
    /\ backups = 1 /\ noteCopies[d] > 0 => sender[d] \in known

Notes ==
    /\ phase # "notes" => batch = {}
    /\ phase = "notes" => left \subseteq Doc /\ left \intersect batch = {}
    /\ \A d \in batch : sender[d] \in known
    /\ \A d \in Doc : Arrived(d)

LEMMA NotesKept ==
    ASSUME Notes, UNCHANGED <<sender, phase, batch, noteCopies, options>>,
           phase = "notes" => left' = left
    PROVE  Notes'
BY DEF Notes, Arrived, options

\* What a run that stops, or has come to the months, says of the notifications.
LEMMA NotesOver ==
    ASSUME Notes, UNCHANGED <<sender, noteCopies, options>>, phase \in {"notes", "months"},
           phase' = "idle" \/ (phase = "months" /\ phase' = "done"), batch' = {}
    PROVE  Notes'
BY DEF Notes, Arrived, options

LEMMA BeginBackupNotes == Typed /\ Notes /\ BeginBackup => Notes'
<1> SUFFICES ASSUME Typed, Notes, BeginBackup PROVE Notes'
    OBVIOUS
<1>1. known' \subseteq Box
      BY AllCopied DEF BeginBackup, Typed
<1>2. backups \in Nat /\ backups' = backups + 1 /\ noteCopies \in [Doc -> Nat]
      BY BackupAssumption DEF BeginBackup, Typed, WorkTypeOK
<1>3. /\ UNCHANGED <<sender, noteCopies>> /\ batch' = {}
      /\ \/ skip' /\ phase' = "months"
         \/ ~ skip' /\ phase' = "notes" /\ left' = Doc
      BY DEF BeginBackup
<1>4. ASSUME NEW d \in Doc PROVE Arrived(d)'
  <2>1. noteCopies[d] \in Nat /\ noteCopies[d] <= backups /\ (noteCopies[d] > 0 => sender[d] \in Box)
        BY <1>2 DEF Notes, Arrived
  <2>2. /\ noteCopies'[d] < backups' /\ noteCopies'[d] <= backups'
        /\ backups' = 1 => noteCopies'[d] = 0
        BY <1>2, <1>3, <2>1
  <2>. QED
        BY <1>3, <2>1, <2>2 DEF Arrived
<1>. QED
      BY <1>1, <1>3, <1>4 DEF Notes

\* Each document of a batch is inserted once in a run.
LEMMA FlushArrives ==
    ASSUME Typed, Notes, phase = "notes", NEW docs, Flush(docs), NEW d \in Doc,
           d \in docs => d \in left \union batch /\ sender[d] \in known
    PROVE  /\ noteCopies'[d] <= backups
           /\ noteCopies'[d] > 0 => sender[d] \in Box
           /\ backups = 1 /\ noteCopies'[d] > 0 => sender[d] \in known
           /\ d \in docs => noteCopies'[d] > 0
           /\ d \notin docs => noteCopies'[d] = noteCopies[d]
<1>1. noteCopies'[d] = noteCopies[d] + IF d \in docs THEN 1 ELSE 0
      BY FlushTyped
<1>2. noteCopies[d] \in Nat /\ backups \in Nat /\ known \subseteq Box
      BY BackupAssumption DEF Typed, WorkTypeOK
<1>3. Arrived(d)
      BY DEF Notes
<1>. QED
      BY <1>1, <1>2, <1>3 DEF Arrived

LEMMA ReadNotificationNotes ==
    ASSUME Typed, Notes, NEW d \in Doc, ReadNotification(d)
    PROVE  Notes'
<1> DEFINE full == batch \union ({d} \ {x \in Doc : sender[x] \notin known})
<1>1. /\ phase = "notes" /\ phase' = "notes" /\ d \in left /\ left' = left \ {d}
      /\ IF Cardinality(full) >= BatchSize
         THEN Flush(full) /\ batch' = {}
         ELSE batch' = full /\ UNCHANGED noteCopies
      /\ UNCHANGED <<sender, options>>
      BY DEF ReadNotification
<1>2. /\ full \subseteq Doc
      /\ \A x \in full : x \in batch \/ (x = d /\ sender[d] \in known)
      /\ sender[d] \in known => d \in full
      /\ batch \subseteq full
      BY BatchesTyped
<1> HIDE DEF full
<1>3. /\ left \subseteq Doc /\ left \intersect batch = {} /\ batch \subseteq Doc
      /\ \A x \in batch : sender[x] \in known
      BY <1>1 DEF Notes, Typed, WorkTypeOK
<1>4. /\ \A x \in full : sender[x] \in known /\ x \in left \union batch /\ x \notin left'
      /\ \A x \in left \union batch : sender[x] \in known => x \in left' \union full
      /\ left' \subseteq Doc /\ left' \subseteq left /\ left' \intersect batch' = {}
      BY <1>1, <1>2, <1>3
<1>5. CASE Cardinality(full) >= BatchSize
  <2>1. ASSUME NEW x \in Doc PROVE Arrived(x)'
    <3>1. Arrived(x)
          BY DEF Notes
    <3>2. /\ noteCopies'[x] <= backups
          /\ noteCopies'[x] > 0 => sender[x] \in Box
          /\ backups = 1 /\ noteCopies'[x] > 0 => sender[x] \in known
          /\ x \in full => noteCopies'[x] > 0
          /\ x \notin full => noteCopies'[x] = noteCopies[x]
          BY <1>1, <1>4, <1>5, FlushArrives
    <3>. QED
          BY <1>1, <1>4, <1>5, <3>1, <3>2 DEF Arrived, options
  <2>. QED
        BY <1>1, <1>3, <1>4, <1>5, <2>1 DEF Notes, options
<1>6. CASE ~ (Cardinality(full) >= BatchSize)
  <2>1. ASSUME NEW x \in Doc PROVE Arrived(x)'
    <3>1. Arrived(x)
          BY DEF Notes
    <3>. QED
          BY <1>1, <1>4, <1>6, <3>1 DEF Arrived, options
  <2>. QED
        BY <1>1, <1>3, <1>4, <1>6, <2>1 DEF Notes, options
<1>. QED
      BY <1>5, <1>6

LEMMA LastBatchNotes == Typed /\ Notes /\ LastBatch => Notes'
<1> SUFFICES ASSUME Typed, Notes, LastBatch PROVE Notes'
    OBVIOUS
<1>1. /\ phase = "notes" /\ phase' = "months" /\ left = {} /\ Flush(batch) /\ batch' = {}
      /\ UNCHANGED <<sender, options>>
      BY DEF LastBatch
<1>2. \A d \in batch : sender[d] \in known
      BY <1>1 DEF Notes
<1>3. ASSUME NEW d \in Doc PROVE Arrived(d)'
  <2>1. Arrived(d)
        BY DEF Notes
  <2>2. /\ noteCopies'[d] <= backups
        /\ noteCopies'[d] > 0 => sender[d] \in Box
        /\ backups = 1 /\ noteCopies'[d] > 0 => sender[d] \in known
        /\ d \in batch => noteCopies'[d] > 0
        /\ d \notin batch => noteCopies'[d] = noteCopies[d]
        BY <1>1, <1>2, FlushArrives
  <2>. QED
        BY <1>1, <2>1, <2>2 DEF Arrived, options
<1>. QED
      BY <1>1, <1>2, <1>3 DEF Notes, options

LEMMA InitNotes == Init => Notes
BY DEF Init, Notes, Arrived

LEMMA NextNotes == Typed /\ Notes /\ [Next]_vars => Notes'
<1> SUFFICES ASSUME Typed, Notes, [Next]_vars PROVE Notes'
    OBVIOUS
<1>1. CASE UNCHANGED backupVars \/ RunDevices \/ Swap
      BY <1>1, NotesKept DEF RunDevices, Swap, backupVars, cursor
<1>2. CASE Upload \/ PutMeta \/ RecordMonth \/ \E m \in Month : TakeMonth(m)
      BY <1>2, NotesKept DEF Upload, PutMeta, RecordMonth, TakeMonth
<1>3. CASE Mismatch \/ Finish \/ Crash
      BY <1>3, NotesOver DEF Mismatch, Finish, Crash, Stop
<1>4. ASSUME NEW x \in Export, ExportStep(x) PROVE Notes'
      BY <1>4, NotesKept
      DEF ExportStep, ExportUpload, ExportMismatch, ExportMeta, ExportRecord, ExportFails, ExportOver,
          cursor
<1>. QED
      BY <1>1, <1>2, <1>3, <1>4, NextIs, BeginBackupNotes, LastBatchNotes, ReadNotificationNotes
      DEF BackupStep, ScriptStep, vars

LEMMA AlwaysNotes == Spec => [](Typed /\ Notes)
BY InitTyped, NextTyped, InitNotes, NextNotes, PTL DEF Spec

\* Types of both scripts; a notification is inserted at most once by each run.
THEOREM TypeCorrect == Spec => []TypeOK
<1>1. Typed /\ Notes => TypeOK
  <2> SUFFICES ASSUME Typed, Notes PROVE TypeOK
      OBVIOUS
  <2>1. ASSUME NEW d \in Doc PROVE noteCopies[d] \in 0 .. MaxBackups
        BY BackupAssumption DEF Typed, WorkTypeOK, Notes, Arrived
  <2>. QED
        BY <2>1 DEF Typed, DevicesSound, WorkTypeOK, TypeOK
<1>. QED
      BY <1>1, AlwaysNotes, PTL

\* A run of the second script that gets to its end has delivered every old
\* notification of a box that had a point when it began, and none of an unknown
\* box, whatever the size of the batches and whatever swaps go on.
THEOREM OldNotificationsArrive == Spec => []NotificationsArrive
<1>1. Typed /\ Notes => NotificationsArrive
  <2> SUFFICES ASSUME Typed, Notes, phase = "done", ~ skip, NEW d \in Doc
               PROVE  /\ sender[d] \in known => noteCopies[d] > 0
                      /\ noteCopies[d] > 0 => sender[d] \in Box
      BY DEF NotificationsArrive
  <2>. QED
        BY DEF Notes, Arrived
<1>. QED
      BY <1>1, AlwaysNotes, PTL

\* The first run, when it gets to its end, has delivered each of them once, and
\* nothing else: the batches overlap nowhere and leave nothing out, and a swap
\* during the run changes nothing.
THEOREM FirstRunDeliversOnce ==
    Spec => [](phase = "done" /\ ~ skip /\ backups = 1 =>
                  \A d \in Doc : noteCopies[d] = IF sender[d] \in known THEN 1 ELSE 0)
<1>1. Typed /\ Notes =>
        (phase = "done" /\ ~ skip /\ backups = 1 =>
            \A d \in Doc : noteCopies[d] = IF sender[d] \in known THEN 1 ELSE 0)
  <2> SUFFICES ASSUME Typed, Notes, phase = "done", ~ skip, backups = 1, NEW d \in Doc
               PROVE  noteCopies[d] = IF sender[d] \in known THEN 1 ELSE 0
      OBVIOUS
  <2>1. /\ noteCopies[d] \in Nat /\ noteCopies[d] <= 1
        /\ noteCopies[d] > 0 <=> sender[d] \in known
        BY DEF Typed, WorkTypeOK, Notes, Arrived
  <2>. QED
        BY <2>1
<1>. QED
      BY <1>1, AlwaysNotes, PTL

-----------------------------------------------------------------------------
(* LegacyBackup: the months. *)

\* An object that nobody has in hand is of a month on record.  While nothing has
\* gone wrong, who has the month in hand is alone, and wrote what he should have.
MonthSound(m) ==
    /\ object[m] # None /\ ~ InHand(m) => record[m] # None \/ "died" \in cause[m]
    /\ cause[m] = {} =>
          /\ record[m] # None /\ ~ InHand(m) => object[m] = record[m] /\ meta[m] = record[m]
          /\ month = m /\ mstep \in {"count", "record"} => object[m] = "script"
          /\ month = m /\ mstep = "record" => meta[m] = "script"
          /\ \A x \in Export :
                exporting[x] = m =>
                   /\ object[m] = "app"
                   /\ estep[x] = "record" => meta[m] = "app"
                   /\ \A y \in Export : exporting[y] = m => y = x

Excused(m) == record[m] # None \/ Exporting(m) \/ cause[m] \intersect {"died", "withdrawn"} # {}

\* A month that is behind a run is on record.
Behind(m) ==
    /\ phase = "months" => m \in left \/ month = m \/ Excused(m)
    /\ phase = "done" => Excused(m)

Months ==
    /\ phase # "months" => month = None
    /\ phase = "months" => left \subseteq Month
    /\ \A m \in Month : MonthSound(m)
    /\ \A m \in Month \ {Current} : Behind(m)

\* A step that is not about month m.
SameMonth(m) ==
    /\ object'[m] = object[m] /\ meta'[m] = meta[m] /\ record'[m] = record[m]
    /\ cause'[m] = cause[m]
    /\ (month' = m <=> month = m) /\ (month = m => mstep' = mstep)
    /\ \A x \in Export : /\ exporting'[x] = m <=> exporting[x] = m
                         /\ exporting[x] = m => estep'[x] = estep[x]

LEMMA InitMonths == Init => Months
<1> SUFFICES ASSUME Init PROVE Months
    OBVIOUS
<1>1. \A m \in Month : object[m] = None /\ record[m] = None
      BY DEF Init
<1>2. \A m \in Month : m # None /\ \A x \in Export : exporting[x] # m
      BY BackupAssumption DEF Init
<1>. QED
      BY <1>1, <1>2 DEF Init, Months, MonthSound, Behind

LEMMA SameMonthSound ==
    ASSUME NEW m, MonthSound(m), SameMonth(m)
    PROVE  /\ MonthSound(m)' /\ Excused(m)' = Excused(m)
           /\ Behind(m) /\ UNCHANGED <<phase, left>> => Behind(m)'
<1>1. InHand(m)' = InHand(m) /\ Exporting(m)' = Exporting(m)
      BY DEF SameMonth, InHand, Exporting
<1>2. MonthSound(m)' /\ Excused(m)' = Excused(m)
      BY <1>1 DEF SameMonth, MonthSound, Excused
<1>. QED
      BY <1>2 DEF Behind, SameMonth

\* Steps that are not about months, but may begin or end with them.
LEMMA MonthsKept ==
    ASSUME Typed, Months, UNCHANGED <<files, app, cause, month, mstep>>,
           \/ UNCHANGED <<phase, left>>
           \/ phase = "notes" /\ phase' = "notes"
           \/ phase # "months" /\ phase' = "notes"
           \/ phase # "months" /\ phase' = "months" /\ left' = Month \ {Current}
    PROVE  Months'
<1>1. ASSUME NEW m \in Month PROVE MonthSound(m)' /\ Excused(m)' = Excused(m)
  <2>1. SameMonth(m)
        BY DEF SameMonth, files, app
  <2>. QED
        BY <2>1, SameMonthSound DEF Months
<1>2. ASSUME NEW m \in Month \ {Current} PROVE Behind(m)'
      BY <1>1 DEF Months, Behind
<1>. QED
      BY <1>1, <1>2 DEF Months

LEMMA BeginBackupMonths == Typed /\ Months /\ BeginBackup => Months'
<1> SUFFICES ASSUME Typed, Months, BeginBackup PROVE Months'
    OBVIOUS
<1>1. month = None /\ mstep = "exists"
      BY DEF BeginBackup, Months, Typed, WorkTypeOK
<1>. QED
      BY <1>1, MonthsKept DEF BeginBackup

LEMMA TakeMonthMonths ==
    ASSUME Typed, Months, NEW m \in Month, TakeMonth(m)
    PROVE  Months'
<1>1. /\ phase = "months" /\ phase' = "months" /\ month = None /\ mstep = "exists"
      /\ left' = left \ {m} /\ UNCHANGED <<files, app, cause>>
      /\ \/ month' = m /\ mstep' = "upload"
         \/ object[m] # None /\ UNCHANGED <<month, mstep>>
      BY DEF TakeMonth, Typed, WorkTypeOK
<1>2. \A x \in Month : x # None
      BY BackupAssumption
<1>3. ASSUME NEW x \in Month
      PROVE  /\ InHand(x)' = InHand(x) /\ InHand(x) = Exporting(x)
             /\ Exporting(x)' = Exporting(x)
      BY <1>1, <1>2 DEF InHand, Exporting, app
<1>4. ASSUME NEW x \in Month PROVE MonthSound(x)' /\ Excused(x)' = Excused(x)
  <2>1. MonthSound(x)
        BY DEF Months
  <2>. QED
        BY <1>1, <1>2, <1>3, <2>1 DEF MonthSound, Excused, files, app
<1>5. ASSUME NEW x \in Month \ {Current} PROVE Behind(x)'
  <2>1. MonthSound(x) /\ Behind(x)
        BY DEF Months
  <2>2. CASE x = m /\ month' # m
    <3>1. Excused(x)
          BY <1>1, <1>3, <2>1, <2>2 DEF MonthSound, Excused
    <3>. QED
          BY <1>1, <1>4, <3>1 DEF Behind
  <2>3. CASE ~ (x = m /\ month' # m)
        BY <1>1, <1>2, <1>4, <2>1, <2>3 DEF Behind
  <2>. QED
        BY <2>2, <2>3
<1>. QED
      BY <1>1, <1>4, <1>5 DEF Months

\* A step about one month leaves the others as they are.
LEMMA OneMonth ==
    ASSUME Months, NEW i \in Month, UNCHANGED <<phase, left>>, phase # "months" => month' = None,
           \A m \in Month \ {i} : SameMonth(m),
           MonthSound(i)', i # Current => Behind(i)'
    PROVE  Months'
<1>1. ASSUME NEW m \in Month PROVE MonthSound(m)' /\ (m # Current => Behind(m)')
  <2>1. CASE m = i
        BY <2>1
  <2>2. CASE m # i
    <3>1. SameMonth(m) /\ MonthSound(m) /\ (m # Current => Behind(m))
          BY <2>2 DEF Months
    <3>. QED
          BY <3>1, SameMonthSound
  <2>. QED
        BY <2>1, <2>2
<1>. QED
      BY <1>1 DEF Months

\* An upload: its writer is alone, or the month is raced for.
LEMMA UploadMonths == Typed /\ Months /\ Upload => Months'
<1> SUFFICES ASSUME Typed, Months, Upload PROVE Months'
    OBVIOUS
<1>1. PICK i \in Month : i = month
      BY BackupAssumption DEF Upload, Typed, WorkTypeOK
<1>2. /\ phase = "months" /\ mstep = "upload" /\ mstep' = "count" /\ month' = i
      /\ UNCHANGED <<phase, left, meta, record, app>> /\ PutObject(i, "script")
      /\ object \in [Month -> Writer]
      /\ cause \in [Month -> SUBSET {"died", "raced", "refused", "withdrawn"}]
      BY <1>1 DEF Upload, Typed, WorkTypeOK
<1>3. \A m \in Month \ {i} : SameMonth(m)
      BY <1>1, <1>2 DEF PutObject, SameMonth, app
<1>4. /\ object'[i] = "script" /\ InHand(i)'
      /\ cause'[i] = {} => ~ Exporting(i)'
      BY <1>1, <1>2 DEF PutObject, InHand, Exporting, app
<1>5. MonthSound(i)'
      BY <1>2, <1>4 DEF MonthSound, Exporting
<1>6. i # Current => Behind(i)'
      BY <1>2 DEF Behind
<1>. QED
      BY <1>2, <1>3, <1>5, <1>6, OneMonth

LEMMA PutMetaMonths == Typed /\ Months /\ PutMeta => Months'
<1> SUFFICES ASSUME Typed, Months, PutMeta PROVE Months'
    OBVIOUS
<1>1. PICK i \in Month : i = month
      BY BackupAssumption DEF PutMeta, Typed, WorkTypeOK
<1>2. /\ phase = "months" /\ mstep = "count" /\ mstep' = "record" /\ month' = i
      /\ UNCHANGED <<phase, left, object, record, app, cause>>
      /\ meta' = [meta EXCEPT ![i] = "script"] /\ meta \in [Month -> Writer]
      BY <1>1 DEF PutMeta, Typed, WorkTypeOK
<1>3. \A m \in Month \ {i} : SameMonth(m)
      BY <1>1, <1>2 DEF SameMonth, app
<1>4. MonthSound(i) /\ meta'[i] = "script" /\ InHand(i)'
      BY <1>1, <1>2 DEF Months, InHand
<1>5. cause[i] = {} => object[i] = "script" /\ \A x \in Export : exporting[x] # i
      BY <1>1, <1>2, <1>4 DEF MonthSound
<1>6. MonthSound(i)'
      BY <1>2, <1>4, <1>5 DEF MonthSound, app
<1>7. i # Current => Behind(i)'
      BY <1>2 DEF Behind
<1>. QED
      BY <1>2, <1>3, <1>6, <1>7, OneMonth

LEMMA RecordMonthMonths == Typed /\ Months /\ RecordMonth => Months'
<1> SUFFICES ASSUME Typed, Months, RecordMonth PROVE Months'
    OBVIOUS
<1>1. PICK i \in Month : i = month
      BY BackupAssumption DEF RecordMonth, Typed, WorkTypeOK
<1>2. /\ phase = "months" /\ mstep = "record" /\ month' = None
      /\ UNCHANGED <<phase, left, object, meta, app, cause>>
      /\ record' = [record EXCEPT ![i] = "script"] /\ record \in [Month -> Writer]
      /\ \A m \in Month : m # None
      /\ "script" # None
      BY <1>1, BackupAssumption DEF RecordMonth, Typed, WorkTypeOK
<1>3. \A m \in Month \ {i} : SameMonth(m)
      BY <1>1, <1>2 DEF SameMonth, app
<1>4. MonthSound(i) /\ record'[i] = "script"
      BY <1>2 DEF Months
<1>5. cause[i] = {} => /\ object[i] = "script" /\ meta[i] = "script"
                       /\ \A x \in Export : exporting[x] # i
      BY <1>1, <1>2, <1>4 DEF MonthSound
<1>6. MonthSound(i)'
      BY <1>2, <1>4, <1>5 DEF MonthSound, app
<1>7. i # Current => Behind(i)'
      BY <1>2, <1>4 DEF Behind, Excused
<1>. QED
      BY <1>2, <1>3, <1>6, <1>7, OneMonth

\* The end of a run: a mismatch deletes the object, and a crash is noted if the
\* object was up.
LEMMA StopMonths ==
    ASSUME Typed, Months, Mismatch \/ Finish \/ Crash
    PROVE  Months'
<1>1. /\ month' = None /\ mstep' = "exists" /\ phase' \in {"idle", "done"}
      /\ UNCHANGED <<meta, record, app>>
      BY DEF Mismatch, Finish, Crash, Stop, files
<1>2. /\ object \in [Month -> Writer]
      /\ cause \in [Month -> SUBSET {"died", "raced", "refused", "withdrawn"}]
      BY DEF Typed, WorkTypeOK
<1>3. \A x \in Month : x # None
      BY BackupAssumption
<1>4. ASSUME NEW x \in Month, month # x PROVE SameMonth(x)
      BY <1>1, <1>2, <1>3, <1>4 DEF SameMonth, Mismatch, Finish, Crash, Note, files, app
<1>5. ASSUME NEW x \in Month PROVE MonthSound(x)'
  <2>1. MonthSound(x)
        BY DEF Months
  <2>2. CASE month # x
        BY <1>4, <2>1, <2>2, SameMonthSound
  <2>3. CASE month = x /\ Mismatch
    <3>1. object'[x] = None /\ cause'[x] # {}
          BY <1>2, <2>3 DEF Mismatch, Note
    <3>. QED
          BY <3>1 DEF MonthSound
  <2>4. CASE month = x /\ Crash /\ mstep \in {"count", "record"}
    <3>1. "died" \in cause'[x]
          BY <1>2, <2>4 DEF Crash, Note
    <3>. QED
          BY <3>1 DEF MonthSound
  <2>5. CASE month = x /\ Crash /\ mstep \notin {"count", "record"}
    <3>1. mstep = "upload" /\ UNCHANGED <<files, cause>>
          BY <1>3, <2>5 DEF Crash, Typed, WorkTypeOK
    <3>2. InHand(x)' = InHand(x)
          BY <1>1, <1>3, <2>5, <3>1 DEF InHand, Exporting, app
    <3>. QED
          BY <1>1, <1>3, <2>1, <3>1, <3>2 DEF MonthSound, files, app
  <2>6. CASE month = x /\ Finish
        BY <1>3, <2>6 DEF Finish, Typed, WorkTypeOK
  <2>. QED
        BY <2>2, <2>3, <2>4, <2>5, <2>6
<1>6. ASSUME NEW x \in Month \ {Current} PROVE Behind(x)'
  <2>1. CASE Finish
    <3>1. /\ Behind(x) /\ MonthSound(x) /\ phase = "months" /\ left = {} /\ month = None
          BY <2>1 DEF Finish, Months, Typed, WorkTypeOK
    <3>2. Excused(x) /\ Excused(x)' = Excused(x)
          BY <1>3, <1>4, <3>1, SameMonthSound DEF Behind
    <3>. QED
          BY <1>1, <3>2 DEF Behind
  <2>2. CASE Mismatch \/ Crash
    <3>1. phase' = "idle"
          BY <2>2 DEF Mismatch, Crash, Stop
    <3>. QED
          BY <3>1 DEF Behind
  <2>. QED
        BY <2>1, <2>2
<1>. QED
      BY <1>1, <1>5, <1>6 DEF Months

\* The steps of an export of the application.
LEMMA ExportUploadMonths ==
    ASSUME Typed, Months, NEW x \in Export, NEW i \in Month, ExportUpload(x, i)
    PROVE  Months'
<1>1. /\ estep[x] = "upload" /\ exporting[x] = None /\ i # None
      /\ exporting' = [exporting EXCEPT ![x] = i] /\ estep' = [estep EXCEPT ![x] = "count"]
      /\ UNCHANGED <<phase, left, month, mstep, meta, record>> /\ PutObject(i, "app")
      /\ object \in [Month -> Writer] /\ exporting \in [Export -> Month \union {None}]
      /\ estep \in [Export -> {"upload", "count", "record", "over"}]
      /\ cause \in [Month -> SUBSET {"died", "raced", "refused", "withdrawn"}]
      /\ \A m \in Month : m # None
      BY BackupAssumption DEF ExportUpload, Typed, WorkTypeOK, cursor
<1>2. \A m \in Month \ {i} : SameMonth(m)
      BY <1>1 DEF PutObject, SameMonth
<1>3. /\ object'[i] = "app" /\ InHand(i)' /\ Exporting(i)'
      /\ exporting'[x] = i /\ estep'[x] = "count"
      /\ \A y \in Export \ {x} : exporting'[y] = exporting[y]
      BY <1>1 DEF PutObject, InHand, Exporting
<1>4. cause'[i] = {} => ~ (month = i /\ mstep # "upload") /\ \A y \in Export : exporting[y] # i
      BY <1>1 DEF PutObject, InHand, Exporting
<1>5. MonthSound(i)'
      BY <1>1, <1>3, <1>4 DEF MonthSound
<1>6. i # Current => Behind(i)'
      BY <1>3 DEF Behind, Excused
<1>. QED
      BY <1>1, <1>2, <1>5, <1>6, OneMonth DEF Months

LEMMA ExportMetaMonths ==
    ASSUME Typed, Months, NEW x \in Export, ExportMeta(x)
    PROVE  Months'
<1>1. PICK i \in Month : i = exporting[x]
      BY DEF ExportMeta, Typed, WorkTypeOK
<1>2. /\ estep[x] = "count" /\ estep' = [estep EXCEPT ![x] = "record"]
      /\ UNCHANGED <<phase, left, month, mstep, object, record, exporting, cause>>
      /\ meta' = [meta EXCEPT ![i] = "app"] /\ meta \in [Month -> Writer]
      /\ estep \in [Export -> {"upload", "count", "record", "over"}]
      BY <1>1 DEF ExportMeta, Typed, WorkTypeOK, cursor
<1>3. \A m \in Month \ {i} : SameMonth(m)
      BY <1>1, <1>2 DEF SameMonth
<1>4. MonthSound(i) /\ meta'[i] = "app" /\ InHand(i)' = InHand(i) /\ InHand(i) /\ Exporting(i)'
      BY <1>1, <1>2 DEF Months, InHand, Exporting
<1>5. MonthSound(i)'
  <2>1. cause[i] = {} => /\ object[i] = "app" /\ ~ (month = i /\ mstep = "record")
                         /\ \A y \in Export : exporting[y] = i => y = x
        BY <1>1, <1>4 DEF MonthSound
  <2>. QED
        BY <1>2, <1>4, <2>1 DEF MonthSound
<1>6. i # Current => Behind(i)'
      BY <1>4 DEF Behind, Excused
<1>. QED
      BY <1>2, <1>3, <1>5, <1>6, OneMonth DEF Months

\* An export is done with its month, one way or another.
LEMMA ExportOverMonths ==
    ASSUME Typed, Months, NEW x \in Export,
           ExportMismatch(x) \/ ExportRecord(x) \/ ExportFails(x)
    PROVE  Months'
<1>1. PICK i \in Month : i = exporting[x]
      BY DEF ExportMismatch, ExportRecord, ExportFails, Typed, WorkTypeOK
<1>2. /\ exporting' = [exporting EXCEPT ![x] = None] /\ estep' = [estep EXCEPT ![x] = "over"]
      /\ UNCHANGED <<phase, left, month, mstep, meta>>
      /\ exporting \in [Export -> Month \union {None}]
      /\ estep \in [Export -> {"upload", "count", "record", "over"}]
      /\ object \in [Month -> Writer] /\ record \in [Month -> Writer]
      /\ cause \in [Month -> SUBSET {"died", "raced", "refused", "withdrawn"}]
      /\ \A m \in Month : m # None
      /\ "app" # None
      BY BackupAssumption
      DEF ExportMismatch, ExportRecord, ExportFails, ExportOver, Typed, WorkTypeOK, cursor, files
<1>3. \A m \in Month \ {i} : SameMonth(m)
      BY <1>1, <1>2 DEF SameMonth, ExportMismatch, ExportRecord, ExportFails, Note, files
<1>4. MonthSound(i) /\ (i # Current => Behind(i))
      BY DEF Months
<1>5. MonthSound(i)' /\ Excused(i)'
  <2>1. CASE ExportMismatch(x)
    <3>1. object'[i] = None /\ "withdrawn" \in cause'[i]
          BY <1>1, <1>2, <2>1 DEF ExportMismatch, Note
    <3>. QED
          BY <3>1 DEF MonthSound, Excused
  <2>2. CASE ExportFails(x)
    <3>1. "died" \in cause'[i]
          BY <1>1, <1>2, <2>2 DEF ExportFails, Note
    <3>. QED
          BY <3>1 DEF MonthSound, Excused
  <2>3. CASE ExportRecord(x)
    <3>1. /\ record'[i] = "app" /\ cause' = cause /\ object' = object /\ estep[x] = "record"
          BY <1>1, <1>2, <2>3 DEF ExportRecord
    <3>2. cause[i] = {} => /\ object[i] = "app" /\ meta[i] = "app"
                           /\ \A y \in Export : exporting'[y] # i
          BY <1>1, <1>2, <1>4, <3>1 DEF MonthSound
    <3>3. cause[i] = {} => ~ (month = i /\ mstep \in {"count", "record"})
          BY <1>4, <3>2 DEF MonthSound
    <3>. QED
          BY <1>2, <3>1, <3>2, <3>3 DEF MonthSound, Excused
  <2>. QED
        BY <2>1, <2>2, <2>3
<1>6. i # Current => Behind(i)'
      BY <1>5 DEF Behind
<1>. QED
      BY <1>2, <1>3, <1>5, <1>6, OneMonth DEF Months

LEMMA NextMonths == Typed /\ Months /\ [Next]_vars => Months'
<1> SUFFICES ASSUME Typed, Months, [Next]_vars PROVE Months'
    OBVIOUS
<1>1. CASE UNCHANGED backupVars \/ RunDevices \/ Swap
      BY <1>1, MonthsKept DEF backupVars, cursor, RunDevices, Swap
<1>2. CASE LastBatch \/ \E d \in Doc : ReadNotification(d)
      BY <1>2, MonthsKept DEF LastBatch, ReadNotification
<1>3. ASSUME NEW x \in Export, ExportStep(x) PROVE Months'
      BY <1>3, ExportUploadMonths, ExportMetaMonths, ExportOverMonths DEF ExportStep
<1>. QED
      BY <1>1, <1>2, <1>3, NextIs, BeginBackupMonths, TakeMonthMonths, UploadMonths, PutMetaMonths,
         RecordMonthMonths, StopMonths
      DEF BackupStep, ScriptStep, vars

LEMMA AlwaysMonths == Spec => [](Typed /\ Months)
BY InitTyped, NextTyped, InitMonths, NextMonths, PTL DEF Spec

\* What is on record of a month comes from one writer, but for the causes known,
\* however the steps of the script and of any number of exports alternate.
THEOREM RecordsAreOfOneWriter == Spec => []RecordIsOfOneWriter
<1>1. Months => RecordIsOfOneWriter
      BY DEF Months, MonthSound, RecordIsOfOneWriter
<1>. QED
      BY <1>1, AlwaysMonths, PTL

\* A run that gets to its end leaves every past month on record, unless it skipped
\* one whose object was of a writer that died or withdrew it, or is at it still.
THEOREM OldMonthsAreOnRecord == Spec => []MonthsAreOnRecord
<1>1. Months => MonthsAreOnRecord
      BY DEF Months, Behind, Excused, MonthsAreOnRecord
<1>. QED
      BY <1>1, AlwaysMonths, PTL

=============================================================================
