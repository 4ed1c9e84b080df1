------------------------ MODULE ArchiveBackupProofs ------------------------
(***************************************************************************)
(* Proofs about ArchiveBackup, for any finite set of readings, any number  *)
(* of exports, restores and removals, and any retention.                   *)
(***************************************************************************)
EXTENDS ArchiveBackup, FiniteSetTheorems, TLAPS

-----------------------------------------------------------------------------
(* Types. *)

\* How many rows a set of readings makes.
LEMMA SizeTyped ==
    ASSUME NEW csv \in SUBSET Reading
    PROVE  /\ IsFiniteSet(csv)
           /\ Cardinality(csv) \in 0 .. Cardinality(Reading) /\ Cardinality(csv) # None
<1>1. IsFiniteSet(Reading)
      BY ArchiveAssumption
<1>2. IsFiniteSet(csv) /\ Cardinality(csv) <= Cardinality(Reading)
      BY <1>1, FS_Subset
<1>3. Cardinality(csv) \in Nat /\ Cardinality(Reading) \in Nat
      BY <1>1, <1>2, FS_CardinalityType
<1>4. Cardinality(csv) \in 0 .. Cardinality(Reading)
      BY <1>2, <1>3
<1>. QED
      BY <1>2, <1>4, ArchiveAssumption

LEMMA InitTyped == Init => TypeOK
<1> SUFFICES ASSUME Init PROVE TypeOK
    OBVIOUS
<1>1. crossed \in BOOLEAN
      BY DEF Init
<1>. QED
      BY <1>1, ArchiveAssumption DEF Init, TypeOK, Over

\* The month, and the exports.
LEMMA ExportTyped ==
    ASSUME TypeOK, NEW x \in Export,
           \/ BeginExport(x) \/ Upload(x) \/ CountRows(x) \/ Discard(x) \/ PutMeta(x)
           \/ RecordExport(x)
    PROVE  TypeOK'
<1> USE DEF TypeOK, Goto, Over, Run, month, storage, backup, report
<1>1. CASE BeginExport(x)
      BY <1>1 DEF BeginExport
<1>2. CASE Upload(x)
      BY <1>2 DEF Upload
<1>3. CASE CountRows(x)
      BY <1>3 DEF CountRows
<1>4. CASE Discard(x)
      BY <1>4 DEF Discard
<1>5. CASE PutMeta(x)
      BY <1>5, SizeTyped DEF PutMeta
<1>6. CASE RecordExport(x)
      BY <1>6 DEF RecordExport
<1>. QED
      BY <1>1, <1>2, <1>3, <1>4, <1>5, <1>6

LEMMA RestoreTyped ==
    ASSUME TypeOK, NEW y \in Restore,
           \/ CheckRestored(y) \/ FindObject(y) \/ CopyIn(y) \/ InsertRecord(y)
           \/ CommitRestore(y) \/ Rollback(y)
    PROVE  TypeOK'
<1> USE DEF TypeOK, Goto, Over, Run, month, storage, backup, report
<1>1. CASE CheckRestored(y)
      BY <1>1 DEF CheckRestored
<1>2. CASE FindObject(y)
      BY <1>2 DEF FindObject
<1>3. CASE CopyIn(y)
      BY <1>3 DEF CopyIn
<1>4. CASE InsertRecord(y)
      BY <1>4 DEF InsertRecord
<1>5. CASE CommitRestore(y)
  <2>1. crossed' \in BOOLEAN
        BY <1>5 DEF CommitRestore
  <2>2. restored' \in {None} \union 0 .. Cardinality(Reading)
        BY <1>5, SizeTyped DEF CommitRestore
  <2>. QED
        BY <1>5, <2>1, <2>2 DEF CommitRestore
<1>6. CASE Rollback(y)
      BY <1>6 DEF Rollback
<1>. QED
      BY <1>1, <1>2, <1>3, <1>4, <1>5, <1>6

LEMMA NextTyped == TypeOK /\ [Next]_vars => TypeOK'
<1> SUFFICES ASSUME TypeOK, [Next]_vars PROVE TypeOK'
    OBVIOUS
<1> USE DEF Goto, Over, Run, month, storage, backup, report, runs
<1>1. CASE NextMonth
      BY <1>1, ArchiveAssumption DEF NextMonth, TypeOK
<1>2. ASSUME NEW l \in Reading, Ingest(l) PROVE TypeOK'
      BY <1>2 DEF Ingest, TypeOK
<1>3. ASSUME NEW chunk \in SUBSET Reading, DropChunk(chunk) PROVE TypeOK'
      BY <1>3 DEF DropChunk, TypeOK
<1>4. ASSUME NEW x \in Export,
             \/ BeginExport(x) \/ Upload(x) \/ CountRows(x) \/ Discard(x) \/ PutMeta(x)
             \/ RecordExport(x)
      PROVE  TypeOK'
      BY <1>4, ExportTyped
<1>5. ASSUME NEW y \in Restore,
             \/ CheckRestored(y) \/ FindObject(y) \/ CopyIn(y) \/ InsertRecord(y)
             \/ CommitRestore(y) \/ Rollback(y)
      PROVE  TypeOK'
      BY <1>5, RestoreTyped
<1>6. ASSUME NEW z \in Removal, FindRecord(z) PROVE TypeOK'
      BY <1>6 DEF FindRecord, TypeOK
<1>7. ASSUME NEW z \in Removal, DeleteRows(z) PROVE TypeOK'
  <2>1. crossed' \in BOOLEAN
        BY <1>7 DEF DeleteRows
  <2>. QED
        BY <1>7, <2>1 DEF DeleteRows, TypeOK
<1>8. ASSUME NEW z \in Removal, DeleteRecord(z) PROVE TypeOK'
      BY <1>8 DEF DeleteRecord, TypeOK
<1>9. ASSUME NEW r \in Run, Crash(r) PROVE TypeOK'
      BY <1>9 DEF Crash, TypeOK
<1>10. CASE UNCHANGED vars
      BY <1>10 DEF vars, TypeOK
<1>. QED
      BY <1>1, <1>2, <1>3, <1>4, <1>5, <1>6, <1>7, <1>8, <1>9, <1>10 DEF Next

\* The type invariant, for any number of runs.
THEOREM TypeCorrect == Spec => []TypeOK
BY InitTyped, NextTyped, PTL DEF Spec

-----------------------------------------------------------------------------
(* Rows in log_day_archive and records in archive_restore, whoever exports. *)

\* Rows that are not committed belong to a restore at work; one restore at a
\* time has its record in, while there is none; a removal that is after a
\* record has deleted the rows, and no others have come, unless it was crossed.
Records ==
    /\ \A y \in Restore : inserted[y] # {} => pc[y] \in {"insert", "commit"}
    /\ \A y, o \in Restore : pc[y] = "commit" => restored = None /\ (pc[o] = "commit" => o = y)
    /\ archive # {} /\ ~ crossed => restored # None /\ \A z \in Removal : pc[z] # "deleteRecord"
    /\ RecordHasRows

\* A step that neither commits a restore nor deletes rows or records, and that
\* moves no restore to its commit and no removal that has deleted rows back.
LEMMA RecordsKept ==
    ASSUME Records, UNCHANGED <<archive, restored, crossed>>,
           \A y \in Restore :
              /\ inserted'[y] # {} => pc'[y] \in {"insert", "commit"}
              /\ pc'[y] = "commit" => pc[y] = "commit",
           \A z \in Removal :
              /\ pc'[z] = "deleteRecord" => pc[z] = "deleteRecord"
              /\ pc[z] \in {"deleteRecord", "halfway"} => pc'[z] \in {"deleteRecord", "halfway"}
    PROVE  Records'
<1>1. RecordHasRows'
      BY DEF Records, RecordHasRows
<1>. QED
      BY <1>1 DEF Records

LEMMA ExportKeepsRecords ==
    ASSUME TypeOK, Records, NEW x \in Export,
           \/ BeginExport(x) \/ Upload(x) \/ CountRows(x) \/ Discard(x) \/ PutMeta(x)
           \/ RecordExport(x)
    PROVE  Records'
<1>1. UNCHANGED <<report, inserted>>
      BY DEF BeginExport, Upload, CountRows, Discard, PutMeta, RecordExport
<1>2. \A r \in Run \ {x} : pc'[r] = pc[r]
      BY DEF BeginExport, Upload, CountRows, Discard, PutMeta, RecordExport, Goto, TypeOK
<1>3. \A r \in Restore \union Removal : pc'[r] = pc[r]
      BY <1>2, ArchiveAssumption DEF Run
<1>. QED
      BY <1>1, <1>3, RecordsKept DEF Records, report

LEMMA RestoreKeepsRecords ==
    ASSUME TypeOK, Records, NEW y \in Restore,
           \/ CheckRestored(y) \/ FindObject(y) \/ CopyIn(y) \/ InsertRecord(y)
           \/ CommitRestore(y) \/ Rollback(y)
    PROVE  Records'
<1> USE DEF report, Goto
<1>0. /\ \A r \in Run \ {y} : pc'[r] = pc[r]
      /\ \A o \in Restore \ {y} : inserted'[o] = inserted[o]
      BY DEF CheckRestored, FindObject, CopyIn, InsertRecord, CommitRestore, Rollback, TypeOK
<1>1. /\ \A z \in Removal : pc'[z] = pc[z]
      /\ \A o \in Restore \ {y} : pc'[o] = pc[o]
      BY <1>0, ArchiveAssumption DEF Run
<1>2. CASE CheckRestored(y) \/ FindObject(y) \/ CopyIn(y) \/ Rollback(y)
  <2>0. y \in Run /\ (pc[y] \in {"idle", "find"} => inserted[y] = {})
        BY DEF Records, Run
  <2>1. pc'[y] \notin {"commit", "insert"} => inserted'[y] = {}
    <3>1. CASE CheckRestored(y)
          BY <2>0, <3>1 DEF CheckRestored
    <3>2. CASE FindObject(y)
          BY <2>0, <3>2 DEF FindObject
    <3>3. CASE CopyIn(y)
          BY <3>3 DEF CopyIn, TypeOK, Run
    <3>4. CASE Rollback(y)
          BY <3>4 DEF Rollback, TypeOK
    <3>. QED
          BY <1>2, <3>1, <3>2, <3>3, <3>4
  <2>2. pc'[y] # "commit"
        BY <1>2 DEF CheckRestored, FindObject, CopyIn, Rollback, TypeOK, Run
  <2>3. UNCHANGED <<archive, restored, crossed>>
        BY <1>2 DEF CheckRestored, FindObject, CopyIn, Rollback
  <2>4. \A o \in Restore :
           /\ inserted'[o] # {} => pc'[o] \in {"insert", "commit"}
           /\ pc'[o] = "commit" => pc[o] = "commit"
        BY <1>0, <1>1, <2>1, <2>2 DEF Records
  <2>. QED
    <3>1. \A z \in Removal :
             /\ pc'[z] = "deleteRecord" => pc[z] = "deleteRecord"
             /\ pc[z] \in {"deleteRecord", "halfway"} => pc'[z] \in {"deleteRecord", "halfway"}
          BY <1>1
    <3>. QED
          BY <2>3, <2>4, <3>1, RecordsKept
<1>3. CASE InsertRecord(y)
  <2>1. pc'[y] = "commit" /\ \A o \in Restore : pc[o] # "commit"
        BY <1>3 DEF InsertRecord, TypeOK, Run
  <2>2. UNCHANGED <<archive, restored, crossed, inserted>> /\ restored = None
        BY <1>3 DEF InsertRecord
  <2>3. RecordHasRows'
        BY <1>1, <2>2 DEF Records, RecordHasRows
  <2>. QED
        BY <1>1, <2>1, <2>2, <2>3 DEF Records
<1>4. CASE CommitRestore(y)
  <2>1. /\ pc[y] = "commit" /\ pc'[y] = "done" /\ inserted'[y] = {}
        /\ archive' = archive \union inserted[y]
        /\ restored' = Cardinality(inserted[y])
        /\ crossed' = (crossed \/ (restored = None /\ \E z \in Removal : pc[z] = "deleteRecord"))
        BY <1>4 DEF CommitRestore, TypeOK, Run
  <2>2. restored = None /\ \A o \in Restore \ {y} : pc[o] # "commit"
        BY <2>1 DEF Records
  <2>3. restored' # None /\ IsFiniteSet(inserted[y])
        BY <2>1, SizeTyped DEF TypeOK
  <2>4. RecordHasRows'
    <3>1. restored' # 0 => inserted[y] # {}
          BY <2>1, FS_EmptySet
    <3>. QED
          BY <2>1, <3>1 DEF RecordHasRows
  <2>5. \A o \in Restore : inserted'[o] # {} => pc'[o] \in {"insert", "commit"}
        BY <1>0, <1>1, <2>1 DEF Records
  <2>6. \A o \in Restore : pc'[o] # "commit"
        BY <1>1, <2>1, <2>2
  <2>7. ~ crossed' => \A z \in Removal : pc'[z] # "deleteRecord"
        BY <1>1, <2>1, <2>2
  <2>. QED
        BY <2>3, <2>4, <2>5, <2>6, <2>7 DEF Records
<1>. QED
      BY <1>2, <1>3, <1>4

LEMMA RemovalKeepsRecords ==
    ASSUME TypeOK, Records, NEW z \in Removal,
           FindRecord(z) \/ DeleteRows(z) \/ DeleteRecord(z)
    PROVE  Records'
<1> USE DEF report, Goto
<1>0. inserted' = inserted /\ \A r \in Run \ {z} : pc'[r] = pc[r]
      BY DEF FindRecord, DeleteRows, DeleteRecord, TypeOK
<1>1. /\ \A y \in Restore : pc'[y] = pc[y]
      /\ \A o \in Removal \ {z} : pc'[o] = pc[o]
      BY <1>0, ArchiveAssumption DEF Run
<1>2. CASE FindRecord(z)
  <2>1. pc[z] = "idle" /\ pc'[z] # "deleteRecord" /\ UNCHANGED <<archive, restored, crossed>>
        BY <1>2 DEF FindRecord, TypeOK, Run
  <2>. QED
        BY <1>0, <1>1, <2>1, RecordsKept DEF Records
<1>3. CASE DeleteRows(z)
  <2>1. archive' = {} /\ restored' = restored /\ pc'[z] = "deleteRecord"
        BY <1>3 DEF DeleteRows, TypeOK, Run
  <2>2. RecordHasRows'
        BY <2>1 DEF RecordHasRows
  <2>. QED
        BY <1>0, <1>1, <2>1, <2>2 DEF Records
<1>4. CASE DeleteRecord(z)
  <2>1. /\ pc[z] = "deleteRecord" /\ pc'[z] # "deleteRecord"
        /\ restored' = None /\ archive' = archive /\ crossed' = crossed
        BY <1>4 DEF DeleteRecord, TypeOK, Run
  <2>2. archive = {} \/ crossed
        BY <2>1 DEF Records
  <2>3. RecordHasRows'
        BY <2>1 DEF RecordHasRows
  <2>. QED
        BY <1>0, <1>1, <2>1, <2>2, <2>3 DEF Records
<1>. QED
      BY <1>2, <1>3, <1>4

LEMMA NextRecords == TypeOK /\ Records /\ [Next]_vars => Records'
<1> SUFFICES ASSUME TypeOK, Records, [Next]_vars PROVE Records'
    OBVIOUS
<1>1. ASSUME UNCHANGED <<report, runs>> PROVE Records'
      BY <1>1, RecordsKept DEF report, runs, Records
<1>2. CASE \/ NextMonth \/ \E l \in Reading : Ingest(l)
           \/ \E chunk \in SUBSET Reading : DropChunk(chunk)
           \/ UNCHANGED vars
      BY <1>1, <1>2 DEF NextMonth, Ingest, DropChunk, vars
<1>3. ASSUME NEW r \in Run, Crash(r) PROVE Records'
  <2>1. /\ UNCHANGED <<archive, restored, crossed, inserted>>
        /\ pc[r] \notin Over /\ pc'[r] = IF pc[r] = "deleteRecord" THEN "halfway" ELSE "failed"
        /\ \A q \in Run \ {r} : pc'[q] = pc[q]
        BY <1>3 DEF Crash, TypeOK, report
  <2>2. r \notin Restore
        BY <1>3, ArchiveAssumption DEF Crash
  <2>. QED
        BY <2>1, <2>2, RecordsKept DEF Records, Run, Over
<1>. QED
      BY <1>2, <1>3, ExportKeepsRecords, RestoreKeepsRecords, RemovalKeepsRecords DEF Next

LEMMA AlwaysRecords == Spec => []Records
<1>1. Init => Records
      BY DEF Init, Records, RecordHasRows, Run
<1>. QED
      BY <1>1, InitTyped, NextTyped, NextRecords, PTL DEF Spec

\* Rows in log_day_archive are on record, however restores and removals overlap
\* or fail, as long as no removals have crossed.
THEOREM RowsAreOnRecord == Spec => []RowsOnRecord
<1>1. Records => RowsOnRecord
      BY DEF Records, RowsOnRecord
<1>. QED
      BY <1>1, AlwaysRecords, PTL

\* A record has its rows until a removal takes them.
THEOREM RecordsHaveRows == Spec => []RecordHasRows
<1>1. Records => RecordHasRows
      BY DEF Records
<1>. QED
      BY <1>1, AlwaysRecords, PTL

-----------------------------------------------------------------------------
(* As long as nobody exports by hand, exports and restores never meet. *)

\* Exports run in the month that is Retention - 1 after this one, when nothing
\* has been dropped yet, restores and their rows come two months later.
Timely ==
    /\ \A x \in Cron : pc[x] \notin Over => age = Retention - 1
    /\ \A y \in Restore : pc[y] \notin Over => age > Retention
    /\ archive # {} => age > Retention
    /\ age < Retention => live = arrived

\* A restore has read the object that is there; rows of two are never together,
\* in a transaction or in the table.
Whole ==
    /\ \A y \in Restore : pc[y] \in {"insert", "commit"} => inserted[y] = object
    /\ \A y, o \in Restore : inserted[y] # {} /\ inserted[o] # {} => y = o
    /\ \A y \in Restore : inserted[y] # {} => archive = {}
    /\ archive # {} => archive = object /\ restored \in {None, Cardinality(archive)}

Scheduled == OnSchedule => Timely /\ Whole

\* No export goes back to "idle".
LEMMA ScheduleKept == TypeOK /\ [Next]_vars /\ OnSchedule' => OnSchedule
<1> SUFFICES ASSUME TypeOK, [Next]_vars, OnSchedule', NEW x \in Export \ Cron, pc[x] # "idle"
             PROVE  pc'[x] # "idle"
    BY DEF OnSchedule
<1> USE DEF TypeOK, Goto, runs, Run
<1>1. CASE NextMonth
      BY <1>1 DEF NextMonth
<1>2. CASE \E l \in Reading : Ingest(l)
      BY <1>2 DEF Ingest
<1>3. CASE \E chunk \in SUBSET Reading : DropChunk(chunk)
      BY <1>3 DEF DropChunk
<1>4. CASE \E e \in Export :
              \/ BeginExport(e) \/ Upload(e) \/ CountRows(e) \/ Discard(e) \/ PutMeta(e)
              \/ RecordExport(e)
      BY <1>4 DEF BeginExport, Upload, CountRows, Discard, PutMeta, RecordExport
<1>5. CASE \E y \in Restore :
              \/ CheckRestored(y) \/ FindObject(y) \/ CopyIn(y) \/ InsertRecord(y)
              \/ CommitRestore(y) \/ Rollback(y)
      BY <1>5 DEF CheckRestored, FindObject, CopyIn, InsertRecord, CommitRestore, Rollback
<1>6. CASE \E z \in Removal : FindRecord(z) \/ DeleteRows(z) \/ DeleteRecord(z)
      BY <1>6 DEF FindRecord, DeleteRows, DeleteRecord
<1>7. CASE \E r \in Run : Crash(r)
      BY <1>7 DEF Crash
<1>8. CASE UNCHANGED vars
      BY <1>8 DEF vars
<1>. QED
      BY <1>1, <1>2, <1>3, <1>4, <1>5, <1>6, <1>7, <1>8 DEF Next

\* An export at work leaves restores nothing to read and no rows behind.
LEMMA ExportAlone ==
    ASSUME TypeOK, OnSchedule, OnSchedule', Timely, NEW x \in Export,
           \/ BeginExport(x) \/ Upload(x) \/ CountRows(x) \/ Discard(x) \/ PutMeta(x)
           \/ RecordExport(x)
    PROVE  /\ x \in Cron /\ age = Retention - 1 /\ archive = {} /\ live = arrived
           /\ \A y \in Restore : pc[y] \in Over
           /\ UNCHANGED <<month, report, expects, inserted>>
           /\ \A r \in Run \ {x} : pc'[r] = pc[r]
           /\ \A r \in Restore \union Removal : pc'[r] = pc[r]
<1>1. pc'[x] # "idle"
      BY DEF BeginExport, Upload, CountRows, Discard, PutMeta, RecordExport, Goto, TypeOK, Run
<1>2. x \in Cron
      BY <1>1 DEF OnSchedule
<1>3. age = Retention - 1
      BY <1>2 DEF Timely, Over, BeginExport, Upload, CountRows, Discard, PutMeta, RecordExport,
                  Goto
<1>4. age < Retention /\ ~ (age > Retention)
      BY <1>3, ArchiveAssumption
<1>5. UNCHANGED <<month, report, expects, inserted>> /\ \A r \in Run \ {x} : pc'[r] = pc[r]
      BY DEF BeginExport, Upload, CountRows, Discard, PutMeta, RecordExport, Goto, TypeOK
<1>6. \A r \in Restore \union Removal : pc'[r] = pc[r]
      BY <1>5, ArchiveAssumption DEF Run
<1>. QED
      BY <1>2, <1>3, <1>4, <1>5, <1>6 DEF Timely

LEMMA ExportKeepsScheduled ==
    ASSUME TypeOK, Records, OnSchedule, OnSchedule', Timely, NEW x \in Export,
           \/ BeginExport(x) \/ Upload(x) \/ CountRows(x) \/ Discard(x) \/ PutMeta(x)
           \/ RecordExport(x)
    PROVE  Timely' /\ Whole'
<1>1. Timely'
      BY ExportAlone DEF Timely, month, report
<1>2. \A y \in Restore : pc'[y] \notin {"insert", "commit"} /\ inserted'[y] = {}
      BY ExportAlone DEF Over, Records
<1>. QED
      BY <1>1, <1>2, ExportAlone DEF Whole, report

LEMMA RestoreKeepsScheduled ==
    ASSUME TypeOK, Records, Timely, Whole, NEW y \in Restore,
           \/ CheckRestored(y) \/ FindObject(y) \/ CopyIn(y) \/ InsertRecord(y)
           \/ CommitRestore(y) \/ Rollback(y)
    PROVE  Timely' /\ Whole'
<1> USE DEF Goto, Over, storage, backup, month
<1>0. /\ UNCHANGED <<month, backup>> /\ y \in Run
      /\ \A r \in Run \ {y} : pc'[r] = pc[r]
      /\ \A o \in Restore \ {y} : inserted'[o] = inserted[o]
      BY DEF CheckRestored, FindObject, CopyIn, InsertRecord, CommitRestore, Rollback, TypeOK, Run
<1>1. /\ \A x \in Cron : pc'[x] = pc[x]
      /\ \A o \in Restore \ {y} : pc'[o] = pc[o]
      BY <1>0, ArchiveAssumption DEF Run
<1>2. pc'[y] \notin Over => age > Retention
  <2>1. CASE CheckRestored(y)
        BY <1>0, <2>1, ArchiveAssumption DEF CheckRestored, TypeOK
  <2>2. CASE ~ CheckRestored(y)
        BY <2>2 DEF FindObject, CopyIn, InsertRecord, CommitRestore, Rollback, Timely
  <2>. QED
        BY <2>1, <2>2
<1>3. CASE CheckRestored(y) \/ FindObject(y)
  <2>1. pc'[y] \notin {"insert", "commit"} /\ UNCHANGED <<report, inserted>>
        BY <1>0, <1>3 DEF CheckRestored, FindObject, TypeOK
  <2>. QED
        BY <1>0, <1>1, <1>2, <2>1 DEF Timely, Whole, report
<1>4. CASE CopyIn(y)
  <2>1. /\ pc'[y] = "insert" /\ inserted'[y] = object /\ UNCHANGED report
        /\ object # None /\ object \cap archive = {}
        /\ \A o \in Restore : inserted[o] \cap object = {}
        BY <1>0, <1>4 DEF CopyIn, TypeOK
  <2>2. archive = {}
        BY <2>1 DEF Whole
  <2>3. \A o \in Restore : inserted[o] = {}
        BY <2>1 DEF Records, Whole
  <2>4. Timely'
        BY <1>0, <1>1, <1>2, <2>1 DEF Timely, report
  <2>. QED
        BY <1>0, <1>1, <2>1, <2>2, <2>3, <2>4 DEF Whole, report
<1>5. CASE InsertRecord(y)
  <2>1. pc[y] = "insert" /\ pc'[y] = "commit" /\ UNCHANGED <<report, inserted>>
        BY <1>0, <1>5 DEF InsertRecord, TypeOK
  <2>. QED
        BY <1>0, <1>1, <1>2, <2>1 DEF Timely, Whole, report
<1>6. CASE CommitRestore(y)
  <2>1. /\ pc[y] = "commit" /\ pc'[y] = "done" /\ inserted'[y] = {}
        /\ archive' = archive \union inserted[y] /\ restored' = Cardinality(inserted[y])
        BY <1>0, <1>6 DEF CommitRestore, TypeOK
  <2>2. inserted[y] = object
        BY <2>1 DEF Whole
  <2>3. archive = {} /\ archive' = object
        BY <2>1, <2>2 DEF Whole
  <2>4. \A o \in Restore \ {y} : inserted[o] = {}
        BY <2>2 DEF Records, Whole
  <2>5. Timely'
        BY <1>0, <1>1, <1>2, <2>1 DEF Timely
  <2>. QED
        BY <1>0, <1>1, <2>1, <2>2, <2>3, <2>4, <2>5 DEF Whole
<1>7. CASE Rollback(y)
  <2>1. pc'[y] = "failed" /\ inserted'[y] = {} /\ UNCHANGED report
        BY <1>0, <1>7 DEF Rollback, TypeOK
  <2>. QED
        BY <1>0, <1>1, <1>2, <2>1 DEF Timely, Whole, report
<1>. QED
      BY <1>3, <1>4, <1>5, <1>6, <1>7

LEMMA NextScheduled == TypeOK /\ Records /\ Scheduled /\ [Next]_vars => Scheduled'
<1> SUFFICES ASSUME TypeOK, Records, Scheduled, [Next]_vars, OnSchedule'
             PROVE  Timely' /\ Whole'
    BY DEF Scheduled
<1>0. OnSchedule /\ Timely /\ Whole
      BY ScheduleKept DEF Scheduled
<1> USE <1>0 DEF Goto, Over, Run, storage, backup, month, report, runs
<1>1. CASE NextMonth
  <2>1. /\ age \in Nat /\ age' = age + 1 /\ UNCHANGED <<arrived, live, backup, report, runs>>
        /\ \A x \in Cron : pc[x] \in Over
        BY <1>1, ArchiveAssumption DEF NextMonth, TypeOK
  <2>. QED
        BY <2>1, ArchiveAssumption DEF Timely, Whole
<1>2. ASSUME NEW l \in Reading, Ingest(l) PROVE Timely' /\ Whole'
      BY <1>2 DEF Ingest, Timely, Whole
<1>3. ASSUME NEW chunk \in SUBSET Reading, DropChunk(chunk) PROVE Timely' /\ Whole'
  <2>1. ~ (age < Retention)
        BY <1>3, ArchiveAssumption DEF DropChunk, TypeOK
  <2>. QED
        BY <1>3, <2>1 DEF DropChunk, Timely, Whole
<1>4. ASSUME NEW z \in Removal, FindRecord(z) \/ DeleteRows(z) \/ DeleteRecord(z)
      PROVE  Timely' /\ Whole'
  <2>1. /\ UNCHANGED <<month, backup, inserted>>
        /\ archive' \in {{}, archive} /\ restored' \in {None, restored}
        /\ \A r \in Run \ {z} : pc'[r] = pc[r]
        BY <1>4 DEF FindRecord, DeleteRows, DeleteRecord, TypeOK
  <2>2. \A r \in Cron \union Restore : pc'[r] = pc[r]
        BY <2>1, ArchiveAssumption
  <2>. QED
        BY <2>1, <2>2 DEF Timely, Whole
<1>5. ASSUME NEW r \in Run, Crash(r) PROVE Timely' /\ Whole'
  <2>1. /\ UNCHANGED <<month, backup, report, inserted>> /\ r \notin Restore
        /\ pc'[r] \in {"failed", "halfway"} /\ \A q \in Run \ {r} : pc'[q] = pc[q]
        BY <1>5, ArchiveAssumption DEF Crash, TypeOK
  <2>2. \A y \in Restore : pc'[y] = pc[y]
        BY <2>1
  <2>3. \A x \in Cron : pc'[x] \in {pc[x], "failed", "halfway"}
        BY <2>1, ArchiveAssumption
  <2>. QED
        BY <2>1, <2>2, <2>3 DEF Timely, Whole
<1>6. CASE UNCHANGED vars
      BY <1>6 DEF vars, Timely, Whole
<1>. QED
      BY <1>1, <1>2, <1>3, <1>4, <1>5, <1>6, ExportKeepsScheduled, RestoreKeepsScheduled DEF Next

LEMMA InitScheduled == Init => Scheduled
<1> SUFFICES ASSUME Init PROVE Timely /\ Whole
    BY DEF Scheduled
<1>. QED
    BY ArchiveAssumption DEF Init, Timely, Whole, Over, Run

\* What is in log_day_archive is all of the month's backup, and its record says
\* so, however restores and removals overlap or fail.
THEOREM RestoresAreWhole == Spec => []RestoredWhole
<1>1. Scheduled => RestoredWhole
      BY DEF Scheduled, Whole, RestoredWhole
<1>. QED
      BY <1>1, InitTyped, NextTyped, AlwaysRecords, InitScheduled, NextScheduled, PTL DEF Spec

-----------------------------------------------------------------------------
(* What is on record in archive_export is safe, but for readings that came    *)
(* when the export had begun.                                                *)

\* What an export of the month reads.
Due == arrived \ late

\* The backup is of all that was due, from the first upload on; only a run that
\* no other one follows may find more rows than it has read.
Backed ==
    OnSchedule /\ (late = {} \/ OneRun) =>
       /\ object \in {None, Due} /\ exported \in {None, Due}
       /\ meta \in {None, Cardinality(Due)}
       /\ (\A x \in Cron : pc[x] = "idle") =>
             late = {} /\ object = None /\ meta = None /\ exported = None
       /\ exported # None =>
             /\ object # None /\ meta # None
             /\ \E x \in Cron : pc[x] = "done"
       /\ \A x \in Cron :
             /\ pc[x] = "discard" => late # {}
             /\ pc[x] \in {"upload", "count", "putMeta", "record"} => file[x] = Due
             /\ pc[x] \in {"count", "putMeta", "record"} => object # None
             /\ pc[x] = "record" => meta # None

LEMMA ExportKeepsBacked ==
    ASSUME TypeOK, OnSchedule, OnSchedule', Timely, Backed, NEW x \in Export, late' = {} \/ OneRun',
           \/ BeginExport(x) \/ Upload(x) \/ CountRows(x) \/ Discard(x) \/ PutMeta(x)
           \/ RecordExport(x)
    PROVE  Backed'
<1> USE DEF Goto, Run, storage, backup, month, report
<1>0. /\ x \in Cron /\ age = Retention - 1 /\ live = arrived
      /\ UNCHANGED <<age, arrived, late, live>>
      /\ \A c \in Cron \ {x} : pc'[c] = pc[c]
  <2>1. UNCHANGED <<age, arrived, late, live>>
        BY DEF BeginExport, Upload, CountRows, Discard, PutMeta, RecordExport
  <2>. QED
        BY <2>1, ExportAlone, ArchiveAssumption
<1>1. Due' = Due /\ pc'[x] # "idle"
      BY <1>0 DEF Due, BeginExport, Upload, CountRows, Discard, PutMeta, RecordExport, TypeOK
<1>2. /\ Due \in SUBSET Reading
      /\ \A csv \in SUBSET Reading : csv # None /\ Cardinality(csv) # None
      BY SizeTyped, ArchiveAssumption DEF TypeOK, Due
<1>3. late = {} \/ (OneRun /\ \A c \in Cron \ {x} : pc[c] = "idle")
  <2>1. OneRun' => \A c \in Cron \ {x} : pc[c] = "idle"
        BY <1>0, <1>1 DEF OneRun
  <2>. QED
        BY <1>0, <2>1 DEF OneRun
<1> DEFINE Was ==
       /\ object \in {None, Due} /\ exported \in {None, Due}
       /\ meta \in {None, Cardinality(Due)}
       /\ (\A c \in Cron : pc[c] = "idle") =>
             late = {} /\ object = None /\ meta = None /\ exported = None
       /\ exported # None =>
             /\ object # None /\ meta # None
             /\ \E c \in Cron : pc[c] = "done"
       /\ \A c \in Cron :
             /\ pc[c] = "discard" => late # {}
             /\ pc[c] \in {"upload", "count", "putMeta", "record"} => file[c] = Due
             /\ pc[c] \in {"count", "putMeta", "record"} => object # None
             /\ pc[c] = "record" => meta # None
<1>4. Was
      BY <1>3 DEF Backed
<1> HIDE DEF Was
<1>5. ASSUME Was' PROVE Backed'
      BY <1>5 DEF Was, Backed
<1>6. CASE BeginExport(x)
  <2>1. /\ UNCHANGED backup /\ pc[x] = "idle" /\ pc'[x] = "upload" /\ file'[x] = arrived
        /\ \A c \in Cron \ {x} : file'[c] = file[c]
        BY <1>0, <1>6, ArchiveAssumption DEF BeginExport, TypeOK
  <2>2. late = {} /\ Due = arrived
        BY <1>3, <1>4, <2>1 DEF Was, Due
  <2>. QED
        BY <1>0, <1>1, <1>4, <1>5, <2>1, <2>2 DEF Was
<1>7. CASE Upload(x)
  <2>1. /\ UNCHANGED <<meta, exported, file>> /\ pc[x] = "upload" /\ pc'[x] = "count"
        /\ object' = file[x]
        BY <1>0, <1>7 DEF Upload, TypeOK
  <2>2. object' = Due /\ object' # None
        BY <1>0, <1>2, <1>4, <2>1 DEF Was
  <2>. QED
        BY <1>0, <1>1, <1>4, <1>5, <2>1, <2>2 DEF Was
<1>8. CASE CountRows(x)
  <2>1. UNCHANGED <<backup, file>> /\ pc[x] = "count"
        BY <1>0, <1>8 DEF CountRows
  <2>2. file[x] = Due /\ object # None
        BY <1>0, <1>4, <2>1 DEF Was
  <2>3. pc'[x] \in {"putMeta", "discard"} /\ (late = {} => pc'[x] = "putMeta")
        BY <1>0, <1>8, <2>2 DEF CountRows, TypeOK, Due
  <2>. QED
        BY <1>0, <1>1, <1>4, <1>5, <2>1, <2>2, <2>3 DEF Was
<1>9. CASE Discard(x)
  <2>1. /\ UNCHANGED <<meta, exported, file>> /\ pc[x] = "discard" /\ pc'[x] = "failed"
        /\ object' = None
        BY <1>0, <1>9 DEF Discard, TypeOK
  <2>2. late # {} /\ \A c \in Cron \ {x} : pc[c] = "idle"
        BY <1>0, <1>3, <1>4, <2>1 DEF Was
  <2>3. exported = None
        BY <1>4, <2>1, <2>2 DEF Was
  <2>. QED
        BY <1>0, <1>1, <1>4, <1>5, <2>1, <2>2, <2>3 DEF Was
<1>10. CASE PutMeta(x)
  <2>1. /\ UNCHANGED <<object, exported, file>> /\ pc[x] = "putMeta" /\ pc'[x] = "record"
        /\ meta' = Cardinality(file[x])
        BY <1>0, <1>10 DEF PutMeta, TypeOK
  <2>2. meta' = Cardinality(Due) /\ meta' # None
        BY <1>0, <1>2, <1>4, <2>1 DEF Was
  <2>. QED
        BY <1>0, <1>1, <1>4, <1>5, <2>1, <2>2 DEF Was
<1>11. CASE RecordExport(x)
  <2>1. /\ UNCHANGED <<storage, file>> /\ pc[x] = "record" /\ pc'[x] = "done"
        /\ exported' = file[x]
        BY <1>0, <1>11 DEF RecordExport, TypeOK
  <2>2. exported' = Due /\ object # None /\ meta # None
        BY <1>0, <1>4, <2>1 DEF Was
  <2>. QED
        BY <1>0, <1>1, <1>4, <1>5, <2>1, <2>2 DEF Was
<1>. QED
      BY <1>6, <1>7, <1>8, <1>9, <1>10, <1>11

LEMMA NextBacked ==
    ASSUME TypeOK, Scheduled, Backed, [Next]_vars
    PROVE  Backed'
<1> SUFFICES ASSUME OnSchedule', late' = {} \/ OneRun' PROVE Backed'
    BY DEF Backed
<1>0. OnSchedule /\ Timely
      BY ScheduleKept DEF Scheduled
<1> USE DEF Goto, Over, Run, storage, backup, month, report, runs
<1>1. CASE NextMonth \/ \E chunk \in SUBSET Reading : DropChunk(chunk)
  <2>1. UNCHANGED <<arrived, late, backup, runs>>
        BY <1>1 DEF NextMonth, DropChunk
  <2>. QED
        BY <1>0, <2>1 DEF Backed, Due, OneRun
<1>2. ASSUME NEW l \in Reading, Ingest(l) PROVE Backed'
  <2>1. /\ l \notin arrived /\ UNCHANGED <<backup, runs>> /\ arrived' = arrived \union {l}
        /\ late' = IF \E x \in Export : pc[x] # "idle" THEN late \union {l} ELSE late
        BY <1>2 DEF Ingest
  <2>2. CASE \E x \in Export : pc[x] # "idle"
    <3>1. late' # {} /\ OneRun /\ Due' = Due /\ OnSchedule
          BY <1>0, <2>1, <2>2 DEF Due, OneRun
    <3>2. ~ \A x \in Cron : pc[x] = "idle"
          BY <1>0, <2>2 DEF OnSchedule
    <3>. QED
          BY <2>1, <3>1, <3>2 DEF Backed
  <2>3. CASE ~ \E x \in Export : pc[x] # "idle"
    <3>1. \A x \in Cron : pc[x] = "idle" /\ pc'[x] = "idle"
          BY <2>1, <2>3, ArchiveAssumption
    <3>2. late = {} /\ object = None /\ meta = None /\ exported = None
          BY <1>0, <3>1 DEF Backed, OneRun
    <3>. QED
          BY <2>1, <2>3, <3>1, <3>2 DEF Backed
  <2>. QED
        BY <2>2, <2>3
<1>3. ASSUME NEW y \in Restore \union Removal,
             UNCHANGED <<month, backup, file>>, \A r \in Run \ {y} : pc'[r] = pc[r]
      PROVE  Backed'
  <2>1. \A x \in Cron : pc'[x] = pc[x]
        BY <1>3, ArchiveAssumption
  <2>. QED
        BY <1>0, <1>3, <2>1 DEF Backed, Due, OneRun
<1>4. ASSUME NEW y \in Restore,
             \/ CheckRestored(y) \/ FindObject(y) \/ CopyIn(y) \/ InsertRecord(y)
             \/ CommitRestore(y) \/ Rollback(y)
      PROVE  Backed'
  <2>1. UNCHANGED <<month, backup, file>> /\ \A r \in Run \ {y} : pc'[r] = pc[r]
        BY <1>4 DEF CheckRestored, FindObject, CopyIn, InsertRecord, CommitRestore, Rollback,
                    TypeOK
  <2>. QED
        BY <1>3, <2>1
<1>5. ASSUME NEW z \in Removal, FindRecord(z) \/ DeleteRows(z) \/ DeleteRecord(z)
      PROVE  Backed'
  <2>1. UNCHANGED <<month, backup, file>> /\ \A r \in Run \ {z} : pc'[r] = pc[r]
        BY <1>5 DEF FindRecord, DeleteRows, DeleteRecord, TypeOK
  <2>. QED
        BY <1>3, <2>1
<1>6. ASSUME NEW r \in Run, Crash(r) PROVE Backed'
  <2>1. /\ UNCHANGED <<month, backup, file>>
        /\ \A x \in Cron : pc'[x] = pc[x] \/ (pc[x] \notin Over /\ pc'[x] \in {"failed", "halfway"})
        BY <1>6, ArchiveAssumption DEF Crash, TypeOK
  <2>2. late = {} \/ OneRun
        BY <2>1 DEF OneRun
  <2>. QED
        BY <1>0, <2>1, <2>2 DEF Backed, Due, OneRun
<1>7. CASE UNCHANGED vars
      BY <1>0, <1>7 DEF vars, Backed, Due, OneRun
<1>. QED
      BY <1>0, <1>1, <1>2, <1>4, <1>5, <1>6, <1>7, ExportKeepsBacked DEF Next

\* No reading of a month on record is lost, whatever the retention policy drops
\* and however late readings come, but for those that came after the beginning of
\* its export.
THEOREM RecordedMonthsAreSafe == Spec => []RecordedIsSafe
<1>1. Init => Backed
      BY ArchiveAssumption DEF Init, Backed, Run
<1>2. TypeOK /\ Scheduled /\ Backed /\ [Next]_vars => Backed'
      BY NextBacked
<1>3. TypeOK /\ Backed => RecordedIsSafe
      BY DEF TypeOK, Backed, RecordedIsSafe, Due
<1>. QED
      BY <1>1, <1>2, <1>3, InitTyped, NextTyped, AlwaysRecords, InitScheduled, NextScheduled,
         PTL DEF Spec

-----------------------------------------------------------------------------
(* Exporting again: when it is safe. *)

AnExport(x) ==
    \/ BeginExport(x) \/ Upload(x) \/ CountRows(x) \/ Discard(x) \/ PutMeta(x)
    \/ RecordExport(x)

\* Exports read, and the object holds, nothing but what has arrived, and all of
\* that is in log_days until the policy may drop the month, whoever exports.
AllThere ==
    /\ \A x \in Export : file[x] \subseteq arrived
    /\ object # None => object \subseteq arrived
    /\ age < Retention => live = arrived

LEMMA NextAllThere == TypeOK /\ AllThere /\ [Next]_vars => AllThere'
<1> SUFFICES ASSUME TypeOK, AllThere, [Next]_vars PROVE AllThere'
    OBVIOUS
<1> USE DEF Goto, month, storage, backup, report, runs
<1>1. CASE NextMonth
      BY <1>1, ArchiveAssumption DEF NextMonth, AllThere, TypeOK
<1>2. ASSUME NEW l \in Reading, Ingest(l) PROVE AllThere'
      BY <1>2 DEF Ingest, AllThere
<1>3. ASSUME NEW chunk \in SUBSET Reading, DropChunk(chunk) PROVE AllThere'
      BY <1>3, ArchiveAssumption DEF DropChunk, AllThere, TypeOK
<1>4. ASSUME NEW x \in Export, AnExport(x) PROVE AllThere'
  <2>1. UNCHANGED <<age, arrived, live>>
        BY <1>4 DEF AnExport, BeginExport, Upload, CountRows, Discard, PutMeta, RecordExport
  <2>2. \A e \in Export : file'[e] \in {file[e], live}
        BY <1>4 DEF AnExport, BeginExport, Upload, CountRows, Discard, PutMeta, RecordExport, TypeOK
  <2>3. object' \in {object, None, file[x]}
        BY <1>4 DEF AnExport, BeginExport, Upload, CountRows, Discard, PutMeta, RecordExport
  <2>. QED
        BY <2>1, <2>2, <2>3 DEF AllThere, TypeOK
<1>5. CASE \/ \E y \in Restore : \/ CheckRestored(y) \/ FindObject(y) \/ CopyIn(y)
                                 \/ InsertRecord(y) \/ CommitRestore(y) \/ Rollback(y)
           \/ \E z \in Removal : FindRecord(z) \/ DeleteRows(z) \/ DeleteRecord(z)
           \/ \E r \in Run : Crash(r)
           \/ UNCHANGED vars
  <2>1. UNCHANGED <<age, arrived, live, object, file>>
        BY <1>5 DEF CheckRestored, FindObject, CopyIn, InsertRecord, CommitRestore, Rollback,
                    FindRecord, DeleteRows, DeleteRecord, Crash, vars
  <2>. QED
        BY <2>1 DEF AllThere
<1>. QED
      BY <1>1, <1>2, <1>3, <1>4, <1>5 DEF Next, AnExport

\* Only an export takes a reading out of the object.
LEMMA OnlyExportsReplace ==
    ASSUME [Next]_vars, object # None, NEW l \in object
    PROVE  \/ \E x \in Export : AnExport(x)
           \/ object' # None /\ l \in object'
<1> USE DEF month, storage, backup, report, runs
<1>1. CASE NextMonth \/ (\E k \in Reading : Ingest(k)) \/ (\E chunk \in SUBSET Reading : DropChunk(chunk))
      BY <1>1 DEF NextMonth, Ingest, DropChunk
<1>2. CASE \E y \in Restore : \/ CheckRestored(y) \/ FindObject(y) \/ CopyIn(y)
                              \/ InsertRecord(y) \/ CommitRestore(y) \/ Rollback(y)
      BY <1>2 DEF CheckRestored, FindObject, CopyIn, InsertRecord, CommitRestore, Rollback
<1>3. CASE \/ \E z \in Removal : FindRecord(z) \/ DeleteRows(z) \/ DeleteRecord(z)
           \/ \E r \in Run : Crash(r)
           \/ UNCHANGED vars
      BY <1>3 DEF FindRecord, DeleteRows, DeleteRecord, Crash, vars
<1>. QED
      BY <1>1, <1>2, <1>3 DEF Next, AnExport

\* The comment on exportMonth is right (RepeatedExportIsSafe) as long as the
\* policy may not drop the month yet, or only the monthly job exports it,
\* whatever fails or overlaps and however late readings arrive.  What violates
\* it is an export by hand of a month past its retention.
THEOREM RepeatedExportsAreSafeInTime ==
    Spec => [][(age < Retention \/ OnSchedule') /\ exported # None /\ object # None =>
                  \A l \in object : l \in live' \/ (object' # None /\ l \in object')]_vars
<1>1. Init => AllThere
      BY DEF Init, AllThere
<1>2. ASSUME TypeOK, AllThere, Scheduled, [Next]_vars, age < Retention \/ OnSchedule',
             object # None, NEW l \in object
      PROVE  l \in live' \/ (object' # None /\ l \in object')
  <2>1. ASSUME NEW x \in Export, AnExport(x) PROVE l \in live'
    <3>1. OnSchedule' => age < Retention
      <4>. SUFFICES ASSUME OnSchedule' PROVE age < Retention
           OBVIOUS
      <4>1. OnSchedule /\ Timely
            BY <1>2, ScheduleKept DEF Scheduled
      <4>2. age = Retention - 1
            BY <1>2, <2>1, <4>1, ExportAlone DEF AnExport
      <4>. QED
            BY <4>2, ArchiveAssumption
    <3>2. live = arrived /\ object \subseteq arrived
          BY <1>2, <3>1 DEF AllThere
    <3>3. live' = live
          BY <2>1 DEF AnExport, BeginExport, Upload, CountRows, Discard, PutMeta, RecordExport,
                      month
    <3>. QED
          BY <3>2, <3>3
  <2>. QED
        BY <1>2, <2>1, OnlyExportsReplace
<1>3. TypeOK /\ AllThere /\ Scheduled /\ [Next]_vars =>
        [(age < Retention \/ OnSchedule') /\ exported # None /\ object # None =>
             \A l \in object : l \in live' \/ (object' # None /\ l \in object')]_vars
      BY <1>2
<1>. QED
      BY <1>1, <1>3, InitTyped, NextTyped, NextAllThere, AlwaysRecords, InitScheduled,
         NextScheduled, PTL DEF Spec

=============================================================================
