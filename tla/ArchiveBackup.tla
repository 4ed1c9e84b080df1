--------------------------- MODULE ArchiveBackup ---------------------------
(***************************************************************************)
(* The life of the readings of one month: ingested into log_days, exported *)
(* to object storage, dropped by TimescaleDB's retention policy, restored  *)
(* into log_day_archive for a report, removed from it again.               *)
(*                                                                         *)
(* Exports, restores and removals are requests that may overlap and die    *)
(* half-way; each step is one statement or one call of object storage.     *)
(* Months never interact (every key, range and record is per month), so    *)
(* one is enough.  A set of readings stands for a CSV file and for its     *)
(* sha256.                                                                 *)
(***************************************************************************)
EXTENDS Naturals, FiniteSets

CONSTANTS
    Reading,     \* readings whose send_time is in the month
    Export,      \* runs of exportMonth
    Cron,        \* those started by @Cron('0 3 1 * *'), the others by a POST
    Restore,     \* runs of restoreMonth
    Removal,     \* runs of removeMonth
    Retention,   \* archive.retentionMonths, and the retention policy's interval
    LastArrival, \* the age of the month after which no more readings arrive
    MaxAge,      \* how old the month gets
    None         \* no object, no record

ASSUME ArchiveAssumption ==
    /\ Cron \subseteq Export /\ IsFiniteSet(Reading)
    /\ Export \cap Restore = {} /\ Removal \cap (Export \union Restore) = {}
    /\ Retention \in Nat \ {0} /\ LastArrival \in Nat /\ MaxAge \in Nat
    /\ \A csv \in SUBSET Reading : None # csv
    /\ \A n \in 0..Cardinality(Reading) : None # n

VARIABLES
    age,        \* months since the month began: 0 while it lasts
    arrived,    \* the readings ingested so far
    late,       \* history: those of them that came when an export had begun
    live,       \* its rows in log_days
    object,     \* its .csv.gz in object storage
    meta,       \* rowCount in its .meta.json
    exported,   \* its row of archive_export (sha256)
    archive,    \* its committed rows in log_day_archive
    restored,   \* row_count in its row of archive_restore
    pc,         \* where each run is
    file,       \* the CSV an export has read
    expects,    \* meta as a restore has read it
    inserted,   \* the rows of a restore that has not committed
    crossed     \* history: a removal is after a record that another has deleted
                \* when the next restore commits

runs == <<pc, file, expects, inserted>>
storage == <<object, meta>>
backup == <<object, meta, exported>>
report == <<archive, restored, crossed>>
month == <<age, arrived, late, live>>
vars == <<month, backup, report, runs>>

Run == Export \union Restore \union Removal

Over == {"idle", "done", "failed", "halfway"}

Goto(r, at, next) ==
    /\ pc[r] = at
    /\ pc' = [pc EXCEPT ![r] = next]

-----------------------------------------------------------------------------
(* The month. *)

\* A box sends a reading, perhaps long after it was taken.
Ingest(l) ==
    /\ l \notin arrived /\ age <= LastArrival
    /\ arrived' = arrived \union {l}
    /\ late' = IF \E x \in Export : pc[x] # "idle" THEN late \union {l} ELSE late
    /\ live' = live \union {l}
    /\ UNCHANGED <<age, backup, report, runs>>

\* An export takes minutes: none is running when the month gets older.
NextMonth ==
    /\ age < MaxAge
    /\ \A x \in Export : pc[x] \in Over
    /\ age' = age + 1
    /\ UNCHANGED <<arrived, late, live, backup, report, runs>>

\* The retention policy drops a chunk: chunks are not calendar months, and the
\* policy runs when it runs.
DropChunk(chunk) ==
    /\ age >= Retention
    /\ chunk # {} /\ chunk \subseteq live
    /\ live' = live \ chunk
    /\ UNCHANGED <<age, arrived, late, backup, report, runs>>

-----------------------------------------------------------------------------
(* exportMonth. *)

\* (mutant of BeginExport) The cron job takes retentionMonths off, not one less.
BeginExportLate(x) ==
    /\ x \in Cron => age = Retention
    /\ Goto(x, "idle", "upload")
    /\ file' = [file EXCEPT ![x] = live]
    /\ UNCHANGED <<month, backup, report, expects, inserted>>

\* COPY ... TO STDOUT takes its snapshot.  The cron job fires in the month whose
\* target is this one.
BeginExport(x) ==
    /\ x \in Cron => age = Retention - 1
    /\ Goto(x, "idle", "upload")
    /\ file' = [file EXCEPT ![x] = live]
    /\ UNCHANGED <<month, backup, report, expects, inserted>>

Upload(x) ==
    /\ Goto(x, "upload", "count")
    /\ object' = file[x]
    /\ UNCHANGED <<month, meta, exported, report, file, expects, inserted>>

CountRows(x) ==
    /\ Goto(x, "count",
            IF Cardinality(live) = Cardinality(file[x]) THEN "putMeta" ELSE "discard")
    /\ UNCHANGED <<month, backup, report, file, expects, inserted>>

\* Row count mismatch: the object is deleted, and the export throws.
Discard(x) ==
    /\ Goto(x, "discard", "failed")
    /\ object' = None
    /\ UNCHANGED <<month, meta, exported, report, file, expects, inserted>>

\* (mutant of PutMeta) The header line of the CSV is counted as a row.
PutMetaWithHeader(x) ==
    /\ Goto(x, "putMeta", "record")
    /\ meta' = Cardinality(file[x]) + 1
    /\ UNCHANGED <<month, object, exported, report, file, expects, inserted>>

PutMeta(x) ==
    /\ Goto(x, "putMeta", "record")
    /\ meta' = Cardinality(file[x])
    /\ UNCHANGED <<month, object, exported, report, file, expects, inserted>>

RecordExport(x) ==
    /\ Goto(x, "record", "done")
    /\ exported' = file[x]
    /\ UNCHANGED <<month, storage, report, file, expects, inserted>>

-----------------------------------------------------------------------------
(* restoreMonth. *)

\* The month's end must be Retention months ago, and there must be no record.
CheckRestored(y) ==
    /\ pc[y] = "idle"
    /\ pc' = [pc EXCEPT ![y] =
          IF age < Retention + 1 \/ restored # None THEN "failed" ELSE "find"]
    /\ UNCHANGED <<month, backup, report, file, expects, inserted>>

\* exists(key), then the meta file, if there is one.
FindObject(y) ==
    /\ pc[y] = "find"
    /\ pc' = [pc EXCEPT ![y] = IF object = None THEN "failed" ELSE "copy"]
    /\ expects' = [expects EXCEPT ![y] = meta]
    /\ UNCHANGED <<month, backup, report, file, inserted>>

\* (mutant of CopyIn) Inserts without a BEGIN: those before a failure stay.
CopyInUnprotected(y) ==
    /\ pc[y] = "copy" /\ object # None
    /\ object \cap archive = {}
    /\ \E part \in SUBSET object : archive' = archive \union part
    /\ inserted' = [inserted EXCEPT ![y] = object]
    /\ pc' = [pc EXCEPT ![y] = "insert"]
    /\ UNCHANGED <<month, backup, restored, crossed, file, expects>>

\* BEGIN, and COPY ... FROM STDIN of the object as it is now.  A row that
\* another transaction is inserting makes it wait.
CopyIn(y) ==
    /\ pc[y] = "copy" /\ object # None
    /\ object \cap archive = {}
    /\ \A o \in Restore : inserted[o] \cap object = {}
    /\ inserted' = [inserted EXCEPT ![y] = object]
    /\ pc' = [pc EXCEPT ![y] = "insert"]
    /\ UNCHANGED <<month, backup, report, file, expects>>

\* (mutant of InsertRecord) An upsert, which the record of another restore does
\* not stop.
UpsertRecord(y) ==
    /\ Goto(y, "insert", "commit")
    /\ expects[y] \in {None, Cardinality(inserted[y])}
    /\ \A o \in Restore : pc[o] # "commit"
    /\ UNCHANGED <<month, backup, report, file, expects, inserted>>

\* (mutant of InsertRecord) The record is written outside the transaction.
InsertRecordOutside(y) ==
    /\ Goto(y, "insert", "commit")
    /\ expects[y] \in {None, Cardinality(inserted[y])}
    /\ restored = None
    /\ restored' = Cardinality(inserted[y])
    /\ UNCHANGED <<month, backup, archive, crossed, file, expects, inserted>>

\* The meta is right, and archive_restore_pkey lets the record in.
InsertRecord(y) ==
    /\ Goto(y, "insert", "commit")
    /\ expects[y] \in {None, Cardinality(inserted[y])}
    /\ restored = None
    /\ \A o \in Restore : pc[o] # "commit"
    /\ UNCHANGED <<month, backup, report, file, expects, inserted>>

CommitRestore(y) ==
    /\ Goto(y, "commit", "done")
    /\ archive' = archive \union inserted[y]
    /\ restored' = Cardinality(inserted[y])
    /\ inserted' = [inserted EXCEPT ![y] = {}]
    /\ crossed' = (crossed \/ (restored = None /\ \E z \in Removal : pc[z] = "deleteRecord"))
    /\ UNCHANGED <<month, backup, file, expects>>

\* ROLLBACK: the object is gone, a row or the record is there already, the
\* count differs from the meta, the connection dies.
Rollback(y) ==
    /\ pc[y] \in {"copy", "insert", "commit"}
    /\ pc' = [pc EXCEPT ![y] = "failed"]
    /\ inserted' = [inserted EXCEPT ![y] = {}]
    /\ UNCHANGED <<month, backup, report, file, expects>>

-----------------------------------------------------------------------------
(* removeMonth: three statements, no transaction. *)

FindRecord(z) ==
    /\ pc[z] = "idle"
    /\ pc' = [pc EXCEPT ![z] = IF restored = None THEN "failed" ELSE "deleteRows"]
    /\ UNCHANGED <<month, backup, report, file, expects, inserted>>

DeleteRows(z) ==
    /\ Goto(z, "deleteRows", "deleteRecord")
    /\ archive' = {}
    /\ crossed' = FALSE
    /\ UNCHANGED <<month, backup, restored, file, expects, inserted>>

\* Prisma throws P2025 when there is none.
DeleteRecord(z) ==
    /\ Goto(z, "deleteRecord", IF restored = None THEN "failed" ELSE "done")
    /\ restored' = None
    /\ UNCHANGED <<month, backup, archive, crossed, file, expects, inserted>>

-----------------------------------------------------------------------------

\* A call of an export or a removal fails, or the process dies; a removal that
\* has deleted the rows is left halfway.
Crash(r) ==
    /\ r \in Export \union Removal /\ pc[r] \notin Over
    /\ pc' = [pc EXCEPT ![r] = IF pc[r] = "deleteRecord" THEN "halfway" ELSE "failed"]
    /\ UNCHANGED <<month, backup, report, file, expects, inserted>>

Init ==
    /\ age = 0 /\ arrived = {} /\ late = {} /\ live = {}
    /\ object = None /\ meta = None /\ exported = None
    /\ archive = {} /\ restored = None /\ crossed = FALSE
    /\ pc = [r \in Run |-> "idle"]
    /\ file = [x \in Export |-> {}]
    /\ expects = [y \in Restore |-> None]
    /\ inserted = [y \in Restore |-> {}]

Next ==
    \/ NextMonth
    \/ \E l \in Reading : Ingest(l)
    \/ \E chunk \in SUBSET Reading : DropChunk(chunk)
    \/ \E x \in Export :
          BeginExport(x) \/ Upload(x) \/ CountRows(x) \/ Discard(x) \/ PutMeta(x)
             \/ RecordExport(x)
    \/ \E y \in Restore :
          CheckRestored(y) \/ FindObject(y) \/ CopyIn(y) \/ InsertRecord(y)
             \/ CommitRestore(y) \/ Rollback(y)
    \/ \E z \in Removal : FindRecord(z) \/ DeleteRows(z) \/ DeleteRecord(z)
    \/ \E r \in Run : Crash(r)

Spec == Init /\ [][Next]_vars

-----------------------------------------------------------------------------
(* Properties. *)

TypeOK ==
    /\ age \in 0..MaxAge
    /\ arrived \subseteq Reading /\ late \subseteq arrived /\ live \subseteq arrived
    /\ object \in {None} \union SUBSET Reading
    /\ meta \in {None} \union 0..Cardinality(Reading)
    /\ exported \in {None} \union SUBSET Reading
    /\ archive \subseteq Reading
    /\ restored \in {None} \union 0..Cardinality(Reading)
    /\ pc \in [Run -> Over \union {"upload", "count", "discard", "putMeta", "record",
                                   "find", "copy", "insert", "commit",
                                   "deleteRows", "deleteRecord"}]
    /\ file \in [Export -> SUBSET Reading]
    /\ expects \in [Restore -> {None} \union 0..Cardinality(Reading)]
    /\ inserted \in [Restore -> SUBSET Reading]
    /\ crossed \in BOOLEAN

\* Nobody has exported the month by hand.
OnSchedule == \A x \in Export \ Cron : pc[x] = "idle"

\* The job has run once for the month; two instances of the process may both.
OneRun == \A x, y \in Cron : pc[x] # "idle" /\ pc[y] # "idle" => x = y

\* Once the monthly job has put a month on record, its object holds what is on
\* record, and no reading of the month is lost, whatever the policy drops, but
\* for those that came when the export had begun.  (Two runs of the job with such
\* a reading between them read two different months.)
RecordedIsSafe ==
    OnSchedule /\ exported # None /\ (late = {} \/ OneRun) =>
       /\ object = exported /\ meta = Cardinality(object)
       /\ arrived \ late \subseteq live \union object

\* A month in log_day_archive is all of the month's backup: no failure and no
\* overlap of restores and removals leaves a part of one, or a row of two.
RestoredWhole ==
    OnSchedule /\ archive # {} =>
        archive = object /\ restored \in {None, Cardinality(archive)}

\* Whatever is in log_day_archive is on record in archive_restore, so that
\* GET /backup/months says it is there, and DELETE can take it out (the comment
\* on restoreMonth: all of the month, or nothing), unless removals have crossed.
RowsOnRecord == archive # {} => restored # None \/ crossed

\* A record that promises rows has them, whatever overlaps, until a removal has
\* deleted them, and is about to delete the record or died before it did.
RecordHasRows ==
    restored \notin {None, 0} /\ archive = {} =>
        \E z \in Removal : pc[z] \in {"deleteRecord", "halfway"}

\* exportMonth may be called again at any time, safely (its comment): it never
\* takes a reading out of the backup that is nowhere else.
RepeatedExportIsSafe ==
    [][exported # None /\ object # None =>
          \A l \in object : l \in live' \/ (object' # None /\ l \in object')]_vars

=============================================================================
