# Specifications of the SMTrack backend

TLA+ models of the backend in `src/`, model-checked with TLC and, where marked,
proved with TLAPS. Line numbers refer to the sources at the commit beside these
files; `PROJECT.json` maps every definition to the lines it stands for.

## 1. The system

The backend watches refrigerators and incubators in hospital wards. A *point*
(`Devices`) is a place where a box is installed; a *box* (`Hardware`, named by
its serial) sends readings (`LogDays`) by MQTT or RabbitMQ and alarms
(`Notifications`) by RabbitMQ; people manage points over HTTP and watch dashboards fed by SSE.
It is a NestJS process (several may run), over PostgreSQL with TimescaleDB,
Redis, an S3 store, MQTT and RabbitMQ. Code between two `await`s runs alone;
everything else interleaves, within a process and between processes.

### Components, their state and what makes them right

| Component | State | Operations | Talks to | Correct when |
|---|---|---|---|---|
| Device assignment `device-assignment.service.ts` | `DeviceAssignments`, `Devices.serial`, `Hardware` | `assign`, `swapByStaticName`, `resolveDeviceId`, `resolveWard`, `invalidate` | PostgreSQL, Redis, events | pointer and open assignment agree, one box per point, history never rewritten, a swap is atomic |
| Devices `device.service.ts` | other columns of `Devices`, pictures | `create`, `update`, `setOnline`, `findOne`, `findAll` | assignment, S3, Redis, events | the picture of a point exists, changes are announced and audited |
| Redis cache-aside `redis.service.ts` | `assign:`, `ward:`, `device:`, `probe:`, `graph:` … | `getOrSet`, `del`, `delByPattern` | PostgreSQL through factories | an entry is stale only briefly and for known causes |
| Monthly archive `backup/` | CSV and meta objects, `ArchiveExport`, `ArchiveRestore`, `LogDayArchive` | `exportDueMonth`, `exportMonth`, `restoreMonth`, `removeMonth` | S3, TimescaleDB's retention policy | no reading lost once on record; a month restored whole or not at all |
| Device audit `audit/` | `DeviceAudit` | listener, `findByDevice` | `device.changed` | every user's change once, with that user's values |
| Telemetry ingest, probes | `LogDays`, `Probes` | `ingest`, `resolveProbeId`, CRUD | caches, events | a reading gets a probe that exists, and is dropped only for a cause |
| Notifications | `Notifications` | `create`, `markRead`, `markAllRead`, `remove` | MQTT, SSE, RabbitMQ (FCM) | delivered flags tell the truth, no channel stops another, unread counts converge |
| RabbitMQ consumers | queues | `ackOrNack`, `validatePayload` | ingest, notifications, `setOnline` | each message leaves the queue; an acked one was processed |
| SSE | open streams | `broadcast`, `open`, `realtimeTemperatureStream` | events | wards see their own events only; a stream never goes back in time |
| Views (graphs, daily summaries) and their invalidation | cached keys | `series`, `summaryByDevice`, listener | Redis, events | a cached view is old only briefly and for known causes |
| Firmware, configs, repairs, warranties, adjust, user audit | a table each | CRUD with an event | PostgreSQL, S3, events | row and file agree; every user's change on the trail once |
| Legacy migration scripts | the old databases, both stores | one run each, restarted after failures | PostgreSQL, S3 | a run that ends has brought in everything |
| Mobile, health, auth guards, filters, DTOs, observability, bootstrap | none | queries, formatting, start-up | – | stateless |

What is hard in them: concurrent transactions under READ COMMITTED; values read
before an `await` and used after it; caches filled and deleted by different
requests; effects in two stores with a crash in between; events that carry
whole rows, out of order; audit rows nobody waits for. `PROJECT.json`, under
`hazards`, lists each at its line with the properties that watch it.

## 2. The modules

```
InstallRegistry            what the others assume of the registry of boxes
  ^ implements   ^ extended by
DeviceAssignment   AssignmentCache    DeviceLive

ArchiveBackup  ProbeIngest  NotificationFanout  LogViews  RecordChanges
LegacyDevices <- LegacyBackup         the migration of the old databases
```

Every module but *InstallRegistry* has its theorems in a module that extends it:
`DeviceAssignmentProofs`, `CacheProofs` (of *AssignmentCache* and *LogViews*),
`DeviceLiveProofs`, `ArchiveBackupProofs`, `ProbeIngestProofs`,
`NotificationFanoutProofs`, `RecordChangesProofs`, `LegacyBackupProofs` (of both
modules of the migration).

Most have an `MC` module with a symmetry set or the values of their constants.
Mutants, definitions marked `(mutant of X)`, are wrong versions of a definition
that the properties must catch; no specification uses them. Variables marked
*history* record what has happened, for the properties; no guard reads them.

**InstallRegistry** is abstract: a function from points to boxes, changed by
`Register`, `RegisterWith` and `Install` in one step each.

**DeviceAssignment** is `assign` and the transaction of `create`, statement by
statement, run by concurrent requests. Every request is a `Call` with a program
counter `pc` that names its next statement; an assignment row is named by the
call that inserts it. What a transaction has written is private until `Commit`:
`closed` (rows it ended), `nulled` (pointers it cleared), its own row and
pointer. An `UPDATE` over a set of rows is two steps, as in PostgreSQL: the
snapshot finds rows (`ScanDevice`, `ScanSerial`, `ScanPointers`), and the update
proper waits for whoever holds them and tests the `WHERE` again on what that
transaction committed (`CloseDevice`, `CloseSerial`, `ClearPointers`).
`WaitsFor` is the wait-for graph: row locks, the partial unique indexes, the
foreign key's lock of the point, a new box inserted by somebody else.
`AbortVictim` is the deadlock detector; `Abort` any failure, at any statement.
`create` has its id from a random uuid, so no two creations share a point; its
configs and probes rows and its picture are left out, and its `startedAt` is
taken with the box instead of at the INSERT. An upsert that leaves an existing
box as it was takes no lock worth waiting for.

**AssignmentCache** puts Redis in front of the registry. Per box: `assign:`,
`ward:` and `device:`. A swap, creation or edit commits, then deletes its keys
one by one, and any DEL may fail; a reader runs `getOrSet` in three steps. The
history variable `cause` records why an entry may be stale: `lost` (a DEL that
failed), `late` (a value read before a commit, stored after it), `missed` (a
box left by a swap that had read another `previousSerial`).

**ArchiveBackup** is the life of one month's readings, of which a set stands for
a CSV and for its checksum. Months share no key, range or record, so one is
enough. Each statement or call of object storage is a step, between any two of
which another run may act or this one die. `DropChunk` is TimescaleDB's policy:
it drops any part of a month that is old enough, when it gets round to it.
Two variables are history. `late` are the readings that came after an export had
begun, which nothing in the code prevents: a box may send late, and `POST
/logday` takes any time. `crossed`: a restore committed its rows and its record
while a removal, which had found a record that another removal has deleted since,
was about to delete the new one. A removal that dies between its two statements
is `halfway`: it leaves a record without rows.

**DeviceLive** is what happens to the rest of a point: `update` with its
picture, `setOnline`, and the event and audit row of a swap. Each reads the
point by the serial of its box, writes it by the serial in a later step and
emits the row it wrote later still. `WriteUnknown` is a transaction of `update`
that commits while its answer is lost: the catch (`Unwind`) then deletes the
upload, as it does after a failure (`WriteFails`). `board` is the point as a dashboard that
replaces its copy by every event knows it; `disturbed` and `moved` are history.

**ProbeIngest** is the way of a reading into `log_days`: `LogConsumerController`,
`MqttController.handleDeviceLog` and `POST /logday` up to `ingest`,
`resolveProbeId` with its cache and auto-provisioning, the insert, the ack.
`Begins` is the lookup of the box; the point it answers comes from a cache that
*AssignmentCache* models, so here it may be known or null. `NewProbe`,
`Duplicate` and `ReadWinner` are the race for a new channel; `AddNamed`,
`NextChannel` and `AddProbe` administrators in the same race. `Rejects` is any
other error of the database, at any statement, or an answer that is lost after
the statement was carried out: the reading is then nacked without requeue, logged
or answered with an error. `UpdateRow` is `probe.update`, which may give the row
another channel and leave its old one without a probe (`vacated`); it is reached
by `PUT /probes/:id` (`EditProbe`) and by `PUT /adjust/:serial/probe/:channel`,
which resolves its probe as a reading does and ends in `UpdateProbe`. `Handled`
is the listener of `probe.changed`: how many handlers are under way does not
matter, only whether one is. `Crash` empties memory; `AckLost` is the loss of
RabbitMQ between the insert and the ack. Both make RabbitMQ deliver again what
was not acked; a copy that is delivered while the handler of the first is still
at its awaits is taken as coming after it.

**NotificationFanout** is `NotificationService.create` and what users do to its
rows. `pc` is `create`; `lane` is whoever is about to send an unread count to
the ward (`deliverSse`, `markRead`, `markAllRead`); `fcm` is `deliverFcm`, which
runs beside it; `Joined` is the `Promise.all`. `badge` is the last count a
dashboard of the ward got. `LookupFails` and `TellOthers` are the ways in which
an event does not reach that ward. Rows carry the number of the attempt, since a
message delivered again inserts a second row.

**LogViews** is what is shown of `log_days`. One key is followed, of a graph or
of a summary (`watched`), with its readers and the listener that goes from
pattern to pattern; beside it the stream of one channel, which begins with the
stored reading (`AskLast`, `ShowFirst`) and subscribes to the live ones then. A
reading may be stored twice, as *ProbeIngest* shows; `EditRow` is the `PUT` and
the `DELETE` of a row, which emit nothing.

**RecordChanges** is the short requests: releases with their files in the
bucket, configs, repairs, warranties, and `migrate-firmware`, which writes the
same table and bucket. A request is a chain find, upload, write, delete a file,
emit, of which each kind has its own part; `WriteUnknown` is a write whose
answer is lost, `Undo` the catch that deletes the file, `Clean` the deletion of
the previous one. `Record` is `UserAuditListener`. A download reads the row and
then the file, and changes nothing.

**LegacyDevices** is `migrate-legacy-device.ts`: five tables in order, a device
in three statements, children that find their device in the maps built on the
way, restarts after a failure (`Die`), the manual's wipe (`Wipe`).
**LegacyBackup** extends it with `migrate-legacy-backup.ts`: batches of
notifications of the boxes that have a point when the run begins (`known`), then
for each month what `exportMonth` does, under the same keys. The application runs
beside it: `Swap` takes boxes out of their points (`out`) or puts them back, and
its own exports upload, compare the count, and write meta file and record step by
step (`ExportUpload` to `ExportFails`), in any order with the script's steps.
`cause` is history: since the last upload of a month that met no other writer, a
writer `died`, another one `raced`, the script `refused` its file, or an export
has `withdrawn` its own.

## 3. What is checked

| Run | Question | Bounds | Result |
|---|---|---|---|
| Assign | do concurrent swaps and creations keep tables, history and locks right, look atomic, and end? | 3 points, 2 boxes installed or fresh tables, 2 requests | holds; 132 k states |
| Cache | when is an entry stale? | 2 points, boxes, wards and requests, a reader | holds; 222 k |
| CacheHeals | do caches end up right? | 2 points and boxes, a request, a reader | holds; 128 k |
| Archive | are months on record safe, restored months whole, rows and records in step? | 2 readings, the monthly job run twice, a manual export, 2 restores, 2 removals | holds; 1,713 k |
| ArchiveReexport | may a month be exported again? | the same, 1 restore | violated |
| LiveEdits | pictures, dashboards and audit under overlapping edits and a swap | 2 points and boxes, 2 edits, 1 swap | holds; 1,342 k |
| LiveEvents | dashboards under heartbeats, `/adjust` and a swap | 2 points, 1 box, 2 heartbeats, 1 edit, 1 swap | holds; 926 k |
| Ingest | which readings are lost, which ids are stale, does every message settle? | 2 channels, a message, a POST, a client by MQTT and `/adjust`, an admin, 1 probe deleted or moved, 1 crash or loss of RabbitMQ | holds; 476 k |
| Notify | do flags tell the truth, do the channels leave each other alone, is the badge right, is every alert tried? | a queued notification, one by POST, a user, 1 crash | holds; 518 k |
| Views | when is a view old, can a stream go back? | 4 ticks, a request, a stream, 1 crash | holds; 924 k |
| Records | do rows, files and the trail agree? | a row of each kind, 3 requests, 1 migrated release | holds; 813 k |
| Legacy | does a run that ends bring in everything? | 2 boxes, 1 config, 1 repair, 3 notifications, 2 months, 2 runs of each script, 1 swap, 2 exports | holds; 676 k |

### Why the bounds are enough

*Assign* starts with two boxes installed, so that its two free requests can
cross, deadlock, race for a row, or create the third point, or with tables in
which no box has been seen, so that they bring the first one. In *Cache* two requests are needed for a swap that knows the wrong
`previousSerial`; readers meet only through the value of a key, so one stands
for all. A `ward:` entry in which every point has its own ward is an `assign:`
entry, so *Cache* takes `ward`, which edits outdate too. In *Archive* two
readings make a partial chunk and a partial file; `Retention = 2` stands for the
configured 6, since only "one month before", "due" and "past" differ. `MaxAge`
and `LastArrival` bound the age of the month and the age at which readings still
arrive: here up to the month in which the policy begins to drop, so before, during
and after the export. Two runs of the job stand for two instances of the process.
*LiveEvents* needs one box: a second only matters to the point whose box
a swap replaces, as in *LiveEdits*.

*Ingest* needs a channel that exists and one that does not, one client for each
way in (two clients of a way meet in what they share: the row and the key), and
one probe deleted or moved while its id is about. Its POST has one reading; that
the first failure ends a longer one is in the module and under the theorems.
*Notify* needs a row that is
redelivered and one that is not; a second reader would only repeat `Turn`.
*Views* follows one key, as keys share only the handlers, which are
sets of patterns; a stream shares nothing with another. In *Records* three
requests about one release make an update that overtakes another one while it
is removed; a config, a repair and a warranty each exercise their own routes.
*Legacy* has a batch of two for three notifications, so that one batch is full
and one is not, a past month and the current one (months share nothing), and two
runs, so that the second meets what the first left. `MCLegacyBackup` cuts it in
slices: the second script and the application are looked at after one run of the
first script over tables whose rows refer to nothing, since they read only
whether a box was migrated, and a swap apart from a second export, which share no
state. The theorems have no such cuts. `MaxChanges`, `MaxBreaks`, `MaxCrashes`,
`MaxTime`, `MaxRuns`, `MaxBackups` and `MaxSwaps` bound what could otherwise go
on for ever.
Every request runs once, or the bound is reached, so the systems stop:
`CHECK_DEADLOCK FALSE`.

### Fairness

`DeviceAssignment!FairSpec`: the next statement of a request and the deadlock
detector are weakly fair, since the client awaits each answer before it sends
the next statement and PostgreSQL breaks deadlocks after a second. No request
has to arrive, nothing has to abort; those of `Seeds` have been answered. `AssignmentCache!FairSpec`: requests and
reads that have begun go on, and entries expire (EX 300). DELs may all fail.
`ProbeIngest!FairSpec`: RabbitMQ delivers a queued message and the awaits of its
handler return; other clients may stop. `NotificationFanout!FairSpec`: the same
for queued notifications, and MQTT, Redis, the database and the broker of FCM
answer or fail in the end. That is an assumption about the brokers: `publish`
waits while its broker is away, and SSE and FCM wait behind it.

### What the violated run shows

*ArchiveReexport*: an export uploads over the object before it knows what
`log_days` still has; when the chunk is gone, 0 rows equal 0 rows. A comment
says that a month may be exported again safely (quoted in `PROJECT.json`).

### Other departures seen on the models

Those a property names as a cause are marked with it; the others have no run.

- `endedAt` is taken before the UPDATEs wait for their rows, so the swap that
  commits last can carry the earlier time, and two periods of a point overlap;
  the partial unique indexes only keep two rows from being open.
- `invalidate` deletes `assign:` and `ward:`, never `device:`, so
  `GET /devices/:serial` and `/adjust` answer with the former point for 300 s.
- `previousSerial` may name a box that was already out; a swap or a late read
  leaves `assign:` stale for 300 s (`StaleOnlyByAccident`).
- Two removals that overlap a restore leave a month's rows with no record: it
  can then be neither restored nor removed (`archive-restore.service.ts:171`).
  `RowsOnRecord` excuses them by `crossed` and says that nothing else does it. A
  month can be restored while its readings are still in `log_days`.
- `update` looks its point up by the box twice; when the box moves in between,
  the picture of the first point is deleted (`PictureLostForCause`). When the
  answer to its COMMIT is lost, its catch deletes the picture the point now has
  (the same property).
- The point a box is moved out of is not announced, and overlapping heartbeats
  can change the status silently (`BoardWrongOnlyByAccident` of *DeviceLive*).
  The diff of an audit row includes changes that have no row. Online and offline
  messages carry no time, so the older may be written last.
- A failed reading or notification is nacked without requeue: a database that is
  away for a second loses what arrives in it (`LostForCause`, `rejected`). A
  batch sent again is stored again.
- A reading that comes when the export of its month has begun is in no backup and
  is dropped with its chunk (`RecordedIsSafe`, `late`).
- The ids of probes that were deleted or moved to another channel, and views
  filled late, stay for their TTL (`ProbeIdStaleOnlyByAccident`,
  `ViewStaleOnlyByAccident`): readings of the old channel are filed under the
  moved probe, those of a deleted one are lost. Editing or deleting
  a row of `log_days` announces nothing.
- Unread counts overtake each other; a removal, and a read-all by a user of
  another role, tell the ward nothing (`BadgeWrongOnlyByAccident` of
  *NotificationFanout*). `findCondition` does not scope `GUEST`, as `ward-scope`
  does. A removal during the fan-out makes the message be nacked.
- When the answer to a commit is lost, the file of a release that is listed is
  deleted (`ReleasesHaveFiles`).
  The checksum a migrated release has stays when its file is replaced.
- Old notifications go by where boxes are now (`migrate-legacy-backup.ts:306`):
  those of a box that was swapped out since the migration are skipped with a
  warning, those of one that was moved go to its present point
  (`NotificationsArrive`).
- A month that was uploaded and not recorded, by a script or an export that died,
  is skipped by every later run of the backup script, and an export may withdraw
  the object that made a run skip the month (`MonthsAreOnRecord`); `--force` followed by a mismatch
  deletes what was there before (`RecordIsOfOneWriter`); a run after one that
  died inserts notifications twice. Migrated months have 19 values in a row
  under a header of 20 columns (`migrate-legacy-backup.ts:199`), which a restore
  would reject; migrated repairs keep their `seq` and the sequence is not
  advanced (`migrate-legacy-device.ts:319`).

## 4. What is proved

All of it for any sets of points, boxes, requests, readings, messages and users,
and any bounds, from the named `ASSUME` of the module. These say that the bounds
are natural numbers, that requests of different kinds and `None` differ from
each other and from values (model values in the runs), that the old tables of
the migration share no row, and, where a property counts elements, that the set is finite: notifications, readings, the channels
of a box. What a theorem needs beyond that is in its statement.

Each proof has an inductive invariant, a lemma for each action or group of
actions that says which part of it the action may disturb, and a temporal step.
The properties themselves are hardly ever inductive; what they lack is the same
everywhere: what a request that has begun still knows is true.

| Theorem | States | Of |
|---|---|---|
| **DeviceAssignmentProofs** | | |
| TypeCorrect | `TypeOK` | |
| PointerSync | `PointerMatchesAssignment` | `Devices.serial` names the box of the open assignment |
| SingleInstallation | `OneOpenAssignment` | no two open assignments share a point or a box |
| BookkeepingSound | `InFlight` | the facts about running transactions |
| SwapNeverRejectedLate | `PointerNeverTaken` | `devices_serial_key` never rejects a swap whose INSERT went through |
| HistoryFinal | `HistoryIsFinal` | no closed assignment changes, none disappears |
| RegistryImplemented | `ImplementsRegistry` | the statements implement `InstallRegistry` |
| **CacheProofs** | | |
| TypeCorrect, ViewTypeCorrect | `TypeOK`, (`ViewTypeOK` of *LogViews*) | |
| StaleEntriesHaveACause | `StaleOnlyByAccident` | when `assign:` and `ward:` are stale |
| StaleViewsHaveACause | `ViewStaleOnlyByAccident` | when a graph or summary is old |
| StreamsGoForward | `NeverGoesBack` | a stream never shows an older reading after a newer |
| **DeviceLiveProofs** | | |
| TypeCorrect | `TypeOK` | |
| PicturesAreKept | `PictureLostForCause` | the picture a point refers to is in the store |
| DashboardsAreRight | `BoardWrongOnlyByAccident` | events leave dashboards with the row that is there |
| AuditsAreOwnWrites | `AuditIsOwnWrite` | an audit row is one user's own write |
| EditsAreAudited | `ChangesAreAudited` | no user's change is missing |
| **ArchiveBackupProofs** | | |
| TypeCorrect | `TypeOK` | |
| RowsAreOnRecord | `RowsOnRecord` | restored rows are on record |
| RecordsHaveRows | `RecordHasRows` | and a record has its rows |
| RestoresAreWhole | `RestoredWhole` | a restored month is all of its backup |
| RecordedMonthsAreSafe | `RecordedIsSafe` | no reading of a month on record is lost, but late ones |
| RepeatedExportsAreSafeInTime | part of `RepeatedExportIsSafe` | when an export may be repeated |
| **ProbeIngestProofs** | | |
| TypeCorrect | (`TypeOK` of the module) | |
| ReadingsAreLostForCause | `LostForCause` | why a reading is dropped |
| AckedMessagesAreStored | `AckedIsStored` | what an ack promises |
| StaleIdsHaveACause | `ProbeIdStaleOnlyByAccident` | when `probe:` is stale |
| **NotificationFanoutProofs** | | |
| TypeCorrect | (`TypeOK` of the module) | |
| FlagsTellTheTruth | `FlagsAreTrue` | `deliveredSse` and `deliveredFcm` |
| BothChannelsAreTried | `NeitherChannelStopsTheOther` | `deliverSse` and `deliverFcm` |
| BadgeIsRightOrCorrected | `BadgeWrongOnlyByAccident` | unread counts |
| **RecordChangesProofs** | | |
| TypeCorrect | (`TypeOK` of the module) | |
| ReleasesCanBeDownloaded | `ReleasesHaveFiles` | a listed release has its file |
| StrayFilesHaveACause | `NoStrayFiles` | why a file is in the bucket for nothing |
| ChangesAreOnTheTrail | `TrailIsComplete` | `user_audit` has each change once |
| **LegacyBackupProofs** | | |
| TypeCorrect | (`TypeOK` of *LegacyBackup*) | |
| FinishedRunsAreWhole | `FinishedRunIsWhole` | the device script leaves an exact image |
| OldNotificationsArrive | `NotificationsArrive` | every old notification of a box that had a point is delivered |
| FirstRunDeliversOnce | (stated there) | by the first run, exactly once, and no other |
| RecordsAreOfOneWriter | `RecordIsOfOneWriter` | object, meta and record of a month agree |
| OldMonthsAreOnRecord | `MonthsAreOnRecord` | every past month is on record |

### DeviceAssignment

The two properties about tables are not inductive: whether a commit keeps them
depends on what the transaction has locked. The inductive invariant is

    IInv == TypeOK /\ PointerMatchesAssignment /\ OneOpenAssignment /\ InFlight

where `InFlight` says, of every transaction: the rows it has closed are open for
everybody else, are its own point's or box's, and are closed by nobody else
(`ClosedSound`); for each such row of its box elsewhere, that point is matched
by, then cleared by, its third UPDATE; the pointers it has cleared name its box
and are held by nobody else (`NulledSound`); a row it has inserted has no rival,
committed or not (`InsertedSound`). TLC checks the same formula in *Assign*.
Every action has a lemma of its own; all but `Commit` leave the tables alone
(`TablesKept`). At `Commit`, `InsertedSound` gives uniqueness, and `ClosedSound`
with `NulledSound` gives agreement of pointers and rows. For the refinement
`KindInv` adds what requests know of their point (a creation's is not there yet
and takes no box away); `CommitRefines` maps the commit to `Register`,
`RegisterWith` or `Install`, and every other step is a stutter.

### AssignmentCache (in `CacheProofs`)

    IInv == TypeOK /\ OnePlace /\ RequestsSound /\ StaleOnlyByAccident

`OnePlace` is what the registry, to which *DeviceAssignment* is proved to come
down, keeps of points and boxes: without it `PointOf` a box would be any of
several points and a swap could outdate a key it does not know. `RequestsSound`
says that a swap that has read has its point and box, and that keys are left to
delete only between a commit and an answer. A commit changes the answer of a
key only if it is among `dels`, or of the box the swap did not know of
(`missed`); a late store is the only step that brings in a value that is not
the answer of now.

### DeviceLive

`Typed` adds to the types what each request knows at each of its steps. Then
each property has an invariant of its own:

- `Trails`: every entry of a trail is the write of a request that is done, and
  of no other entry, so nobody can add it again.
- `Pictures`: a picture belongs to one point (`Placed`), so does the one an edit
  has read, and no point refers again to one that an edit of it has replaced
  (`ReplacedIsGone`). A deletion can then only hit a picture in use when the
  edit wrote another point than it had read, or when it deletes its own upload
  after a commit it does not know of (`unwound`).
- `Told`: of a point no two requests have overlapped on, at most one change is
  still to be announced, it is the row that is there, and dashboards have the
  row it replaced (`PointTold`); what an edit or a heartbeat has read is, but
  for the box, what is there until it writes (`Fresh`). So what is not announced
  for being the same changed nothing (`UnannouncedIsSame`).
- `EditsAreAudited` rests on `Fresh`: the diff against the row read is then the
  diff against the row replaced.

### ArchiveBackup

`Records` has `RowsOnRecord` and `RecordHasRows` with what a restore between its
statements holds; it does not depend on exports. The other two are about months
nobody has exported by hand (`OnSchedule`), where `Timely` keeps exports and
restores apart: exports run in the month `Retention - 1`, when nothing has been
dropped, restores only after `Retention`. `Whole` says that what a restore has
copied is the object as it is, and that no two sets of rows are there together.
`Backed` says that object, meta and record are those of all that was due, the
readings that had arrived when the first export began (`arrived \ late`), and is
proved for any `LastArrival`. It needs that no reading came late or that the job
ran once for the month (`OneRun`): two runs with a late reading between them read
two different months, and whichever uploads last may not be the one that records
last.

`RepeatedExportsAreSafeInTime` tells how far the violated `RepeatedExportIsSafe`
is right. `AllThere` says, whoever exports, that the object and what exports
have read are of readings that have arrived, all of which are in `log_days` until
the month is `Retention` old. So an export that is repeated may lose its object,
to a mismatch or to a crash, and nothing with it, as long as the month is within
its retention or only the monthly job exports it, however late readings come.
The counterexample of *ArchiveReexport* is outside of both, and must be.

### ProbeIngest

`Ids`: no id is given twice and no channel has two probes. `Followed` is a
reading on its way: when its creation of a probe failed, another probe is there
or the channel has lost one (`vacated`); when it is lost there is a cause, of
which an error of the database (`rejected`) is one; a message is inserted once
between two crashes or losses of RabbitMQ, and not before. The proof found that the module gave
`Interrupted`, what a crash leaves of each client, by a `CASE` whose conditions
overlap, of which the language may choose any: it is now an `IF`.

### NotificationFanout

`Sound` says of a notification that its channels are at work exactly between the
fan-out and the answer, and are over at the answer (`LanesSound`), and that the
flags of its current row follow them (`FlagsSound`). `Numbered`, that no row has
a number still to come, gives a message delivered again a row with no flags. For
the badge, `CountsSound` says the same of every count on its way as the property
says of the badge, since a broadcast puts the one in the place of the other.

### LogViews (in `CacheProofs`)

`ViewStaleOnlyByAccident` is inductive once the types are known: what outdates a
view leaves a handler on its way or is excused, a handler that passes another
pattern leaves one before the view's (`HandlerGoesOn`), and the handler that
reaches the view ends with its key gone or its DEL excused. `NeverGoesBack`
needs `NothingYet`, that a stream has shown nothing until its first answer has
been sent; it is what `concat` adds to `merge`.

### RecordChanges

`Typed` holds what requests know: the file a request remembers is that of
another request about the same release whose write committed (`Remembers`), and
so is the file of a row (`Files`). `Stock` says of every file that a request
about to write has it in the bucket, that one about to undo has not committed or
has not heard, that one about to be deleted is in use nowhere, and states the
two properties. `Trails` says that an event is fired once, at the end, by
requests that nothing is known against, which steps of others never change
(`HurtOnlyFiles`).

### LegacyDevices and LegacyBackup

Both are proved in one module, since the second script reads what the first has
left. For the devices the invariant is `DevicesSound`: types, `RefsSound` (what
old rows refer to), `ScriptSound` (the maps and the rows left are those of the
stage) and `ImageSound`. The target may hold anything an earlier run left, so
`ImageSound` follows whether a run can succeed at all: a `Leftover` is a device
of an earlier run that this one has still to create, and
`devices_static_name_key` will stop it there. A run that has none in stage 1
found a target without devices, and so, by the cascades of the wipe, without
rows that refer to one; from stage 2 on, each row that has an owner is in the
target once if the run has `Passed` it, and not before. That is an exact image
at the end. `TablesApart` is where the assumption that the old tables share no
row is used.

`Notes` says of each old notification of a `known` box that it is left, waits
in the batch, or is in the table (`Arrived`), and that no run inserts it twice:
`noteCopies` stays below the number of runs while it is left or waits. Only this
makes `FirstRunDeliversOnce` follow, which is stronger than the property the run
checks; later runs do insert again, as section 3 says.

`Months` says of each month that an object that is up and in nobody's hands is
on record, unless a writer died on it, and that object, meta file and record
agree unless a writer is between them (`MonthSound`, which follows the three
steps of the script and of each export). As long as a month has no cause, whoever
has it in hand is alone (an upload that meets another writer notes `raced`), so
each step of a writer finds the month as it left it. Steps about other months
change none of this (`SameMonth`). `Behind` is the rest of `MonthsAreOnRecord`: a
month behind the run is `Excused`, because the run has written it, or has skipped
it for an object that was on record, in an export's hands, or left by one that
died; what happens to that object later, a withdrawal or a further upload, leaves
it so.

### Left to TLC

- Liveness under fairness, which the prover has no rules for: `EveryRequestEnds`,
  `CachesHeal`, `MessagesSettle`, `AlertsAreTried`.
- `RepeatedExportIsSafe`, which is violated, and holds as far as
  `RepeatedExportsAreSafeInTime` says.

Every invariant, action property and refinement that a passing run checks is
proved. The type invariants of *ProbeIngest*, *NotificationFanout*, *LogViews*,
*RecordChanges* and *LegacyBackup* are proved too, and left out of the runs.

## 5. What is not modelled, and the plan

- Authentication, roles, guards, filters, interceptors, DTOs, pagination,
  observability, bootstrap: stateless, or read by nothing.
- Queries: lists, mobile, health, dashboard counts, the cached lists of
  notifications (15 to 30 s, invalidated only by serial), `device:all`,
  the grouping of graphs into lines, `classifyNotification`.
- Below the grain: bytes of a CSV row, backpressure inside an export's stream,
  days of a month (`setUTCMonth` on the 31st, which opens a month to restores up
  to three days early).
- Of *User audit*, the events of devices and probes: the listener treats them as
  those of configs. Of *SSE*, telemetry broadcasts, which nothing counts.
- Of *Devices*, the picture, configs and probe that `create` adds, and
  `findByStaticName`.

What would come next: the cached lists (`device:all`, notifications), which
need a property of their own; and a time in the online and offline messages of a
model with a clock, without which no property can say which of two was right.
