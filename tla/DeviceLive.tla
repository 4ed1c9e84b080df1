----------------------------- MODULE DeviceLive -----------------------------
(***************************************************************************)
(* The changes of an installation point besides the box: update (fields    *)
(* and picture), setOnline (heartbeats), and what a swap announces.  All   *)
(* three find the point through the serial of its box, write it in a later *)
(* statement, and emit device.changed later still, with the row they wrote *)
(* and, for a user's change, a row of device_audit.  The registry of boxes *)
(* is the abstract InstallRegistry.                                        *)
(*                                                                         *)
(* Requests of one kind or several overlap freely.  The row of a point is  *)
(* a record; Note stands for all of its descriptive fields.                *)
(***************************************************************************)
EXTENDS InstallRegistry, Sequences

CONSTANTS
    Note,      \* values of the descriptive fields
    Edit,      \* calls of DeviceService.update
    Anonymous, \* those through /adjust, which pass no actor
    Beat,      \* calls of setOnline
    Swap       \* calls of assign

ASSUME LiveAssumption ==
    /\ Anonymous \subseteq Edit
    /\ None \notin Device \union Serial \union Edit
    /\ Device \cap Edit = {}
    /\ Edit \cap Beat = {} /\ Edit \cap Swap = {} /\ Beat \cap Swap = {}

VARIABLES
    note, online, pic,  \* the other columns of Devices
    objects,   \* the pictures in object storage
    audit,     \* rows of device_audit of each point, oldest first
    board,     \* each point as the dashboards know it
    pc,        \* where each request is
    ser,       \* the serial it was called with
    arg,       \* its other argument: the fields, or the status
    file,      \* whether an edit came with a picture
    before,    \* the point and the row it read first
    after,     \* the point and the row it wrote, and what it overwrote
    disturbed, \* history: points written by overlapping requests, or by a
               \* heartbeat of a box that moved, or whose event died with the
               \* process or with the answer to the COMMIT
    moved      \* history: points a swap has taken the box from

fields == <<note, online, pic>>
args == <<ser, arg, file>>
history == <<disturbed, moved>>
vars == <<registered, installed, fields, objects, audit, board,
          pc, args, before, after, history>>

Request == Edit \union Beat \union Swap
Picture == Device \union Edit    \* a point's first picture, and an edit's upload
Nothing == [dev |-> None]

Row(d) == [serial |-> installed[d], note |-> note[d], online |-> online[d], pic |-> pic[d]]

PointOf(s) ==
    IF \E d \in Device : installed[d] = s
    THEN CHOOSE d \in Device : installed[d] = s ELSE None

Goto(q, at, next) == pc[q] = at /\ pc' = [pc EXCEPT ![q] = next]

\* q has read or written d, and has not finished.
Holds(q, d) == pc[q] \notin {"idle", "done", "failed", "unwound"} /\ d \in {before[q].dev, after[q].dev}

Overlaps(q, d) == \E o \in Request \ {q} : Holds(o, d)

\* The heartbeat q read the status of another point than d, which it writes.
ComparesOther(q, d) == q \in Beat /\ before[q].dev # d

\* q's write of d, seen by nobody else before it commits.
Wrote(q, d, row) ==
    /\ after' = [after EXCEPT ![q] = [dev |-> d, row |-> row, was |-> Row(d)]]
    /\ disturbed' = IF Overlaps(q, d) \/ ComparesOther(q, d)
                    THEN disturbed \union {d} ELSE disturbed

\* device.changed, with the row q wrote: the dashboards replace theirs by it.
Announce(q) ==
    LET a == after[q] IN
    /\ board' = [board EXCEPT ![a.dev] = a.row]
    /\ moved' = IF a.row = Row(a.dev) THEN moved \ {a.dev} ELSE moved
    /\ UNCHANGED disturbed

-----------------------------------------------------------------------------
(* DeviceService.update. *)

\* findUnique by serial; 404 if no point has the box.  /adjust sends no picture.
ReadBefore(e, s, n, f) ==
    /\ Goto(e, "idle", IF f THEN "upload" ELSE "write")
    /\ PointOf(s) # None
    /\ f => e \notin Anonymous
    /\ ser' = [ser EXCEPT ![e] = s]
    /\ arg' = [arg EXCEPT ![e] = n]
    /\ file' = [file EXCEPT ![e] = f]
    /\ before' = [before EXCEPT ![e] = [dev |-> PointOf(s), row |-> Row(PointOf(s))]]
    /\ UNCHANGED <<registered, installed, fields, objects, audit, board, after, history>>

\* (mutant of UploadImage) The key is the name of the file, not a new uuid.
UploadUnderName(e) ==
    /\ Goto(e, "upload", "write")
    /\ objects' = objects \union {arg[e]}
    /\ UNCHANGED <<registered, installed, fields, audit, board, args, before, after, history>>

UploadImage(e) ==
    /\ Goto(e, "upload", "write")
    /\ objects' = objects \union {e}
    /\ UNCHANGED <<registered, installed, fields, audit, board, args, before, after, history>>

\* devices.update by serial: the point the box is in now.
SetFields(e, d) ==
    /\ e \in Edit
    /\ d # None
    /\ note' = [note EXCEPT ![d] = arg[e]]
    /\ pic' = IF file[e] THEN [pic EXCEPT ![d] = e] ELSE pic
    /\ UNCHANGED <<registered, installed, online, objects, audit, board, args, before, moved>>

FieldsSet(e, d) == [Row(d) EXCEPT !.note = arg[e], !.pic = IF file[e] THEN e ELSE @]

WriteFields(e) ==
    LET d == PointOf(ser[e]) IN
    /\ Goto(e, "write", "clean")
    /\ SetFields(e, d)
    /\ Wrote(e, d, FieldsSet(e, d))

\* The transaction commits, and its answer is lost: to update it has failed.
WriteUnknown(e) ==
    LET d == PointOf(ser[e]) IN
    /\ Goto(e, "write", "unwind")
    /\ SetFields(e, d)
    /\ after' = [after EXCEPT ![e] = [dev |-> d, row |-> FieldsSet(e, d), was |-> Row(d)]]
    /\ disturbed' = disturbed \union {d}

\* The transaction fails (no point has the box any more, or the database does).
WriteFails(e) ==
    /\ e \in Edit
    /\ Goto(e, "write", "unwind")
    /\ UNCHANGED <<registered, installed, fields, objects, audit, board, args, before,
                   after, history>>

\* The upload of a failed edit is deleted; imageStorage.delete swallows errors.
Unwind(e) ==
    /\ Goto(e, "unwind", "unwound")
    /\ objects' \in {objects, objects \ {e}}
    /\ UNCHANGED <<registered, installed, fields, audit, board, args, before, after, history>>

\* (mutant of CleanOld) The old picture is deleted even if it is kept.
CleanOldAlways(e) ==
    LET old == before[e].row.pic IN
    /\ Goto(e, "clean", "emit")
    /\ objects' \in {objects, objects \ {old}}
    /\ UNCHANGED <<registered, installed, fields, audit, board, args, before, after, history>>

\* The picture of the row read first is deleted, if the row written has another.
CleanOld(e) ==
    LET old == before[e].row.pic IN
    /\ Goto(e, "clean", "emit")
    /\ IF old # None /\ old # after[e].row.pic
       THEN objects' \in {objects, objects \ {old}}
       ELSE UNCHANGED objects
    /\ UNCHANGED <<registered, installed, fields, audit, board, args, before, after, history>>

\* (mutant of Differs) The picture is not among the fields compared.
DiffersInFields(e) ==
    before[e].dev # after[e].dev \/ before[e].row.note # after[e].row.note

\* computeSnapshotDiff(before, device) is not empty.
Differs(e) ==
    before[e].dev # after[e].dev \/ before[e].row # after[e].row

EmitUpdated(e) ==
    /\ e \in Edit
    /\ Goto(e, "emit", IF e \in Anonymous THEN "done" ELSE "audit")
    /\ Differs(e)
    /\ Announce(e)
    /\ UNCHANGED <<registered, installed, fields, objects, audit, args, before, after>>

EmitNothing(e) ==
    /\ e \in Edit
    /\ Goto(e, "emit", "done")
    /\ ~ Differs(e)
    /\ UNCHANGED <<registered, installed, fields, objects, audit, board, args, before,
                   after, history>>

\* (mutant of RecordAudit) The listener reads the point again.
RecordAuditAgain(q) ==
    /\ Goto(q, "audit", "done")
    /\ audit' = [audit EXCEPT ![after[q].dev] =
          Append(@, [by |-> q, snapshot |-> Row(after[q].dev), was |-> after[q].was])]
    /\ UNCHANGED <<registered, installed, fields, objects, board, args, before, after, history>>

\* AuditListener, AuditService.record: the insert is awaited by nobody.
RecordAudit(q) ==
    /\ Goto(q, "audit", "done")
    /\ audit' = [audit EXCEPT ![after[q].dev] =
          Append(@, [by |-> q, snapshot |-> after[q].row, was |-> after[q].was])]
    /\ UNCHANGED <<registered, installed, fields, objects, board, args, before, after, history>>

-----------------------------------------------------------------------------
(* DeviceService.setOnline. *)

ReadOnline(b, s, v) ==
    LET d == PointOf(s) IN
    /\ Goto(b, "idle", "write")
    /\ ser' = [ser EXCEPT ![b] = s]
    /\ arg' = [arg EXCEPT ![b] = v]
    /\ before' = [before EXCEPT ![b] =
          IF d = None THEN Nothing ELSE [dev |-> d, row |-> Row(d)]]
    /\ UNCHANGED <<registered, installed, fields, objects, audit, board, file, after, history>>

WriteOnline(b) ==
    LET d == PointOf(ser[b]) IN
    /\ b \in Beat
    /\ Goto(b, "write", "emit")
    /\ d # None
    /\ online' = [online EXCEPT ![d] = arg[b]]
    /\ Wrote(b, d, [Row(d) EXCEPT !.online = arg[b]])
    /\ UNCHANGED <<registered, installed, note, pic, objects, audit, board, args, before, moved>>

\* P2025: no point has the box.
NoSuchDevice(b) ==
    /\ b \in Beat
    /\ Goto(b, "write", "failed")
    /\ PointOf(ser[b]) = None
    /\ UNCHANGED <<registered, installed, fields, objects, audit, board, args, before,
                   after, history>>

\* (mutant of StatusChanged) Boxes that go offline are not announced.
StatusChangedToOnline(b) == arg[b] /\ (before[b] # Nothing => before[b].row.online # arg[b])

\* previous?.online !== online
StatusChanged(b) == before[b] # Nothing => before[b].row.online # arg[b]

EmitOnline(b) ==
    /\ b \in Beat
    /\ Goto(b, "emit", "done")
    /\ StatusChanged(b)
    /\ Announce(b)
    /\ UNCHANGED <<registered, installed, fields, objects, audit, args, before, after>>

SameStatus(b) ==
    /\ b \in Beat
    /\ Goto(b, "emit", "done")
    /\ ~ StatusChanged(b)
    /\ UNCHANGED <<registered, installed, fields, objects, audit, board, args, before,
                   after, history>>

-----------------------------------------------------------------------------
(* assign, atomic, and its event: only of the point the box goes into. *)

SwapBox(w, d, s) ==
    LET from == {e \in Device \ {d} : installed[e] = s} IN
    /\ Goto(w, "idle", "emit")
    /\ installed[d] # s
    /\ Install(d, s)
    /\ Wrote(w, d, [Row(d) EXCEPT !.serial = s])
    /\ moved' = moved \union from
    /\ UNCHANGED <<fields, objects, audit, board, args, before>>

EmitSwapped(w) ==
    /\ w \in Swap
    /\ Goto(w, "emit", "audit")
    /\ Announce(w)
    /\ UNCHANGED <<registered, installed, fields, objects, audit, args, before, after>>

\* The process dies, or a call of Redis or of the audit table fails.
Fail(q) ==
    /\ pc[q] \in {"upload", "clean", "emit", "audit"}
    /\ pc' = [pc EXCEPT ![q] = "failed"]
    /\ disturbed' = IF pc[q] \in {"clean", "emit"} THEN disturbed \union {after[q].dev} ELSE disturbed
    /\ UNCHANGED <<registered, installed, fields, objects, audit, board, args, before,
                   after, moved>>

-----------------------------------------------------------------------------

Init ==
    /\ RegistryInit /\ registered = Device
    /\ note \in [Device -> Note]
    /\ online = [d \in Device |-> FALSE]
    /\ pic = [d \in Device |-> d] /\ objects = Device
    /\ audit = [d \in Device |-> <<[by |-> None, snapshot |-> Row(d), was |-> Row(d)]>>]
    /\ board = [d \in Device |-> Row(d)]
    /\ pc = [q \in Request |-> "idle"]
    /\ ser = [q \in Request |-> None]
    /\ arg = [q \in Request |-> None]
    /\ file = [q \in Request |-> FALSE]
    /\ before = [q \in Request |-> Nothing]
    /\ after = [q \in Request |-> Nothing]
    /\ disturbed = {} /\ moved = {}

Next ==
    \/ \E e \in Edit :
          \/ \E s \in Serial, n \in Note, f \in BOOLEAN : ReadBefore(e, s, n, f)
          \/ UploadImage(e)
          \/ WriteFields(e) \/ WriteUnknown(e) \/ WriteFails(e) \/ Unwind(e)
          \/ CleanOld(e) \/ EmitUpdated(e) \/ EmitNothing(e)
    \/ \E b \in Beat :
          \/ \E s \in Serial, v \in BOOLEAN : ReadOnline(b, s, v)
          \/ WriteOnline(b) \/ NoSuchDevice(b) \/ EmitOnline(b) \/ SameStatus(b)
    \/ \E w \in Swap :
          \/ \E d \in Device, s \in Serial : SwapBox(w, d, s)
          \/ EmitSwapped(w)
    \/ \E q \in Request : RecordAudit(q) \/ Fail(q)

Spec == Init /\ [][Next]_vars

-----------------------------------------------------------------------------
(* Properties. *)

Rows == [serial : Serial \union {None}, note : Note, online : BOOLEAN,
         pic : Picture \union {None}]

TypeOK ==
    /\ RegistryTypeOK
    /\ note \in [Device -> Note]
    /\ online \in [Device -> BOOLEAN]
    /\ pic \in [Device -> Picture \union {None}]
    /\ objects \subseteq Picture
    /\ \A d \in Device : \A i \in 1..Len(audit[d]) :
          /\ audit[d][i].by \in Edit \union Swap \union {None}
          /\ {audit[d][i].snapshot, audit[d][i].was} \subseteq Rows
    /\ board \in [Device -> Rows]
    /\ \A q \in Request :
          /\ before[q] # Nothing => before[q].dev \in Device /\ before[q].row \in Rows
          /\ after[q] # Nothing => after[q].dev \in Device /\ after[q].row \in Rows
    /\ disturbed \subseteq Device /\ moved \subseteq Device

\* Edits of a point that overlap, fail or die never delete the picture it refers
\* to, with two exceptions: a swap moves the box to another point between the
\* read and the write of an edit, or an edit deletes its own upload because the
\* answer to its COMMIT was lost.
PictureLostForCause ==
    \A d \in Device :
       pic[d] # None /\ pic[d] \notin objects =>
          \/ pic[d] \in Edit /\ pc[pic[d]] = "unwound"
          \/ \E e \in Edit :
                /\ after[e] # Nothing /\ after[e].dev # d
                /\ before[e].dev = d /\ before[e].row.pic = pic[d]

\* Dashboards that replace their copy of a point by each event end up right:
\* a copy is wrong only while the event is on its way, or when two requests
\* overlapped on the point, or a heartbeat compared it with another point, or a
\* process died, or the answer to a COMMIT was lost, or a swap took the box away.
BoardWrongOnlyByAccident ==
    \A d \in Device :
       board[d] # Row(d) =>
          \/ d \in disturbed \union moved
          \/ \E q \in Request : pc[q] \in {"clean", "emit"} /\ after[q].dev = d

\* What device_audit shows as a user's change is a row that user wrote, with the
\* user's own values in it, and no change is recorded twice.
AuditIsOwnWrite ==
    \A d \in Device : \A i \in 2..Len(audit[d]) :
       LET a == audit[d][i] IN
       /\ after[a.by].dev = d /\ after[a.by].row = a.snapshot
       /\ a.by \in Edit => a.snapshot.note = arg[a.by]
       /\ \A j \in 2..Len(audit[d]) : audit[d][j].by = a.by => j = i

\* A user's edit that changed a point is in its audit, unless requests overlapped
\* on the point or the row was lost: comparing with the row read first loses none.
ChangesAreAudited ==
    \A e \in Edit \ Anonymous :
       pc[e] = "done" /\ after[e].row # after[e].was /\ after[e].dev \notin disturbed =>
          \E i \in 1..Len(audit[after[e].dev]) : audit[after[e].dev][i].by = e

=============================================================================
