-------------------------- MODULE DeviceAssignment --------------------------
(***************************************************************************)
(* DeviceAssignmentService.assign and DeviceService.create at the grain of *)
(* SQL statements, run by concurrent requests over PostgreSQL in its       *)
(* default isolation level, READ COMMITTED.                                *)
(*                                                                         *)
(* Every request is one Call and runs one interactive transaction.  What a *)
(* transaction has written is private until Commit: the assignment rows it *)
(* closed (closed), the pointers it cleared (nulled), its own new row and  *)
(* its own pointer (implied by its pc).  A statement that updates a set of *)
(* rows takes its snapshot in one step (Scan...) and updates in a later    *)
(* one (Apply...), waiting for the rows other transactions hold and then   *)
(* testing its WHERE clause again on what they committed.                  *)
(*                                                                         *)
(* An assignment row is named by the Call that inserts it: it says that    *)
(* box ser[c] sits in point dev[c] since stamp[c].  Calls of Seeds have    *)
(* ended before the run begins.                                            *)
(***************************************************************************)
EXTENDS Naturals

CONSTANTS
    Device,   \* installation points (Devices.id)
    Serial,   \* boxes (Hardware.serial)
    Call,     \* requests
    Seeds,    \* requests of the past; the assignments at the start are theirs
    None      \* SQL NULL

ASSUME ConstantsAssumption ==
    /\ None \notin Serial /\ None \notin Device
    /\ Seeds \subseteq Call

VARIABLES
    registered,  \* committed rows of Devices
    hardware,    \* committed rows of Hardware
    pointer,     \* committed Devices.serial
    installs,    \* committed rows of DeviceAssignments
    endedAt,     \* their ended_at: a time, or Open
    clock,       \* the time the next new Date() returns
    pc,          \* where each request is
    kind,        \* "assign" or "create"
    dev, ser,    \* its deviceId and serial
    prev,        \* its previousSerial
    stamp,       \* its endedAt, also the startedAt of its row
    todo,        \* the rows its running UPDATE has matched
    closed,      \* assignment rows it has closed and locked
    nulled       \* rows of Devices whose serial it has cleared and locked

tables  == <<registered, hardware, pointer, installs, endedAt>>
request == <<kind, dev, ser>>
vars    == <<registered, hardware, pointer, installs, endedAt, clock,
             pc, kind, dev, ser, prev, stamp, todo, closed, nulled>>

Open == 0    \* ended_at IS NULL

-----------------------------------------------------------------------------
(* The transactions. *)

\* The request's next statement, in program order; X-ing is statement X after
\* its snapshot.
Statement == {"noop", "upsert", "closeDev", "closingDev", "closeSer",
              "closingSer", "nullPtr", "nullingPtr", "insert", "setPtr",
              "commit"}

InTx(c) == pc[c] \in Statement

\* c has inserted its assignment row, which nobody else sees yet.
Inserted(c) == pc[c] \in {"setPtr", "commit"} /\ ser[c] # None

\* c has inserted a row of Hardware, which nobody else sees yet.
NewBox(c) ==
    /\ InTx(c) /\ pc[c] \notin {"noop", "upsert"}
    /\ ser[c] # None /\ ser[c] \notin hardware

IsOpen(r) == r \in installs /\ endedAt[r] = Open

\* Two open rows with this in common violate device_assignments_active_device
\* or device_assignments_active_serial.
Clash(r, c) == dev[r] = dev[c] \/ ser[r] = ser[c]

\* o holds the lock of row x of Devices: it has written Devices.serial, or its
\* assignment row refers to x (the foreign key's FOR KEY SHARE).
HoldsDevice(o, x) == x \in nulled[o] \/ (Inserted(o) /\ dev[o] = x)

\* (mutant of Duplicates) The migration lacks device_assignments_active_device.
DuplicatesOfBox(c) == {r \in installs : IsOpen(r) /\ ser[r] = ser[c] /\ r \notin closed[c]}

\* The rows that would make c's INSERT a duplicate.
Duplicates(c) == {r \in installs : IsOpen(r) /\ Clash(r, c) /\ r \notin closed[c]}

\* The statement c is in must wait for transaction o to end.
WaitsFor(c, o) ==
    /\ o # c
    /\ \/ pc[c] = "upsert" /\ NewBox(o) /\ ser[o] = ser[c]
       \/ pc[c] \in {"closingDev", "closingSer"} /\ todo[c] \cap closed[o] # {}
       \/ pc[c] = "nullingPtr" /\ \E x \in todo[c] : HoldsDevice(o, x)
       \/ /\ pc[c] = "insert"
          /\ \/ Duplicates(c) \cap closed[o] # {}
             \/ Inserted(o) /\ Clash(o, c)
             \/ dev[c] \in nulled[o]

Blocked(c) == \E o \in Call : WaitsFor(c, o)

\* c is on a cycle of waiting transactions, or waits for one: everyone in some
\* group that includes c waits for somebody in the group.
Deadlocked(c) ==
    \E group \in SUBSET Call :
       /\ c \in group
       /\ \A a \in group : \E b \in group : WaitsFor(a, b)

-----------------------------------------------------------------------------
(* Starting a request. *)

Fetch(c, k, d, s) ==
    /\ pc[c] = "idle"
    /\ kind' = [kind EXCEPT ![c] = k]
    /\ dev'  = [dev EXCEPT ![c] = d]
    /\ ser'  = [ser EXCEPT ![c] = s]
    /\ UNCHANGED <<tables, clock, stamp, todo, closed, nulled>>

\* assign(deviceId, serial): read the device; 404 if there is none.
StartAssign(c, d, s) ==
    /\ Fetch(c, "assign", d, s)
    /\ prev' = [prev EXCEPT ![c] = pointer[d]]
    /\ pc' = [pc EXCEPT ![c] =
          IF d \notin registered THEN "failed"
          ELSE IF pointer[d] = s THEN "noop" ELSE "upsert"]

\* create(dto): a new device with an id nobody has, and the box of dto.serial,
\* if any.
StartCreate(c, d, s) ==
    /\ d \notin registered
    /\ \A o \in Call : kind[o] = "create" => dev[o] # d
    /\ Fetch(c, "create", d, s)
    /\ pc' = [pc EXCEPT ![c] = IF s = None THEN "commit" ELSE "upsert"]
    /\ UNCHANGED prev

-----------------------------------------------------------------------------
(* The statements of the transactions. *)

Goto(c, at, next) ==
    /\ pc[c] = at
    /\ pc' = [pc EXCEPT ![c] = next]

\* (mutant of Release) A failed transaction is never rolled back.
ReleaseLeaks(c, outcome) ==
    /\ pc'     = [pc EXCEPT ![c] = outcome]
    /\ todo'   = [todo EXCEPT ![c] = {}]
    /\ closed' = IF outcome = "failed" THEN closed ELSE [closed EXCEPT ![c] = {}]
    /\ nulled' = [nulled EXCEPT ![c] = {}]

\* c's transaction is over: its locks are gone.
Release(c, outcome) ==
    /\ pc'     = [pc EXCEPT ![c] = outcome]
    /\ todo'   = [todo EXCEPT ![c] = {}]
    /\ closed' = [closed EXCEPT ![c] = {}]
    /\ nulled' = [nulled EXCEPT ![c] = {}]

\* The box is already in the device: look up its open assignment; 404 if it
\* has been closed since the device was read.
FindCurrent(c) ==
    /\ pc[c] = "noop"
    /\ Release(c, IF \E r \in installs : IsOpen(r) /\ dev[r] = dev[c] /\ ser[r] = ser[c]
                  THEN "unchanged" ELSE "failed")
    /\ UNCHANGED <<tables, clock, request, prev, stamp>>

\* (mutant of UpsertHardware) create closes the box's old assignment, as assign
\* does.
UpsertThenClose(c) ==
    /\ Goto(c, "upsert", "closeDev")
    /\ ~ Blocked(c)
    /\ stamp' = [stamp EXCEPT ![c] = clock]
    /\ clock' = clock + 1
    /\ UNCHANGED <<tables, request, prev, todo, closed, nulled>>

\* hardware.upsert, then new Date(); a new point has no assignment to close.
UpsertHardware(c) ==
    /\ Goto(c, "upsert", IF kind[c] = "create" THEN "insert" ELSE "closeDev")
    /\ ~ Blocked(c)
    /\ stamp' = [stamp EXCEPT ![c] = clock]
    /\ clock' = clock + 1
    /\ UNCHANGED <<tables, request, prev, todo, closed, nulled>>

\* UPDATE device_assignments SET ended_at WHERE ended_at IS NULL AND match:
\* the snapshot.
ScanAssignments(c, at, next, match) ==
    /\ Goto(c, at, next)
    /\ todo' = [todo EXCEPT ![c] = {r \in match : IsOpen(r) /\ r \notin closed[c]}]
    /\ UNCHANGED <<tables, clock, request, prev, stamp, closed, nulled>>

\* (mutant of ApplyClose) The rows are found first and updated by their ids,
\* without ended_at IS NULL.
ApplyCloseById(c, at, next) ==
    /\ Goto(c, at, next)
    /\ ~ Blocked(c)
    /\ closed' = [closed EXCEPT ![c] = @ \union todo[c]]
    /\ todo' = [todo EXCEPT ![c] = {}]
    /\ UNCHANGED <<tables, clock, request, prev, stamp, nulled>>

\* (mutant of ApplyClose) The UPDATE waits for nobody.
ApplyCloseUnlocked(c, at, next) ==
    /\ Goto(c, at, next)
    /\ closed' = [closed EXCEPT ![c] = @ \union {r \in todo[c] : IsOpen(r)}]
    /\ todo' = [todo EXCEPT ![c] = {}]
    /\ UNCHANGED <<tables, clock, request, prev, stamp, nulled>>

\* The update proper: rows another transaction closed meanwhile are left alone.
ApplyClose(c, at, next) ==
    /\ Goto(c, at, next)
    /\ ~ Blocked(c)
    /\ closed' = [closed EXCEPT ![c] = @ \union {r \in todo[c] : IsOpen(r)}]
    /\ todo' = [todo EXCEPT ![c] = {}]
    /\ UNCHANGED <<tables, clock, request, prev, stamp, nulled>>

ScanDevice(c)  == ScanAssignments(c, "closeDev", "closingDev",
                                  {r \in installs : dev[r] = dev[c]})
CloseDevice(c) == ApplyClose(c, "closingDev", "closeSer")
ScanSerial(c)  == ScanAssignments(c, "closeSer", "closingSer",
                                  {r \in installs : ser[r] = ser[c]})
CloseSerial(c) == ApplyClose(c, "closingSer", "nullPtr")

\* (mutant of ScanPointers) assign does not clear the box's old pointer.
ScanNoPointers(c) ==
    /\ Goto(c, "nullPtr", "nullingPtr")
    /\ todo' = [todo EXCEPT ![c] = {}]
    /\ UNCHANGED <<tables, clock, request, prev, stamp, closed, nulled>>

\* UPDATE devices SET serial = NULL WHERE serial = ser[c] AND id <> dev[c].
ScanPointers(c) ==
    /\ Goto(c, "nullPtr", "nullingPtr")
    /\ todo' = [todo EXCEPT ![c] =
          {x \in registered : pointer[x] = ser[c] /\ x # dev[c]}]
    /\ UNCHANGED <<tables, clock, request, prev, stamp, closed, nulled>>

ClearPointers(c) ==
    /\ Goto(c, "nullingPtr", "insert")
    /\ ~ Blocked(c)
    /\ nulled' = [nulled EXCEPT ![c] = {x \in todo[c] : pointer[x] = ser[c]}]
    /\ todo' = [todo EXCEPT ![c] = {}]
    /\ UNCHANGED <<tables, clock, request, prev, stamp, closed>>

\* INSERT INTO device_assignments, checked by the two partial unique indexes.
InsertAssignment(c) ==
    /\ Goto(c, "insert", "setPtr")
    /\ ~ Blocked(c)
    /\ Duplicates(c) = {}
    /\ UNCHANGED <<tables, clock, request, prev, stamp, todo, closed, nulled>>

\* P2002, answered with a 409: a duplicate that no transaction is closing.
RejectDuplicate(c) ==
    /\ pc[c] = "insert"
    /\ \E r \in Duplicates(c) : \A o \in Call : r \notin closed[o]
    /\ Release(c, "failed")
    /\ UNCHANGED <<tables, clock, request, prev, stamp>>

\* Another device still has this serial: UPDATE devices SET serial would violate
\* devices_serial_key.
PointerTaken(c) ==
    \E x \in Device \ ({dev[c]} \union nulled[c]) : pointer[x] = ser[c]

SetPointer(c) ==
    /\ Goto(c, "setPtr", "commit")
    /\ ~ PointerTaken(c)
    /\ UNCHANGED <<tables, clock, request, prev, stamp, todo, closed, nulled>>

\* (mutant of Commit) create writes Devices.serial and no assignment.
CommitPointerOnly(c) ==
    /\ pc[c] = "commit"
    /\ registered' = registered \union {dev[c]}
    /\ hardware' = hardware \union ({ser[c]} \ {None})
    /\ pointer' = [x \in Device |->
          IF x = dev[c] /\ ser[c] # None THEN ser[c]
          ELSE IF x \in nulled[c] THEN None ELSE pointer[x]]
    /\ installs' = IF ser[c] = None \/ kind[c] = "create" THEN installs
                   ELSE installs \union {c}
    /\ endedAt' = [r \in Call |-> IF r \in closed[c] THEN stamp[c] ELSE endedAt[r]]
    /\ Release(c, "done")
    /\ UNCHANGED <<clock, request, prev, stamp>>

\* (mutant of Commit) assign takes the box to be in hardware, and upserts nothing.
CommitWithoutHardware(c) ==
    /\ pc[c] = "commit"
    /\ registered' = registered \union {dev[c]}
    /\ hardware' = IF kind[c] = "assign" THEN hardware ELSE hardware \union ({ser[c]} \ {None})
    /\ pointer' = [x \in Device |->
          IF x = dev[c] /\ ser[c] # None THEN ser[c]
          ELSE IF x \in nulled[c] THEN None ELSE pointer[x]]
    /\ installs' = IF ser[c] = None THEN installs ELSE installs \union {c}
    /\ endedAt' = [r \in Call |-> IF r \in closed[c] THEN stamp[c] ELSE endedAt[r]]
    /\ Release(c, "done")
    /\ UNCHANGED <<clock, request, prev, stamp>>

Commit(c) ==
    /\ pc[c] = "commit"
    /\ registered' = registered \union {dev[c]}
    /\ hardware' = hardware \union ({ser[c]} \ {None})
    /\ pointer' = [x \in Device |->
          IF x = dev[c] /\ ser[c] # None THEN ser[c]
          ELSE IF x \in nulled[c] THEN None ELSE pointer[x]]
    /\ installs' = IF ser[c] = None THEN installs ELSE installs \union {c}
    /\ endedAt' = [r \in Call |-> IF r \in closed[c] THEN stamp[c] ELSE endedAt[r]]
    /\ Release(c, "done")
    /\ UNCHANGED <<clock, request, prev, stamp>>

\* The transaction ends without effect: a statement fails, its 5 s run out, the
\* connection or the process dies.
Abort(c) ==
    /\ InTx(c)
    /\ Release(c, "failed")
    /\ UNCHANGED <<tables, clock, request, prev, stamp>>

\* PostgreSQL's deadlock detector picks c as the victim.
AbortVictim(c) == Deadlocked(c) /\ Abort(c)

-----------------------------------------------------------------------------

\* The row of c in rows says that box s[c] is in point d[c], and the points agree.
Backfilled(rows, d, s) ==
    /\ \A a, b \in rows : d[a] = d[b] \/ s[a] = s[b] => a = b
    /\ dev = [c \in Call |-> IF c \in rows THEN d[c] ELSE None]
    /\ ser = [c \in Call |-> IF c \in rows THEN s[c] ELSE None]
    /\ pointer \in [Device -> {s[c] : c \in rows} \union {None}]
    /\ \A x \in Device, y \in Serial :
          pointer[x] = y <=> \E c \in rows : d[c] = x /\ s[c] = y
    /\ hardware = {s[c] : c \in rows}

\* The tables are fresh, or filled: every box was put there by a request of Seeds.
Init ==
    /\ registered \in SUBSET Device
    /\ installs \in {{}, Seeds}
    /\ \E d \in [installs -> registered], s \in [installs -> Serial] : Backfilled(installs, d, s)
    /\ endedAt = [c \in Call |-> Open]
    /\ clock = 1
    /\ pc = [c \in Call |-> IF c \in installs THEN "done"
                           ELSE IF c \in Seeds THEN "failed" ELSE "idle"]
    /\ kind = [c \in Call |-> "assign"]
    /\ prev = [c \in Call |-> None]
    /\ stamp = [c \in Call |-> 0]
    /\ todo = [c \in Call |-> {}]
    /\ closed = [c \in Call |-> {}]
    /\ nulled = [c \in Call |-> {}]

Start(c) ==
    \E d \in Device :
       \/ \E s \in Serial : StartAssign(c, d, s)
       \/ \E s \in Serial \union {None} : StartCreate(c, d, s)

\* The next statement of a request that has begun.
Advance(c) ==
    \/ FindCurrent(c)
    \/ UpsertHardware(c)
    \/ ScanDevice(c)   \/ CloseDevice(c)
    \/ ScanSerial(c)   \/ CloseSerial(c)
    \/ ScanPointers(c) \/ ClearPointers(c)
    \/ InsertAssignment(c) \/ RejectDuplicate(c)
    \/ SetPointer(c)
    \/ Commit(c)

Next == \E c \in Call : Start(c) \/ Advance(c) \/ AbortVictim(c) \/ Abort(c)

Spec == Init /\ [][Next]_vars

\* The client awaits every statement's answer and sends the next one, and
\* PostgreSQL breaks every deadlock; nothing forces a request to arrive, or a
\* transaction to abort.  Those of Seeds have been answered.
FairSpec ==
    Spec /\ \A c \in Call \ Seeds : WF_vars(Advance(c)) /\ WF_vars(AbortVictim(c))

-----------------------------------------------------------------------------
(* Properties. *)

\* Types; Devices.serial names a box that is in hardware, as its foreign key
\* demands: whoever installs a box has upserted it.
TypeOK ==
    /\ registered \in SUBSET Device
    /\ hardware \in SUBSET Serial
    /\ pointer \in [Device -> hardware \union {None}]
    /\ installs \in SUBSET Call
    /\ endedAt \in [Call -> Nat]
    /\ clock \in Nat \ {Open}
    /\ pc \in [Call -> Statement \union {"idle", "unchanged", "done", "failed"}]
    /\ kind \in [Call -> {"assign", "create"}]
    /\ dev \in [Call -> Device \union {None}]
    /\ \A c \in Call : pc[c] \notin {"idle", "failed"} => dev[c] \in Device
    /\ ser \in [Call -> Serial \union {None}]
    /\ prev \in [Call -> Serial \union {None}]
    /\ stamp \in [Call -> Nat]
    /\ todo \in [Call -> SUBSET (Call \union Device)]
    /\ \A c \in Call :
          todo[c] \subseteq (IF pc[c] = "nullingPtr" THEN Device ELSE Call)
    /\ closed \in [Call -> SUBSET Call]
    /\ nulled \in [Call -> SUBSET Device]

\* Devices.serial and the open assignments tell the same story in every
\* committed state, whatever the interleaving of the requests: the pointer is
\* a copy that no two statements of two requests may drive apart.
PointerMatchesAssignment ==
    \A d \in Device, s \in Serial :
       pointer[d] = s <=> \E r \in installs : IsOpen(r) /\ dev[r] = d /\ ser[r] = s

\* A box is installed in one place, and a place holds one box: the state the
\* partial indexes are there to keep out never becomes visible.
OneOpenAssignment ==
    \A q, r \in installs : IsOpen(q) /\ IsOpen(r) /\ Clash(q, r) => q = r

\* The UPDATE that clears the box's old pointer always clears enough: when
\* assign reaches devices.update, no other point can still hold the serial, so
\* devices_serial_key never rejects a swap that got this far.
PointerNeverTaken ==
    \A c \in Call : pc[c] = "setPtr" => ~ PointerTaken(c)

\* Committed rows are complete, and only they have an end.
RowsSound ==
    /\ \A r \in Call :
          IF r \in installs THEN pc[r] = "done" /\ dev[r] \in Device /\ ser[r] \in Serial
                           ELSE endedAt[r] = Open
    /\ \A x \in Device : pointer[x] # None => x \in registered

\* What a running statement has matched, and what the request knows by then.
LocalsSound(c) ==
    /\ InTx(c) /\ pc[c] # "commit" => ser[c] \in Serial
    /\ InTx(c) /\ pc[c] \notin {"noop", "upsert"} /\ ser[c] # None => stamp[c] # Open
    /\ pc[c] \in {"closingDev", "closingSer"} =>
          \A r \in todo[c] : r \in installs /\ Clash(r, c)
    /\ pc[c] = "nullingPtr" => dev[c] \notin todo[c]

\* c closes rows of its own point or box; they stay open for everyone else,
\* nobody else closes them, and the point each takes the box from is cleared
\* before c inserts.
ClosedSound(c) ==
    \A r \in closed[c] :
       /\ InTx(c) /\ pc[c] \notin {"noop", "upsert"}
       /\ ser[c] # None /\ stamp[c] # Open
       /\ IsOpen(r) /\ Clash(r, c)
       /\ \A o \in Call \ {c} : r \notin closed[o]
       /\ ser[r] = ser[c] /\ dev[r] # dev[c] =>
             /\ pc[c] = "nullingPtr" => dev[r] \in todo[c]
             /\ pc[c] \in {"insert", "setPtr", "commit"} => dev[r] \in nulled[c]

\* The pointers c clears still name its box, and nobody else holds their rows.
NulledSound(c) ==
    \A x \in nulled[c] :
       /\ InTx(c) /\ x # dev[c] /\ pointer[x] = ser[c]
       /\ \A o \in Call \ {c} : ~ HoldsDevice(o, x)

\* The row c has inserted has no rival, committed or in flight.
InsertedSound(c) ==
    Inserted(c) =>
       /\ Duplicates(c) = {}
       /\ \A o \in Call \ {c} : Inserted(o) => ~ Clash(o, c)

\* The bookkeeping of the transactions in flight that keeps pointer and
\* assignment together: with it, the three properties above are inductive.
InFlight ==
    /\ RowsSound
    /\ \A c \in Call :
          LocalsSound(c) /\ ClosedSound(c) /\ NulledSound(c) /\ InsertedSound(c)

\* The history of installations is append-only: a concurrent swap that lost the
\* race for an open row never moves the end of an assignment already closed.
KeepsHistory ==
    \A r \in installs :
       /\ r \in installs'
       /\ ~ IsOpen(r) => endedAt'[r] = endedAt[r]
HistoryIsFinal == [][KeepsHistory]_vars

\* Seen from outside, a request is one atomic Install, Register or RegisterWith
\* of InstallRegistry, at its commit.
Registry == INSTANCE InstallRegistry WITH installed <- pointer
ImplementsRegistry == Registry!RegistrySpec

\* Every request is answered: crossing swaps may deadlock, and waiting for one
\* another never lasts.
EveryRequestEnds == \A c \in Call : InTx(c) ~> ~ InTx(c)

=============================================================================
