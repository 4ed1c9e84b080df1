---------------------- MODULE DeviceAssignmentProofs ----------------------
(***************************************************************************)
(* Proofs about DeviceAssignment, for any number of points, boxes and      *)
(* concurrent requests.                                                    *)
(***************************************************************************)
EXTENDS DeviceAssignment, TLAPS

\* The backfilled tables have their types.
LEMMA InitTyped == Init => TypeOK
<1> SUFFICES ASSUME Init PROVE TypeOK
  OBVIOUS
<1>1. PICK d \in [installs -> registered], s \in [installs -> Serial] : Backfilled(installs, d, s)
  BY DEF Init
<1>2. {s[c] : c \in installs} \subseteq Serial
  BY <1>1 DEF Backfilled
<1>3. dev \in [Call -> Device \union {None}] /\ ser \in [Call -> Serial \union {None}]
  BY <1>1 DEF Init, Backfilled
<1>4. pointer \in [Device -> hardware \union {None}] /\ hardware \in SUBSET Serial
  BY <1>1, <1>2 DEF Backfilled
<1>5. \A c \in Call : pc[c] \notin {"idle", "failed"} => dev[c] \in Device
  BY <1>1, ConstantsAssumption DEF Init, Backfilled
<1> QED BY <1>3, <1>4, <1>5, ConstantsAssumption DEF Init, TypeOK, Open, Statement

\* No statement, start or abort of a request breaks the types.
LEMMA StepTyped == TypeOK /\ [Next]_vars => TypeOK'
<1> SUFFICES ASSUME TypeOK, [Next]_vars PROVE TypeOK'
  OBVIOUS
<1> USE DEF TypeOK, Statement, Open, tables, request
<1>1. ASSUME NEW c \in Call, Start(c) PROVE TypeOK'
  <2>1. ASSUME NEW d \in Device, NEW s \in Serial, StartAssign(c, d, s) PROVE TypeOK'
    BY <2>1 DEF StartAssign, Fetch
  <2>2. ASSUME NEW d \in Device, NEW s \in Serial \union {None}, StartCreate(c, d, s)
        PROVE TypeOK'
    BY <2>2 DEF StartCreate, Fetch
  <2> QED BY <1>1, <2>1, <2>2 DEF Start
<1>2. ASSUME NEW c \in Call, Advance(c) PROVE TypeOK'
  <2>1. CASE FindCurrent(c)
    BY <2>1 DEF FindCurrent, Release
  <2>2. CASE UpsertHardware(c)
    BY <2>2 DEF UpsertHardware, Goto
  <2>3. CASE ScanDevice(c)
    BY <2>3 DEF ScanDevice, ScanAssignments, Goto
  <2>4. CASE CloseDevice(c)
    BY <2>4 DEF CloseDevice, ApplyClose, Goto, IsOpen
  <2>5. CASE ScanSerial(c)
    BY <2>5 DEF ScanSerial, ScanAssignments, Goto
  <2>6. CASE CloseSerial(c)
    BY <2>6 DEF CloseSerial, ApplyClose, Goto, IsOpen
  <2>7. CASE ScanPointers(c)
    BY <2>7 DEF ScanPointers, Goto
  <2>8. CASE ClearPointers(c)
    BY <2>8 DEF ClearPointers, Goto
  <2>9. CASE InsertAssignment(c)
    BY <2>9 DEF InsertAssignment, Goto
  <2>10. CASE RejectDuplicate(c)
    BY <2>10 DEF RejectDuplicate, Release
  <2>11. CASE SetPointer(c)
    BY <2>11 DEF SetPointer, Goto
  <2>12. CASE Commit(c)
    BY <2>12 DEF Commit, Release
  <2> QED
    BY <1>2, <2>1, <2>2, <2>3, <2>4, <2>5, <2>6, <2>7, <2>8, <2>9, <2>10, <2>11, <2>12
       DEF Advance
<1>3. ASSUME NEW c \in Call, Abort(c) PROVE TypeOK'
  BY <1>3 DEF Abort, Release, InTx
<1>4. CASE UNCHANGED vars
  BY <1>4 DEF vars
<1> QED BY <1>1, <1>2, <1>3, <1>4 DEF Next, AbortVictim

\* Every variable keeps its type: the statements of assign and create write
\* only values their columns and locals can hold.
THEOREM TypeCorrect == Spec => []TypeOK
BY InitTyped, StepTyped, PTL DEF Spec

-----------------------------------------------------------------------------
(* The inductive invariant. *)

IInv == TypeOK /\ PointerMatchesAssignment /\ OneOpenAssignment /\ InFlight

\* The backfilled tables agree with each other, and nothing is in flight.
LEMMA InitInductive == Init => IInv
<1> SUFFICES ASSUME Init PROVE IInv
  OBVIOUS
<1>1. PICK d \in [installs -> registered], s \in [installs -> Serial] : Backfilled(installs, d, s)
  BY DEF Init
<1>3. installs \subseteq Call /\ \A r \in installs : IsOpen(r)
  BY ConstantsAssumption DEF Init, IsOpen
<1>2. \A r \in installs : dev[r] = d[r] /\ ser[r] = s[r] /\ d[r] \in registered /\ s[r] \in Serial
  BY <1>1, <1>3, ConstantsAssumption DEF Backfilled
<1>4. PointerMatchesAssignment
  <2> SUFFICES ASSUME NEW x \in Device, NEW y \in Serial
               PROVE  pointer[x] = y
                        <=> \E r \in installs : IsOpen(r) /\ dev[r] = x /\ ser[r] = y
    BY DEF PointerMatchesAssignment
  <2>1. pointer[x] = y <=> \E c \in installs : d[c] = x /\ s[c] = y
    BY <1>1 DEF Backfilled
  <2> QED BY <2>1, <1>2, <1>3
<1>5. OneOpenAssignment
  <2> SUFFICES ASSUME NEW q \in installs, NEW r \in installs, Clash(q, r) PROVE q = r
    BY <1>3 DEF OneOpenAssignment
  <2>1. \A a, b \in installs : d[a] = d[b] \/ s[a] = s[b] => a = b
    BY <1>1 DEF Backfilled
  <2>2. dev[q] = d[q] /\ dev[r] = d[r] /\ ser[q] = s[q] /\ ser[r] = s[r]
    BY <1>2
  <2> QED BY <2>1, <2>2 DEF Clash
<1>6. RowsSound
  <2>1. ASSUME NEW x \in Device, pointer[x] # None PROVE x \in registered
    BY <2>1, <1>1, <1>2, ConstantsAssumption DEF Backfilled
  <2> QED BY <2>1, <1>2, ConstantsAssumption DEF Init, RowsSound
<1>7. \A c \in Call : ~ InTx(c)
  BY DEF Init, InTx, Statement
<1>8. \A c \in Call : LocalsSound(c) /\ ClosedSound(c) /\ NulledSound(c) /\ InsertedSound(c)
  BY <1>7 DEF Init, LocalsSound, ClosedSound, NulledSound, InsertedSound, Inserted, InTx, Statement
<1> QED BY InitTyped, <1>4, <1>5, <1>6, <1>8 DEF IInv, InFlight

\* As long as the committed tables and the arguments of committed requests
\* stay as they are, so do the facts about them.
LEMMA TablesKept ==
  ASSUME IInv, UNCHANGED tables,
         \A r \in installs : dev'[r] = dev[r] /\ ser'[r] = ser[r] /\ pc'[r] = pc[r]
  PROVE  PointerMatchesAssignment' /\ OneOpenAssignment' /\ RowsSound'
<1> USE DEF IInv, InFlight, RowsSound, tables
<1>1. installs' = installs /\ installs \subseteq Call /\ \A r : IsOpen(r)' <=> IsOpen(r)
  BY DEF IsOpen, TypeOK
<1>2. PointerMatchesAssignment'
  BY <1>1 DEF PointerMatchesAssignment
<1>3. OneOpenAssignment'
  BY <1>1 DEF OneOpenAssignment, Clash
<1> QED BY <1>1, <1>2, <1>3

\* assign that finds its box in place ends without writing anything.
LEMMA FindCurrentInductive ==
  ASSUME NEW c \in Call, IInv, TypeOK', FindCurrent(c)
  PROVE  IInv'
<1> USE DEF FindCurrent, Release, tables, request
<1>1. PointerMatchesAssignment' /\ OneOpenAssignment' /\ RowsSound'
  BY TablesKept DEF IInv, InFlight, RowsSound, TypeOK, InTx, Statement
<1> USE DEF IInv, InFlight, TypeOK, InTx, Statement, Inserted, Clash, IsOpen
<1>2. ASSUME NEW o \in Call PROVE LocalsSound(o)'
  BY DEF LocalsSound
<1>3. ASSUME NEW o \in Call PROVE ClosedSound(o)'
  BY DEF ClosedSound
<1>4. ASSUME NEW o \in Call PROVE NulledSound(o)'
  BY DEF NulledSound, HoldsDevice
<1>5. ASSUME NEW o \in Call PROVE InsertedSound(o)'
  BY DEF InsertedSound, Duplicates
<1> QED BY <1>1, <1>2, <1>3, <1>4, <1>5

\* hardware.upsert only takes the time stamp of the request.
LEMMA UpsertHardwareInductive ==
  ASSUME NEW c \in Call, IInv, TypeOK', UpsertHardware(c)
  PROVE  IInv'
<1> USE DEF UpsertHardware, Goto, tables, request
<1>1. PointerMatchesAssignment' /\ OneOpenAssignment' /\ RowsSound'
  BY TablesKept DEF IInv, InFlight, RowsSound, TypeOK, InTx, Statement
<1> USE DEF IInv, InFlight, TypeOK, InTx, Statement, Inserted, Clash, IsOpen
<1>2. ASSUME NEW o \in Call PROVE LocalsSound(o)'
  BY DEF LocalsSound
<1>3. ASSUME NEW o \in Call PROVE ClosedSound(o)'
  BY DEF ClosedSound
<1>4. ASSUME NEW o \in Call PROVE NulledSound(o)'
  BY DEF NulledSound, HoldsDevice
<1>5. ASSUME NEW o \in Call PROVE InsertedSound(o)'
  BY DEF InsertedSound, Duplicates
<1> QED BY <1>1, <1>2, <1>3, <1>4, <1>5

\* The rows the first UPDATE matches are committed rows of the request's point.
LEMMA ScanDeviceInductive ==
  ASSUME NEW c \in Call, IInv, TypeOK', ScanDevice(c)
  PROVE  IInv'
<1> USE DEF ScanDevice, ScanAssignments, Goto, tables, request
<1>1. PointerMatchesAssignment' /\ OneOpenAssignment' /\ RowsSound'
  BY TablesKept DEF IInv, InFlight, RowsSound, TypeOK, InTx, Statement
<1> USE DEF IInv, InFlight, TypeOK, InTx, Statement, Inserted, Clash, IsOpen
<1>2. ASSUME NEW o \in Call PROVE LocalsSound(o)'
  BY DEF LocalsSound
<1>3. ASSUME NEW o \in Call PROVE ClosedSound(o)'
  BY DEF ClosedSound
<1>4. ASSUME NEW o \in Call PROVE NulledSound(o)'
  BY DEF NulledSound, HoldsDevice
<1>5. ASSUME NEW o \in Call PROVE InsertedSound(o)'
  BY DEF InsertedSound, Duplicates
<1> QED BY <1>1, <1>2, <1>3, <1>4, <1>5

\* The first UPDATE closes rows that are still open and that nobody else closes.
LEMMA CloseDeviceInductive ==
  ASSUME NEW c \in Call, IInv, TypeOK', CloseDevice(c)
  PROVE  IInv'
<1> USE DEF CloseDevice, ApplyClose, Goto, tables, request
<1>1. PointerMatchesAssignment' /\ OneOpenAssignment' /\ RowsSound'
  BY TablesKept DEF IInv, InFlight, RowsSound, TypeOK, InTx, Statement
<1> USE DEF IInv, InFlight, TypeOK, InTx, Statement, Inserted, Clash, IsOpen
<1>2. ASSUME NEW o \in Call PROVE LocalsSound(o)'
  BY DEF LocalsSound
<1>3. ASSUME NEW o \in Call PROVE ClosedSound(o)'
  <2>1. \A p \in Call \ {c} : todo[c] \cap closed[p] = {}
    BY DEF Blocked, WaitsFor
  <2>2. \A r \in todo[c] : r \in installs /\ Clash(r, c) /\ stamp[c] # Open /\ ser[c] # None
    BY ConstantsAssumption DEF LocalsSound
  <2>3. CASE o = c
    BY <2>1, <2>2, <2>3 DEF ClosedSound
  <2>4. CASE o # c
    BY <2>1, <2>4 DEF ClosedSound
  <2> QED BY <2>3, <2>4
<1>4. ASSUME NEW o \in Call PROVE NulledSound(o)'
  BY DEF NulledSound, HoldsDevice
<1>5. ASSUME NEW o \in Call PROVE InsertedSound(o)'
  BY DEF InsertedSound, Duplicates
<1> QED BY <1>1, <1>2, <1>3, <1>4, <1>5

\* The rows the second UPDATE matches are committed rows of the request's box.
LEMMA ScanSerialInductive ==
  ASSUME NEW c \in Call, IInv, TypeOK', ScanSerial(c)
  PROVE  IInv'
<1> USE DEF ScanSerial, ScanAssignments, Goto, tables, request
<1>1. PointerMatchesAssignment' /\ OneOpenAssignment' /\ RowsSound'
  BY TablesKept DEF IInv, InFlight, RowsSound, TypeOK, InTx, Statement
<1> USE DEF IInv, InFlight, TypeOK, InTx, Statement, Inserted, Clash, IsOpen
<1>2. ASSUME NEW o \in Call PROVE LocalsSound(o)'
  BY DEF LocalsSound
<1>3. ASSUME NEW o \in Call PROVE ClosedSound(o)'
  BY DEF ClosedSound
<1>4. ASSUME NEW o \in Call PROVE NulledSound(o)'
  BY DEF NulledSound, HoldsDevice
<1>5. ASSUME NEW o \in Call PROVE InsertedSound(o)'
  BY DEF InsertedSound, Duplicates
<1> QED BY <1>1, <1>2, <1>3, <1>4, <1>5

\* The second UPDATE does the same; the pointers of its rows are still to clear.
LEMMA CloseSerialInductive ==
  ASSUME NEW c \in Call, IInv, TypeOK', CloseSerial(c)
  PROVE  IInv'
<1> USE DEF CloseSerial, ApplyClose, Goto, tables, request
<1>1. PointerMatchesAssignment' /\ OneOpenAssignment' /\ RowsSound'
  BY TablesKept DEF IInv, InFlight, RowsSound, TypeOK, InTx, Statement
<1> USE DEF IInv, InFlight, TypeOK, InTx, Statement, Inserted, Clash, IsOpen
<1>2. ASSUME NEW o \in Call PROVE LocalsSound(o)'
  BY DEF LocalsSound
<1>3. ASSUME NEW o \in Call PROVE ClosedSound(o)'
  <2>1. \A p \in Call \ {c} : todo[c] \cap closed[p] = {}
    BY DEF Blocked, WaitsFor
  <2>2. \A r \in todo[c] : r \in installs /\ Clash(r, c) /\ stamp[c] # Open /\ ser[c] # None
    BY ConstantsAssumption DEF LocalsSound
  <2>3. CASE o = c
    BY <2>1, <2>2, <2>3 DEF ClosedSound
  <2>4. CASE o # c
    BY <2>1, <2>4 DEF ClosedSound
  <2> QED BY <2>3, <2>4
<1>4. ASSUME NEW o \in Call PROVE NulledSound(o)'
  BY DEF NulledSound, HoldsDevice
<1>5. ASSUME NEW o \in Call PROVE InsertedSound(o)'
  BY DEF InsertedSound, Duplicates
<1> QED BY <1>1, <1>2, <1>3, <1>4, <1>5

\* The points the third UPDATE matches include every one whose row is closed.
LEMMA ScanPointersInductive ==
  ASSUME NEW c \in Call, IInv, TypeOK', ScanPointers(c)
  PROVE  IInv'
<1> USE DEF ScanPointers, Goto, tables, request
<1>1. PointerMatchesAssignment' /\ OneOpenAssignment' /\ RowsSound'
  BY TablesKept DEF IInv, InFlight, RowsSound, TypeOK, InTx, Statement
<1> USE DEF IInv, InFlight, TypeOK, InTx, Statement, Inserted, Clash, IsOpen
<1>2. ASSUME NEW o \in Call PROVE LocalsSound(o)'
  BY DEF LocalsSound
<1>3. ASSUME NEW o \in Call PROVE ClosedSound(o)'
  BY ConstantsAssumption DEF ClosedSound, LocalsSound, PointerMatchesAssignment, RowsSound
<1>4. ASSUME NEW o \in Call PROVE NulledSound(o)'
  BY DEF NulledSound, HoldsDevice
<1>5. ASSUME NEW o \in Call PROVE InsertedSound(o)'
  BY DEF InsertedSound, Duplicates
<1> QED BY <1>1, <1>2, <1>3, <1>4, <1>5

\* The third UPDATE clears pointers to the box whose rows nobody else holds.
LEMMA ClearPointersInductive ==
  ASSUME NEW c \in Call, IInv, TypeOK', ClearPointers(c)
  PROVE  IInv'
<1> USE DEF ClearPointers, Goto, tables, request
<1>1. PointerMatchesAssignment' /\ OneOpenAssignment' /\ RowsSound'
  BY TablesKept DEF IInv, InFlight, RowsSound, TypeOK, InTx, Statement
<1> USE DEF IInv, InFlight, TypeOK, InTx, Statement, Inserted, Clash, IsOpen
<1>2. ASSUME NEW o \in Call PROVE LocalsSound(o)'
  BY DEF LocalsSound
<1>3. ASSUME NEW o \in Call PROVE ClosedSound(o)'
  BY DEF ClosedSound, PointerMatchesAssignment, RowsSound, LocalsSound
<1>4. ASSUME NEW o \in Call PROVE NulledSound(o)'
  BY DEF NulledSound, HoldsDevice, LocalsSound, Blocked, WaitsFor
<1>5. ASSUME NEW o \in Call PROVE InsertedSound(o)'
  BY DEF InsertedSound, Duplicates
<1> QED BY <1>1, <1>2, <1>3, <1>4, <1>5

\* The INSERT succeeds only without a rival, committed or in flight.
LEMMA InsertAssignmentInductive ==
  ASSUME NEW c \in Call, IInv, TypeOK', InsertAssignment(c)
  PROVE  IInv'
<1> USE DEF InsertAssignment, Goto, tables, request
<1>1. PointerMatchesAssignment' /\ OneOpenAssignment' /\ RowsSound'
  BY TablesKept DEF IInv, InFlight, RowsSound, TypeOK, InTx, Statement
<1> USE DEF IInv, InFlight, TypeOK, InTx, Statement, Inserted, Clash, IsOpen
<1>2. ASSUME NEW o \in Call PROVE LocalsSound(o)'
  BY DEF LocalsSound
<1>3. ASSUME NEW o \in Call PROVE ClosedSound(o)'
  BY DEF ClosedSound
<1>4. ASSUME NEW o \in Call PROVE NulledSound(o)'
  BY DEF NulledSound, HoldsDevice, Blocked, WaitsFor
<1>5. ASSUME NEW o \in Call PROVE InsertedSound(o)'
  BY DEF InsertedSound, Duplicates, Blocked, WaitsFor
<1> QED BY <1>1, <1>2, <1>3, <1>4, <1>5

\* A rejected INSERT ends its transaction without effect.
LEMMA RejectDuplicateInductive ==
  ASSUME NEW c \in Call, IInv, TypeOK', RejectDuplicate(c)
  PROVE  IInv'
<1> USE DEF RejectDuplicate, Release, tables, request
<1>1. PointerMatchesAssignment' /\ OneOpenAssignment' /\ RowsSound'
  BY TablesKept DEF IInv, InFlight, RowsSound, TypeOK, InTx, Statement
<1> USE DEF IInv, InFlight, TypeOK, InTx, Statement, Inserted, Clash, IsOpen
<1>2. ASSUME NEW o \in Call PROVE LocalsSound(o)'
  BY DEF LocalsSound
<1>3. ASSUME NEW o \in Call PROVE ClosedSound(o)'
  BY DEF ClosedSound
<1>4. ASSUME NEW o \in Call PROVE NulledSound(o)'
  BY DEF NulledSound, HoldsDevice
<1>5. ASSUME NEW o \in Call PROVE InsertedSound(o)'
  BY DEF InsertedSound, Duplicates
<1> QED BY <1>1, <1>2, <1>3, <1>4, <1>5

\* The last UPDATE is seen by nobody before the commit.
LEMMA SetPointerInductive ==
  ASSUME NEW c \in Call, IInv, TypeOK', SetPointer(c)
  PROVE  IInv'
<1> USE DEF SetPointer, Goto, tables, request
<1>1. PointerMatchesAssignment' /\ OneOpenAssignment' /\ RowsSound'
  BY TablesKept DEF IInv, InFlight, RowsSound, TypeOK, InTx, Statement
<1> USE DEF IInv, InFlight, TypeOK, InTx, Statement, Inserted, Clash, IsOpen
<1>2. ASSUME NEW o \in Call PROVE LocalsSound(o)'
  BY DEF LocalsSound
<1>3. ASSUME NEW o \in Call PROVE ClosedSound(o)'
  BY DEF ClosedSound
<1>4. ASSUME NEW o \in Call PROVE NulledSound(o)'
  BY DEF NulledSound, HoldsDevice
<1>5. ASSUME NEW o \in Call PROVE InsertedSound(o)'
  BY DEF InsertedSound, Duplicates
<1> QED BY <1>1, <1>2, <1>3, <1>4, <1>5

\* A transaction that is rolled back leaves no trace.
LEMMA AbortInductive ==
  ASSUME NEW c \in Call, IInv, TypeOK', Abort(c)
  PROVE  IInv'
<1> USE DEF Abort, Release, tables, request
<1>1. PointerMatchesAssignment' /\ OneOpenAssignment' /\ RowsSound'
  BY TablesKept DEF IInv, InFlight, RowsSound, TypeOK, InTx, Statement
<1> USE DEF IInv, InFlight, TypeOK, InTx, Statement, Inserted, Clash, IsOpen
<1>2. ASSUME NEW o \in Call PROVE LocalsSound(o)'
  BY DEF LocalsSound
<1>3. ASSUME NEW o \in Call PROVE ClosedSound(o)'
  BY DEF ClosedSound
<1>4. ASSUME NEW o \in Call PROVE NulledSound(o)'
  BY DEF NulledSound, HoldsDevice
<1>5. ASSUME NEW o \in Call PROVE InsertedSound(o)'
  BY DEF InsertedSound, Duplicates
<1> QED BY <1>1, <1>2, <1>3, <1>4, <1>5

\* A request that arrives has no locks and has written nothing.
LEMMA StartInductive ==
  ASSUME NEW c \in Call, IInv, TypeOK', Start(c)
  PROVE  IInv'
<1> USE DEF tables, IInv, InFlight, TypeOK, InTx, Statement, Inserted, Clash, IsOpen
<1> DEFINE Begun ==
      /\ pc[c] = "idle" /\ UNCHANGED <<tables, clock, stamp, todo, closed, nulled>>
      /\ \A o \in Call \ {c} : pc'[o] = pc[o] /\ dev'[o] = dev[o] /\ ser'[o] = ser[o]
      /\ \/ pc'[c] = "failed"
         \/ pc'[c] \in {"noop", "upsert"} /\ ser'[c] \in Serial
         \/ pc'[c] = "commit" /\ ser'[c] = None
<1>1. Begun
  <2>1. ASSUME NEW d \in Device, NEW s \in Serial, StartAssign(c, d, s) PROVE Begun
    BY <2>1 DEF StartAssign, Fetch
  <2>2. ASSUME NEW d \in Device, NEW s \in Serial \union {None}, StartCreate(c, d, s)
        PROVE Begun
    BY <2>2 DEF StartCreate, Fetch
  <2> QED BY <2>1, <2>2 DEF Start
<1>2. c \notin installs /\ closed[c] = {} /\ nulled[c] = {}
  <2>1. c \notin installs
    BY <1>1 DEF RowsSound
  <2>2. \A r : r \notin closed[c] /\ r \notin nulled[c]
    BY <1>1 DEF ClosedSound, NulledSound
  <2> QED BY <2>1, <2>2
<1> DEFINE NothingNew == \A p \in Call : Inserted(p)' => p # c /\ Inserted(p)
<1> HIDE DEF NothingNew
<1>a. NothingNew
  BY <1>1 DEF NothingNew
<1>3. PointerMatchesAssignment' /\ OneOpenAssignment' /\ RowsSound'
  BY <1>1, <1>2, TablesKept
<1>4. ASSUME NEW o \in Call PROVE LocalsSound(o)'
  BY <1>1, <1>2 DEF LocalsSound
<1>5. ASSUME NEW o \in Call PROVE ClosedSound(o)'
  BY <1>1, <1>2 DEF ClosedSound
<1>6. ASSUME NEW o \in Call PROVE NulledSound(o)'
  <2>1. ASSUME NEW p \in Call, NEW x \in Device, HoldsDevice(p, x)' PROVE HoldsDevice(p, x)
    BY <1>1, <1>a, <2>1 DEF NothingNew, HoldsDevice
  <2> QED BY <1>1, <1>2, <2>1 DEF NulledSound
<1>7. ASSUME NEW o \in Call PROVE InsertedSound(o)'
  BY <1>1, <1>2 DEF InsertedSound, Duplicates
<1> QED BY <1>3, <1>4, <1>5, <1>6, <1>7

\* The commit is the only step that changes the tables.  Its new row is the
\* only open one of its point and of its box, every pointer it clears belongs
\* to a row it closes, and no pointer it leaves alone names its box.
LEMMA CommitInductive ==
  ASSUME NEW c \in Call, IInv, TypeOK', Commit(c)
  PROVE  IInv'
<1> USE DEF IInv, InFlight, TypeOK, InTx, Statement, Inserted, Clash, IsOpen
<1>1. /\ pc[c] = "commit" /\ pc' = [pc EXCEPT ![c] = "done"]
      /\ c \notin installs /\ UNCHANGED <<dev, ser, stamp>> /\ dev[c] \in Device
      /\ closed' = [closed EXCEPT ![c] = {}] /\ nulled' = [nulled EXCEPT ![c] = {}]
      /\ todo' = [todo EXCEPT ![c] = {}]
  BY DEF Commit, Release, request, RowsSound
<1>2. ASSUME NEW r \in Call
      PROVE  IsOpen(r)' <=> \/ IsOpen(r) /\ r \notin closed[c]
                            \/ r = c /\ ser[c] # None
  <2>1. CASE r \in closed[c]
    BY <1>1, <2>1 DEF Commit, ClosedSound
  <2>2. CASE r \notin closed[c]
    BY <1>1, <2>2 DEF Commit, RowsSound
  <2> QED BY <2>1, <2>2
<1>3. ser[c] # None =>
        /\ ser[c] \in Serial
        /\ \A r \in Call : IsOpen(r) /\ r \notin closed[c] => ~ Clash(r, c)
  BY <1>1 DEF InsertedSound, Duplicates
<1>4. OneOpenAssignment'
  BY <1>1, <1>2, <1>3 DEF OneOpenAssignment
<1>5. ASSUME ser[c] # None, NEW x \in Device, x # dev[c], pointer[x] = ser[c]
      PROVE  x \in nulled[c]
  <2>1. PICK r \in installs : IsOpen(r) /\ dev[r] = x /\ ser[r] = ser[c]
    BY <1>3, <1>5 DEF PointerMatchesAssignment
  <2> QED BY <1>1, <1>3, <1>5, <2>1 DEF ClosedSound
<1>6. PointerMatchesAssignment'
  <2> SUFFICES ASSUME NEW x \in Device, NEW y \in Serial
               PROVE  pointer'[x] = y
                        <=> \E r \in installs' : IsOpen(r)' /\ dev'[r] = x /\ ser'[r] = y
    BY DEF PointerMatchesAssignment
  <2>1. pointer'[x] = IF x = dev[c] /\ ser[c] # None THEN ser[c]
                      ELSE IF x \in nulled[c] THEN None ELSE pointer[x]
    BY DEF Commit
  <2>2. pointer[x] = y <=> \E r \in installs : IsOpen(r) /\ dev[r] = x /\ ser[r] = y
    BY DEF PointerMatchesAssignment
  <2>3. (\E r \in installs' : IsOpen(r)' /\ dev'[r] = x /\ ser'[r] = y)
          <=> \/ \E r \in installs : IsOpen(r) /\ r \notin closed[c] /\ dev[r] = x /\ ser[r] = y
              \/ ser[c] # None /\ dev[c] = x /\ ser[c] = y
    <3>1. \A r : IsOpen(r)' => r \in Call /\ r \in installs'
      OBVIOUS
    <3>2. \A r : IsOpen(r) => r \in Call /\ r \in installs
      OBVIOUS
    <3> HIDE DEF IsOpen
    <3> QED BY <1>1, <1>2, <3>1, <3>2
  <2>4. CASE x = dev[c] /\ ser[c] # None
    BY <1>3, <2>1, <2>3, <2>4
  <2>5. CASE ser[c] = None
    BY <1>1, <2>1, <2>2, <2>3, <2>5, ConstantsAssumption DEF ClosedSound, NulledSound
  <2>6. CASE x # dev[c] /\ ser[c] # None /\ x \in nulled[c]
    BY <1>1, <1>3, <2>1, <2>2, <2>3, <2>6, ConstantsAssumption DEF NulledSound
  <2>7. CASE x # dev[c] /\ ser[c] # None /\ x \notin nulled[c]
    BY <1>1, <1>3, <1>5, <2>1, <2>2, <2>3, <2>7 DEF ClosedSound
  <2> QED BY <2>4, <2>5, <2>6, <2>7
<1>7. RowsSound'
  BY <1>1 DEF Commit, RowsSound, ClosedSound
<1>8. ASSUME NEW o \in Call PROVE LocalsSound(o)'
  BY <1>1 DEF Commit, LocalsSound
<1>9. ASSUME NEW o \in Call PROVE ClosedSound(o)'
  <2>1. CASE o = c
    BY <1>1, <2>1 DEF ClosedSound
  <2>2. CASE o # c
    <3> SUFFICES ASSUME NEW r \in closed[o]
                 PROVE  IsOpen(r)' /\ r \in Call
      BY <1>1, <2>2 DEF ClosedSound
    <3> QED BY <1>2, <2>2 DEF ClosedSound
  <2> QED BY <2>1, <2>2
<1>10. ASSUME NEW o \in Call PROVE NulledSound(o)'
  BY <1>1 DEF Commit, NulledSound, HoldsDevice
<1>11. ASSUME NEW o \in Call PROVE InsertedSound(o)'
  BY <1>1, <1>2 DEF InsertedSound, Duplicates
<1> QED BY <1>4, <1>6, <1>7, <1>8, <1>9, <1>10, <1>11

\* Every step of every request preserves the inductive invariant.
LEMMA StepInductive == IInv /\ [Next]_vars => IInv'
<1> SUFFICES ASSUME IInv, [Next]_vars PROVE IInv'
  OBVIOUS
<1>1. TypeOK'
  BY StepTyped DEF IInv
<1>2. ASSUME NEW c \in Call, Advance(c) PROVE IInv'
  BY <1>1, <1>2, FindCurrentInductive, UpsertHardwareInductive, ScanDeviceInductive,
     CloseDeviceInductive, ScanSerialInductive, CloseSerialInductive,
     ScanPointersInductive, ClearPointersInductive, InsertAssignmentInductive,
     RejectDuplicateInductive, SetPointerInductive, CommitInductive DEF Advance
<1>3. CASE UNCHANGED vars
  <2> USE <1>3 DEF vars, IInv, InFlight
  <2>1. PointerMatchesAssignment' /\ OneOpenAssignment' /\ RowsSound'
    BY DEF PointerMatchesAssignment, OneOpenAssignment, RowsSound, Clash, IsOpen
  <2>2. ASSUME NEW c \in Call
        PROVE  (LocalsSound(c) /\ ClosedSound(c) /\ NulledSound(c) /\ InsertedSound(c))'
    BY DEF LocalsSound, ClosedSound, NulledSound, InsertedSound, InTx, IsOpen, Clash,
           HoldsDevice, Inserted, Duplicates
  <2> QED BY <1>1, <2>1, <2>2
<1> QED BY <1>1, <1>2, <1>3, StartInductive, AbortInductive DEF Next, AbortVictim

\* The inductive invariant holds in every reachable state.
LEMMA Inductive == Spec => []IInv
BY InitInductive, StepInductive, PTL DEF Spec

-----------------------------------------------------------------------------
(* The theorems. *)

\* However many swaps and creations run at once, and wherever one of them is
\* aborted, Devices.serial of every point is the box of its open assignment.
THEOREM PointerSync == Spec => []PointerMatchesAssignment
BY Inductive, PTL DEF IInv

\* What the transactions in flight have locked and written stays as the
\* properties above need it.
THEOREM BookkeepingSound == Spec => []InFlight
BY Inductive, PTL DEF IInv

\* No two open assignments share a point or a box.
THEOREM SingleInstallation == Spec => []OneOpenAssignment
BY Inductive, PTL DEF IInv

\* A transaction that has inserted its assignment is never rejected by the
\* unique index on Devices.serial: the rows it closed name every point that
\* could still hold the box, and it has cleared those.
LEMMA ClearedEnough ==
  ASSUME IInv, NEW c \in Call, Inserted(c)
  PROVE  ~ PointerTaken(c)
<1> USE DEF IInv, InFlight, TypeOK, Inserted
<1> SUFFICES ASSUME NEW x \in Device, x # dev[c], x \notin nulled[c], pointer[x] = ser[c]
             PROVE  FALSE
  BY DEF PointerTaken
<1>1. ser[c] \in Serial
  OBVIOUS
<1>2. PICK r \in installs : IsOpen(r) /\ dev[r] = x /\ ser[r] = ser[c]
  BY <1>1 DEF PointerMatchesAssignment
<1>3. r \in closed[c]
  BY <1>2 DEF InsertedSound, Duplicates, Clash
<1> QED BY <1>2, <1>3 DEF ClosedSound

\* devices_serial_key never rejects the last statement of assign or create.
THEOREM SwapNeverRejectedLate == Spec => []PointerNeverTaken
<1>1. IInv => PointerNeverTaken
  <2> SUFFICES ASSUME IInv, NEW c \in Call, pc[c] = "setPtr" PROVE ~ PointerTaken(c)
    BY DEF PointerNeverTaken
  <2>1. Inserted(c)
    BY ConstantsAssumption DEF IInv, InFlight, LocalsSound, InTx, Statement, Inserted
  <2> QED BY <2>1, ClearedEnough
<1> QED BY <1>1, Inductive, PTL

\* The end of a period that is over is never moved, and no row disappears: a
\* transaction only closes rows that are open until it commits.
THEOREM HistoryFinal == Spec => HistoryIsFinal
<1>1. IInv /\ [Next]_vars => KeepsHistory
  <2> SUFFICES ASSUME IInv, [Next]_vars PROVE KeepsHistory
    OBVIOUS
  <2> USE DEF KeepsHistory
  <2>1. CASE UNCHANGED <<installs, endedAt>>
    BY <2>1
  <2>2. ASSUME NEW c \in Call, Commit(c) PROVE KeepsHistory
    BY <2>2 DEF IInv, InFlight, ClosedSound, TypeOK, Commit
  <2> QED
    BY <2>1, <2>2 DEF Next, vars, tables, Start, StartAssign, StartCreate, Fetch, AbortVictim,
       Abort, Advance, FindCurrent, UpsertHardware, ScanDevice, ScanSerial, ScanAssignments,
       CloseDevice, CloseSerial, ApplyClose, ScanPointers, ClearPointers, InsertAssignment,
       RejectDuplicate, SetPointer
<1> QED BY <1>1, Inductive, PTL DEF Spec, HistoryIsFinal

-----------------------------------------------------------------------------
(* Refinement of InstallRegistry. *)

\* What the two kinds of request know of the point they work on: a swap's point
\* exists; a new point is not there before its creation commits, nobody else
\* creates it, and its creation takes no box away.
KindSound(c) ==
    InTx(c) =>
       IF kind[c] = "create"
       THEN /\ pc[c] \in {"upsert", "insert", "setPtr", "commit"}
            /\ dev[c] \notin registered
            /\ closed[c] = {} /\ nulled[c] = {}
            /\ \A o \in Call \ {c} : InTx(o) /\ kind[o] = "create" => dev[o] # dev[c]
       ELSE dev[c] \in registered /\ ser[c] # None

KindInv == \A c \in Call : KindSound(c)

\* Every step preserves what requests know of the points they work on.
LEMMA KindInductive == IInv /\ KindInv /\ [Next]_vars => KindInv'
<1> SUFFICES ASSUME IInv, KindInv, [Next]_vars PROVE KindInv'
  OBVIOUS
<1> USE DEF KindInv, KindSound, InTx, Statement, IInv, TypeOK, tables, request
<1>1. ASSUME NEW c \in Call, Start(c) PROVE KindInv'
  <2>1. ASSUME NEW d \in Device, NEW s \in Serial, StartAssign(c, d, s) PROVE KindInv'
    BY <2>1, ConstantsAssumption DEF StartAssign, Fetch
  <2>2. ASSUME NEW d \in Device, NEW s \in Serial \union {None}, StartCreate(c, d, s)
        PROVE  KindInv'
    <3>1. closed[c] = {} /\ nulled[c] = {}
      BY <2>2 DEF StartCreate, Fetch, InFlight, ClosedSound, NulledSound
    <3> QED BY <2>2, <3>1 DEF StartCreate, Fetch
  <2> QED BY <1>1, <2>1, <2>2 DEF Start
<1>2. ASSUME NEW c \in Call, Advance(c) PROVE KindInv'
  <2>1. CASE FindCurrent(c) \/ RejectDuplicate(c)
    BY <2>1 DEF FindCurrent, RejectDuplicate, Release
  <2>2. CASE UpsertHardware(c)
    BY <2>2 DEF UpsertHardware, Goto
  <2>3. CASE ScanDevice(c) \/ ScanSerial(c) \/ ScanPointers(c)
    BY <2>3 DEF ScanDevice, ScanSerial, ScanPointers, ScanAssignments, Goto
  <2>4. CASE CloseDevice(c) \/ CloseSerial(c) \/ ClearPointers(c)
    BY <2>4 DEF CloseDevice, CloseSerial, ClearPointers, ApplyClose, Goto
  <2>5. CASE InsertAssignment(c) \/ SetPointer(c)
    BY <2>5 DEF InsertAssignment, SetPointer, Goto
  <2>6. CASE Commit(c)
    BY <2>6 DEF Commit, Release
  <2> QED BY <1>2, <2>1, <2>2, <2>3, <2>4, <2>5, <2>6 DEF Advance
<1>3. ASSUME NEW c \in Call, Abort(c) PROVE KindInv'
  BY <1>3 DEF Abort, Release
<1>4. CASE UNCHANGED vars
  BY <1>4 DEF vars
<1> QED BY <1>1, <1>2, <1>3, <1>4 DEF Next, AbortVictim

\* The commit of a request is one step of the registry: Register,
\* RegisterWith or Install, as the request is.
LEMMA CommitRefines ==
  ASSUME IInv, KindInv, NEW c \in Call, Commit(c)
  PROVE  Registry!RegistryNext
<1> USE DEF IInv, InFlight, TypeOK, Commit, KindInv, KindSound, InTx, Statement
<1>1. dev[c] \in Device
  OBVIOUS
<1>2. CASE ser[c] = None
  <2>1. kind[c] = "create" /\ nulled[c] = {}
    BY <1>2
  <2>2. pointer' = pointer
    BY <1>2, <2>1
  <2>3. Registry!Register(dev[c])
    BY <2>1, <2>2 DEF Registry!Register
  <2> QED BY <1>1, <2>3 DEF Registry!RegistryNext
<1>3. CASE ser[c] # None /\ kind[c] = "create"
  <2>1. ASSUME NEW e \in Device PROVE pointer[e] # ser[c]
    BY <1>3 DEF InsertedSound, Inserted, Duplicates, Clash, PointerMatchesAssignment
  <2>2. pointer' = [pointer EXCEPT ![dev[c]] = ser[c]]
    BY <1>3
  <2>3. Registry!RegisterWith(dev[c], ser[c])
    BY <1>3, <2>1, <2>2 DEF Registry!RegisterWith
  <2> QED BY <1>1, <1>3, <2>3 DEF Registry!RegistryNext
<1>4. CASE ser[c] # None /\ kind[c] # "create"
  <2>1. ASSUME NEW e \in Device, e # dev[c] PROVE e \in nulled[c] <=> pointer[e] = ser[c]
    BY <1>4, <2>1, ClearedEnough DEF PointerTaken, Inserted, NulledSound
  <2>2. Registry!Install(dev[c], ser[c])
    BY <1>4, <2>1 DEF Registry!Install
  <2> QED BY <1>1, <1>4, <2>2 DEF Registry!RegistryNext
<1> QED BY <1>2, <1>3, <1>4

\* assign and create are atomic: every behaviour of their statements, with the
\* aborts and the deadlocks, is a behaviour of InstallRegistry in which each
\* request takes effect at its commit or not at all.
THEOREM RegistryImplemented == Spec => ImplementsRegistry
<1>1. Init => Registry!RegistryInit /\ KindInv
  <2> SUFFICES ASSUME Init PROVE Registry!RegistryInit /\ KindInv
    OBVIOUS
  <2>1. IInv
    BY InitInductive
  <2>2. Registry!RegistryInit
    BY <2>1, ConstantsAssumption
       DEF IInv, InFlight, RowsSound, TypeOK, PointerMatchesAssignment, OneOpenAssignment,
           Clash, Registry!RegistryInit, Registry!RegistryTypeOK
  <2>3. KindInv
    BY DEF Init, KindInv, KindSound, InTx, Statement
  <2> QED BY <2>2, <2>3
<1>2. IInv /\ KindInv /\ [Next]_vars => [Registry!RegistryNext]_(Registry!registryVars)
  <2> SUFFICES ASSUME IInv, KindInv, [Next]_vars
               PROVE  Registry!RegistryNext \/ UNCHANGED <<registered, pointer>>
    BY DEF Registry!registryVars
  <2>1. CASE \E c \in Call : Commit(c)
    BY <2>1, CommitRefines
  <2>2. CASE ~ \E c \in Call : Commit(c)
    BY <2>2 DEF Next, vars, tables, Start, StartAssign, StartCreate, Fetch, AbortVictim,
       Abort, Advance, FindCurrent, UpsertHardware, ScanDevice, ScanSerial, ScanAssignments,
       CloseDevice, CloseSerial, ApplyClose, ScanPointers, ClearPointers, InsertAssignment,
       RejectDuplicate, SetPointer
  <2> QED BY <2>1, <2>2
<1> QED BY <1>1, <1>2, Inductive, KindInductive, PTL
        DEF Spec, ImplementsRegistry, Registry!RegistrySpec

=============================================================================
