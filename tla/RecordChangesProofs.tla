------------------------ MODULE RecordChangesProofs ------------------------
(***************************************************************************)
(* Proofs about RecordChanges, for any releases, rows and requests.        *)
(***************************************************************************)
EXTENDS RecordChanges, TLAPS

-----------------------------------------------------------------------------
(* The steps, by the request that takes them. *)

Acts == {"create", "update", "remove", "adjust"}

\* What routes ask for: a file only comes with a release that is made or updated,
\* and only such an update, or a removal of something else, looks first.
Asked(a, i, f, first) ==
    /\ f => i \in Version /\ a \in {"create", "update"}
    /\ first = "upload" => f
    /\ first = "write" => ~ f
    /\ first = "find" /\ i \in Version => a = "update" /\ f

Asks(o) ==
    \E a \in Acts, i \in Item, f \in BOOLEAN, first \in {"find", "upload", "write"} :
       Ask(o, a, i, f, first) /\ Asked(a, i, f, first)

StepOf(o) == Asks(o) \/ Step(o)

LEMMA NextIsStep == Next => \E o \in Op : StepOf(o)
<1> SUFFICES ASSUME Next PROVE \E o \in Op : StepOf(o)
    OBVIOUS
<1> USE DEF StepOf, Asks, Asked, Acts, Item
<1>0. \A i \in Item : i \in Version => i \notin Point \union Repair \union Warranty
      BY RecordAssumption
<1>1. ASSUME NEW o \in Op, NEW v \in Version, ReleaseRequest(o, v) PROVE Asks(o)
      BY <1>1 DEF ReleaseRequest
<1>2. ASSUME NEW o \in Op, NEW v \in Version, Migrate(o, v) PROVE Asks(o)
      BY <1>2 DEF Migrate
<1>3. ASSUME NEW o \in Op, NEW d \in Point, ConfigRequest(o, d) PROVE Asks(o)
      BY <1>3 DEF ConfigRequest
<1>4. ASSUME NEW o \in Op, NEW r \in Repair, RepairRequest(o, r) PROVE Asks(o)
      BY <1>0, <1>4 DEF RepairRequest
<1>5. ASSUME NEW o \in Op, NEW w \in Warranty, WarrantyRequest(o, w) PROVE Asks(o)
      BY <1>5 DEF WarrantyRequest
<1> HIDE DEF Asks
<1>. QED
      BY <1>1, <1>2, <1>3, <1>4, <1>5 DEF Next

-----------------------------------------------------------------------------
(* Types, and what a request knows at each of its calls. *)

Causes == {"overtaken", "unknown", "kept", "died", "unrecorded"}

WorkTypeOK ==
    /\ act \in [Op -> Acts \union {None}]
    /\ id \in [Op -> Op \union {None}]
    /\ up \in [Op -> BOOLEAN]
    /\ hurt \in [Op -> SUBSET Causes]

\* A request remembers one other file: the previous one of the release it is about.
Remembers(o) ==
    old[o] # None =>
       /\ pc[o] \notin {"idle", "find", "done"}
       /\ item[o] \in Version /\ old[o] \in wrote /\ item[old[o]] = item[o]
       /\ act[o] \in {"update", "remove"} /\ (act[o] = "update" => up[o])

Progress(o) ==
    /\ pc[o] \in {"idle", "find", "upload", "write"} => o \notin wrote
    /\ pc[o] \in {"clean", "emit"} => o \in wrote
    /\ pc[o] = "clean" => old[o] # None
    /\ pc[o] # "idle" => item[o] \in Item /\ act[o] \in Acts
    /\ pc[o] \in {"idle", "done"} => ~ up[o]
    /\ pc[o] \in {"upload", "undo"} => up[o]
    /\ pc[o] = "find" /\ item[o] \in Version => act[o] = "update" /\ up[o]
    /\ up[o] => item[o] \in Version /\ act[o] \in {"create", "update"}
    /\ Remembers(o)

\* The file of a row is that of a request about it whose write committed.
Files ==
    \A i \in Item : row[i] # None /\ row[i].file # None =>
       i \in Version /\ row[i].file \in wrote /\ item[row[i].file] = i

Typed == TypeOK /\ WorkTypeOK /\ Files /\ \A o \in Op : Progress(o)

\* A step moves one request, uploads at most its own file, and commits its write.
LEMMA OthersKept ==
    ASSUME Typed, NEW o \in Op, StepOf(o), NEW p \in Op \ {o}
    PROVE  /\ pc'[p] = pc[p] /\ act'[p] = act[p] /\ item'[p] = item[p] /\ id'[p] = id[p]
           /\ up'[p] = up[p] /\ old'[p] = old[p] /\ trail'[p] = trail[p]
           /\ (p \in wrote' <=> p \in wrote) /\ (p \in fired' <=> p \in fired)
           /\ (p \in stored' => p \in stored)
<1> USE DEF Typed, TypeOK, WorkTypeOK, Goto, Keep, Leave, request, memory, audit
<1>1. CASE Asks(o)
      BY <1>1 DEF Asks, Ask
<1>2. CASE Find(o) \/ Upload(o) \/ WriteFails(o) \/ Emit(o) \/ Record(o) \/ RecordFails(o) \/ Die(o)
      BY <1>2 DEF Find, Upload, WriteFails, Emit, Record, RecordFails, Die
<1>3. CASE Write(o) \/ WriteUnknown(o)
      BY <1>3 DEF Write, WriteUnknown, Put
<1>4. CASE Undo(o) \/ Clean(o)
      BY <1>4 DEF Undo, Clean, DeleteFile
<1>. QED
      BY <1>1, <1>2, <1>3, <1>4 DEF StepOf, Step

\* A request that has written is about the same row from then on.
LEMMA WrittenKept ==
    ASSUME Typed, NEW o \in Op, StepOf(o), NEW k \in wrote
    PROVE  k \in wrote' /\ item'[k] = item[k] /\ k \in Op
<1>0. k \in Op
      BY DEF Typed, TypeOK
<1>1. CASE k # o
      BY <1>0, <1>1, OthersKept
<1>2. CASE k = o
  <2>1. pc[o] # "idle"
        BY <1>2 DEF Typed, Progress
  <2>. QED
       BY <1>0, <1>2, <2>1
       DEF StepOf, Step, Asks, Ask, Find, Upload, Write, WriteUnknown, WriteFails, Put, Undo, Clean,
           DeleteFile, Emit, Record, RecordFails, Die, request
<1>. QED
      BY <1>1, <1>2

LEMMA OthersProgress ==
    ASSUME Typed, NEW o \in Op, StepOf(o), NEW p \in Op \ {o}
    PROVE  Progress(p)'
<1>1. old[p] # None => old[p] \in wrote /\ old[p] \in wrote' /\ item'[old[p]] = item[old[p]]
      BY WrittenKept DEF Typed, Progress, Remembers
<1>2. Remembers(p)'
      BY <1>1, OthersKept DEF Typed, Progress, Remembers
<1>. QED
      BY <1>2, OthersKept DEF Typed, Progress

\* What a write leaves in the table.
LEMMA PutDoes ==
    ASSUME Typed, NEW o \in Op, Put(o)
    PROVE  /\ pc[o] = "write" /\ item[o] \in Item /\ o \notin wrote /\ act[o] \in Acts
           /\ row' \in [Item -> Row \union {None}]
           /\ \A j \in Item \ {item[o]} : row'[j] = row[j]
           /\ act[o] = "create" <=> row[item[o]] = None
           /\ act[o] = "remove" <=> row'[item[o]] = None
           /\ act[o] # "remove" => row'[item[o]].file =
                 IF up[o] THEN o ELSE IF act[o] = "create" THEN None ELSE row[item[o]].file
           /\ wrote' = wrote \union {o} /\ UNCHANGED <<stored, request, audit>>
<1>1. pc[o] = "write" /\ item[o] \in Item /\ o \notin wrote /\ act[o] \in Acts
      BY DEF Typed, Progress, Put
<1>2. PICK i \in Item : i = item[o]
      BY <1>1
<1>3. row[i] \in Row \union {None} /\ None \notin Row
      BY RecordAssumption DEF Typed, TypeOK
<1>4. row' = [row EXCEPT ![i] = After(o)] /\ Accepted(o)
      BY <1>2 DEF Put
<1>5. act[o] = "create" <=> row[i] = None
      BY <1>1, <1>2, <1>4 DEF Accepted, Found
<1> DEFINE now == row[i]
<1> DEFINE file == IF up[o] THEN o ELSE None
<1>6. CASE act[o] = "create"
  <2>1. After(o) = [made |-> o, file |-> file]
        BY <1>6 DEF After
  <2>2. After(o) \in Row /\ After(o).file = file
        BY <2>1 DEF Row
  <2>. QED
       BY <1>1, <1>2, <1>3, <1>4, <1>5, <1>6, <2>2 DEF Put, Typed, TypeOK
<1>7. CASE act[o] \in {"update", "adjust"}
  <2>1. now \in Row
        BY <1>3, <1>5, <1>7
  <2>2. After(o) = IF up[o] THEN [now EXCEPT !.file = o] ELSE now
        BY <1>2, <1>7 DEF After
  <2> HIDE DEF now
  <2>3. After(o) \in Row /\ After(o).file = IF up[o] THEN o ELSE now.file
        BY <2>1, <2>2 DEF Row
  <2>. QED
       BY <1>1, <1>2, <1>3, <1>4, <1>5, <1>7, <2>3 DEF Put, Typed, TypeOK, now
<1>8. CASE act[o] = "remove"
  <2>1. After(o) = None
        BY <1>8 DEF After
  <2>. QED
       BY <1>1, <1>2, <1>3, <1>4, <1>5, <1>8, <2>1 DEF Put, Typed, TypeOK
<1>. QED
      BY <1>1, <1>6, <1>7, <1>8 DEF Acts

-----------------------------------------------------------------------------
(* Type correctness. *)

Places == {"idle", "find", "upload", "write", "undo", "clean", "emit", "done"}

\* A request that is over forgets what it brought and what it remembered.
LEMMA LeaveTyped ==
    ASSUME Typed, NEW o \in Op, Leave(o), pc[o] # "idle",
           UNCHANGED request, o \in wrote => o \in wrote'
    PROVE  /\ pc' \in [Op -> Places] /\ id' \in [Op -> Op \union {None}]
           /\ up' \in [Op -> BOOLEAN] /\ old' \in [Op -> Op \union {None}]
           /\ Progress(o)'
<1>1. /\ pc' \in [Op -> Places] /\ id' \in [Op -> Op \union {None}]
      /\ up' \in [Op -> BOOLEAN] /\ old' \in [Op -> Op \union {None}]
      /\ pc'[o] = "done" /\ up'[o] = FALSE /\ old'[o] = None
      BY DEF Leave, Goto, Typed, TypeOK, WorkTypeOK, Places
<1>. QED
      BY <1>1 DEF Progress, Remembers, Typed, request

\* A request goes on, with what it has.
LEMMA KeepTyped ==
    ASSUME Typed, NEW o \in Op, NEW l \in Places, Keep(o, l)
    PROVE  /\ pc' \in [Op -> Places] /\ id' \in [Op -> Op \union {None}]
           /\ up' \in [Op -> BOOLEAN] /\ old' \in [Op -> Op \union {None}]
           /\ pc'[o] = l /\ up' = up /\ old' = old
BY DEF Keep, Goto, memory, Typed, TypeOK, WorkTypeOK, Places

\* What is known of files that are lost or left over only grows.
LEMMA HurtTyped ==
    ASSUME Typed, NEW k \in Op, NEW c \in Causes, Hurt(k, c)
    PROVE  /\ hurt' \in [Op -> SUBSET Causes] /\ hurt'[k] = hurt[k] \union {c}
           /\ \A j \in Op \ {k} : hurt'[j] = hurt[j]
BY DEF Hurt, Typed, WorkTypeOK

LEMMA AskTyped ==
    ASSUME Typed, NEW o \in Op, Asks(o)
    PROVE  TypeOK' /\ WorkTypeOK' /\ Progress(o)'
<1>1. PICK a \in Acts, i \in Item, f \in BOOLEAN, first \in {"find", "upload", "write"} :
         Ask(o, a, i, f, first) /\ Asked(a, i, f, first)
      BY DEF Asks
<1>2. /\ pc[o] = "idle" /\ pc' = [pc EXCEPT ![o] = first]
      /\ act' = [act EXCEPT ![o] = a] /\ item' = [item EXCEPT ![o] = i]
      /\ up' = [up EXCEPT ![o] = f]
      /\ id' = [id EXCEPT ![o] = IF row[i] = None THEN None ELSE row[i].made]
      /\ UNCHANGED <<row, stored, old, wrote, fired, trail, hurt>>
      BY <1>1 DEF Ask, Goto, audit
<1>3. row[i] # None => row[i].made \in Op
      BY DEF Typed, TypeOK, Row
<1>4. WorkTypeOK'
      BY <1>2, <1>3 DEF Typed, WorkTypeOK
<1>5. TypeOK'
      BY <1>2 DEF Typed, TypeOK
<1>6. /\ pc'[o] = first /\ act'[o] = a /\ item'[o] = i /\ up'[o] = f /\ old'[o] = old[o]
      /\ wrote' = wrote
      BY <1>2 DEF Typed, TypeOK, WorkTypeOK
<1>7. o \notin wrote /\ old[o] = None
      BY <1>2 DEF Typed, Progress, Remembers
<1>. QED
      BY <1>1, <1>4, <1>5, <1>6, <1>7 DEF Progress, Remembers, Asked

LEMMA FindTyped ==
    ASSUME Typed, NEW o \in Op, Find(o)
    PROVE  TypeOK' /\ WorkTypeOK' /\ Progress(o)'
<1>1. pc[o] = "find" /\ UNCHANGED <<row, stored, act, item, wrote, fired, trail, hurt>>
      BY DEF Find, request, audit
<1>2. CASE ~ Found(o)
  <2>1. Leave(o)
        BY <1>2 DEF Find
  <2>. QED
       BY <1>1, <2>1, LeaveTyped DEF Typed, TypeOK, WorkTypeOK, request, Places
<1>3. CASE Found(o)
  <2>1. item[o] \in Item /\ act[o] \in Acts /\ o \notin wrote
        BY <1>1 DEF Typed, Progress
  <2>2. PICK i \in Item : i = item[o]
        BY <2>1
  <2>3. row[i] # None /\ row[i].file \in Op \union {None}
        BY <1>3, <2>2 DEF Found, Typed, TypeOK, Row
  <2>4. /\ old' = [old EXCEPT ![o] = row[i].file]
        /\ pc' = [pc EXCEPT ![o] = IF up[o] THEN "upload" ELSE "write"] /\ UNCHANGED <<id, up>>
        BY <1>3, <2>2 DEF Find, Goto
  <2>5. TypeOK' /\ WorkTypeOK'
        BY <1>1, <2>3, <2>4 DEF Typed, TypeOK, WorkTypeOK
  <2>6. old'[o] = row[i].file /\ pc'[o] \in {"upload", "write"} /\ (pc'[o] = "upload" => up[o])
        BY <2>4 DEF Typed, TypeOK
  <2>7. row[i].file # None => i \in Version /\ row[i].file \in wrote /\ item[row[i].file] = i
        BY <2>3 DEF Typed, Files
  <2>8. Remembers(o)'
        BY <1>1, <2>2, <2>4, <2>6, <2>7 DEF Remembers, Typed, Progress
  <2>. QED
       BY <1>1, <2>1, <2>4, <2>5, <2>6, <2>8 DEF Progress, Typed
<1>. QED
      BY <1>2, <1>3

LEMMA WriteTyped ==
    ASSUME Typed, NEW o \in Op, StepOf(o), Write(o)
    PROVE  TypeOK' /\ WorkTypeOK' /\ Progress(o)'
<1>1. Put(o)
      BY DEF Write
<1>2. PICK i \in Item : i = item[o]
      BY <1>1, PutDoes
<1>3. /\ pc[o] = "write" /\ o \notin wrote /\ act[o] \in Acts
      /\ row' \in [Item -> Row \union {None}] /\ (act[o] = "create" <=> row[i] = None)
      /\ wrote' = wrote \union {o} /\ UNCHANGED <<stored, act, item, fired, trail>>
      BY <1>1, <1>2, PutDoes DEF request, audit
<1>4. /\ old' = IF act[o] = "remove" THEN [old EXCEPT ![o] = row[i].file] ELSE old
      /\ pc' = [pc EXCEPT ![o] = IF old'[o] = None THEN "emit" ELSE "clean"]
      /\ UNCHANGED <<id, up>>
      /\ hurt' = [k \in Op |-> IF k \in Overtaken(o) THEN hurt[k] \union {"overtaken"} ELSE hurt[k]]
      BY <1>2 DEF Write, Goto
<1>5. row[i] # None => /\ row[i].file \in Op \union {None}
                       /\ row[i].file # None => i \in Version /\ row[i].file \in wrote
                                                /\ item[row[i].file] = i
      BY DEF Typed, TypeOK, Row, Files
<1>6. old' \in [Op -> Op \union {None}]
      BY <1>3, <1>4, <1>5 DEF Typed, TypeOK
<1>7. pc' \in [Op -> Places] /\ pc'[o] \in {"emit", "clean"}
      BY <1>4 DEF Typed, TypeOK, Places
<1>8. hurt' \in [Op -> SUBSET Causes]
      BY <1>4 DEF Typed, WorkTypeOK, Causes
<1>9. TypeOK' /\ WorkTypeOK'
      BY <1>3, <1>4, <1>6, <1>7, <1>8 DEF Typed, TypeOK, WorkTypeOK, Places
<1>10. Remembers(o)'
  <2>1. CASE act[o] = "remove"
    <3>1. old'[o] = row[i].file
          BY <1>4, <2>1 DEF Typed, TypeOK
    <3>. QED
         BY <1>2, <1>3, <1>5, <1>7, <2>1, <3>1 DEF Remembers
  <2>2. CASE act[o] # "remove"
        BY <1>3, <1>4, <1>7, <2>2 DEF Remembers, Typed, Progress
  <2>. QED
       BY <2>1, <2>2
<1>. QED
      BY <1>2, <1>3, <1>4, <1>7, <1>9, <1>10 DEF Progress, Typed

LEMMA WriteUnknownTyped ==
    ASSUME Typed, NEW o \in Op, WriteUnknown(o)
    PROVE  TypeOK' /\ WorkTypeOK' /\ Progress(o)'
<1>1. Put(o)
      BY DEF WriteUnknown
<1>2. /\ pc[o] = "write" /\ o \notin wrote /\ row' \in [Item -> Row \union {None}]
      /\ wrote' = wrote \union {o} /\ UNCHANGED <<stored, act, item, fired, trail>>
      BY <1>1, PutDoes DEF request, audit
<1>3. hurt' \in [Op -> SUBSET Causes]
      BY DEF WriteUnknown, Typed, WorkTypeOK, Causes
<1>4. CASE up[o]
  <2>1. Keep(o, "undo")
        BY <1>4 DEF WriteUnknown
  <2>2. /\ pc' \in [Op -> Places] /\ id' \in [Op -> Op \union {None}]
        /\ up' \in [Op -> BOOLEAN] /\ old' \in [Op -> Op \union {None}]
        /\ pc'[o] = "undo" /\ up' = up /\ old' = old
        BY <2>1, KeepTyped DEF Places
  <2>3. Progress(o)'
        BY <1>2, <1>4, <2>2 DEF Progress, Remembers, Typed
  <2>. QED
       BY <1>2, <1>3, <2>2, <2>3 DEF Typed, TypeOK, WorkTypeOK, Places
<1>5. CASE ~ up[o]
  <2>1. Leave(o)
        BY <1>5 DEF WriteUnknown
  <2>. QED
       BY <1>2, <1>3, <2>1, LeaveTyped DEF Typed, TypeOK, WorkTypeOK, Places, request
<1>. QED
      BY <1>4, <1>5 DEF Typed, WorkTypeOK

\* Deleting a file.
LEMMA DeleteTyped ==
    ASSUME Typed, NEW k \in Op, DeleteFile(k)
    PROVE  /\ stored' \subseteq Op /\ hurt' \in [Op -> SUBSET Causes]
           /\ stored' = stored \/ stored' = stored \ {k}
           /\ \A j \in Op \ {k} : hurt'[j] = hurt[j]
           /\ hurt[k] \subseteq hurt'[k] /\ (k \notin stored' \/ hurt'[k] # {})
           /\ UNCHANGED <<row, act, item, wrote, fired, trail>>
<1>1. UNCHANGED <<row, act, item, wrote, fired, trail>>
      BY DEF DeleteFile, request, audit
<1>2. CASE stored' = stored \ {k} /\ UNCHANGED hurt
      BY <1>1, <1>2 DEF Typed, TypeOK, WorkTypeOK
<1>3. CASE Hurt(k, "kept") /\ UNCHANGED stored
      BY <1>1, <1>3, HurtTyped DEF Typed, TypeOK, Causes
<1>. QED
      BY <1>2, <1>3 DEF DeleteFile

LEMMA OtherTyped ==
    ASSUME Typed, NEW o \in Op,
           \/ Upload(o) \/ WriteFails(o) \/ Undo(o) \/ Clean(o) \/ Emit(o)
           \/ Record(o) \/ RecordFails(o) \/ Die(o)
    PROVE  TypeOK' /\ WorkTypeOK' /\ Progress(o)'
<1> USE DEF Places
<1>1. CASE Upload(o)
  <2>1. /\ pc[o] = "upload" /\ Keep(o, "write") /\ stored' = stored \union {o}
        /\ UNCHANGED <<row, act, item, wrote, fired, trail, hurt>>
        BY <1>1 DEF Upload, request, audit
  <2>2. /\ pc' \in [Op -> Places] /\ id' \in [Op -> Op \union {None}]
        /\ up' \in [Op -> BOOLEAN] /\ old' \in [Op -> Op \union {None}]
        /\ pc'[o] = "write" /\ up' = up /\ old' = old
        BY <2>1, KeepTyped
  <2>3. Progress(o)'
        BY <2>1, <2>2 DEF Progress, Remembers, Typed
  <2>. QED
       BY <2>1, <2>2, <2>3 DEF Typed, TypeOK, WorkTypeOK
<1>2. CASE WriteFails(o)
  <2>1. pc[o] = "write" /\ UNCHANGED <<row, stored, act, item, wrote, fired, trail, hurt>>
        BY <1>2 DEF WriteFails, request, audit
  <2>2. CASE up[o]
    <3>1. /\ pc' \in [Op -> Places] /\ id' \in [Op -> Op \union {None}]
          /\ up' \in [Op -> BOOLEAN] /\ old' \in [Op -> Op \union {None}]
          /\ pc'[o] = "undo" /\ up' = up /\ old' = old
          BY <1>2, <2>2, KeepTyped DEF WriteFails
    <3>2. Progress(o)'
          BY <2>1, <2>2, <3>1 DEF Progress, Remembers, Typed
    <3>. QED
         BY <2>1, <3>1, <3>2 DEF Typed, TypeOK, WorkTypeOK
  <2>3. CASE ~ up[o]
        BY <1>2, <2>1, <2>3, LeaveTyped DEF WriteFails, Typed, TypeOK, WorkTypeOK, request
  <2>. QED
       BY <2>2, <2>3 DEF Typed, WorkTypeOK
<1>3. CASE Undo(o)
  <2>1. pc[o] = "undo" /\ DeleteFile(o) /\ Leave(o)
        BY <1>3 DEF Undo
  <2>2. /\ stored' \subseteq Op /\ hurt' \in [Op -> SUBSET Causes]
        /\ UNCHANGED <<row, act, item, wrote, fired, trail>>
        BY <2>1, DeleteTyped
  <2>. QED
       BY <2>1, <2>2, LeaveTyped DEF Typed, TypeOK, WorkTypeOK, request
<1>4. CASE Clean(o)
  <2>1. pc[o] = "clean" /\ DeleteFile(old[o]) /\ Keep(o, "emit")
        BY <1>4 DEF Clean
  <2>2. CASE old[o] # None
    <3>1. PICK k \in Op : k = old[o]
          BY <2>2 DEF Typed, TypeOK
    <3>2. /\ stored' \subseteq Op /\ hurt' \in [Op -> SUBSET Causes]
          /\ UNCHANGED <<row, act, item, wrote, fired, trail>>
          BY <2>1, <3>1, DeleteTyped
    <3>3. /\ pc' \in [Op -> Places] /\ id' \in [Op -> Op \union {None}]
          /\ up' \in [Op -> BOOLEAN] /\ old' \in [Op -> Op \union {None}]
          /\ pc'[o] = "emit" /\ up' = up /\ old' = old
          BY <2>1, KeepTyped
    <3>4. Progress(o)'
          BY <2>1, <3>2, <3>3 DEF Progress, Remembers, Typed
    <3>. QED
         BY <3>2, <3>3, <3>4 DEF Typed, TypeOK, WorkTypeOK
  <2>. QED
       BY <2>1, <2>2 DEF Typed, Progress
<1>5. CASE Emit(o)
  <2>1. /\ pc[o] = "emit" /\ Leave(o) /\ fired' \subseteq fired \union {o}
        /\ UNCHANGED <<row, stored, act, item, wrote, trail, hurt>>
        BY <1>5 DEF Emit, request
  <2>2. o \in wrote
        BY <2>1 DEF Typed, Progress
  <2>. QED
       BY <2>1, <2>2, LeaveTyped DEF Typed, TypeOK, WorkTypeOK, request
<1>6. CASE Record(o)
  <2>1. /\ fired' = fired \ {o} /\ trail' = [trail EXCEPT ![o] = @ + 1]
        /\ UNCHANGED <<row, stored, pc, act, item, id, up, old, wrote, hurt>>
        BY <1>6 DEF Record, request, memory
  <2>2. trail[o] + 1 \in Nat
        BY DEF Typed, TypeOK
  <2>3. trail' \in [Op -> Nat]
        BY <2>1, <2>2 DEF Typed, TypeOK
  <2>. QED
       BY <2>1, <2>3 DEF Typed, TypeOK, WorkTypeOK, Progress, Remembers
<1>7. CASE RecordFails(o)
  <2>1. /\ fired' = fired \ {o} /\ Hurt(o, "unrecorded")
        /\ UNCHANGED <<row, stored, pc, act, item, id, up, old, wrote, trail>>
        BY <1>7 DEF RecordFails, request, memory
  <2>2. hurt' \in [Op -> SUBSET Causes]
        BY <2>1, HurtTyped DEF Causes
  <2>. QED
       BY <2>1, <2>2 DEF Typed, TypeOK, WorkTypeOK, Progress, Remembers
<1>8. CASE Die(o)
  <2>1. /\ pc[o] # "idle" /\ Leave(o) /\ UNCHANGED <<row, stored, act, item, wrote, fired, trail>>
        BY <1>8 DEF Die, request, audit
  <2>2. hurt' \in [Op -> SUBSET Causes]
        BY <1>8 DEF Die, Typed, WorkTypeOK, Causes
  <2>. QED
       BY <2>1, <2>2, LeaveTyped DEF Typed, TypeOK, WorkTypeOK, request
<1>. QED
      BY <1>1, <1>2, <1>3, <1>4, <1>5, <1>6, <1>7, <1>8

LEMMA FilesKept ==
    ASSUME Typed, NEW o \in Op, StepOf(o)
    PROVE  Files'
<1>1. CASE row' = row
  <2> SUFFICES ASSUME NEW i \in Item, row[i] # None, row[i].file # None
               PROVE  i \in Version /\ row[i].file \in wrote' /\ item'[row[i].file] = i
      BY <1>1 DEF Files
  <2>1. i \in Version /\ row[i].file \in wrote /\ item[row[i].file] = i
        BY DEF Typed, Files
  <2>. QED
       BY <2>1, WrittenKept
<1>2. CASE Put(o)
  <2>1. PICK i \in Item : i = item[o]
        BY <1>2, PutDoes
  <2>2. o \in wrote' /\ item' = item
        BY <1>2, PutDoes DEF request
  <2>3. ASSUME NEW j \in Item, row'[j] # None, row'[j].file # None
        PROVE  j \in Version /\ row'[j].file \in wrote' /\ item[row'[j].file] = j
    <3>1. CASE row[j] # None /\ row'[j].file = row[j].file
      <4>1. j \in Version /\ row[j].file \in wrote /\ item[row[j].file] = j
            BY <2>3, <3>1 DEF Typed, Files
      <4>. QED
           BY <3>1, <4>1, WrittenKept
    <3>2. CASE j = i /\ up[o] /\ row'[j].file = o
          BY <2>1, <2>2, <3>2 DEF Typed, Progress
    <3>3. j # i => row[j] # None /\ row'[j].file = row[j].file
          BY <1>2, <2>1, <2>3, PutDoes
    <3>4. j = i => \/ up[o] /\ row'[j].file = o
                   \/ row[j] # None /\ row'[j].file = row[j].file
          BY <1>2, <2>1, <2>3, PutDoes
    <3>. QED
         BY <3>1, <3>2, <3>3, <3>4
  <2>. QED
       BY <2>2, <2>3 DEF Files
<1>3. row' = row \/ Put(o)
      BY DEF StepOf, Step, Asks, Ask, Find, Upload, Write, WriteUnknown, WriteFails, Undo, Clean,
             DeleteFile, Emit, Record, RecordFails, Die
<1>. QED
      BY <1>1, <1>2, <1>3

LEMMA StepTyped ==
    ASSUME Typed, NEW o \in Op, StepOf(o)
    PROVE  Typed'
<1>1. TypeOK' /\ WorkTypeOK' /\ Progress(o)'
      BY AskTyped, FindTyped, WriteTyped, WriteUnknownTyped, OtherTyped DEF StepOf, Step
<1>. QED
      BY <1>1, FilesKept, OthersProgress DEF Typed

LEMMA InitTyped == Init => Typed
<1> SUFFICES ASSUME Init PROVE Typed
    OBVIOUS
<1>1. TypeOK /\ WorkTypeOK
      BY DEF Init, TypeOK, WorkTypeOK
<1>2. Files
      BY DEF Init, Files
<1>3. \A o \in Op : Progress(o)
      BY DEF Init, Progress, Remembers
<1>. QED
      BY <1>1, <1>2, <1>3 DEF Typed

LEMMA NextTyped == Typed /\ [Next]_vars => Typed'
<1>1. ASSUME Typed, UNCHANGED vars PROVE Typed'
      BY <1>1 DEF vars, request, memory, audit, Typed, TypeOK, WorkTypeOK, Files, Progress, Remembers
<1>. QED
      BY <1>1, NextIsStep, StepTyped

\* The type invariant, for any releases, rows and requests.
THEOREM TypeCorrect == Spec => []TypeOK
<1>1. Typed => TypeOK
      BY DEF Typed
<1>. QED
      BY <1>1, InitTyped, NextTyped, PTL DEF Spec

-----------------------------------------------------------------------------
(* The files of the releases. *)

\* What is in the bucket, by what the request that uploads the file does next; a
\* file that is being removed is one no release refers to.
Bucket(k) ==
    /\ pc[k] \in {"idle", "find", "upload"} => k \notin stored
    /\ pc[k] = "write" => (k \in stored <=> up[k])
    /\ pc[k] = "undo" => k \notin wrote \/ "unknown" \in hurt[k]
    /\ pc[k] = "clean" => ~ Using(old[k])

Downloadable(k) == Using(k) /\ k \notin stored => "unknown" \in hurt[k]

Cleans(o, k) == pc[o] = "clean" /\ old[o] = k

Explained(k) ==
    k \in stored => \/ Using(k) \/ hurt[k] # {}
                    \/ pc[k] \in {"write", "undo"}
                    \/ \E o \in Op : Cleans(o, k)

Stock == \A k \in Op : Bucket(k) /\ Downloadable(k) /\ Explained(k)

\* A write puts its own file in the place of another.
LEMMA PutUses ==
    ASSUME Typed, NEW o \in Op, Put(o), NEW k \in Op
    PROVE  /\ Using(k)' => Using(k) \/ (k = o /\ up[o])
           /\ up[o] => Using(o)'
           /\ Using(k) /\ ~ Using(k)' =>
                 row[item[o]] # None /\ row[item[o]].file = k /\ (act[o] = "remove" \/ up[o])
           /\ k # o /\ row[item[o]] # None /\ row[item[o]].file = k /\ (act[o] = "remove" \/ up[o])
                 => ~ Using(k)'
<1>1. PICK i \in Item : i = item[o]
      BY PutDoes
<1>2. /\ \A j \in Item \ {i} : row'[j] = row[j]
      /\ act[o] = "create" <=> row[i] = None
      /\ act[o] = "remove" <=> row'[i] = None
      /\ act[o] # "remove" => row'[i].file =
            IF up[o] THEN o ELSE IF act[o] = "create" THEN None ELSE row[i].file
      BY <1>1, PutDoes
<1>3. up[o] => i \in Version /\ act[o] # "remove"
      BY <1>1 DEF Typed, Progress
<1>4. k # None /\ Version \subseteq Item
      BY RecordAssumption DEF Item
<1>5. Using(k)' => Using(k) \/ (k = o /\ up[o])
  <2> SUFFICES ASSUME NEW v \in Version, row'[v] # None, row'[v].file = k
               PROVE  Using(k) \/ (k = o /\ up[o])
      BY DEF Using
  <2>1. CASE v # i
        BY <1>2, <1>4, <2>1 DEF Using
  <2>2. CASE v = i
        BY <1>2, <1>4, <2>2 DEF Using
  <2>. QED
       BY <2>1, <2>2
<1>6. up[o] => Using(o)'
      BY <1>2, <1>3 DEF Using
<1>7. Using(k) /\ ~ Using(k)' => row[i] # None /\ row[i].file = k /\ (act[o] = "remove" \/ up[o])
      BY <1>2, <1>4 DEF Using
<1>8. ASSUME k # o, row[i] # None, row[i].file = k, act[o] = "remove" \/ up[o], Using(k)'
      PROVE  FALSE
  <2>1. PICK v \in Version : row'[v] # None /\ row'[v].file = k
        BY <1>8 DEF Using
  <2>2. v # i
        BY <1>2, <1>3, <1>8, <2>1
  <2>3. row[v] # None /\ row[v].file = k
        BY <1>2, <1>4, <2>1, <2>2
  <2>. QED
       BY <1>4, <1>8, <2>2, <2>3 DEF Typed, Files
<1>. QED
      BY <1>1, <1>5, <1>6, <1>7, <1>8

LEMMA UsedIsWritten ==
    ASSUME Typed, NEW k \in Op, Using(k)
    PROVE  k \in wrote
BY RecordAssumption DEF Using, Typed, Files, Item

LEMMA UsingKept ==
    ASSUME row' = row
    PROVE  \A k \in Op : Using(k)' <=> Using(k)
BY DEF Using

\* What any step does to the bucket and to what is known of it.
LEMMA Effects ==
    ASSUME Typed, NEW o \in Op, StepOf(o), NEW k \in Op
    PROVE  /\ hurt[k] \subseteq hurt'[k]
           /\ k \in stored /\ k \notin stored' =>
                 (k = o /\ pc[o] = "undo") \/ Cleans(o, k)
           /\ k \in wrote /\ Using(k)' => Using(k)
<1>1. CASE Asks(o) \/ Find(o) \/ Emit(o) \/ Record(o)
  <2>1. UNCHANGED <<hurt, stored, row>>
        BY <1>1 DEF Asks, Ask, Find, Emit, Record
  <2>. QED
       BY <2>1 DEF Using
<1>2. CASE Upload(o) \/ WriteFails(o)
  <2>1. UNCHANGED <<hurt, row>> /\ stored \subseteq stored'
        BY <1>2 DEF Upload, WriteFails
  <2>. QED
       BY <2>1 DEF Using
<1>3. CASE Write(o) \/ WriteUnknown(o)
  <2>1. Put(o)
        BY <1>3 DEF Write, WriteUnknown
  <2>2. stored' = stored /\ o \notin wrote
        BY <2>1, PutDoes
  <2>3. hurt[k] \subseteq hurt'[k]
        BY <1>3 DEF Write, WriteUnknown
  <2>. QED
       BY <2>1, <2>2, <2>3, PutUses
<1>4. CASE Undo(o)
  <2>1. pc[o] = "undo" /\ DeleteFile(o)
        BY <1>4 DEF Undo
  <2>. QED
       BY <2>1, DeleteTyped, UsingKept
<1>5. CASE Clean(o)
  <2>1. pc[o] = "clean" /\ DeleteFile(old[o])
        BY <1>5 DEF Clean
  <2>2. PICK j \in Op : j = old[o]
        BY <2>1 DEF Typed, Progress, TypeOK
  <2>. QED
       BY <2>1, <2>2, DeleteTyped, UsingKept DEF Cleans
<1>6. CASE RecordFails(o)
  <2>1. Hurt(o, "unrecorded") /\ UNCHANGED <<stored, row>>
        BY <1>6 DEF RecordFails
  <2>2. hurt[k] \subseteq hurt'[k]
        BY <2>1, HurtTyped DEF Causes
  <2>. QED
       BY <2>1, <2>2, UsingKept
<1>7. CASE Die(o)
  <2>1. hurt[k] \subseteq hurt'[k] /\ UNCHANGED <<stored, row>>
        BY <1>7 DEF Die
  <2>. QED
       BY <2>1, UsingKept
<1>. QED
      BY <1>1, <1>2, <1>3, <1>4, <1>5, <1>6, <1>7 DEF StepOf, Step

LEMMA OthersBucket ==
    ASSUME Typed, Stock, NEW o \in Op, StepOf(o), NEW k \in Op \ {o}
    PROVE  Bucket(k)'
<1>1. /\ pc'[k] = pc[k] /\ up'[k] = up[k] /\ old'[k] = old[k]
      /\ (k \in wrote' <=> k \in wrote) /\ (k \in stored' => k \in stored)
      BY OthersKept
<1>2. Bucket(k) /\ hurt[k] \subseteq hurt'[k]
      BY Effects DEF Stock
<1>3. CASE pc[k] = "clean"
  <2>1. PICK j \in Op : j = old[k]
        BY <1>3 DEF Typed, Progress, TypeOK
  <2>2. j \in wrote /\ ~ Using(j)
        BY <1>2, <1>3, <2>1, RecordAssumption DEF Bucket, Typed, Progress, Remembers
  <2>3. ~ Using(j)'
        BY <2>2, Effects
  <2>4. Using(old[k])' <=> Using(j)'
        BY <1>1, <2>1 DEF Using
  <2>. QED
       BY <1>1, <1>3, <2>3, <2>4 DEF Bucket
<1>4. CASE pc[k] = "write"
  <2>1. k \in stored => k \in stored'
    <3>1. k \notin wrote
          BY <1>4 DEF Typed, Progress
    <3>2. ~ Cleans(o, k)
          BY <3>1, RecordAssumption DEF Cleans, Typed, Progress, Remembers
    <3>. QED
         BY <3>2, Effects
  <2>. QED
       BY <1>1, <1>2, <1>4, <2>1 DEF Bucket
<1>5. CASE pc[k] \notin {"clean", "write"}
      BY <1>1, <1>2, <1>5 DEF Bucket
<1>. QED
      BY <1>3, <1>4, <1>5

LEMMA OwnBucket ==
    ASSUME Typed, Stock, NEW o \in Op, StepOf(o)
    PROVE  Bucket(o)'
<1> USE DEF Typed, TypeOK, WorkTypeOK, Goto, Keep, Leave, memory
<1>0. Bucket(o)
      BY DEF Stock
<1>1. CASE Asks(o)
  <2>1. PICK a \in Acts, i \in Item, f \in BOOLEAN, first \in {"find", "upload", "write"} :
           Ask(o, a, i, f, first) /\ Asked(a, i, f, first)
        BY <1>1 DEF Asks
  <2>2. pc[o] = "idle" /\ pc'[o] = first /\ up'[o] = f /\ stored' = stored
        BY <2>1 DEF Ask
  <2>. QED
       BY <1>0, <2>1, <2>2 DEF Bucket, Asked
<1>2. CASE Find(o)
  <2>1. pc[o] = "find" /\ stored' = stored
        BY <1>2 DEF Find
  <2>2. pc'[o] = "done" \/ (pc'[o] = (IF up[o] THEN "upload" ELSE "write") /\ up'[o] = up[o])
        BY <1>2 DEF Find
  <2>. QED
       BY <1>0, <2>1, <2>2 DEF Bucket
<1>3. CASE Upload(o)
  <2>1. pc[o] = "upload" /\ pc'[o] = "write" /\ up' = up /\ o \in stored'
        BY <1>3 DEF Upload
  <2>2. up[o]
        BY <2>1 DEF Progress
  <2>. QED
       BY <2>1, <2>2 DEF Bucket
<1>4. CASE Write(o)
  <2>1. Put(o) /\ pc'[o] = IF old'[o] = None THEN "emit" ELSE "clean"
        BY <1>4 DEF Write
  <2>2. CASE old'[o] = None
        BY <2>1, <2>2 DEF Bucket
  <2>3. CASE old'[o] # None
    <3>1. PICK i \in Item : i = item[o]
          BY <2>1, PutDoes
    <3>2. /\ o \notin wrote /\ (act[o] = "create" <=> row[i] = None) /\ act[o] \in Acts
          BY <2>1, <3>1, PutDoes
    <3>3. PICK k \in Op : k = old'[o]
          BY <1>4, <2>3, WriteTyped DEF StepOf, Step
    <3>4. CASE act[o] = "remove"
      <4>1. row[i] # None /\ row[i].file = k
            BY <1>4, <3>1, <3>2, <3>3, <3>4 DEF Write
      <4>2. k # o
            BY <3>2, <4>1, RecordAssumption DEF Files
      <4>. QED
           BY <2>1, <2>3, <3>1, <3>3, <3>4, <4>1, <4>2, PutUses DEF Bucket, Using
    <3>5. CASE act[o] # "remove"
      <4>1. k = old[o] /\ old[o] # None
            BY <1>4, <2>3, <3>3, <3>5 DEF Write
      <4>2. up[o] /\ i \in Version /\ k \in wrote /\ item[k] = i
            BY <3>1, <3>5, <4>1 DEF Progress, Remembers
      <4>3. k # o
            BY <3>2, <4>2
      <4>4. \A v \in Version \ {i} : row[v] # None => row[v].file # k
            BY <4>2, RecordAssumption DEF Files, Item
      <4>5. \A v \in Version : row'[v] # None => row'[v].file # k
        <5>1. \A v \in Version \ {i} : row'[v] = row[v]
              BY <2>1, <3>1, PutDoes DEF Item
        <5>2. row'[i].file = o
              BY <2>1, <3>1, <3>5, <4>2, PutDoes
        <5>. QED
             BY <4>3, <4>4, <5>1, <5>2
      <4>. QED
           BY <2>1, <2>3, <3>3, <4>5 DEF Bucket, Using
    <3>. QED
         BY <3>4, <3>5
  <2>. QED
       BY <2>2, <2>3
<1>5. CASE WriteUnknown(o)
  <2>1. "unknown" \in hurt'[o]
        BY <1>5 DEF WriteUnknown
  <2>2. pc'[o] \in {"undo", "done"}
        BY <1>5 DEF WriteUnknown
  <2>. QED
       BY <2>1, <2>2 DEF Bucket
<1>6. CASE WriteFails(o)
  <2>1. pc[o] = "write" /\ wrote' = wrote /\ pc'[o] \in {"undo", "done"}
        BY <1>6 DEF WriteFails
  <2>2. o \notin wrote
        BY <2>1 DEF Progress
  <2>. QED
       BY <2>1, <2>2 DEF Bucket
<1>7. CASE Undo(o) \/ Clean(o) \/ Emit(o) \/ Die(o)
  <2>1. pc'[o] \in {"emit", "done"}
        BY <1>7 DEF Undo, Clean, Emit, Die
  <2>. QED
       BY <2>1 DEF Bucket
<1>8. CASE Record(o) \/ RecordFails(o)
  <2>1. UNCHANGED <<row, stored, pc, up, old, wrote>>
        BY <1>8 DEF Record, RecordFails
  <2>2. hurt[o] \subseteq hurt'[o]
        BY Effects
  <2>. QED
       BY <1>0, <2>1, <2>2 DEF Bucket, Using
<1>. QED
      BY <1>1, <1>2, <1>3, <1>4, <1>5, <1>6, <1>7, <1>8 DEF StepOf, Step

LEMMA DownloadableKept ==
    ASSUME Typed, Stock, NEW o \in Op, StepOf(o), NEW k \in Op
    PROVE  Downloadable(k)'
<1> SUFFICES ASSUME Using(k)', k \notin stored' PROVE "unknown" \in hurt'[k]
    BY DEF Downloadable
<1>1. CASE Using(k) /\ k \notin stored
      BY <1>1, Effects DEF Stock, Downloadable
<1>2. CASE Using(k) /\ k \in stored
  <2>1. k \in wrote
        BY <1>2, UsedIsWritten
  <2>2. ~ Cleans(o, k)
        BY <1>2 DEF Stock, Bucket, Cleans
  <2>3. k = o /\ pc[o] = "undo"
        BY <1>2, <2>2, Effects
  <2>. QED
       BY <2>1, <2>3, Effects DEF Stock, Bucket
<1>3. CASE ~ Using(k)
  <2>1. row' # row
        BY <1>3, UsingKept
  <2>2. Put(o)
        BY <2>1 DEF StepOf, Step, Asks, Ask, Find, Upload, Write, WriteUnknown, WriteFails, Undo,
                    Clean, DeleteFile, Emit, Record, RecordFails, Die
  <2>3. k = o /\ up[o] /\ pc[o] = "write" /\ stored' = stored
        BY <1>3, <2>2, PutUses, PutDoes
  <2>. QED
       BY <2>3 DEF Stock, Bucket
<1>. QED
      BY <1>1, <1>2, <1>3

\* A file that was there stays explained.
LEMMA ExplainedKept ==
    ASSUME Typed, Stock, NEW o \in Op, StepOf(o), NEW k \in Op
    PROVE  Explained(k)'
<1> SUFFICES ASSUME k \in stored'
             PROVE  \/ Using(k)' \/ hurt'[k] # {} \/ pc'[k] \in {"write", "undo"}
                    \/ \E p \in Op : Cleans(p, k)'
    BY DEF Explained
<1>1. CASE k \notin stored
  <2>1. Upload(o) /\ k = o
        BY <1>1 DEF StepOf, Step, Asks, Ask, Find, Upload, Write, WriteUnknown, WriteFails, Put,
                    Undo, Clean, DeleteFile, Emit, Record, RecordFails, Die
  <2>. QED
       BY <2>1 DEF Upload, Keep, Goto, Typed, TypeOK
<1>2. CASE hurt[k] # {}
      BY <1>2, Effects
<1>3. CASE k \in stored /\ Using(k)
  <2> SUFFICES ASSUME ~ Using(k)' PROVE hurt'[k] # {} \/ \E p \in Op : Cleans(p, k)'
      OBVIOUS
  <2>1. Write(o) \/ WriteUnknown(o)
        BY <1>3, UsingKept
        DEF StepOf, Step, Asks, Ask, Find, Upload, WriteFails, Undo, Clean, DeleteFile, Emit,
            Record, RecordFails, Die
  <2>2. Put(o)
        BY <2>1 DEF Write, WriteUnknown
  <2>3. PICK i \in Item : i = item[o]
        BY <2>2, PutDoes
  <2>4. row[i] # None /\ row[i].file = k /\ (act[o] = "remove" \/ up[o])
        BY <1>3, <2>2, <2>3, PutUses
  <2>5. CASE WriteUnknown(o)
        BY <2>3, <2>4, <2>5 DEF WriteUnknown, Replaced
  <2>6. CASE Write(o)
    <3>1. CASE act[o] = "remove"
      <4>1. old'[o] = k /\ pc'[o] = "clean"
            BY <2>3, <2>4, <2>6, <3>1, RecordAssumption DEF Write, Goto, Typed, TypeOK
      <4>. QED
           BY <4>1 DEF Cleans
    <3>2. CASE act[o] # "remove" /\ old[o] = k
      <4>1. old'[o] = k /\ pc'[o] = "clean"
            BY <2>6, <3>2, RecordAssumption DEF Write, Goto, Typed, TypeOK
      <4>. QED
           BY <4>1 DEF Cleans
    <3>3. CASE act[o] # "remove" /\ old[o] # k
      <4>1. act[o] = "update" /\ up[o]
            BY <2>2, <2>3, <2>4, <3>3, PutDoes DEF Typed, Progress
      <4>2. k \in Overtaken(o)
            BY <2>3, <2>4, <3>3, <4>1 DEF Overtaken
      <4>. QED
           BY <2>6, <4>2 DEF Write
    <3>. QED
         BY <3>1, <3>2, <3>3
  <2>. QED
       BY <2>1, <2>5, <2>6
<1>4. CASE k \in stored /\ k # o /\ pc[k] \in {"write", "undo"}
      BY <1>4, OthersKept
<1>5. CASE k \in stored /\ k = o /\ pc[o] \in {"write", "undo"}
  <2>0. up[o] /\ act[o] # "remove"
        BY <1>5 DEF Stock, Bucket, Typed, Progress
  <2>1. CASE Write(o)
        BY <1>5, <2>0, <2>1, PutUses DEF Write
  <2>2. CASE WriteUnknown(o)
        BY <1>5, <2>2 DEF WriteUnknown
  <2>3. CASE WriteFails(o)
        BY <1>5, <2>0, <2>3 DEF WriteFails, Keep, Goto, Typed, TypeOK
  <2>4. CASE Undo(o)
        BY <1>5, <2>4, DeleteTyped DEF Undo
  <2>5. CASE Die(o)
        BY <1>5, <2>5 DEF Die
  <2>6. CASE Record(o) \/ RecordFails(o)
        BY <1>5, <2>6 DEF Record, RecordFails
  <2>. QED
       BY <1>5, <2>1, <2>2, <2>3, <2>4, <2>5, <2>6
       DEF StepOf, Step, Asks, Ask, Find, Upload, Clean, Emit
<1>6. CASE k \in stored /\ \E p \in Op : Cleans(p, k)
  <2>1. PICK p \in Op : Cleans(p, k)
        BY <1>6
  <2>2. CASE p # o
    <3>1. Cleans(p, k)'
          BY <2>1, <2>2, OthersKept DEF Cleans
    <3>. QED
         BY <3>1
  <2>3. CASE p = o
    <3>1. CASE Clean(o)
          BY <2>1, <2>3, <3>1, DeleteTyped DEF Clean, Cleans
    <3>2. CASE Die(o)
          BY <1>6, <2>1, <2>3, <3>2 DEF Die, Cleans
    <3>3. CASE Record(o) \/ RecordFails(o)
      <4>1. Cleans(o, k)'
            BY <2>1, <2>3, <3>3 DEF Record, RecordFails, memory, Cleans
      <4>. QED
           BY <4>1
    <3>. QED
         BY <2>1, <2>3, <3>1, <3>2, <3>3
         DEF StepOf, Step, Asks, Ask, Find, Upload, Write, WriteUnknown, WriteFails, Put, Undo, Emit,
             Cleans
  <2>. QED
       BY <2>2, <2>3
<1>. QED
      BY <1>1, <1>2, <1>3, <1>4, <1>5, <1>6 DEF Stock, Explained

LEMMA StockInit == Init => Stock
<1> SUFFICES ASSUME Init, NEW k \in Op PROVE Bucket(k) /\ Downloadable(k) /\ Explained(k)
    BY DEF Stock
<1>1. pc[k] = "idle" /\ k \notin stored
      BY DEF Init
<1>2. ~ Using(k)
      BY DEF Init, Using, Item
<1>. QED
      BY <1>1, <1>2 DEF Bucket, Downloadable, Explained

LEMMA StockNext == Typed /\ Stock /\ [Next]_vars => Stock'
<1>1. ASSUME Stock, UNCHANGED vars PROVE Stock'
      BY <1>1 DEF vars, request, memory, audit, Stock, Bucket, Downloadable, Explained, Using, Cleans
<1>2. ASSUME Typed, Stock, NEW o \in Op, StepOf(o) PROVE Stock'
      BY <1>2, OthersBucket, OwnBucket, DownloadableKept, ExplainedKept DEF Stock
<1>. QED
      BY <1>1, <1>2, NextIsStep

\* A release that is listed can be downloaded, however updates, removals and
\* migrations of its version overlap or die, unless the answer to the commit
\* that made it was lost.
THEOREM ReleasesCanBeDownloaded == Spec => []ReleasesHaveFiles
<1>1. Stock => ReleasesHaveFiles
      BY DEF Stock, Downloadable, ReleasesHaveFiles
<1>. QED
      BY <1>1, InitTyped, NextTyped, StockInit, StockNext, PTL DEF Spec

\* A file no release refers to is on its way in or out, or its deletion failed
\* or never came, or an update replaced it that had looked before it was there.
THEOREM StrayFilesHaveACause == Spec => []NoStrayFiles
<1>1. Typed /\ Stock => NoStrayFiles
      BY DEF Typed, TypeOK, Stock, Explained, Cleans, NoStrayFiles
<1>. QED
      BY <1>1, InitTyped, NextTyped, StockInit, StockNext, PTL DEF Spec

-----------------------------------------------------------------------------
(* The log of who did what. *)

\* Before a request about an audited row is over, nothing is known against it and
\* nothing is on the trail; its event is fired once.
Told(o) ==
    /\ pc[o] = "idle" => hurt[o] = {}
    /\ pc[o] # "done" => o \notin fired /\ trail[o] = 0
    /\ pc[o] # "done" /\ item[o] \in Audited => hurt[o] = {}
    /\ o \in fired => /\ hurt[o] = {} /\ trail[o] = 0
                      /\ act[o] # "adjust" /\ item[o] \in Audited

TrailRight(o) ==
    o \in wrote /\ item[o] \in Audited /\ pc[o] = "done" =>
       trail[o] = IF o \in fired \/ hurt[o] # {} \/ act[o] = "adjust" THEN 0 ELSE 1

Trails == \A o \in Op : Told(o) /\ TrailRight(o)

\* Steps of others never say anything of a request that is about an audited row,
\* or of one that has not begun.
LEMMA HurtOnlyFiles ==
    ASSUME Typed, NEW o \in Op, StepOf(o), NEW k \in Op \ {o}, hurt'[k] # hurt[k]
    PROVE  k \in wrote /\ item[k] \in Version
<1>0. ASSUME NEW i \in Item, row[i] # None, row[i].file = k
      PROVE  k \in wrote /\ item[k] \in Version
      BY <1>0, RecordAssumption DEF Typed, Files
<1>1. CASE old[o] = k
      BY <1>1, RecordAssumption DEF Typed, Progress, Remembers
<1>2. CASE Write(o)
  <2>1. Put(o) /\ k \in Overtaken(o)
        BY <1>2 DEF Write, Typed, WorkTypeOK
  <2>2. item[o] \in Item /\ row[item[o]].file = k /\ act[o] = "update"
        BY <2>1, PutDoes DEF Overtaken
  <2>3. row[item[o]] # None
        BY <2>1, <2>2, PutDoes
  <2>. QED
       BY <1>0, <2>2, <2>3
<1>3. CASE WriteUnknown(o)
  <2>1. item[o] \in Item /\ row[item[o]] # None /\ row[item[o]].file = k
        BY <1>3, PutDoes DEF WriteUnknown, Replaced, Typed, WorkTypeOK
  <2>. QED
       BY <1>0, <2>1
<1>4. CASE Clean(o)
  <2>1. old[o] \in Op /\ DeleteFile(old[o])
        BY <1>4 DEF Clean, Typed, TypeOK, Progress
  <2>2. old[o] = k
        BY <2>1, DeleteTyped
  <2>. QED
       BY <1>1, <2>2
<1>5. CASE Undo(o) \/ RecordFails(o)
      BY <1>5, DeleteTyped, HurtTyped DEF Undo, RecordFails, Causes
<1>6. CASE Die(o)
  <2>1. old[o] = k
        BY <1>6 DEF Die, Typed, WorkTypeOK
  <2>. QED
       BY <1>1, <2>1
<1>. QED
      BY <1>2, <1>3, <1>4, <1>5, <1>6
      DEF StepOf, Step, Asks, Ask, Find, Upload, WriteFails, Emit, Record

LEMMA OthersTrail ==
    ASSUME Typed, Trails, NEW o \in Op, StepOf(o), NEW k \in Op \ {o}
    PROVE  Told(k)' /\ TrailRight(k)'
<1>1. /\ pc'[k] = pc[k] /\ act'[k] = act[k] /\ item'[k] = item[k] /\ trail'[k] = trail[k]
      /\ (k \in wrote' <=> k \in wrote) /\ (k \in fired' <=> k \in fired)
      BY OthersKept
<1>2. CASE hurt'[k] = hurt[k]
      BY <1>1, <1>2 DEF Trails, Told, TrailRight
<1>3. CASE hurt'[k] # hurt[k]
  <2>1. k \in wrote /\ item[k] \in Version
        BY <1>3, HurtOnlyFiles
  <2>2. item[k] \notin Audited /\ pc[k] # "idle"
        BY <2>1 DEF Audited, Typed, Progress
  <2>. QED
       BY <1>1, <2>2 DEF Trails, Told, TrailRight
<1>. QED
      BY <1>2, <1>3

LEMMA OwnTrail ==
    ASSUME Typed, Trails, NEW o \in Op, StepOf(o)
    PROVE  Told(o)' /\ TrailRight(o)'
<1> USE DEF Typed, TypeOK, WorkTypeOK, Goto, Keep, Leave
<1>0. Told(o) /\ TrailRight(o)
      BY DEF Trails
<1>1. CASE Asks(o)
  <2>1. pc[o] = "idle" /\ pc'[o] # "done" /\ UNCHANGED <<fired, trail, hurt>>
        BY <1>1 DEF Asks, Ask, audit
  <2>. QED
       BY <1>0, <2>1 DEF Told, TrailRight
<1>2. CASE Find(o) \/ Upload(o) \/ WriteFails(o)
  <2>1. /\ pc[o] \in {"find", "upload", "write"} /\ pc'[o] # "idle"
        /\ UNCHANGED <<act, item, wrote, fired, trail, hurt>>
        BY <1>2 DEF Find, Upload, WriteFails, request, audit
  <2>2. o \notin wrote /\ o \notin fired
        BY <1>0, <2>1 DEF Progress, Told
  <2>. QED
       BY <1>0, <2>1, <2>2 DEF Told, TrailRight
<1>3. CASE Write(o)
  <2>1. Put(o) /\ pc'[o] \in {"emit", "clean"}
        BY <1>3 DEF Write
  <2>2. pc[o] = "write" /\ o \notin wrote /\ UNCHANGED <<act, item, fired, trail>>
        BY <2>1, PutDoes DEF request, audit
  <2>3. item[o] \in Audited => hurt'[o] = hurt[o]
    <3>1. o \in Overtaken(o) => row[item[o]].file = o /\ act[o] = "update"
          BY DEF Overtaken
    <3>2. o \notin Overtaken(o)
          BY <2>1, <2>2, <3>1, PutDoes, RecordAssumption DEF Files
    <3>. QED
         BY <1>3, <3>2 DEF Write
  <2>. QED
       BY <1>0, <2>1, <2>2, <2>3 DEF Told, TrailRight
<1>4. CASE WriteUnknown(o)
  <2>1. Put(o) /\ pc'[o] = (IF up[o] THEN "undo" ELSE "done") /\ hurt'[o] # {}
        BY <1>4 DEF WriteUnknown
  <2>2. pc[o] = "write" /\ UNCHANGED <<act, item, fired, trail>>
        BY <2>1, PutDoes DEF request, audit
  <2>3. up[o] => item[o] \notin Audited
        BY DEF Progress, Audited
  <2>. QED
       BY <1>0, <2>1, <2>2, <2>3 DEF Told, TrailRight
<1>5. CASE Undo(o)
  <2>1. pc[o] = "undo" /\ pc'[o] = "done" /\ DeleteFile(o)
        BY <1>5 DEF Undo
  <2>2. UNCHANGED <<act, item, wrote, fired, trail>> /\ item[o] \notin Audited
        BY <2>1, DeleteTyped DEF Progress, Audited
  <2>. QED
       BY <1>0, <2>1, <2>2 DEF Told, TrailRight
<1>6. CASE Clean(o)
  <2>1. pc[o] = "clean" /\ pc'[o] = "emit" /\ DeleteFile(old[o])
        BY <1>6 DEF Clean
  <2>2. old[o] \in Op /\ item[o] \notin Audited
        BY <2>1 DEF Progress, Remembers, Audited
  <2>3. UNCHANGED <<act, item, wrote, fired, trail>>
        BY <2>1, <2>2, DeleteTyped
  <2>. QED
       BY <1>0, <2>1, <2>2, <2>3 DEF Told, TrailRight
<1>7. CASE Emit(o)
  <2>1. /\ pc[o] = "emit" /\ pc'[o] = "done" /\ UNCHANGED <<act, item, wrote, trail, hurt>>
        /\ fired' = IF item[o] \in Audited /\ act[o] # "adjust" THEN fired \union {o} ELSE fired
        BY <1>7 DEF Emit, request
  <2>. QED
       BY <1>0, <2>1 DEF Told, TrailRight
<1>8. CASE Record(o)
  <2>1. /\ o \in fired /\ fired' = fired \ {o} /\ trail'[o] = trail[o] + 1
        /\ UNCHANGED <<pc, act, item, wrote, hurt>>
        BY <1>8 DEF Record, request
  <2>2. pc[o] = "done" /\ trail[o] = 0 /\ hurt[o] = {} /\ act[o] # "adjust"
        BY <1>0, <2>1 DEF Told
  <2>. QED
       BY <1>0, <2>1, <2>2 DEF Told, TrailRight
<1>9. CASE RecordFails(o)
  <2>1. /\ o \in fired /\ fired' = fired \ {o} /\ Hurt(o, "unrecorded")
        /\ UNCHANGED <<pc, act, item, wrote, trail>>
        BY <1>9 DEF RecordFails, request
  <2>2. pc[o] = "done" /\ trail[o] = 0
        BY <1>0, <2>1 DEF Told
  <2>3. hurt'[o] # {}
        BY <2>1 DEF Hurt
  <2>. QED
       BY <1>0, <2>1, <2>2, <2>3 DEF Told, TrailRight
<1>10. CASE Die(o)
  <2>1. /\ pc[o] \notin {"idle", "done"} /\ pc'[o] = "done"
        /\ UNCHANGED <<act, item, wrote, fired, trail>>
        /\ o \in wrote => hurt'[o] # {}
        BY <1>10 DEF Die, request, audit
  <2>. QED
       BY <1>0, <2>1 DEF Told, TrailRight
<1>. QED
      BY <1>1, <1>2, <1>3, <1>4, <1>5, <1>6, <1>7, <1>8, <1>9, <1>10 DEF StepOf, Step

\* Who changed what is on the trail once for every user's change that was
\* committed, and never for one that was not or that a box made itself, or it
\* is known why it is missing.
THEOREM ChangesAreOnTheTrail == Spec => []TrailIsComplete
<1>1. Init => Trails
      BY DEF Init, Trails, Told, TrailRight
<1>2. Typed /\ Trails /\ [Next]_vars => Trails'
  <2>1. ASSUME Trails, UNCHANGED vars PROVE Trails'
        BY <2>1 DEF vars, request, audit, Trails, Told, TrailRight
  <2>2. ASSUME Typed, Trails, NEW o \in Op, StepOf(o) PROVE Trails'
        BY <2>2, OthersTrail, OwnTrail DEF Trails
  <2>. QED
       BY <2>1, <2>2, NextIsStep
<1>3. Typed /\ Trails => TrailIsComplete
      BY DEF Typed, TypeOK, Trails, TrailRight, TrailIsComplete
<1>. QED
      BY <1>1, <1>2, <1>3, InitTyped, NextTyped, PTL DEF Spec

=============================================================================
