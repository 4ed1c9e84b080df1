-------------------------- MODULE DeviceLiveProofs --------------------------
(***************************************************************************)
(* Proofs about DeviceLive, for any points, boxes and fields and any       *)
(* number of overlapping edits, heartbeats and swaps.                      *)
(***************************************************************************)
EXTENDS DeviceLive, TLAPS

-----------------------------------------------------------------------------
(* The steps, by the request that takes them. *)

EditStep(e) ==
    \/ \E s \in Serial, n \in Note, f \in BOOLEAN : ReadBefore(e, s, n, f)
    \/ UploadImage(e) \/ WriteFields(e) \/ WriteUnknown(e) \/ WriteFails(e) \/ Unwind(e)
    \/ CleanOld(e) \/ EmitUpdated(e) \/ EmitNothing(e)

BeatStep(b) ==
    \/ \E s \in Serial, v \in BOOLEAN : ReadOnline(b, s, v)
    \/ WriteOnline(b) \/ NoSuchDevice(b) \/ EmitOnline(b) \/ SameStatus(b)

SwapStep(w) ==
    \/ \E d \in Device, s \in Serial : SwapBox(w, d, s)
    \/ EmitSwapped(w)

StepOf(q) ==
    \/ q \in Edit /\ EditStep(q)
    \/ q \in Beat /\ BeatStep(q)
    \/ q \in Swap /\ SwapStep(q)
    \/ RecordAudit(q) \/ Fail(q)

LEMMA NextIsStep == Next => \E q \in Request : StepOf(q)
<1> SUFFICES ASSUME Next PROVE \E q \in Request : StepOf(q)
    OBVIOUS
<1>1. ASSUME NEW e \in Edit, EditStep(e) PROVE \E q \in Request : StepOf(q)
      BY <1>1 DEF StepOf, Request
<1>2. ASSUME NEW b \in Beat, BeatStep(b) PROVE \E q \in Request : StepOf(q)
      BY <1>2 DEF StepOf, Request
<1>3. ASSUME NEW w \in Swap, SwapStep(w) PROVE \E q \in Request : StepOf(q)
      BY <1>3 DEF StepOf, Request
<1>4. ASSUME NEW q \in Request, RecordAudit(q) \/ Fail(q) PROVE \E r \in Request : StepOf(r)
      BY <1>4 DEF StepOf
<1>. QED
      BY <1>1, <1>2, <1>3, <1>4 DEF Next, EditStep, BeatStep, SwapStep

-----------------------------------------------------------------------------
(* Types, and what a request knows at each of its steps. *)

Seen    == [dev : Device, row : Rows]
Written == [dev : Device, row : Rows, was : Rows]
Trail   == [by : Edit \union Swap \union {None}, snapshot : Rows, was : Rows]

Places == {"idle", "upload", "write", "unwind", "clean", "emit", "audit",
           "done", "failed", "unwound"}

WorkTypeOK ==
    /\ pc \in [Request -> Places]
    /\ ser \in [Request -> Serial \union {None}]
    /\ arg \in [Request -> Note \union BOOLEAN \union {None}]
    /\ file \in [Request -> BOOLEAN]
    /\ before \in [Request -> Seen \union {Nothing}]
    /\ after \in [Request -> Written \union {Nothing}]
    /\ audit \in [Device -> Seq(Trail)]
    /\ \A d \in Device : Len(audit[d]) >= 1

\* A request has written from its write on; edits know what they read and write.
Sound(q) ==
    /\ pc[q] \in {"idle", "upload", "write"} => after[q] = Nothing
    /\ pc[q] \in {"clean", "emit", "audit"} => after[q] # Nothing
    /\ q \in Edit =>
          /\ pc[q] # "idle" => before[q] # Nothing /\ arg[q] \in Note /\ ser[q] \in Serial
          /\ pc[q] = "done" => after[q] # Nothing
          /\ after[q] # Nothing => after[q].row.note = arg[q] /\ pc[q] # "idle"
    /\ q \in Beat =>
          /\ pc[q] \in {"idle", "write", "emit", "done", "failed"}
          /\ pc[q] # "idle" => arg[q] \in BOOLEAN /\ ser[q] \in Serial
    /\ q \in Swap => pc[q] \in {"idle", "emit", "audit", "done", "failed"}

Typed == TypeOK /\ WorkTypeOK /\ \A q \in Request : Sound(q)

LEMMA NothingIs ==
    /\ Nothing \notin Seen /\ Nothing \notin Written /\ Nothing.dev = None
    /\ None \notin Device
BY LiveAssumption DEF Nothing, Seen, Written

LEMMA WrittenIsSomething ==
    ASSUME NEW d \in Device, NEW row, NEW was
    PROVE  [dev |-> d, row |-> row, was |-> was] # Nothing
<1>1. [dev |-> d, row |-> row, was |-> was].dev = d
      OBVIOUS
<1>. QED
      BY <1>1, NothingIs

\* A trail of the audit, and one row more.
LEMMA TrailTyped ==
    ASSUME NEW t \in Seq(Trail), NEW i \in 1 .. Len(t)
    PROVE  t[i].by \in Edit \union Swap \union {None} /\ {t[i].snapshot, t[i].was} \subseteq Rows
<1>1. t[i] \in Trail
      OBVIOUS
<1>. QED
      BY <1>1 DEF Trail

LEMMA TrailGrows ==
    ASSUME NEW S, NEW t \in Seq(S), NEW entry \in S
    PROVE  /\ Append(t, entry) \in Seq(S)
           /\ Len(t) \in Nat /\ Len(Append(t, entry)) = Len(t) + 1
           /\ Append(t, entry)[Len(t) + 1] = entry
           /\ \A i \in 1 .. Len(t) : Append(t, entry)[i] = t[i]
OBVIOUS

LEMMA RowTyped ==
    ASSUME TypeOK, NEW d \in Device
    PROVE  /\ Row(d) \in Rows /\ Row(d).serial = installed[d] /\ Row(d).note = note[d]
           /\ Row(d).online = online[d] /\ Row(d).pic = pic[d]
<1>1. online[d] \in BOOLEAN
      BY DEF TypeOK
<1>. QED
      BY <1>1 DEF Row, Rows, TypeOK, RegistryTypeOK

\* The point found by a serial is where that box is.
LEMMA PointFound ==
    ASSUME NEW s, PointOf(s) # None
    PROVE  PointOf(s) \in Device /\ installed[PointOf(s)] = s
BY DEF PointOf

\* A step moves one request.
LEMMA OthersKept ==
    ASSUME Typed, NEW q \in Request, StepOf(q), NEW o \in Request \ {q}
    PROVE  /\ pc'[o] = pc[o] /\ ser'[o] = ser[o] /\ arg'[o] = arg[o] /\ file'[o] = file[o]
           /\ before'[o] = before[o] /\ after'[o] = after[o]
<1> USE DEF Typed, WorkTypeOK, Goto, args
<1>1. CASE q \in Edit /\ EditStep(q)
      BY <1>1 DEF EditStep, ReadBefore, UploadImage, WriteFields, WriteUnknown, SetFields, Wrote,
                  WriteFails, Unwind, CleanOld, EmitUpdated, EmitNothing
<1>2. CASE q \in Beat /\ BeatStep(q)
      BY <1>2 DEF BeatStep, ReadOnline, WriteOnline, Wrote, NoSuchDevice, EmitOnline, SameStatus
<1>3. CASE q \in Swap /\ SwapStep(q)
      BY <1>3 DEF SwapStep, SwapBox, Wrote, EmitSwapped
<1>4. CASE RecordAudit(q) \/ Fail(q)
      BY <1>4 DEF RecordAudit, Fail
<1>. QED
      BY <1>1, <1>2, <1>3, <1>4 DEF StepOf

LEMMA OthersSound ==
    ASSUME Typed, NEW q \in Request, StepOf(q), NEW o \in Request \ {q}
    PROVE  Sound(o)'
BY OthersKept DEF Typed, Sound

-----------------------------------------------------------------------------
(* The three writes. *)

\* q writes point d, whatever it learns of it; a swap takes its box from other
\* points, and no other column of theirs changes.
Writes(q, d) ==
    /\ d \in Device /\ pc'[q] \in {"clean", "emit", "unwind"} /\ pc[q] \in {"idle", "write"}
    /\ after' = [after EXCEPT ![q] = [dev |-> d, row |-> Row(d)', was |-> Row(d)]]
    /\ disturbed' = IF pc'[q] = "unwind" \/ Overlaps(q, d) \/ ComparesOther(q, d)
                    THEN disturbed \union {d} ELSE disturbed
    /\ UNCHANGED <<objects, audit, board, args, before>>
    /\ \A x \in Device \ {d} :
          /\ note'[x] = note[x] /\ online'[x] = online[x] /\ pic'[x] = pic[x]
          /\ installed'[x] = installed[x] \/ (x \in moved' /\ installed'[x] = None)
    /\ moved \subseteq moved' /\ moved' \subseteq Device
    /\ TypeOK /\ note' \in [Device -> Note] /\ online' \in [Device -> BOOLEAN]
    /\ pic' \in [Device -> Picture \union {None}]
    /\ RegistryTypeOK'

LEMMA EditWrites ==
    ASSUME Typed, NEW e \in Edit, WriteFields(e) \/ WriteUnknown(e)
    PROVE  \E d \in Device, place \in {"clean", "unwind"} :
              /\ Writes(e, d)
              /\ pc[e] = "write" /\ pc' = [pc EXCEPT ![e] = place]
              /\ installed[d] = ser[e]
              /\ UNCHANGED <<registered, installed, moved, online>>
              /\ note'[d] = arg[e] /\ pic'[d] = IF file[e] THEN e ELSE pic[d]
<1>0. PointOf(ser[e]) \in Device /\ installed[PointOf(ser[e])] = ser[e]
      BY PointFound DEF WriteFields, WriteUnknown, SetFields
<1>1. PICK d \in Device : d = PointOf(ser[e])
      BY <1>0
<1> DEFINE p == IF file[e] THEN e ELSE pic[d]
<1> DEFINE first == [Row(d) EXCEPT !.note = arg[e]]
<1>a. PICK place \in {"clean", "unwind"} :
         IF place = "clean" THEN WriteFields(e) ELSE WriteUnknown(e)
      OBVIOUS
<1>2. /\ pc[e] = "write" /\ pc' = [pc EXCEPT ![e] = place]
      /\ note' = [note EXCEPT ![d] = arg[e]]
      /\ pic' = IF file[e] THEN [pic EXCEPT ![d] = e] ELSE pic
      /\ after' = [after EXCEPT ![e] = [dev |-> d,
            row |-> [Row(d) EXCEPT !.note = arg[e], !.pic = IF file[e] THEN e ELSE @],
            was |-> Row(d)]]
      /\ disturbed' = IF place = "unwind" \/ Overlaps(e, d) \/ ComparesOther(e, d)
                      THEN disturbed \union {d} ELSE disturbed
      /\ UNCHANGED <<registered, installed, online, objects, audit, board, args, before, moved>>
      BY <1>1, <1>a DEF WriteFields, WriteUnknown, SetFields, FieldsSet, Wrote, Goto
<1>3. e \in Request /\ arg[e] \in Note /\ e \in Picture
      BY <1>2 DEF Typed, Sound, Request, Picture
<1>4. /\ note' \in [Device -> Note] /\ note'[d] = arg[e]
      /\ \A x \in Device \ {d} : note'[x] = note[x]
      BY <1>2, <1>3 DEF Typed, TypeOK
<1>5. /\ pic' \in [Device -> Picture \union {None}] /\ pic'[d] = p
      /\ \A x \in Device \ {d} : pic'[x] = pic[x]
      BY <1>2, <1>3 DEF Typed, TypeOK
<1>6. [Row(d) EXCEPT !.note = arg[e], !.pic = IF file[e] THEN e ELSE @]
      = [first EXCEPT !.pic = p]
      BY DEF Row
<1>7. first = [serial |-> installed[d], note |-> arg[e], online |-> online[d], pic |-> pic[d]]
      BY DEF Row
<1>8. Row(d)' = [serial |-> installed[d], note |-> arg[e], online |-> online[d], pic |-> p]
      BY <1>2, <1>4, <1>5 DEF Row
<1>9. [first EXCEPT !.pic = p]
      = [serial |-> installed[d], note |-> arg[e], online |-> online[d], pic |-> p]
  <2> HIDE DEF p, first
  <2>. QED
       BY <1>7
<1>10. pc'[e] = place
      BY <1>2, <1>3 DEF Typed, WorkTypeOK
<1>11. Writes(e, d)
  <2>1. after' = [after EXCEPT ![e] = [dev |-> d, row |-> Row(d)', was |-> Row(d)]]
        BY <1>2, <1>6, <1>8, <1>9
  <2>2. RegistryTypeOK' /\ online' \in [Device -> BOOLEAN]
        BY <1>2 DEF Typed, TypeOK, RegistryTypeOK
  <2>. QED
        BY <1>2, <1>4, <1>5, <1>10, <2>1, <2>2 DEF Writes, Typed, TypeOK
<1>. QED
      BY <1>0, <1>1, <1>2, <1>4, <1>5, <1>11

LEMMA BeatWrites ==
    ASSUME Typed, NEW b \in Beat, WriteOnline(b)
    PROVE  \E d \in Device :
              /\ Writes(b, d)
              /\ pc[b] = "write" /\ pc' = [pc EXCEPT ![b] = "emit"]
              /\ installed[d] = ser[b]
              /\ UNCHANGED <<registered, installed, moved, note, pic>>
              /\ after'[b].row = [Row(d) EXCEPT !.online = arg[b]]
<1>0. PointOf(ser[b]) \in Device /\ installed[PointOf(ser[b])] = ser[b]
      BY PointFound DEF WriteOnline
<1>1. PICK d \in Device : d = PointOf(ser[b])
      BY <1>0
<1>2. /\ pc[b] = "write" /\ pc' = [pc EXCEPT ![b] = "emit"]
      /\ online' = [online EXCEPT ![d] = arg[b]]
      /\ after' = [after EXCEPT ![b] = [dev |-> d, row |-> [Row(d) EXCEPT !.online = arg[b]],
                                        was |-> Row(d)]]
      /\ disturbed' = IF Overlaps(b, d) \/ ComparesOther(b, d)
                      THEN disturbed \union {d} ELSE disturbed
      /\ UNCHANGED <<registered, installed, note, pic, objects, audit, board, args, before, moved>>
      BY <1>1 DEF WriteOnline, Wrote, Goto
<1>3. b \in Request /\ arg[b] \in BOOLEAN
      BY <1>2 DEF Typed, Sound, Request
<1>4. /\ online' \in [Device -> BOOLEAN] /\ online'[d] = arg[b]
      /\ \A x \in Device \ {d} : online'[x] = online[x]
      BY <1>2, <1>3 DEF Typed, TypeOK
<1>5. Row(d)' = [Row(d) EXCEPT !.online = arg[b]]
      BY <1>2, <1>4 DEF Row
<1>6. pc'[b] = "emit" /\ after'[b].row = [Row(d) EXCEPT !.online = arg[b]]
      BY <1>2, <1>3 DEF Typed, WorkTypeOK
<1>7. Writes(b, d)
  <2>1. after' = [after EXCEPT ![b] = [dev |-> d, row |-> Row(d)', was |-> Row(d)]]
        BY <1>2, <1>5
  <2>2. RegistryTypeOK'
        BY <1>2 DEF Typed, TypeOK, RegistryTypeOK
  <2>. QED
        BY <1>2, <1>4, <1>6, <2>1, <2>2 DEF Writes, Typed, TypeOK
<1>. QED
      BY <1>0, <1>1, <1>2, <1>6, <1>7

LEMMA SwapWrites ==
    ASSUME Typed, NEW w \in Swap, NEW d \in Device, NEW s \in Serial, SwapBox(w, d, s)
    PROVE  /\ Writes(w, d)
           /\ pc[w] = "idle" /\ pc' = [pc EXCEPT ![w] = "emit"]
           /\ UNCHANGED <<note, online, pic>>
<1>1. /\ pc[w] = "idle" /\ pc' = [pc EXCEPT ![w] = "emit"]
      /\ Install(d, s)
      /\ after' = [after EXCEPT ![w] = [dev |-> d, row |-> [Row(d) EXCEPT !.serial = s],
                                        was |-> Row(d)]]
      /\ disturbed' = IF Overlaps(w, d) \/ ComparesOther(w, d)
                      THEN disturbed \union {d} ELSE disturbed
      /\ moved' = moved \union {e \in Device \ {d} : installed[e] = s}
      /\ UNCHANGED <<note, online, pic, objects, audit, board, args, before>>
      BY DEF SwapBox, Wrote, Goto, fields
<1>2. /\ installed' = [e \in Device |-> IF e = d THEN s
                                       ELSE IF installed[e] = s THEN None ELSE installed[e]]
      /\ registered' = registered
      BY <1>1 DEF Install
<1>3. RegistryTypeOK'
      BY <1>2 DEF Typed, TypeOK, RegistryTypeOK
<1>4. Row(d)' = [Row(d) EXCEPT !.serial = s]
      BY <1>1, <1>2 DEF Row
<1>5. pc'[w] = "emit"
      BY <1>1 DEF Typed, WorkTypeOK, Request
<1>6. \A x \in Device \ {d} : installed'[x] = installed[x] \/ (x \in moved' /\ installed'[x] = None)
      BY <1>1, <1>2
<1>7. /\ moved \subseteq moved' /\ moved' \subseteq Device
      BY <1>1 DEF Typed, TypeOK
<1>8. after' = [after EXCEPT ![w] = [dev |-> d, row |-> Row(d)', was |-> Row(d)]]
      BY <1>1, <1>4
<1>. QED
      BY <1>1, <1>3, <1>5, <1>6, <1>7, <1>8 DEF Writes, Typed, TypeOK

-----------------------------------------------------------------------------
(* Type correctness. *)

LEMMA WritesTyped ==
    ASSUME Typed, NEW q \in Request, NEW d \in Device, Writes(q, d),
           NEW place \in {"clean", "emit", "unwind"}, pc' = [pc EXCEPT ![q] = place]
    PROVE  /\ TypeOK' /\ WorkTypeOK'
           /\ after'[q] = [dev |-> d, row |-> Row(d)', was |-> Row(d)] /\ after'[q] # Nothing
<1> USE DEF Writes
<1>1. Row(d)' \in Rows
  <2>1. online'[d] \in BOOLEAN
        OBVIOUS
  <2>. QED
        BY <2>1 DEF Row, Rows, RegistryTypeOK
<1>2. Row(d) \in Rows
      BY RowTyped
<1>3. [dev |-> d, row |-> Row(d)', was |-> Row(d)] \in Written
      BY <1>1, <1>2 DEF Written
<1>4. after' \in [Request -> Written \union {Nothing}]
      /\ after'[q] = [dev |-> d, row |-> Row(d)', was |-> Row(d)]
      BY <1>3 DEF Typed, WorkTypeOK
<1>5. WorkTypeOK'
      BY <1>4 DEF Typed, WorkTypeOK, Places, args
<1>6. disturbed' \subseteq Device
      BY DEF TypeOK
<1>7. \A r \in Request : after'[r] # Nothing => after'[r].dev \in Device /\ after'[r].row \in Rows
      BY <1>4 DEF Written
<1>8. TypeOK'
      BY <1>6, <1>7 DEF TypeOK
<1>. QED
      BY <1>3, <1>4, <1>5, <1>8, NothingIs

\* An announcement copies a row that was written.
LEMMA AnnounceTyped ==
    ASSUME Typed, NEW q \in Request, after[q] # Nothing, Announce(q)
    PROVE  /\ after[q] \in Written /\ after[q].dev \in Device /\ after[q].row \in Rows
           /\ board' \in [Device -> Rows] /\ board'[after[q].dev] = after[q].row
           /\ \A x \in Device \ {after[q].dev} : board'[x] = board[x]
           /\ moved' \subseteq Device /\ disturbed' = disturbed
<1>1. /\ after[q] \in Written
      BY DEF Typed, WorkTypeOK
<1>2. after[q].dev \in Device /\ after[q].row \in Rows
      BY <1>1 DEF Written
<1>. QED
      BY <1>1, <1>2 DEF Announce, Typed, TypeOK

\* Steps that leave the table alone.
LEMMA TypeKept ==
    ASSUME Typed, UNCHANGED <<registered, installed, fields, audit, before, after>>,
           objects' \subseteq Picture, board' \in [Device -> Rows],
           disturbed' \subseteq Device, moved' \subseteq Device
    PROVE  TypeOK'
BY DEF Typed, TypeOK, RegistryTypeOK, fields

LEMMA WorkTypeKept ==
    ASSUME Typed, NEW q \in Request, NEW place \in Places, pc' = [pc EXCEPT ![q] = place],
           UNCHANGED <<args, audit, before, after>>
    PROVE  WorkTypeOK'
BY DEF Typed, WorkTypeOK, args

LEMMA EditTyped ==
    ASSUME Typed, NEW e \in Edit, EditStep(e)
    PROVE  TypeOK' /\ WorkTypeOK' /\ Sound(e)'
<1> USE DEF Goto
<1>0. e \in Request /\ e \notin Beat /\ e \notin Swap /\ e \in Picture
      BY LiveAssumption DEF Request, Picture
<1>1. ASSUME NEW s \in Serial, NEW n \in Note, NEW f \in BOOLEAN, ReadBefore(e, s, n, f)
      PROVE  TypeOK' /\ WorkTypeOK' /\ Sound(e)'
  <2> DEFINE d == PointOf(s)
  <2> DEFINE seen == [dev |-> d, row |-> Row(d)]
  <2>1. /\ pc[e] = "idle" /\ d \in Device
        /\ pc' = [pc EXCEPT ![e] = IF f THEN "upload" ELSE "write"]
        /\ ser' = [ser EXCEPT ![e] = s] /\ arg' = [arg EXCEPT ![e] = n]
        /\ file' = [file EXCEPT ![e] = f] /\ before' = [before EXCEPT ![e] = seen]
        /\ UNCHANGED <<registered, installed, fields, objects, audit, board, after, history>>
        BY <1>1, PointFound DEF ReadBefore
  <2>2. seen \in Seen /\ seen # Nothing
    <3> HIDE DEF d
    <3>. QED
         BY <2>1, RowTyped, NothingIs DEF Typed, Seen
  <2>3. seen.dev \in Device /\ seen.row \in Rows
        BY <2>2 DEF Seen
  <2> HIDE DEF d, seen
  <2>4. before' \in [Request -> Seen \union {Nothing}] /\ before'[e] = seen
        BY <1>0, <2>1, <2>2 DEF Typed, WorkTypeOK
  <2>5. \A r \in Request : before'[r] # Nothing => before'[r].dev \in Device /\ before'[r].row \in Rows
        BY <2>4 DEF Seen
  <2>6. TypeOK'
        BY <2>1, <2>5 DEF Typed, TypeOK, RegistryTypeOK, fields, history
  <2>7. WorkTypeOK'
        BY <1>0, <2>1, <2>4 DEF Typed, WorkTypeOK, Places
  <2>8. Sound(e)'
    <3>1. /\ pc'[e] \in {"upload", "write"} /\ arg'[e] = n /\ ser'[e] = s /\ before'[e] # Nothing
          /\ after'[e] = Nothing
          BY <1>0, <2>1, <2>2, <2>4 DEF Typed, WorkTypeOK, Sound
    <3>. QED
         BY <1>0, <3>1 DEF Sound
  <2>. QED
       BY <2>6, <2>7, <2>8
<1>2. CASE WriteFields(e) \/ WriteUnknown(e)
  <2>1. PICK d \in Device, place \in {"clean", "unwind"} :
                /\ Writes(e, d) /\ note'[d] = arg[e]
                /\ pc[e] = "write" /\ pc' = [pc EXCEPT ![e] = place]
        BY <1>2, EditWrites
  <2>2. /\ TypeOK' /\ WorkTypeOK' /\ after'[e] # Nothing
        /\ after'[e] = [dev |-> d, row |-> Row(d)', was |-> Row(d)]
        BY <1>0, <2>1, WritesTyped
  <2>3. after'[e].row.note = arg[e]
        BY <2>1, <2>2 DEF Row
  <2>4. pc'[e] = place /\ UNCHANGED <<args, before>>
        BY <1>0, <2>1 DEF Typed, WorkTypeOK, Writes
  <2>. QED
       BY <1>0, <2>1, <2>2, <2>3, <2>4 DEF Typed, Sound, args
<1>3. CASE UploadImage(e) \/ WriteFails(e) \/ Unwind(e) \/ CleanOld(e) \/ EmitNothing(e)
  <2>1. /\ UNCHANGED <<registered, installed, fields, audit, board, args, before, after, history>>
        /\ objects' \subseteq Picture
        /\ \/ pc[e] = "upload" /\ pc' = [pc EXCEPT ![e] = "write"]
           \/ pc[e] = "write"  /\ pc' = [pc EXCEPT ![e] = "unwind"]
           \/ pc[e] = "unwind" /\ pc' = [pc EXCEPT ![e] = "unwound"]
           \/ pc[e] = "clean"  /\ pc' = [pc EXCEPT ![e] = "emit"]
           \/ pc[e] = "emit"   /\ pc' = [pc EXCEPT ![e] = "done"]
        BY <1>0, <1>3 DEF UploadImage, WriteFails, Unwind, CleanOld, EmitNothing, Typed, TypeOK
  <2>2. TypeOK'
        BY <2>1, TypeKept DEF Typed, TypeOK, history
  <2>3. WorkTypeOK'
        BY <1>0, <2>1, WorkTypeKept DEF Places
  <2>4. Sound(e)'
        BY <1>0, <2>1 DEF Typed, WorkTypeOK, Sound, args
  <2>. QED
       BY <2>2, <2>3, <2>4
<1>4. CASE EmitUpdated(e)
  <2>1. /\ UNCHANGED <<registered, installed, fields, objects, audit, args, before, after>>
        /\ pc[e] = "emit" /\ Announce(e)
        /\ pc' = [pc EXCEPT ![e] = IF e \in Anonymous THEN "done" ELSE "audit"]
        BY <1>4 DEF EmitUpdated
  <2>2. after[e] # Nothing
        BY <1>0, <2>1 DEF Typed, Sound
  <2>3. TypeOK'
        BY <1>0, <2>1, <2>2, AnnounceTyped, TypeKept DEF Typed, TypeOK
  <2>4. WorkTypeOK'
        BY <1>0, <2>1, WorkTypeKept DEF Places
  <2>5. Sound(e)'
        BY <1>0, <2>1, <2>2 DEF Typed, WorkTypeOK, Sound, args
  <2>. QED
       BY <2>3, <2>4, <2>5
<1>. QED
      BY <1>1, <1>2, <1>3, <1>4 DEF EditStep

LEMMA BeatTyped ==
    ASSUME Typed, NEW b \in Beat, BeatStep(b)
    PROVE  TypeOK' /\ WorkTypeOK' /\ Sound(b)'
<1> USE DEF Goto
<1>0. b \in Request /\ b \notin Edit /\ b \notin Swap
      BY LiveAssumption DEF Request
<1>1. ASSUME NEW s \in Serial, NEW v \in BOOLEAN, ReadOnline(b, s, v)
      PROVE  TypeOK' /\ WorkTypeOK' /\ Sound(b)'
  <2> DEFINE d == PointOf(s)
  <2> DEFINE seen == IF d = None THEN Nothing ELSE [dev |-> d, row |-> Row(d)]
  <2>1. /\ pc[b] = "idle" /\ pc' = [pc EXCEPT ![b] = "write"]
        /\ ser' = [ser EXCEPT ![b] = s] /\ arg' = [arg EXCEPT ![b] = v]
        /\ before' = [before EXCEPT ![b] = seen]
        /\ UNCHANGED <<registered, installed, fields, objects, audit, board, file, after, history>>
        BY <1>1 DEF ReadOnline
  <2>2. seen \in Seen \union {Nothing}
    <3>1. d # None => d \in Device
          BY PointFound
    <3> HIDE DEF d
    <3>. QED
         BY <3>1, RowTyped DEF Typed, Seen
  <2> HIDE DEF d, seen
  <2>3. before' \in [Request -> Seen \union {Nothing}]
        BY <1>0, <2>1, <2>2 DEF Typed, WorkTypeOK
  <2>4. \A r \in Request : before'[r] # Nothing => before'[r].dev \in Device /\ before'[r].row \in Rows
        BY <2>3 DEF Seen
  <2>5. TypeOK'
        BY <2>1, <2>4 DEF Typed, TypeOK, RegistryTypeOK, fields, history
  <2>6. WorkTypeOK'
        BY <1>0, <2>1, <2>3 DEF Typed, WorkTypeOK, Places
  <2>7. Sound(b)'
    <3>1. pc'[b] = "write" /\ arg'[b] = v /\ ser'[b] = s /\ after'[b] = Nothing
          BY <1>0, <2>1 DEF Typed, WorkTypeOK, Sound
    <3>. QED
         BY <1>0, <3>1 DEF Sound
  <2>. QED
       BY <2>5, <2>6, <2>7
<1>2. CASE WriteOnline(b)
  <2>1. PICK d \in Device : Writes(b, d) /\ pc[b] = "write" /\ pc' = [pc EXCEPT ![b] = "emit"]
        BY <1>2, BeatWrites
  <2>2. TypeOK' /\ WorkTypeOK' /\ after'[b] # Nothing
        BY <1>0, <2>1, WritesTyped
  <2>3. pc'[b] = "emit" /\ UNCHANGED <<args, before>>
        BY <1>0, <2>1 DEF Typed, WorkTypeOK, Writes
  <2>. QED
       BY <1>0, <2>1, <2>2, <2>3 DEF Typed, Sound, args
<1>3. CASE NoSuchDevice(b) \/ SameStatus(b)
  <2>1. /\ UNCHANGED <<registered, installed, fields, objects, audit, board, args, before, after,
                       history>>
        /\ \/ pc[b] = "write" /\ pc' = [pc EXCEPT ![b] = "failed"]
           \/ pc[b] = "emit"  /\ pc' = [pc EXCEPT ![b] = "done"]
        BY <1>3 DEF NoSuchDevice, SameStatus
  <2>2. TypeOK'
        BY <2>1, TypeKept DEF Typed, TypeOK, history
  <2>3. WorkTypeOK'
        BY <1>0, <2>1, WorkTypeKept DEF Places
  <2>4. Sound(b)'
        BY <1>0, <2>1 DEF Typed, WorkTypeOK, Sound, args
  <2>. QED
       BY <2>2, <2>3, <2>4
<1>4. CASE EmitOnline(b)
  <2>1. /\ UNCHANGED <<registered, installed, fields, objects, audit, args, before, after>>
        /\ pc[b] = "emit" /\ Announce(b) /\ pc' = [pc EXCEPT ![b] = "done"]
        BY <1>4 DEF EmitOnline
  <2>2. after[b] # Nothing
        BY <1>0, <2>1 DEF Typed, Sound
  <2>3. TypeOK'
        BY <1>0, <2>1, <2>2, AnnounceTyped, TypeKept DEF Typed, TypeOK
  <2>4. WorkTypeOK'
        BY <1>0, <2>1, WorkTypeKept DEF Places
  <2>5. Sound(b)'
        BY <1>0, <2>1, <2>2 DEF Typed, WorkTypeOK, Sound, args
  <2>. QED
       BY <2>3, <2>4, <2>5
<1>. QED
      BY <1>1, <1>2, <1>3, <1>4 DEF BeatStep

LEMMA SwapTyped ==
    ASSUME Typed, NEW w \in Swap, SwapStep(w)
    PROVE  TypeOK' /\ WorkTypeOK' /\ Sound(w)'
<1> USE DEF Goto
<1>0. w \in Request /\ w \notin Edit /\ w \notin Beat
      BY LiveAssumption DEF Request
<1>1. ASSUME NEW d \in Device, NEW s \in Serial, SwapBox(w, d, s)
      PROVE  TypeOK' /\ WorkTypeOK' /\ Sound(w)'
  <2>1. Writes(w, d) /\ pc' = [pc EXCEPT ![w] = "emit"]
        BY <1>1, SwapWrites
  <2>2. TypeOK' /\ WorkTypeOK' /\ after'[w] # Nothing
        BY <1>0, <2>1, WritesTyped
  <2>3. pc'[w] = "emit"
        BY <1>0, <2>1 DEF Typed, WorkTypeOK
  <2>. QED
       BY <1>0, <2>2, <2>3 DEF Sound
<1>2. CASE EmitSwapped(w)
  <2>1. /\ UNCHANGED <<registered, installed, fields, objects, audit, args, before, after>>
        /\ pc[w] = "emit" /\ Announce(w) /\ pc' = [pc EXCEPT ![w] = "audit"]
        BY <1>2 DEF EmitSwapped
  <2>2. after[w] # Nothing
        BY <1>0, <2>1 DEF Typed, Sound
  <2>3. TypeOK'
        BY <1>0, <2>1, <2>2, AnnounceTyped, TypeKept DEF Typed, TypeOK
  <2>4. WorkTypeOK'
        BY <1>0, <2>1, WorkTypeKept DEF Places
  <2>5. Sound(w)'
        BY <1>0, <2>1, <2>2 DEF Typed, WorkTypeOK, Sound, args
  <2>. QED
       BY <2>3, <2>4, <2>5
<1>. QED
      BY <1>1, <1>2 DEF SwapStep

LEMMA RecordTyped ==
    ASSUME Typed, NEW q \in Request, RecordAudit(q)
    PROVE  /\ TypeOK' /\ WorkTypeOK' /\ Sound(q)'
           /\ pc[q] = "audit" /\ pc' = [pc EXCEPT ![q] = "done"] /\ after[q] \in Written
           /\ q \in Edit \union Swap
<1>1. /\ UNCHANGED <<registered, installed, fields, objects, board, args, before, after, history>>
      /\ pc[q] = "audit" /\ pc' = [pc EXCEPT ![q] = "done"]
      /\ audit' = [audit EXCEPT ![after[q].dev] =
             Append(@, [by |-> q, snapshot |-> after[q].row, was |-> after[q].was])]
      BY DEF RecordAudit, Goto
<1>2. q \in Edit \union Swap
      BY <1>1 DEF Typed, Sound, Request
<1>3. after[q] \in Written
      BY <1>1 DEF Typed, WorkTypeOK, Sound
<1>4. after[q].dev \in Device /\ after[q].row \in Rows /\ after[q].was \in Rows
      BY <1>3 DEF Written
<1> DEFINE entry == [by |-> q, snapshot |-> after[q].row, was |-> after[q].was]
<1>5. entry \in Trail
      BY <1>2, <1>4 DEF Trail
<1> HIDE DEF entry
<1>6. audit' \in [Device -> Seq(Trail)] /\ \A d \in Device : Len(audit'[d]) >= 1
  <2>1. \A d \in Device : audit[d] \in Seq(Trail) /\ Len(audit[d]) >= 1
        BY DEF Typed, WorkTypeOK
  <2>2. audit' = [audit EXCEPT ![after[q].dev] = Append(audit[after[q].dev], entry)]
        BY <1>1 DEF entry
  <2>3. \A d \in Device : audit'[d] = IF d = after[q].dev THEN Append(audit[d], entry) ELSE audit[d]
        BY <2>2 DEF Typed, WorkTypeOK
  <2>4. \A d \in Device : audit'[d] \in Seq(Trail) /\ Len(audit'[d]) >= 1
    <3> TAKE d \in Device
    <3>1. Append(audit[d], entry) \in Seq(Trail) /\ Len(Append(audit[d], entry)) >= 1
          BY <1>5, <2>1, TrailGrows
    <3>. QED
         BY <2>1, <2>3, <3>1
  <2>. QED
       BY <2>2, <2>4 DEF Typed, WorkTypeOK
<1>7. WorkTypeOK'
      BY <1>1, <1>6 DEF Typed, WorkTypeOK, Places, args
<1>8. \A d \in Device : \A i \in 1 .. Len(audit'[d]) :
         /\ audit'[d][i].by \in Edit \union Swap \union {None}
         /\ {audit'[d][i].snapshot, audit'[d][i].was} \subseteq Rows
      BY <1>6, TrailTyped
<1>9. TypeOK'
      BY <1>1, <1>8 DEF Typed, TypeOK, RegistryTypeOK, fields, history
<1>10. Sound(q)'
      BY <1>1, <1>3, NothingIs, LiveAssumption DEF Typed, WorkTypeOK, Sound, args
<1>. QED
      BY <1>1, <1>2, <1>3, <1>7, <1>9, <1>10

LEMMA FailTyped ==
    ASSUME Typed, NEW q \in Request, Fail(q)
    PROVE  TypeOK' /\ WorkTypeOK' /\ Sound(q)'
<1>1. /\ UNCHANGED <<registered, installed, fields, objects, audit, board, args, before, after, moved>>
      /\ pc[q] \in {"upload", "clean", "emit", "audit"} /\ pc' = [pc EXCEPT ![q] = "failed"]
      /\ disturbed' = IF pc[q] \in {"clean", "emit"} THEN disturbed \union {after[q].dev}
                      ELSE disturbed
      BY DEF Fail
<1>2. pc[q] \in {"clean", "emit"} => after[q].dev \in Device
      BY <1>1 DEF Typed, TypeOK, Sound
<1>3. TypeOK'
      BY <1>1, <1>2, TypeKept DEF Typed, TypeOK
<1>4. WorkTypeOK'
      BY <1>1, WorkTypeKept DEF Places
<1>5. Sound(q)'
      BY <1>1 DEF Typed, WorkTypeOK, Sound, args
<1>. QED
      BY <1>3, <1>4, <1>5

LEMMA StepTyped ==
    ASSUME Typed, NEW q \in Request, StepOf(q)
    PROVE  Typed'
<1>1. TypeOK' /\ WorkTypeOK' /\ Sound(q)'
      BY EditTyped, BeatTyped, SwapTyped, RecordTyped, FailTyped DEF StepOf
<1>. QED
      BY <1>1, OthersSound DEF Typed

LEMMA InitTyped == Init => Typed
<1> SUFFICES ASSUME Init PROVE Typed
    OBVIOUS
<1>1. \A d \in Device : online[d] \in BOOLEAN /\ pic[d] \in Picture
      BY DEF Init, Picture
<1>2. \A d \in Device : Row(d) \in Rows
  <2>1. \A d \in Device : /\ installed[d] \in Serial \union {None} /\ note[d] \in Note
                          /\ pic[d] \in Picture \union {None}
        BY <1>1 DEF Init, RegistryInit, RegistryTypeOK
  <2>. QED
       BY <1>1, <2>1 DEF Row, Rows
<1>3. \A d \in Device : audit[d] = <<[by |-> None, snapshot |-> Row(d), was |-> Row(d)]>>
      BY DEF Init
<1>4. \A d \in Device : [by |-> None, snapshot |-> Row(d), was |-> Row(d)] \in Trail
      BY <1>2 DEF Trail
<1>5. \A d \in Device : audit[d] \in Seq(Trail) /\ Len(audit[d]) = 1
  <2> TAKE d \in Device
  <2> DEFINE entry == [by |-> None, snapshot |-> Row(d), was |-> Row(d)]
  <2>1. audit[d] = <<entry>> /\ entry \in Trail
        BY <1>3, <1>4
  <2> HIDE DEF entry
  <2>. QED
       BY <2>1
<1>6. audit \in [Device -> Seq(Trail)]
      BY <1>5 DEF Init
<1>7. WorkTypeOK
      BY <1>5, <1>6 DEF Init, WorkTypeOK, Places
<1>8. \A q \in Request : Sound(q)
      BY NothingIs DEF Init, Sound
<1>9. \A d \in Device : \A i \in 1 .. Len(audit[d]) :
         /\ audit[d][i].by \in Edit \union Swap \union {None}
         /\ {audit[d][i].snapshot, audit[d][i].was} \subseteq Rows
      BY <1>5, TrailTyped
<1>10. TypeOK
  <2>1. board \in [Device -> Rows]
        BY <1>2 DEF Init
  <2>. QED
       BY <1>1, <1>9, <2>1 DEF Init, TypeOK, RegistryInit, Picture
<1>. QED
      BY <1>7, <1>8, <1>10 DEF Typed

LEMMA NextTyped == Typed /\ [Next]_vars => Typed'
<1> SUFFICES ASSUME Typed, [Next]_vars PROVE Typed'
    OBVIOUS
<1>1. CASE UNCHANGED vars
      BY <1>1 DEF vars, fields, args, history, Typed, TypeOK, RegistryTypeOK, WorkTypeOK, Sound
<1>. QED
      BY <1>1, NextIsStep, StepTyped

\* The type invariant, for any points and any overlapping requests.
THEOREM TypeCorrect == Spec => []TypeOK
<1>1. Typed => TypeOK
      BY DEF Typed
<1>. QED
      BY <1>1, InitTyped, NextTyped, PTL DEF Spec

-----------------------------------------------------------------------------
(* What steps leave alone. *)

\* A request that has finished takes no step, and what a request has read and
\* written does not change once it has written.
LEMMA StepFacts ==
    ASSUME Typed, NEW q \in Request, StepOf(q)
    PROVE  /\ pc[q] \notin {"done", "unwound"} /\ disturbed \subseteq disturbed'
           /\ RecordAudit(q) \/ audit' = audit
           /\ after[q] # Nothing =>
                 /\ after'[q] = after[q] /\ before'[q] = before[q]
                 /\ arg'[q] = arg[q] /\ ser'[q] = ser[q]
<1> USE DEF Goto, args, history
<1>1. CASE q \in Edit /\ EditStep(q)
      BY <1>1 DEF EditStep, ReadBefore, UploadImage, WriteFields, WriteUnknown, SetFields, Wrote,
                  WriteFails, Unwind, CleanOld, EmitUpdated, EmitNothing, Announce, Typed, Sound
<1>2. CASE q \in Beat /\ BeatStep(q)
      BY <1>2 DEF BeatStep, ReadOnline, WriteOnline, Wrote, NoSuchDevice, EmitOnline,
                  SameStatus, Announce, Typed, Sound
<1>3. CASE q \in Swap /\ SwapStep(q)
      BY <1>3 DEF SwapStep, SwapBox, Wrote, EmitSwapped, Announce, Typed, Sound
<1>4. CASE RecordAudit(q) \/ Fail(q)
      BY <1>4 DEF RecordAudit, Fail
<1>. QED
      BY <1>1, <1>2, <1>3, <1>4 DEF StepOf

\* What any request has read and written is kept from its write on.
LEMMA WrittenKept ==
    ASSUME Typed, NEW q \in Request, StepOf(q), NEW r \in Request, after[r] # Nothing
    PROVE  /\ after'[r] = after[r] /\ before'[r] = before[r]
           /\ arg'[r] = arg[r] /\ ser'[r] = ser[r]
<1>1. CASE r = q
      BY <1>1, StepFacts
<1>2. CASE r # q
      BY <1>2, OthersKept
<1>. QED
      BY <1>1, <1>2

-----------------------------------------------------------------------------
(* The audit. *)

\* Every entry after the first is the write of a request that has finished, and
\* of no other entry.
TrailSound(d) ==
    \A i \in 2 .. Len(audit[d]) :
       /\ audit[d][i].by \in Request
       /\ pc[audit[d][i].by] = "done"
       /\ after[audit[d][i].by].dev = d
       /\ after[audit[d][i].by].row = audit[d][i].snapshot
       /\ \A j \in 2 .. Len(audit[d]) : audit[d][j].by = audit[d][i].by => j = i

Trails == \A d \in Device : TrailSound(d)

\* A recorded change is the last entry of the trail of its point.
LEMMA RecordAppends ==
    ASSUME Typed, NEW q \in Request, RecordAudit(q)
    PROVE  LET x == after[q].dev IN
           /\ x \in Device /\ pc[q] = "audit" /\ pc'[q] = "done"
           /\ after' = after /\ before' = before /\ disturbed' = disturbed
           /\ \A d \in Device \ {x} : audit'[d] = audit[d]
           /\ Len(audit[x]) \in Nat /\ Len(audit'[x]) = Len(audit[x]) + 1
           /\ audit'[x][Len(audit[x]) + 1].by = q
           /\ audit'[x][Len(audit[x]) + 1].snapshot = after[q].row
           /\ \A i \in 1 .. Len(audit[x]) : audit'[x][i] = audit[x][i]
<1>1. after[q] \in Written /\ pc[q] = "audit"
      BY RecordTyped
<1> DEFINE entry == [by |-> q, snapshot |-> after[q].row, was |-> after[q].was]
<1>2. PICK x \in Device : x = after[q].dev
      BY <1>1 DEF Written
<1>3. entry \in Trail /\ entry.by = q /\ entry.snapshot = after[q].row
      BY <1>1, RecordTyped DEF Trail, Written
<1>4. audit' = [audit EXCEPT ![x] = Append(audit[x], entry)]
      BY <1>2 DEF RecordAudit
<1> HIDE DEF entry
<1>5. audit[x] \in Seq(Trail)
      BY DEF Typed, WorkTypeOK
<1>6. audit'[x] = Append(audit[x], entry) /\ \A d \in Device \ {x} : audit'[d] = audit[d]
      BY <1>4 DEF Typed, WorkTypeOK
<1>7. /\ Len(audit[x]) \in Nat /\ Len(audit'[x]) = Len(audit[x]) + 1
      /\ audit'[x][Len(audit[x]) + 1] = entry
      /\ \A i \in 1 .. Len(audit[x]) : audit'[x][i] = audit[x][i]
      BY <1>3, <1>5, <1>6, TrailGrows
<1>8. pc'[q] = "done"
      BY DEF Typed, WorkTypeOK, RecordAudit, Goto
<1>9. after' = after /\ before' = before /\ disturbed' = disturbed
      BY DEF RecordAudit, history
<1>. QED
      BY <1>1, <1>2, <1>3, <1>6, <1>7, <1>8, <1>9

LEMMA TrailsStep ==
    ASSUME Typed, Trails, NEW q \in Request, StepOf(q)
    PROVE  Trails'
<1>1. \A r \in Request : pc[r] = "done" =>
         r # q /\ pc'[r] = "done" /\ after'[r] = after[r]
      BY StepFacts, OthersKept
<1>2. ASSUME NEW d \in Device, audit'[d] = audit[d]
      PROVE  TrailSound(d)'
      BY <1>1, <1>2 DEF Trails, TrailSound
<1>3. CASE audit' = audit
      BY <1>2, <1>3 DEF Trails
<1>4. CASE RecordAudit(q)
  <2>1. PICK x \in Device : x = after[q].dev
        BY <1>4, RecordAppends
  <2>2. /\ pc'[q] = "done" /\ after' = after
        /\ \A d \in Device \ {x} : audit'[d] = audit[d]
        /\ Len(audit[x]) \in Nat /\ Len(audit'[x]) = Len(audit[x]) + 1
        /\ audit'[x][Len(audit[x]) + 1].by = q
        /\ audit'[x][Len(audit[x]) + 1].snapshot = after[q].row
        /\ \A i \in 1 .. Len(audit[x]) : audit'[x][i] = audit[x][i]
        BY <1>4, <2>1, RecordAppends
  <2>3. \A i \in 2 .. Len(audit[x]) : audit[x][i].by # q
        BY <1>1 DEF Trails, TrailSound
  <2>4. TrailSound(x)'
    <3> DEFINE n == Len(audit[x])
    <3>1. \A i \in 2 .. Len(audit'[x]) : i \in 2 .. n \/ i = n + 1
          BY <2>2
    <3>2. \A i \in 2 .. n : i \in 1 .. n /\ audit'[x][i] = audit[x][i]
          BY <2>2
    <3> HIDE DEF n
    <3>3. ASSUME NEW i \in 2 .. Len(audit'[x])
          PROVE  /\ audit'[x][i].by \in Request
                 /\ pc'[audit'[x][i].by] = "done"
                 /\ after'[audit'[x][i].by].dev = x
                 /\ after'[audit'[x][i].by].row = audit'[x][i].snapshot
      <4>1. CASE i \in 2 .. n
        <5>1. audit'[x][i] = audit[x][i] /\ i \in 2 .. Len(audit[x])
              BY <3>2, <4>1 DEF n
        <5>. QED
             BY <1>1, <2>2, <5>1 DEF Trails, TrailSound
      <4>2. CASE i = n + 1
            BY <2>1, <2>2, <4>2 DEF n
      <4>. QED
           BY <3>1, <3>3, <4>1, <4>2
    <3>4. ASSUME NEW i \in 2 .. Len(audit'[x]), NEW j \in 2 .. Len(audit'[x]),
                 audit'[x][j].by = audit'[x][i].by
          PROVE  j = i
      <4>1. CASE i \in 2 .. n /\ j \in 2 .. n
        <5>1. /\ audit'[x][i] = audit[x][i] /\ i \in 2 .. Len(audit[x])
              /\ audit'[x][j] = audit[x][j] /\ j \in 2 .. Len(audit[x])
              BY <3>2, <4>1 DEF n
        <5>. QED
             BY <3>4, <5>1 DEF Trails, TrailSound
      <4>2. CASE i \in 2 .. n /\ j = n + 1
        <5>1. audit'[x][i].by # q
              BY <2>3, <3>2, <4>2 DEF n
        <5>. QED
             BY <2>2, <3>4, <4>2, <5>1 DEF n
      <4>3. CASE i = n + 1 /\ j \in 2 .. n
        <5>1. audit'[x][j].by # q
              BY <2>3, <3>2, <4>3 DEF n
        <5>. QED
             BY <2>2, <3>4, <4>3, <5>1 DEF n
      <4>. QED
           BY <3>1, <3>4, <4>1, <4>2, <4>3
    <3>. QED
         BY <3>3, <3>4 DEF TrailSound
  <2>. QED
       BY <1>2, <2>2, <2>4 DEF Trails
<1>. QED
      BY <1>3, <1>4, StepFacts

\* What device_audit shows as a user's change is a row that user wrote, with the
\* user's own values in it, and no change is recorded twice: requests that
\* overlap, fail or die between their write and the insert change nothing of it.
THEOREM AuditsAreOwnWrites == Spec => []AuditIsOwnWrite
<1>1. Init => Trails
  <2> SUFFICES ASSUME Init, NEW d \in Device PROVE TrailSound(d)
      BY DEF Trails
  <2>1. Len(audit[d]) = 1
        BY DEF Init
  <2>. QED
       BY <2>1 DEF TrailSound
<1>2. Typed /\ Trails /\ [Next]_vars => Trails'
  <2>1. ASSUME Trails, UNCHANGED vars PROVE Trails'
        BY <2>1 DEF vars, Trails, TrailSound
  <2>. QED
       BY <2>1, TrailsStep, NextIsStep
<1>3. Typed /\ Trails => AuditIsOwnWrite
  <2> SUFFICES ASSUME Typed, Trails, NEW d \in Device, NEW i \in 2 .. Len(audit[d]),
                      audit[d][i].by \in Edit
               PROVE  audit[d][i].snapshot.note = arg[audit[d][i].by]
      BY DEF AuditIsOwnWrite, Trails, TrailSound
  <2>1. PICK e \in Edit : e = audit[d][i].by
        OBVIOUS
  <2>2. e \in Request /\ pc[e] = "done" /\ after[e].row = audit[d][i].snapshot
        BY <2>1 DEF Trails, TrailSound
  <2>. QED
       BY <2>1, <2>2 DEF Typed, Sound
<1>. QED
      BY <1>1, <1>2, <1>3, InitTyped, NextTyped, PTL DEF Spec

-----------------------------------------------------------------------------
(* The pictures. *)

\* A picture belongs to one point: its first point, or the one its edit wrote.
Placed(p, d) == IF p \in Edit THEN after[p] # Nothing /\ after[p].dev = d ELSE p = d

\* What a point refers to is its own, and so is what an edit has read there.
ReadsPlaced(e) ==
    before[e] # Nothing /\ before[e].row.pic # None => Placed(before[e].row.pic, before[e].dev)

\* No point refers again to the picture an edit of it has replaced.
ReplacedIsGone(e) ==
    after[e] # Nothing /\ after[e].dev = before[e].dev /\ before[e].row.pic # after[e].row.pic
       => pic[after[e].dev] # before[e].row.pic

Pictures ==
    /\ \A d \in Device : pic[d] # None => Placed(pic[d], d)
    /\ \A e \in Edit : /\ ReadsPlaced(e) /\ ReplacedIsGone(e)
                       /\ pc[e] = "write" /\ file[e] => e \in objects
    /\ PictureLostForCause

\* An edit that has removed its own upload stays where it is.
LEMMA UnwoundKept ==
    ASSUME Typed, NEW q \in Request, StepOf(q)
    PROVE  \A e \in Edit : pc[e] = "unwound" => pc'[e] = "unwound"
BY StepFacts, OthersKept DEF Request

LEMMA PlacedOnce ==
    ASSUME NEW p, NEW d, NEW x, Placed(p, d), Placed(p, x)
    PROVE  d = x
BY DEF Placed

\* Who placed a picture has written, and so places it for good.
LEMMA PlacedKept ==
    ASSUME Typed, NEW q \in Request, StepOf(q), NEW p, NEW d, Placed(p, d)
    PROVE  Placed(p, d)'
<1>1. p \in Edit => p \in Request
      BY DEF Request
<1>. QED
      BY <1>1, WrittenKept DEF Placed

\* A step that leaves the pictures of the points, and what was read and written.
LEMMA PicturesKept ==
    ASSUME Typed, Pictures, UNCHANGED <<pic, before, after>>, objects \subseteq objects',
           \A e \in Edit : pc[e] = "unwound" => pc'[e] = "unwound",
           \A e \in Edit : pc'[e] = "write" /\ file'[e] => e \in objects'
    PROVE  Pictures'
BY DEF Pictures, ReadsPlaced, ReplacedIsGone, Placed, PictureLostForCause

\* A picture is removed that no point refers to, or only the point that the edit
\* wrote without learning it, or one the box of the edit was moved from.
LEMMA PictureRemoved ==
    ASSUME Typed, Pictures, NEW e \in Edit, Unwind(e) \/ CleanOld(e)
    PROVE  Pictures'
<1>1. UNCHANGED <<pic, before, after, file>>
      BY DEF Unwind, CleanOld, fields, args
<1>2. e \in Request /\ Edit \subseteq Request
      BY DEF Request
<1>3. \A o \in Edit : pc'[o] = "write" => pc[o] = "write"
      BY <1>2 DEF Unwind, CleanOld, Goto, Typed, WorkTypeOK
<1>u. \A o \in Edit : pc[o] = "unwound" => pc'[o] = "unwound"
      BY <1>2, UnwoundKept DEF StepOf, EditStep
<1>4. CASE Unwind(e)
  <2>1. objects \ {e} \subseteq objects' /\ pc[e] = "unwind" /\ pc'[e] = "unwound"
        BY <1>2, <1>4 DEF Unwind, Goto, Typed, WorkTypeOK
  <2>3. PictureLostForCause'
    <3> SUFFICES ASSUME NEW d \in Device, pic[d] # None, pic[d] \notin objects', pic[d] # e
                 PROVE  \/ pic[d] \in Edit /\ pc'[pic[d]] = "unwound"
                        \/ \E o \in Edit : /\ after[o] # Nothing /\ after[o].dev # d
                                            /\ before[o].dev = d /\ before[o].row.pic = pic[d]
        BY <1>1, <2>1 DEF PictureLostForCause
    <3>. QED
         BY <1>u, <2>1 DEF Pictures, PictureLostForCause
  <2>4. \A o \in Edit : pc'[o] = "write" /\ file'[o] => o \in objects'
        BY <1>1, <1>3, <2>1 DEF Pictures
  <2>. QED
       BY <1>1, <2>3, <2>4 DEF Pictures, ReadsPlaced, ReplacedIsGone, Placed
<1>5. CASE CleanOld(e)
  <2> DEFINE old == before[e].row.pic
  <2>0. pc[e] = "clean"
        BY <1>5 DEF CleanOld, Goto
  <2>1. before[e] # Nothing /\ after[e] # Nothing
        BY <1>2, <2>0 DEF Typed, Sound
  <2>2. objects' = objects \/ (old # None /\ old # after[e].row.pic /\ objects' = objects \ {old})
        BY <1>5 DEF CleanOld
  <2>3. CASE objects' = objects
        BY <1>1, <1>3, <1>u, <2>3, PicturesKept DEF Pictures
  <2>4. CASE old # None /\ old # after[e].row.pic /\ objects' = objects \ {old}
    <3>1. Placed(old, before[e].dev)
          BY <2>1, <2>4 DEF Pictures, ReadsPlaced
    <3>2. ASSUME NEW d \in Device, pic[d] = old
          PROVE  before[e].dev = d /\ after[e].dev # d
      <4>1. before[e].dev = d
            BY <2>4, <3>1, <3>2, PlacedOnce DEF Pictures
      <4>. QED
           BY <2>1, <2>4, <3>2, <4>1 DEF Pictures, ReplacedIsGone
    <3>3. PictureLostForCause'
          BY <1>1, <1>u, <2>1, <2>4, <3>2 DEF Pictures, PictureLostForCause
    <3>4. \A o \in Edit : pc[o] = "write" => o # old
          BY <3>1 DEF Placed, Typed, Sound, Request
    <3>5. \A o \in Edit : pc'[o] = "write" /\ file'[o] => o \in objects'
          BY <1>1, <1>3, <2>4, <3>4 DEF Pictures
    <3>. QED
         BY <1>1, <3>3, <3>5 DEF Pictures, ReadsPlaced, ReplacedIsGone, Placed
  <2>. QED
       BY <2>2, <2>3, <2>4
<1>. QED
      BY <1>4, <1>5

\* A request reads a point.
LEMMA PictureRead ==
    ASSUME Typed, Pictures, NEW q \in Request, StepOf(q),
           UNCHANGED <<pic, objects, after>>, after[q] = Nothing,
           \A r \in Request \ {q} : before'[r] = before[r],
           before'[q] # Nothing => before'[q].dev \in Device /\ before'[q].row.pic = pic[before'[q].dev],
           \A e \in Edit : pc'[e] = "write" /\ file'[e] => e \in objects
    PROVE  Pictures'
<1>1. ASSUME NEW d \in Device, pic'[d] # None PROVE Placed(pic[d], d)'
  <2>1. PICK p : p = pic[d]
        OBVIOUS
  <2>2. pic'[d] = p /\ Placed(p, d)
        BY <1>1, <2>1 DEF Pictures
  <2>3. Placed(p, d)'
        BY <2>2, PlacedKept
  <2>. QED
       BY <2>2, <2>3 DEF Placed
<1>2. ASSUME NEW e \in Edit PROVE ReadsPlaced(e)' /\ ReplacedIsGone(e)'
  <2>1. CASE e = q
        BY <2>1, PlacedKept DEF Pictures, ReadsPlaced, ReplacedIsGone
  <2>2. CASE e # q
    <3>1. before'[e] = before[e] /\ after'[e] = after[e]
          BY <2>2 DEF Request
    <3>. QED
         BY <3>1, PlacedKept DEF Pictures, ReadsPlaced, ReplacedIsGone
  <2>. QED
       BY <2>1, <2>2
<1>3. PictureLostForCause'
  <2> SUFFICES ASSUME NEW d \in Device, pic[d] # None, pic[d] \notin objects,
                      ~ (pic[d] \in Edit /\ pc[pic[d]] = "unwound")
               PROVE  \E e \in Edit : /\ after'[e] # Nothing /\ after'[e].dev # d
                                      /\ before'[e].dev = d /\ before'[e].row.pic = pic[d]
      BY UnwoundKept DEF PictureLostForCause
  <2>1. PICK e \in Edit : /\ after[e] # Nothing /\ after[e].dev # d
                          /\ before[e].dev = d /\ before[e].row.pic = pic[d]
        BY DEF Pictures, PictureLostForCause
  <2>2. before'[e] = before[e] /\ after'[e] = after[e]
        BY <2>1 DEF Request
  <2>. QED
       BY <2>1, <2>2
<1>4. ASSUME NEW e \in Edit PROVE pc'[e] = "write" /\ file'[e] => e \in objects'
      OBVIOUS
<1>. QED
      BY <1>1, <1>2, <1>3, <1>4 DEF Pictures

\* A request writes a point, and an edit with a file its picture.
LEMMA PictureWritten ==
    ASSUME Typed, Pictures, NEW q \in Request, StepOf(q), NEW d \in Device, Writes(q, d),
           after[q] = Nothing, pc'[q] # "write",
           pic'[d] = pic[d] \/ (q \in Edit /\ q \in objects /\ pic'[d] = q)
    PROVE  Pictures'
<1>1. /\ \A x \in Device \ {d} : pic'[x] = pic[x]
      /\ UNCHANGED <<objects, before>> /\ file' = file
      /\ after'[q] = [dev |-> d, row |-> Row(d)', was |-> Row(d)]
      /\ \A r \in Request \ {q} : after'[r] = after[r] /\ pc'[r] = pc[r]
      BY OthersKept DEF Writes, Typed, WorkTypeOK, args
<1>2. after'[q] # Nothing
      BY <1>1, WrittenIsSomething
<1>3. ASSUME NEW x \in Device, pic'[x] # None PROVE Placed(pic[x], x)'
  <2>1. CASE pic'[x] = pic[x]
    <3>1. PICK p : p = pic[x]
          OBVIOUS
    <3>2. pic'[x] = p /\ Placed(p, x)
          BY <1>3, <2>1, <3>1 DEF Pictures
    <3>3. Placed(p, x)'
          BY <3>2, PlacedKept
    <3>. QED
         BY <3>2, <3>3 DEF Placed
  <2>2. CASE pic'[x] # pic[x]
    <3>1. x = d /\ q \in Edit /\ pic'[d] = q
          BY <1>1, <2>2
    <3>. QED
         BY <1>1, <1>2, <3>1 DEF Placed
  <2>. QED
       BY <2>1, <2>2
<1>4. ASSUME NEW e \in Edit PROVE ReadsPlaced(e)'
      BY <1>1, PlacedKept DEF Pictures, ReadsPlaced
<1>5. ASSUME NEW e \in Edit PROVE ReplacedIsGone(e)'
  <2>0. e \in Request
        BY DEF Request
  <2>1. CASE e = q
    <3>1. after'[e].dev = d /\ after'[e].row.pic = pic'[d]
          BY <1>1, <2>1 DEF Row
    <3>. QED
         BY <1>1, <3>1 DEF ReplacedIsGone
  <2>2. CASE e # q
    <3>1. before'[e] = before[e] /\ after'[e] = after[e]
          BY <1>1, <2>0, <2>2
    <3>2. CASE pic'[after[e].dev] = pic[after[e].dev]
          BY <3>1, <3>2 DEF Pictures, ReplacedIsGone
    <3>3. CASE pic'[after[e].dev] # pic[after[e].dev] /\ after[e] # Nothing
      <4>1. after[e].dev \in Device
            BY <2>0, <3>3 DEF Typed, TypeOK
      <4>2. after[e].dev = d /\ q \in Edit /\ pic'[d] = q
            BY <1>1, <3>3, <4>1
      <4>3. before[e].row.pic = q => Placed(q, before[e].dev) \/ before[e] = Nothing
            BY <4>2, LiveAssumption DEF Pictures, ReadsPlaced
      <4>4. before[e] # Nothing
            BY <2>0, <3>3 DEF Typed, Sound
      <4>5. before[e].row.pic # q
            BY <4>2, <4>3, <4>4 DEF Placed
      <4>. QED
           BY <3>1, <4>2, <4>5 DEF ReplacedIsGone
    <3>. QED
         BY <3>1, <3>2, <3>3 DEF ReplacedIsGone
  <2>. QED
       BY <2>1, <2>2
<1>6. PictureLostForCause'
  <2> SUFFICES ASSUME NEW x \in Device, pic'[x] # None, pic'[x] \notin objects,
                      ~ (pic'[x] \in Edit /\ pc'[pic'[x]] = "unwound")
               PROVE  \E e \in Edit : /\ after'[e] # Nothing /\ after'[e].dev # x
                                      /\ before'[e].dev = x /\ before'[e].row.pic = pic'[x]
      BY <1>1 DEF PictureLostForCause
  <2>1. pic'[x] = pic[x] /\ ~ (pic[x] \in Edit /\ pc[pic[x]] = "unwound")
        BY <1>1, UnwoundKept
  <2>2. PICK e \in Edit : /\ after[e] # Nothing /\ after[e].dev # x
                          /\ before[e].dev = x /\ before[e].row.pic = pic[x]
        BY <2>1 DEF Pictures, PictureLostForCause
  <2>3. before'[e] = before[e] /\ after'[e] = after[e]
        BY <1>1, <2>2 DEF Request
  <2>. QED
       BY <2>1, <2>2, <2>3
<1>7. ASSUME NEW e \in Edit PROVE pc'[e] = "write" /\ file'[e] => e \in objects'
      BY <1>1 DEF Pictures, Request
<1>. QED
      BY <1>3, <1>4, <1>5, <1>6, <1>7 DEF Pictures

LEMMA PicturesStep ==
    ASSUME Typed, Pictures, NEW q \in Request, StepOf(q)
    PROVE  Pictures'
<1> USE DEF Goto, args
<1>0. \A r \in Request : pc[r] \in {"idle", "write"} => after[r] = Nothing
      BY DEF Typed, Sound
<1>a. \A r \in Request \ {q} : pc'[r] = pc[r] /\ file'[r] = file[r] /\ before'[r] = before[r]
      BY OthersKept
<1>w. \A e \in Edit : pc[e] = "write" /\ file[e] => e \in objects
      BY DEF Pictures
<1>e. Edit \subseteq Request
      BY DEF Request
<1>u. \A e \in Edit : pc[e] = "unwound" => pc'[e] = "unwound"
      BY UnwoundKept
<1>1. ASSUME NEW s \in Serial, NEW n \in Note, NEW f \in BOOLEAN, ReadBefore(q, s, n, f), q \in Edit
      PROVE  Pictures'
  <2>1. PICK d \in Device : d = PointOf(s)
        BY <1>1, PointFound DEF ReadBefore
  <2>2. /\ UNCHANGED <<pic, objects, after>> /\ pc[q] = "idle"
        /\ pc' = [pc EXCEPT ![q] = IF f THEN "upload" ELSE "write"]
        /\ file' = [file EXCEPT ![q] = f]
        /\ before' = [before EXCEPT ![q] = [dev |-> d, row |-> Row(d)]]
        BY <1>1, <2>1 DEF ReadBefore, fields
  <2>3. before'[q] = [dev |-> d, row |-> Row(d)] /\ file'[q] = f
        BY <2>2 DEF Typed, WorkTypeOK
  <2>4. before'[q].dev = d /\ before'[q].row.pic = pic[d]
        BY <2>3 DEF Row
  <2>5. pc'[q] = "write" => ~ file'[q]
        BY <2>2, <2>3 DEF Typed, WorkTypeOK
  <2>. QED
       BY <1>0, <1>a, <1>w, <1>e, <2>2, <2>4, <2>5, PictureRead
<1>2. ASSUME NEW s \in Serial, NEW v \in BOOLEAN, ReadOnline(q, s, v), q \in Beat
      PROVE  Pictures'
  <2>1. PICK d : d = PointOf(s)
        OBVIOUS
  <2>2. d # None => d \in Device
        BY <2>1, PointFound
  <2>3. /\ UNCHANGED <<pic, objects, after>> /\ pc[q] = "idle"
        /\ before' = [before EXCEPT ![q] = IF d = None THEN Nothing ELSE [dev |-> d, row |-> Row(d)]]
        BY <1>2, <2>1 DEF ReadOnline, fields
  <2>4. before'[q] = IF d = None THEN Nothing ELSE [dev |-> d, row |-> Row(d)]
        BY <2>3 DEF Typed, WorkTypeOK
  <2>5. before'[q] # Nothing => before'[q].dev \in Device /\ before'[q].row.pic = pic[before'[q].dev]
        BY <2>2, <2>4 DEF Row
  <2>6. q \notin Edit
        BY <1>2, LiveAssumption
  <2>. QED
       BY <1>0, <1>a, <1>w, <1>e, <2>3, <2>5, <2>6, PictureRead
<1>3. CASE q \in Edit /\ (WriteFields(q) \/ WriteUnknown(q))
  <2>1. PICK d \in Device, place \in {"clean", "unwind"} :
                            /\ Writes(q, d) /\ pc[q] = "write" /\ pc' = [pc EXCEPT ![q] = place]
                            /\ pic'[d] = IF file[q] THEN q ELSE pic[d]
        BY <1>3, EditWrites
  <2>2. pc'[q] # "write"
        BY <2>1 DEF Typed, WorkTypeOK
  <2>. QED
       BY <1>0, <1>3, <1>w, <2>1, <2>2, PictureWritten
<1>4. CASE q \in Beat /\ WriteOnline(q)
  <2>1. PICK d \in Device : /\ Writes(q, d) /\ pc[q] = "write" /\ pc' = [pc EXCEPT ![q] = "emit"]
                            /\ pic' = pic
        BY <1>4, BeatWrites
  <2>2. pc'[q] # "write"
        BY <2>1 DEF Typed, WorkTypeOK
  <2>. QED
       BY <1>0, <2>1, <2>2, PictureWritten
<1>5. ASSUME NEW d \in Device, NEW s \in Serial, SwapBox(q, d, s), q \in Swap
      PROVE  Pictures'
  <2>1. Writes(q, d) /\ pc[q] = "idle" /\ pc' = [pc EXCEPT ![q] = "emit"] /\ pic' = pic
        BY <1>5, SwapWrites
  <2>2. pc'[q] # "write"
        BY <2>1 DEF Typed, WorkTypeOK
  <2>. QED
       BY <1>0, <2>1, <2>2, PictureWritten
<1>6. CASE q \in Edit /\ (Unwind(q) \/ CleanOld(q))
      BY <1>6, PictureRemoved
<1>7. CASE q \in Edit /\ UploadImage(q)
  <2>1. UNCHANGED <<pic, before, after>> /\ objects' = objects \union {q} /\ file' = file
        BY <1>7 DEF UploadImage, fields
  <2>. QED
       BY <1>a, <1>w, <1>e, <1>u, <2>1, PicturesKept
<1>8. CASE \/ q \in Edit /\ (WriteFails(q) \/ EmitUpdated(q) \/ EmitNothing(q))
           \/ q \in Beat /\ (NoSuchDevice(q) \/ EmitOnline(q) \/ SameStatus(q))
           \/ q \in Swap /\ EmitSwapped(q)
           \/ RecordAudit(q) \/ Fail(q)
  <2>1. UNCHANGED <<pic, before, after, objects, file>>
        BY <1>8 DEF WriteFails, EmitUpdated, EmitNothing, NoSuchDevice, EmitOnline, SameStatus,
                    EmitSwapped, RecordAudit, Fail, fields
  <2>2. pc'[q] # "write"
        BY <1>8 DEF WriteFails, EmitUpdated, EmitNothing, NoSuchDevice, EmitOnline, SameStatus,
                    EmitSwapped, RecordAudit, Fail, Typed, WorkTypeOK
  <2>. QED
       BY <1>a, <1>w, <1>e, <1>u, <2>1, <2>2, PicturesKept
<1>. QED
      BY <1>1, <1>2, <1>3, <1>4, <1>5, <1>6, <1>7, <1>8 DEF StepOf, EditStep, BeatStep, SwapStep

\* Edits of a point that overlap, fail or die never delete the picture it refers
\* to, with two exceptions: a swap moves the box to another point between the
\* read and the write of an edit, or an edit deletes its own upload because the
\* answer to its COMMIT was lost.
THEOREM PicturesAreKept == Spec => []PictureLostForCause
<1>1. Init => Pictures
      BY LiveAssumption
      DEF Init, Pictures, ReadsPlaced, ReplacedIsGone, Placed, PictureLostForCause, Request
<1>2. Typed /\ Pictures /\ [Next]_vars => Pictures'
  <2>1. ASSUME Pictures, UNCHANGED vars PROVE Pictures'
        BY <2>1 DEF vars, fields, args, Pictures, ReadsPlaced, ReplacedIsGone, Placed,
                    PictureLostForCause
  <2>. QED
       BY <2>1, PicturesStep, NextIsStep
<1>3. Pictures => PictureLostForCause
      BY DEF Pictures
<1>. QED
      BY <1>1, <1>2, <1>3, InitTyped, NextTyped, PTL DEF Spec

-----------------------------------------------------------------------------
(* What was read against what is there. *)

\* q reads its point, or finds none.
Reads(q) ==
    /\ q \in Edit \union Beat /\ pc[q] = "idle" /\ pc'[q] \in {"upload", "write"}
    /\ UNCHANGED <<registered, installed, fields, audit, board, after, history>>
    /\ before'[q] = Nothing \/ \E d \in Device :
          before'[q] = [dev |-> d, row |-> Row(d)] /\ Row(d).serial = ser'[q]

\* q does neither read nor write the table.
Goes(q) ==
    /\ UNCHANGED <<registered, installed, fields, args, before, after>>
    /\ pc'[q] \in {"upload", "write"} => pc[q] \in {"upload", "write"}

LEMMA StepKinds ==
    ASSUME Typed, NEW q \in Request, StepOf(q)
    PROVE  Reads(q) \/ (\E d \in Device : Writes(q, d)) \/ Goes(q)
<1> USE DEF Goto
<1>1. ASSUME NEW s \in Serial, NEW n \in Note, NEW f \in BOOLEAN, ReadBefore(q, s, n, f), q \in Edit
      PROVE  Reads(q)
  <2>1. PICK d \in Device : d = PointOf(s) /\ installed[d] = s
        BY <1>1, PointFound DEF ReadBefore
  <2>2. /\ UNCHANGED <<registered, installed, fields, audit, board, after, history>>
        /\ pc[q] = "idle" /\ pc' = [pc EXCEPT ![q] = IF f THEN "upload" ELSE "write"]
        /\ before' = [before EXCEPT ![q] = [dev |-> d, row |-> Row(d)]]
        /\ ser' = [ser EXCEPT ![q] = s]
        BY <1>1, <2>1 DEF ReadBefore
  <2>3. before'[q] = [dev |-> d, row |-> Row(d)] /\ ser'[q] = s /\ pc'[q] \in {"upload", "write"}
        BY <2>2 DEF Typed, WorkTypeOK
  <2>. QED
       BY <1>1, <2>1, <2>2, <2>3, RowTyped DEF Reads, Typed
<1>2. ASSUME NEW s \in Serial, NEW v \in BOOLEAN, ReadOnline(q, s, v), q \in Beat
      PROVE  Reads(q)
  <2>1. PICK d : d = PointOf(s)
        OBVIOUS
  <2>2. d # None => d \in Device /\ installed[d] = s
        BY <2>1, PointFound
  <2>3. /\ UNCHANGED <<registered, installed, fields, audit, board, after, history>>
        /\ pc[q] = "idle" /\ pc' = [pc EXCEPT ![q] = "write"]
        /\ before' = [before EXCEPT ![q] = IF d = None THEN Nothing ELSE [dev |-> d, row |-> Row(d)]]
        /\ ser' = [ser EXCEPT ![q] = s]
        BY <1>2, <2>1 DEF ReadOnline
  <2>4. /\ before'[q] = IF d = None THEN Nothing ELSE [dev |-> d, row |-> Row(d)]
        /\ ser'[q] = s /\ pc'[q] \in {"upload", "write"}
        BY <2>3 DEF Typed, WorkTypeOK
  <2>. QED
       BY <1>2, <2>2, <2>3, <2>4, RowTyped DEF Reads, Typed
<1>3. CASE q \in Edit /\ (WriteFields(q) \/ WriteUnknown(q))
      BY <1>3, EditWrites
<1>4. CASE q \in Beat /\ WriteOnline(q)
      BY <1>4, BeatWrites
<1>5. ASSUME NEW d \in Device, NEW s \in Serial, SwapBox(q, d, s), q \in Swap
      PROVE  Writes(q, d)
      BY <1>5, SwapWrites
<1>6. CASE \/ q \in Edit /\ (\/ UploadImage(q) \/ WriteFails(q) \/ Unwind(q) \/ CleanOld(q)
                             \/ EmitUpdated(q) \/ EmitNothing(q))
           \/ q \in Beat /\ (NoSuchDevice(q) \/ EmitOnline(q) \/ SameStatus(q))
           \/ q \in Swap /\ EmitSwapped(q)
           \/ RecordAudit(q) \/ Fail(q)
  <2>1. UNCHANGED <<registered, installed, fields, args, before, after>>
        BY <1>6 DEF UploadImage, WriteFails, Unwind, CleanOld, EmitUpdated, EmitNothing,
                    NoSuchDevice, EmitOnline, SameStatus, EmitSwapped, RecordAudit, Fail
  <2>2. pc'[q] \in {"upload", "write"} => pc[q] \in {"upload", "write"}
        BY <1>6 DEF UploadImage, WriteFails, Unwind, CleanOld, EmitUpdated, EmitNothing,
                    NoSuchDevice, EmitOnline, SameStatus, EmitSwapped, RecordAudit, Fail,
                    Typed, WorkTypeOK
  <2>. QED
       BY <2>1, <2>2 DEF Goes
<1>. QED
      BY <1>1, <1>2, <1>3, <1>4, <1>5, <1>6 DEF StepOf, EditStep, BeatStep, SwapStep

\* Edits and heartbeats write the point that has the box they were called with.
LEMMA ReaderWrites ==
    ASSUME Typed, NEW q \in Edit \union Beat, StepOf(q), NEW d \in Device, Writes(q, d)
    PROVE  pc[q] = "write" /\ installed[d] = ser[q]
<1>0. q \in Request /\ q \notin Swap
      BY LiveAssumption DEF Request
<1>1. after'[q] = [dev |-> d, row |-> Row(d)', was |-> Row(d)]
      BY <1>0 DEF Writes, Typed, WorkTypeOK
<1>2. ASSUME NEW x \in Device, Writes(q, x) PROVE x = d
  <2>1. after'[q] = [dev |-> x, row |-> Row(x)', was |-> Row(x)]
        BY <1>0, <1>2 DEF Writes, Typed, WorkTypeOK
  <2>. QED
       BY <1>1, <2>1
<1>3. CASE q \in Edit /\ (WriteFields(q) \/ WriteUnknown(q))
      BY <1>2, <1>3, EditWrites
<1>4. CASE q \in Beat /\ WriteOnline(q)
      BY <1>2, <1>4, BeatWrites
<1>5. after[q] = Nothing /\ pc[q] \in {"idle", "write"} /\ after'[q] # Nothing
      BY <1>0, <1>1, WrittenIsSomething DEF Writes, Typed, Sound
<1>6. (q \in Edit /\ (WriteFields(q) \/ WriteUnknown(q))) \/ (q \in Beat /\ WriteOnline(q))
      BY <1>0, <1>5
      DEF StepOf, EditStep, BeatStep, ReadBefore, UploadImage, WriteFails, Unwind, CleanOld,
          EmitUpdated, EmitNothing, ReadOnline, NoSuchDevice, EmitOnline, SameStatus,
          RecordAudit, Fail
<1>. QED
      BY <1>3, <1>4, <1>6

\* Of a point no two requests have overlapped on, a request has read, but for the
\* box, what is there until it writes, and what it then overwrites.
Fresh(q) ==
    /\ before[q] # Nothing => before[q].row.serial = ser[q]
    /\ pc[q] \in {"upload", "write"} /\ before[q] # Nothing /\ before[q].dev \notin disturbed =>
          before[q].row = [Row(before[q].dev) EXCEPT !.serial = ser[q]]
    /\ after[q] # Nothing /\ after[q].dev = before[q].dev /\ after[q].dev \notin disturbed =>
          after[q].was = before[q].row

Reader == Edit \union Beat

LEMMA FreshStep ==
    ASSUME Typed, \A r \in Reader : Fresh(r), NEW q \in Request, StepOf(q)
    PROVE  \A r \in Reader : Fresh(r)'
<1>0. Reader \subseteq Request
      BY DEF Reader, Request
<1>a. disturbed \subseteq disturbed'
      BY StepFacts
<1>b. \A r \in Reader \ {q} : /\ pc'[r] = pc[r] /\ ser'[r] = ser[r]
                              /\ before'[r] = before[r] /\ after'[r] = after[r]
      BY <1>0, OthersKept
<1>1. ASSUME Reads(q), NEW r \in Reader PROVE Fresh(r)'
  <2>1. \A d \in Device : Row(d)' = Row(d)
        BY <1>1 DEF Reads, Row, fields
  <2>2. after' = after /\ disturbed' = disturbed
        BY <1>1 DEF Reads, history
  <2>3. CASE r # q
    <3>1. before[r] # Nothing => before[r].dev \in Device
          BY <1>0 DEF Typed, TypeOK
    <3>2. before[r] # Nothing => Row(before[r].dev)' = Row(before[r].dev)
          BY <1>b, <2>1, <2>3, <3>1
    <3>. QED
         BY <1>b, <2>2, <2>3, <3>2 DEF Fresh
  <2>4. CASE r = q
    <3>1. after'[q] = Nothing
          BY <1>1, <2>2 DEF Reads, Typed, Sound
    <3>2. CASE before'[q] = Nothing
          BY <2>4, <3>1, <3>2 DEF Fresh
    <3>3. CASE before'[q] # Nothing
      <4>1. PICK d \in Device : before'[q] = [dev |-> d, row |-> Row(d)] /\ Row(d).serial = ser'[q]
            BY <1>1, <3>3 DEF Reads
      <4>2. [Row(d) EXCEPT !.serial = ser'[q]] = Row(d)
            BY <4>1 DEF Row
      <4>3. before'[q].dev = d /\ before'[q].row = Row(d) /\ Row(before[q].dev)' = Row(d)
            BY <2>1, <4>1
      <4>. QED
           BY <2>4, <3>1, <4>1, <4>2, <4>3 DEF Fresh
    <3>. QED
         BY <3>2, <3>3
  <2>. QED
       BY <2>3, <2>4
<1>2. ASSUME NEW d \in Device, Writes(q, d), NEW r \in Reader PROVE Fresh(r)'
  <2>0. /\ before' = before /\ ser' = ser
        /\ after'[q] = [dev |-> d, row |-> Row(d)', was |-> Row(d)]
        BY <1>2 DEF Writes, args, Typed, WorkTypeOK
  <2>1. CASE r = q
    <3>1. pc[q] = "write" /\ installed[d] = ser[q]
          BY <1>2, <2>1, ReaderWrites DEF Reader
    <3>2. pc'[q] \notin {"upload", "write"}
          BY <1>2 DEF Writes
    <3>3. ASSUME before[q].dev = d, d \notin disturbed'
          PROVE  Row(d) = before[q].row
      <4>1. before[q].row = [Row(d) EXCEPT !.serial = ser[q]]
            BY <1>a, <2>1, <3>1, <3>3, NothingIs DEF Fresh
      <4>2. Row(d).serial = ser[q]
            BY <3>1 DEF Row
      <4>. QED
           BY <4>1, <4>2 DEF Row
    <3>4. after'[q].dev = d /\ after'[q].was = Row(d) /\ before'[q] = before[q] /\ ser'[q] = ser[q]
          BY <2>0
    <3>5. before[q] # Nothing => before[q].row.serial = ser[q]
          BY <2>1 DEF Fresh
    <3>. QED
         BY <2>1, <3>2, <3>3, <3>4, <3>5 DEF Fresh
  <2>2. CASE r # q
    <3>1. CASE pc[r] \in {"upload", "write"} /\ before[r] # Nothing /\ before[r].dev \notin disturbed'
      <4>1. PICK x \in Device : x = before[r].dev
            BY <1>0, <3>1 DEF Typed, TypeOK
      <4>2. x # d
        <5>1. before[r].dev = d => Holds(r, d)
              BY <3>1 DEF Holds
        <5>2. before[r].dev = d => d \in disturbed'
              BY <1>0, <1>2, <2>2, <5>1 DEF Writes, Overlaps
        <5>. QED
             BY <3>1, <4>1, <5>2
      <4>3. note'[x] = note[x] /\ online'[x] = online[x] /\ pic'[x] = pic[x]
            BY <1>2, <4>2 DEF Writes
      <4>4. [Row(x) EXCEPT !.serial = ser[r]]' = [Row(x) EXCEPT !.serial = ser[r]]
            BY <2>0, <4>3 DEF Row
      <4>5. before[r].row = [Row(x) EXCEPT !.serial = ser[r]]
            BY <1>a, <3>1, <4>1 DEF Fresh
      <4>6. before'[r].dev = x /\ before'[r].row = [Row(x) EXCEPT !.serial = ser[r]]'
            BY <2>0, <4>1, <4>4, <4>5
      <4>. QED
           BY <1>a, <1>b, <2>2, <4>6 DEF Fresh
    <3>2. CASE ~ (pc[r] \in {"upload", "write"} /\ before[r] # Nothing /\ before[r].dev \notin disturbed')
          BY <1>a, <1>b, <2>2, <3>2 DEF Fresh
    <3>. QED
         BY <3>1, <3>2
  <2>. QED
       BY <2>1, <2>2
<1>3. ASSUME Goes(q), NEW r \in Reader PROVE Fresh(r)'
  <2>1. before' = before /\ after' = after /\ ser' = ser
        BY <1>3 DEF Goes, args
  <2>2. \A d : Row(d)' = Row(d)
        BY <1>3 DEF Goes, Row, fields
  <2>3. Row(before[r].dev)' = Row(before[r].dev)
        BY <2>1, <2>2
  <2>4. pc'[r] \in {"upload", "write"} => pc[r] \in {"upload", "write"}
        BY <1>3, <1>b DEF Goes
  <2>. QED
       BY <1>a, <2>1, <2>3, <2>4 DEF Fresh
<1>. QED
      BY <1>1, <1>2, <1>3, StepKinds

-----------------------------------------------------------------------------
(* What the dashboards are told. *)

\* q has written d and has not announced it.
Pending(q, d) == pc[q] \in {"clean", "emit"} /\ after[q].dev = d

\* Of a point no accident has befallen, at most one change is to be announced:
\* the row that is there, to dashboards that have the row it replaced.
PointTold(d) ==
    d \notin disturbed =>
       /\ \A q \in Request, o \in Request : Pending(q, d) /\ Pending(o, d) => o = q
       /\ d \notin moved =>
             /\ \A q \in Request : Pending(q, d) => after[q].row = Row(d) /\ board[d] = after[q].was
             /\ board[d] # Row(d) => \E q \in Request : Pending(q, d)

\* A heartbeat changes the status of the point whose status it has read.
BeatTold(b) ==
    after[b] # Nothing /\ after[b].dev \notin disturbed =>
       after[b].row = [after[b].was EXCEPT !.online = arg[b]] /\ before[b].dev = after[b].dev

Told ==
    /\ \A d \in Device : PointTold(d)
    /\ \A b \in Beat : BeatTold(b)
    /\ \A r \in Reader : Fresh(r)

\* A change that is not announced has changed nothing.
LEMMA UnannouncedIsSame ==
    ASSUME Typed, Told, NEW q \in Request,
           (q \in Edit /\ EmitNothing(q)) \/ (q \in Beat /\ SameStatus(q)),
           after[q].dev \notin disturbed
    PROVE  after[q].row = after[q].was
<1>1. pc[q] = "emit" /\ after[q] # Nothing /\ after[q] \in Written
      BY DEF EmitNothing, SameStatus, Goto, Typed, Sound, WorkTypeOK
<1>2. Fresh(q)
      BY DEF Told, Reader
<1>3. CASE q \in Edit /\ EmitNothing(q)
      BY <1>1, <1>2, <1>3 DEF EmitNothing, Differs, Fresh
<1>4. CASE q \in Beat /\ SameStatus(q)
  <2>1. before[q] # Nothing /\ before[q].row.online = arg[q]
        BY <1>4 DEF SameStatus, StatusChanged
  <2>2. after[q].row = [after[q].was EXCEPT !.online = arg[q]] /\ before[q].dev = after[q].dev
        BY <1>1, <1>4 DEF Told, BeatTold
  <2>3. after[q].was = before[q].row /\ after[q].was \in Rows
        BY <1>1, <1>2, <2>2 DEF Fresh, Written
  <2>4. after[q].was.online = arg[q]
        BY <2>1, <2>3
  <2>. QED
       BY <2>2, <2>3, <2>4 DEF Rows
<1>. QED
      BY <1>3, <1>4

\* A write.
LEMMA ToldWrite ==
    ASSUME Typed, Told, NEW q \in Request, StepOf(q), NEW x \in Device, Writes(q, x),
           NEW d \in Device
    PROVE  PointTold(d)'
<1>1. /\ board' = board /\ moved \subseteq moved' /\ disturbed \subseteq disturbed'
      /\ after'[q] = [dev |-> x, row |-> Row(x)', was |-> Row(x)]
      /\ \A r \in Request \ {q} : after'[r] = after[r] /\ pc'[r] = pc[r]
      BY OthersKept DEF Writes, Typed, WorkTypeOK
<1>2. after'[q].dev = x /\ after'[q].row = Row(x)' /\ after'[q].was = Row(x)
      BY <1>1
<1>3. /\ pc'[q] = "unwind" => x \in disturbed'
      /\ pc'[q] \in {"clean", "emit", "unwind"} /\ pc[q] \notin {"clean", "emit"}
      BY DEF Writes
<1>4. CASE d = x
  <2> SUFFICES ASSUME x \notin disturbed' PROVE PointTold(x)'
      BY <1>4 DEF PointTold
  <2>1. \A o \in Request \ {q} : ~ Pending(o, x)
    <3>1. \A o \in Request \ {q} : Pending(o, x) => Holds(o, x)
          BY DEF Pending, Holds
    <3>. QED
         BY <3>1 DEF Writes, Overlaps
  <2>2. \A o \in Request \ {q} : ~ Pending(o, x)'
        BY <1>1, <2>1 DEF Pending
  <2>3. Pending(q, x)'
        BY <1>2, <1>3 DEF Pending
  <2>4. x \notin moved' => board[x] = Row(x)
        BY <1>1, <1>3, <2>1 DEF Told, PointTold, Pending
  <2>. QED
       BY <1>1, <1>2, <2>2, <2>3, <2>4 DEF PointTold
<1>5. CASE d # x
  <2>1. \A o \in Request : Pending(o, d)' <=> Pending(o, d)
        BY <1>1, <1>2, <1>3, <1>5 DEF Pending
  <2>2. d \notin moved' => Row(d)' = Row(d)
        BY <1>5 DEF Writes, Row
  <2>3. \A o \in Request : Pending(o, d) => after'[o] = after[o]
        BY <1>1, <1>3 DEF Pending
  <2>. QED
       BY <1>1, <2>1, <2>2, <2>3 DEF Told, PointTold
<1>. QED
      BY <1>4, <1>5

\* An announcement.
LEMMA ToldAnnounce ==
    ASSUME Typed, Told, NEW q \in Request, StepOf(q), pc[q] = "emit", Announce(q),
           UNCHANGED <<registered, installed, fields, args, before, after>>,
           pc'[q] \notin {"clean", "emit"}, NEW d \in Device
    PROVE  PointTold(d)'
<1>1. after[q] # Nothing
      BY DEF Typed, Sound
<1>2. PICK x \in Device : x = after[q].dev
      BY <1>1, AnnounceTyped
<1>3. /\ board'[x] = after[q].row /\ \A y \in Device \ {x} : board'[y] = board[y]
      /\ moved' = (IF after[q].row = Row(x) THEN moved \ {x} ELSE moved)
      /\ disturbed' = disturbed
      BY <1>1, <1>2, AnnounceTyped DEF Announce
<1>4. Row(d)' = Row(d)
      BY DEF Row, fields
<1>5. \A o \in Request : Pending(o, d)' <=> o # q /\ Pending(o, d)
      BY OthersKept DEF Pending
<1>6. CASE d = x
  <2> SUFFICES ASSUME x \notin disturbed PROVE PointTold(x)'
      BY <1>3, <1>6 DEF PointTold
  <2>1. Pending(q, x)
        BY <1>2 DEF Pending
  <2>2. \A o \in Request : ~ Pending(o, x)'
        BY <1>5, <1>6, <2>1 DEF Told, PointTold
  <2>3. x \notin moved' => after[q].row = Row(x)
        BY <1>3, <2>1 DEF Told, PointTold
  <2>. QED
       BY <1>3, <1>4, <1>6, <2>2, <2>3 DEF PointTold
<1>7. CASE d # x
  <2>1. \A o \in Request : Pending(o, d)' <=> Pending(o, d)
        BY <1>2, <1>5, <1>7 DEF Pending
  <2>2. board'[d] = board[d] /\ (d \in moved' <=> d \in moved)
        BY <1>3, <1>7
  <2>. QED
       BY <1>3, <1>4, <2>1, <2>2 DEF Told, PointTold
<1>. QED
      BY <1>6, <1>7

\* Any other step: the table and the dashboards stay as they are.
LEMMA ToldQuiet ==
    ASSUME Typed, Told, NEW q \in Request, StepOf(q),
           UNCHANGED <<installed, fields, board, after, moved>>,
           \/ pc'[q] \in {"clean", "emit"} <=> pc[q] \in {"clean", "emit"}
           \/ pc[q] \in {"clean", "emit"} /\ after[q].dev \in disturbed'
           \/ (q \in Edit /\ EmitNothing(q)) \/ (q \in Beat /\ SameStatus(q)),
           NEW d \in Device
    PROVE  PointTold(d)'
<1>1. Row(d)' = Row(d) /\ disturbed \subseteq disturbed'
      BY StepFacts DEF Row, fields
<1>2. \A o \in Request \ {q} : Pending(o, d)' <=> Pending(o, d)
      BY OthersKept DEF Pending
<1>3. CASE Pending(q, d)' <=> Pending(q, d)
      BY <1>1, <1>2, <1>3 DEF Told, PointTold
<1>4. CASE ~ (Pending(q, d)' <=> Pending(q, d))
  <2>1. ~ (pc'[q] \in {"clean", "emit"} <=> pc[q] \in {"clean", "emit"}) /\ after[q].dev = d
        BY <1>4 DEF Pending
  <2>2. CASE pc[q] \in {"clean", "emit"} /\ after[q].dev \in disturbed'
        BY <2>1, <2>2 DEF PointTold
  <2>3. CASE ((q \in Edit /\ EmitNothing(q)) \/ (q \in Beat /\ SameStatus(q))) /\ d \notin disturbed
    <3>1. after[q].row = after[q].was
          BY <2>1, <2>3, UnannouncedIsSame
    <3>2. Pending(q, d) /\ ~ Pending(q, d)'
          BY <1>4, <2>3 DEF EmitNothing, SameStatus, Goto, Pending, Typed, WorkTypeOK
    <3>3. d \notin moved => board[d] = Row(d)
          BY <2>3, <3>1, <3>2 DEF Told, PointTold
    <3>. QED
         BY <1>1, <1>2, <2>3, <3>2, <3>3 DEF Told, PointTold
  <2>4. CASE d \in disturbed
        BY <1>1, <2>4 DEF PointTold
  <2>. QED
       BY <2>1, <2>2, <2>3, <2>4
<1>. QED
      BY <1>3, <1>4

LEMMA PointsTold ==
    ASSUME Typed, Told, NEW q \in Request, StepOf(q), NEW d \in Device
    PROVE  PointTold(d)'
<1> USE DEF Goto
<1>1. CASE Reads(q)
  <2>1. UNCHANGED <<installed, fields, board, after, moved>>
        BY <1>1 DEF Reads, history
  <2>2. pc[q] \notin {"clean", "emit"} /\ pc'[q] \notin {"clean", "emit"}
        BY <1>1 DEF Reads
  <2>. QED
       BY <2>1, <2>2, ToldQuiet
<1>2. CASE \E x \in Device : Writes(q, x)
      BY <1>2, ToldWrite
<1>3. CASE \/ q \in Edit /\ EmitUpdated(q)
           \/ q \in Beat /\ EmitOnline(q)
           \/ q \in Swap /\ EmitSwapped(q)
  <2>1. /\ pc[q] = "emit" /\ Announce(q)
        /\ UNCHANGED <<registered, installed, fields, args, before, after>>
        BY <1>3 DEF EmitUpdated, EmitOnline, EmitSwapped
  <2>2. pc'[q] \notin {"clean", "emit"}
        BY <1>3 DEF EmitUpdated, EmitOnline, EmitSwapped, Typed, WorkTypeOK
  <2>. QED
       BY <2>1, <2>2, ToldAnnounce
<1>4. CASE \/ q \in Edit /\ (UploadImage(q) \/ WriteFails(q) \/ Unwind(q) \/ CleanOld(q))
           \/ q \in Beat /\ NoSuchDevice(q)
           \/ RecordAudit(q)
  <2>1. UNCHANGED <<installed, fields, board, after, moved>>
        BY <1>4 DEF UploadImage, WriteFails, Unwind, CleanOld, NoSuchDevice, RecordAudit, history
  <2>2. pc'[q] \in {"clean", "emit"} <=> pc[q] \in {"clean", "emit"}
        BY <1>4 DEF UploadImage, WriteFails, Unwind, CleanOld, NoSuchDevice, RecordAudit,
                    Typed, WorkTypeOK
  <2>. QED
       BY <2>1, <2>2, ToldQuiet
<1>5. CASE (q \in Edit /\ EmitNothing(q)) \/ (q \in Beat /\ SameStatus(q))
  <2>1. UNCHANGED <<installed, fields, board, after, moved>>
        BY <1>5 DEF EmitNothing, SameStatus, history
  <2>. QED
       BY <1>5, <2>1, ToldQuiet
<1>6. CASE Fail(q)
  <2>1. UNCHANGED <<installed, fields, board, after, moved>>
        BY <1>6 DEF Fail
  <2>2. pc'[q] = "failed"
        BY <1>6 DEF Fail, Typed, WorkTypeOK
  <2>3. pc[q] \in {"clean", "emit"} => after[q].dev \in disturbed'
        BY <1>6 DEF Fail
  <2>. QED
       BY <2>1, <2>2, <2>3, ToldQuiet
<1>7. q \in Edit /\ (WriteFields(q) \/ WriteUnknown(q)) => \E x \in Device : Writes(q, x)
      BY EditWrites
<1>8. q \in Beat /\ WriteOnline(q) => \E x \in Device : Writes(q, x)
      BY BeatWrites
<1>9. ASSUME NEW x \in Device, NEW s \in Serial, q \in Swap, SwapBox(q, x, s)
      PROVE  \E y \in Device : Writes(q, y)
      BY <1>9, SwapWrites
<1>10. ASSUME NEW s \in Serial, NEW n \in Note, NEW f \in BOOLEAN, q \in Edit, ReadBefore(q, s, n, f)
       PROVE  Reads(q)
  <2>1. pc'[q] \in {"upload", "write"} /\ after' = after /\ pc[q] = "idle"
        BY <1>10 DEF ReadBefore, Typed, WorkTypeOK
  <2>2. ~ Goes(q)
        BY <2>1 DEF Goes
  <2>. QED
       BY <2>1, <2>2, StepKinds DEF Writes
<1>11. ASSUME NEW s \in Serial, NEW v \in BOOLEAN, q \in Beat, ReadOnline(q, s, v)
       PROVE  Reads(q)
  <2>1. pc'[q] \in {"upload", "write"} /\ after' = after /\ pc[q] = "idle"
        BY <1>11 DEF ReadOnline, Typed, WorkTypeOK
  <2>2. ~ Goes(q)
        BY <2>1 DEF Goes
  <2>. QED
       BY <2>1, <2>2, StepKinds DEF Writes
<1>. QED
      BY <1>1, <1>2, <1>3, <1>4, <1>5, <1>6, <1>7, <1>8, <1>9, <1>10, <1>11
      DEF StepOf, EditStep, BeatStep, SwapStep

LEMMA BeatsTold ==
    ASSUME Typed, Told, NEW q \in Request, StepOf(q), NEW b \in Beat
    PROVE  BeatTold(b)'
<1>0. b \in Request /\ b \notin Edit /\ disturbed \subseteq disturbed'
      BY LiveAssumption, StepFacts DEF Request
<1>1. CASE after[b] # Nothing
      BY <1>0, <1>1, WrittenKept DEF Told, BeatTold
<1>2. CASE after[b] = Nothing /\ after'[b] # Nothing
  <2>1. b = q
        BY <1>0, <1>2, OthersKept
  <2>2. WriteOnline(b)
        BY <1>0, <1>2, <2>1, LiveAssumption
        DEF StepOf, BeatStep, ReadOnline, NoSuchDevice, EmitOnline, SameStatus, RecordAudit, Fail
  <2>3. PICK d \in Device : Writes(b, d) /\ after'[b].row = [Row(d) EXCEPT !.online = arg[b]]
        BY <2>2, BeatWrites
  <2>4. after'[b] = [dev |-> d, row |-> Row(d)', was |-> Row(d)]
        BY <1>0, <2>3 DEF Writes, Typed, WorkTypeOK
  <2>5. after'[b].dev = d /\ after'[b].was = Row(d) /\ before'[b] = before[b] /\ arg'[b] = arg[b]
        BY <2>3, <2>4 DEF Writes, args
  <2>6. d \notin disturbed' => before[b].dev = d
        BY <2>3 DEF Writes, ComparesOther
  <2>. QED
       BY <2>3, <2>5, <2>6 DEF BeatTold
<1>3. CASE after[b] = Nothing /\ after'[b] = Nothing
      BY <1>3 DEF BeatTold
<1>. QED
      BY <1>1, <1>2, <1>3

LEMMA ToldInit == Init => Told
<1> SUFFICES ASSUME Init PROVE Told
    OBVIOUS
<1>1. \A d \in Device : PointTold(d)
      BY DEF Init, PointTold, Pending
<1>2. \A b \in Beat : BeatTold(b)
      BY DEF Init, BeatTold, Request
<1>3. \A r \in Reader : Fresh(r)
      BY DEF Init, Fresh, Reader, Request
<1>. QED
      BY <1>1, <1>2, <1>3 DEF Told

LEMMA ToldNext == Typed /\ Told /\ [Next]_vars => Told'
<1>1. ASSUME Told, UNCHANGED vars PROVE Told'
      BY <1>1 DEF vars, fields, args, history, Told, PointTold, BeatTold, Fresh, Pending, Row
<1>2. ASSUME Typed, Told, NEW q \in Request, StepOf(q) PROVE Told'
  <2>1. \A r \in Reader : Fresh(r)'
        BY <1>2, FreshStep DEF Told
  <2>2. \A d \in Device : PointTold(d)'
        BY <1>2, PointsTold
  <2>3. \A b \in Beat : BeatTold(b)'
        BY <1>2, BeatsTold
  <2>. QED
       BY <2>1, <2>2, <2>3 DEF Told
<1>. QED
      BY <1>1, <1>2, NextIsStep

\* Dashboards that replace their copy of a point by each event end up right:
\* a copy is wrong only while the event is on its way, or when two requests
\* overlapped on the point, or a heartbeat compared it with another point, or a
\* process died, or the answer to a COMMIT was lost, or a swap took the box away.
THEOREM DashboardsAreRight == Spec => []BoardWrongOnlyByAccident
<1>1. Told => BoardWrongOnlyByAccident
      BY DEF Told, PointTold, Pending, BoardWrongOnlyByAccident
<1>. QED
      BY <1>1, InitTyped, NextTyped, ToldInit, ToldNext, PTL DEF Spec

-----------------------------------------------------------------------------
(* Every change of a user is in the audit. *)

Audited(e) ==
    pc[e] = "done" /\ after[e].row # after[e].was /\ after[e].dev \notin disturbed =>
       \E i \in 1 .. Len(audit[after[e].dev]) : audit[after[e].dev][i].by = e

\* Entries of a trail stay.
LEMMA EntriesStay ==
    ASSUME Typed, NEW q \in Request, StepOf(q), NEW d \in Device,
           NEW e, \E i \in 1 .. Len(audit[d]) : audit[d][i].by = e
    PROVE  \E i \in 1 .. Len(audit'[d]) : audit'[d][i].by = e
<1>1. CASE audit' = audit
      BY <1>1
<1>2. CASE RecordAudit(q) /\ d = after[q].dev
  <2>1. /\ Len(audit[d]) \in Nat /\ Len(audit'[d]) = Len(audit[d]) + 1
        /\ \A i \in 1 .. Len(audit[d]) : audit'[d][i] = audit[d][i]
        BY <1>2, RecordAppends
  <2>2. \A i \in 1 .. Len(audit[d]) : i \in 1 .. Len(audit'[d])
        BY <2>1
  <2>. QED
       BY <2>1, <2>2
<1>3. CASE RecordAudit(q) /\ d # after[q].dev
  <2>1. audit'[d] = audit[d]
        BY <1>3, RecordAppends
  <2>. QED
       BY <2>1
<1>. QED
      BY <1>1, <1>2, <1>3, StepFacts

LEMMA AuditedStep ==
    ASSUME Typed, Told, NEW q \in Request, StepOf(q), NEW e \in Edit \ Anonymous, Audited(e)
    PROVE  Audited(e)'
<1>0. e \in Request /\ disturbed \subseteq disturbed'
      BY StepFacts DEF Request
<1> SUFFICES ASSUME pc'[e] = "done", after'[e].row # after'[e].was, after'[e].dev \notin disturbed'
             PROVE  \E i \in 1 .. Len(audit'[after'[e].dev]) : audit'[after'[e].dev][i].by = e
    BY DEF Audited
<1>1. CASE e # q
  <2>1. pc[e] = "done" /\ after'[e] = after[e]
        BY <1>0, <1>1, OthersKept
  <2>2. PICK d \in Device : d = after[e].dev
        BY <1>0, <2>1 DEF Typed, TypeOK, Sound
  <2>3. \E i \in 1 .. Len(audit[d]) : audit[d][i].by = e
        BY <1>0, <2>1, <2>2 DEF Audited
  <2>4. \E i \in 1 .. Len(audit'[d]) : audit'[d][i].by = e
        BY <2>3, EntriesStay
  <2>. QED
       BY <2>1, <2>2, <2>4
<1>2. CASE e = q
  <2>1. e \notin Beat /\ e \notin Swap
        BY LiveAssumption
  <2>2. EmitNothing(e) \/ RecordAudit(e)
        BY <1>0, <1>2, <2>1
        DEF StepOf, EditStep, ReadBefore, UploadImage, WriteFields, WriteUnknown, WriteFails,
            Unwind, CleanOld, EmitUpdated, Fail, Goto, Typed, WorkTypeOK
  <2>3. CASE EmitNothing(e)
    <3>1. after' = after
          BY <2>3 DEF EmitNothing
    <3>. QED
         BY <1>0, <2>3, <3>1, UnannouncedIsSame
  <2>4. CASE RecordAudit(e)
    <3>1. PICK d \in Device : d = after[e].dev
          BY <1>0, <2>4, RecordAppends
    <3>2. /\ after' = after /\ Len(audit[d]) \in Nat /\ Len(audit'[d]) = Len(audit[d]) + 1
          /\ audit'[d][Len(audit[d]) + 1].by = e
          BY <1>0, <2>4, <3>1, RecordAppends
    <3>3. Len(audit[d]) + 1 \in 1 .. Len(audit'[d])
          BY <3>2
    <3>. QED
         BY <3>1, <3>2, <3>3
  <2>. QED
       BY <2>2, <2>3, <2>4
<1>. QED
      BY <1>1, <1>2

\* A user's edit that changed a point is in its audit, unless requests overlapped
\* on the point or the row was lost: comparing with the row read first loses none.
THEOREM EditsAreAudited == Spec => []ChangesAreAudited
<1> DEFINE Inv == \A e \in Edit \ Anonymous : Audited(e)
<1>1. Init => Inv
      BY DEF Init, Audited, Request
<1>2. Typed /\ Told /\ Inv /\ [Next]_vars => Inv'
  <2>1. ASSUME Inv, UNCHANGED vars PROVE Inv'
        BY <2>1 DEF vars, history, Audited
  <2>. QED
       BY <2>1, AuditedStep, NextIsStep
<1>3. Inv => ChangesAreAudited
      BY DEF Audited, ChangesAreAudited
<1> HIDE DEF Inv
<1>. QED
      BY <1>1, <1>2, <1>3, InitTyped, NextTyped, ToldInit, ToldNext, PTL DEF Spec

=============================================================================
