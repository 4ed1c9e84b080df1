---------------------- MODULE NotificationFanoutProofs ----------------------
(***************************************************************************)
(* Proofs about NotificationFanout, for any finite set of notifications,   *)
(* any number of users and any number of crashes.                          *)
(***************************************************************************)
EXTENDS NotificationFanout, FiniteSetTheorems, TLAPS

-----------------------------------------------------------------------------
(* Types, and the numbers of the rows. *)

\* A notification has had at most one row per crash before it is inserted
\* again, and no row has a number that is still to come.
Numbered ==
    /\ \A r \in rows : r[2] <= tries[r[1]]
    /\ \A n \in Note : /\ tries[n] <= crashes + 1
                       /\ pc[n] = "idle" => tries[n] <= crashes

LEMMA RowsCounted == IsFiniteSet(Row) /\ Cardinality(Row) \in Nat /\ 0 \in 0 .. Cardinality(Row)
<1>1. IsFiniteSet(1 .. 1 + MaxCrashes) /\ IsFiniteSet(Note)
      BY FanoutAssumption, FS_Interval DEF Note
<1>2. IsFiniteSet(Row)
      BY <1>1, FS_Product DEF Row
<1>3. Cardinality(Row) \in Nat
      BY <1>2, FS_CardinalityType
<1>. QED
      BY <1>2, <1>3

LEMMA UnreadTyped == ASSUME TypeOK PROVE Unread \in 0 .. Cardinality(Row)
<1>1. unread \subseteq Row
      BY DEF TypeOK
<1>2. IsFiniteSet(unread) /\ Cardinality(unread) <= Cardinality(Row)
      BY <1>1, RowsCounted, FS_Subset
<1>3. Cardinality(unread) \in Nat
      BY <1>2, FS_CardinalityType
<1>. QED
      BY <1>2, <1>3, RowsCounted DEF Unread

LEMMA InitTyped == Init => TypeOK /\ Numbered
<1> SUFFICES ASSUME Init PROVE TypeOK /\ Numbered
    OBVIOUS
<1>1. astray \in BOOLEAN
      BY DEF Init
<1>2. TypeOK
      BY <1>1, RowsCounted, FanoutAssumption DEF Init, TypeOK
<1>. QED
      BY <1>2, FanoutAssumption DEF Init, Numbered

LEMMA CreateTyped ==
    ASSUME TypeOK, Numbered, NEW n \in Note, Create(n)
    PROVE  TypeOK' /\ Numbered'
<1> USE DEF table, work, telling, sent, Goto, Turn, Current
<1>0. MaxCrashes \in Nat /\ crashes \in Nat /\ n \in Teller
      BY FanoutAssumption DEF TypeOK, Teller
<1>1. CASE Insert(n)
  <2> DEFINE new == <<n, tries[n] + 1>>
  <2>1. /\ pc[n] = "idle" /\ pc' = [pc EXCEPT ![n] = "publish"]
        /\ tries' = [tries EXCEPT ![n] = tries[n] + 1]
        /\ rows' = rows \union {new} /\ unread' = unread \union {new}
        /\ UNCHANGED <<sseFlag, fcmFlag, fcm, telling, sent, crashes>>
        BY <1>1 DEF Insert
  <2>2. tries[n] \in Nat /\ tries[n] <= crashes /\ crashes <= MaxCrashes
        BY <1>0, <2>1 DEF Numbered, TypeOK
  <2>3. new \in Row /\ new[1] = n /\ new[2] = tries[n] + 1
        BY <1>0, <2>2 DEF Row
  <2>4. tries[n] + 1 \in 0 .. 1 + MaxCrashes
        BY <1>0, <2>2
  <2> HIDE DEF new
  <2>5. TypeOK'
    <3>1. astray' \in BOOLEAN
          BY <2>1 DEF TypeOK
    <3>. QED
          BY <2>1, <2>3, <2>4, <3>1 DEF TypeOK
  <2>6. tries' \in [Note -> Nat] /\ tries'[n] = tries[n] + 1
        BY <1>0, <2>1, <2>4 DEF TypeOK
  <2>7. \A r \in rows' : r[2] <= tries'[r[1]]
    <3> SUFFICES ASSUME NEW r \in rows' PROVE r[2] <= tries'[r[1]]
        OBVIOUS
    <3>1. CASE r = new
          BY <2>2, <2>3, <2>6, <3>1
    <3>2. CASE r \in rows
      <4>1. r[1] \in Note /\ r[2] \in Nat /\ r[2] <= tries[r[1]] /\ tries[r[1]] \in Nat
            BY <3>2 DEF Numbered, TypeOK, Row
      <4>. QED
            BY <2>1, <2>2, <4>1 DEF TypeOK
    <3>. QED
          BY <2>1, <3>1, <3>2
  <2>8. \A m \in Note : /\ tries'[m] <= crashes' + 1
                        /\ pc'[m] = "idle" => tries'[m] <= crashes'
        BY <1>0, <2>1, <2>2 DEF Numbered, TypeOK
  <2>. QED
        BY <2>5, <2>7, <2>8 DEF Numbered
<1>2. CASE Refuse(n)
      BY <1>2 DEF Refuse, TypeOK, Numbered
<1>3. CASE Publish(n)
      BY <1>0, <1>3 DEF Publish, TypeOK, Numbered
<1>4. CASE Emit(n)
      BY <1>4 DEF Emit, TypeOK, Numbered
<1>5. CASE Record(n)
      BY <1>5 DEF Record, FlagRow, TypeOK, Numbered
<1>6. CASE RecordFails(n)
      BY <1>6 DEF RecordFails, TypeOK, Numbered
<1>7. CASE Answer(n)
      BY <1>0, <1>7 DEF Answer, TypeOK, Numbered
<1>. QED
      BY <1>1, <1>2, <1>3, <1>4, <1>5, <1>6, <1>7 DEF Create

LEMMA TellTyped ==
    ASSUME TypeOK, Numbered, NEW t \in Teller, Tell(t)
    PROVE  TypeOK' /\ Numbered'
<1> USE DEF table, work, telling, sent, Goto, Turn, Untold, Counted
<1>1. UNCHANGED <<table, tries, pc, crashes>>
      BY DEF Tell, LookupFails, TellOthers, CountUnread, Broadcast
<1>2. Numbered'
      BY <1>1 DEF Numbered
<1>3. astray' \in BOOLEAN
  <2>1. CASE LookupFails(t) \/ TellOthers(t)
        BY <2>1 DEF LookupFails, TellOthers
  <2>2. CASE CountUnread(t)
        BY <2>2 DEF CountUnread, TypeOK
  <2>3. CASE Broadcast(t)
        BY <2>3 DEF Broadcast
  <2>. QED
        BY <2>1, <2>2, <2>3 DEF Tell
<1>4. Unread \in 0 .. Cardinality(Row) /\ 0 \in 0 .. Cardinality(Row)
      BY UnreadTyped, RowsCounted
<1>5. TypeOK'
  <2>1. CASE LookupFails(t)
        BY <1>3, <2>1 DEF LookupFails, TypeOK
  <2>2. CASE TellOthers(t)
        BY <1>3, <2>2 DEF TellOthers, TypeOK
  <2>3. CASE CountUnread(t)
        BY <1>3, <1>4, <2>3 DEF CountUnread, TypeOK
  <2>4. CASE Broadcast(t)
        BY <1>3, <1>4, <2>4 DEF Broadcast, TypeOK
  <2>. QED
        BY <2>1, <2>2, <2>3, <2>4 DEF Tell
<1>. QED
      BY <1>2, <1>5

LEMMA UsersTyped ==
    ASSUME TypeOK, Numbered, Users
    PROVE  TypeOK' /\ Numbered'
<1> USE DEF table, work, telling, sent, Turn, Untold, Counted
<1>1. ASSUME NEW u \in Reader, MarkAllRead(u) PROVE TypeOK' /\ Numbered'
  <2>1. astray' \in BOOLEAN /\ u \in Teller
        BY <1>1 DEF MarkAllRead, TypeOK, Teller
  <2>. QED
        BY <1>1, <2>1 DEF MarkAllRead, TypeOK, Numbered
<1>2. ASSUME NEW u \in Reader, NEW r \in Row, MarkRead(u, r) PROVE TypeOK' /\ Numbered'
  <2>1. astray' \in BOOLEAN /\ u \in Teller
        BY <1>2 DEF MarkRead, TypeOK, Teller
  <2>. QED
        BY <1>2, <2>1 DEF MarkRead, TypeOK, Numbered
<1>3. ASSUME NEW r \in Row, Remove(r) PROVE TypeOK' /\ Numbered'
  <2>1. astray' \in BOOLEAN
        BY <1>3 DEF Remove
  <2>. QED
        BY <1>3, <2>1 DEF Remove, TypeOK, Numbered
<1>. QED
      BY <1>1, <1>2, <1>3 DEF Users

LEMMA NextTyped == TypeOK /\ Numbered /\ [Next]_vars => TypeOK' /\ Numbered'
<1> SUFFICES ASSUME TypeOK, Numbered, [Next]_vars PROVE TypeOK' /\ Numbered'
    OBVIOUS
<1>1. CASE Crash
  <2>1. crashes \in Nat /\ MaxCrashes \in Nat /\ \A n \in Note : tries[n] \in Nat
        BY FanoutAssumption DEF TypeOK
  <2>2. \A n \in Note : Interrupted(n) \in {"idle", "publish", "fanout", "ack", "nack",
                                            "over", "refused"}
        BY DEF Interrupted, TypeOK
  <2>3. astray' \in BOOLEAN /\ 0 \in 0 .. Cardinality(Row)
        BY <1>1, RowsCounted DEF Crash
  <2>4. TypeOK'
        BY <1>1, <2>1, <2>2, <2>3 DEF Crash, TypeOK, table
  <2>5. Numbered'
        BY <1>1, <2>1 DEF Crash, Numbered, table
  <2>. QED
        BY <2>4, <2>5
<1>2. CASE UNCHANGED vars
      BY <1>2 DEF vars, table, work, telling, sent, TypeOK, Numbered
<1>. QED
      BY <1>1, <1>2, CreateTyped, TellTyped, UsersTyped DEF Next

\* The type invariant, for any number of notifications and crashes.
THEOREM TypeCorrect == Spec => []TypeOK
BY InitTyped, NextTyped, PTL DEF Spec

-----------------------------------------------------------------------------
(* The two channels of a notification, and the flags of its row. *)

\* The channels are at work between the fan-out and the answer; shown and pushed
\* are about the row that create works on.
LanesSound(n) ==
    /\ pc[n] \in {"idle", "publish", "over", "refused"} =>
          lane[n] = "idle" /\ fcm[n] = "none" /\ n \notin shown \union pushed
    /\ pc[n] = "fanout" => lane[n] # "idle" /\ fcm[n] # "none"
    /\ pc[n] \in {"ack", "nack"} => BothTried(n)
    /\ n \in shown <=> lane[n] = "told"
    /\ fcm[n] = "ok" => n \in pushed

FlagsSound(n) ==
    Current(n) \in rows =>
        /\ pc[n] \in {"publish", "fanout"} => Current(n) \notin sseFlag \union fcmFlag
        /\ pc[n] = "ack" => /\ Current(n) \in sseFlag <=> n \in shown
                            /\ Current(n) \in fcmFlag => n \in pushed

Sound(n) == LanesSound(n) /\ FlagsSound(n)

\* A notification that a step does not touch, unless it removes its row.
LEMMA NoteKept ==
    ASSUME NEW n \in Note, Sound(n),
           /\ pc'[n] = pc[n] /\ lane'[n] = lane[n] /\ fcm'[n] = fcm[n] /\ tries'[n] = tries[n]
           /\ n \in shown' <=> n \in shown
           /\ n \in pushed' <=> n \in pushed,
           Current(n) \in rows' =>
              /\ Current(n) \in rows
              /\ Current(n) \in sseFlag' <=> Current(n) \in sseFlag
              /\ Current(n) \in fcmFlag' <=> Current(n) \in fcmFlag
    PROVE  Sound(n)'
<1>1. LanesSound(n)'
      BY DEF Sound, LanesSound, BothTried
<1>2. Current(n)' = Current(n)
      BY DEF Current
<1>3. FlagsSound(n)'
      BY <1>2 DEF Sound, FlagsSound
<1>. QED
      BY <1>1, <1>3 DEF Sound

LEMMA CreateOwn ==
    ASSUME TypeOK, Numbered, NEW n \in Note, Sound(n), Create(n)
    PROVE  Sound(n)'
<1> USE DEF table, work, telling, sent, Goto, Turn
<1>0. n \in Teller
      BY DEF Teller
<1>1. CASE Insert(n)
  <2> DEFINE new == <<n, tries[n] + 1>>
  <2>1. /\ pc[n] = "idle" /\ pc'[n] = "publish" /\ tries'[n] = tries[n] + 1
        /\ UNCHANGED <<sseFlag, fcmFlag, fcm, lane, shown, pushed>>
        BY <1>1 DEF Insert, TypeOK
  <2>2. Current(n)' = new
        BY <2>1 DEF Current
  <2>3. new \notin rows
    <3>1. tries[n] \in Nat /\ ~ (tries[n] + 1 <= tries[n])
          BY FanoutAssumption DEF TypeOK
    <3>2. new[1] = n /\ new[2] = tries[n] + 1
          OBVIOUS
    <3>. QED
          BY <3>1, <3>2 DEF Numbered
  <2>4. Current(n)' \notin sseFlag' \union fcmFlag'
        BY <2>1, <2>2, <2>3 DEF TypeOK
  <2>5. FlagsSound(n)'
        BY <2>1, <2>4 DEF FlagsSound
  <2>. QED
        BY <2>1, <2>5 DEF Sound, LanesSound
<1>2. CASE Refuse(n)
  <2>1. pc[n] = "idle" /\ pc'[n] = "refused" /\ UNCHANGED <<lane, fcm, shown, pushed>>
        BY <1>2 DEF Refuse, TypeOK
  <2>. QED
        BY <2>1 DEF Sound, LanesSound, FlagsSound
<1>3. CASE Publish(n)
  <2>1. /\ pc[n] = "publish" /\ pc'[n] = "fanout" /\ lane'[n] = "ward" /\ fcm'[n] = "emit"
        /\ UNCHANGED <<rows, sseFlag, fcmFlag, tries, shown, pushed>>
        BY <1>0, <1>3 DEF Publish, TypeOK
  <2>2. Current(n)' = Current(n)
        BY <2>1 DEF Current
  <2>. QED
        BY <2>1, <2>2 DEF Sound, LanesSound, FlagsSound
<1>4. CASE Emit(n)
  <2>1. /\ fcm[n] = "emit" /\ fcm'[n] \in {"ok", "failed"}
        /\ fcm'[n] = "ok" => n \in pushed'
        /\ UNCHANGED <<rows, sseFlag, fcmFlag, tries, pc, lane, shown>>
        BY <1>4 DEF Emit, TypeOK
  <2>2. pc[n] = "fanout"
        BY <2>1 DEF Sound, LanesSound, BothTried, TypeOK
  <2>3. Current(n)' = Current(n)
        BY <2>1 DEF Current
  <2>. QED
        BY <2>1, <2>2, <2>3 DEF Sound, LanesSound, FlagsSound
<1>5. CASE Record(n)
  <2>1. /\ pc[n] = "fanout" /\ pc'[n] = "ack" /\ BothTried(n)
        /\ UNCHANGED <<rows, tries, fcm, lane, shown, pushed>>
        BY <1>5 DEF Record, Joined, BothTried, TypeOK
  <2>2. /\ Current(n) \in rows
        /\ sseFlag' = IF lane[n] = "told" THEN sseFlag \union {Current(n)} ELSE sseFlag
        /\ fcmFlag' = IF fcm[n] = "ok" THEN fcmFlag \union {Current(n)} ELSE fcmFlag
        BY <1>5 DEF Record, FlagRow
  <2>3. Current(n) \notin sseFlag \union fcmFlag
        BY <2>1, <2>2 DEF Sound, FlagsSound
  <2>4. Current(n)' = Current(n) /\ BothTried(n)'
        BY <2>1 DEF Current, BothTried
  <2>5. /\ Current(n) \in sseFlag' <=> n \in shown
        /\ Current(n) \in fcmFlag' => n \in pushed
        BY <2>2, <2>3 DEF Sound, LanesSound
  <2>6. FlagsSound(n)'
        BY <2>1, <2>4, <2>5 DEF FlagsSound
  <2>7. LanesSound(n)'
        BY <2>1, <2>4 DEF Sound, LanesSound
  <2>. QED
        BY <2>6, <2>7 DEF Sound
<1>6. CASE RecordFails(n)
  <2>1. /\ pc'[n] = "nack" /\ BothTried(n) /\ UNCHANGED <<fcm, lane, shown, pushed>>
        BY <1>6 DEF RecordFails, Joined, BothTried, TypeOK
  <2>2. BothTried(n)'
        BY <2>1 DEF BothTried
  <2>. QED
        BY <2>1, <2>2 DEF Sound, LanesSound, FlagsSound
<1>7. CASE Answer(n)
  <2>1. /\ pc'[n] = "over" /\ lane'[n] = "idle" /\ fcm'[n] = "none"
        /\ n \notin shown' \union pushed'
        BY <1>0, <1>7 DEF Answer, TypeOK
  <2>. QED
        BY <2>1 DEF Sound, LanesSound, FlagsSound
<1>. QED
      BY <1>1, <1>2, <1>3, <1>4, <1>5, <1>6, <1>7 DEF Create

LEMMA CreateSound ==
    ASSUME TypeOK, Numbered, \A m \in Note : Sound(m), NEW n \in Note, Create(n)
    PROVE  \A m \in Note : Sound(m)'
<1> SUFFICES ASSUME NEW m \in Note, m # n PROVE Sound(m)'
    BY CreateOwn
<1> USE DEF table, work, telling, sent, Goto, Turn
<1>1. /\ pc'[m] = pc[m] /\ fcm'[m] = fcm[m] /\ tries'[m] = tries[m]
      /\ m \in shown' <=> m \in shown
      /\ m \in pushed' <=> m \in pushed
      BY DEF Create, Insert, Refuse, Publish, Emit, Record, RecordFails, Answer, TypeOK
<1>2. lane'[m] = lane[m]
      BY DEF Create, Insert, Refuse, Publish, Emit, Record, RecordFails, Answer, TypeOK, Teller
<1>3. Current(m) # Current(n) /\ Current(m) # <<n, tries[n] + 1>>
      BY DEF Current
<1>4. /\ Current(m) \in rows' <=> Current(m) \in rows
      /\ Current(m) \in sseFlag' <=> Current(m) \in sseFlag
      /\ Current(m) \in fcmFlag' <=> Current(m) \in fcmFlag
      BY <1>3 DEF Create, Insert, Refuse, Publish, Emit, Record, FlagRow, RecordFails, Answer
<1>. QED
      BY <1>1, <1>2, <1>4, NoteKept

LEMMA TellSound ==
    ASSUME TypeOK, \A m \in Note : Sound(m), NEW t \in Teller, Tell(t)
    PROVE  \A m \in Note : Sound(m)'
<1> SUFFICES ASSUME NEW m \in Note PROVE Sound(m)'
    OBVIOUS
<1> USE DEF table, work, telling, Turn
<1>1. UNCHANGED <<table, work, pushed>> /\ lane[t] \in {"ward", "cast"}
      BY DEF Tell, LookupFails, TellOthers, CountUnread, Broadcast, sent
<1>2. CASE m # t
  <2>1. lane'[m] = lane[m] /\ (m \in shown' <=> m \in shown)
        BY <1>2 DEF Tell, LookupFails, TellOthers, CountUnread, Broadcast, TypeOK, sent, Teller
  <2>. QED
        BY <1>1, <2>1, NoteKept
<1>3. CASE m = t
  <2>1. pc[m] = "fanout" /\ m \notin shown
        BY <1>1, <1>3 DEF Sound, LanesSound, BothTried, TypeOK
  <2>2. lane'[m] # "idle" /\ (m \in shown' <=> lane'[m] = "told")
    <3>1. CASE LookupFails(t)
          BY <1>3, <2>1, <3>1 DEF LookupFails, TypeOK, sent
    <3>2. CASE TellOthers(t)
          BY <1>3, <2>1, <3>2 DEF TellOthers, TypeOK
    <3>3. CASE CountUnread(t)
          BY <1>3, <2>1, <3>3 DEF CountUnread, TypeOK, sent
    <3>4. CASE Broadcast(t)
          BY <1>3, <2>1, <3>4 DEF Broadcast, TypeOK
    <3>. QED
          BY <3>1, <3>2, <3>3, <3>4 DEF Tell
  <2>3. LanesSound(m)'
        BY <1>1, <2>1, <2>2 DEF Sound, LanesSound
  <2>4. Current(m)' = Current(m)
        BY <1>1 DEF Current
  <2>5. FlagsSound(m)'
        BY <1>1, <2>1, <2>4 DEF Sound, FlagsSound
  <2>. QED
        BY <2>3, <2>5 DEF Sound
<1>. QED
      BY <1>2, <1>3

LEMMA UsersSound ==
    ASSUME TypeOK, \A m \in Note : Sound(m), Users
    PROVE  \A m \in Note : Sound(m)'
<1> SUFFICES ASSUME NEW m \in Note PROVE Sound(m)'
    OBVIOUS
<1> USE DEF work, telling, sent, Turn
<1>1. UNCHANGED <<work, sent>>
      BY DEF Users, MarkAllRead, MarkRead, Remove
<1>2. lane'[m] = lane[m]
  <2>1. \A u \in Reader : u # m
        BY FanoutAssumption DEF Note
  <2>. QED
        BY <2>1 DEF Users, MarkAllRead, MarkRead, Remove, TypeOK, Teller
<1>3. Current(m) \in rows' =>
         /\ Current(m) \in rows
         /\ Current(m) \in sseFlag' <=> Current(m) \in sseFlag
         /\ Current(m) \in fcmFlag' <=> Current(m) \in fcmFlag
      BY DEF Users, MarkAllRead, MarkRead, Remove
<1>. QED
      BY <1>1, <1>2, <1>3, NoteKept

LEMMA NextSound ==
    ASSUME TypeOK, Numbered, \A m \in Note : Sound(m), [Next]_vars
    PROVE  \A m \in Note : Sound(m)'
<1>1. CASE Crash
  <2> SUFFICES ASSUME NEW m \in Note PROVE Sound(m)'
      OBVIOUS
  <2>1. /\ pc'[m] \in {"idle", "over", "refused"} /\ lane'[m] = "idle" /\ fcm'[m] = "none"
        /\ shown' = {} /\ pushed' = {}
        BY <1>1 DEF Crash, Interrupted, Settled, Teller
  <2>. QED
        BY <2>1 DEF Sound, LanesSound, FlagsSound
<1>2. CASE UNCHANGED vars
      BY <1>2, NoteKept DEF vars, table, work, telling, sent
<1>. QED
      BY <1>1, <1>2, CreateSound, TellSound, UsersSound DEF Next

LEMMA AlwaysSound == Spec => [](\A n \in Note : Sound(n))
<1>1. Init => \A n \in Note : Sound(n)
      BY DEF Init, Sound, LanesSound, FlagsSound, Teller
<1>2. TypeOK /\ Numbered /\ (\A n \in Note : Sound(n)) /\ [Next]_vars
      => (\A n \in Note : Sound(n))'
      BY NextSound
<1>. QED
      BY <1>1, <1>2, InitTyped, NextTyped, PTL DEF Spec

\* deliveredSse and deliveredFcm of the row tell what became of that row.
THEOREM FlagsTellTheTruth == Spec => []FlagsAreTrue
<1>1. (\A n \in Note : Sound(n)) => FlagsAreTrue
      BY DEF Sound, FlagsSound, FlagsAreTrue
<1>. QED
      BY <1>1, AlwaysSound, PTL

\* Neither SSE nor FCM stops the other, whatever fails.
THEOREM BothChannelsAreTried == Spec => []NeitherChannelStopsTheOther
<1>1. (\A n \in Note : Sound(n)) => NeitherChannelStopsTheOther
      BY DEF Sound, LanesSound, NeitherChannelStopsTheOther
<1>. QED
      BY <1>1, AlwaysSound, PTL

-----------------------------------------------------------------------------
(* The badge. *)

\* A teller that will bring the badge to what the database holds now.
Corrects(t) == WillCount(t) \/ (lane[t] = "cast" /\ count[t] = Unread)

Corrected == \E t \in Teller : Corrects(t)

\* A count on its way is right or will be corrected, unless it is outrun: the
\* badge alone is not inductive, as a broadcast replaces it with such a count.
CountsSound ==
    \A t \in Teller : lane[t] = "cast" /\ t \notin outrun => count[t] = Unread \/ Corrected

Badges == BadgeWrongOnlyByAccident /\ CountsSound

\* A step that changes neither the table nor the counts, and stops no teller.
LEMMA BadgesKept ==
    ASSUME Badges, UNCHANGED <<unread, badge, outrun, astray>>,
           \A t \in Teller : lane'[t] = "cast" => lane[t] = "cast" /\ count'[t] = count[t],
           \A t \in Teller : Corrects(t) => Corrects(t)'
    PROVE  Badges'
<1>1. Unread' = Unread
      BY DEF Unread
<1>2. Corrected => Corrected'
      BY DEF Corrected
<1>3. BadgeWrongOnlyByAccident'
      BY <1>1, <1>2 DEF Badges, BadgeWrongOnlyByAccident, Corrected, Corrects
<1>4. CountsSound'
      BY <1>1, <1>2 DEF Badges, CountsSound
<1>. QED
      BY <1>3, <1>4 DEF Badges

\* A step after which a teller that has not counted yet is to count: whatever
\* has become of the table.
LEMMA BadgesCorrected ==
    ASSUME NEW t \in Teller, Corrects(t)'
    PROVE  Badges'
BY DEF Badges, BadgeWrongOnlyByAccident, CountsSound, Corrected, Corrects

\* A step that leaves the ward untold has astray set and all counts outrun.
LEMMA BadgesUntold ==
    ASSUME TypeOK, Untold, \A t \in Teller : lane'[t] = "cast" => lane[t] = "cast"
    PROVE  Badges'
BY DEF Badges, BadgeWrongOnlyByAccident, CountsSound, Untold, Counted

LEMMA CreateBadges ==
    ASSUME TypeOK, \A m \in Note : Sound(m), Badges, NEW n \in Note, Create(n)
    PROVE  Badges'
<1> USE DEF table, work, telling, sent, Goto, Turn
<1>0. n \in Teller
      BY DEF Teller
<1>1. CASE Insert(n)
  <2>1. pc'[n] = "publish"
        BY <1>1 DEF Insert, TypeOK
  <2>. QED
        BY <1>0, <2>1, BadgesCorrected DEF Corrects, WillCount
<1>2. CASE Publish(n)
  <2>1. lane'[n] = "ward"
        BY <1>0, <1>2 DEF Publish, TypeOK
  <2>. QED
        BY <1>0, <2>1, BadgesCorrected DEF Corrects, WillCount
<1>3. CASE Refuse(n) \/ Emit(n) \/ Record(n) \/ RecordFails(n) \/ Answer(n)
  <2>1. UNCHANGED <<unread, count, badge, outrun, astray>> /\ Unread' = Unread
        BY <1>3 DEF Refuse, Emit, Record, FlagRow, RecordFails, Answer, Unread
  <2>2. \A t \in Teller : lane'[t] = "cast" => lane[t] = "cast"
        BY <1>3 DEF Refuse, Emit, Record, RecordFails, Answer, TypeOK
  <2>3. \A t \in Teller : lane[t] \in {"ward", "cast"} => lane'[t] = lane[t]
    <3>1. CASE Answer(n)
      <4>1. lane[n] \in {"told", "failed"} /\ \A t \in Teller \ {n} : lane'[t] = lane[t]
            BY <3>1 DEF Answer, Sound, LanesSound, BothTried, TypeOK
      <4>. QED
            BY <4>1
    <3>. QED
          BY <1>3, <3>1 DEF Refuse, Emit, Record, RecordFails
  <2>4. \A t \in Note : pc[t] = "publish" => pc'[t] = "publish"
        BY <1>3 DEF Refuse, Emit, Record, RecordFails, Joined, Answer, TypeOK
  <2>5. \A t \in Teller : Corrects(t) => Corrects(t)'
        BY <2>1, <2>3, <2>4 DEF Corrects, WillCount
  <2>. QED
        BY <2>1, <2>2, <2>5, BadgesKept
<1>. QED
      BY <1>1, <1>2, <1>3 DEF Create

LEMMA TellBadges ==
    ASSUME TypeOK, Badges, NEW t \in Teller, Tell(t)
    PROVE  Badges'
<1> USE DEF table, work, telling, sent, Turn
<1>1. CASE LookupFails(t)
  <2>1. \A o \in Teller : lane'[o] = "cast" => lane[o] = "cast"
        BY <1>1 DEF LookupFails, TypeOK
  <2>. QED
        BY <1>1, <2>1, BadgesUntold DEF LookupFails
<1>2. CASE TellOthers(t)
  <2>1. \A o \in Teller : lane'[o] = "cast" => lane[o] = "cast"
        BY <1>2 DEF TellOthers, TypeOK
  <2>. QED
        BY <1>2, <2>1, BadgesUntold DEF TellOthers
<1>3. CASE CountUnread(t)
  <2>1. lane'[t] = "cast" /\ count'[t] = Unread /\ Unread' = Unread
        BY <1>3 DEF CountUnread, TypeOK, Unread
  <2>. QED
        BY <2>1, BadgesCorrected DEF Corrects
<1>4. CASE Broadcast(t)
  <2>1. /\ lane[t] = "cast" /\ badge' = count[t] /\ astray' = (t \in outrun)
        /\ outrun' = (outrun \union Counted) \ {t}
        /\ UNCHANGED <<unread, pc>> /\ Unread' = Unread
        /\ lane'[t] # "cast"
        /\ \A o \in Teller \ {t} : lane'[o] = lane[o] /\ count'[o] = count[o]
        BY <1>4 DEF Broadcast, TypeOK, Unread
  <2>2. CountsSound'
    <3>1. \A o \in Teller : lane'[o] = "cast" => o \in outrun'
          BY <2>1 DEF Counted
    <3>. QED
          BY <3>1 DEF CountsSound
  <2>3. BadgeWrongOnlyByAccident'
    <3> SUFFICES ASSUME badge' # Unread', ~ astray'
                 PROVE  \E o \in Teller : Corrects(o)'
        BY DEF BadgeWrongOnlyByAccident, Corrects
    <3>1. Corrected
          BY <2>1 DEF Badges, CountsSound
    <3>2. PICK o \in Teller : Corrects(o)
          BY <3>1 DEF Corrected
    <3>3. CASE o = t
      <4>1. t \in Note /\ pc[t] = "publish"
            BY <2>1, <3>2, <3>3 DEF Corrects, WillCount
      <4>. QED
            BY <2>1, <4>1 DEF Corrects, WillCount
    <3>4. CASE o # t
          BY <2>1, <3>2, <3>4 DEF Corrects, WillCount
    <3>. QED
          BY <3>3, <3>4
  <2>. QED
        BY <2>2, <2>3 DEF Badges
<1>. QED
      BY <1>1, <1>2, <1>3, <1>4 DEF Tell

LEMMA UsersBadges ==
    ASSUME TypeOK, Users
    PROVE  Badges'
<1> USE DEF telling, Turn
<1>1. ASSUME NEW u \in Reader, MarkAllRead(u) PROVE Badges'
  <2>1. CASE Untold /\ UNCHANGED lane
        BY <2>1, BadgesUntold
  <2>2. CASE lane' = [lane EXCEPT ![u] = "ward"]
    <3>1. u \in Teller /\ lane'[u] = "ward"
          BY <2>2 DEF Teller, TypeOK
    <3>. QED
          BY <3>1, BadgesCorrected DEF Corrects, WillCount
  <2>. QED
        BY <1>1, <2>1, <2>2 DEF MarkAllRead
<1>2. ASSUME NEW u \in Reader, NEW r \in Row, MarkRead(u, r) PROVE Badges'
  <2>1. u \in Teller /\ lane'[u] = "ward"
        BY <1>2 DEF MarkRead, Teller, TypeOK
  <2>. QED
        BY <2>1, BadgesCorrected DEF Corrects, WillCount
<1>3. ASSUME NEW r \in Row, Remove(r) PROVE Badges'
      BY <1>3, BadgesUntold DEF Remove
<1>. QED
      BY <1>1, <1>2, <1>3 DEF Users

LEMMA NextBadges ==
    ASSUME TypeOK, \A m \in Note : Sound(m), Badges, [Next]_vars
    PROVE  Badges'
<1>1. CASE Crash
      BY <1>1 DEF Crash, Badges, BadgeWrongOnlyByAccident, CountsSound
<1>2. CASE UNCHANGED vars
  <2>1. \A t \in Teller : Corrects(t) => Corrects(t)'
        BY <1>2 DEF vars, table, work, telling, Corrects, WillCount, Unread
  <2>. QED
        BY <1>2, <2>1, BadgesKept DEF vars, table, work, telling
<1>. QED
      BY <1>1, <1>2, CreateBadges, TellBadges, UsersBadges DEF Next

\* The badge of a dashboard is right, or about to be, but for accidents.
THEOREM BadgeIsRightOrCorrected == Spec => []BadgeWrongOnlyByAccident
<1>1. Init => Badges
      BY FS_EmptySet DEF Init, Badges, BadgeWrongOnlyByAccident, CountsSound, Unread
<1>2. TypeOK /\ (\A n \in Note : Sound(n)) /\ Badges /\ [Next]_vars => Badges'
      BY NextBadges
<1>3. Badges => BadgeWrongOnlyByAccident
      BY DEF Badges
<1>. QED
      BY <1>1, <1>2, <1>3, InitTyped, NextTyped, AlwaysSound, PTL DEF Spec

=============================================================================
