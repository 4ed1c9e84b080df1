------------------------- MODULE ProbeIngestProofs -------------------------
(***************************************************************************)
(* Proofs about ProbeIngest, for any number of channels, any readings and  *)
(* admins, and any number of changes, crashes and losses of RabbitMQ.      *)
(***************************************************************************)
EXTENDS ProbeIngest, FiniteSetTheorems, TLAPS

LEMMA ConstantsTyped ==
    /\ IsFiniteSet(Channel) /\ Cardinality(Channel) \in Nat /\ 1 \in Channel
    /\ Channel \subseteq Nat \ {0}
    /\ \A c \in Client : Of(c) \in Channel
    /\ \A i \in DOMAIN Post : Post[i] \in Client
    /\ MaxChanges \in Nat /\ MaxBreaks \in Nat /\ MaxId \in Nat
<1>1. IsFiniteSet(Channel)
      BY FS_Interval, IngestAssumption
<1>. QED
      BY <1>1, IngestAssumption DEF Of, Client, Kept, Posted, MaxId

-----------------------------------------------------------------------------
(* Ids of probes: the rows of a point, and what is gone. *)

\* No id is given twice; a bounded number of them is gone.
Ids ==
    /\ born \in Nat \ {0} /\ probes \in [Channel -> 0 .. born]
    /\ \A c, d \in Channel : probes[c] = probes[d] /\ probes[c] # 0 => c = d
    /\ Cardinality(Gone) <= MaxChanges /\ moves \in 0 .. MaxChanges

LEMMA GoneFinite ==
    ASSUME born \in Nat
    PROVE  IsFiniteSet(Gone) /\ Cardinality(Gone) \in Nat
<1>1. IsFiniteSet(1 .. born)
      BY FS_Interval
<1>2. IsFiniteSet(Gone)
      BY <1>1, FS_Subset DEF Gone
<1>. QED
      BY <1>2, FS_CardinalityType

\* A point has at most one living probe per channel, so that ids are bounded.
LEMMA BornBounded == Ids => born \in 1 .. MaxId
<1> SUFFICES ASSUME Ids PROVE born \in 1 .. MaxId
    OBVIOUS
<1> DEFINE T == { probes[c] : c \in Channel }
<1> DEFINE All == 1 .. born
<1>1. born \in Nat \ {0} /\ Cardinality(Gone) \in Nat /\ Cardinality(Gone) <= MaxChanges
      BY GoneFinite DEF Ids
<1>2. IsFiniteSet(T) /\ Cardinality(T) <= Cardinality(Channel)
  <2>1. probes \in Surjection(Channel, T)
    <3>1. probes \in [Channel -> T]
          BY DEF Ids
    <3>. QED
          BY <3>1 DEF Surjection
  <2> HIDE DEF T
  <2>. QED
        BY <2>1, ConstantsTyped, FS_Surjection
<1>3. IsFiniteSet(All) /\ Cardinality(All) = born
      BY <1>1, FS_Interval
<1>4. All \cap Live \subseteq T /\ Gone = All \ Live
      BY DEF Live, Gone
<1> HIDE DEF T, All
<1>5. Cardinality(Gone) = born - Cardinality(All \cap Live)
      BY <1>3, <1>4, FS_Difference
<1>6. IsFiniteSet(All \cap Live) /\ Cardinality(All \cap Live) <= Cardinality(T)
      BY <1>2, <1>4, FS_Subset
<1>7. Cardinality(All \cap Live) \in Nat /\ Cardinality(T) \in Nat
      BY <1>2, <1>6, FS_CardinalityType
<1>. QED
      BY <1>1, <1>2, <1>5, <1>6, <1>7, ConstantsTyped DEF MaxId

\* A row may be added, deleted or moved, and nothing else: what is gone does not
\* come back, and a channel that misses its row is vacated.
ProbesStep ==
    \/ UNCHANGED <<probeVars, changes>>
    \/ \E ch \in Channel : NewProbe(ch) /\ UNCHANGED changes
    \/ \E ch \in Channel : DeleteProbe(ch)
    \/ \E p \in Live, to \in Channel : UpdateRow(p, to) /\ born' = born

LEMMA ProbesGrow ==
    ASSUME Ids, ProbesStep
    PROVE  /\ Ids' /\ born <= born' /\ Gone \subseteq Gone'
           /\ vacated \subseteq vacated'
           /\ \A c \in Channel : probes[c] # 0 => probes'[c] # 0 \/ c \in vacated'
<1>1. CASE UNCHANGED <<probeVars, changes>>
  <2>1. Gone' = Gone
        BY <1>1 DEF Gone, Live, probeVars
  <2>. QED
        BY <1>1, <2>1 DEF Ids, probeVars, changes
<1>2. ASSUME NEW ch \in Channel, NewProbe(ch), UNCHANGED changes
      PROVE  /\ Ids' /\ born <= born' /\ Gone \subseteq Gone'
             /\ \A c \in Channel : probes[c] # 0 => probes'[c] # 0
  <2>1. /\ probes[ch] = 0 /\ born' = born + 1 /\ probes' = [probes EXCEPT ![ch] = born + 1]
        BY <1>2 DEF NewProbe
  <2>2. /\ born \in Nat \ {0} /\ probes' \in [Channel -> 0 .. born'] /\ born' \in Nat \ {0}
        /\ probes'[ch] = born + 1 /\ \A c \in Channel \ {ch} : probes'[c] = probes[c]
        /\ \A c \in Channel : probes[c] \in 0 .. born
        BY <2>1 DEF Ids
  <2>3. Live' = Live \union {born + 1}
        BY <2>1, <2>2 DEF Live
  <2>4. Gone' = Gone
        BY <2>1, <2>2, <2>3 DEF Gone
  <2>5. \A c, d \in Channel : probes'[c] = probes'[d] /\ probes'[c] # 0 => c = d
        BY <2>2 DEF Ids
  <2>. QED
        BY <1>2, <2>1, <2>2, <2>4, <2>5 DEF Ids, changes
<1>3. ASSUME NEW ch \in Channel, DeleteProbe(ch)
      PROVE  /\ Ids' /\ born <= born' /\ Gone \subseteq Gone' /\ vacated \subseteq vacated'
             /\ \A c \in Channel : probes[c] # 0 => probes'[c] # 0 \/ c \in vacated'
  <2>1. /\ probes[ch] # 0 /\ born' = born /\ probes' = [probes EXCEPT ![ch] = 0]
        /\ Cardinality(Gone) + moves < MaxChanges /\ vacated' = vacated \union {ch} /\ moves' = moves
        BY <1>3 DEF DeleteProbe
  <2>2. /\ born \in Nat \ {0} /\ probes' \in [Channel -> 0 .. born']
        /\ probes'[ch] = 0 /\ \A c \in Channel \ {ch} : probes'[c] = probes[c]
        /\ probes[ch] \in 1 .. born
        BY <2>1 DEF Ids
  <2>3. Live' = Live \ {probes[ch]}
        BY <2>1, <2>2 DEF Live, Ids
  <2>4. Gone' = Gone \union {probes[ch]}
        BY <2>1, <2>2, <2>3 DEF Gone
  <2>5. Cardinality(Gone') <= MaxChanges
    <3>1. IsFiniteSet(Gone) /\ Cardinality(Gone) \in Nat
          BY <2>2, GoneFinite
    <3>2. Cardinality(Gone') <= Cardinality(Gone) + 1 /\ Cardinality(Gone') \in Nat
      <4> DEFINE p == probes[ch]
      <4>1. Gone' = Gone \union {p}
            BY <2>4
      <4> HIDE DEF p
      <4>2. Cardinality(Gone \union {p}) = IF p \in Gone THEN Cardinality(Gone)
                                           ELSE Cardinality(Gone) + 1
            BY <3>1, FS_AddElement
      <4>. QED
            BY <3>1, <4>1, <4>2
    <3>. QED
          BY <2>1, <3>1, <3>2, ConstantsTyped DEF Ids
  <2>6. \A c, d \in Channel : probes'[c] = probes'[d] /\ probes'[c] # 0 => c = d
        BY <2>2 DEF Ids
  <2>. QED
        BY <2>1, <2>2, <2>4, <2>5, <2>6 DEF Ids
<1>4. ASSUME NEW p \in Live, NEW to \in Channel, UpdateRow(p, to), born' = born
      PROVE  /\ Ids' /\ born <= born' /\ Gone \subseteq Gone' /\ vacated \subseteq vacated'
             /\ \A c \in Channel : probes[c] # 0 => probes'[c] # 0 \/ c \in vacated'
  <2>1. /\ probes[to] \in {0, p}
        /\ probes' = [c \in Channel |-> IF c = to THEN p ELSE IF probes[c] = p THEN 0 ELSE probes[c]]
        /\ vacated' = vacated \union { c \in Channel : probes'[c] = 0 /\ probes[c] = p }
        BY <1>4 DEF UpdateRow
  <2>2. /\ p \in 1 .. born /\ probes' \in [Channel -> 0 .. born']
        /\ \A c \in Channel : probes[c] \in 0 .. born
        BY <1>4, <2>1 DEF Ids, Live
  <2>3. Live' = Live
        BY <2>1, <2>2 DEF Live
  <2>4. Gone' = Gone
        BY <1>4, <2>3 DEF Gone
  <2>5. \A c, d \in Channel : probes'[c] = probes'[d] /\ probes'[c] # 0 => c = d
        BY <2>1, <2>2 DEF Ids
  <2>6. \A c \in Channel : probes[c] # 0 => probes'[c] # 0 \/ c \in vacated'
        BY <2>1, <2>2
  <2>7. moves' \in 0 .. MaxChanges
    <3>1. Cardinality(Gone) \in Nat /\ moves \in 0 .. MaxChanges /\ MaxChanges \in Nat
          BY GoneFinite, ConstantsTyped DEF Ids
    <3>. QED
          BY <1>4, <3>1 DEF UpdateRow
  <2>. QED
        BY <1>4, <2>1, <2>2, <2>4, <2>5, <2>6, <2>7 DEF Ids
<1>. QED
      BY <1>1, <1>2, <1>3, <1>4 DEF ProbesStep, changes

LEMMA StepIsProbesStep == ASSUME [Next]_vars PROVE ProbesStep
<1>1. ASSUME NEW c \in Client, CreateProbe(c) PROVE ProbesStep
      BY <1>1, ConstantsTyped DEF CreateProbe, Duplicate, ProbesStep, changes
<1>2. ASSUME NEW c \in Client, UpdateProbe(c) PROVE ProbesStep
  <2>1. ASSUME NEW to \in Channel, UpdateRow(id[c], to) PROVE ProbesStep
        BY <1>2, <2>1 DEF UpdateProbe, UpdateRow, ProbesStep
  <2>. QED
        BY <1>2, <2>1 DEF UpdateProbe, ProbesStep, probeVars
<1>3. ASSUME NEW c \in Client, Step(c) \/ Receive(c), ~ CreateProbe(c), ~ UpdateProbe(c)
      PROVE  UNCHANGED <<probeVars, changes>>
      BY <1>3 DEF Step, Deliver, Discard, Receive, Begins, Reject, CacheHit, FindProbe, ReadWinner,
                  CacheSet, Insert, Ack, AckLost
<1>4. ASSUME NEW a \in Admin, NextChannel(a) \/ AddProbe(a) PROVE ProbesStep
      BY <1>4 DEF NextChannel, AddProbe, ProbesStep
<1>5. ASSUME NEW c \in Channel, AddNamed(c) \/ DeleteProbe(c) \/ Expire(c) PROVE ProbesStep
      BY <1>5 DEF AddNamed, Expire, ProbesStep
<1>6. ASSUME NEW c \in Channel, NEW to \in Channel, EditProbe(c, to) PROVE ProbesStep
      BY <1>6 DEF EditProbe, UpdateRow, ProbesStep
<1>7. CASE \/ \E i \in DOMAIN Post : PostNext(i)
           \/ DelByPattern \/ DelLost \/ Crash \/ UNCHANGED vars
      BY <1>7 DEF PostNext, Begins, DelByPattern, DelLost, Crash, vars, ProbesStep
<1>. QED
      BY <1>1, <1>2, <1>3, <1>4, <1>5, <1>6, <1>7 DEF Next, ProbesStep

-----------------------------------------------------------------------------
(* Types. *)

LEMMA InitTyped == Init => TypeOK /\ Ids
<1> SUFFICES ASSUME Init PROVE TypeOK /\ Ids
    OBVIOUS
<1> USE ConstantsTyped DEF Init
<1>1. Ids
  <2>1. 1 \in Live
        BY DEF Live
  <2>2. Gone = {}
        BY <2>1 DEF Gone
  <2>. QED
        BY <2>2, FS_EmptySet DEF Ids
<1>2. born \in 1 .. MaxId
      BY <1>1, BornBounded
<1>3. known \in BOOLEAN /\ pending \in BOOLEAN
      OBVIOUS
<1>4. probes \in [Channel -> 0 .. MaxId] /\ cache \in [Channel -> 0 .. born]
      BY <1>2
<1>5. id \in [Client -> 0 .. born]
      BY <1>2
<1>. QED
      BY <1>1, <1>2, <1>3, <1>4, <1>5 DEF TypeOK, Broken

\* The ids of the new state are bounded as those of the old one are.
LEMMA NewIdsTyped ==
    ASSUME TypeOK, Ids, [Next]_vars
    PROVE  /\ probes' \in [Channel -> 0 .. MaxId] /\ born' \in 1 .. MaxId
           /\ \A n : n \in 0 .. born => n \in 0 .. born'
           /\ moves' \in 0 .. MaxChanges /\ vacated' \subseteq Channel
<1>1. Ids' /\ born <= born' /\ born' \in Nat /\ born \in Nat
      BY ProbesGrow, StepIsProbesStep DEF Ids
<1>2. (born \in 1 .. MaxId)'
      BY <1>1, BornBounded, PTL
<1>3. probes' \in [Channel -> 0 .. born']
      BY <1>1 DEF Ids
<1>4. \A n \in 0 .. born' : n \in 0 .. MaxId
      BY <1>1, <1>2, ConstantsTyped
<1>5. vacated' \subseteq Channel
      BY StepIsProbesStep DEF ProbesStep, changes, DeleteProbe, UpdateRow, TypeOK
<1>. QED
      BY <1>1, <1>2, <1>3, <1>4, <1>5 DEF Ids

LEMMA StepTyped ==
    ASSUME TypeOK, Ids, [Next]_vars, NEW c \in Client,
           Step(c) \/ Receive(c) \/ \E i \in DOMAIN Post : Post[i] = c /\ PostNext(i)
    PROVE  TypeOK'
<1> DEFINE Ways == {"idle", "get", "create", "again", "set", "use", "ack", "done", "lost"}
<1>1. /\ probes' \in [Channel -> 0 .. MaxId] /\ born' \in 1 .. MaxId
      /\ \A n : n \in 0 .. born => n \in 0 .. born'
      /\ moves' \in 0 .. MaxChanges /\ vacated' \subseteq Channel
      /\ Of(c) \in Channel /\ born \in Nat /\ born' \in Nat
      BY NewIdsTyped, ConstantsTyped DEF Ids, TypeOK
<1>2. probes[Of(c)] \in 0 .. born
      BY <1>1 DEF Ids
<1> USE DEF Goto, Fails
<1>3. pc' \in [Client -> Ways]
      BY DEF Step, Deliver, Discard, Receive, PostNext, Begins, Reject, Rejects, CacheHit, FindProbe,
             CreateProbe, Duplicate, ReadWinner, CacheSet, Insert, Ack, AckLost, UpdateProbe, TypeOK
<1>4. id' \in [Client -> 0 .. born']
  <2>1. CASE CreateProbe(c)
    <3>1. CASE NewProbe(Of(c)) /\ id' = [id EXCEPT ![c] = born + 1]
          BY <1>1, <3>1 DEF NewProbe, TypeOK
    <3>. QED
          BY <1>1, <2>1, <3>1 DEF CreateProbe, Duplicate, Rejects, TypeOK
  <2>2. CASE ~ CreateProbe(c)
    <3>1. id' \in [Client -> 0 .. born]
          BY <1>1, <1>2, <2>2 DEF Step, Deliver, Discard, Receive, PostNext, Begins, Reject, Rejects,
                  CacheHit, FindProbe, ReadWinner, CacheSet, Insert, Ack, AckLost, UpdateProbe,
                  TypeOK
    <3>. QED
          BY <1>1, <3>1
  <2>. QED
        BY <2>1, <2>2
<1>5. cache' \in [Channel -> 0 .. born']
  <2>1. cache' \in [Channel -> 0 .. born]
        BY <1>1 DEF Step, Deliver, Discard, Receive, PostNext, Begins, Reject, CacheHit, FindProbe,
                CreateProbe, ReadWinner, CacheSet, Insert, Ack, AckLost, UpdateProbe, TypeOK
  <2>. QED
        BY <1>1, <2>1
<1>6. pending' \in BOOLEAN /\ excused' \subseteq Channel
  <2>1. CASE UpdateProbe(c)
    <3>1. ASSUME NEW rows, Tells(rows) PROVE pending' \in {TRUE, pending} /\ excused' \subseteq Channel
          BY <3>1 DEF Tells, Emit, StaleOf, TypeOK
    <3>. QED
          BY <2>1, <3>1 DEF UpdateProbe, UpdateRow, TypeOK
  <2>2. CASE ~ UpdateProbe(c)
    <3>1. pending' \in {TRUE, pending}
          BY <2>2 DEF Step, Deliver, Discard, Receive, PostNext, Begins, Reject, CacheHit, FindProbe,
                 CreateProbe, Emit, Duplicate, ReadWinner, CacheSet, Insert, Ack, AckLost
    <3>2. excused' \subseteq Channel
          BY <1>1, <2>2 DEF Step, Deliver, Discard, Receive, PostNext, Begins, Reject, CacheHit,
                  FindProbe, CreateProbe, ReadWinner, CacheSet, Insert, Ack, AckLost, TypeOK
    <3>. QED
          BY <3>1, <3>2 DEF TypeOK
  <2>. QED
        BY <2>1, <2>2
<1>7. inserted' \in [Kept -> Nat]
      BY DEF Step, Deliver, Discard, Receive, PostNext, Begins, Reject, CacheHit, FindProbe, CreateProbe,
             ReadWinner, CacheSet, Insert, Ack, AckLost, UpdateProbe, TypeOK
<1>8. UNCHANGED <<given, draft>> /\ rejected' \in {rejected, rejected \union {c}}
      BY DEF Step, Deliver, Discard, Receive, PostNext, Begins, Reject, Rejects, CacheHit, FindProbe,
             CreateProbe, Duplicate, ReadWinner, CacheSet, Insert, Ack, AckLost, UpdateProbe
<1>9. crashes' \in Nat /\ cuts' \in Nat /\ Broken' <= MaxBreaks
  <2>1. UNCHANGED breaks \/ (Broken < MaxBreaks /\ crashes' = crashes /\ cuts' = cuts + 1)
        BY DEF Step, Deliver, Discard, Receive, PostNext, Begins, Reject, CacheHit, FindProbe,
               CreateProbe, ReadWinner, CacheSet, Insert, Ack, AckLost, UpdateProbe
  <2>. QED
        BY <2>1, ConstantsTyped DEF breaks, Broken, TypeOK
<1>10. known' \in BOOLEAN /\ rejected' \subseteq Client
      BY <1>8 DEF given, TypeOK
<1>. QED
      BY <1>1, <1>3, <1>4, <1>5, <1>6, <1>7, <1>8, <1>9, <1>10 DEF TypeOK, given

LEMMA NextTyped == TypeOK /\ Ids /\ [Next]_vars => TypeOK' /\ Ids'
<1> SUFFICES ASSUME TypeOK, Ids, [Next]_vars PROVE TypeOK'
    BY ProbesGrow, StepIsProbesStep
<1>1. /\ probes' \in [Channel -> 0 .. MaxId] /\ born' \in 1 .. MaxId
      /\ \A n : n \in 0 .. born => n \in 0 .. born'
      /\ moves' \in 0 .. MaxChanges /\ vacated' \subseteq Channel
      BY NewIdsTyped
<1>2. MaxBreaks \in Nat /\ 0 \in 0 .. born
      BY ConstantsTyped DEF Ids
<1> USE DEF given, probeVars, workVars, breaks
<1>3. ASSUME NEW c \in Client, Step(c) \/ Receive(c) PROVE TypeOK'
      BY <1>3, StepTyped
<1>4. ASSUME NEW i \in DOMAIN Post, PostNext(i) PROVE TypeOK'
      BY <1>4, ConstantsTyped, StepTyped
<1>5. ASSUME UNCHANGED <<given, cache, workVars, rejected, breaks>>, excused' \subseteq Channel,
             draft' \in [Admin -> {0} \union Channel], pending' \in BOOLEAN
      PROVE  TypeOK'
  <2>1. known' \in BOOLEAN /\ cache' \in [Channel -> 0 .. born'] /\ id' \in [Client -> 0 .. born']
        BY <1>1, <1>5 DEF TypeOK
  <2>. QED
        BY <1>1, <1>5, <2>1 DEF TypeOK, Broken
<1>6. ASSUME NEW a \in Admin, NextChannel(a) \/ AddProbe(a) PROVE TypeOK'
  <2>1. draft' \in [Admin -> {0} \union Channel]
        BY <1>6 DEF NextChannel, AddProbe, TypeOK
  <2>2. pending' \in {TRUE, pending}
        BY <1>6 DEF NextChannel, AddProbe, Emit
  <2>. QED
        BY <1>5, <1>6, <2>1, <2>2 DEF NextChannel, AddProbe, TypeOK
<1>7. ASSUME NEW c \in Channel, \/ AddNamed(c) \/ DeleteProbe(c) \/ \E to \in Channel : EditProbe(c, to)
      PROVE  TypeOK'
  <2>1. ASSUME NEW rows, Tells(rows) PROVE pending' \in {TRUE, pending} /\ excused' \subseteq Channel
        BY <2>1 DEF Tells, Emit, StaleOf, TypeOK
  <2>2. pending' \in {TRUE, pending} /\ excused' \subseteq Channel
        BY <1>7, <2>1 DEF AddNamed, Emit, DeleteProbe, EditProbe, UpdateRow, TypeOK
  <2>. QED
        BY <1>5, <1>7, <2>2 DEF AddNamed, DeleteProbe, EditProbe, TypeOK
<1>8. CASE DelByPattern \/ DelLost \/ \E c \in Channel : Expire(c)
  <2>1. /\ known' \in BOOLEAN /\ pending' \in BOOLEAN /\ born' = born
        /\ UNCHANGED <<probeVars, given, workVars, draft, rejected, breaks>>
        BY <1>8 DEF DelByPattern, DelLost, Expire, Handled, TypeOK
  <2>2. cache' \in [Channel -> 0 .. born'] /\ excused' \subseteq Channel
        BY <1>2, <1>8, <2>1 DEF DelByPattern, DelLost, Expire, Stale, StaleOf, TypeOK
  <2>. QED
        BY <1>1, <2>1, <2>2 DEF TypeOK, Broken
<1>9. CASE Crash
  <2>1. /\ known' \in BOOLEAN /\ pending' \in BOOLEAN /\ born' = born
        /\ UNCHANGED <<probeVars, given, cache, inserted, rejected>>
        /\ id' \in [Client -> 0 .. born'] /\ draft' \in [Admin -> {0} \union Channel]
        /\ excused' \subseteq Channel
        BY <1>2, <1>9 DEF Crash, Stale, StaleOf, TypeOK
  <2>2. \A c \in Client :
           Interrupted(c) \in {"idle", "get", "create", "again", "set", "use", "ack", "done",
                               "lost"}
        BY DEF Interrupted, TypeOK
  <2>3. crashes' \in Nat /\ cuts' \in Nat /\ Broken' <= MaxBreaks
        BY <1>2, <1>9 DEF Crash, TypeOK, Broken
  <2>4. cache' \in [Channel -> 0 .. born']
        BY <2>1 DEF TypeOK
  <2>. QED
        BY <1>1, <1>9, <2>1, <2>2, <2>3, <2>4 DEF Crash, TypeOK
<1>10. CASE UNCHANGED vars
      BY <1>5, <1>10 DEF vars, TypeOK
<1>. QED
      BY <1>3, <1>4, <1>6, <1>7, <1>8, <1>9, <1>10 DEF Next

\* The type invariant: ids of probes are bounded by channels and deletions.
THEOREM TypeCorrect == Spec => []TypeOK
BY InitTyped, NextTyped, PTL DEF Spec

-----------------------------------------------------------------------------
(* What becomes of a reading. *)

\* Why a reading may be lost.
Excusable(r) ==
    \/ ~ known \/ r \in malformed
    \/ id[r] \in Gone \/ (id[r] = 0 /\ Of(r) \in vacated)
    \/ r \in rejected
    \/ crashes > 0 /\ r \notin Queued

\* A probe that somebody else has created is there, or its channel was vacated,
\* which is why the second look may fail; each crash and each loss of RabbitMQ may
\* have one more row of a message, which is inserted once between two of them.
Followed(r) ==
    /\ pc[r] = "again" => probes[Of(r)] # 0 \/ Of(r) \in vacated
    /\ pc[r] = "lost" => Excusable(r)
    /\ r \in Queued =>
          IF pc[r] \in {"ack", "done"} THEN inserted[r] \in 1 .. 1 + Broken
          ELSE IF pc[r] = "lost" THEN inserted[r] \in 0 .. 1 + Broken
          ELSE inserted[r] \in 0 .. Broken

\* A reading that a step does not move; RabbitMQ may be lost for another one.
LEMMA FollowedKept ==
    ASSUME TypeOK, NEW r \in Client, Followed(r), Ids, ProbesStep, UNCHANGED <<given, crashes>>,
           rejected \subseteq rejected', cuts' \in {cuts, cuts + 1},
           pc'[r] = pc[r], id'[r] = id[r], r \in Queued => inserted'[r] = inserted[r]
    PROVE  Followed(r)'
<1>1. /\ Gone \subseteq Gone' /\ vacated \subseteq vacated'
      /\ probes[Of(r)] # 0 => probes'[Of(r)] # 0 \/ Of(r) \in vacated'
      BY ProbesGrow, ConstantsTyped
<1>2. Excusable(r) => Excusable(r)'
      BY <1>1 DEF Excusable, given, Of
<1>3. pc'[r] = "again" => probes'[Of(r)] # 0 \/ Of(r) \in vacated'
      BY <1>1 DEF Followed
<1>4. Broken \in Nat /\ Broken' \in {Broken, Broken + 1}
      BY DEF Broken, TypeOK
<1>5. /\ 1 .. 1 + Broken \subseteq 1 .. 1 + Broken' /\ 0 .. 1 + Broken \subseteq 0 .. 1 + Broken'
      /\ 0 .. Broken \subseteq 0 .. Broken'
  <2>1. ASSUME NEW m \in Nat, NEW n \in {m, m + 1}
        PROVE  1 .. 1 + m \subseteq 1 .. 1 + n /\ 0 .. 1 + m \subseteq 0 .. 1 + n /\ 0 .. m \subseteq 0 .. n
        OBVIOUS
  <2>. QED
        BY <1>4, <2>1
<1>. QED
      BY <1>2, <1>3, <1>5 DEF Followed, Of

\* A reading that a step moves, but neither stores nor gives up nor looks up again.
LEMMA FollowedOn ==
    ASSUME TypeOK, NEW r \in Client, Followed(r), UNCHANGED <<inserted, breaks>>,
           pc[r] \notin {"ack", "done", "lost"}, pc'[r] \notin {"ack", "done", "again", "lost"}
    PROVE  Followed(r)'
BY DEF Followed, Broken, breaks

\* A reading that the database fails, stored or not.
LEMMA FollowedRejected ==
    ASSUME TypeOK, NEW r \in Client, Followed(r), UNCHANGED breaks, r \in rejected',
           pc[r] \notin {"ack", "done", "lost"}, pc'[r] = "lost",
           r \in Queued => inserted'[r] \in {inserted[r], inserted[r] + 1}
    PROVE  Followed(r)'
<1>1. Broken \in Nat /\ Broken' = Broken
      BY DEF Broken, TypeOK, breaks
<1>2. r \in Queued => inserted[r] \in 0 .. Broken
      BY DEF Followed
<1>. QED
      BY <1>1, <1>2 DEF Followed, Excusable

LEMMA OwnStepFollowed ==
    ASSUME TypeOK, Ids, ProbesStep, NEW c \in Client, Followed(c),
           Step(c) \/ Receive(c) \/ \E i \in DOMAIN Post : Post[i] = c /\ PostNext(i)
    PROVE  Followed(c)'
<1> USE DEF Goto, Fails
<1>0. /\ Gone \subseteq Gone' /\ vacated \subseteq vacated' /\ Of(c) \in Channel
      /\ Broken \in Nat
      BY ProbesGrow, ConstantsTyped DEF TypeOK, Broken
<1>1. ASSUME Begins(c) PROVE Followed(c)'
  <2>1. UNCHANGED <<inserted, breaks>> /\ pc[c] = "idle"
        BY <1>1 DEF Begins
  <2>2. \/ pc'[c] \in {"get", "use"}
        \/ pc'[c] = "lost" /\ c \in rejected'
        BY <1>1 DEF Begins, Rejects, TypeOK
  <2>. QED
        BY <2>1, <2>2, FollowedOn, FollowedRejected
<1>2. CASE \/ Deliver(c) \/ Receive(c) \/ \E i \in DOMAIN Post : Post[i] = c /\ PostNext(i)
      BY <1>1, <1>2 DEF Deliver, Receive, PostNext
<1>3. CASE CacheHit(c) \/ FindProbe(c) \/ CacheSet(c) \/ UpdateProbe(c)
  <2>1. /\ UNCHANGED <<inserted, breaks>>
        /\ pc[c] \in {"get", "set", "use"} /\ pc'[c] \in {"use", "set", "create", "idle"}
        BY <1>3 DEF CacheHit, FindProbe, CacheSet, UpdateProbe, TypeOK
  <2>. QED
        BY <2>1, FollowedOn
<1>4. CASE Discard(c)
  <2>1. /\ UNCHANGED <<inserted, breaks, malformed>> /\ c \in malformed
        /\ pc[c] = "idle" /\ pc'[c] = "lost"
        BY <1>4 DEF Discard, TypeOK, given
  <2>2. Broken' = Broken
        BY <2>1 DEF Broken, breaks
  <2>. QED
        BY <1>0, <2>1, <2>2 DEF Followed, Excusable
<1>5. CASE Reject(c)
  <2>1. /\ UNCHANGED <<inserted, breaks>> /\ c \in rejected'
        /\ pc[c] \in {"get", "create", "again", "use"} /\ pc'[c] = "lost"
        BY <1>5 DEF Reject, Rejects, TypeOK
  <2>. QED
        BY <2>1, FollowedRejected
<1>6. CASE CreateProbe(c)
  <2>1. /\ UNCHANGED <<inserted, breaks>> /\ pc[c] = "create"
        /\ \/ pc'[c] = "set"
           \/ pc'[c] = "again" /\ probes'[Of(c)] # 0
           \/ pc'[c] = "lost" /\ c \in rejected'
        BY <1>6 DEF CreateProbe, Duplicate, Rejects, TypeOK, probeVars
  <2>2. CASE pc'[c] = "again" /\ probes'[Of(c)] # 0
        BY <2>1, <2>2 DEF Followed, Of, Broken, breaks
  <2>. QED
        BY <2>1, <2>2, FollowedOn, FollowedRejected
<1>7. CASE ReadWinner(c)
  <2>1. /\ UNCHANGED <<inserted, breaks>> /\ pc[c] = "again" /\ UNCHANGED probeVars
        /\ \/ pc'[c] = "set"
           \/ pc'[c] = "lost" /\ probes[Of(c)] = 0 /\ id'[c] = 0
        BY <1>7 DEF ReadWinner, TypeOK
  <2>2. CASE pc'[c] = "lost" /\ probes[Of(c)] = 0 /\ id'[c] = 0
    <3>1. Of(c) \in vacated' /\ Broken' = Broken
          BY <1>0, <2>1, <2>2 DEF Followed, Broken, breaks
    <3>. QED
          BY <1>0, <2>1, <2>2, <3>1 DEF Followed, Excusable, Of
  <2>. QED
        BY <2>1, <2>2, FollowedOn
<1>8. CASE Insert(c)
  <2>1. CASE ~ known \/ id[c] \in Gone
    <3>1. /\ UNCHANGED <<inserted, breaks, given, id>> /\ pc[c] = "use" /\ pc'[c] = "lost"
          BY <1>8, <2>1 DEF Insert, TypeOK
    <3>2. Excusable(c)' /\ Broken' = Broken
          BY <1>0, <2>1, <3>1 DEF Excusable, given, Broken, breaks
    <3>. QED
          BY <1>0, <3>1, <3>2 DEF Followed
  <2>2. CASE ~ (~ known \/ id[c] \in Gone)
    <3>1. /\ pc[c] = "use" /\ UNCHANGED breaks
          /\ c \in Queued => inserted'[c] = inserted[c] + 1
          BY <1>8, <2>2 DEF Insert, TypeOK, Kept
    <3>2. CASE Rejects(c)
      <4>1. pc'[c] = "lost" /\ c \in rejected'
            BY <3>2 DEF Rejects, TypeOK
      <4>. QED
            BY <3>1, <4>1, FollowedRejected
    <3>3. CASE ~ Rejects(c)
      <4>1. pc'[c] \notin {"again", "lost"} /\ (c \in Queued => pc'[c] = "ack")
            BY <1>8, <2>2, <3>3 DEF Insert, TypeOK
      <4>2. c \in Queued => inserted[c] \in 0 .. Broken
            BY <3>1 DEF Followed
      <4>3. Broken' = Broken
            BY <3>1 DEF Broken, breaks
      <4>. QED
            BY <1>0, <3>1, <4>1, <4>2, <4>3 DEF Followed
    <3>. QED
          BY <3>2, <3>3
  <2>. QED
        BY <2>1, <2>2
<1>9. CASE Ack(c)
  <2>1. UNCHANGED <<inserted, breaks>> /\ pc[c] = "ack" /\ pc'[c] = "done"
        BY <1>9 DEF Ack, TypeOK
  <2>. QED
        BY <2>1 DEF Followed, Broken, breaks
<1>10. CASE AckLost(c)
  <2>1. UNCHANGED <<inserted, crashes>> /\ pc[c] = "ack" /\ pc'[c] = "idle" /\ cuts' = cuts + 1
        BY <1>10 DEF AckLost, TypeOK
  <2>2. Broken' = Broken + 1
        BY <2>1 DEF Broken, TypeOK
  <2>. QED
        BY <1>0, <2>1, <2>2 DEF Followed
<1>. QED
      BY <1>2, <1>3, <1>4, <1>5, <1>6, <1>7, <1>8, <1>9, <1>10 DEF Step

\* The step of a reading leaves all others alone.
LEMMA StepFollowed ==
    ASSUME TypeOK, Ids, ProbesStep, \A r \in Client : Followed(r), NEW c \in Client,
           Step(c) \/ Receive(c) \/ \E i \in DOMAIN Post : Post[i] = c /\ PostNext(i)
    PROVE  \A r \in Client : Followed(r)'
<1> SUFFICES ASSUME NEW r \in Client, r # c PROVE Followed(r)'
    BY OwnStepFollowed
<1> USE DEF Goto, Fails, breaks
<1>1. /\ UNCHANGED <<given, crashes>> /\ pc'[r] = pc[r]
      /\ rejected \subseteq rejected' /\ cuts' \in {cuts, cuts + 1}
      BY DEF Step, Deliver, Discard, Receive, PostNext, Begins, Reject, Rejects, CacheHit, FindProbe,
             CreateProbe, Duplicate, ReadWinner, CacheSet, Insert, Ack, AckLost, UpdateProbe, TypeOK
<1>2. id'[r] = id[r]
      BY DEF Step, Deliver, Discard, Receive, PostNext, Begins, Reject, Rejects, CacheHit, FindProbe,
             CreateProbe, Duplicate, ReadWinner, CacheSet, Insert, Ack, AckLost, UpdateProbe, TypeOK
<1>3. r \in Queued => inserted'[r] = inserted[r]
      BY DEF Step, Deliver, Discard, Receive, PostNext, Begins, Reject, CacheHit, FindProbe, CreateProbe,
             ReadWinner, CacheSet, Insert, Ack, AckLost, UpdateProbe, TypeOK, Kept
<1>. QED
      BY <1>1, <1>2, <1>3, FollowedKept

LEMMA NextFollowed ==
    ASSUME TypeOK, Ids, \A r \in Client : Followed(r), [Next]_vars
    PROVE  \A r \in Client : Followed(r)'
<1>0. ProbesStep
      BY StepIsProbesStep
<1>1. ASSUME NEW c \in Client, Step(c) \/ Receive(c) PROVE \A r \in Client : Followed(r)'
      BY <1>0, <1>1, StepFollowed
<1>2. ASSUME NEW i \in DOMAIN Post, PostNext(i) PROVE \A r \in Client : Followed(r)'
      BY <1>0, <1>2, StepFollowed, ConstantsTyped
<1>3. CASE \/ \E a \in Admin : NextChannel(a) \/ AddProbe(a)
           \/ \E c \in Channel : AddNamed(c) \/ DeleteProbe(c) \/ Expire(c)
           \/ \E c, to \in Channel : EditProbe(c, to)
           \/ DelByPattern \/ DelLost \/ UNCHANGED vars
  <2>1. UNCHANGED <<given, workVars, rejected, breaks>>
        BY <1>3 DEF NextChannel, AddProbe, AddNamed, DeleteProbe, EditProbe, Expire, DelByPattern,
                    DelLost, vars
  <2>. QED
        BY <1>0, <2>1, FollowedKept DEF workVars, breaks
<1>4. CASE Crash
  <2> SUFFICES ASSUME NEW r \in Client PROVE Followed(r)'
      OBVIOUS
  <2>1. /\ crashes \in Nat /\ crashes' = crashes + 1 /\ cuts' = cuts
        /\ UNCHANGED <<given, probeVars, inserted, rejected, changes>>
        /\ pc'[r] = Interrupted(r) /\ (pc[r] = "lost" => id'[r] = id[r])
        BY <1>4 DEF Crash, TypeOK
  <2>2. Gone' = Gone
        BY <2>1 DEF Gone, Live, probeVars
  <2>3. /\ pc'[r] \in {"idle", "done", "lost"} /\ (pc'[r] = "done" <=> pc[r] = "done")
        /\ pc[r] = "lost" => pc'[r] = "lost"
        BY <2>1 DEF Interrupted, TypeOK
  <2>4. pc'[r] = "lost" => Excusable(r)'
    <3>1. pc'[r] = "lost" => pc[r] = "lost" \/ r \notin Queued
          BY <2>1 DEF Interrupted, TypeOK
    <3>2. pc[r] = "lost" /\ Excusable(r) => Excusable(r)'
          BY <2>1, <2>2 DEF Excusable, given, changes, Of
    <3>3. r \notin Queued => Excusable(r)'
          BY <2>1 DEF Excusable
    <3>. QED
          BY <3>1, <3>2, <3>3 DEF Followed
  <2>5. r \in Queued => IF pc'[r] = "done" THEN inserted'[r] \in 1 .. 1 + Broken'
                        ELSE IF pc'[r] = "lost" THEN inserted'[r] \in 0 .. 1 + Broken'
                        ELSE inserted'[r] \in 0 .. Broken'
    <3>1. Broken \in Nat /\ Broken' = Broken + 1
          BY <2>1 DEF Broken, TypeOK
    <3>2. /\ 1 .. 1 + Broken \subseteq 1 .. 1 + Broken'
          /\ 0 .. Broken \subseteq 0 .. Broken' /\ 1 .. 1 + Broken \subseteq 0 .. Broken'
          /\ 0 .. 1 + Broken \subseteq 0 .. 1 + Broken'
          /\ 0 .. Broken' \subseteq 0 .. 1 + Broken'
          BY <3>1
    <3>. QED
          BY <2>1, <2>3, <3>2 DEF Followed
  <2>. QED
        BY <2>3, <2>4, <2>5 DEF Followed
<1>. QED
      BY <1>1, <1>2, <1>3, <1>4 DEF Next

LEMMA AlwaysFollowed == Spec => [](TypeOK /\ \A r \in Client : Followed(r))
<1>1. Init => \A r \in Client : Followed(r)
      BY DEF Init, Followed, Kept, Broken
<1>2. TypeOK /\ Ids /\ (\A r \in Client : Followed(r)) /\ [Next]_vars
      => (\A r \in Client : Followed(r))'
      BY NextFollowed
<1>. QED
      BY <1>1, <1>2, InitTyped, NextTyped, PTL DEF Spec

\* A reading is lost for a cause, by whatever way it comes.
THEOREM ReadingsAreLostForCause == Spec => []LostForCause
<1>1. (\A r \in Client : Followed(r)) => LostForCause
      BY DEF Followed, Excusable, LostForCause
<1>. QED
      BY <1>1, AlwaysFollowed, PTL

\* An acknowledged message is stored, once more per crash or loss of RabbitMQ at most.
THEOREM AckedMessagesAreStored == Spec => []AckedIsStored
<1>1. TypeOK /\ (\A r \in Client : Followed(r)) => AckedIsStored
  <2> SUFFICES ASSUME TypeOK, NEW q \in Queued, Followed(q)
               PROVE  (pc[q] = "done" => inserted[q] > 0) /\ inserted[q] <= 1 + Broken
      BY DEF AckedIsStored, Client, Kept
  <2>1. Broken \in Nat
        BY DEF TypeOK, Broken
  <2>. QED
        BY <2>1 DEF Followed
<1>. QED
      BY <1>1, AlwaysFollowed, PTL

-----------------------------------------------------------------------------
(* The cached ids. *)

\* A change whose event, or excuse, covers the keys it makes stale.
LEMMA ToldStale ==
    ASSUME TypeOK, ProbeIdStaleOnlyByAccident, NEW rows, probes' = rows, Tells(rows), UNCHANGED cache
    PROVE  ProbeIdStaleOnlyByAccident'
BY DEF Tells, Emit, StaleOf, ProbeIdStaleOnlyByAccident

LEMMA NextStale ==
    ASSUME TypeOK, Ids, ProbeIdStaleOnlyByAccident, [Next]_vars
    PROVE  ProbeIdStaleOnlyByAccident'
<1> USE DEF probeVars
<1>1. ASSUME UNCHANGED <<cache, excused, probes>>, UNCHANGED pending \/ Emit
      PROVE  ProbeIdStaleOnlyByAccident'
      BY <1>1 DEF ProbeIdStaleOnlyByAccident, Emit
<1>2. ASSUME NEW ch \in Channel, NewProbe(ch), UNCHANGED <<cache, excused>>, UNCHANGED pending \/ Emit
      PROVE  ProbeIdStaleOnlyByAccident'
  <2>1. probes[ch] = 0 /\ \A c \in Channel \ {ch} : probes'[c] = probes[c]
        BY <1>2 DEF NewProbe, TypeOK
  <2>. QED
        BY <1>2, <2>1 DEF ProbeIdStaleOnlyByAccident, Emit
<1>3. ASSUME NEW p, NEW to, UpdateRow(p, to), UNCHANGED cache PROVE ProbeIdStaleOnlyByAccident'
      BY <1>3, ToldStale DEF UpdateRow
<1>4. ASSUME NEW c \in Client, CacheSet(c) PROVE ProbeIdStaleOnlyByAccident'
  <2>1. CASE UNCHANGED <<cache, excused>>
        BY <1>1, <1>4, <2>1 DEF CacheSet
  <2>2. CASE /\ cache' = [cache EXCEPT ![Of(c)] = id[c]]
             /\ excused' = IF id[c] = probes[Of(c)] THEN excused \ {Of(c)}
                           ELSE excused \union {Of(c)}
    <3>1. UNCHANGED <<probes, pending>> /\ Of(c) \in Channel
          BY <1>4, ConstantsTyped DEF CacheSet
    <3>. QED
          BY <2>2, <3>1 DEF ProbeIdStaleOnlyByAccident, TypeOK
  <2>. QED
        BY <1>4, <2>1, <2>2 DEF CacheSet
<1>5. ASSUME NEW c \in Client, CreateProbe(c) PROVE ProbeIdStaleOnlyByAccident'
  <2>1. Of(c) \in Channel
        BY ConstantsTyped
  <2>2. CASE Duplicate(c)
        BY <1>1, <1>5, <2>2 DEF CreateProbe, Duplicate
  <2>3. CASE NewProbe(Of(c)) /\ (UNCHANGED pending \/ Emit)
        BY <1>2, <1>5, <2>1, <2>3 DEF CreateProbe
  <2>. QED
        BY <1>5, <2>2, <2>3 DEF CreateProbe
<1>6. ASSUME NEW c \in Client, UpdateProbe(c) PROVE ProbeIdStaleOnlyByAccident'
      BY <1>1, <1>3, <1>6 DEF UpdateProbe
<1>7. ASSUME NEW c \in Client, Step(c) \/ Receive(c),
             ~ CacheSet(c), ~ CreateProbe(c), ~ UpdateProbe(c)
      PROVE  ProbeIdStaleOnlyByAccident'
  <2>1. UNCHANGED <<cache, excused, probes, pending>>
        BY <1>7 DEF Step, Deliver, Discard, Receive, Begins, Reject, CacheHit, FindProbe, ReadWinner,
                    Insert, Ack, AckLost
  <2>. QED
        BY <1>1, <2>1
<1>8. ASSUME NEW a \in Admin, NextChannel(a) \/ AddProbe(a) PROVE ProbeIdStaleOnlyByAccident'
  <2>1. ASSUME draft[a] \in Channel, NewProbe(draft[a]), AddProbe(a) PROVE ProbeIdStaleOnlyByAccident'
        BY <1>1, <1>2, <2>1 DEF AddProbe, NewProbe
  <2>. QED
        BY <1>1, <1>8, <2>1 DEF NextChannel, AddProbe
<1>9. ASSUME NEW c \in Channel, AddNamed(c) PROVE ProbeIdStaleOnlyByAccident'
      BY <1>2, <1>9 DEF AddNamed
<1>10. ASSUME NEW c \in Channel, DeleteProbe(c) PROVE ProbeIdStaleOnlyByAccident'
      BY <1>10, ToldStale DEF DeleteProbe
<1>11. ASSUME NEW c \in Channel, NEW to \in Channel, EditProbe(c, to) PROVE ProbeIdStaleOnlyByAccident'
      BY <1>3, <1>11 DEF EditProbe
<1>12. CASE (\E i \in DOMAIN Post : PostNext(i)) \/ UNCHANGED vars
      BY <1>1, <1>12 DEF PostNext, Begins, vars
<1>13. CASE DelByPattern
      BY <1>13 DEF DelByPattern, ProbeIdStaleOnlyByAccident
<1>14. CASE DelLost \/ Crash
      BY <1>14 DEF DelLost, Crash, Stale, StaleOf, ProbeIdStaleOnlyByAccident
<1>15. ASSUME NEW c \in Channel, Expire(c) PROVE ProbeIdStaleOnlyByAccident'
      BY <1>15 DEF Expire, ProbeIdStaleOnlyByAccident, TypeOK
<1>. QED
      BY <1>4, <1>5, <1>6, <1>7, <1>8, <1>9, <1>10, <1>11, <1>12, <1>13, <1>14, <1>15 DEF Next

\* The id of a probe that was deleted or moved stays cached by accident only.
THEOREM StaleIdsHaveACause == Spec => []ProbeIdStaleOnlyByAccident
<1>1. Init => ProbeIdStaleOnlyByAccident
      BY DEF Init, ProbeIdStaleOnlyByAccident
<1>. QED
      BY <1>1, InitTyped, NextTyped, NextStale, PTL DEF Spec

=============================================================================
