---------------------------- MODULE CacheProofs ----------------------------
(***************************************************************************)
(* Proofs about what Redis holds of the tables: the points and wards of    *)
(* AssignmentCache, for any sets of points, boxes, wards, requests and     *)
(* readers; and the views of LogViews, with its streams, for any number of *)
(* requests, streams and readings.                                         *)
(***************************************************************************)
EXTENDS AssignmentCache, LogViews, TLAPS

-----------------------------------------------------------------------------
(* AssignmentCache: the registry, and what a factory reads from it. *)

\* A box is in at most one point, and only existing points hold boxes.
OnePlace ==
    /\ \A d, e \in Device : installed[d] = installed[e] /\ installed[d] # None => d = e
    /\ \A d \in Device : installed[d] # None => d \in registered

LEMMA PointOfTyped == ASSUME NEW s PROVE PointOf(s) \in Device \union {None}
BY DEF PointOf

\* PointOf is the inverse of installed.
LEMMA PointOfIs ==
    ASSUME OnePlace, CacheAssumption, NEW d \in Device, NEW s \in Serial
    PROVE  PointOf(s) = d <=> installed[d] = s
<1>1. ASSUME installed[d] = s PROVE PointOf(s) = d
  <2>1. s # None
        BY CacheAssumption
  <2>2. \A e \in Device : installed[e] = s => e = d
        BY <1>1, <2>1 DEF OnePlace
  <2>. QED
        BY <1>1, <2>2 DEF PointOf
<1>2. ASSUME PointOf(s) = d PROVE installed[d] = s
      BY <1>2, CacheAssumption DEF PointOf
<1>. QED
      BY <1>1, <1>2

\* A box that nothing has been done with stays where it is.
LEMMA PointOfKept ==
    ASSUME NEW s, \A d \in Device : installed'[d] = s <=> installed[d] = s
    PROVE  PointOf(s)' = PointOf(s)
BY DEF PointOf

LEMMA QueryTyped ==
    ASSUME TypeOK, NEW k \in Key
    PROVE  Query(k) \in Values
<1>1. PointOf(k[2]) \in Device \union {None}
      BY PointOfTyped
<1>2. \A d \in Device : wardOf[d] \in Ward
      BY DEF TypeOK
<1>. QED
      BY <1>1, <1>2, CacheAssumption DEF Query, Values, Key

\* The answer for a box depends on where it is, and on the ward of that point.
LEMMA QueryKept ==
    ASSUME NEW k, PointOf(k[2])' = PointOf(k[2]),
           PointOf(k[2]) # None => wardOf'[PointOf(k[2])] = wardOf[PointOf(k[2])]
    PROVE  Query(k)' = Query(k)
BY DEF Query

LEMMA QueryUnchanged ==
    ASSUME UNCHANGED <<installed, wardOf>>, NEW k
    PROVE  Query(k)' = Query(k)
<1>1. PointOf(k[2])' = PointOf(k[2])
      BY DEF PointOf
<1>. QED
      BY <1>1, QueryKept

-----------------------------------------------------------------------------
(* Types, and what a request knows. *)

\* A swap that has read knows its point and its box; keys are deleted only
\* between the commit and the answer.
RequestsSound ==
    /\ dev \in [Request -> Device \union {None}]
    /\ ser \in [Request -> Serial \union {None}]
    /\ prev \in [Request -> Serial \union {None}]
    /\ \A c \in Request :
          /\ pc[c] = "read" => dev[c] \in registered /\ ser[c] \in Serial
          /\ pc[c] # "invalidate" => dels[c] = {}
    /\ \A r \in Reader : rpc[r] # "idle" => rkey[r] \in Key

IInv == TypeOK /\ OnePlace /\ RequestsSound /\ StaleOnlyByAccident

LEMMA InitInductive == Init => IInv
<1> SUFFICES ASSUME Init PROVE IInv
    OBVIOUS
<1>1. TypeOK
      BY DEF Init, TypeOK, RegistryInit, Values
<1>2. OnePlace
      BY DEF Init, RegistryInit, OnePlace
<1>3. RequestsSound
      BY DEF Init, RequestsSound
<1>4. StaleOnlyByAccident
      BY DEF Init, StaleOnlyByAccident, Stale
<1>. QED
      BY <1>1, <1>2, <1>3, <1>4 DEF IInv

-----------------------------------------------------------------------------
(* Steps that leave the database and the entries alone. *)

\* Nothing gets stale as long as explanations stay.
LEMMA NothingStaler ==
    ASSUME StaleOnlyByAccident, UNCHANGED <<installed, wardOf, cache>>,
           \A k \in Key : cause[k] # {} => cause'[k] # {},
           \A k \in Key : (\E c \in Request : k \in dels[c])
                           => cause'[k] # {} \/ \E c \in Request : k \in dels'[c]
    PROVE  StaleOnlyByAccident'
<1> SUFFICES ASSUME NEW k \in Key, k[1] \in {"assign", "ward"}, Stale(k)'
             PROVE  cause'[k] # {} \/ \E c \in Request : k \in dels'[c]
    BY DEF StaleOnlyByAccident
<1>1. Query(k)' = Query(k)
      BY QueryUnchanged
<1>2. Stale(k)
      BY <1>1 DEF Stale
<1>. QED
      BY <1>2 DEF StaleOnlyByAccident

LEMMA SwapReadInductive ==
    ASSUME IInv, NEW c \in Request, NEW d \in Device, NEW s \in Serial, SwapRead(c, d, s)
    PROVE  IInv'
<1> USE DEF IInv, SwapRead, db, reading
<1>1. TypeOK'
      BY DEF TypeOK, RegistryTypeOK
<1>2. OnePlace'
      BY DEF OnePlace
<1>3. RequestsSound'
      BY DEF RequestsSound, TypeOK, RegistryTypeOK
<1>4. StaleOnlyByAccident'
      BY NothingStaler
<1>. QED
      BY <1>1, <1>2, <1>3, <1>4

LEMMA SwapNothingInductive ==
    ASSUME IInv, NEW c \in Request, SwapNothing(c)
    PROVE  IInv'
<1> USE DEF IInv, SwapNothing, db, reading, swap
<1>1. InvalidateKeys({ser[c]}) \subseteq Key /\ dels[c] = {}
      BY DEF InvalidateKeys, RequestsSound
<1>2. TypeOK'
      BY <1>1 DEF TypeOK, RegistryTypeOK
<1>3. OnePlace'
      BY DEF OnePlace
<1>4. RequestsSound'
      BY DEF RequestsSound, TypeOK
<1>5. \A k, o : k \in dels[o] /\ o \in Request => k \in dels'[o]
      BY <1>1 DEF TypeOK
<1>6. StaleOnlyByAccident'
      BY <1>5, NothingStaler
<1>. QED
      BY <1>2, <1>3, <1>4, <1>6

LEMMA FinishInductive ==
    ASSUME IInv, NEW c \in Request, Finish(c), dels[c] = {}
    PROVE  IInv'
<1> USE DEF IInv, Finish, db, reading
<1>1. TypeOK'
      BY DEF TypeOK, RegistryTypeOK
<1>2. OnePlace'
      BY DEF OnePlace
<1>3. RequestsSound'
      BY DEF RequestsSound, TypeOK
<1>4. StaleOnlyByAccident'
      BY NothingStaler
<1>. QED
      BY <1>1, <1>2, <1>3, <1>4

LEMMA DeleteLostInductive ==
    ASSUME IInv, NEW c \in Request, NEW k \in Key, DeleteLost(c, k)
    PROVE  IInv'
<1> USE DEF IInv, DeleteLost, db, reading, swap
<1>1. TypeOK'
      BY DEF TypeOK, RegistryTypeOK
<1>2. OnePlace'
      BY DEF OnePlace
<1>3. RequestsSound'
      BY DEF RequestsSound, TypeOK
<1>4. /\ "lost" \in cause'[k]
      /\ \A j \in Key \ {k} : cause'[j] = cause[j]
                              /\ \A o \in Request : j \in dels[o] => j \in dels'[o]
      BY DEF TypeOK
<1>5. StaleOnlyByAccident'
      BY <1>4, NothingStaler
<1>. QED
      BY <1>1, <1>2, <1>3, <1>5

-----------------------------------------------------------------------------
(* Steps about one entry. *)

\* An entry that is set or deleted answers for itself, and the others stay.
LEMMA OneEntryChanges ==
    ASSUME StaleOnlyByAccident, UNCHANGED <<installed, wardOf>>, NEW k \in Key,
           cache'[k] \in {Miss, Query(k)} \/ cause'[k] # {},
           \A j \in Key \ {k} :
              /\ cache'[j] = cache[j] /\ cause'[j] = cause[j]
              /\ \A c \in Request : j \in dels[c] => j \in dels'[c]
    PROVE  StaleOnlyByAccident'
<1> SUFFICES ASSUME NEW j \in Key, j[1] \in {"assign", "ward"}, Stale(j)'
             PROVE  cause'[j] # {} \/ \E c \in Request : j \in dels'[c]
    BY DEF StaleOnlyByAccident
<1>1. Query(j)' = Query(j)
      BY QueryUnchanged
<1>2. CASE j = k
      BY <1>1, <1>2 DEF Stale
<1>3. CASE j # k
  <2>1. Stale(j)
        BY <1>1, <1>3 DEF Stale
  <2>. QED
        BY <1>3, <2>1 DEF StaleOnlyByAccident
<1>. QED
      BY <1>2, <1>3

LEMMA DeleteInductive ==
    ASSUME IInv, NEW c \in Request, NEW k \in Key, Delete(c, k)
    PROVE  IInv'
<1> USE DEF IInv, Delete, db, reading, swap
<1>1. TypeOK'
      BY DEF TypeOK, RegistryTypeOK
<1>2. OnePlace'
      BY DEF OnePlace
<1>3. RequestsSound'
      BY DEF RequestsSound, TypeOK
<1>4. /\ cache'[k] = Miss
      /\ \A j \in Key \ {k} : /\ cache'[j] = cache[j] /\ cause'[j] = cause[j]
                              /\ \A o \in Request : j \in dels[o] => j \in dels'[o]
      BY DEF TypeOK
<1>5. StaleOnlyByAccident'
      BY <1>4, OneEntryChanges
<1>. QED
      BY <1>1, <1>2, <1>3, <1>5

LEMMA ExpireInductive ==
    ASSUME IInv, NEW k \in Key, Expire(k)
    PROVE  IInv'
<1> USE DEF IInv, Expire, db, reading, swap
<1>1. TypeOK'
      BY DEF TypeOK, RegistryTypeOK
<1>2. OnePlace'
      BY DEF OnePlace
<1>3. RequestsSound'
      BY DEF RequestsSound
<1>4. /\ cache'[k] = Miss
      /\ \A j \in Key \ {k} : cache'[j] = cache[j] /\ cause'[j] = cause[j]
      BY DEF TypeOK
<1>5. StaleOnlyByAccident'
      BY <1>4, OneEntryChanges
<1>. QED
      BY <1>1, <1>2, <1>3, <1>5

LEMMA StoreInductive ==
    ASSUME IInv, NEW r \in Reader, Store(r)
    PROVE  IInv'
<1> USE DEF IInv, Store, Return, db, swap
<1> DEFINE k == rkey[r]
<1>0. k \in Key /\ rval[r] \in Values
      BY DEF RequestsSound, TypeOK
<1>1. TypeOK'
      BY <1>0 DEF TypeOK, RegistryTypeOK, Values
<1>2. OnePlace'
      BY DEF OnePlace
<1>3. RequestsSound'
      BY DEF RequestsSound, TypeOK
<1>4. /\ cache'[k] = rval[r]
      /\ cause'[k] = IF rval[r] = Query(k) THEN {} ELSE {"late"}
      /\ \A j \in Key \ {k} : cache'[j] = cache[j] /\ cause'[j] = cause[j]
      BY <1>0 DEF TypeOK
<1>5. StaleOnlyByAccident'
      BY <1>0, <1>4, OneEntryChanges
<1>. QED
      BY <1>1, <1>2, <1>3, <1>5

\* The other steps of getOrSet.
LEMMA ReadInductive ==
    ASSUME IInv, NEW r \in Reader,
           NoStore(r) \/ RunFactory(r) \/ \E k \in Key : Lookup(r, k)
    PROVE  IInv'
<1> USE DEF IInv, NoStore, RunFactory, Lookup, Return, db, swap
<1>0. rpc[r] # "idle" => Query(rkey[r]) \in Values
      BY QueryTyped DEF RequestsSound
<1>1. TypeOK'
      BY <1>0 DEF TypeOK, RegistryTypeOK, Values
<1>2. OnePlace'
      BY DEF OnePlace
<1>3. RequestsSound'
      BY DEF RequestsSound, TypeOK
<1>4. StaleOnlyByAccident'
      BY NothingStaler
<1>. QED
      BY <1>1, <1>2, <1>3, <1>4

-----------------------------------------------------------------------------
(* Steps that change the database. *)

\* Only the boxes of one change get stale, and their keys are on the list of
\* the request that made it, or explained.
LEMMA ChangeOfBoxes ==
    ASSUME StaleOnlyByAccident, NEW c \in Request, dels[c] = {}, UNCHANGED cache,
           \A o \in Request \ {c} : dels'[o] = dels[o],
           \A k \in Key : cause[k] # {} => cause'[k] # {},
           NEW boxes,
           \A k \in Key : k[2] \notin boxes => Query(k)' = Query(k),
           \A k \in Key : k[1] \in {"assign", "ward"} /\ k[2] \in boxes
                           => k \in dels'[c] \/ cause'[k] # {}
    PROVE  StaleOnlyByAccident'
<1> SUFFICES ASSUME NEW k \in Key, k[1] \in {"assign", "ward"}, Stale(k)', k[2] \notin boxes
             PROVE  cause'[k] # {} \/ \E o \in Request : k \in dels'[o]
    BY DEF StaleOnlyByAccident
<1>1. Stale(k)
      BY DEF Stale
<1>2. CASE cause[k] # {}
      BY <1>2
<1>3. ASSUME NEW o \in Request, k \in dels[o] PROVE k \in dels'[o]
      BY <1>3
<1>. QED
      BY <1>1, <1>2, <1>3 DEF StaleOnlyByAccident

LEMMA SwapCommitInductive ==
    ASSUME IInv, CacheAssumption, NEW c \in Request, SwapCommit(c)
    PROVE  IInv'
<1> USE DEF IInv, SwapCommit, Install, swap, reading
<1> DEFINE d == dev[c]
           s == ser[c]
           out == installed[d]
           gone == IF out \in {prev[c], s} THEN {} ELSE InvalidateKeys({out})
<1>1. d \in registered /\ d \in Device /\ s \in Serial /\ dels[c] = {}
      BY DEF RequestsSound, TypeOK, RegistryTypeOK
<1>2. InvalidateKeys({prev[c], s}) \subseteq Key
      BY DEF InvalidateKeys
<1>3. /\ pc' = [pc EXCEPT ![c] = "invalidate"]
      /\ dels' = [dels EXCEPT ![c] = InvalidateKeys({prev[c], s})]
      /\ cause' = [k \in Key |-> IF k \in gone THEN cause[k] \union {"missed"} ELSE cause[k]]
      /\ registered' = registered
      /\ installed' = [e \in Device |-> IF e = d THEN s ELSE IF installed[e] = s THEN None ELSE installed[e]]
      /\ UNCHANGED <<wardOf, cache, dev, ser, prev, rpc, rkey, rval>>
      OBVIOUS
<1> HIDE DEF d, s, out, gone, SwapCommit
<1>4. TypeOK'
      BY <1>1, <1>2, <1>3 DEF TypeOK, RegistryTypeOK
<1>5. OnePlace'
      BY <1>1, <1>3, CacheAssumption DEF OnePlace
<1>6. RequestsSound'
      BY <1>1, <1>3 DEF RequestsSound, TypeOK
<1>7. ASSUME NEW k \in Key, k[2] \notin {s, out}
      PROVE  Query(k)' = Query(k)
  <2>1. k[2] \in Serial /\ k[2] # None
        BY CacheAssumption DEF Key
  <2>2. \A e \in Device : installed'[e] = k[2] <=> installed[e] = k[2]
        BY <1>1, <1>3, <1>7, <2>1 DEF out
  <2>3. PointOf(k[2])' = PointOf(k[2])
        BY <2>2, PointOfKept
  <2>. QED
        BY <1>3, <2>3, QueryKept
<1>8. ASSUME NEW k \in Key, k[1] \in {"assign", "ward"}, k[2] \in {s, out}
      PROVE  k \in dels'[c] \/ cause'[k] # {}
  <2>1. CASE k[2] \in {prev[c], s}
    <3>1. k \in InvalidateKeys({prev[c], s})
          BY <1>8, <2>1 DEF InvalidateKeys
    <3>. QED
          BY <1>3, <3>1 DEF TypeOK
  <2>2. CASE k[2] \notin {prev[c], s}
    <3>1. k \in gone
          BY <1>8, <2>2 DEF gone, InvalidateKeys
    <3>. QED
          BY <1>3, <3>1
  <2>. QED
        BY <2>1, <2>2
<1>9. StaleOnlyByAccident'
  <2>1. \A o \in Request \ {c} : dels'[o] = dels[o]
        BY <1>3 DEF TypeOK
  <2>2. \A k \in Key : cause[k] # {} => cause'[k] # {}
        BY <1>3
  <2> DEFINE boxes == {s, out}
  <2>3. \A k \in Key : k[2] \notin boxes => Query(k)' = Query(k)
        BY <1>7
  <2>4. \A k \in Key : k[1] \in {"assign", "ward"} /\ k[2] \in boxes => k \in dels'[c] \/ cause'[k] # {}
        BY <1>8
  <2>5. UNCHANGED cache
        BY <1>3
  <2> HIDE DEF boxes
  <2>. QED
        BY <1>1, <2>1, <2>2, <2>3, <2>4, <2>5, ChangeOfBoxes
<1>. QED
      BY <1>4, <1>5, <1>6, <1>9

LEMMA CreateWithInductive ==
    ASSUME IInv, CacheAssumption, NEW c \in Request, NEW d \in Device, NEW s \in Serial,
           CreateWith(c, d, s)
    PROVE  IInv'
<1> USE DEF IInv, CreateWith, RegisterWith, swap, reading
<1>1. InvalidateKeys({s}) \subseteq Key /\ dels[c] = {}
      BY DEF InvalidateKeys, RequestsSound
<1>2. TypeOK'
      BY <1>1 DEF TypeOK, RegistryTypeOK
<1>3. OnePlace'
      BY DEF OnePlace, TypeOK, RegistryTypeOK
<1>4. RequestsSound'
      BY DEF RequestsSound, TypeOK
<1>5. ASSUME NEW k \in Key, k[2] # s
      PROVE  Query(k)' = Query(k)
  <2>1. k[2] \in Serial /\ k[2] # None
        BY CacheAssumption DEF Key
  <2>2. installed[d] = None
        BY DEF OnePlace
  <2>3. \A e \in Device : installed'[e] = k[2] <=> installed[e] = k[2]
        BY <1>5, <2>1, <2>2 DEF TypeOK, RegistryTypeOK
  <2>4. PointOf(k[2])' = PointOf(k[2])
        BY <2>3, PointOfKept
  <2>. QED
        BY <2>4, QueryKept
<1>6. ASSUME NEW k \in Key, k[1] \in {"assign", "ward"}, k[2] = s
      PROVE  k \in dels'[c]
  <2>1. k \in InvalidateKeys({s})
        BY <1>6 DEF InvalidateKeys
  <2>. QED
        BY <2>1 DEF TypeOK
<1>7. StaleOnlyByAccident'
  <2>1. \A o \in Request \ {c} : dels'[o] = dels[o]
        BY DEF TypeOK
  <2> DEFINE boxes == {s}
  <2>2. \A k \in Key : k[2] \notin boxes => Query(k)' = Query(k)
        BY <1>5
  <2>3. \A k \in Key : k[1] \in {"assign", "ward"} /\ k[2] \in boxes => k \in dels'[c]
        BY <1>6
  <2> HIDE DEF boxes
  <2>. QED
        BY <1>1, <2>1, <2>2, <2>3, ChangeOfBoxes
<1>. QED
      BY <1>2, <1>3, <1>4, <1>7

LEMMA EditWardInductive ==
    ASSUME IInv, CacheAssumption, NEW c \in Request, NEW s \in Serial, NEW w \in Ward,
           EditWard(c, s, w)
    PROVE  IInv'
<1> USE DEF IInv, EditWard, swap, reading
<1>1. PointOf(s) \in Device /\ dels[c] = {}
      BY PointOfTyped DEF RequestsSound
<1>2. TypeOK'
      BY <1>1 DEF TypeOK, RegistryTypeOK
<1>3. OnePlace'
      BY DEF OnePlace
<1>4. RequestsSound'
      BY DEF RequestsSound, TypeOK
<1>5. ASSUME NEW k \in Key, k[2] # s
      PROVE  Query(k)' = Query(k)
  <2>1. PointOf(k[2])' = PointOf(k[2])
        BY DEF PointOf
  <2>2. k[2] \in Serial
        BY DEF Key
  <2>3. PointOf(k[2]) # PointOf(s)
    <3>1. installed[PointOf(s)] = s
          BY <1>1, PointOfIs
    <3>. QED
          BY <1>1, <1>5, <2>2, <3>1, PointOfIs
  <2>4. PointOf(k[2]) # None => PointOf(k[2]) \in Device
        BY PointOfTyped
  <2>5. PointOf(k[2]) # None => wardOf'[PointOf(k[2])] = wardOf[PointOf(k[2])]
        BY <2>3, <2>4 DEF TypeOK
  <2>. QED
        BY <2>1, <2>5, QueryKept
<1>6. \A k \in Key : k[2] = s => k \in dels'[c]
      BY DEF TypeOK
<1>7. StaleOnlyByAccident'
  <2>1. \A o \in Request \ {c} : dels'[o] = dels[o]
        BY DEF TypeOK
  <2> DEFINE boxes == {s}
  <2>2. \A k \in Key : k[2] \notin boxes => Query(k)' = Query(k)
        BY <1>5
  <2>3. \A k \in Key : k[1] \in {"assign", "ward"} /\ k[2] \in boxes => k \in dels'[c]
        BY <1>6
  <2> HIDE DEF boxes
  <2>. QED
        BY <1>1, <2>1, <2>2, <2>3, ChangeOfBoxes
<1>. QED
      BY <1>2, <1>3, <1>4, <1>7

-----------------------------------------------------------------------------

LEMMA NextInductive == IInv /\ [Next]_vars => IInv'
<1> SUFFICES ASSUME IInv, [Next]_vars PROVE IInv'
    OBVIOUS
<1> USE CacheAssumption
<1>1. ASSUME NEW c \in Request, NEW d \in Device, NEW s \in Serial,
             SwapRead(c, d, s) \/ CreateWith(c, d, s)
      PROVE  IInv'
      BY <1>1, SwapReadInductive, CreateWithInductive
<1>2. ASSUME NEW c \in Request, NEW s \in Serial, NEW w \in Ward, EditWard(c, s, w)
      PROVE  IInv'
      BY <1>2, EditWardInductive
<1>3. ASSUME NEW c \in Request, RequestStep(c) PROVE IInv'
  <2>1. CASE SwapCommit(c)
        BY <2>1, SwapCommitInductive
  <2>2. CASE SwapNothing(c)
        BY <2>2, SwapNothingInductive
  <2>3. CASE SwapFail(c) \/ Answer(c)
    <3>1. dels[c] = {}
          BY <2>3 DEF SwapFail, Answer, IInv, RequestsSound
    <3>. QED
          BY <2>3, <3>1, FinishInductive DEF SwapFail, Answer
  <2>4. ASSUME NEW k \in Key, Delete(c, k) \/ DeleteLost(c, k) PROVE IInv'
        BY <2>4, DeleteInductive, DeleteLostInductive
  <2>. QED
        BY <1>3, <2>1, <2>2, <2>3, <2>4 DEF RequestStep
<1>4. ASSUME NEW r \in Reader, ReaderStep(r) \/ \E k \in Key : Lookup(r, k) PROVE IInv'
      BY <1>4, StoreInductive, ReadInductive DEF ReaderStep
<1>5. ASSUME NEW k \in Key, Expire(k) PROVE IInv'
      BY <1>5, ExpireInductive
<1>6. CASE UNCHANGED vars
  <2> USE <1>6 DEF vars, db, swap, reading, IInv
  <2>1. TypeOK'
        BY DEF TypeOK, RegistryTypeOK
  <2>2. OnePlace' /\ RequestsSound'
        BY DEF OnePlace, RequestsSound
  <2>3. StaleOnlyByAccident'
        BY NothingStaler
  <2>. QED
        BY <2>1, <2>2, <2>3
<1>. QED
      BY <1>1, <1>2, <1>3, <1>4, <1>5, <1>6 DEF Next

LEMMA AlwaysInductive == Spec => []IInv
BY InitInductive, NextInductive, PTL DEF Spec

\* The type invariant, for any number of boxes, points and requests.
THEOREM TypeCorrect == Spec => []TypeOK
<1>1. IInv => TypeOK
      BY DEF IInv
<1>. QED
      BY <1>1, AlwaysInductive, PTL

\* However many swaps, edits and reads overlap, an entry of assign: or ward: is
\* stale only while it is about to be deleted, or for a cause on record.
THEOREM StaleEntriesHaveACause == Spec => []StaleOnlyByAccident
<1>1. IInv => StaleOnlyByAccident
      BY DEF IInv
<1>. QED
      BY <1>1, AlwaysInductive, PTL

-----------------------------------------------------------------------------
(* LogViews: types. *)

\* What ViewTypeOK says of a request, of all of them, and of a stream.
Reading  == [at : {"idle", "query", "set"}, seen : SUBSET {"probes", "rows"}, fresh : BOOLEAN]
ReaderOK == reader \in [Viewer -> Reading]
Stream   == [at : {"closed", "query", "first", "live"}, first : 0 .. now, shown : 0 .. now]

LEMMA NoReaderTyped == NoReader \in Reading
BY DEF NoReader, Reading

LEMMA ViewInitTyped == ViewInit => ViewTypeOK
<1> SUFFICES ASSUME ViewInit PROVE ViewTypeOK
    OBVIOUS
<1>1. ReaderOK
      BY NoReaderTyped DEF ViewInit, ReaderOK
<1>2. excused \in BOOLEAN
      BY DEF ViewInit
<1>3. watch \in [Watcher -> Stream]
      BY DEF ViewInit, Closed, Stream
<1>. QED
      BY <1>1, <1>2, <1>3, ViewAssumption DEF ViewInit, ViewTypeOK, View, ReaderOK, Reading, Stream

\* Entries keep their type when what they are about changes.
LEMMA OutdateTyped ==
    ASSUME ViewTypeOK, NEW what, Outdate(what)
    PROVE  view' \in {"none", "fresh", "stale"} /\ watched' \in View /\ ReaderOK'
<1>1. ReaderOK
      BY DEF ViewTypeOK, ReaderOK, Reading
<1>2. ASSUME NEW g \in Viewer
      PROVE  [reader[g] EXCEPT !.fresh = @ /\ what \notin reader[g].seen] \in Reading
  <2>1. reader[g] \in Reading
        BY <1>1 DEF ReaderOK
  <2>2. (reader[g].fresh /\ what \notin reader[g].seen) \in BOOLEAN
        OBVIOUS
  <2>. QED
        BY <2>1, <2>2 DEF Reading
<1>. QED
      BY <1>2 DEF Outdate, ReaderOK, ViewTypeOK

\* The actions, one step each.
LEMMA ViewNextTyped == ViewTypeOK /\ [ViewNext]_viewVars => ViewTypeOK'
<1> SUFFICES ASSUME ViewTypeOK, [ViewNext]_viewVars PROVE ViewTypeOK'
    OBVIOUS
<1> USE ViewAssumption DEF ViewTypeOK, View, Pattern, box, cacheVars
<1>1. CASE SendLog
      BY <1>1 DEF SendLog
<1>2. CASE SendRealtime
      BY <1>2 DEF SendRealtime
<1>3. ASSUME NEW t \in onway, NEW placed \in BOOLEAN, StoreReading(t, placed)
      PROVE  ViewTypeOK'
  <2>1. /\ onway' \subseteq onway /\ now' = now
        /\ latest' = IF t > latest THEN t ELSE latest
        BY <1>3 DEF StoreReading
  <2>2. onway' \subseteq 1 .. now' /\ latest' \in 0 .. now'
        BY <2>1
  <2>3. CASE placed
    <3>1. view' \in {"none", "fresh", "stale"} /\ watched' \in View /\ ReaderOK'
          BY <1>3, <2>3, OutdateTyped DEF StoreReading
    <3>. QED
          BY <1>3, <2>2, <2>3, <3>1 DEF StoreReading, Begin, ReaderOK, Reading
  <2>4. CASE ~ placed
        BY <1>3, <2>2, <2>4 DEF StoreReading
  <2>. QED
        BY <2>3, <2>4
<1>4. CASE ChangeProbe
  <2>1. view' \in {"none", "fresh", "stale"} /\ watched' \in View /\ ReaderOK'
        BY <1>4, OutdateTyped DEF ChangeProbe
  <2>. QED
        BY <1>4, <2>1 DEF ChangeProbe, Begin, ReaderOK, Reading
<1>5. CASE EditRow
  <2>1. view' \in {"none", "fresh", "stale"} /\ watched' \in View /\ ReaderOK'
        BY <1>5, OutdateTyped DEF EditRow
  <2>2. excused' \in BOOLEAN /\ latest' \in 0 .. now
        BY <1>5 DEF EditRow
  <2>. QED
        BY <1>5, <2>1, <2>2 DEF EditRow, ReaderOK, Reading
<1>6. ASSUME NEW g \in Viewer, MissView(g) PROVE ViewTypeOK'
      BY <1>6 DEF MissView
<1>7. ASSUME NEW g \in Viewer, NEW part \in {"probes", "rows"}, QueryPart(g, part) PROVE ViewTypeOK'
  <2> DEFINE got == IF watched = "logday" THEN {"probes", "rows"} ELSE reader[g].seen \union {part}
             next == [reader[g] EXCEPT !.seen = got,
                                       !.at = IF got = {"probes", "rows"} THEN "set" ELSE "query"]
  <2>1. reader[g] \in Reading /\ got \in SUBSET {"probes", "rows"}
        BY DEF Reading
  <2>2. next \in Reading
        BY <2>1 DEF Reading
  <2>3. reader' = [reader EXCEPT ![g] = next]
        BY <1>7 DEF QueryPart
  <2>4. ReaderOK'
        BY <2>2, <2>3 DEF ReaderOK, Reading
  <2>. QED
        BY <1>7, <2>4 DEF QueryPart, ReaderOK, Reading
<1>8. ASSUME NEW g \in Viewer, Fill(g) PROVE ViewTypeOK'
  <2>1. ReaderOK'
        BY <1>8, NoReaderTyped DEF Fill, ReaderOK, Reading
  <2>2. excused' \in BOOLEAN
        BY <1>8 DEF Fill
  <2>. QED
        BY <1>8, <2>1, <2>2 DEF Fill, ReaderOK, Reading
<1>9. ASSUME NEW p \in Pattern, DelByPattern(p) PROVE ViewTypeOK'
      BY <1>9 DEF DelByPattern, Proceed
<1>10. ASSUME NEW p \in Pattern, DelLost(p) PROVE ViewTypeOK'
  <2>1. excused' \in BOOLEAN
        BY <1>10 DEF DelLost
  <2>. QED
        BY <1>10, <2>1 DEF DelLost, Proceed
<1>11. CASE ExpireView
      BY <1>11 DEF ExpireView
<1>12. ASSUME NEW w \in Watcher, Open(w) PROVE ViewTypeOK'
      BY <1>12 DEF Open
<1>13. ASSUME NEW w \in Watcher, AskLast(w) PROVE ViewTypeOK'
  <2> DEFINE next == [watch[w] EXCEPT !.at = "first", !.first = latest]
  <2>1. watch[w] \in Stream /\ latest \in 0 .. now
        BY DEF Stream
  <2>2. next \in Stream
        BY <2>1 DEF Stream
  <2>3. watch' = [watch EXCEPT ![w] = next]
        BY <1>13 DEF AskLast
  <2> HIDE DEF next
  <2>4. watch' \in [Watcher -> Stream]
        BY <2>2, <2>3 DEF Stream
  <2>. QED
        BY <1>13, <2>4 DEF AskLast, Stream
<1>14. ASSUME NEW w \in Watcher, ShowFirst(w) PROVE ViewTypeOK'
  <2> DEFINE next == [at |-> "live", first |-> 0,
                      shown |-> IF watch[w].first = 0 THEN watch[w].shown ELSE watch[w].first]
  <2>1. watch[w] \in Stream
        BY DEF Stream
  <2>2. next \in Stream
        BY <2>1 DEF Stream
  <2>3. watch' = [watch EXCEPT ![w] = next]
        BY <1>14 DEF ShowFirst
  <2> HIDE DEF next
  <2>4. watch' \in [Watcher -> Stream]
        BY <2>2, <2>3 DEF Stream
  <2>. QED
        BY <1>14, <2>4 DEF ShowFirst, Stream
<1>15. ASSUME NEW w \in Watcher, Close(w) PROVE ViewTypeOK'
      BY <1>15 DEF Close, Closed
<1>16. CASE Crash
  <2>1. ReaderOK'
        BY <1>16, NoReaderTyped DEF Crash, ReaderOK
  <2>2. excused' \in BOOLEAN
        BY <1>16 DEF Crash
  <2>3. watch' \in [Watcher -> Stream]
        BY <1>16 DEF Crash, Closed, Stream
  <2>. QED
        BY <1>16, <2>1, <2>2, <2>3 DEF Crash, ReaderOK, Reading, Stream
<1>17. CASE UNCHANGED viewVars
      BY <1>17 DEF viewVars
<1>. QED
      BY <1>1, <1>2, <1>3, <1>4, <1>5, <1>6, <1>7, <1>8, <1>9, <1>10, <1>11,
         <1>12, <1>13, <1>14, <1>15, <1>16, <1>17 DEF ViewNext

\* The type invariant, for any number of requests and streams.
THEOREM ViewTypeCorrect == ViewSpec => []ViewTypeOK
BY ViewInitTyped, ViewNextTyped, PTL DEF ViewSpec

-----------------------------------------------------------------------------
(* LogViews: cached views. *)

\* A handler that goes on leaves something to do before the key of the view.
LEMMA HandlerGoesOn ==
    ASSUME NEW p \in Pattern, watched \in View, watched' = watched, Proceed(p),
           p # watched, pending \intersect {"probe", "graph", watched} # {}
    PROVE  pending' \intersect {"probe", "graph", watched'} # {}
<1>1. PICK rest \in {pending, pending \ {p}} :
         pending' = rest \union CASE p = "probe" -> {"graph"} [] p = "graph" -> {"logday"} [] OTHER -> {}
      BY DEF Proceed
<1>2. CASE p = "probe"
      BY <1>1, <1>2
<1>3. CASE p = "graph"
  <2>1. watched = "logday" /\ "logday" \in pending'
        BY <1>1, <1>3 DEF View
  <2>. QED  BY <2>1
<1>4. CASE p = "logday"
  <2>1. watched = "graph"
        BY <1>4 DEF View
  <2>2. PICK q \in {"probe", "graph"} : q \in pending
        BY <2>1
  <2>3. q \in pending'
        BY <1>1, <1>4, <2>2
  <2>. QED  BY <2>3
<1>. QED  BY <1>2, <1>3, <1>4 DEF Pattern, View

\* What outdates the view excuses it or leaves a handler on its way, and a
\* handler ends with the key or with an excuse.
LEMMA NextStaleOnlyByAccident ==
    ViewTypeOK /\ ViewStaleOnlyByAccident /\ [ViewNext]_viewVars => ViewStaleOnlyByAccident'
<1> SUFFICES ASSUME ViewTypeOK, ViewStaleOnlyByAccident, [ViewNext]_viewVars, view' = "stale"
             PROVE  excused' \/ pending' \intersect {"probe", "graph", watched'} # {}
    BY DEF ViewStaleOnlyByAccident
<1> DEFINE OnItsWay == pending \intersect {"probe", "graph", watched} # {}
<1>1. ASSUME UNCHANGED <<watched, view, excused, pending>>
      PROVE  excused' \/ OnItsWay'
      BY <1>1 DEF ViewStaleOnlyByAccident
<1>2. ASSUME NEW t \in onway, NEW placed \in BOOLEAN, StoreReading(t, placed)
      PROVE  excused' \/ OnItsWay'
  <2>1. CASE placed
    <3>1. "graph" \in pending'
          BY <1>2, <2>1 DEF StoreReading, Begin
    <3>. QED
          BY <3>1
  <2>2. CASE ~ placed
        BY <1>1, <1>2, <2>2 DEF StoreReading
  <2>. QED
        BY <2>1, <2>2
<1>3. CASE ChangeProbe
  <2>1. "probe" \in pending'
        BY <1>3 DEF ChangeProbe, Begin
  <2>. QED
        BY <2>1
<1>4. CASE EditRow
  <2>1. view # "none"
        BY <1>4 DEF EditRow, Outdate
  <2>. QED
        BY <1>4, <2>1 DEF EditRow
<1>5. ASSUME NEW g \in Viewer, Fill(g) PROVE excused' \/ OnItsWay'
  <2>1. CASE UNCHANGED <<view, excused>>
        BY <1>1, <1>5, <2>1 DEF Fill, box
  <2>2. CASE /\ view' = IF reader[g].fresh THEN "fresh" ELSE "stale"
             /\ excused' = ~ reader[g].fresh
    <3>1. ~ reader[g].fresh
          BY <2>2
    <3>. QED
          BY <2>2, <3>1
  <2>. QED
        BY <1>5, <2>1, <2>2 DEF Fill
<1>6. ASSUME NEW p \in Pattern, DelByPattern(p) PROVE excused' \/ OnItsWay'
  <2>1. p # watched /\ view = "stale" /\ watched' = watched
        BY <1>6 DEF DelByPattern
  <2>2. CASE excused
        BY <1>6, <2>1, <2>2 DEF DelByPattern
  <2>3. CASE OnItsWay
        BY <1>6, <2>1, <2>3, HandlerGoesOn DEF DelByPattern, ViewTypeOK
  <2>. QED
        BY <2>1, <2>2, <2>3 DEF ViewStaleOnlyByAccident
<1>7. ASSUME NEW p \in Pattern, DelLost(p) PROVE excused' \/ OnItsWay'
  <2>1. view = "stale" /\ watched' = watched
        BY <1>7 DEF DelLost
  <2>2. CASE excused \/ p = watched
        BY <1>7, <2>1, <2>2 DEF DelLost
  <2>3. CASE OnItsWay /\ p # watched
        BY <1>7, <2>1, <2>3, HandlerGoesOn DEF DelLost, ViewTypeOK
  <2>. QED
        BY <2>1, <2>2, <2>3 DEF ViewStaleOnlyByAccident
<1>8. CASE ExpireView
      BY <1>8 DEF ExpireView
<1>9. CASE Crash
  <2>1. view = "stale"
        BY <1>9 DEF Crash
  <2>. QED
        BY <1>9, <2>1 DEF Crash
<1>10. CASE \/ SendLog \/ SendRealtime
            \/ \E g \in Viewer : MissView(g) \/ \E part \in {"probes", "rows"} : QueryPart(g, part)
            \/ \E w \in Watcher : Open(w) \/ AskLast(w) \/ ShowFirst(w) \/ Close(w)
            \/ UNCHANGED viewVars
  <2>1. UNCHANGED <<watched, view, excused, pending>>
        BY <1>10 DEF SendLog, SendRealtime, MissView, QueryPart, Open, AskLast, ShowFirst, Close, viewVars, cacheVars
  <2>. QED
        BY <1>1, <2>1
<1>. QED
      BY <1>2, <1>3, <1>4, <1>5, <1>6, <1>7, <1>8, <1>9, <1>10 DEF ViewNext

\* However many requests fill the view while handlers delete it, an old one
\* stays only for a cause that is on record.
THEOREM StaleViewsHaveACause == ViewSpec => []ViewStaleOnlyByAccident
<1>1. ViewInit => ViewStaleOnlyByAccident
      BY DEF ViewInit, ViewStaleOnlyByAccident
<1>. QED
      BY <1>1, ViewInitTyped, ViewNextTyped, NextStaleOnlyByAccident, PTL DEF ViewSpec

-----------------------------------------------------------------------------
(* LogViews: the stream. *)

\* A stream shows nothing before its first reading has been asked for and sent.
NothingYet == \A w \in Watcher : watch[w].at # "live" => watch[w].shown = 0

LEMMA InitNothingYet == ViewInit => NothingYet
BY DEF ViewInit, Closed, NothingYet

LEMMA NextNothingYet == ViewTypeOK /\ NothingYet /\ [ViewNext]_viewVars => NothingYet'
<1> SUFFICES ASSUME ViewTypeOK, NothingYet, [ViewNext]_viewVars PROVE NothingYet'
    OBVIOUS
<1> USE DEF NothingYet
<1>1. CASE UNCHANGED watch
      BY <1>1
<1>2. CASE SendRealtime
      BY <1>2 DEF SendRealtime, Hears, ViewTypeOK
<1>3. ASSUME NEW w \in Watcher, Open(w) \/ AskLast(w) \/ ShowFirst(w) \/ Close(w)
      PROVE  NothingYet'
      BY <1>3 DEF Open, AskLast, ShowFirst, Close, Closed, ViewTypeOK
<1>4. CASE Crash
      BY <1>4 DEF Crash, Closed
<1>. QED
      BY <1>1, <1>2, <1>3, <1>4
      DEF ViewNext, SendLog, StoreReading, ChangeProbe, EditRow, MissView, QueryPart, Fill, DelByPattern, DelLost, ExpireView, viewVars

LEMMA NextNeverGoesBack ==
    ViewTypeOK /\ NothingYet /\ [ViewNext]_viewVars =>
        [\A w \in Watcher : watch'[w].at # "closed" => watch'[w].shown >= watch[w].shown]_viewVars
<1> SUFFICES ASSUME ViewTypeOK, NothingYet, [ViewNext]_viewVars, NEW v \in Watcher, watch'[v].at # "closed"
             PROVE  watch'[v].shown >= watch[v].shown
    OBVIOUS
<1>0. watch[v].shown \in 0 .. now /\ watch[v].first \in 0 .. now /\ now \in Nat
      BY ViewAssumption DEF ViewTypeOK
<1>1. CASE UNCHANGED watch
      BY <1>0, <1>1
<1>2. CASE SendRealtime
      BY <1>0, <1>2 DEF SendRealtime, ViewTypeOK
<1>3. ASSUME NEW w \in Watcher, Open(w) \/ AskLast(w)
      PROVE  watch'[v].shown >= watch[v].shown
      BY <1>0, <1>3 DEF Open, AskLast, ViewTypeOK
<1>4. ASSUME NEW w \in Watcher, ShowFirst(w)
      PROVE  watch'[v].shown >= watch[v].shown
      BY <1>0, <1>4 DEF ShowFirst, ViewTypeOK, NothingYet
<1>5. ASSUME NEW w \in Watcher, Close(w)
      PROVE  watch'[v].shown >= watch[v].shown
      BY <1>0, <1>5 DEF Close, Closed, ViewTypeOK
<1>6. CASE Crash
      BY <1>6 DEF Crash, Closed
<1>. QED
      BY <1>1, <1>2, <1>3, <1>4, <1>5, <1>6
      DEF ViewNext, SendLog, StoreReading, ChangeProbe, EditRow, MissView, QueryPart, Fill, DelByPattern, DelLost, ExpireView, viewVars

\* A user who adjusts a probe never sees an older reading after a newer one,
\* however many readings are late.
THEOREM StreamsGoForward == ViewSpec => NeverGoesBack
BY ViewInitTyped, ViewNextTyped, InitNothingYet, NextNothingYet, NextNeverGoesBack, PTL DEF ViewSpec, NeverGoesBack

=============================================================================
