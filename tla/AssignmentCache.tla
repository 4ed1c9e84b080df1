-------------------------- MODULE AssignmentCache --------------------------
(***************************************************************************)
(* What the caches in Redis say of a box while points are swapped and      *)
(* edited.                                                                 *)
(*                                                                         *)
(* Three keys exist per box s: assign:s (the point it is in, stamped on    *)
(* every reading), ward:s (the ward of that point, which filters SSE) and  *)
(* device:s (the point as GET /devices/:serial returns it).  They are      *)
(* filled by RedisService.getOrSet, a read in three awaits (GET, query,    *)
(* SET), and deleted by requests after their commit.  The database is the  *)
(* abstract InstallRegistry, which DeviceAssignment implements; a request  *)
(* of Request is a swap or an edit, and one of Reader runs getOrSet over   *)
(* and over.                                                               *)
(***************************************************************************)
EXTENDS InstallRegistry

CONSTANTS
    Ward,      \* wards
    Kind,      \* the kinds of key to model, of "assign", "ward" and "device"
    Request,   \* swaps and edits
    Reader,    \* callers of getOrSet
    Miss       \* no entry

ASSUME CacheAssumption ==
    /\ Kind \subseteq {"assign", "ward", "device"}
    /\ None \notin Device \union Serial \union Ward

VARIABLES
    wardOf,    \* Devices.ward
    cache,     \* Redis
    pc,        \* a request: "idle", "read", "invalidate", "done"
    dev, ser,  \* a swap's arguments
    prev,      \* a swap's previousSerial
    dels,      \* the keys a request still has to delete
    rpc,       \* a reader: "idle", "query", "set"
    rkey,      \* the key it reads
    rval,      \* what it read from the database
    cause      \* history: the accidents that may have made an entry stale

db   == <<registered, installed, wardOf>>
swap == <<dev, ser, prev>>
reading == <<rpc, rkey, rval>>
vars == <<db, cache, pc, swap, dels, reading, cause>>

Key == Kind \X Serial

-----------------------------------------------------------------------------

\* The point box s is in, or None.
PointOf(s) ==
    IF \E d \in Device : installed[d] = s
    THEN CHOOSE d \in Device : installed[d] = s ELSE None

\* What the factory of a key returns now.
Query(k) ==
    LET d == PointOf(k[2]) IN
    CASE k[1] = "assign" -> d
      [] k[1] = "ward"   -> IF d = None THEN None ELSE wardOf[d]
      [] k[1] = "device" -> IF d = None THEN None ELSE <<d, wardOf[d]>>

Values == Device \union Ward \union {None} \union (Device \X Ward)

\* (mutant of InvalidateKeys) invalidate does not skip the serial that is null.
InvalidateNull(serials) == ({"assign", "ward"} \cap Kind) \X serials

\* invalidate(...serials): assign: and ward: of every serial that is not null.
InvalidateKeys(serials) == {k \in Key : k[1] \in {"assign", "ward"} /\ k[2] \in serials}

-----------------------------------------------------------------------------
(* Swaps and edits. *)

\* The transaction of assign reads the device, and its serial.
SwapRead(c, d, s) ==
    /\ pc[c] = "idle" /\ d \in registered
    /\ dev' = [dev EXCEPT ![c] = d]
    /\ ser' = [ser EXCEPT ![c] = s]
    /\ prev' = [prev EXCEPT ![c] = installed[d]]
    /\ pc' = [pc EXCEPT ![c] = "read"]
    /\ UNCHANGED <<db, cache, dels, reading, cause>>

\* The box a swap takes out is the one the point holds at the commit; prev is
\* the one it held when the swap began, and the one whose keys get deleted.
SwapCommit(c) ==
    LET out == installed[dev[c]]
        gone == IF out \in {prev[c], ser[c]} THEN {} ELSE InvalidateKeys({out})
    IN
    /\ pc[c] = "read" /\ prev[c] # ser[c]
    /\ Install(dev[c], ser[c])
    /\ pc' = [pc EXCEPT ![c] = "invalidate"]
    /\ dels' = [dels EXCEPT ![c] = InvalidateKeys({prev[c], ser[c]})]
    /\ cause' = [k \in Key |-> IF k \in gone THEN cause[k] \union {"missed"} ELSE cause[k]]
    /\ UNCHANGED <<wardOf, cache, swap, reading>>

\* The box was in the point already: nothing is written, the keys are deleted
\* all the same.
SwapNothing(c) ==
    /\ pc[c] = "read" /\ prev[c] = ser[c]
    /\ pc' = [pc EXCEPT ![c] = "invalidate"]
    /\ dels' = [dels EXCEPT ![c] = InvalidateKeys({ser[c]})]
    /\ UNCHANGED <<db, cache, swap, reading, cause>>

\* The request is answered; what it knew is gone.
Finish(c) ==
    /\ pc' = [pc EXCEPT ![c] = "done"]
    /\ dev' = [dev EXCEPT ![c] = None]
    /\ ser' = [ser EXCEPT ![c] = None]
    /\ prev' = [prev EXCEPT ![c] = None]
    /\ UNCHANGED <<db, cache, dels, reading, cause>>

\* The transaction rolls back: nothing written, nothing deleted.
SwapFail(c) == pc[c] = "read" /\ Finish(c)

\* create(dto) with a box that is installed nowhere.
CreateWith(c, d, s) ==
    /\ pc[c] = "idle"
    /\ RegisterWith(d, s)
    /\ pc' = [pc EXCEPT ![c] = "invalidate"]
    /\ dels' = [dels EXCEPT ![c] = InvalidateKeys({s})]
    /\ UNCHANGED <<wardOf, cache, swap, reading, cause>>

\* (mutant of EditWard) update deletes device: only.
EditWardQuietly(c, s, w) ==
    /\ pc[c] = "idle" /\ PointOf(s) # None
    /\ wardOf' = [wardOf EXCEPT ![PointOf(s)] = w]
    /\ pc' = [pc EXCEPT ![c] = "invalidate"]
    /\ dels' = [dels EXCEPT ![c] = {k \in Key : k[1] = "device" /\ k[2] = s}]
    /\ UNCHANGED <<registered, installed, cache, swap, reading, cause>>

\* update(serial, dto) with a ward in the dto writes the point the box is in at
\* that moment (404 if none).
EditWard(c, s, w) ==
    /\ pc[c] = "idle" /\ PointOf(s) # None
    /\ wardOf' = [wardOf EXCEPT ![PointOf(s)] = w]
    /\ pc' = [pc EXCEPT ![c] = "invalidate"]
    /\ dels' = [dels EXCEPT ![c] = {k \in Key : k[2] = s}]
    /\ UNCHANGED <<registered, installed, cache, swap, reading, cause>>

Delete(c, k) ==
    /\ pc[c] = "invalidate" /\ k \in dels[c]
    /\ dels' = [dels EXCEPT ![c] = @ \ {k}]
    /\ cache' = [cache EXCEPT ![k] = Miss]
    /\ cause' = [cause EXCEPT ![k] = {}]
    /\ UNCHANGED <<db, pc, swap, reading>>

\* RedisService.del swallows the error of a DEL that failed.
DeleteLost(c, k) ==
    /\ pc[c] = "invalidate" /\ k \in dels[c]
    /\ dels' = [dels EXCEPT ![c] = @ \ {k}]
    /\ cause' = [cause EXCEPT ![k] = @ \union {"lost"}]
    /\ UNCHANGED <<db, cache, pc, swap, reading>>

Answer(c) == pc[c] = "invalidate" /\ dels[c] = {} /\ Finish(c)

-----------------------------------------------------------------------------
(* getOrSet. *)

\* GET misses, or fails; a hit just returns and changes nothing.
Lookup(r, k) ==
    /\ rpc[r] = "idle"
    /\ rpc' = [rpc EXCEPT ![r] = "query"]
    /\ rkey' = [rkey EXCEPT ![r] = k]
    /\ UNCHANGED <<db, cache, pc, swap, dels, rval, cause>>

\* The factory.
RunFactory(r) ==
    /\ rpc[r] = "query"
    /\ rval' = [rval EXCEPT ![r] = Query(rkey[r])]
    /\ rpc' = [rpc EXCEPT ![r] = "set"]
    /\ UNCHANGED <<db, cache, pc, swap, dels, rkey, cause>>

Return(r) ==
    /\ rpc' = [rpc EXCEPT ![r] = "idle"]
    /\ rkey' = [rkey EXCEPT ![r] = None]
    /\ rval' = [rval EXCEPT ![r] = None]
    /\ UNCHANGED <<db, pc, swap, dels>>

\* findOne throws a 404 when no point holds the box: that is never cached.
NotFound(r) == rkey[r][1] = "device" /\ rval[r] = None

\* SET key value EX 300.
Store(r) ==
    /\ rpc[r] = "set" /\ ~ NotFound(r)
    /\ cache' = [cache EXCEPT ![rkey[r]] = rval[r]]
    /\ cause' = [cause EXCEPT ![rkey[r]] =
          IF rval[r] = Query(rkey[r]) THEN {} ELSE {"late"}]
    /\ Return(r)

\* SET fails, or there is nothing to store; the value is returned all the same.
NoStore(r) ==
    /\ rpc[r] = "set"
    /\ Return(r)
    /\ UNCHANGED <<cache, cause>>

\* (mutant of Expire) SET key value, without EX.
NeverExpire(k) == cache[k] # Miss /\ FALSE /\ UNCHANGED vars

\* The 300 s of an entry are over.
Expire(k) ==
    /\ cache[k] # Miss
    /\ cache' = [cache EXCEPT ![k] = Miss]
    /\ cause' = [cause EXCEPT ![k] = {}]
    /\ UNCHANGED <<db, pc, swap, dels, reading>>

-----------------------------------------------------------------------------

Init ==
    /\ RegistryInit
    /\ wardOf \in [Device -> Ward]
    /\ cache = [k \in Key |-> Miss]
    /\ pc = [c \in Request |-> "idle"]
    /\ dev = [c \in Request |-> None]
    /\ ser = [c \in Request |-> None]
    /\ prev = [c \in Request |-> None]
    /\ dels = [c \in Request |-> {}]
    /\ rpc = [r \in Reader |-> "idle"]
    /\ rkey = [r \in Reader |-> None]
    /\ rval = [r \in Reader |-> None]
    /\ cause = [k \in Key |-> {}]

RequestStep(c) ==
    \/ SwapCommit(c) \/ SwapNothing(c) \/ SwapFail(c) \/ Answer(c)
    \/ \E k \in Key : Delete(c, k) \/ DeleteLost(c, k)

ReaderStep(r) == RunFactory(r) \/ Store(r) \/ NoStore(r)

Next ==
    \/ \E c \in Request :
          \/ \E d \in Device, s \in Serial : SwapRead(c, d, s) \/ CreateWith(c, d, s)
          \/ \E s \in Serial, w \in Ward : EditWard(c, s, w)
          \/ RequestStep(c)
    \/ \E r \in Reader : ReaderStep(r) \/ \E k \in Key : Lookup(r, k)
    \/ \E k \in Key : Expire(k)

Spec == Init /\ [][Next]_vars

\* Requests and reads run to their end, and Redis expires what is 300 s old.
FairSpec ==
    /\ Spec
    /\ \A c \in Request : WF_vars(RequestStep(c))
    /\ \A r \in Reader : WF_vars(ReaderStep(r))
    /\ \A k \in Key : WF_vars(Expire(k))

-----------------------------------------------------------------------------
(* Properties. *)

TypeOK ==
    /\ RegistryTypeOK
    /\ wardOf \in [Device -> Ward]
    /\ cache \in [Key -> Values \union {Miss}]
    /\ pc \in [Request -> {"idle", "read", "invalidate", "done"}]
    /\ dels \in [Request -> SUBSET Key]
    /\ rpc \in [Reader -> {"idle", "query", "set"}]
    /\ rkey \in [Reader -> Key \union {None}]
    /\ rval \in [Reader -> Values]
    /\ cause \in [Key -> SUBSET {"missed", "lost", "late"}]

Stale(k) == cache[k] # Miss /\ cache[k] # Query(k)

\* There is no fifth way to go wrong: an entry that sends readings to the wrong
\* point, or events to the wrong ward, is about to be deleted by the request
\* that outdated it, or its DEL failed, or a read that began before the commit
\* stored it after, or the box left in a swap that never knew of it.
StaleOnlyByAccident ==
    \A k \in Key :
       k[1] \in {"assign", "ward"} /\ Stale(k) =>
          cause[k] # {} \/ \E c \in Request : k \in dels[c]

\* Once the requests have ended, the caches end up right for good, whatever
\* went wrong before: the TTL repairs all of it, and no read puts it back.
CachesHeal ==
    (\A c \in Request : pc[c] = "done") ~> [](\A k \in Key : ~ Stale(k))

=============================================================================
