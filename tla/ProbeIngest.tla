---------------------------- MODULE ProbeIngest ----------------------------
(***************************************************************************)
(* How a reading reaches log_days.  It comes by RabbitMQ, by MQTT or in a  *)
(* POST, the box is looked up, then the probe of its channel, which is     *)
(* created when a box sends a channel for the first time; the row refers   *)
(* to both.  Admins create, change and delete probes meanwhile, and boxes  *)
(* change theirs through /adjust.                                          *)
(*                                                                         *)
(* Ids of probes are cached; a listener of the change events deletes the   *)
(* keys of the point while the request goes on.  One point is modelled:    *)
(* keys of different points are different.                                 *)
(***************************************************************************)
EXTENDS Integers, Sequences, FiniteSets

CONSTANTS
    Queued, Post,         \* readings that come by RabbitMQ; one POST, a sequence
    Lone,                 \* a reading by MQTT or a PUT /adjust/:serial/probe/:channel,
                          \* again and again
    Admin,                \* POST /devices/:id/probes
    Channel, ChannelOf,   \* channels, and which one each client names
    MaxChanges,           \* probes deleted or given another channel
    MaxBreaks             \* crashes, and losses of RabbitMQ

Posted  == { Post[i] : i \in DOMAIN Post }
Kept    == Queued \union Posted  \* the readings that are followed to the end
Client  == Kept \union Lone
MaxId   == Cardinality(Channel) + MaxChanges

ASSUME IngestAssumption ==
    /\ Cardinality(Channel) \in Nat \ {0} /\ Channel = 1 .. Cardinality(Channel)
    /\ ChannelOf \in [Client -> Channel]
    /\ MaxChanges \in Nat /\ MaxBreaks \in Nat

VARIABLES
    malformed, \* the messages of RabbitMQ that do not validate
    known,    \* whether the box is in hardware
    probes,   \* per channel the id of its row, 0 if there is none
    born,     \* ids given so far
    cache,    \* probe:<device>:<channel>, 0 if absent
    pc, id,   \* what a client does next; the probe it found
    draft,    \* an admin's new probe: the channel it will take, or 0
    inserted, \* how often a reading was inserted
    pending,  \* whether a handler of probe.changed has not deleted the keys yet
    excused,  \* history: stale keys that a late fill, a lost DEL or a change
              \* whose answer was lost explains
    rejected, \* history: clients of which the database answered a statement
              \* with an error, or not at all
    vacated,  \* history: channels whose probe was deleted or given another channel
    moves,    \* how many probes were given another channel
    crashes, cuts  \* how often the process died; lost RabbitMQ before an ack

probeVars == <<probes, born>>
given     == <<malformed, known>>
workVars  == <<pc, id, inserted>>
changes   == <<vacated, moves>>
breaks    == <<crashes, cuts>>
vars == <<given, probeVars, cache, workVars, draft, pending, excused, rejected, changes, breaks>>

Live    == { probes[c] : c \in Channel } \ {0}
Gone    == (1 .. born) \ Live
Of(c)   == ChannelOf[c]
Broken  == crashes + cuts
Goto(c, l)  == pc' = [pc EXCEPT ![c] = l]
Emit        == pending' = TRUE

\* The keys that do not name the probe of their channel.
StaleOf(rows) == { c \in Channel : cache[c] \notin {0, rows[c]} }
Stale         == StaleOf(probes)

\* The event of a change, or none, since the answer to the statement was lost.
Tells(rows) ==
    \/ Emit /\ UNCHANGED excused
    \/ excused' = excused \union StaleOf(rows) /\ UNCHANGED pending

-----------------------------------------------------------------------------
(* The three ways in, and /adjust, up to the write. *)

\* (mutant of Fails) nack with requeue.
FailsAgain(c) == Goto(c, IF c \in Queued THEN "idle" ELSE "lost")

\* nack without requeue; a logged error; an error answer.
Fails(c) == Goto(c, "lost")

\* Any error of the database: it is away, the pool is exhausted, a timeout.
Rejects(c) ==
    Fails(c) /\ rejected' = rejected \union {c} /\ id' = [id EXCEPT ![c] = 0]

\* resolveDeviceId answers the point, or null for a box that is not
\* installed (then no probe is looked up); /adjust answers that there is none.
Begins(c) ==
    /\ pc[c] = "idle"
    /\ \/ Goto(c, "get") /\ known /\ UNCHANGED <<id, rejected>>
       \/ Goto(c, "use") /\ UNCHANGED <<id, rejected>>
       \/ Rejects(c)
    /\ UNCHANGED <<given, probeVars, cache, inserted, draft, pending, excused, changes, breaks>>

\* A later lookup or write of c fails, and has changed nothing.
Reject(c) ==
    /\ pc[c] \in {"get", "create", "again", "use"}
    /\ Rejects(c)
    /\ UNCHANGED <<given, probeVars, cache, inserted, draft, pending, excused, changes, breaks>>

Deliver(q) == q \in Queued \ malformed /\ Begins(q)

\* ackOrNack calls validatePayload inside its try: a bad message is nacked.
Discard(q) ==
    /\ q \in malformed /\ pc[q] = "idle"
    /\ Goto(q, "lost")
    /\ UNCHANGED <<given, probeVars, cache, id, inserted, draft, pending, excused, rejected,
                   changes, breaks>>

Receive(t) == t \in Lone /\ Begins(t)

\* One after the other; the first that fails ends the request.
PostNext(i) == (i > 1 => pc[Post[i - 1]] = "done") /\ Begins(Post[i])

CacheHit(c) ==
    /\ pc[c] = "get" /\ cache[Of(c)] # 0
    /\ id' = [id EXCEPT ![c] = cache[Of(c)]]
    /\ Goto(c, "use")
    /\ UNCHANGED <<given, probeVars, cache, inserted, draft, pending, excused, rejected, changes,
                   breaks>>

\* A miss, or an error of Redis; then lookupOrCreate.
FindProbe(c) ==
    /\ pc[c] = "get"
    /\ id' = [id EXCEPT ![c] = probes[Of(c)]]
    /\ Goto(c, IF probes[Of(c)] # 0 THEN "set" ELSE "create")
    /\ UNCHANGED <<given, probeVars, cache, inserted, draft, pending, excused, rejected, changes,
                   breaks>>

\* probes.create; nothing was cached that it makes stale.
NewProbe(ch) ==
    /\ probes[ch] = 0
    /\ probes' = [probes EXCEPT ![ch] = born + 1]
    /\ born' = born + 1

\* (mutant of Duplicate) Every P2002 is thrown.
DuplicateFails(c) ==
    probes[Of(c)] # 0 /\ Fails(c) /\ UNCHANGED <<probeVars, pending, id, rejected>>

\* P2002: somebody else has created the probe; it is read again.
Duplicate(c) ==
    probes[Of(c)] # 0 /\ Goto(c, "again") /\ UNCHANGED <<probeVars, pending, id, rejected>>

CreateProbe(c) ==
    /\ pc[c] = "create"
    /\ \/ /\ NewProbe(Of(c)) /\ Emit /\ UNCHANGED rejected
          /\ id' = [id EXCEPT ![c] = born + 1] /\ Goto(c, "set")
       \/ NewProbe(Of(c)) /\ Rejects(c) /\ UNCHANGED pending  \* its answer is lost
       \/ Duplicate(c)
    /\ UNCHANGED <<given, cache, inserted, draft, excused, changes, breaks>>

ReadWinner(c) ==
    /\ pc[c] = "again"
    /\ id' = [id EXCEPT ![c] = probes[Of(c)]]
    /\ IF probes[Of(c)] # 0 THEN Goto(c, "set") ELSE Fails(c)
    /\ UNCHANGED <<given, probeVars, cache, inserted, draft, pending, excused, rejected, changes,
                   breaks>>

\* getOrSet, its SET, which may fail.
CacheSet(c) ==
    /\ pc[c] = "set"
    /\ \/ /\ cache' = [cache EXCEPT ![Of(c)] = id[c]]
          /\ excused' = IF id[c] = probes[Of(c)] THEN excused \ {Of(c)} ELSE excused \union {Of(c)}
       \/ UNCHANGED <<cache, excused>>
    /\ Goto(c, "use")
    /\ UNCHANGED <<given, probeVars, id, inserted, draft, pending, rejected, changes, breaks>>

\* logDays.create connects hardware, point and probe, or fails.
Insert(c) ==
    /\ pc[c] = "use"
    /\ IF ~ known \/ id[c] \in Gone
       THEN Fails(c) /\ UNCHANGED <<inserted, id, rejected>>
       ELSE /\ inserted' = [r \in Kept |-> inserted[r] + IF r = c THEN 1 ELSE 0]
            /\ \/ /\ Goto(c, IF c \in Queued THEN "ack" ELSE IF c \in Lone THEN "idle" ELSE "done")
                  /\ id' = [id EXCEPT ![c] = 0] /\ UNCHANGED rejected
               \/ Rejects(c)  \* its answer is lost
    /\ UNCHANGED <<given, probeVars, cache, draft, pending, excused, changes, breaks>>

Ack(q) ==
    /\ pc[q] = "ack"
    /\ Goto(q, "done")
    /\ UNCHANGED <<given, probeVars, cache, id, inserted, draft, pending, excused, rejected,
                   changes, breaks>>

\* RabbitMQ is lost between the insert and the ack: the message comes again.
AckLost(q) ==
    /\ pc[q] = "ack" /\ Broken < MaxBreaks
    /\ Goto(q, "idle") /\ cuts' = cuts + 1
    /\ UNCHANGED <<given, probeVars, cache, id, inserted, draft, pending, excused, rejected,
                   changes, crashes>>

\* probes.update of row p, which may give it another channel; the key
\* (deviceId, channel) is unique.
UpdateRow(p, to) ==
    LET rows == [c \in Channel |-> IF c = to THEN p ELSE IF probes[c] = p THEN 0 ELSE probes[c]] IN
    /\ p \in Live /\ probes[to] \in {0, p}
    /\ probes[to] = 0 => Cardinality(Gone) + moves < MaxChanges
    /\ probes' = rows
    /\ moves' = moves + IF probes[to] = 0 THEN 1 ELSE 0
    /\ vacated' = vacated \union { c \in Channel : rows[c] = 0 /\ probes[c] = p }
    /\ Tells(rows)

\* /adjust: probes.update by the id that was resolved; P2025, P2002 or any other
\* error change nothing.
UpdateProbe(c) ==
    /\ c \in Lone /\ pc[c] = "use"
    /\ \/ \E to \in Channel : UpdateRow(id[c], to)
       \/ UNCHANGED <<probes, changes, pending, excused>>
    /\ Goto(c, "idle") /\ id' = [id EXCEPT ![c] = 0]
    /\ UNCHANGED <<given, born, cache, inserted, draft, rejected, breaks>>

-----------------------------------------------------------------------------
(* Admins. *)

\* PUT /probes/:id.
EditProbe(ch, to) ==
    /\ probes[ch] # 0
    /\ UpdateRow(probes[ch], to)
    /\ UNCHANGED <<given, born, cache, workVars, draft, rejected, breaks>>

\* POST with a channel.
AddNamed(ch) ==
    /\ NewProbe(ch)
    /\ Emit \/ UNCHANGED pending
    /\ UNCHANGED <<given, cache, workVars, draft, excused, rejected, changes, breaks>>

\* POST without one: the channel after the highest; no lock holds it.
NextChannel(a) ==
    /\ draft[a] = 0
    /\ LET used == { c \in Channel : probes[c] # 0 }
           highest == CHOOSE n \in Channel \union {0} : n \in used \union {0} /\ \A c \in used : c <= n IN
       highest + 1 \in Channel /\ draft' = [draft EXCEPT ![a] = highest + 1]
    /\ UNCHANGED <<given, probeVars, cache, workVars, pending, excused, rejected, changes, breaks>>

AddProbe(a) ==
    /\ draft[a] \in Channel
    /\ \/ NewProbe(draft[a]) /\ (Emit \/ UNCHANGED pending)
       \/ UNCHANGED <<probeVars, pending>>  \* P2002 or another error
    /\ draft' = [draft EXCEPT ![a] = 0]
    /\ UNCHANGED <<given, cache, workVars, excused, rejected, changes, breaks>>

\* The rows of the probe lose their probe_id.
DeleteProbe(ch) ==
    /\ probes[ch] # 0 /\ Cardinality(Gone) + moves < MaxChanges
    /\ probes' = [probes EXCEPT ![ch] = 0]
    /\ vacated' = vacated \union {ch}
    /\ Tells([probes EXCEPT ![ch] = 0])
    /\ UNCHANGED <<given, born, cache, workVars, draft, rejected, moves, breaks>>

-----------------------------------------------------------------------------
(* The listener that deletes probe:<device>:*, and the 300 s of a key. *)

\* Other handlers may still be on their way.
Handled == pending /\ pending' \in BOOLEAN

\* (mutant of DelByPattern) The listener deletes the keys of graphs only.
DelOthers ==
    Handled /\ UNCHANGED <<given, probeVars, cache, workVars, draft, excused, rejected, changes,
                           breaks>>

\* SCAN and DEL.  A key that is set in between survives, as if it had been
\* set after; one that is found goes, so a key has one moment of deletion.
DelByPattern ==
    /\ Handled
    /\ cache' = [c \in Channel |-> 0]
    /\ excused' = {}
    /\ UNCHANGED <<given, probeVars, workVars, draft, rejected, changes, breaks>>

\* Its catch: the keys stay.
DelLost ==
    /\ Handled
    /\ excused' = excused \union Stale
    /\ UNCHANGED <<given, probeVars, cache, workVars, draft, rejected, changes, breaks>>

Expire(c) ==
    /\ cache[c] # 0 /\ cache' = [cache EXCEPT ![c] = 0]
    /\ excused' = excused \ {c}
    /\ UNCHANGED <<given, probeVars, workVars, draft, pending, rejected, changes, breaks>>

-----------------------------------------------------------------------------

\* (mutant of Interrupted) Messages are acknowledged as they arrive.
InterruptedAcked(c) ==
    IF pc[c] \in {"idle", "done", "lost"} THEN pc[c] ELSE IF c \in Queued THEN "done" ELSE "lost"

\* RabbitMQ delivers again what was not acknowledged.
Interrupted(c) ==
    IF pc[c] \in {"idle", "done", "lost"} THEN pc[c] ELSE IF c \in Queued THEN "idle" ELSE "lost"

Crash ==
    /\ Broken < MaxBreaks
    /\ crashes' = crashes + 1
    /\ pc' = [c \in Client |-> Interrupted(c)]
    /\ id' = [c \in Client |-> IF pc[c] = "lost" THEN id[c] ELSE 0]
    /\ draft' = [a \in Admin |-> 0]
    /\ pending' = FALSE
    /\ excused' = excused \union Stale
    /\ UNCHANGED <<given, probeVars, cache, inserted, rejected, changes, cuts>>

\* DeviceService.create gives a point channel 1; other channels come later.
Init ==
    /\ malformed \in SUBSET Queued /\ known \in BOOLEAN
    /\ probes = [c \in Channel |-> IF c = 1 THEN 1 ELSE 0] /\ born = 1
    /\ cache = [c \in Channel |-> 0]
    /\ pc = [c \in Client |-> "idle"] /\ id = [c \in Client |-> 0]
    /\ draft = [a \in Admin |-> 0]
    /\ inserted = [r \in Kept |-> 0]
    /\ pending = FALSE /\ excused = {} /\ rejected = {} /\ vacated = {} /\ moves = 0
    /\ crashes = 0 /\ cuts = 0

Step(c) ==
    \/ Deliver(c) \/ Discard(c) \/ CacheHit(c) \/ FindProbe(c) \/ CreateProbe(c)
    \/ ReadWinner(c) \/ CacheSet(c) \/ Insert(c) \/ Ack(c) \/ AckLost(c) \/ UpdateProbe(c)
    \/ Reject(c)

Next ==
    \/ \E c \in Client : Step(c) \/ Receive(c)
    \/ \E i \in DOMAIN Post : PostNext(i)
    \/ \E a \in Admin : NextChannel(a) \/ AddProbe(a)
    \/ \E c \in Channel : AddNamed(c) \/ DeleteProbe(c) \/ Expire(c)
    \/ \E c, to \in Channel : EditProbe(c, to)
    \/ DelByPattern \/ DelLost
    \/ Crash

Spec == Init /\ [][Next]_vars

\* RabbitMQ delivers what is queued, and a handler's awaits return.
FairSpec == Spec /\ \A q \in Queued : WF_vars(Step(q))

-----------------------------------------------------------------------------

TypeOK ==
    /\ malformed \subseteq Queued /\ known \in BOOLEAN
    /\ probes \in [Channel -> 0 .. MaxId] /\ born \in 1 .. MaxId
    /\ cache \in [Channel -> 0 .. born]
    /\ pc \in [Client -> {"idle", "get", "create", "again", "set", "use", "ack", "done", "lost"}]
    /\ id \in [Client -> 0 .. born]
    /\ draft \in [Admin -> {0} \union Channel]
    /\ inserted \in [Kept -> Nat]
    /\ pending \in BOOLEAN /\ excused \subseteq Channel
    /\ rejected \subseteq Client /\ vacated \subseteq Channel /\ moves \in 0 .. MaxChanges
    /\ crashes \in Nat /\ cuts \in Nat /\ Broken <= MaxBreaks

\* A reading, by whatever way it comes, is dropped only if it does not validate,
\* comes from an unknown box, was in memory in a crash, or names a probe that was
\* deleted; if the probe that beat it to its channel was deleted or moved before it
\* was read; or if the database failed it.  Readings of a new channel that arrive
\* together by several ways, or meet an admin's new probe, are kept.
LostForCause ==
    \A r \in Client : pc[r] = "lost" =>
        \/ ~ known \/ r \in malformed
        \/ id[r] \in Gone \/ (id[r] = 0 /\ Of(r) \in vacated)
        \/ r \in rejected
        \/ crashes > 0 /\ r \notin Queued

\* A message RabbitMQ was told to forget is stored, and stored more than once
\* only if the process died or RabbitMQ was lost between the insert and the ack.
AckedIsStored ==
    \A q \in Queued : (pc[q] = "done" => inserted[q] > 0) /\ inserted[q] <= 1 + Broken

\* The id of a probe that was deleted or has another channel stays cached only
\* until the listener has run, unless the key was filled late, or its DEL was
\* lost, or the answer to the change was, so that nothing was announced.
ProbeIdStaleOnlyByAccident ==
    \A c \in Channel : cache[c] \in {0, probes[c]} \/ c \in excused \/ pending

\* Every message leaves the queue: stored, or dropped.  None goes round for ever.
MessagesSettle == \A q \in Queued : <>(pc[q] \in {"done", "lost"})

=============================================================================
