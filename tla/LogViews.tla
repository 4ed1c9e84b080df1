------------------------------ MODULE LogViews ------------------------------
(***************************************************************************)
(* What is shown of log_days: the graphs and daily summaries of a point,   *)
(* which are cached, and the stream of one channel that is open while a    *)
(* user adjusts a probe.                                                   *)
(*                                                                         *)
(* A handler of telemetry.created or probe.changed deletes the keys        *)
(* pattern by pattern while requests fill them.  The stream begins with    *)
(* the last stored reading and goes on with what the box sends.            *)
(***************************************************************************)
EXTENDS Integers, FiniteSets

CONSTANTS
    Viewer,    \* requests for the view
    Watcher,   \* open streams of the channel
    MaxTime,   \* bound of now
    MaxCrashes

View    == {"graph", "logday"}
Pattern == {"probe"} \union View

ASSUME ViewAssumption == MaxTime \in Nat /\ MaxCrashes \in Nat

VARIABLES
    now,      \* the box's clock, one tick a reading
    onway,    \* readings sent to be stored, until the broker or the box is told so
    latest,   \* the send_time of the last one of log_days, 0 if there is none
    watched,  \* "graph" or "logday": the view whose key is followed
    view,     \* its key: "none", or "fresh" or "stale" compared to a query now
    reader,   \* requests for it that missed
    pending,  \* the patterns that handlers of events delete next
    excused,  \* history: a late fill, a lost DEL or an edit explains a stale view
    watch,    \* per stream: "closed", "query", "first" or "live", and what it shows
    crashes

box     == <<now, onway, latest>>
cacheVars == <<watched, view, reader, excused>>
viewVars == <<box, cacheVars, pending, watch, crashes>>

NoReader == [at |-> "idle", seen |-> {}, fresh |-> TRUE]
Closed   == [at |-> "closed", first |-> 0, shown |-> 0]
Begin(p) == pending' = pending \union {p}

\* Rows or probes change: what was cached or read of them is now of the past.
Outdate(what) ==
    /\ view' = IF view = "none" THEN "none" ELSE "stale"
    /\ reader' = [g \in Viewer |-> [reader[g] EXCEPT !.fresh = @ /\ what \notin reader[g].seen]]
    /\ UNCHANGED watched

-----------------------------------------------------------------------------
(* Readings and edits. *)

SendLog ==
    /\ now < MaxTime
    /\ now' = now + 1 /\ onway' = onway \union {now + 1}
    /\ UNCHANGED <<latest, cacheVars, pending, watch, crashes>>

\* A reading is stored, late or in its turn, and again if its message is
\* delivered again; a box that is not installed has no point, and no key is
\* deleted for its rows.
StoreReading(t, installed) ==
    /\ t \in onway
    /\ onway' \in {onway, onway \ {t}}
    /\ latest' = IF t > latest THEN t ELSE latest
    /\ IF installed
       THEN Outdate("rows") /\ Begin("graph")
       ELSE UNCHANGED <<watched, view, reader, pending>>
    /\ UNCHANGED <<now, excused, watch, crashes>>

\* Created by an admin or by a reading of a new channel, changed, or deleted.
ChangeProbe ==
    /\ Outdate("probes") /\ Begin("probe")
    /\ UNCHANGED <<box, excused, watch, crashes>>

\* PUT and DELETE /logday/:id emit no event; the last row may go.
EditRow ==
    /\ latest > 0 /\ latest' \in 0 .. latest
    /\ Outdate("rows")
    /\ excused' = (excused \/ view # "none")
    /\ UNCHANGED <<now, onway, pending, watch, crashes>>

-----------------------------------------------------------------------------
(* Cached views. *)

MissView(g) ==
    /\ reader[g].at = "idle"
    /\ reader' = [reader EXCEPT ![g].at = "query"]
    /\ UNCHANGED <<box, watched, view, excused, pending, watch, crashes>>

\* series asks for probes and for rows, summaryByDevice for a join of both.
QueryPart(g, part) ==
    /\ reader[g].at = "query" /\ part \notin reader[g].seen
    /\ LET got == IF watched = "logday" THEN {"probes", "rows"} ELSE reader[g].seen \union {part} IN
       reader' = [reader EXCEPT ![g].seen = got,
                                ![g].at = IF got = {"probes", "rows"} THEN "set" ELSE "query"]
    /\ UNCHANGED <<box, watched, view, excused, pending, watch, crashes>>

Fill(g) ==
    /\ reader[g].at = "set"
    /\ \/ /\ view' = IF reader[g].fresh THEN "fresh" ELSE "stale"
          /\ excused' = ~ reader[g].fresh
       \/ UNCHANGED <<view, excused>>
    /\ reader' = [reader EXCEPT ![g] = NoReader]
    /\ UNCHANGED <<box, watched, pending, watch, crashes>>

\* handleProbeChanged goes on to graph and logday, handleTelemetryCreated
\* starts at graph.  Other handlers may be at the same pattern still.
Proceed(p) ==
    /\ p \in pending
    /\ \E rest \in {pending, pending \ {p}} :
          pending' = rest \union CASE p = "probe" -> {"graph"} [] p = "graph" -> {"logday"} [] OTHER -> {}

\* (mutant of DelByPattern) The pattern is built from a serial, and matches nothing.
DelBySerial(p) ==
    /\ Proceed(p)
    /\ UNCHANGED <<box, cacheVars, watch, crashes>>

\* SCAN and DEL.  A key that is set in between survives, as if it had been
\* set after; one that is found goes, so a key has one moment of deletion.
DelByPattern(p) ==
    /\ Proceed(p)
    /\ view' = IF p = watched THEN "none" ELSE view
    /\ excused' = (excused /\ p # watched)
    /\ UNCHANGED <<box, watched, reader, watch, crashes>>

\* Its catch: the keys stay.
DelLost(p) ==
    /\ Proceed(p)
    /\ excused' = (excused \/ (p = watched /\ view = "stale"))
    /\ UNCHANGED <<box, watched, view, reader, watch, crashes>>

ExpireView ==
    /\ view # "none" /\ view' = "none"
    /\ excused' = FALSE
    /\ UNCHANGED <<box, watched, reader, pending, watch, crashes>>

-----------------------------------------------------------------------------
(* The stream of one channel of one box. *)

Open(w) ==
    /\ watch[w].at = "closed"
    /\ watch' = [watch EXCEPT ![w].at = "query"]
    /\ UNCHANGED <<box, cacheVars, pending, crashes>>

\* lastKnownReading
AskLast(w) ==
    /\ watch[w].at = "query"
    /\ watch' = [watch EXCEPT ![w].at = "first", ![w].first = latest]
    /\ UNCHANGED <<box, cacheVars, pending, crashes>>

\* concat: live$ is subscribed when initial$ has completed.
ShowFirst(w) ==
    /\ watch[w].at = "first"
    /\ watch' = [watch EXCEPT ![w] = [at |-> "live", first |-> 0,
                                      shown |-> IF watch[w].first = 0 THEN watch[w].shown ELSE watch[w].first]]
    /\ UNCHANGED <<box, cacheVars, pending, crashes>>

\* (mutant of Hears) merge: live$ is subscribed at once.
HearsAtOnce(w) == watch[w].at # "closed"

Hears(w) == watch[w].at = "live"

\* handleDeviceRealtime hands the reading to every subscriber at once.
SendRealtime ==
    /\ now < MaxTime
    /\ now' = now + 1
    /\ watch' = [w \in Watcher |-> IF Hears(w) THEN [watch[w] EXCEPT !.shown = now + 1] ELSE watch[w]]
    /\ UNCHANGED <<onway, latest, cacheVars, pending, crashes>>

Close(w) ==
    /\ watch[w].at # "closed"
    /\ watch' = [watch EXCEPT ![w] = Closed]
    /\ UNCHANGED <<box, cacheVars, pending, crashes>>

-----------------------------------------------------------------------------

Crash ==
    /\ crashes < MaxCrashes
    /\ crashes' = crashes + 1
    /\ reader' = [g \in Viewer |-> NoReader]
    /\ pending' = {}
    /\ excused' = (excused \/ view = "stale")
    /\ watch' = [w \in Watcher |-> Closed]
    /\ UNCHANGED <<box, watched, view>>

ViewInit ==
    /\ now = 0 /\ onway = {} /\ latest = 0
    /\ watched \in View /\ view = "none" /\ reader = [g \in Viewer |-> NoReader]
    /\ pending = {} /\ excused = FALSE
    /\ watch = [w \in Watcher |-> Closed]
    /\ crashes = 0

ViewNext ==
    \/ SendLog \/ SendRealtime
    \/ \E t \in onway, installed \in BOOLEAN : StoreReading(t, installed)
    \/ ChangeProbe \/ EditRow
    \/ \E g \in Viewer : MissView(g) \/ (\E part \in {"probes", "rows"} : QueryPart(g, part)) \/ Fill(g)
    \/ \E p \in Pattern : DelByPattern(p) \/ DelLost(p)
    \/ ExpireView
    \/ \E w \in Watcher : Open(w) \/ AskLast(w) \/ ShowFirst(w) \/ Close(w)
    \/ Crash

ViewSpec == ViewInit /\ [][ViewNext]_viewVars

-----------------------------------------------------------------------------
(* Properties. *)

\* The types.
ViewTypeOK ==
    /\ now \in 0 .. MaxTime /\ onway \subseteq 1 .. now /\ latest \in 0 .. now
    /\ watched \in View /\ view \in {"none", "fresh", "stale"}
    /\ reader \in [Viewer -> [at : {"idle", "query", "set"},
                              seen : SUBSET {"probes", "rows"}, fresh : BOOLEAN]]
    /\ pending \subseteq Pattern /\ excused \in BOOLEAN
    /\ watch \in [Watcher -> [at : {"closed", "query", "first", "live"}, first : 0 .. now, shown : 0 .. now]]
    /\ crashes \in 0 .. MaxCrashes

\* A cached graph or summary lacks a row, or shows an old threshold, only until
\* the listener has run, but for late fills, lost DELs and edited rows.
ViewStaleOnlyByAccident ==
    view = "stale" => excused \/ pending \intersect {"probe", "graph", watched} # {}

\* A user who adjusts a probe never sees an older reading after a newer one: the
\* stored one comes first, although it is queried while others arrive.
NeverGoesBack ==
    [][\A w \in Watcher : watch'[w].at # "closed" => watch'[w].shown >= watch[w].shown]_viewVars

=============================================================================
