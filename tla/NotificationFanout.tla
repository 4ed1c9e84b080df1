------------------------- MODULE NotificationFanout -------------------------
(***************************************************************************)
(* A notification of a box: NotificationService.create stores it,          *)
(* publishes it by MQTT and then fans it out by SSE and FCM side by side,  *)
(* and records on the row which of the two went well.  Each SSE event      *)
(* carries the number of unread notifications of the ward, counted just    *)
(* before; users mark notifications as read, which sends events with new   *)
(* counts, while others are on their way.                                  *)
(*                                                                         *)
(* One box, installed in one ward, and a dashboard of that ward, which     *)
(* shows the last count it got: the badge.  The rows of a notification     *)
(* are numbered, since RabbitMQ delivers a message again after a crash.    *)
(***************************************************************************)
EXTENDS Naturals, FiniteSets

CONSTANTS
    Queued, Lone,  \* notifications by RabbitMQ; by POST /notifications
    Reader,        \* users that mark notifications as read
    MaxCrashes

ASSUME FanoutAssumption ==
    /\ MaxCrashes \in Nat
    /\ IsFiniteSet(Queued \union Lone) /\ Reader \cap (Queued \union Lone) = {}

Note   == Queued \union Lone
Row    == Note \X (1 .. 1 + MaxCrashes)
Teller == Note \union Reader    \* who sends a count to the badge

VARIABLES
    rows, unread,      \* the table notifications, and its rows with isRead FALSE
    sseFlag, fcmFlag,  \* its rows with deliveredSse, with deliveredFcm
    tries,    \* rows inserted for a notification so far
    pc,       \* what create does next for a notification
    lane,     \* what a teller does next towards its SSE event
    count,    \* the count it will send
    fcm,      \* the outcome of deliverFcm
    badge,
    shown, pushed,  \* history: notifications broadcast; taken by the broker of FCM
    outrun,   \* history: tellers whose count may be old with nobody to correct it
    astray,   \* history: an accident explains a wrong badge
    crashes

table     == <<rows, unread, sseFlag, fcmFlag>>
work      == <<tries, pc, fcm>>
telling   == <<lane, count, badge, outrun, astray>>
sent      == <<shown, pushed>>
vars == <<table, work, telling, sent, crashes>>

Current(n) == <<n, tries[n]>>
Unread     == Cardinality(unread)
Counted    == { t \in Teller : lane[t] = "cast" }
Goto(n, l) == pc' = [pc EXCEPT ![n] = l]
Turn(t, l) == lane' = [lane EXCEPT ![t] = l]

\* The table changes, or has changed, and no event will tell the ward.
Untold == astray' = TRUE /\ outrun' = outrun \union Counted

-----------------------------------------------------------------------------
(* create, up to the fan-out. *)

\* The INSERT, and the DEL of the cached list of the box.
Insert(n) ==
    /\ pc[n] = "idle"
    /\ tries' = [tries EXCEPT ![n] = @ + 1]
    /\ rows' = rows \union {<<n, tries[n] + 1>>}
    /\ unread' = unread \union {<<n, tries[n] + 1>>}
    /\ Goto(n, "publish")
    /\ UNCHANGED <<sseFlag, fcmFlag, fcm, telling, sent, crashes>>

\* The message does not validate, or a lookup or the INSERT fails: nack
\* without requeue, an error answer or a line in the log.
Refuse(n) ==
    /\ pc[n] = "idle"
    /\ Goto(n, "refused")
    /\ UNCHANGED <<table, tries, fcm, telling, sent, crashes>>

\* publishNotification; an error is swallowed, an answer is waited for.
Publish(n) ==
    /\ pc[n] = "publish"
    /\ Goto(n, "fanout")
    /\ Turn(n, "ward")
    /\ fcm' = [fcm EXCEPT ![n] = "emit"]
    /\ UNCHANGED <<table, tries, count, badge, outrun, astray, sent, crashes>>

-----------------------------------------------------------------------------
(* The events: deliverSse, and what markRead and markAllRead do after the  *)
(* UPDATE, in try/catch.                                                   *)

\* (mutant of LookupFails) deliverSse and deliverFcm throw, and Promise.all
\* ends with the first that does.
LookupThrows(t) ==
    /\ lane[t] = "ward"
    /\ Turn(t, "failed") /\ Untold
    /\ pc' = IF t \in Note THEN [pc EXCEPT ![t] = "nack"] ELSE pc
    /\ fcm' = IF t \in Note THEN [fcm EXCEPT ![t] = "none"] ELSE fcm
    /\ UNCHANGED <<table, tries, count, badge, sent, crashes>>

\* resolveWard or countUnread throws.
LookupFails(t) ==
    /\ lane[t] = "ward"
    /\ Turn(t, IF t \in Note THEN "failed" ELSE "idle")
    /\ Untold
    /\ UNCHANGED <<table, work, count, badge, sent, crashes>>

\* The cached ward of the box is an old one, or null: others are told.
TellOthers(t) ==
    /\ lane[t] = "ward"
    /\ Turn(t, IF t \in Note THEN "told" ELSE "idle")
    /\ shown' = IF t \in Note THEN shown \union {t} ELSE shown
    /\ Untold
    /\ UNCHANGED <<table, work, count, badge, pushed, crashes>>

CountUnread(t) ==
    /\ lane[t] = "ward"
    /\ count' = [count EXCEPT ![t] = Unread]
    /\ Turn(t, "cast")
    /\ UNCHANGED <<table, work, badge, outrun, astray, sent, crashes>>

\* broadcast; other counts still on their way may be older.
Broadcast(t) ==
    /\ lane[t] = "cast"
    /\ badge' = count[t]
    /\ count' = [count EXCEPT ![t] = 0]
    /\ Turn(t, IF t \in Note THEN "told" ELSE "idle")
    /\ astray' = (t \in outrun)
    /\ outrun' = (outrun \union Counted) \ {t}
    /\ shown' = IF t \in Note THEN shown \union {t} ELSE shown
    /\ UNCHANGED <<table, work, pushed, crashes>>

-----------------------------------------------------------------------------
(* deliverFcm, and the end of create. *)

\* emit waits for the broker; an error may come after the broker took it.
Emit(n) ==
    /\ fcm[n] = "emit"
    /\ \E result \in {"ok", "failed"}, took \in BOOLEAN :
          /\ result = "ok" => took
          /\ fcm' = [fcm EXCEPT ![n] = result]
          /\ pushed' = IF took THEN pushed \union {n} ELSE pushed
    /\ UNCHANGED <<table, tries, pc, telling, shown, crashes>>

\* Promise.all of the two.
Joined(n) == pc[n] = "fanout" /\ lane[n] \in {"told", "failed"} /\ fcm[n] \in {"ok", "failed"}

\* (mutant of FlagRow) The results are taken in the other order.
FlagSwapped(n) ==
    /\ Current(n) \in rows
    /\ sseFlag' = IF fcm[n] = "ok" THEN sseFlag \union {Current(n)} ELSE sseFlag
    /\ fcmFlag' = IF lane[n] = "told" THEN fcmFlag \union {Current(n)} ELSE fcmFlag

FlagRow(n) ==
    /\ Current(n) \in rows
    /\ sseFlag' = IF lane[n] = "told" THEN sseFlag \union {Current(n)} ELSE sseFlag
    /\ fcmFlag' = IF fcm[n] = "ok" THEN fcmFlag \union {Current(n)} ELSE fcmFlag

\* The UPDATE of the flags.
Record(n) ==
    /\ Joined(n)
    /\ FlagRow(n)
    /\ Goto(n, "ack")
    /\ UNCHANGED <<rows, unread, tries, fcm, telling, sent, crashes>>

\* The row was removed meanwhile, or the database fails.
RecordFails(n) ==
    /\ Joined(n)
    /\ Goto(n, "nack")
    /\ UNCHANGED <<table, tries, fcm, telling, sent, crashes>>

\* ackOrNack, or the answer to a POST.
Answer(n) ==
    /\ pc[n] \in {"ack", "nack"}
    /\ Goto(n, "over")
    /\ Turn(n, "idle") /\ fcm' = [fcm EXCEPT ![n] = "none"]
    /\ shown' = shown \ {n} /\ pushed' = pushed \ {n}
    /\ UNCHANGED <<table, tries, count, badge, outrun, astray, crashes>>

-----------------------------------------------------------------------------
(* Users. *)

\* (mutant of MarkRead) No event follows.
MarkReadQuietly(u, r) ==
    /\ r \in rows /\ lane[u] = "idle"
    /\ unread' = unread \ {r}
    /\ UNCHANGED <<rows, sseFlag, fcmFlag, work, telling, sent, crashes>>

\* PATCH /notifications/:id/read
MarkRead(u, r) ==
    /\ r \in rows /\ lane[u] = "idle"
    /\ unread' = unread \ {r}
    /\ Turn(u, "ward")
    /\ UNCHANGED <<rows, sseFlag, fcmFlag, work, count, badge, outrun, astray, sent, crashes>>

\* POST /notifications/read-all by a user of the ward, who then tells the
\* ward its count; one of another role reads those of all wards, and tells
\* its own ward, if it has one.
MarkAllRead(u) ==
    /\ lane[u] = "idle" /\ unread # {}
    /\ unread' = {}
    /\ \/ Turn(u, "ward") /\ UNCHANGED <<outrun, astray>>
       \/ Untold /\ UNCHANGED lane
    /\ UNCHANGED <<rows, sseFlag, fcmFlag, work, count, badge, sent, crashes>>

\* DELETE /notifications/:id: no event follows.
Remove(r) ==
    /\ r \in rows
    /\ rows' = rows \ {r}
    /\ unread' = unread \ {r}
    /\ sseFlag' = sseFlag \ {r} /\ fcmFlag' = fcmFlag \ {r}
    /\ Untold
    /\ UNCHANGED <<work, lane, count, badge, sent, crashes>>

-----------------------------------------------------------------------------
Settled(n) == pc[n] \in {"over", "refused"}

\* (mutant of Interrupted) A message is acked when it arrives.
InterruptedAcked(n) == IF Settled(n) \/ pc[n] = "idle" THEN pc[n] ELSE "over"

\* A message that was not acked is delivered again; a POST is not repeated.
Interrupted(n) ==
    IF Settled(n) THEN pc[n] ELSE IF n \in Queued THEN "idle" ELSE "over"

Crash ==
    /\ crashes < MaxCrashes
    /\ pc' = [n \in Note |-> Interrupted(n)]
    /\ lane' = [t \in Teller |-> "idle"] /\ count' = [t \in Teller |-> 0]
    /\ fcm' = [n \in Note |-> "none"]
    /\ shown' = {} /\ pushed' = {}
    /\ outrun' = {} /\ astray' = TRUE
    /\ crashes' = crashes + 1
    /\ UNCHANGED <<table, tries, badge>>

Init ==
    /\ rows = {} /\ unread = {} /\ sseFlag = {} /\ fcmFlag = {}
    /\ tries = [n \in Note |-> 0] /\ pc = [n \in Note |-> "idle"]
    /\ lane = [t \in Teller |-> "idle"] /\ count = [t \in Teller |-> 0]
    /\ fcm = [n \in Note |-> "none"]
    /\ badge = 0 /\ outrun = {} /\ astray = FALSE
    /\ shown = {} /\ pushed = {}
    /\ crashes = 0

Create(n) ==
    \/ Insert(n) \/ Refuse(n) \/ Publish(n)
    \/ Emit(n) \/ Record(n) \/ RecordFails(n) \/ Answer(n)

Tell(t) == LookupFails(t) \/ TellOthers(t) \/ CountUnread(t) \/ Broadcast(t)

Users ==
    \/ \E u \in Reader : MarkAllRead(u) \/ \E r \in Row : MarkRead(u, r)
    \/ \E r \in Row : Remove(r)

Next ==
    \/ \E n \in Note : Create(n)
    \/ \E t \in Teller : Tell(t)
    \/ Users
    \/ Crash

Spec == Init /\ [][Next]_vars

\* RabbitMQ delivers what was not acked; MQTT, Redis, the database and the
\* broker of FCM answer, or fail, in the end.
FairSpec == Spec /\ \A n \in Queued : WF_vars(Create(n)) /\ WF_vars(Tell(n))

-----------------------------------------------------------------------------
(* Properties. *)

\* The types; flags and unread marks are of rows of the table.
TypeOK ==
    /\ rows \subseteq Row
    /\ unread \subseteq rows /\ sseFlag \subseteq rows /\ fcmFlag \subseteq rows
    /\ tries \in [Note -> 0 .. 1 + MaxCrashes]
    /\ pc \in [Note -> {"idle", "publish", "fanout", "ack", "nack",
                       "over", "refused"}]
    /\ lane \in [Teller -> {"idle", "ward", "cast", "told", "failed"}]
    /\ count \in [Teller -> 0 .. Cardinality(Row)]
    /\ fcm \in [Note -> {"none", "emit", "ok", "failed"}]
    /\ badge \in 0 .. Cardinality(Row)
    /\ shown \subseteq Note /\ pushed \subseteq Note /\ outrun \subseteq Teller
    /\ astray \in BOOLEAN
    /\ crashes \in 0 .. MaxCrashes

\* Both channels have been tried to the end for the last row of a notification.
BothTried(n) == lane[n] \in {"told", "failed"} /\ fcm[n] \in {"ok", "failed"}

\* deliveredSse and deliveredFcm tell what happened to that very row: they
\* claim nothing before it happened, and when create ends well a row that was
\* broadcast says so, and one that says it was pushed was.
FlagsAreTrue ==
    \A n \in Note : Current(n) \in rows =>
        /\ pc[n] \in {"publish", "fanout"} => Current(n) \notin sseFlag \union fcmFlag
        /\ pc[n] = "ack" => /\ Current(n) \in sseFlag <=> n \in shown
                            /\ Current(n) \in fcmFlag => n \in pushed

\* SSE and FCM do not stop each other: when create ends with the row stored,
\* well or with an error, both have been tried to the end.
NeitherChannelStopsTheOther ==
    \A n \in Note : pc[n] \in {"ack", "nack"} => BothTried(n)

\* A teller that has changed the table and not counted yet.
WillCount(t) == lane[t] = "ward" \/ (t \in Note /\ pc[t] = "publish")

\* The badge of a dashboard differs from what the database holds only until an
\* event on its way arrives, except after what no event corrects: counts that
\* overtake each other, a lookup that failed or gave another ward, a removal,
\* a read-all by a user of another role, a crash.
BadgeWrongOnlyByAccident ==
    badge # Unread /\ ~astray =>
        \E t \in Teller :
            WillCount(t) \/ (lane[t] = "cast" /\ count[t] = Unread)

\* However often the process dies, once a notification of RabbitMQ is stored,
\* SSE and FCM are both tried for a row of it, unless it is refused when it is
\* delivered again.
AlertsAreTried ==
    \A n \in Queued : pc[n] = "publish" ~> (BothTried(n) \/ pc[n] = "refused")
=============================================================================
