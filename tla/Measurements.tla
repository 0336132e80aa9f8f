---------------------------- MODULE Measurements ----------------------------
(***************************************************************************)
(* What the Durable Object measures: pings and their timeouts, the buffer  *)
(* of results and its flush to D1, the ring of the last results from which *)
(* the loss is computed, the alerts of the thresholds, and the path traces *)
(* an alert orders (worker/src/durable-objects/client-monitor.ts).  What   *)
(* becomes of an alert is Notifications'; sockets, grace periods and       *)
(* outages are ClientMonitor's.  Handlers are followed from one await to   *)
(* the next; alarm() does not overlap with itself.                         *)
(***************************************************************************)
EXTENDS Integers, Sequences, FiniteSets

CONSTANTS
    Messages,       \* handlers of messages and commands that may be under way
    Window,         \* LOSS_WINDOW_SIZE
    LossLimit,      \* config.alert_loss_threshold_pct
    MaxPings,       \* bound on pings, the client's and the simulated included
    MaxAlerts,      \* bound on alerts
    MaxTraces,      \* bound on trace requests
    Faults          \* what may happen: "d1", "crash", "hibernate"

ASSUME ConstantsOK ==
    /\ "alarm" \notin Messages
    /\ Window \in Nat \ {0} /\ LossLimit \in Nat
    /\ MaxPings \in Nat /\ MaxAlerts \in Nat /\ MaxTraces \in Nat
    /\ Faults \subseteq {"d1", "crash", "hibernate"}

Handler == Messages \cup {"alarm"}
AlertType == {"high_latency", "packet_loss", "client_down"}

VARIABLES
    connected,      \* the client has a socket
    lossy,          \* simulation.loss_pct > 0
    handler,        \* each handler: the await it is at
    cooldown,       \* types in lastAlertTimes, for five minutes
    alerts,         \* alerts raised so far
    pings,          \* pings so far; 1..pings are their ids
    inFlight,       \* pingsInFlight
    overdue,        \* those sent PING_TIMEOUT_MS ago or longer
    buffer,         \* pingBuffer: the ids of the results
    rows,           \* ping_results: how many rows each ping has
    ring, index,    \* lossRing, lossRingIndex
    traceSpan,      \* lastAlertTraceAt is less than ten minutes old
    tag,            \* pendingAlertTraceUntil is still to come
    tracing,        \* requests for traces the client has not answered
    traces,         \* requests so far
    \* History.
    excused,        \* pings lost with the memory, or with a batch D1 refused
    last,           \* the statuses of the last Window results
    ordered,        \* traces ordered by alerts
    tagged          \* rows of traces with trigger = 'alert'

raising == <<cooldown, alerts>>
ringed == <<ring, index, last>>
pinging == <<pings, inFlight, overdue, buffer, rows, ringed, excused>>
tracks == <<traceSpan, tag, tracing, traces, ordered, tagged>>
vars == <<connected, lossy, handler, raising, pinging, tracks>>

Ping == 1..MaxPings
Status == {"ok", "timeout"}

\* A handler awaits the batch it has cut off the buffer, the INSERT of a trace
\* or of a speed test, the INSERT of an alert, or its dispatch.
Idle == [at |-> "idle"]
At(h, place) == handler[h].at = place
Goes(h, to) == handler' = [handler EXCEPT ![h] = to]

TypeOK ==
    /\ \A h \in Handler : handler[h] \in
         {Idle, [at |-> "row"]} \cup [at : {"flush"}, batch : SUBSET (1..pings)]
           \cup [at : {"insert", "dispatch"}, type : AlertType]
    /\ cooldown \subseteq AlertType /\ alerts \in 0..MaxAlerts
    /\ connected \in BOOLEAN /\ lossy \in BOOLEAN
    /\ pings \in 0..MaxPings
    /\ overdue \subseteq inFlight /\ inFlight \subseteq 1..pings
    /\ buffer \subseteq 1..pings
    /\ rows \in [Ping -> Nat]
    /\ ring \in Seq(Status) /\ Len(ring) <= Window /\ index \in 0..Window - 1
    /\ traceSpan \in BOOLEAN /\ tag \in BOOLEAN
    /\ tracing \in 0..traces /\ traces \in 0..MaxTraces
    /\ excused \subseteq 1..pings
    /\ ordered \in 0..traces /\ tagged \in Nat

Init ==
    /\ connected = TRUE /\ lossy = FALSE
    /\ handler = [h \in Handler |-> Idle]
    /\ cooldown = {} /\ alerts = 0
    /\ pings = 0 /\ inFlight = {} /\ overdue = {}
    /\ buffer = {} /\ rows = [p \in Ping |-> 0]
    /\ ring = <<>> /\ index = 0 /\ last = <<>>
    /\ traceSpan = FALSE /\ tag = FALSE /\ tracing = 0 /\ traces = 0
    /\ excused = {} /\ ordered = 0 /\ tagged = 0

-----------------------------------------------------------------------------
(***************************************************************************)
(* The loss ring.                                                          *)
(***************************************************************************)
Following(i) == (i + 1) % Window

Backwards(r, i, status) ==                       \* mutant: the newest is replaced
    IF Len(r) < Window THEN Append(r, status) ELSE [r EXCEPT ![Window - i] = status]
Recorded(r, i, status) ==
    IF Len(r) < Window THEN Append(r, status) ELSE [r EXCEPT ![i + 1] = status]

\* recordLoss for n results of one status.
Record(n, status) ==
    LET after[k \in 0..n] ==
          IF k = 0 THEN [ring |-> ring, index |-> index, last |-> last]
          ELSE LET b == after[k-1] IN
               [ring |-> Recorded(b.ring, b.index, status), index |-> Following(b.index),
                last |-> Append(IF Len(b.last) = Window THEN Tail(b.last) ELSE b.last, status)]
    IN /\ ring' = after[n].ring
       /\ index' = after[n].index
       /\ last' = after[n].last

Timeouts(r) == Cardinality({i \in DOMAIN r : r[i] = "timeout"})
LossHigh(r) == Timeouts(r) * 100 > LossLimit * Len(r)

-----------------------------------------------------------------------------
(***************************************************************************)
(* What a handler goes on with: the checks that are left to it, then the   *)
(* flush of the buffer, which by then may hold results of others.          *)
(***************************************************************************)
Uncut(b) == b                                    \* mutant: the buffer is cut after the write
Kept(b) == {}

Flush(h, b) ==
    /\ buffer' = Kept(b)
    /\ Goes(h, IF b = {} THEN Idle ELSE [at |-> "flush", batch |-> b])
    /\ UNCHANGED raising

\* triggerAlert: the cooldown begins before the row is written.
Raises(h, type) ==
    /\ alerts < MaxAlerts
    /\ alerts' = alerts + 1
    /\ cooldown' = cooldown \cup {type}
    /\ Goes(h, [at |-> "insert", type |-> type])

\* The latency comes before the loss.
Check(h, types, r, b) ==
    LET due == {t \in types : t \notin cooldown /\ (t = "packet_loss" => LossHigh(r))}
    IN \/ due = {} /\ Flush(h, b)
       \/ /\ due # {}
          /\ Raises(h, IF "high_latency" \in due THEN "high_latency" ELSE "packet_loss")
          /\ buffer' = b

\* After triggerAlert the pong's handler has the loss to check, or the flush to
\* do; what the alarm does next is in ClientMonitor.
Resume(h) ==
    IF handler[h].type = "client_down"
    THEN Goes(h, Idle) /\ UNCHANGED <<raising, buffer>>
    ELSE Check(h, IF handler[h].type = "high_latency" THEN {"packet_loss"} ELSE {}, ring, buffer)

WriteBatch(h) ==
    /\ At(h, "flush")
    /\ rows' = [p \in Ping |-> rows[p] + IF p \in handler[h].batch THEN 1 ELSE 0]
    /\ Goes(h, Idle)
    /\ UNCHANGED <<connected, lossy, raising, tracks, pings, inFlight, overdue, buffer, ringed,
                   excused>>

\* The batch is refused, and its results are gone.
BatchFails(h) ==
    /\ "d1" \in Faults
    /\ At(h, "flush")
    /\ excused' = excused \cup handler[h].batch
    /\ Goes(h, Idle)
    /\ UNCHANGED <<connected, lossy, raising, tracks, pings, inFlight, overdue, buffer, rows,
                   ringed>>

-----------------------------------------------------------------------------
(***************************************************************************)
(* Messages of the client, and the command request_ping.                   *)
(***************************************************************************)
Free(m) == connected /\ At(m, "idle")

\* handlePong.  slow says that the round trip, with the simulated latency, was
\* above the threshold.
Pong(m) ==
    /\ Free(m)
    /\ \E p \in inFlight, slow \in BOOLEAN :
         /\ inFlight' = inFlight \ {p}
         /\ overdue' = overdue \ {p}
         /\ Record(1, "ok")
         /\ Check(m, IF slow THEN {"high_latency", "packet_loss"} ELSE {"packet_loss"},
                  ring', buffer \cup {p})
    /\ UNCHANGED <<connected, lossy, tracks, pings, rows, excused>>

\* The client's own ping.
ClientPing(m) ==
    /\ Free(m)
    /\ pings < MaxPings
    /\ pings' = pings + 1
    /\ Record(1, "ok")
    /\ Flush(m, buffer \cup {pings'})
    /\ UNCHANGED <<connected, lossy, tracks, inFlight, overdue, rows, excused>>

\* A pong of a ping that is no longer in flight.
LatePong(m) ==
    /\ Free(m)
    /\ buffer # {}
    /\ Flush(m, buffer)
    /\ UNCHANGED <<connected, lossy, tracks, pings, inFlight, overdue, rows, ringed, excused>>

SendPing(b) ==
    /\ pings < MaxPings
    /\ pings' = pings + 1
    /\ inFlight' = (inFlight \ b) \cup {pings'}

RequestPing(m) ==
    /\ Free(m)
    /\ SendPing({})
    /\ Flush(m, buffer)
    /\ UNCHANGED <<connected, lossy, tracks, overdue, rows, ringed, excused>>

\* The rows of a trace, a speed test or a probe are awaited before the flush.
TagKept(t) == t                                  \* mutant: the marker stays
TagAfter(t) == FALSE

TraceResult(m) ==
    /\ Free(m)
    /\ tracing > 0
    /\ tracing' = tracing - 1
    /\ tagged' = IF tag THEN tagged + 1 ELSE tagged
    /\ tag' = TagAfter(tag)
    /\ Goes(m, [at |-> "row"])
    /\ UNCHANGED <<connected, lossy, raising, pinging, traceSpan, traces, ordered>>

\* A speed test or a probe.
OtherResult(m) ==
    /\ Free(m)
    /\ Goes(m, [at |-> "row"])
    /\ UNCHANGED <<connected, lossy, raising, pinging, tracks>>

RowStored(m) ==
    /\ At(m, "row")
    /\ Flush(m, buffer)
    /\ UNCHANGED <<connected, lossy, tracks, pings, inFlight, overdue, rows, ringed, excused>>

RowFails(m) ==
    /\ "d1" \in Faults
    /\ At(m, "row")
    /\ Goes(m, Idle)
    /\ UNCHANGED <<connected, lossy, raising, tracks, pinging>>

-----------------------------------------------------------------------------
(***************************************************************************)
(* alarm(), without its grace periods and the retry of a notification.     *)
(***************************************************************************)
AlarmIdle == At("alarm", "idle")

Overdue(p) ==
    /\ p \in inFlight \ overdue
    /\ overdue' = overdue \cup {p}
    /\ UNCHANGED <<handler, raising, connected, lossy, tracks, pings, inFlight, buffer, rows, ringed,
                   excused>>

\* resolveTimedOutPings, the next ping, the flush.
AlarmPing ==
    /\ connected /\ AlarmIdle
    /\ SendPing(overdue)
    /\ overdue' = {}
    /\ Record(Cardinality(overdue), "timeout")
    /\ Flush("alarm", buffer \cup overdue)
    /\ UNCHANGED <<connected, lossy, tracks, rows, excused>>

\* A lost ping is simulated.
AlarmSimulates ==
    /\ connected /\ AlarmIdle /\ lossy
    /\ pings < MaxPings
    /\ pings' = pings + 1
    /\ inFlight' = inFlight \ overdue
    /\ overdue' = {}
    /\ Record(Cardinality(overdue) + 1, "timeout")
    /\ Flush("alarm", buffer \cup overdue \cup {pings'})
    /\ UNCHANGED <<connected, lossy, tracks, rows, excused>>

\* The connection is found dead: alarm() returns without a flush.
AlarmFindsDead ==
    /\ connected /\ AlarmIdle
    /\ connected' = FALSE
    /\ inFlight' = inFlight \ overdue
    /\ overdue' = {}
    /\ Record(Cardinality(overdue), "timeout")
    /\ buffer' = buffer \cup overdue
    /\ tracing' = 0
    /\ UNCHANGED <<handler, raising, lossy, pings, rows, excused, traceSpan, tag, traces, ordered,
                   tagged>>

\* The grace period is over.
AlarmDown ==
    /\ ~connected /\ AlarmIdle
    /\ "client_down" \notin cooldown
    /\ Raises("alarm", "client_down")
    /\ UNCHANGED <<connected, lossy, tracks, pinging>>

-----------------------------------------------------------------------------
(***************************************************************************)
(* The alerts raised: maybeTraceOnAlert, and where they end.               *)
(***************************************************************************)
OrderTrace ==
    IF connected /\ ~traceSpan
    THEN /\ traces < MaxTraces
         /\ traces' = traces + 1
         /\ tracing' = tracing + 1
         /\ ordered' = ordered + 1
         /\ traceSpan' = TRUE /\ tag' = TRUE
         /\ UNCHANGED tagged
    ELSE UNCHANGED tracks

\* The row is written; the notification is awaited.
AlertStored(h) ==
    /\ At(h, "insert")
    /\ Goes(h, [handler[h] EXCEPT !.at = "dispatch"])
    /\ OrderTrace
    /\ UNCHANGED <<connected, lossy, raising, pinging>>

\* The row fails: the error ends the handler before its flush.
AlertFails(h) ==
    /\ "d1" \in Faults
    /\ At(h, "insert")
    /\ Goes(h, Idle)
    /\ UNCHANGED <<connected, lossy, raising, tracks, pinging>>

\* Sent or not: an error of the dispatch is caught.
AlertOver(h) ==
    /\ At(h, "dispatch")
    /\ Resume(h)
    /\ UNCHANGED <<connected, lossy, tracks, pings, inFlight, overdue, rows, ringed, excused>>

CooldownEnds(type) ==
    /\ type \in cooldown
    /\ cooldown' = cooldown \ {type}
    /\ UNCHANGED <<connected, lossy, handler, alerts, tracks, pinging>>

\* The command run_trace.
RunTrace ==
    /\ connected
    /\ traces < MaxTraces
    /\ traces' = traces + 1
    /\ tracing' = tracing + 1
    /\ UNCHANGED <<handler, raising, connected, lossy, pinging, traceSpan, tag, ordered, tagged>>

\* A minute after the alert, and ten minutes after it.
TagExpires ==
    /\ tag
    /\ tag' = FALSE
    /\ UNCHANGED <<handler, raising, connected, lossy, pinging, traceSpan, tracing, traces, ordered, tagged>>

TraceSpanEnds ==
    /\ traceSpan /\ ~tag
    /\ traceSpan' = FALSE
    /\ UNCHANGED <<handler, raising, connected, lossy, pinging, tag, tracing, traces, ordered, tagged>>

\* The commands simulate and simulate_reset.
Simulate ==
    /\ lossy' = ~lossy
    /\ UNCHANGED <<handler, raising, connected, pinging, tracks>>

\* The client's traces under way end with its connection.
Disconnect ==
    /\ connected
    /\ connected' = FALSE
    /\ tracing' = 0
    /\ UNCHANGED <<handler, raising, lossy, pinging, traceSpan, tag, traces, ordered, tagged>>

Reconnect ==
    /\ ~connected
    /\ connected' = TRUE
    /\ UNCHANGED <<handler, raising, lossy, pinging, tracks>>

-----------------------------------------------------------------------------
(***************************************************************************)
(* The object's memory goes: it hibernates between its handlers, or is     *)
(* restarted in the middle of them.                                        *)
(***************************************************************************)
InBatch == UNION {handler[h].batch : h \in {g \in Handler : At(g, "flush")}}
Resting == \A h \in Handler : At(h, "idle")

Forget(fault) ==
    /\ fault \in Faults
    /\ excused' = excused \cup inFlight \cup buffer \cup InBatch
    /\ handler' = [h \in Handler |-> Idle]
    /\ inFlight' = {} /\ overdue' = {} /\ buffer' = {}
    /\ ring' = <<>> /\ index' = 0 /\ last' = <<>>
    /\ cooldown' = {} /\ lossy' = FALSE /\ traceSpan' = FALSE /\ tag' = FALSE
    /\ UNCHANGED <<connected, alerts, pings, rows, tracing, traces, ordered, tagged>>

Hibernate == Resting /\ Forget("hibernate")
Crash == ~Resting /\ Forget("crash")

-----------------------------------------------------------------------------
MessageNext(m) ==
    \/ Pong(m)
    \/ ClientPing(m)
    \/ LatePong(m)
    \/ RequestPing(m)
    \/ TraceResult(m)
    \/ OtherResult(m)
    \/ RowStored(m)
    \/ RowFails(m)

HandlerNext(h) ==
    \/ WriteBatch(h)
    \/ BatchFails(h)
    \/ AlertStored(h)
    \/ AlertFails(h)
    \/ AlertOver(h)

AlarmNext == AlarmPing \/ AlarmSimulates \/ AlarmFindsDead \/ AlarmDown

Next ==
    \/ \E m \in Messages : MessageNext(m)
    \/ \E h \in Handler : HandlerNext(h)
    \/ \E p \in Ping : Overdue(p)
    \/ \E type \in AlertType : CooldownEnds(type)
    \/ AlarmNext
    \/ RunTrace
    \/ TagExpires
    \/ TraceSpanEnds
    \/ Simulate
    \/ Disconnect
    \/ Reconnect
    \/ Hibernate
    \/ Crash

Spec == Init /\ [][Next]_vars

-----------------------------------------------------------------------------
(***************************************************************************)
(* Properties.                                                             *)
(***************************************************************************)

\* A ping gives one result and one row: the timeout and the late pong do not
\* both count, and overlapping flushes do not write a result twice.  Nor is a
\* result forgotten while the object stays in memory and D1 works, whatever
\* comes during the writes: each ping is in flight, in the buffer, in a batch
\* under way, or in D1.
MeasuredOnce ==
    /\ \A p \in Ping : rows[p] <= 1
    /\ \A p \in inFlight : p \notin buffer /\ p \notin InBatch /\ rows[p] = 0
    /\ \A p \in 1..pings :
         rows[p] = 1 \/ p \in inFlight \cup buffer \cup InBatch \cup excused

\* The ring holds the last results, as many as there are places, however it
\* came to turn.
RingIsRecent ==
    /\ TypeOK
    /\ \A status \in Status :
        Cardinality({i \in DOMAIN ring : ring[i] = status})
            = Cardinality({i \in DOMAIN last : last[i] = status})

\* There are no more traces tagged with an alert than alerts have ordered: of
\* a manual trace and an ordered one under way together, one has the tag.
TagBudget == tagged <= ordered

=============================================================================
