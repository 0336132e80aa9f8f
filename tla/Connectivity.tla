---------------------------- MODULE Connectivity ----------------------------
(***************************************************************************)
(* Outages as the client reports them.  The client daemon logs every loss  *)
(* of its connection, every attempt that fails and every reconnection (the *)
(* run loop of client/src/websocket.rs, client/src/store.rs), posts the    *)
(* log after each reconnection (client/src/sync.rs), and the Worker turns  *)
(* it into outages and alerts (worker/src/api/connectivity.ts), beside     *)
(* those the client's ClientMonitor writes by itself.                      *)
(***************************************************************************)
EXTENDS Integers, Sequences, FiniteSets

CONSTANTS
    MaxConnections, \* bound on the connections the client ever makes
    BatchSize,      \* the 100 events sync_connectivity posts at a time
    Grace,          \* config.down_alert_grace_seconds, in ticks
    Window,         \* the 30 s within which two outages count as one
    MinDelay,       \* Backoff::INITIAL_MS, in ticks
    MaxDelay,       \* Backoff::MAX_MS, in ticks
    MaxTime,        \* bound on the clock
    MaxKills,       \* bound on the times the daemon is killed
    Faults,         \* what may happen: "answer", "d1", "detect"
    Timely          \* what is assumed to be over before the clock moves on

ASSUME ConstantsOK ==
    /\ MaxConnections \in Nat
    /\ BatchSize \in Nat \ {0}
    /\ Grace \in Nat
    /\ Window \in Nat
    /\ MinDelay \in Nat \ {0}
    /\ MaxDelay \in Nat /\ MaxDelay >= MinDelay
    /\ MaxTime \in Nat
    /\ MaxKills \in Nat
    /\ Faults \subseteq {"answer", "d1", "detect"}
    /\ Timely \subseteq {"attempt"}

VARIABLES
    now,            \* the clock, of the client and of the server
    client,         \* "waiting", "online", or "down" when the daemon is not running
    wakeAt,         \* when a waiting client tries to connect, or a dead one is started
    backoff,        \* Backoff::current_ms
    events,         \* connectivity_events, in the order of their ids
    synced,         \* the ids of the events marked as synced
    drain,          \* the sync_connectivity of each connection
    handler,        \* the server's handling of the batch a drain has posted
    monitor,        \* disconnectedAt of the ClientMonitor, None if connected
    outages,        \* the outages table
    kills,          \* how often the daemon was killed
    alerts,         \* the client_down rows of the alerts table
    onlineAt,       \* the ticks throughout which the client was online (history)
    crossed         \* <<s, t>>: a handler wrote the outage of t between another's
                    \* check for the one of s and its INSERT (history)

local == <<client, wakeAt, backoff, events, synced, kills>>
tables == <<outages, alerts>>
history == <<onlineAt, crossed>>
vars == <<now, local, drain, handler, monitor, tables, history>>

None == -1
Time == 0..MaxTime
Event == [event : {"disconnected", "connected"}, at : Time]
Source == {"client", "monitor"}
Outage == [id : Nat, start : Time, end : Time \cup {None}, by : Source]
Alert == [at : Time, end : Time \cup {None}, by : Source]
Ids == 1..Len(events)
Drains == 1..MaxConnections     \* the sync_connectivity of each connection

TypeOK ==
    /\ now \in Time
    /\ client \in {"waiting", "online", "down"}
    /\ wakeAt \in Nat
    /\ backoff \in MinDelay..MaxDelay
    /\ events \in Seq(Event)
    /\ synced \subseteq Ids
    /\ drain \in [Drains -> [pc : {"new", "fetch", "sent", "over"}, ids : SUBSET Ids]]
    /\ handler \in [Drains -> [pc : {"none", "check", "insert", "alertCheck",
                                     "alertInsert", "done", "failed"},
                               todo : SUBSET (Ids \X Ids)]]
    /\ monitor \in Time \cup {None}
    /\ outages \subseteq Outage
    /\ alerts \subseteq Alert
    /\ kills \in 0..MaxKills
    /\ onlineAt \subseteq Time
    /\ crossed \subseteq Time \X Time

NoHandler == [pc |-> "none", todo |-> {}]

Init ==
    /\ now = 0
    /\ client = "waiting"
    /\ wakeAt = 0
    /\ backoff = MinDelay
    /\ events = <<>>
    /\ synced = {}
    /\ drain = [d \in Drains |-> [pc |-> "new", ids |-> {}]]
    /\ handler = [d \in Drains |-> NoHandler]
    /\ monitor = None
    /\ outages = {}
    /\ alerts = {}
    /\ kills = 0
    /\ onlineAt = {}
    /\ crossed = {}

(***************************************************************************)
(* The run loop of the daemon.                                             *)
(***************************************************************************)
Log(event) == events' = Append(events, [event |-> event, at |-> now])

\* Backoff::next_delay: a quarter more or less of the current delay, which
\* doubles up to a limit.
Doubled == IF 2 * backoff < MaxDelay THEN 2 * backoff ELSE MaxDelay

Quarter == backoff \div 4
Jitter == IF Quarter = 0 THEN {0} ELSE -Quarter..(Quarter - 1)

BackOff ==
    /\ \E jitter \in Jitter : wakeAt' = now + backoff + jitter
    /\ backoff' = Doubled

\* The outages table with a new row.
Row(start, end, by) ==
    outages \cup {[id |-> Cardinality(outages) + 1, start |-> start, end |-> end, by |-> by]}

\* What the ClientMonitor does when the client is back: close the outage it
\* recorded, or record the brief one, which it alerts nobody to.
MonitorSees ==
    /\ monitor' = None
    /\ outages' =
         IF monitor = None THEN outages
         ELSE IF \A o \in outages : o.end # None
         THEN Row(monitor, now, "monitor")
         ELSE {IF o.end = None THEN [o EXCEPT !.end = now] ELSE o : o \in outages}

\* Connected: log it, and spawn a drain.
Connect(d) ==
    /\ client = "waiting" /\ now >= wakeAt
    /\ drain[d].pc = "new" /\ \A c \in 1..(d - 1) : drain[c].pc # "new"
    /\ client' = "online"
    /\ backoff' = MinDelay
    /\ Log("connected")
    /\ drain' = [drain EXCEPT ![d].pc = "fetch"]
    /\ MonitorSees
    /\ UNCHANGED <<now, wakeAt, synced, kills, handler, alerts, history>>

\* The attempt fails: that is logged as a disconnection too.
ConnectFails ==
    /\ client = "waiting" /\ now >= wakeAt
    /\ Log("disconnected")
    /\ BackOff
    /\ UNCHANGED <<now, client, synced, kills, drain, handler, monitor, tables,
                   history>>

\* The connection is closed, or reading or writing fails.
Lose ==
    /\ client = "online"
    /\ client' = "waiting"
    /\ Log("disconnected")
    /\ BackOff
    /\ UNCHANGED <<now, synced, kills, drain, handler, monitor, tables, history>>

\* The daemon ends without logging anything; its requests are abandoned, and
\* the service manager waits for some seconds before it starts it again.
Kill ==
    /\ client # "down"
    /\ kills < MaxKills
    /\ kills' = kills + 1
    /\ client' = "down"
    /\ wakeAt' = now + 1
    /\ drain' = [d \in Drains |-> IF drain[d].pc = "new" THEN drain[d]
                                  ELSE [pc |-> "over", ids |-> {}]]
    /\ UNCHANGED <<now, backoff, events, synced, handler, monitor, tables, history>>

Start ==
    /\ client = "down" /\ now >= wakeAt
    /\ client' = "waiting"
    /\ wakeAt' = now
    /\ backoff' = MinDelay
    /\ UNCHANGED <<now, events, synced, kills, drain, handler, monitor, tables,
                   history>>

(***************************************************************************)
(* sync_connectivity.                                                      *)
(***************************************************************************)
Unsynced == Ids \ synced
Batch == {i \in Unsynced : Cardinality({j \in Unsynced : j < i}) < BatchSize}

\* The handler sorts the events and pairs each disconnection with a
\* connection that follows it directly.
Disconnected(i) == events[i].event = "disconnected"
PairsNotReset(ids) ==                               \* mutant: pendingDisconnect kept
    {p \in ids \X ids : /\ Disconnected(p[1]) /\ ~Disconnected(p[2]) /\ p[1] < p[2]
                        /\ \A k \in ids : p[1] < k /\ k < p[2] => ~Disconnected(k)}
Pairs(ids) ==
    {p \in ids \X ids : /\ Disconnected(p[1]) /\ ~Disconnected(p[2]) /\ p[1] < p[2]
                        /\ \A k \in ids : ~(p[1] < k /\ k < p[2])}

\* Blips are left out.
Long(p) == events[p[2]].at - events[p[1]].at >= Grace
Work(ids) == {p \in Pairs(ids) : Long(p)}

Handled(todo) == [pc |-> IF todo = {} THEN "done" ELSE "check", todo |-> todo]

Fetch(d) ==
    /\ drain[d].pc = "fetch"
    /\ \/ /\ Batch = {}
          /\ drain' = [drain EXCEPT ![d] = [pc |-> "over", ids |-> {}]]
          /\ UNCHANGED handler
       \/ /\ Batch # {}
          /\ drain' = [drain EXCEPT ![d] = [pc |-> "sent", ids |-> Batch]]
          /\ handler' = [handler EXCEPT ![d] = Handled(Work(Batch))]
    /\ UNCHANGED <<now, local, monitor, tables, history>>

\* The answer comes: mark the events, and go on if the batch was a full one.
Answered(d) ==
    /\ drain[d].pc = "sent"
    /\ handler[d].pc = "done"
    /\ synced' = synced \cup drain[d].ids
    /\ drain' = [drain EXCEPT ![d] =
                    [pc |-> IF Cardinality(drain[d].ids) < BatchSize
                            THEN "over" ELSE "fetch", ids |-> {}]]
    /\ handler' = [handler EXCEPT ![d] = NoHandler]
    /\ UNCHANGED <<now, client, wakeAt, backoff, events, kills, monitor, tables,
                   history>>

\* The answer does not come, or says that the handler failed.
Unanswered(d) ==
    /\ drain[d].pc = "sent"
    /\ "answer" \in Faults \/ handler[d].pc = "failed"
    /\ drain' = [drain EXCEPT ![d] = [pc |-> "over", ids |-> {}]]
    /\ UNCHANGED <<now, local, handler, monitor, tables, history>>

(***************************************************************************)
(* The handler of POST /:clientId/connectivity, from one D1 statement to   *)
(* the next; it takes the pairs in their order.                            *)
(***************************************************************************)
Current(d) == CHOOSE p \in handler[d].todo : \A q \in handler[d].todo : p[1] <= q[1]
StartOf(d) == events[Current(d)[1]].at
EndOf(d) == events[Current(d)[2]].at
NextPair(d) == [handler EXCEPT ![d] = Handled(handler[d].todo \ {Current(d)})]

\* Two starts within Window of each other are taken for one outage, which is
\* known when a row has such a start.
Near(s, t) == s >= t - Window /\ s <= t + Window
NeverKnown(d) == FALSE                              \* mutant
KnownOverlap(d) ==                                  \* mutant: any that overlaps
    \E o \in outages : o.start <= EndOf(d) /\ o.end >= StartOf(d) - Window
Known(d) == \E o \in outages : Near(o.start, StartOf(d))

Check(d) ==
    /\ handler[d].pc = "check"
    /\ handler' = IF Known(d) THEN NextPair(d)
                  ELSE [handler EXCEPT ![d].pc = "insert"]
    /\ UNCHANGED <<now, local, drain, monitor, tables, history>>

Insert(d) ==
    /\ handler[d].pc = "insert"
    /\ outages' = Row(StartOf(d), EndOf(d), "client")
    /\ handler' = [handler EXCEPT ![d].pc = "alertCheck"]
    /\ crossed' = crossed \cup {<<StartOf(c), StartOf(d)>> : c \in
                        {e \in Drains \ {d} : /\ handler[e].pc = "insert"
                                              /\ Near(StartOf(d), StartOf(e))}}
    /\ UNCHANGED <<now, local, drain, monitor, alerts, onlineAt>>

\* Whether the server alerted by itself.
AlertExists(d) ==
    \E a \in alerts : a.at >= StartOf(d) - Window /\ a.at <= EndOf(d)

AlertCheck(d) ==
    /\ handler[d].pc = "alertCheck"
    /\ handler' = IF AlertExists(d) THEN NextPair(d)
                  ELSE [handler EXCEPT ![d].pc = "alertInsert"]
    /\ UNCHANGED <<now, local, drain, monitor, tables, history>>

AlertInsert(d) ==
    /\ handler[d].pc = "alertInsert"
    /\ alerts' = alerts \cup {[at |-> now, end |-> EndOf(d), by |-> "client"]}
    /\ handler' = NextPair(d)
    /\ UNCHANGED <<now, local, drain, monitor, outages, history>>

\* A D1 statement fails, and the handler with it.
HandlerFails(d) ==
    /\ "d1" \in Faults
    /\ handler[d].pc \in {"check", "insert", "alertCheck", "alertInsert"}
    /\ handler' = [handler EXCEPT ![d] = [pc |-> "failed", todo |-> {}]]
    /\ UNCHANGED <<now, local, drain, monitor, tables, history>>

(***************************************************************************)
(* The ClientMonitor, as far as it writes the same tables.                 *)
(***************************************************************************)

\* It is told of the loss of a connection some time after the client logs it.
MonitorNotices ==
    /\ "detect" \in Faults
    /\ client # "online"
    /\ monitor = None
    /\ \E d \in Drains : drain[d].pc # "new"
    /\ monitor' = now
    /\ UNCHANGED <<now, local, drain, handler, tables, history>>

MonitorRecords ==
    /\ monitor # None
    /\ now - monitor >= Grace
    /\ \A o \in outages : o.end # None
    /\ outages' = Row(monitor, None, "monitor")
    /\ alerts' = alerts \cup {[at |-> now, end |-> None, by |-> "monitor"]}
    /\ UNCHANGED <<now, local, drain, handler, monitor, history>>

\* Timely names what takes less than a tick: an attempt to connect that is due.
\* A request, a handler or a drain may take any time.
Tick ==
    /\ now < MaxTime
    /\ "attempt" \in Timely => ~(client = "waiting" /\ now >= wakeAt)
    /\ now' = now + 1
    /\ onlineAt' = IF client = "online" THEN onlineAt \cup {now} ELSE onlineAt
    /\ UNCHANGED <<local, drain, handler, monitor, tables, crossed>>

Daemon == ConnectFails \/ Lose \/ Kill \/ Start \/ \E d \in Drains : Connect(d)
Sync(d) == Fetch(d) \/ Answered(d) \/ Unanswered(d)
Handle(d) == Check(d) \/ Insert(d) \/ AlertCheck(d) \/ AlertInsert(d)

Next ==
    \/ Daemon
    \/ \E d \in Drains : Sync(d) \/ Handle(d) \/ HandlerFails(d)
    \/ MonitorNotices
    \/ MonitorRecords
    \/ Tick

Spec == Init /\ [][Next]_vars

(***************************************************************************)
(* Properties.                                                             *)
(***************************************************************************)
Reported == {o \in outages : o.by = "client"}

\* No outage the client reports covers a time when the client was online,
\* however its log is cut into batches, posted again or left incomplete by
\* a daemon that was killed; and the variables keep their types.
OnlyOffline ==
    /\ TypeOK
    /\ \A o \in Reported : \A t \in onlineAt : ~(o.start <= t /\ t < o.end)

\* When the server acknowledges a batch, there is an outage for every long
\* disconnection in it, whatever was known before or handled beside it.
AckedReported ==
    \A d \in Drains : (drain[d].pc = "sent" /\ handler[d].pc = "done") =>
        \A p \in Work(drain[d].ids) : \E o \in outages : Near(o.start, events[p[1]].at)

\* One outage is not reported twice, though its events may be posted again
\* while a handler that was given up still works on them, unless one handler
\* writes it down between the other's check and its INSERT.
ReportedOnce ==
    \A o, q \in Reported :
        o # q /\ Near(o.start, q.start) =>
            <<o.start, q.start>> \in crossed \/ <<q.start, o.start>> \in crossed

=============================================================================
