--------------------------- MODULE ClientMonitor ---------------------------
(***************************************************************************)
(* The connection life cycle of one ClientMonitor Durable Object           *)
(* (worker/src/durable-objects/client-monitor.ts): sockets, the single     *)
(* alarm, the disconnection state kept in memory and in durable storage,   *)
(* the outages and alerts it writes, and the retry of a failed alert.      *)
(*                                                                         *)
(* A handler of the object runs alone until it awaits something outside    *)
(* the object (a D1 query, a notification); other events are delivered     *)
(* during such an await, but not while it awaits its own storage.  Each    *)
(* action is therefore the code between two outside awaits.  A D1          *)
(* statement takes effect in the action that resumes after it, with the    *)
(* parameters bound in the action that issued it.                          *)
(***************************************************************************)
EXTENDS Integers, FiniteSets

CONSTANTS
    Sessions,       \* one value per WebSocket the client ever opens (a bound)
    PingInterval,   \* config.ping_interval_s, in ticks
    Grace,          \* gracePeriodMs, in ticks
    RetryDelay,     \* the 5 s before a failed critical alert is retried
    Cooldown,       \* the 5 minutes of triggerAlert's deduplication
    AdminSlack,     \* the 30 s the disconnect command adds to the grace period
    MaxTime,        \* bound on the clock
    MaxCommands,    \* bound on admin commands
    MaxFaults,      \* bound on crashes and failed D1 statements
    Commands,       \* the admin commands that may be issued
    Faults,         \* the faults that may happen
    Notifications,  \* config.notifications_enabled
    Timely          \* what is assumed to be over before the clock moves on

ASSUME ConstantsOK ==
    /\ PingInterval \in Nat \ {0}
    /\ Grace \in Nat \ {0}
    /\ RetryDelay \in Nat
    /\ Cooldown \in Nat
    /\ AdminSlack \in Nat
    /\ MaxTime \in Nat
    /\ MaxCommands \in Nat
    /\ MaxFaults \in Nat
    /\ Commands \subseteq {"pause", "resume", "disconnect"}
    /\ Faults \subseteq {"hibernate", "crash", "d1", "send", "lose"}
    /\ Notifications \in BOOLEAN
    /\ Timely \subseteq {"alarm", "close", "handlers", "configRead"}

VARIABLES
    now,            \* Date.now()
    alarm,          \* the object's one alarm, None when not set
    mem,            \* the fields of the instance, lost when it leaves memory
    stored,         \* state.storage
    pc,             \* where the fetch handler of each socket stands
    arg,            \* what each fetch handler bound to its next D1 statement
    closing,        \* sockets on which the object has called close()
    alarmPc,        \* where the alarm handler stands
    job,            \* what the alarm handler bound to its next D1 statement
    dropAt,         \* a drop handler that still has to set the grace alarm
    outages,        \* the outages table
    alerts,         \* the alerts table
    lastId,         \* crypto.randomUUID(): the last identifier handed out
    forgotten,      \* lastId when the fields of the instance were last lost (history)
    unreachable,    \* the client's machine is gone for good
    commands,       \* commands issued so far
    faults          \* crashes and D1 failures so far

vars == <<now, alarm, mem, stored, pc, arg, closing, alarmPc, job, dropAt,
          outages, alerts, lastId, forgotten, unreachable, commands, faults>>

None == -1              \* null
Time == Nat
MaybeTime == Time \cup {None}
Id == Nat \ {0}
MaybeId == Id \cup {None}
AlertTypes == {"client_down", "client_up"}

DeadAfter == 2 * PingInterval           \* MAX_CONSECUTIVE_TIMEOUTS = 2

(***************************************************************************)
(* Records.                                                                *)
(***************************************************************************)
Retry == [alert : Id, restoreAlarmAt : MaybeTime]
NoRetry == [alert |-> None, restoreAlarmAt |-> None]
Outage == [id : Id, start : MaybeTime, end : MaybeTime]
Alert == [id : Id, type : AlertTypes, at : Time, delivered : {-1, 0, 1},
          attempts : Nat]

\* What a fetch handler holds across an await: the row it writes (at is the
\* end of an outage or the time of an alert), and whether handleReconnect is
\* closing an outage that was already recorded.
ConnArg == [id : MaybeId, start : MaybeTime, at : MaybeTime, known : BOOLEAN]
NoConnArg == [id |-> None, start |-> None, at |-> None, known |-> FALSE]

Job == [alert : MaybeId, at : MaybeTime, retry : Retry \cup {NoRetry},
        outage : MaybeId, start : MaybeTime]
NoJob == [alert |-> None, at |-> None, retry |-> NoRetry,
          outage |-> None, start |-> None]

Memory == [disconnectedAt : MaybeTime, currentOutageId : MaybeId,
           lastAlertTimes : [AlertTypes -> MaybeTime],
           alarmEnsured : BOOLEAN, configLoaded : BOOLEAN, paused : BOOLEAN]

Storage == [disconnectedAt : MaybeTime, currentOutageId : MaybeId,
            lastClientActivity : MaybeTime, adminDisconnectUntil : MaybeTime,
            pendingRetry : Retry \cup {NoRetry}]

FreshMemory ==
    [disconnectedAt |-> None, currentOutageId |-> None,
     lastAlertTimes |-> [t \in AlertTypes |-> None],
     alarmEnsured |-> FALSE, configLoaded |-> FALSE, paused |-> FALSE]

Connecting == {"closeOutage", "brief", "upAlert", "settle"}

TypeOK ==
    /\ now \in Time
    /\ alarm \in MaybeTime
    /\ mem \in Memory
    /\ stored \in Storage
    /\ pc \in [Sessions -> Connecting \cup {"new", "open", "failed", "gone"}]
    /\ arg \in [Sessions -> ConnArg]
    /\ closing \subseteq Sessions
    /\ alarmPc \in {"idle", "load", "retry", "alert", "dispatch", "outage", "ping"}
    /\ job \in Job
    /\ dropAt \in MaybeTime
    /\ outages \subseteq Outage
    /\ alerts \subseteq Alert
    /\ lastId \in Nat
    /\ forgotten \in Nat
    /\ unreachable \in BOOLEAN
    /\ commands \in 0..MaxCommands
    /\ faults \in 0..MaxFaults

Init ==
    /\ now = 0
    /\ alarm = None
    /\ mem = FreshMemory
    /\ stored = [disconnectedAt |-> None, currentOutageId |-> None,
                 lastClientActivity |-> None, adminDisconnectUntil |-> None,
                 pendingRetry |-> NoRetry]
    /\ pc = [s \in Sessions |-> "new"]
    /\ arg = [s \in Sessions |-> NoConnArg]
    /\ closing = {}
    /\ alarmPc = "idle"
    /\ job = NoJob
    /\ dropAt = None
    /\ outages = {}
    /\ alerts = {}
    /\ lastId = 0
    /\ forgotten = 0
    /\ unreachable = FALSE
    /\ commands = 0
    /\ faults = 0

(***************************************************************************)
(* Helpers.                                                                *)
(***************************************************************************)

\* state.getWebSockets(): a socket stays listed after close() was called on
\* it, until its close event has been delivered.
Listed == {s \in Sessions : pc[s] \notin {"new", "gone"}}

\* handleSessionDrop leaves out the socket whose close it handles.
RemainingUnfiltered(s) == Listed        \* mutant
Remaining(s) == Listed \ {s}

\* triggerAlert's deduplication, for the instance fields m.
CoolingDownShort(m, type) ==            \* mutant
    /\ m.lastAlertTimes[type] # None
    /\ now - m.lastAlertTimes[type] < Cooldown - 1
CoolingDown(m, type) ==
    /\ m.lastAlertTimes[type] # None
    /\ now - m.lastAlertTimes[type] < Cooldown

\* What becomes of an alert that is sent: dispatchAlert reports 1 or -1 for
\* the one channel of the client; 0 is a D1 statement of the dispatch that
\* failed, which is logged and leaves the row as it is.
Outcomes == {1} \cup (IF "send" \in Faults THEN {-1} ELSE {})
                \cup (IF "d1" \in Faults THEN {0} ELSE {})

CloseRow(rows, id, at) ==
    {IF o.id = id THEN [o EXCEPT !.end = at] ELSE o : o \in rows}

Redeliver(rows, id, outcome) ==
    {IF a.id = id
        THEN [a EXCEPT !.delivered = IF outcome = 0 THEN @ ELSE outcome,
                       !.attempts = @ + 1]
        ELSE a : a \in rows}

\* A field that is kept in storage too, in case the object hibernated.
MemoryOnly(field) == mem[field]         \* mutant
Restored(field) ==
    IF mem[field] # None THEN mem[field] ELSE stored[field]

\* Start the ping alarm if no alarm is set.
NotStarted == alarm                     \* mutant
Started == IF alarm = None THEN now + PingInterval ELSE alarm

(***************************************************************************)
(* A WebSocket upgrade: fetch().                                           *)
(***************************************************************************)

\* The secret is valid and no admin block is in force: accept the socket,
\* restore the disconnection state, and begin handleReconnect if there is
\* one.
ConnectAccept(s) ==
    /\ pc[s] = "new"
    /\ ~unreachable
    /\ \/ stored.adminDisconnectUntil = None
       \/ now >= stored.adminDisconnectUntil
    /\ LET d == Restored("disconnectedAt")
           o == Restored("currentOutageId")
           id == IF o # None THEN o ELSE lastId + 1
       IN  /\ mem' = [mem EXCEPT !.disconnectedAt = d, !.currentOutageId = o]
           /\ \/ /\ d = None
                 /\ stored' = [stored EXCEPT !.adminDisconnectUntil = None]
                 /\ pc' = [pc EXCEPT ![s] = "settle"]
                 /\ UNCHANGED <<arg, lastId>>
              \/ /\ d # None
                 /\ stored' = [stored EXCEPT !.adminDisconnectUntil = None,
                                             !.disconnectedAt = None,
                                             !.currentOutageId = None]
                 /\ pc' = [pc EXCEPT ![s] = IF o # None THEN "closeOutage" ELSE "brief"]
                 /\ arg' = [arg EXCEPT ![s] = [id |-> id, start |-> d, at |-> now,
                                               known |-> o # None]]
                 /\ lastId' = IF o # None THEN lastId ELSE lastId + 1
    /\ UNCHANGED <<now, alarm, closing, alarmPc, job, dropAt, outages, alerts,
                   forgotten, unreachable, commands, faults>>

\* The end of handleReconnect.
FinishReconnect(s) ==
    /\ mem' = [mem EXCEPT !.disconnectedAt = None,
                          !.currentOutageId = IF arg[s].known THEN None ELSE @]
    /\ pc' = [pc EXCEPT ![s] = "settle"]
    /\ arg' = [arg EXCEPT ![s] = NoConnArg]

\* triggerAlert("client_up", "info") up to its first D1 statement.
TriggerUp(s) ==
    \/ /\ CoolingDown(mem, "client_up")
       /\ FinishReconnect(s)
       /\ UNCHANGED lastId
    \/ /\ ~CoolingDown(mem, "client_up")
       /\ mem' = [mem EXCEPT !.lastAlertTimes["client_up"] = now]
       /\ pc' = [pc EXCEPT ![s] = "upAlert"]
       /\ arg' = [arg EXCEPT ![s].id = lastId + 1, ![s].at = now]
       /\ lastId' = lastId + 1

\* The outage was recorded when the grace period expired: close its row.
ConnectCloseOutage(s) ==
    /\ pc[s] = "closeOutage"
    /\ outages' = CloseRow(outages, arg[s].id, arg[s].at)
    /\ TriggerUp(s)
    /\ UNCHANGED <<now, alarm, stored, closing, alarmPc, job, dropAt, alerts,
                   forgotten, unreachable, commands, faults>>

\* Reconnected within the grace period: record the brief outage.
ConnectBrief(s) ==
    /\ pc[s] = "brief"
    /\ outages' = outages \cup
                    {[id |-> arg[s].id, start |-> arg[s].start, end |-> arg[s].at]}
    /\ TriggerUp(s)
    /\ UNCHANGED <<now, alarm, stored, closing, alarmPc, job, dropAt, alerts,
                   forgotten, unreachable, commands, faults>>

\* The client_up alert is inserted and sent; it is never retried.
ConnectUpAlert(s) ==
    /\ pc[s] = "upAlert"
    /\ \E outcome \in (IF Notifications THEN Outcomes ELSE {0}) :
         alerts' = alerts \cup
            {[id |-> arg[s].id, type |-> "client_up", at |-> arg[s].at,
              delivered |-> outcome, attempts |-> IF Notifications THEN 1 ELSE 0]}
    /\ FinishReconnect(s)
    /\ UNCHANGED <<now, alarm, stored, closing, alarmPc, job, dropAt, outages,
                   lastId, forgotten, unreachable, commands, faults>>

\* last_seen, version, config and timezone are written: set the activity
\* baseline, start the ping alarm if there is none, and answer 101.
ConnectSettle(s) ==
    /\ pc[s] = "settle"
    /\ mem' = [mem EXCEPT !.configLoaded = TRUE]
    /\ stored' = [stored EXCEPT !.lastClientActivity = now]
    /\ alarm' = Started
    /\ pc' = [pc EXCEPT ![s] = "open"]
    /\ UNCHANGED <<now, arg, closing, alarmPc, job, dropAt, outages, alerts,
                   lastId, forgotten, unreachable, commands, faults>>

(***************************************************************************)
(* Messages and closes.                                                    *)
(***************************************************************************)

\* webSocketMessage, up to its dispatch on the type of the message.
Message(s) ==
    /\ pc[s] = "open"
    /\ ~unreachable
    /\ mem' = [mem EXCEPT !.configLoaded = TRUE, !.alarmEnsured = TRUE]
    /\ alarm' = IF mem.alarmEnsured \/ mem.paused THEN alarm ELSE Started
    /\ stored' = [stored EXCEPT !.lastClientActivity = now]
    /\ UNCHANGED <<now, pc, arg, closing, alarmPc, job, dropAt, outages, alerts,
                   lastId, forgotten, unreachable, commands, faults>>

\* The alarm at the end of a grace period, which takes the place of the ping
\* alarm.
AlarmShared(start) == IF alarm # None THEN alarm ELSE start + Grace    \* mutant
GraceAlarm(start) == start + Grace

\* webSocketClose and webSocketError: handleSessionDrop.  The close event
\* of a socket is delivered after its fetch handler has returned.
Drop(s) ==
    /\ pc[s] \in {"open", "failed"}
    /\ pc' = [pc EXCEPT ![s] = "gone"]
    /\ closing' = closing \ {s}
    /\ \/ /\ Remaining(s) # {}
          /\ UNCHANGED <<mem, stored, alarm, dropAt>>
       \/ /\ Remaining(s) = {} /\ Restored("disconnectedAt") # None
          /\ mem' = [mem EXCEPT !.disconnectedAt = Restored("disconnectedAt")]
          /\ UNCHANGED <<stored, alarm, dropAt>>
       \/ /\ Remaining(s) = {} /\ Restored("disconnectedAt") = None
          /\ mem' = [mem EXCEPT !.disconnectedAt = now]
          /\ stored' = [stored EXCEPT !.disconnectedAt = now]
          /\ \/ /\ mem.configLoaded
                /\ alarm' = GraceAlarm(now)
                /\ UNCHANGED dropAt
             \/ /\ ~mem.configLoaded
                /\ dropAt' = now
                /\ UNCHANGED alarm
    /\ UNCHANGED <<now, arg, alarmPc, job, outages, alerts, lastId, forgotten,
                   unreachable, commands, faults>>

\* The rest of handleSessionDrop when the config had to be read from D1.
DropArm ==
    /\ dropAt # None
    /\ mem' = [mem EXCEPT !.configLoaded = TRUE]
    /\ alarm' = GraceAlarm(dropAt)
    /\ dropAt' = None
    /\ UNCHANGED <<now, stored, pc, arg, closing, alarmPc, job, outages, alerts,
                   lastId, forgotten, unreachable, commands, faults>>

(***************************************************************************)
(* The alarm handler.  In the operators below m and st are the instance    *)
(* fields and the storage as the current activation has changed them, and  *)
(* a is the alarm.                                                         *)
(***************************************************************************)

\* The grace period is over and the alert is dealt with: name the outage and
\* bind its INSERT to the disconnection time held in memory at this point.
RecordUnnamed(m, st) ==                 \* mutant: bound before it is named
    /\ mem' = [m EXCEPT !.currentOutageId = lastId + 1]
    /\ stored' = [st EXCEPT !.currentOutageId = lastId + 1]
    /\ job' = [NoJob EXCEPT !.outage = m.currentOutageId, !.start = m.disconnectedAt]
    /\ lastId' = lastId + 1
    /\ alarmPc' = "outage"

RecordOutage(m, st) ==
    /\ mem' = [m EXCEPT !.currentOutageId = lastId + 1]
    /\ stored' = [st EXCEPT !.currentOutageId = lastId + 1]
    /\ job' = [NoJob EXCEPT !.outage = lastId + 1, !.start = m.disconnectedAt]
    /\ lastId' = lastId + 1
    /\ alarmPc' = "outage"

\* The handler returns without having touched anything but m and a.
AlarmReturn(m, a) ==
    /\ mem' = m
    /\ alarm' = a
    /\ job' = NoJob
    /\ alarmPc' = "idle"
    /\ UNCHANGED <<stored, closing, lastId>>

\* Disconnected, and the grace period not over: no new alarm is set.
GraceEarly(m, a) ==
    /\ m.disconnectedAt # None
    /\ now - m.disconnectedAt < Grace
    /\ AlarmReturn(m, a)

\* Disconnected for the grace period: close what is left and raise
\* client_down, unless one was raised within the cooldown.
GraceOver(m, a) ==
    /\ m.disconnectedAt # None
    /\ now - m.disconnectedAt >= Grace
    /\ closing' = closing \cup Listed
    /\ alarm' = a
    /\ \/ /\ CoolingDown(m, "client_down")
          /\ RecordOutage(m, stored)
       \/ /\ ~CoolingDown(m, "client_down")
          /\ mem' = [m EXCEPT !.lastAlertTimes["client_down"] = now]
          /\ job' = [NoJob EXCEPT !.alert = lastId + 1, !.at = now]
          /\ lastId' = lastId + 1
          /\ alarmPc' = "alert"
          /\ UNCHANGED stored

\* No message for DeadAfter: enter the disconnected state without waiting
\* for the close events.
DeadOnceClosing ==                      \* mutant: waits for a close
    /\ closing # {}
    /\ stored.lastClientActivity # None
    /\ now - stored.lastClientActivity > DeadAfter

DeadConnection ==
    /\ stored.lastClientActivity # None
    /\ now - stored.lastClientActivity > DeadAfter

\* Connected, or never disconnected: detect a dead connection, or send the
\* ping and wait for its D1 writes.  With no socket the chain of alarms ends.
NormalPing(m, a) ==
    /\ m.disconnectedAt = None
    /\ \/ /\ Listed = {}
          /\ AlarmReturn(m, a)
       \/ /\ Listed # {} /\ DeadConnection
          /\ closing' = closing \cup Listed
          /\ mem' = [m EXCEPT !.disconnectedAt = now]
          /\ stored' = [stored EXCEPT !.disconnectedAt = now]
          /\ alarm' = GraceAlarm(now)
          /\ job' = NoJob
          /\ alarmPc' = "idle"
          /\ UNCHANGED lastId
       \/ /\ Listed # {} /\ ~DeadConnection
          /\ mem' = m
          /\ alarm' = a
          /\ job' = NoJob
          /\ alarmPc' = "ping"
          /\ UNCHANGED <<stored, closing, lastId>>

\* After the retry check: restore disconnectedAt from storage and branch.
AlarmBody(m, a) ==
    LET restored == [m EXCEPT !.disconnectedAt = Restored("disconnectedAt")]
    IN  \/ GraceEarly(restored, a)
        \/ GraceOver(restored, a)
        \/ NormalPing(restored, a)

\* The pending retry leaves the storage before it is sent.
RetryKept == stored                     \* mutant
RetryTaken == [stored EXCEPT !.pendingRetry = NoRetry]

\* With the config loaded: take a pending retry out of storage and send it.
AlarmStart(m, a) ==
    \/ /\ stored.pendingRetry # NoRetry
       /\ stored' = RetryTaken
       /\ job' = [NoJob EXCEPT !.retry = stored.pendingRetry]
       /\ mem' = m
       /\ alarm' = a
       /\ alarmPc' = "retry"
       /\ UNCHANGED <<closing, lastId>>
    \/ /\ stored.pendingRetry = NoRetry
       /\ AlarmBody(m, a)

\* The alarm is due: it is cleared and alarm() called.
AlarmFire ==
    /\ alarmPc = "idle"
    /\ alarm # None
    /\ now >= alarm
    /\ \/ /\ mem.configLoaded
          /\ AlarmStart(mem, None)
       \/ /\ ~mem.configLoaded
          /\ alarm' = None
          /\ alarmPc' = "load"
          /\ UNCHANGED <<mem, stored, closing, job, lastId>>
    /\ UNCHANGED <<now, pc, arg, dropAt, outages, alerts, forgotten, unreachable,
                   commands, faults>>

\* ensureConfigLoaded has read the config from D1.
AlarmLoaded ==
    /\ alarmPc = "load"
    /\ AlarmStart([mem EXCEPT !.configLoaded = TRUE], alarm)
    /\ UNCHANGED <<now, pc, arg, dropAt, outages, alerts, forgotten, unreachable,
                   commands, faults>>

\* The retry was sent and its outcome written: put the alarm it displaced
\* back if that still lies ahead, otherwise go on.
AlarmRetry ==
    /\ alarmPc = "retry"
    /\ \E outcome \in Outcomes : alerts' = Redeliver(alerts, job.retry.alert, outcome)
    /\ \/ /\ job.retry.restoreAlarmAt > now
          /\ AlarmReturn(mem, job.retry.restoreAlarmAt)
       \/ /\ job.retry.restoreAlarmAt <= now
          /\ AlarmBody(mem, alarm)
    /\ UNCHANGED <<now, pc, arg, dropAt, outages, forgotten, unreachable,
                   commands, faults>>

\* The row of the client_down alert is inserted.
AlarmAlert ==
    /\ alarmPc = "alert"
    /\ alerts' = alerts \cup {[id |-> job.alert, type |-> "client_down", at |-> job.at,
                               delivered |-> 0, attempts |-> 0]}
    /\ \/ /\ Notifications
          /\ alarmPc' = "dispatch"
          /\ UNCHANGED <<mem, stored, job, lastId>>
       \/ /\ ~Notifications
          /\ RecordOutage(mem, stored)
    /\ UNCHANGED <<now, alarm, pc, arg, closing, dropAt, outages, forgotten,
                   unreachable, commands, faults>>

\* The alarm that the retry displaces, read before the retry's own is set.
Displaced == alarm

\* The alert was sent and its outcome written; a failure displaces the
\* alarm that is set, to try once more after RetryDelay.
AlarmDispatch ==
    /\ alarmPc = "dispatch"
    /\ \E outcome \in Outcomes :
         /\ alerts' = Redeliver(alerts, job.alert, outcome)
         /\ \/ /\ outcome # -1
               /\ RecordOutage(mem, stored)
               /\ UNCHANGED alarm
            \/ /\ outcome = -1
               /\ RecordOutage(mem, [stored EXCEPT !.pendingRetry =
                                  [alert |-> job.alert, restoreAlarmAt |-> Displaced]])
               /\ alarm' = now + RetryDelay
    /\ UNCHANGED <<now, pc, arg, closing, dropAt, outages, forgotten, unreachable,
                   commands, faults>>

\* The row of the outage is inserted.
AlarmOutage ==
    /\ alarmPc = "outage"
    /\ outages' = outages \cup {[id |-> job.outage, start |-> job.start, end |-> None]}
    /\ job' = NoJob
    /\ alarmPc' = "idle"
    /\ UNCHANGED <<now, alarm, mem, stored, pc, arg, closing, dropAt, alerts,
                   lastId, forgotten, unreachable, commands, faults>>

\* The ping's D1 writes are done: set the next alarm, whatever happened to
\* the sockets or to the alarm in the meantime.
AlarmPing ==
    /\ alarmPc = "ping"
    /\ alarm' = now + PingInterval
    /\ alarmPc' = "idle"
    /\ UNCHANGED <<now, mem, stored, pc, arg, closing, job, dropAt, outages,
                   alerts, lastId, forgotten, unreachable, commands, faults>>

(***************************************************************************)
(* Admin commands: handleCommand.                                          *)
(***************************************************************************)
Issue(command) ==
    /\ command \in Commands
    /\ commands < MaxCommands
    /\ commands' = commands + 1
    /\ UNCHANGED <<now, pc, arg, alarmPc, job, dropAt, outages, alerts, lastId,
                   forgotten, unreachable, faults>>

Pause ==
    /\ Issue("pause")
    /\ mem' = [mem EXCEPT !.paused = TRUE]
    /\ UNCHANGED <<alarm, stored, closing>>

Resume ==
    /\ Issue("resume")
    /\ mem' = [mem EXCEPT !.paused = FALSE]
    /\ alarm' = now + PingInterval
    /\ UNCHANGED <<stored, closing>>

\* How long the disconnect command keeps the client out.
GraceOnly == now + Grace                \* mutant
AdminBlock == now + Grace + AdminSlack

Disconnect ==
    /\ Issue("disconnect")
    /\ mem' = [mem EXCEPT !.configLoaded = TRUE]
    /\ stored' = [stored EXCEPT !.adminDisconnectUntil = AdminBlock]
    /\ closing' = closing \cup Listed
    /\ UNCHANGED alarm

(***************************************************************************)
(* The platform and the client's machine.                                  *)
(***************************************************************************)
Idle ==
    /\ alarmPc = "idle"
    /\ dropAt = None
    /\ \A s \in Sessions : pc[s] \notin Connecting

\* The object hibernates: its sockets stay, its fields are lost.
Hibernate ==
    /\ "hibernate" \in Faults
    /\ Idle
    /\ mem # FreshMemory
    /\ mem' = FreshMemory
    /\ forgotten' = lastId
    /\ UNCHANGED <<now, alarm, stored, pc, arg, closing, alarmPc, job, dropAt,
                   outages, alerts, lastId, unreachable, commands, faults>>

Fault(kind) ==
    /\ kind \in Faults
    /\ faults < MaxFaults
    /\ faults' = faults + 1

\* An alarm whose handler did not return normally is delivered again.
Redelivered == IF alarmPc # "idle" /\ alarm = None THEN now ELSE alarm

\* The object is restarted (a deploy, a failure of its host): handlers are
\* cut short and the sockets are dropped without a close event.
Crash ==
    /\ Fault("crash")
    /\ mem' = FreshMemory
    /\ forgotten' = lastId
    /\ pc' = [s \in Sessions |-> IF pc[s] = "new" THEN "new" ELSE "gone"]
    /\ arg' = [s \in Sessions |-> NoConnArg]
    /\ closing' = {}
    /\ alarm' = Redelivered
    /\ alarmPc' = "idle"
    /\ job' = NoJob
    /\ dropAt' = None
    /\ UNCHANGED <<now, stored, outages, alerts, lastId, unreachable, commands>>

\* A D1 statement fails in the alarm handler, which throws.
AlarmFails ==
    /\ Fault("d1")
    /\ alarmPc \in {"load", "alert", "outage", "ping"}
    /\ alarm' = Redelivered
    /\ alarmPc' = "idle"
    /\ job' = NoJob
    /\ UNCHANGED <<now, mem, stored, pc, arg, closing, dropAt, outages, alerts,
                   lastId, forgotten, unreachable, commands>>

\* A D1 statement fails in a fetch handler: no 101 is sent and the accepted
\* socket is left to be closed by the platform.
ConnectFails(s) ==
    /\ Fault("d1")
    /\ pc[s] \in Connecting
    /\ pc' = [pc EXCEPT ![s] = "failed"]
    /\ arg' = [arg EXCEPT ![s] = NoConnArg]
    /\ UNCHANGED <<now, alarm, mem, stored, closing, alarmPc, job, dropAt,
                   outages, alerts, lastId, forgotten, unreachable, commands>>

\* The config cannot be read: handleSessionDrop throws before setAlarm.
DropFails ==
    /\ Fault("d1")
    /\ dropAt # None
    /\ dropAt' = None
    /\ UNCHANGED <<now, alarm, mem, stored, pc, arg, closing, alarmPc, job,
                   outages, alerts, lastId, forgotten, unreachable, commands>>

\* The client's machine is gone: it neither connects nor sends any more.
LoseClient ==
    /\ "lose" \in Faults
    /\ ~unreachable
    /\ unreachable' = TRUE
    /\ UNCHANGED <<now, alarm, mem, stored, pc, arg, closing, alarmPc, job,
                   dropAt, outages, alerts, lastId, forgotten, commands, faults>>

\* The clock moves on.  Timely names what is known to take less than a tick:
\* the delivery of a due alarm, the close of a reachable socket, a handler
\* that is under way, or just the config read of handleSessionDrop.
Tick ==
    /\ now < MaxTime
    /\ "alarm" \in Timely => (alarm = None \/ now < alarm)
    /\ "close" \in Timely =>
         /\ \A s \in closing : unreachable /\ pc[s] = "open"
         /\ \A s \in Sessions : pc[s] # "failed"
    /\ "handlers" \in Timely => Idle
    /\ "configRead" \in Timely => dropAt = None
    /\ now' = now + 1
    /\ UNCHANGED <<alarm, mem, stored, pc, arg, closing, alarmPc, job, dropAt,
                   outages, alerts, lastId, forgotten, unreachable, commands,
                   faults>>

Connection(s) ==
    \/ ConnectAccept(s)
    \/ ConnectCloseOutage(s)
    \/ ConnectBrief(s)
    \/ ConnectUpAlert(s)
    \/ ConnectSettle(s)
    \/ ConnectFails(s)
    \/ Message(s)
    \/ Drop(s)

AlarmHandler ==
    \/ AlarmFire
    \/ AlarmLoaded
    \/ AlarmRetry
    \/ AlarmAlert
    \/ AlarmDispatch
    \/ AlarmOutage
    \/ AlarmPing
    \/ AlarmFails

Command == Pause \/ Resume \/ Disconnect

Next ==
    \/ \E s \in Sessions : Connection(s)
    \/ AlarmHandler
    \/ DropArm
    \/ DropFails
    \/ Command
    \/ Hibernate
    \/ Crash
    \/ LoseClient
    \/ Tick

Spec == Init /\ [][Next]_vars

(***************************************************************************)
(* Fairness: time passes, a due alarm is delivered, and a handler that was *)
(* started finishes.  Nothing is assumed of the client, of the network or  *)
(* of the admin.                                                           *)
(***************************************************************************)
HandlersFinish ==
    /\ \A s \in Sessions :
         WF_vars(\/ ConnectCloseOutage(s) \/ ConnectBrief(s)
                 \/ ConnectUpAlert(s) \/ ConnectSettle(s))
    /\ WF_vars(AlarmFire)
    /\ WF_vars(\/ AlarmLoaded \/ AlarmRetry \/ AlarmAlert \/ AlarmDispatch
               \/ AlarmOutage \/ AlarmPing)
    /\ WF_vars(DropArm)

FairSpec == Spec /\ HandlersFinish /\ WF_vars(Tick)

(***************************************************************************)
(* Properties.                                                             *)
(***************************************************************************)

Disconnected == mem.disconnectedAt # None \/ stored.disconnectedAt # None
DisconnectedAt ==
    IF mem.disconnectedAt # None THEN mem.disconnectedAt ELSE stored.disconnectedAt
RecordedId ==
    IF mem.currentOutageId # None THEN mem.currentOutageId ELSE stored.currentOutageId

\* When the last socket of a client that was connected is gone, the object
\* knows it: handleSessionDrop never leaves a lost client unmarked, however
\* drops, reconnections and dead-connection detection interleave.
LossNoticed ==
    (Listed = {} /\ \E s \in Sessions : pc[s] = "gone") => Disconnected

\* A client that stays away for the grace period, or for a ping interval when
\* that is longer, has the outage in the table: no close, ping, reconnection
\* or hibernation loses the one alarm that records it.
LossRecorded ==
    (/\ Idle /\ Disconnected
     /\ now > DisconnectedAt + Grace
     /\ now > DisconnectedAt + PingInterval)
        => \E o \in outages : o.start = DisconnectedAt

\* The clock of a disconnection is never set back: neither a late close of a
\* socket that was declared dead nor hibernation moves disconnectedAt.
GraceTimerKept ==
    [][(Disconnected /\ Disconnected') => DisconnectedAt' = DisconnectedAt]_vars

\* While a client is connected the chain of ping alarms is never broken.
PingChain ==
    (Idle /\ ~Disconnected /\ \E s \in Sessions : pc[s] = "open") => alarm # None

\* Two alerts of one type are at least the cooldown apart, as long as the
\* object has been in memory between them.
AlertsSpaced ==
    \A a, b \in {c \in alerts : c.id > forgotten} : a.type = b.type /\ a.id # b.id =>
        a.at - b.at >= Cooldown \/ b.at - a.at >= Cooldown

\* An alert is sent at most twice, and a client_up alert at most once.
RetriedOnce ==
    \A a \in alerts : a.attempts <= IF a.type = "client_down" THEN 2 ELSE 1

\* When an admin's disconnection has run its time, the outage it was to
\* show has been recorded, so the client cannot rejoin unnoticed.
AdminDisconnectShown ==
    (/\ Idle /\ ~unreachable
     /\ stored.adminDisconnectUntil # None
     /\ now >= stored.adminDisconnectUntil
     /\ Disconnected)
        => RecordedId # None

\* A client that is gone for good after having been connected is recorded
\* as down, provided there is enough time left on the bounded clock.
GoneIsRecorded ==
    (/\ unreachable
     /\ \E s \in Sessions : pc[s] # "new"
     /\ now + DeadAfter + 2 * PingInterval + Grace <= MaxTime)
        ~> (\E o \in outages : o.end = None)

=============================================================================
