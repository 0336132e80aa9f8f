------------------------ MODULE ClientMonitor_proofs ------------------------
(***************************************************************************)
(* Theorems about ClientMonitor, for every number of sockets and every     *)
(* value of the periods.                                                   *)
(***************************************************************************)
EXTENDS ClientMonitor, TLAPS

(***************************************************************************)
(* Type correctness.                                                       *)
(***************************************************************************)

\* The records a handler holds when it holds nothing.
LEMMA EmptyRecords ==
    /\ NoRetry \notin Retry
    /\ NoConnArg \in ConnArg
    /\ NoJob \in Job
    /\ FreshMemory \in Memory
BY DEF NoRetry, Retry, NoConnArg, ConnArg, NoJob, Job, FreshMemory, Memory,
       MaybeTime, MaybeId, Id, Time, None

\* Whenever a handler is about to write a row it has bound the identifier
\* and the time of that row: what TypeOK needs to be inductive.
RowsBound ==
    /\ \A s \in Sessions : pc[s] \in {"closeOutage", "brief", "upAlert"} =>
            arg[s].id \in Id /\ arg[s].at \in Time
    /\ alarmPc \in {"alert", "dispatch"} => job.alert \in Id /\ job.at \in Time
    /\ alarmPc = "outage" => job.outage \in Id

\* A field read from memory or storage has the type of both.
LEMMA RestoredType ==
    ASSUME TypeOK
    PROVE  /\ Restored("disconnectedAt") \in MaybeTime
           /\ Restored("currentOutageId") \in MaybeId
BY DEF TypeOK, Restored, Memory, Storage

\* Outages and alerts stay rows of their tables when updated.
LEMMA RowTypes ==
    ASSUME TypeOK, NEW id, NEW at \in MaybeTime, NEW outcome \in {-1, 0, 1}
    PROVE  /\ CloseRow(outages, id, at) \subseteq Outage
           /\ Redeliver(alerts, id, outcome) \subseteq Alert
<1>1. ASSUME NEW o \in outages
      PROVE  [o EXCEPT !.end = at] \in Outage
  BY DEF TypeOK, Outage
<1>2. ASSUME NEW a \in alerts
      PROVE  [a EXCEPT !.delivered = IF outcome = 0 THEN @ ELSE outcome,
                       !.attempts = @ + 1] \in Alert
  <2> DEFINE delivered == IF outcome = 0 THEN a.delivered ELSE outcome
  <2>1. a \in Alert
    BY DEF TypeOK
  <2>2. delivered \in {-1, 0, 1}
    BY <2>1 DEF Alert
  <2>3. a.attempts + 1 \in Nat
    BY <2>1 DEF Alert
  <2> HIDE DEF delivered
  <2>4. [a EXCEPT !.delivered = delivered, !.attempts = a.attempts + 1] \in Alert
    BY <2>1, <2>2, <2>3 DEF Alert
  <2> QED BY <2>4 DEF delivered
<1> QED BY <1>1, <1>2 DEF CloseRow, Redeliver, TypeOK


\* The part of TypeOK that the alarm handler changes.
AlarmTypeOK ==
    /\ mem \in Memory
    /\ stored \in Storage
    /\ alarm \in MaybeTime
    /\ closing \subseteq Sessions
    /\ alarmPc \in {"idle", "load", "retry", "alert", "dispatch", "outage", "ping"}
    /\ job \in Job
    /\ lastId \in Nat

LEMMA RecordOutageType ==
    ASSUME TypeOK, NEW m \in Memory, NEW st \in Storage, RecordOutage(m, st)
    PROVE  /\ mem' \in Memory
           /\ stored' \in Storage
           /\ job' \in Job
           /\ lastId' \in Nat
           /\ alarmPc' = "outage"
<1>1. lastId + 1 \in Id /\ lastId' \in Nat
  BY DEF TypeOK, RecordOutage, Id
<1>2. mem' \in Memory
  BY <1>1 DEF RecordOutage, Memory, MaybeId
<1>3. stored' \in Storage
  BY <1>1 DEF RecordOutage, Storage, MaybeId
<1>4. job' \in Job
  BY <1>1, EmptyRecords DEF RecordOutage, Job, Memory, MaybeId
<1> QED BY <1>1, <1>2, <1>3, <1>4 DEF RecordOutage

\* What follows the retry check keeps the types.
LEMMA AlarmBodyType ==
    ASSUME TypeOK, NEW m \in Memory, NEW a \in MaybeTime, AlarmBody(m, a)
    PROVE  AlarmTypeOK'
<1> DEFINE r == [m EXCEPT !.disconnectedAt = Restored("disconnectedAt")]
<1>1. r \in Memory
  BY RestoredType DEF Memory
<1>2. Listed \subseteq Sessions
  BY DEF Listed
<1> HIDE DEF r
<1>3. CASE GraceEarly(r, a)
  BY <1>1, <1>3, EmptyRecords DEF GraceEarly, AlarmReturn, AlarmTypeOK, TypeOK
<1>4. CASE GraceOver(r, a)
  <2>1. closing' \subseteq Sessions /\ alarm' \in MaybeTime
    BY <1>2, <1>4 DEF GraceOver, TypeOK
  <2>2. CASE RecordOutage(r, stored)
    BY <1>1, <2>1, <2>2, RecordOutageType DEF AlarmTypeOK, TypeOK
  <2>3. CASE /\ mem' = [r EXCEPT !.lastAlertTimes["client_down"] = now]
             /\ job' = [NoJob EXCEPT !.alert = lastId + 1, !.at = now]
             /\ lastId' = lastId + 1
             /\ alarmPc' = "alert"
             /\ UNCHANGED stored
    <3>1. mem' \in Memory
      BY <1>1, <2>3 DEF Memory, TypeOK, MaybeTime, AlertTypes
    <3>2. job' \in Job
      <4>1. lastId + 1 \in MaybeId /\ now \in MaybeTime
        BY DEF TypeOK, MaybeTime, MaybeId, Id
      <4> QED BY <2>3, <4>1, EmptyRecords DEF Job
    <3> QED BY <2>1, <2>3, <3>1, <3>2 DEF AlarmTypeOK, TypeOK
  <2> QED BY <1>4, <2>2, <2>3 DEF GraceOver
<1>5. CASE NormalPing(r, a)
  <2>1. CASE AlarmReturn(r, a)
    BY <1>1, <2>1, EmptyRecords DEF AlarmReturn, AlarmTypeOK, TypeOK
  <2>2. CASE /\ closing' = closing \cup Listed
             /\ mem' = [r EXCEPT !.disconnectedAt = now]
             /\ stored' = [stored EXCEPT !.disconnectedAt = now]
             /\ alarm' = now + Grace
             /\ job' = NoJob
             /\ alarmPc' = "idle"
             /\ UNCHANGED lastId
    <3>1. mem' \in Memory /\ stored' \in Storage
      BY <1>1, <2>2 DEF Memory, Storage, TypeOK, MaybeTime
    <3>2. alarm' \in MaybeTime
      BY <2>2, ConstantsOK DEF TypeOK, MaybeTime, Time
    <3> QED BY <1>2, <2>2, <3>1, <3>2, EmptyRecords DEF AlarmTypeOK, TypeOK
  <2>3. CASE /\ mem' = r
             /\ alarm' = a
             /\ job' = NoJob
             /\ alarmPc' = "ping"
             /\ UNCHANGED <<stored, closing, lastId>>
    BY <1>1, <2>3, EmptyRecords DEF AlarmTypeOK, TypeOK
  <2> QED BY <1>5, <2>1, <2>2, <2>3 DEF NormalPing, GraceAlarm
<1> QED BY <1>3, <1>4, <1>5 DEF AlarmBody, r

LEMMA AlarmStartType ==
    ASSUME TypeOK, NEW m \in Memory, NEW a \in MaybeTime, AlarmStart(m, a)
    PROVE  AlarmTypeOK'
<1>1. CASE AlarmBody(m, a)
  BY <1>1, AlarmBodyType
<1>2. CASE /\ stored' = RetryTaken
           /\ job' = [NoJob EXCEPT !.retry = stored.pendingRetry]
           /\ mem' = m
           /\ alarm' = a
           /\ alarmPc' = "retry"
           /\ UNCHANGED <<closing, lastId>>
  <2>1. stored' \in Storage
    BY <1>2 DEF RetryTaken, Storage, TypeOK
  <2>2. job' \in Job
    BY <1>2, EmptyRecords DEF Storage, Job, TypeOK
  <2> QED BY <1>2, <2>1, <2>2 DEF AlarmTypeOK, TypeOK
<1> QED BY <1>1, <1>2 DEF AlarmStart

\* Handlers of sockets.
LEMMA ConnectionType ==
    ASSUME TypeOK, RowsBound, NEW s \in Sessions, Connection(s)
    PROVE  TypeOK'
<1>0. /\ mem \in Memory /\ stored \in Storage
      /\ now \in MaybeTime /\ now \in Time
      /\ arg[s] \in ConnArg /\ arg \in [Sessions -> ConnArg]
      /\ lastId + 1 \in Id /\ lastId + 1 \in Nat
  BY DEF TypeOK, Id, MaybeTime
<1>a. ASSUME FinishReconnect(s)
      PROVE  /\ mem' \in Memory
             /\ pc' = [pc EXCEPT ![s] = "settle"]
             /\ arg' \in [Sessions -> ConnArg]
  BY <1>0, <1>a, EmptyRecords DEF FinishReconnect, Memory, MaybeTime, MaybeId, TypeOK
<1>b. ASSUME TriggerUp(s)
      PROVE  /\ mem' \in Memory
             /\ pc' \in [Sessions -> Connecting \cup {"new", "open", "failed", "gone"}]
             /\ arg' \in [Sessions -> ConnArg]
             /\ lastId' \in Nat
  <2>1. CASE FinishReconnect(s) /\ UNCHANGED lastId
    BY <1>a, <2>1 DEF TypeOK, Connecting
  <2>2. CASE /\ mem' = [mem EXCEPT !.lastAlertTimes["client_up"] = now]
             /\ pc' = [pc EXCEPT ![s] = "upAlert"]
             /\ arg' = [arg EXCEPT ![s].id = lastId + 1, ![s].at = now]
             /\ lastId' = lastId + 1
    <3>1. mem' \in Memory
      BY <1>0, <2>2 DEF Memory, AlertTypes
    <3>2. arg' \in [Sessions -> ConnArg]
      <4>1. [arg[s] EXCEPT !.id = lastId + 1, !.at = now] \in ConnArg
        BY <1>0 DEF ConnArg, MaybeId
      <4>2. arg' = [arg EXCEPT ![s] = [arg[s] EXCEPT !.id = lastId + 1, !.at = now]]
        BY <1>0, <2>2
      <4> QED BY <1>0, <4>1, <4>2
    <3> QED BY <1>0, <2>2, <3>1, <3>2 DEF TypeOK, Connecting
  <2> QED BY <1>b, <2>1, <2>2 DEF TriggerUp
<1>c. ASSUME NEW o \in Outage
      PROVE  outages \cup {o} \subseteq Outage
  BY DEF TypeOK
<1>1. CASE ConnectAccept(s)
  <2> DEFINE d == Restored("disconnectedAt")
             o == Restored("currentOutageId")
             id == IF o # None THEN o ELSE lastId + 1
  <2>1. d \in MaybeTime /\ o \in MaybeId
    BY RestoredType
  <2>2. id \in MaybeId
    BY <1>0, <2>1 DEF MaybeId
  <2> HIDE DEF d, o, id
  <2>3. /\ mem' = [mem EXCEPT !.disconnectedAt = d, !.currentOutageId = o]
        /\ UNCHANGED <<now, alarm, closing, alarmPc, job, dropAt, outages, alerts,
                       forgotten, unreachable, commands, faults>>
    BY <1>1 DEF ConnectAccept, d, o
  <2>4. mem' \in Memory
    BY <1>0, <2>1, <2>3 DEF Memory
  <2>5. CASE /\ stored' = [stored EXCEPT !.adminDisconnectUntil = None]
             /\ pc' = [pc EXCEPT ![s] = "settle"]
             /\ UNCHANGED <<arg, lastId>>
    <3>1. stored' \in Storage
      BY <1>0, <2>5 DEF Storage, MaybeTime
    <3> QED BY <2>3, <2>4, <2>5, <3>1 DEF TypeOK, Connecting
  <2>6. CASE /\ stored' = [stored EXCEPT !.adminDisconnectUntil = None,
                                         !.disconnectedAt = None,
                                         !.currentOutageId = None]
             /\ pc' = [pc EXCEPT ![s] = IF o # None THEN "closeOutage" ELSE "brief"]
             /\ arg' = [arg EXCEPT ![s] = [id |-> id, start |-> d, at |-> now,
                                           known |-> o # None]]
             /\ lastId' = IF o # None THEN lastId ELSE lastId + 1
    <3>1. stored' \in Storage
      BY <1>0, <2>6 DEF Storage, MaybeTime, MaybeId
    <3>2. (o # None) \in BOOLEAN
      OBVIOUS
    <3>3. [id |-> id, start |-> d, at |-> now, known |-> o # None] \in ConnArg
      BY <1>0, <2>1, <2>2, <3>2, Zenon DEF ConnArg
    <3>4. arg' \in [Sessions -> ConnArg]
      BY <1>0, <2>6, <3>3, Zenon
    <3>5. lastId' \in Nat
      BY <1>0, <2>6 DEF TypeOK
    <3>6. pc' \in [Sessions -> Connecting \cup {"new", "open", "failed", "gone"}]
      BY <2>6 DEF TypeOK, Connecting
    <3> QED BY <2>3, <2>4, <3>1, <3>4, <3>5, <3>6 DEF TypeOK
  <2> QED BY <1>1, <2>5, <2>6 DEF ConnectAccept, d, o, id
<1>2. CASE ConnectCloseOutage(s)
  <2>1. arg[s].at \in MaybeTime
    BY <1>0 DEF ConnArg
  <2>2. outages' \subseteq Outage
    BY <1>2, <2>1, RowTypes DEF ConnectCloseOutage
  <2> QED BY <1>2, <1>b, <2>2 DEF ConnectCloseOutage, TypeOK
<1>3. CASE ConnectBrief(s)
  <2>1. [id |-> arg[s].id, start |-> arg[s].start, end |-> arg[s].at] \in Outage
    BY <1>0, <1>3 DEF ConnectBrief, RowsBound, ConnArg, Outage, MaybeTime
  <2> QED BY <1>3, <1>b, <1>c, <2>1 DEF ConnectBrief, TypeOK
<1>4. CASE ConnectUpAlert(s)
  <2>1. PICK outcome \in {-1, 0, 1} :
          alerts' = alerts \cup
            {[id |-> arg[s].id, type |-> "client_up", at |-> arg[s].at,
              delivered |-> outcome, attempts |-> IF Notifications THEN 1 ELSE 0]}
    BY <1>4 DEF ConnectUpAlert, Outcomes
  <2>2. [id |-> arg[s].id, type |-> "client_up", at |-> arg[s].at,
         delivered |-> outcome, attempts |-> IF Notifications THEN 1 ELSE 0] \in Alert
    BY <1>4 DEF ConnectUpAlert, RowsBound, Alert, AlertTypes
  <2>3. alerts' \subseteq Alert
    BY <2>1, <2>2 DEF TypeOK
  <2> QED BY <1>4, <1>a, <2>3 DEF ConnectUpAlert, FinishReconnect, TypeOK, Connecting
<1>5. CASE ConnectSettle(s)
  <2>1. mem' \in Memory /\ stored' \in Storage
    BY <1>0, <1>5 DEF ConnectSettle, Memory, Storage
  <2>2. alarm' \in MaybeTime
    BY <1>5, ConstantsOK DEF ConnectSettle, Started, TypeOK, MaybeTime, Time
  <2> QED BY <1>5, <2>1, <2>2 DEF ConnectSettle, TypeOK
<1>6. CASE ConnectFails(s)
  <2>1. faults' \in 0..MaxFaults
    BY <1>6, ConstantsOK DEF ConnectFails, Fault, TypeOK
  <2> QED BY <1>6, <2>1, EmptyRecords DEF ConnectFails, TypeOK
<1>7. CASE Message(s)
  <2>1. mem' \in Memory /\ stored' \in Storage
    BY <1>0, <1>7 DEF Message, Memory, Storage
  <2>2. alarm' \in MaybeTime
    BY <1>7, ConstantsOK DEF Message, Started, TypeOK, MaybeTime, Time
  <2> QED BY <1>7, <2>1, <2>2 DEF Message, TypeOK
<1>8. CASE Drop(s)
  <2>1. mem' \in Memory
    BY <1>0, <1>8, RestoredType DEF Drop, Memory
  <2>2. stored' \in Storage
    BY <1>0, <1>8 DEF Drop, Storage
  <2>3. alarm' \in MaybeTime /\ dropAt' \in MaybeTime
    BY <1>0, <1>8, ConstantsOK DEF Drop, GraceAlarm, TypeOK, MaybeTime, Time
  <2> QED BY <1>8, <2>1, <2>2, <2>3 DEF Drop, TypeOK
<1> QED BY <1>1, <1>2, <1>3, <1>4, <1>5, <1>6, <1>7, <1>8 DEF Connection

\* The alarm handler.
LEMMA AlarmHandlerType ==
    ASSUME TypeOK, RowsBound, AlarmHandler
    PROVE  TypeOK'
<1>0. /\ mem \in Memory /\ stored \in Storage /\ job \in Job
      /\ alarm \in MaybeTime /\ None \in MaybeTime
      /\ mem.disconnectedAt \in MaybeTime
      /\ [mem EXCEPT !.configLoaded = TRUE] \in Memory
  BY DEF TypeOK, MaybeTime, Memory
<1>1. CASE AlarmFire
  <2>1. CASE AlarmStart(mem, None)
    BY <1>0, <1>1, <2>1, AlarmStartType DEF AlarmFire, AlarmTypeOK, TypeOK
  <2>2. CASE /\ alarm' = None
             /\ alarmPc' = "load"
             /\ UNCHANGED <<mem, stored, closing, job, lastId>>
    BY <1>0, <1>1, <2>2 DEF AlarmFire, TypeOK
  <2> QED BY <1>1, <2>1, <2>2 DEF AlarmFire
<1>2. CASE AlarmLoaded
  BY <1>0, <1>2, AlarmStartType DEF AlarmLoaded, AlarmTypeOK, TypeOK
<1>3. CASE AlarmRetry
  <2>1. alerts' \subseteq Alert
    BY <1>3, RowTypes DEF AlarmRetry, Outcomes, MaybeTime, None
  <2>2. CASE AlarmReturn(mem, job.retry.restoreAlarmAt)
    <3>1. job.retry.restoreAlarmAt \in MaybeTime
      BY <1>0 DEF Job, Retry, NoRetry, MaybeTime
    <3> QED BY <1>0, <1>3, <2>1, <2>2, <3>1, EmptyRecords
            DEF AlarmRetry, AlarmReturn, TypeOK
  <2>3. CASE AlarmBody(mem, alarm)
    BY <1>0, <1>3, <2>1, <2>3, AlarmBodyType DEF AlarmRetry, AlarmTypeOK, TypeOK
  <2> QED BY <1>3, <2>2, <2>3 DEF AlarmRetry
<1>4. CASE AlarmAlert
  <2>1. [id |-> job.alert, type |-> "client_down", at |-> job.at,
         delivered |-> 0, attempts |-> 0] \in Alert
    BY <1>4 DEF AlarmAlert, RowsBound, Alert, AlertTypes
  <2>2. alerts' \subseteq Alert
    BY <1>4, <2>1 DEF AlarmAlert, TypeOK
  <2>3. CASE alarmPc' = "dispatch" /\ UNCHANGED <<mem, stored, job, lastId>>
    BY <1>4, <2>2, <2>3 DEF AlarmAlert, TypeOK
  <2>4. CASE RecordOutage(mem, stored)
    BY <1>0, <1>4, <2>2, <2>4, RecordOutageType DEF AlarmAlert, TypeOK
  <2> QED BY <1>4, <2>3, <2>4 DEF AlarmAlert
<1>5. CASE AlarmDispatch
  <2>1. PICK outcome \in Outcomes :
          /\ alerts' = Redeliver(alerts, job.alert, outcome)
          /\ \/ /\ outcome # -1
                /\ RecordOutage(mem, stored)
                /\ UNCHANGED alarm
             \/ /\ outcome = -1
                /\ RecordOutage(mem, [stored EXCEPT !.pendingRetry =
                                   [alert |-> job.alert, restoreAlarmAt |-> Displaced]])
                /\ alarm' = now + RetryDelay
    BY <1>5 DEF AlarmDispatch
  <2>2. alerts' \subseteq Alert
    BY <2>1, RowTypes DEF Outcomes, MaybeTime, None
  <2>3. [alert |-> job.alert, restoreAlarmAt |-> Displaced] \in Retry
    BY <1>0, <1>5 DEF AlarmDispatch, RowsBound, Retry, Displaced
  <2>4. [stored EXCEPT !.pendingRetry =
            [alert |-> job.alert, restoreAlarmAt |-> Displaced]] \in Storage
    BY <1>0, <2>3 DEF Storage
  <2>5. now + RetryDelay \in MaybeTime
    BY ConstantsOK DEF TypeOK, MaybeTime, Time
  <2> QED BY <1>0, <1>5, <2>1, <2>2, <2>4, <2>5, RecordOutageType
          DEF AlarmDispatch, TypeOK
<1>6. CASE AlarmOutage
  <2>1. [id |-> job.outage, start |-> job.start, end |-> None] \in Outage
    BY <1>0, <1>6 DEF AlarmOutage, RowsBound, Outage, Job
  <2> QED BY <1>6, <2>1, EmptyRecords DEF AlarmOutage, TypeOK
<1>7. CASE AlarmPing
  <2>1. alarm' \in MaybeTime
    BY <1>7, ConstantsOK DEF AlarmPing, TypeOK, MaybeTime, Time
  <2> QED BY <1>7, <2>1 DEF AlarmPing, TypeOK
<1>8. CASE AlarmFails
  <2>1. alarm' \in MaybeTime
    BY <1>8 DEF AlarmFails, Redelivered, TypeOK, MaybeTime
  <2>2. faults' \in 0..MaxFaults
    BY <1>8, ConstantsOK DEF AlarmFails, Fault, TypeOK
  <2> QED BY <1>8, <2>1, <2>2, EmptyRecords DEF AlarmFails, TypeOK
<1> QED BY <1>1, <1>2, <1>3, <1>4, <1>5, <1>6, <1>7, <1>8 DEF AlarmHandler

\* Everything else: the end of handleSessionDrop, the admin, the platform.
LEMMA EnvironmentType ==
    ASSUME TypeOK,
           DropArm \/ DropFails \/ Command \/ Hibernate \/ Crash \/ LoseClient \/ Tick
    PROVE  TypeOK'
<1>0. mem \in Memory /\ stored \in Storage
  BY DEF TypeOK
<1>a. ASSUME NEW c, Issue(c)
      PROVE  commands' \in 0..MaxCommands
  BY <1>a, ConstantsOK DEF Issue, TypeOK
<1>b. ASSUME NEW kind, Fault(kind)
      PROVE  faults' \in 0..MaxFaults
  BY <1>b, ConstantsOK DEF Fault, TypeOK
<1>1. CASE DropArm
  <2>1. alarm' \in MaybeTime /\ dropAt' \in MaybeTime
    BY <1>1, ConstantsOK DEF DropArm, GraceAlarm, TypeOK, MaybeTime, Time
  <2>2. mem' \in Memory
    BY <1>0, <1>1 DEF DropArm, Memory
  <2> QED BY <1>1, <2>1, <2>2 DEF DropArm, TypeOK
<1>2. CASE DropFails
  BY <1>b, <1>2 DEF DropFails, TypeOK, MaybeTime
<1>3. CASE Pause
  BY <1>0, <1>a, <1>3 DEF Pause, Issue, TypeOK, Memory
<1>4. CASE Resume
  <2>1. alarm' \in MaybeTime
    BY <1>4, ConstantsOK DEF Resume, TypeOK, MaybeTime, Time
  <2>2. mem' \in Memory
    BY <1>0, <1>4 DEF Resume, Memory
  <2> QED BY <1>a, <1>4, <2>1, <2>2 DEF Resume, Issue, TypeOK
<1>5. CASE Disconnect
  <2>1. mem' \in Memory
    BY <1>0, <1>5 DEF Disconnect, Memory
  <2>2. AdminBlock \in MaybeTime
    BY ConstantsOK DEF AdminBlock, TypeOK, MaybeTime, Time
  <2>3. stored' \in Storage
    BY <1>0, <1>5, <2>2 DEF Disconnect, Storage
  <2>4. closing' \subseteq Sessions
    BY <1>5 DEF Disconnect, Listed, TypeOK
  <2> QED BY <1>a, <1>5, <2>1, <2>3, <2>4 DEF Disconnect, Issue, TypeOK
<1>6. CASE Hibernate
  BY <1>6, EmptyRecords DEF Hibernate, TypeOK
<1>7. CASE Crash
  <2>1. alarm' \in MaybeTime
    BY <1>7 DEF Crash, Redelivered, TypeOK, MaybeTime
  <2> QED BY <1>b, <1>7, <2>1, EmptyRecords DEF Crash, TypeOK, MaybeTime
<1>8. CASE LoseClient
  BY <1>8 DEF LoseClient, TypeOK
<1>9. CASE Tick
  BY <1>9 DEF Tick, TypeOK, Time
<1> QED BY <1>1, <1>2, <1>3, <1>4, <1>5, <1>6, <1>7, <1>8, <1>9 DEF Command

\* A handler binds its row before the step that writes it.
LEMMA RowsBoundStep ==
    ASSUME TypeOK, RowsBound, Next
    PROVE  RowsBound'
<1>0. /\ lastId + 1 \in Id /\ now \in Time
      /\ \A t \in Sessions : arg[t] \in ConnArg
      /\ NoJob \in Job
  BY EmptyRecords DEF TypeOK, Id
<1> DEFINE ConnBound(t) == pc[t] \in {"closeOutage", "brief", "upAlert"} =>
                               arg[t].id \in Id /\ arg[t].at \in Time
           JobBound ==
               /\ alarmPc \in {"alert", "dispatch"} => job.alert \in Id /\ job.at \in Time
               /\ alarmPc = "outage" => job.outage \in Id
<1>a. ASSUME NEW m, NEW st, RecordOutage(m, st)
      PROVE  JobBound'
  BY <1>0, <1>a DEF RecordOutage, NoJob
<1>b. ASSUME NEW m, NEW a, AlarmBody(m, a)
      PROVE  JobBound'
  BY <1>0, <1>a, <1>b DEF AlarmBody, GraceEarly, GraceOver, NormalPing, AlarmReturn, NoJob
<1>c. ASSUME NEW m, NEW a, AlarmStart(m, a)
      PROVE  JobBound'
  BY <1>b, <1>c DEF AlarmStart
<1>1. ASSUME NEW s \in Sessions, Connection(s)
      PROVE  RowsBound'
  <2>1. UNCHANGED <<alarmPc, job>>
    BY <1>1 DEF Connection, ConnectAccept, ConnectCloseOutage, ConnectBrief, ConnectUpAlert,
                ConnectSettle, ConnectFails, Message, Drop
  <2>2. \A t \in Sessions \ {s} : pc'[t] = pc[t] /\ arg'[t] = arg[t]
    BY <1>1 DEF TypeOK, Connection, ConnectAccept, ConnectCloseOutage, ConnectBrief,
                ConnectUpAlert, ConnectSettle, ConnectFails, Message, Drop, TriggerUp,
                FinishReconnect
  <2>3. ConnBound(s)'
    <3>1. CASE ConnectAccept(s)
      <4>1. CASE pc' = [pc EXCEPT ![s] = "settle"]
        BY <4>1 DEF TypeOK
      <4>2. CASE arg' = [arg EXCEPT ![s] =
                   [id |-> IF Restored("currentOutageId") # None
                           THEN Restored("currentOutageId") ELSE lastId + 1,
                    start |-> Restored("disconnectedAt"), at |-> now,
                    known |-> Restored("currentOutageId") # None]]
        BY <1>0, <4>2, RestoredType DEF TypeOK, MaybeId
      <4> QED BY <3>1, <4>1, <4>2 DEF ConnectAccept
    <3>2. CASE TriggerUp(s)
      <4>1. CASE FinishReconnect(s)
        BY <4>1 DEF FinishReconnect, TypeOK
      <4>2. CASE arg' = [arg EXCEPT ![s].id = lastId + 1, ![s].at = now]
        <5>1. arg'[s] = [arg[s] EXCEPT !.id = lastId + 1, !.at = now]
          BY <4>2 DEF TypeOK
        <5> QED BY <1>0, <5>1 DEF ConnArg
      <4> QED BY <3>2, <4>1, <4>2 DEF TriggerUp
    <3>3. CASE ConnectUpAlert(s) \/ ConnectSettle(s) \/ ConnectFails(s) \/ Message(s)
                 \/ Drop(s)
      BY <1>0, <3>3 DEF ConnectUpAlert, FinishReconnect, ConnectSettle, ConnectFails,
                       Message, Drop, TypeOK
    <3> QED BY <1>1, <3>1, <3>2, <3>3 DEF Connection, ConnectCloseOutage, ConnectBrief
  <2>4. JobBound'
    BY <2>1 DEF RowsBound
  <2>5. ASSUME NEW t \in Sessions
        PROVE  ConnBound(t)'
    BY <2>2, <2>3 DEF RowsBound
  <2> QED BY <2>4, <2>5 DEF RowsBound
<1>2. CASE AlarmHandler
  <2>1. UNCHANGED <<pc, arg>>
    BY <1>2 DEF AlarmHandler, AlarmFire, AlarmLoaded, AlarmRetry, AlarmAlert, AlarmDispatch,
                AlarmOutage, AlarmPing, AlarmFails
  <2>2. JobBound'
    BY <1>0, <1>2, <1>a, <1>b, <1>c
       DEF AlarmHandler, AlarmFire, AlarmLoaded, AlarmRetry, AlarmReturn, AlarmAlert,
           AlarmDispatch, AlarmOutage, AlarmPing, AlarmFails, RowsBound
  <2> QED BY <2>1, <2>2 DEF RowsBound
<1>3. CASE Crash
  BY <1>3 DEF Crash, RowsBound, TypeOK
<1>4. CASE DropArm \/ DropFails \/ Command \/ Hibernate \/ LoseClient \/ Tick
  BY <1>4 DEF DropArm, DropFails, Command, Pause, Resume, Disconnect, Issue, Hibernate,
              LoseClient, Tick, RowsBound
<1> QED BY <1>1, <1>2, <1>3, <1>4 DEF Next

TypeInv == TypeOK /\ RowsBound

LEMMA TypeInvInit == Init => TypeInv
<1> SUFFICES ASSUME Init
             PROVE  TypeInv
  OBVIOUS
<1>1. stored \in Storage
  BY DEF Init, Storage, MaybeTime, MaybeId
<1>2. /\ 0 \in Time /\ None \in MaybeTime
      /\ commands \in 0..MaxCommands /\ faults \in 0..MaxFaults
  BY ConstantsOK DEF Init, Time, MaybeTime
<1>3. TypeOK
  BY <1>1, <1>2, EmptyRecords DEF Init, TypeOK
<1>4. RowsBound
  BY DEF Init, RowsBound
<1> QED BY <1>3, <1>4 DEF TypeInv

LEMMA TypeInvStep == TypeInv /\ [Next]_vars => TypeInv'
<1> SUFFICES ASSUME TypeInv, [Next]_vars
             PROVE  TypeInv'
  OBVIOUS
<1>1. CASE UNCHANGED vars
  BY <1>1 DEF TypeInv, TypeOK, RowsBound, vars
<1>2. CASE Next
  BY <1>2, ConnectionType, AlarmHandlerType, EnvironmentType, RowsBoundStep
     DEF TypeInv, Next
<1> QED BY <1>1, <1>2

\* Every row and every identifier that is held was handed out.
THEOREM TypeInvAlways == Spec => []TypeInv
BY TypeInvInit, TypeInvStep, PTL DEF Spec

\* Type correctness: every row the object writes is a well-formed row, with
\* an identifier and a time that were bound before the D1 statement that
\* inserts it, whatever interleaves with its handlers.
THEOREM TypeCorrect == Spec => []TypeOK
BY TypeInvAlways, PTL DEF TypeInv

(***************************************************************************)
(* What a step does to the record of a disconnection, which is kept both   *)
(* in memory and in storage.                                               *)
(***************************************************************************)
Reconnecting == {s \in Sessions : pc[s] \in {"closeOutage", "brief", "upAlert"}}

Keeps ==
    /\ mem'.disconnectedAt = mem.disconnectedAt
    /\ stored'.disconnectedAt = stored.disconnectedAt

Restores ==
    /\ mem'.disconnectedAt = Restored("disconnectedAt")
    /\ stored'.disconnectedAt = stored.disconnectedAt

Marks ==
    /\ Restored("disconnectedAt") = None
    /\ mem'.disconnectedAt = now
    /\ stored'.disconnectedAt = now

TakesOver ==
    /\ mem'.disconnectedAt = Restored("disconnectedAt")
    /\ stored'.disconnectedAt = None

Forgets ==
    /\ mem'.disconnectedAt = None
    /\ stored'.disconnectedAt = stored.disconnectedAt

LEMMA AlarmBodyEffect ==
    ASSUME TypeOK, NEW m \in Memory, NEW a, AlarmBody(m, a)
    PROVE  Restores \/ Marks
<1> DEFINE r == [m EXCEPT !.disconnectedAt = Restored("disconnectedAt")]
<1>1. r \in Memory /\ r.disconnectedAt = Restored("disconnectedAt") /\ stored \in Storage
  BY RestoredType DEF Memory, TypeOK
<1> HIDE DEF r
<1>2. CASE GraceEarly(r, a)
  BY <1>1, <1>2 DEF GraceEarly, AlarmReturn, Restores
<1>3. CASE GraceOver(r, a)
  BY <1>1, <1>3 DEF GraceOver, RecordOutage, Restores, Memory, Storage
<1>4. CASE NormalPing(r, a)
  BY <1>1, <1>4 DEF NormalPing, AlarmReturn, Restores, Marks, Memory, Storage
<1> QED BY <1>2, <1>3, <1>4 DEF AlarmBody, r

LEMMA AlarmStartEffect ==
    ASSUME TypeOK, NEW m \in Memory, NEW a, AlarmStart(m, a),
           m.disconnectedAt = mem.disconnectedAt
    PROVE  Keeps \/ Restores \/ Marks
BY AlarmBodyEffect DEF AlarmStart, RetryTaken, Keeps, TypeOK, Storage

LEMMA AlarmHandlerEffect ==
    ASSUME TypeOK, AlarmHandler
    PROVE  /\ Keeps \/ Restores \/ Marks
           /\ UNCHANGED pc
<1>0. mem \in Memory /\ stored \in Storage
  BY DEF TypeOK
<1>1. CASE AlarmFire
  BY <1>0, <1>1, AlarmStartEffect DEF AlarmFire, Keeps
<1>2. CASE AlarmLoaded
  <2>1. /\ [mem EXCEPT !.configLoaded = TRUE] \in Memory
        /\ [mem EXCEPT !.configLoaded = TRUE].disconnectedAt = mem.disconnectedAt
    BY <1>0 DEF Memory
  <2> QED BY <1>2, <2>1, AlarmStartEffect DEF AlarmLoaded
<1>3. CASE AlarmRetry
  BY <1>0, <1>3, AlarmBodyEffect DEF AlarmRetry, AlarmReturn, Keeps
<1>4. CASE AlarmAlert
  BY <1>0, <1>4 DEF AlarmAlert, RecordOutage, Keeps, Memory, Storage
<1>5. CASE AlarmDispatch
  BY <1>0, <1>5 DEF AlarmDispatch, RecordOutage, Keeps, Memory, Storage
<1>6. CASE AlarmOutage \/ AlarmPing \/ AlarmFails
  BY <1>6 DEF AlarmOutage, AlarmPing, AlarmFails, Keeps
<1> QED BY <1>1, <1>2, <1>3, <1>4, <1>5, <1>6 DEF AlarmHandler

LEMMA ConnectionEffect ==
    ASSUME TypeOK, NEW s \in Sessions, Connection(s)
    PROVE  /\ \/ ~Drop(s) /\ pc'[s] \in {"closeOutage", "brief", "upAlert"} /\ (Keeps \/ TakesOver)
              \/ ~Drop(s) /\ pc'[s] = "settle"
                    /\ (Forgets \/ (Restored("disconnectedAt") = None /\ Restores))
              \/ ~Drop(s) /\ pc[s] \in {"settle", "open"} /\ pc'[s] = "open" /\ Keeps
              \/ ConnectFails(s) /\ pc'[s] = "failed" /\ Keeps
              \/ Drop(s) /\ pc'[s] = "gone" /\ Remaining(s) # {} /\ Keeps
              \/ Drop(s) /\ pc'[s] = "gone" /\ Restored("disconnectedAt") # None /\ Restores
              \/ Drop(s) /\ pc'[s] = "gone" /\ Marks
           /\ \A t \in Sessions \ {s} : pc'[t] = pc[t]
<1>0. mem \in Memory /\ stored \in Storage
      /\ \A v : [pc EXCEPT ![s] = v][s] = v
  BY DEF TypeOK
<1>o. \A t \in Sessions \ {s} : pc'[t] = pc[t]
  BY DEF TypeOK, Connection, ConnectAccept, ConnectCloseOutage, ConnectBrief,
         ConnectUpAlert, ConnectSettle, ConnectFails, Message, Drop, TriggerUp,
         FinishReconnect
<1>a. ASSUME FinishReconnect(s), UNCHANGED stored
      PROVE  pc'[s] = "settle" /\ Forgets
  BY <1>0, <1>a DEF FinishReconnect, Forgets, Memory
<1>b. ASSUME TriggerUp(s), UNCHANGED stored
      PROVE  \/ pc'[s] = "upAlert" /\ Keeps
             \/ pc'[s] = "settle" /\ Forgets
  BY <1>0, <1>a, <1>b DEF TriggerUp, Keeps, Memory
<1>1. CASE Drop(s)
  BY <1>0, <1>o, <1>1 DEF Drop, Keeps, Restores, Marks, Memory, Storage
<1>2. CASE ~Drop(s)
  <2>1. CASE ConnectAccept(s)
    BY <1>0, <1>o, <1>2, <2>1 DEF ConnectAccept, Restores, TakesOver, Memory, Storage
  <2>2. CASE ConnectCloseOutage(s) \/ ConnectBrief(s)
    BY <1>o, <1>b, <1>2, <2>2 DEF ConnectCloseOutage, ConnectBrief
  <2>3. CASE ConnectUpAlert(s)
    BY <1>o, <1>a, <1>2, <2>3 DEF ConnectUpAlert
  <2>4. CASE ConnectSettle(s)
    BY <1>0, <1>o, <1>2, <2>4 DEF ConnectSettle, Keeps, Memory, Storage
  <2>5. CASE ConnectFails(s)
    BY <1>0, <1>o, <2>5 DEF ConnectFails, Keeps
  <2>6. CASE Message(s)
    BY <1>0, <1>o, <1>2, <2>6 DEF Message, Keeps, Memory, Storage
  <2> QED BY <1>2, <2>1, <2>2, <2>3, <2>4, <2>5, <2>6 DEF Connection
<1> QED BY <1>1, <1>2

LEMMA EnvironmentEffect ==
    ASSUME TypeOK, DropArm \/ DropFails \/ Command \/ LoseClient \/ Tick
    PROVE  Keeps /\ UNCHANGED pc
BY DEF TypeOK, Memory, Storage, Keeps, DropArm, DropFails, Command, Pause, Resume,
       Disconnect, Issue, LoseClient, Tick

\* The two records of a disconnection never disagree: what makes it
\* irrelevant which of the two a handler reads.
Agreement ==
    (mem.disconnectedAt # None /\ stored.disconnectedAt # None)
        => mem.disconnectedAt = stored.disconnectedAt

LEMMA AgreementStep ==
    ASSUME TypeOK, Agreement, [Next]_vars
    PROVE  /\ Agreement'
           /\ (Disconnected /\ Disconnected') => DisconnectedAt' = DisconnectedAt
<1> USE DEF Agreement, Disconnected, DisconnectedAt
<1>1. ASSUME Keeps \/ Restores \/ Marks \/ TakesOver \/ Forgets
      PROVE  /\ Agreement'
             /\ (Disconnected /\ Disconnected') => DisconnectedAt' = DisconnectedAt
  BY <1>1 DEF Keeps, Restores, Marks, TakesOver, Forgets, Restored
<1>2. CASE Hibernate \/ Crash
  BY <1>1, <1>2 DEF Hibernate, Crash, FreshMemory, Forgets
<1>3. CASE \E s \in Sessions : Connection(s)
  BY <1>1, <1>3, ConnectionEffect
<1>4. CASE AlarmHandler
  BY <1>1, <1>4, AlarmHandlerEffect
<1>5. CASE DropArm \/ DropFails \/ Command \/ LoseClient \/ Tick
  BY <1>1, <1>5, EnvironmentEffect
<1>6. CASE UNCHANGED vars
  BY <1>1, <1>6 DEF vars, Keeps
<1> QED BY <1>2, <1>3, <1>4, <1>5, <1>6 DEF Next

\* A disconnection keeps its time: whichever handlers interleave, and
\* through hibernation, crashes and failed D1 statements, a later close never
\* restarts the grace period of a client that is already disconnected.
THEOREM GraceTimerIsKept == Spec => GraceTimerKept
<1>1. Init => Agreement
  BY DEF Init, Agreement, FreshMemory
<1>2. TypeInv /\ Agreement /\ [Next]_vars => Agreement'
  BY AgreementStep DEF TypeInv
<1>3. TypeInv /\ Agreement /\ [Next]_vars =>
        [(Disconnected /\ Disconnected') => DisconnectedAt' = DisconnectedAt]_vars
  BY AgreementStep DEF TypeInv
<1> QED BY <1>1, <1>2, <1>3, TypeInvAlways, PTL DEF Spec, GraceTimerKept

(***************************************************************************)
(* A loss is noticed.  While no handler is reconnecting, what memory knows *)
(* of a disconnection is in storage too, so hibernation cannot lose it; a  *)
(* handler that is reconnecting keeps its own socket listed.  A reconnect  *)
(* that is cut short breaks this, hence the assumption.                    *)
(***************************************************************************)
LossInv ==
    /\ (mem.disconnectedAt # None /\ Reconnecting = {}) => stored.disconnectedAt # None
    /\ LossNoticed

LEMMA LossInvStep ==
    ASSUME TypeOK, LossInv, [Next]_vars, "d1" \notin Faults, "crash" \notin Faults
    PROVE  LossInv'
<1>1. ASSUME UNCHANGED pc, Keeps \/ Restores \/ Marks, TypeOK
      PROVE  LossInv'
  BY <1>1 DEF LossInv, LossNoticed, Listed, Disconnected, Reconnecting, Keeps, Restores,
              Marks, Restored, None, TypeOK, Time
<1>2. CASE AlarmHandler
  BY <1>1, <1>2, AlarmHandlerEffect
<1>3. CASE DropArm \/ DropFails \/ Command \/ LoseClient \/ Tick
  BY <1>1, <1>3, EnvironmentEffect
<1>4. CASE UNCHANGED vars
  BY <1>1, <1>4 DEF vars, Keeps
<1>5. CASE Hibernate
  <2>1. Reconnecting = {}
    BY <1>5 DEF Hibernate, Idle, Connecting, Reconnecting
  <2> QED BY <1>5, <2>1 DEF Hibernate, LossInv, LossNoticed, Listed, Disconnected,
                            FreshMemory
<1>6. CASE Crash
  BY <1>6 DEF Crash, Fault
<1>7. ASSUME NEW s \in Sessions, Connection(s)
      PROVE  LossInv'
  <2>1. /\ ~ConnectFails(s)
        /\ \A t \in Sessions \ {s} : pc'[t] = pc[t]
    BY <1>7, ConnectionEffect DEF ConnectFails, Fault
  <2>2. CASE pc'[s] \in {"closeOutage", "brief", "upAlert"}
    BY <2>2 DEF LossInv, LossNoticed, Listed, Reconnecting
  <2>3. CASE pc'[s] = "settle" /\ Forgets
    BY <2>3 DEF LossInv, LossNoticed, Listed, Forgets
  <2>4. CASE /\ pc'[s] = "settle"
             /\ Restored("disconnectedAt") = None /\ Restores
    BY <2>4 DEF LossInv, LossNoticed, Listed, Restores
  <2>a. ASSUME pc[s] \notin {"closeOutage", "brief", "upAlert"}, Reconnecting' = {}
        PROVE  Reconnecting = {}
    BY <2>1, <2>a DEF Reconnecting
  <2>b. CASE pc[s] \in {"settle", "open"} /\ pc'[s] = "open" /\ Keeps
    BY <2>a, <2>b DEF LossInv, LossNoticed, Listed, Keeps
  <2>5. CASE Drop(s) /\ pc'[s] = "gone" /\ Remaining(s) # {} /\ Keeps
    <3>1. Listed' # {}
      BY <2>1, <2>5 DEF Remaining, Listed
    <3>2. pc[s] \notin {"closeOutage", "brief", "upAlert"}
      BY <2>5 DEF Drop
    <3> QED BY <2>a, <2>5, <3>1, <3>2 DEF LossInv, LossNoticed, Keeps
  <2>6. CASE /\ Drop(s) /\ pc'[s] = "gone"
             /\ Restored("disconnectedAt") # None /\ Restores
    <3>1. mem'.disconnectedAt # None /\ Disconnected'
      BY <2>6 DEF Restores, Disconnected
    <3>2. pc[s] \notin {"closeOutage", "brief", "upAlert"}
      BY <2>6 DEF Drop
    <3> QED BY <2>a, <2>6, <3>1, <3>2 DEF LossInv, LossNoticed, Restores, Restored
  <2>7. CASE Drop(s) /\ pc'[s] = "gone" /\ Marks
    BY <2>7 DEF LossInv, LossNoticed, Disconnected, Marks, None, TypeOK, Time
  <2> QED BY <1>7, <2>1, <2>2, <2>3, <2>4, <2>b, <2>5, <2>6, <2>7, ConnectionEffect
<1> QED BY <1>2, <1>3, <1>4, <1>5, <1>6, <1>7 DEF Next

\* Unless a D1 statement fails or the object is restarted, a client whose
\* last socket is gone is marked as disconnected, for any number of sockets
\* and through hibernation.
THEOREM LossIsNoticed ==
    ASSUME "d1" \notin Faults, "crash" \notin Faults
    PROVE  Spec => []LossNoticed
<1>1. Init => LossInv
  BY DEF Init, LossInv, LossNoticed, Listed, FreshMemory
<1>2. TypeInv /\ LossInv /\ [Next]_vars => LossInv'
  BY LossInvStep DEF TypeInv
<1>3. LossInv => LossNoticed
  BY DEF LossInv
<1> QED BY <1>1, <1>2, <1>3, TypeInvAlways, PTL DEF Spec

(***************************************************************************)
(* Alerts of one type are a cooldown apart, as long as the object stays in *)
(* memory.  Raised holds the alerts that have been decided on, written or  *)
(* not; lastAlertTimes is never older than any of them that was raised     *)
(* since the memory was last lost.                                         *)
(***************************************************************************)
Written == {[id |-> a.id, type |-> a.type, at |-> a.at] : a \in alerts}

UpPending == {[id |-> arg[s].id, type |-> "client_up", at |-> arg[s].at]
                : s \in {t \in Sessions : pc[t] = "upAlert"}}

DownPending ==
    IF alarmPc = "alert"
    THEN {[id |-> job.alert, type |-> "client_down", at |-> job.at]} ELSE {}

Raised == Written \cup UpPending \cup DownPending

Recent == {r \in Raised : r.id > forgotten}

SpacedInv ==
    /\ \A r \in Raised : r.id <= lastId
    /\ \A r \in Recent : /\ mem.lastAlertTimes[r.type] # None
                         /\ r.at <= mem.lastAlertTimes[r.type]
    /\ \A r, q \in Recent : r.type = q.type /\ r.id # q.id =>
            r.at - q.at >= Cooldown \/ q.at - r.at >= Cooldown

\* A step raises nothing, or one alert whose type is not cooling down.
RaisesNothing ==
    /\ Raised' \subseteq Raised
    /\ mem'.lastAlertTimes = mem.lastAlertTimes

Raises(type) ==
    /\ ~CoolingDown(mem, type)
    /\ mem'.lastAlertTimes = [mem.lastAlertTimes EXCEPT ![type] = now]
    /\ Raised' \subseteq Raised \cup {[id |-> lastId', type |-> type, at |-> now]}

\* Identifiers are handed out in order, and memory is lost only by Hibernate
\* and Crash.
IdsGrow == lastId' \in Nat /\ lastId <= lastId'

LEMMA IdsGrowStep ==
    ASSUME TypeInv, [Next]_vars
    PROVE  IdsGrow
<1> lastId \in Nat
  BY DEF TypeInv, TypeOK
<1>1. lastId' \in {lastId, lastId + 1}
  <2>1. ASSUME NEW s \in Sessions, Connection(s)
        PROVE  lastId' \in {lastId, lastId + 1}
    BY <2>1 DEF Connection, ConnectAccept, ConnectCloseOutage, ConnectBrief, ConnectUpAlert,
                TriggerUp, ConnectSettle, ConnectFails, Message, Drop
  <2>2. ASSUME NEW m, NEW a, AlarmBody(m, a)
        PROVE  lastId' \in {lastId, lastId + 1}
    BY <2>2 DEF AlarmBody, GraceEarly, GraceOver, NormalPing, AlarmReturn, RecordOutage
  <2>3. CASE AlarmHandler
    BY <2>2, <2>3 DEF AlarmHandler, AlarmFire, AlarmLoaded, AlarmStart, AlarmRetry,
                      AlarmReturn, AlarmAlert, AlarmDispatch, RecordOutage, AlarmOutage,
                      AlarmPing, AlarmFails
  <2>4. CASE \/ DropArm \/ DropFails \/ Command \/ Hibernate \/ Crash \/ LoseClient \/ Tick
             \/ UNCHANGED vars
    BY <2>4 DEF DropArm, DropFails, Command, Pause, Resume, Disconnect, Issue, Hibernate,
                Crash, LoseClient, Tick, vars
  <2> QED BY <2>1, <2>3, <2>4 DEF Next
<1> QED BY <1>1 DEF IdsGrow

LEMMA RaisedType ==
    ASSUME TypeInv
    PROVE  \A r \in Raised : r.id \in Id /\ r.type \in AlertTypes /\ r.at \in Time
<1>1. \A r \in Written : r.id \in Id /\ r.type \in AlertTypes /\ r.at \in Time
  BY DEF TypeInv, TypeOK, Written, Alert
<1>2. \A r \in UpPending : r.id \in Id /\ r.type \in AlertTypes /\ r.at \in Time
  BY DEF TypeInv, RowsBound, UpPending, AlertTypes
<1>3. \A r \in DownPending : r.id \in Id /\ r.type \in AlertTypes /\ r.at \in Time
  BY DEF TypeInv, RowsBound, DownPending, AlertTypes
<1> QED BY <1>1, <1>2, <1>3 DEF Raised

LEMMA SpacedByEffect ==
    ASSUME TypeInv, SpacedInv, IdsGrow, forgotten' = forgotten,
           RaisesNothing \/ \E type \in AlertTypes : Raises(type)
    PROVE  SpacedInv'
<1>0. /\ lastId \in Nat /\ lastId' \in Nat /\ lastId <= lastId' /\ forgotten \in Nat
      /\ \A r \in Raised : r.id \in Nat /\ r.type \in AlertTypes /\ r.at \in Nat
  BY RaisedType DEF IdsGrow, TypeInv, TypeOK, Id, Time
<1>1. CASE RaisesNothing
  <2>1. Raised' \subseteq Raised /\ Recent' \subseteq Recent
    BY <1>1 DEF RaisesNothing, Recent
  <2> QED BY <1>0, <1>1, <2>1 DEF SpacedInv, RaisesNothing
<1>2. ASSUME NEW type \in AlertTypes, Raises(type)
      PROVE  SpacedInv'
  <2> DEFINE new == [id |-> lastId', type |-> type, at |-> now]
  <2>1. Raised' \subseteq Raised \cup {new} /\ Recent' \subseteq Recent \cup {new}
    BY <1>2 DEF Raises, Recent
  <2>2. /\ now \in Nat /\ Cooldown \in Nat
        /\ mem.lastAlertTimes \in [AlertTypes -> MaybeTime]
        /\ \A r \in Recent : r.type \in AlertTypes /\ r.at \in Nat
    BY <1>0, ConstantsOK DEF TypeInv, TypeOK, Memory, Time, Recent
  <2>3. ASSUME NEW r \in Recent, r.type = type
        PROVE  now - r.at >= Cooldown /\ r.at <= now
    <3>1. /\ mem.lastAlertTimes[type] \in Nat
          /\ r.at <= mem.lastAlertTimes[type]
          /\ now - mem.lastAlertTimes[type] >= Cooldown
      BY <1>2, <2>2, <2>3 DEF Raises, CoolingDown, SpacedInv, MaybeTime, Time
    <3> QED BY <2>2, <3>1
  <2>4. ASSUME NEW r \in Recent'
        PROVE  mem'.lastAlertTimes[r.type] # None /\ r.at <= mem'.lastAlertTimes[r.type]
    <3>1. CASE r = new
      BY <1>2, <2>2, <3>1 DEF Raises, None, Time
    <3>2. CASE r \in Recent /\ r.type = type
      BY <1>2, <2>2, <2>3, <3>2 DEF Raises, None, Time
    <3>3. CASE r \in Recent /\ r.type # type
      BY <1>2, <2>2, <3>3 DEF Raises, SpacedInv
    <3> QED BY <2>1, <2>4, <3>1, <3>2, <3>3
  <2>5. ASSUME NEW r \in Recent', NEW q \in Recent', r.type = q.type, r.id # q.id
        PROVE  r.at - q.at >= Cooldown \/ q.at - r.at >= Cooldown
    <3>1. CASE r \in Recent /\ q \in Recent
      BY <2>5, <3>1 DEF SpacedInv
    <3>2. CASE r = new /\ q \in Recent
      BY <2>3, <2>5, <3>2
    <3>3. CASE q = new /\ r \in Recent
      BY <2>3, <2>5, <3>3
    <3> QED BY <2>1, <2>5, <3>1, <3>2, <3>3
  <2>6. \A r \in Raised' : r.id <= lastId'
    BY <1>0, <2>1 DEF SpacedInv
  <2> QED BY <2>4, <2>5, <2>6 DEF SpacedInv
<1> QED BY <1>1, <1>2

\* When the memory is lost nothing is pending, and everything written is
\* known to be older.
LEMMA SpacedByLoss ==
    ASSUME TypeInv, SpacedInv, Hibernate \/ Crash
    PROVE  SpacedInv'
<1>1. Raised' \subseteq Raised /\ lastId' = lastId /\ forgotten' = lastId
  BY DEF Hibernate, Crash, Raised, Written, UpPending, DownPending, TypeInv, TypeOK
<1>2. \A r \in Raised' : r.id <= lastId' /\ ~(r.id > forgotten')
  <2>1. lastId \in Nat /\ \A r \in Raised : r.id \in Nat
    BY RaisedType DEF TypeInv, TypeOK, Id
  <2> QED BY <1>1, <2>1 DEF SpacedInv
<1>3. Recent' = {}
  BY <1>2 DEF Recent
<1> QED BY <1>2, <1>3 DEF SpacedInv

\* The alarm handler raises client_down, and only once it has checked the
\* cooldown.
DownEffect ==
    \/ /\ DownPending' = {}
       /\ mem'.lastAlertTimes = mem.lastAlertTimes
    \/ /\ ~CoolingDown(mem, "client_down")
       /\ mem'.lastAlertTimes = [mem.lastAlertTimes EXCEPT !["client_down"] = now]
       /\ DownPending' = {[id |-> lastId', type |-> "client_down", at |-> now]}

LEMMA AlarmBodyRaises ==
    ASSUME TypeInv, NEW m \in Memory, NEW a, AlarmBody(m, a),
           m.lastAlertTimes = mem.lastAlertTimes
    PROVE  DownEffect
<1> DEFINE r == [m EXCEPT !.disconnectedAt = Restored("disconnectedAt")]
<1>1. /\ r \in Memory /\ r.lastAlertTimes = mem.lastAlertTimes
      /\ NoJob \in Job
  BY RestoredType, EmptyRecords DEF Memory, TypeInv
<1> HIDE DEF r
<1>2. CASE GraceEarly(r, a)
  BY <1>1, <1>2 DEF GraceEarly, AlarmReturn, DownEffect, DownPending
<1>3. CASE GraceOver(r, a)
  <2>1. CASE RecordOutage(r, stored)
    BY <1>1, <2>1 DEF RecordOutage, DownEffect, DownPending, Memory
  <2>2. CASE /\ ~CoolingDown(r, "client_down")
             /\ mem' = [r EXCEPT !.lastAlertTimes["client_down"] = now]
             /\ job' = [NoJob EXCEPT !.alert = lastId + 1, !.at = now]
             /\ lastId' = lastId + 1
             /\ alarmPc' = "alert"
    <3>1. ~CoolingDown(mem, "client_down")
      BY <1>1, <2>2 DEF CoolingDown
    <3>2. mem'.lastAlertTimes = [mem.lastAlertTimes EXCEPT !["client_down"] = now]
      BY <1>1, <2>2 DEF Memory
    <3>3. job'.alert = lastId' /\ job'.at = now
      BY <1>1, <2>2 DEF NoJob
    <3> QED BY <2>2, <3>1, <3>2, <3>3 DEF DownEffect, DownPending
  <2> QED BY <1>3, <2>1, <2>2 DEF GraceOver
<1>4. CASE NormalPing(r, a)
  BY <1>1, <1>4 DEF NormalPing, AlarmReturn, DownEffect, DownPending, Memory
<1> QED BY <1>2, <1>3, <1>4 DEF AlarmBody, r

LEMMA AlarmStartRaises ==
    ASSUME TypeInv, NEW m \in Memory, NEW a, AlarmStart(m, a),
           m.lastAlertTimes = mem.lastAlertTimes
    PROVE  DownEffect
BY AlarmBodyRaises DEF AlarmStart, DownEffect, DownPending

\* Sending an alert again does not change which alerts there are.
LEMMA WrittenKept ==
    ASSUME TypeInv, NEW id, NEW outcome, alerts' = Redeliver(alerts, id, outcome)
    PROVE  Written' = Written
<1> DEFINE Sent(a) == IF a.id = id
                      THEN [a EXCEPT !.delivered = IF outcome = 0 THEN @ ELSE outcome,
                                     !.attempts = @ + 1]
                      ELSE a
           Key(a) == [id |-> a.id, type |-> a.type, at |-> a.at]
<1>1. ASSUME NEW a \in alerts
      PROVE  Key(Sent(a)) = Key(a)
  <2>1. a \in Alert
    BY DEF TypeInv, TypeOK
  <2>2. ASSUME NEW d, NEW n
        PROVE  LET b == [a EXCEPT !.delivered = d, !.attempts = n]
               IN  b.id = a.id /\ b.type = a.type /\ b.at = a.at
    BY <2>1 DEF Alert
  <2> QED BY <2>2
<1>2. alerts' = {Sent(a) : a \in alerts}
  BY DEF Redeliver
<1> HIDE DEF Sent
<1>3. Written' = {Key(a) : a \in alerts'} /\ Written = {Key(a) : a \in alerts}
  BY DEF Written
<1> HIDE DEF Key
<1> QED BY <1>1, <1>2, <1>3

LEMMA RaisedByDownEffect ==
    ASSUME DownEffect, Written' = Written, UpPending' = UpPending
    PROVE  RaisesNothing \/ Raises("client_down")
BY DEF DownEffect, Raised, RaisesNothing, Raises

LEMMA AlarmHandlerRaises ==
    ASSUME TypeInv, AlarmHandler
    PROVE  RaisesNothing \/ Raises("client_down")
<1>0. mem \in Memory /\ TypeOK
  BY DEF TypeInv, TypeOK
<1>1. UpPending' = UpPending
  BY DEF UpPending, AlarmHandler, AlarmFire, AlarmLoaded, AlarmRetry, AlarmAlert,
         AlarmDispatch, AlarmOutage, AlarmPing, AlarmFails
<1>2. CASE AlarmFire
  <2>1. DownEffect
    BY <1>0, <1>2, AlarmStartRaises DEF AlarmFire, DownEffect, DownPending
  <2> QED BY <1>1, <1>2, <2>1, RaisedByDownEffect DEF AlarmFire, Written
<1>3. CASE AlarmLoaded
  <2>1. /\ [mem EXCEPT !.configLoaded = TRUE] \in Memory
        /\ [mem EXCEPT !.configLoaded = TRUE].lastAlertTimes = mem.lastAlertTimes
    BY <1>0 DEF Memory
  <2> QED BY <1>1, <1>3, <2>1, AlarmStartRaises, RaisedByDownEffect DEF AlarmLoaded, Written
<1>4. CASE AlarmRetry
  <2>1. DownEffect
    BY <1>0, <1>4, AlarmBodyRaises DEF AlarmRetry, AlarmReturn, DownEffect, DownPending
  <2> QED BY <1>1, <1>4, <2>1, WrittenKept, RaisedByDownEffect DEF AlarmRetry
<1>5. CASE AlarmAlert
  <2>1. Written' = Written \cup DownPending /\ DownPending' = {}
    <3>1. DownPending' = {}
      BY <1>5 DEF AlarmAlert, DownPending, RecordOutage
    <3> DEFINE row == [id |-> job.alert, type |-> "client_down", at |-> job.at,
                       delivered |-> 0, attempts |-> 0]
               Key(a) == [id |-> a.id, type |-> a.type, at |-> a.at]
    <3>2. alerts' = alerts \cup {row} /\ DownPending = {Key(row)}
      BY <1>5 DEF AlarmAlert, DownPending
    <3>3. Written' = {Key(a) : a \in alerts'} /\ Written = {Key(a) : a \in alerts}
      BY DEF Written
    <3> HIDE DEF Key, row
    <3> QED BY <3>1, <3>2, <3>3
  <2>2. mem'.lastAlertTimes = mem.lastAlertTimes
    BY <1>0, <1>5 DEF AlarmAlert, RecordOutage, Memory
  <2> QED BY <1>1, <2>1, <2>2 DEF Raised, RaisesNothing
<1>6. CASE AlarmDispatch
  <2>1. Written' = Written /\ DownPending' = {}
    BY <1>6, WrittenKept DEF AlarmDispatch, DownPending, RecordOutage
  <2>2. mem'.lastAlertTimes = mem.lastAlertTimes
    BY <1>0, <1>6 DEF AlarmDispatch, RecordOutage, Memory
  <2> QED BY <1>1, <2>1, <2>2 DEF Raised, RaisesNothing
<1>7. CASE AlarmOutage \/ AlarmPing \/ AlarmFails
  BY <1>1, <1>7 DEF AlarmOutage, AlarmPing, AlarmFails, Raised, Written, DownPending,
                    RaisesNothing
<1> QED BY <1>2, <1>3, <1>4, <1>5, <1>6, <1>7 DEF AlarmHandler

\* A reconnection raises client_up, checking the cooldown of its own type.
LEMMA ConnectionRaises ==
    ASSUME TypeInv, NEW s \in Sessions, Connection(s)
    PROVE  RaisesNothing \/ Raises("client_up")
<1> DEFINE Up(t) == [id |-> arg[t].id, type |-> "client_up", at |-> arg[t].at]
<1>0. /\ mem \in Memory /\ TypeOK
      /\ DownPending' = DownPending
      /\ \A t \in Sessions \ {s} : pc'[t] = pc[t] /\ arg'[t] = arg[t]
  BY DEF TypeInv, TypeOK, DownPending, Connection, ConnectAccept, ConnectCloseOutage,
         ConnectBrief, ConnectUpAlert, ConnectSettle, ConnectFails, Message, Drop,
         TriggerUp, FinishReconnect
<1>a. UpPending' \subseteq UpPending \cup
          (IF pc'[s] = "upAlert" THEN {Up(s)'} ELSE {})
  BY <1>0 DEF UpPending
<1>b. ASSUME Written' = Written, pc'[s] # "upAlert",
             mem'.lastAlertTimes = mem.lastAlertTimes
      PROVE  RaisesNothing
  BY <1>0, <1>a, <1>b DEF Raised, RaisesNothing
<1>c. ASSUME FinishReconnect(s)
      PROVE  pc'[s] # "upAlert" /\ mem'.lastAlertTimes = mem.lastAlertTimes
  BY <1>0, <1>c DEF FinishReconnect, Memory, TypeOK
<1>1. ASSUME TriggerUp(s), Written' = Written
      PROVE  RaisesNothing \/ Raises("client_up")
  <2>1. CASE FinishReconnect(s)
    BY <1>1, <1>b, <1>c, <2>1
  <2>2. CASE /\ ~CoolingDown(mem, "client_up")
             /\ mem' = [mem EXCEPT !.lastAlertTimes["client_up"] = now]
             /\ pc' = [pc EXCEPT ![s] = "upAlert"]
             /\ arg' = [arg EXCEPT ![s].id = lastId + 1, ![s].at = now]
             /\ lastId' = lastId + 1
    <3>1. mem'.lastAlertTimes = [mem.lastAlertTimes EXCEPT !["client_up"] = now]
      BY <1>0, <2>2 DEF Memory
    <3>2. arg'[s] = [arg[s] EXCEPT !.id = lastId + 1, !.at = now]
      BY <1>0, <2>2 DEF TypeOK
    <3>3. arg'[s].id = lastId' /\ arg'[s].at = now
      BY <1>0, <2>2, <3>2 DEF TypeOK, ConnArg
    <3>4. Raised' \subseteq Raised \cup
            {[id |-> lastId', type |-> "client_up", at |-> now]}
      BY <1>0, <1>1, <1>a, <3>3 DEF Raised
    <3> QED BY <2>2, <3>1, <3>4 DEF Raises
  <2> QED BY <1>1, <2>1, <2>2 DEF TriggerUp
<1>2. CASE ConnectCloseOutage(s) \/ ConnectBrief(s)
  BY <1>1, <1>2 DEF ConnectCloseOutage, ConnectBrief, Written
<1>3. CASE ConnectUpAlert(s)
  <2> DEFINE Key(a) == [id |-> a.id, type |-> a.type, at |-> a.at]
  <2>1. PICK row : /\ alerts' = alerts \cup {row}
                   /\ row.id = arg[s].id /\ row.type = "client_up" /\ row.at = arg[s].at
    <3>1. PICK outcome \in (IF Notifications THEN Outcomes ELSE {0}) :
            alerts' = alerts \cup
              {[id |-> arg[s].id, type |-> "client_up", at |-> arg[s].at,
                delivered |-> outcome, attempts |-> IF Notifications THEN 1 ELSE 0]}
      BY <1>3 DEF ConnectUpAlert
    <3> WITNESS [id |-> arg[s].id, type |-> "client_up", at |-> arg[s].at,
                 delivered |-> outcome, attempts |-> IF Notifications THEN 1 ELSE 0]
    <3> QED BY <3>1
  <2>2. Written' = {Key(a) : a \in alerts'} /\ Written = {Key(a) : a \in alerts}
    BY DEF Written
  <2>3. Key(row) = Up(s) /\ Up(s) \in UpPending
    BY <1>3, <2>1 DEF ConnectUpAlert, UpPending
  <2> HIDE DEF Key
  <2>4. Written' \subseteq Written \cup UpPending
    BY <2>1, <2>2, <2>3
  <2>5. UpPending' \subseteq UpPending /\ mem'.lastAlertTimes = mem.lastAlertTimes
    BY <1>3, <1>a, <1>c DEF ConnectUpAlert
  <2> QED BY <1>0, <2>4, <2>5 DEF Raised, RaisesNothing
<1>4. CASE ConnectAccept(s) \/ ConnectSettle(s) \/ ConnectFails(s) \/ Message(s) \/ Drop(s)
  <2>1. /\ Written' = Written
        /\ pc'[s] # "upAlert"
    BY <1>0, <1>4 DEF Written, TypeOK, ConnectAccept, ConnectSettle, ConnectFails, Message,
                      Drop
  <2>2. mem'.lastAlertTimes = mem.lastAlertTimes
    BY <1>0, <1>4 DEF Memory, ConnectAccept, ConnectSettle, ConnectFails, Message, Drop
  <2> QED BY <1>b, <2>1, <2>2
<1> QED BY <1>2, <1>3, <1>4 DEF Connection

LEMMA SpacedInvStep ==
    ASSUME TypeInv, SpacedInv, [Next]_vars
    PROVE  SpacedInv'
<1>0. IdsGrow
  BY IdsGrowStep
<1>1. ASSUME NEW s \in Sessions, Connection(s)
      PROVE  SpacedInv'
  <2>1. forgotten' = forgotten
    BY <1>1 DEF Connection, ConnectAccept, ConnectCloseOutage, ConnectBrief, ConnectUpAlert,
                ConnectSettle, ConnectFails, Message, Drop
  <2> QED BY <1>0, <1>1, <2>1, ConnectionRaises, SpacedByEffect DEF AlertTypes
<1>2. CASE AlarmHandler
  <2>1. forgotten' = forgotten
    BY <1>2 DEF AlarmHandler, AlarmFire, AlarmLoaded, AlarmRetry, AlarmAlert, AlarmDispatch,
                AlarmOutage, AlarmPing, AlarmFails
  <2> QED BY <1>0, <1>2, <2>1, AlarmHandlerRaises, SpacedByEffect DEF AlertTypes
<1>3. CASE DropArm \/ DropFails \/ Command \/ LoseClient \/ Tick \/ UNCHANGED vars
  <2>1. UNCHANGED <<alerts, pc, arg, alarmPc, job, forgotten>>
    BY <1>3 DEF DropArm, DropFails, Command, Pause, Resume, Disconnect, Issue, LoseClient,
                Tick, vars
  <2>2. mem'.lastAlertTimes = mem.lastAlertTimes
    BY <1>3 DEF DropArm, DropFails, Command, Pause, Resume, Disconnect, Issue, LoseClient,
                Tick, vars, TypeInv, TypeOK, Memory
  <2>3. RaisesNothing
    BY <2>1, <2>2 DEF RaisesNothing, Raised, Written, UpPending, DownPending
  <2> QED BY <1>0, <2>1, <2>3, SpacedByEffect
<1>4. CASE Hibernate \/ Crash
  BY <1>4, SpacedByLoss
<1> QED BY <1>1, <1>2, <1>3, <1>4 DEF Next

\* As long as the object stays in memory, two alerts of one type are the
\* cooldown apart, although several reconnections and the alarm handler may
\* be between deciding on an alert and writing it.
THEOREM AlertsAreSpaced == Spec => []AlertsSpaced
<1>1. Init => SpacedInv
  BY DEF Init, SpacedInv, Recent, Raised, Written, UpPending, DownPending
<1>2. TypeInv /\ SpacedInv /\ [Next]_vars => SpacedInv'
  BY SpacedInvStep
<1>3. SpacedInv => AlertsSpaced
  <2> SUFFICES ASSUME SpacedInv, NEW a \in alerts, NEW b \in alerts,
                      a.id > forgotten, b.id > forgotten, a.type = b.type, a.id # b.id
               PROVE  a.at - b.at >= Cooldown \/ b.at - a.at >= Cooldown
    BY DEF AlertsSpaced
  <2> DEFINE Key(x) == [id |-> x.id, type |-> x.type, at |-> x.at]
  <2>1. Key(a) \in Recent /\ Key(b) \in Recent
    BY DEF Recent, Raised, Written
  <2>2. Key(a).at - Key(b).at >= Cooldown \/ Key(b).at - Key(a).at >= Cooldown
    BY <2>1 DEF SpacedInv
  <2> QED BY <2>2
<1> QED BY <1>1, <1>2, <1>3, TypeInvAlways, PTL DEF Spec

(***************************************************************************)
(* A loss is recorded.  The one alarm of the object is contended for by    *)
(* pings, grace periods and retries.  When alarms and handlers are prompt, *)
(* a marked disconnection that has no name or no row in the outages table  *)
(* is always on its way to both: the alarm is set for the end of its grace *)
(* period or, by a ping that was under way, for no earlier; or the handler *)
(* that sets the alarm or writes the row is running.  The assumptions      *)
(* exclude what breaks this in the code: a ping that sets an earlier       *)
(* alarm, a retry that puts back an earlier one, an admin who sets it at   *)
(* will, and a handler that does not finish.                               *)
(***************************************************************************)
Prompt ==
    /\ {"alarm", "handlers"} \subseteq Timely
    /\ Faults \cap {"crash", "d1", "send"} = {}
    /\ "resume" \notin Commands
    /\ Grace <= PingInterval

MarkedAt == stored.disconnectedAt
Recorded ==
    /\ \E o \in outages : o.start = MarkedAt
    /\ stored.currentOutageId # None

\* What prompt handlers make of the times: nothing that is under way is older
\* than the current tick.
TimerInv ==
    /\ alarm # None => now <= alarm
    /\ dropAt # None => dropAt = now
    /\ stored.pendingRetry = NoRetry /\ alarmPc # "retry"
    /\ MarkedAt # None => MarkedAt <= now
    /\ (MarkedAt # None /\ (Reconnecting # {} \/ alarmPc = "ping" \/ dropAt # None))
            => MarkedAt = now

AlarmAhead ==
    /\ alarm # None
    /\ MarkedAt + Grace <= alarm
    /\ alarm <= MarkedAt + Grace \/ alarm <= MarkedAt + PingInterval

OnItsWay ==
    \/ AlarmAhead
    \/ dropAt # None
    \/ alarmPc = "load" /\ MarkedAt + Grace <= now
    \/ alarmPc \in {"alert", "dispatch"} /\ mem.disconnectedAt = MarkedAt /\ MarkedAt < now
    \/ alarmPc = "outage" /\ job.start = MarkedAt /\ stored.currentOutageId # None

RecordInv == (MarkedAt # None /\ ~Recorded) => OnItsWay

\* The outages table only grows, and no start is ever rewritten.
LEMMA StartsKept ==
    ASSUME TypeOK, [Next]_vars
    PROVE  \A o \in outages : \E p \in outages' : p.start = o.start
<1>1. ASSUME NEW id, NEW at, outages' = CloseRow(outages, id, at), NEW o \in outages
      PROVE  \E p \in outages' : p.start = o.start
  <2> DEFINE p == IF o.id = id THEN [o EXCEPT !.end = at] ELSE o
  <2>1. p \in outages'
    BY <1>1 DEF CloseRow
  <2>2. p.start = o.start
    BY DEF TypeOK, Outage
  <2> QED BY <2>1, <2>2
<1>2. ASSUME NEW rows, outages' = outages \cup rows, NEW o \in outages
      PROVE  \E p \in outages' : p.start = o.start
  BY <1>2
<1>3. ASSUME NEW s \in Sessions, Connection(s)
      PROVE  \A o \in outages : \E p \in outages' : p.start = o.start
  BY <1>1, <1>2, <1>3
     DEF Connection, ConnectAccept, ConnectCloseOutage, ConnectBrief, ConnectUpAlert,
         ConnectSettle, ConnectFails, Message, Drop
<1>4. CASE AlarmHandler
  BY <1>2, <1>4 DEF AlarmHandler, AlarmFire, AlarmLoaded, AlarmRetry, AlarmAlert,
                    AlarmDispatch, AlarmOutage, AlarmPing, AlarmFails
<1>5. CASE \/ DropArm \/ DropFails \/ Command \/ Hibernate \/ Crash \/ LoseClient \/ Tick
           \/ UNCHANGED vars
  BY <1>5 DEF DropArm, DropFails, Command, Pause, Resume, Disconnect, Issue, Hibernate,
              Crash, LoseClient, Tick, vars
<1> QED BY <1>3, <1>4, <1>5 DEF Next

\* As long as the mark is the same, so is the name of its outage, and its row.
LEMMA RecordsKept ==
    ASSUME TypeOK, [Next]_vars, MarkedAt # None, MarkedAt' = MarkedAt, Recorded
    PROVE  Recorded'
<1>0. /\ mem \in Memory /\ stored \in Storage /\ lastId \in Nat /\ None = -1
  BY DEF TypeOK, None
<1>1. ASSUME NEW m, RecordOutage(m, stored)
      PROVE  stored'.currentOutageId # None
  BY <1>0, <1>1 DEF RecordOutage, Storage
<1>2. ASSUME NEW m, NEW a, AlarmBody(m, a)
      PROVE  stored'.currentOutageId # None
  BY <1>0, <1>1, <1>2 DEF AlarmBody, GraceEarly, GraceOver, NormalPing, AlarmReturn, Recorded,
                          Storage
<1>3. ASSUME NEW m, NEW a, AlarmStart(m, a)
      PROVE  stored'.currentOutageId # None
  BY <1>0, <1>2, <1>3 DEF AlarmStart, RetryTaken, Recorded, Storage
<1>4. ASSUME NEW s \in Sessions, Connection(s)
      PROVE  stored'.currentOutageId # None
  BY <1>0, <1>4
     DEF Connection, ConnectAccept, ConnectCloseOutage, ConnectBrief, ConnectUpAlert,
         ConnectSettle, ConnectFails, Message, Drop, Recorded, Storage, MarkedAt
<1>5. CASE AlarmHandler
  <2>1. CASE AlarmDispatch
    <3> SUFFICES stored'.currentOutageId # None
      BY StartsKept DEF Recorded
    <3>1. CASE RecordOutage(mem, stored)
      BY <1>0, <3>1 DEF RecordOutage, Storage
    <3>2. CASE RecordOutage(mem, [stored EXCEPT !.pendingRetry =
                                  [alert |-> job.alert, restoreAlarmAt |-> Displaced]])
      <4>1. PICK st : st = [stored EXCEPT !.pendingRetry =
                                  [alert |-> job.alert, restoreAlarmAt |-> Displaced]]
        OBVIOUS
      <4>2. stored' = [st EXCEPT !.currentOutageId = lastId + 1]
        BY <3>2, <4>1 DEF RecordOutage
      <4>3. "currentOutageId" \in DOMAIN st
        BY <1>0, <4>1 DEF Storage
      <4> QED BY <1>0, <4>2, <4>3
    <3> QED BY <2>1, <3>1, <3>2 DEF AlarmDispatch
  <2>2. CASE AlarmFire \/ AlarmLoaded \/ AlarmRetry
    BY <1>2, <1>3, <2>2 DEF AlarmFire, AlarmLoaded, AlarmRetry, AlarmReturn, Recorded
  <2>3. CASE AlarmAlert \/ AlarmOutage \/ AlarmPing \/ AlarmFails
    BY <1>0, <1>1, <2>3 DEF AlarmAlert, AlarmOutage, AlarmPing, AlarmFails, Recorded
  <2> QED BY <1>5, <2>1, <2>2, <2>3, StartsKept DEF AlarmHandler, Recorded
<1>6. CASE \/ DropArm \/ DropFails \/ Command \/ Hibernate \/ Crash \/ LoseClient \/ Tick
           \/ UNCHANGED vars
  <2>1. stored'.currentOutageId # None
    BY <1>0, <1>6 DEF DropArm, DropFails, Command, Pause, Resume, Disconnect, Issue, Hibernate,
                      Crash, LoseClient, Tick, vars, Recorded, Storage
  <2> QED BY <2>1, StartsKept DEF Recorded
<1> QED BY <1>4, <1>5, <1>6, StartsKept DEF Next, Recorded

\* What a socket's handler does to the alarm and to the mark.
LEMMA ConnectionTimer ==
    ASSUME TypeOK, NEW s \in Sessions, Connection(s)
    PROVE  /\ UNCHANGED <<now, alarmPc, job>>
           /\ stored'.pendingRetry = stored.pendingRetry
           /\ Reconnecting' \subseteq Reconnecting \cup {s}
           /\ \/ /\ Marks
                 /\ Reconnecting' = Reconnecting
                 /\ \/ alarm' = now + Grace /\ dropAt' = dropAt
                    \/ alarm' = alarm /\ dropAt' = now
              \/ /\ dropAt' = dropAt
                 /\ alarm' = alarm \/ (alarm = None /\ alarm' = now + PingInterval)
                 /\ \/ MarkedAt' = None
                    \/ /\ MarkedAt' = MarkedAt /\ Reconnecting' \subseteq Reconnecting
                       /\ stored'.currentOutageId = stored.currentOutageId
                 /\ mem'.disconnectedAt = Restored("disconnectedAt") \/ s \in Reconnecting
                        \/ mem'.disconnectedAt = mem.disconnectedAt
<1>0. /\ mem \in Memory /\ stored \in Storage
      /\ \A v : [pc EXCEPT ![s] = v][s] = v
      /\ \A t \in Sessions \ {s} : pc'[t] = pc[t]
  BY ConnectionEffect DEF TypeOK
<1>1. UNCHANGED <<now, alarmPc, job>> /\ stored'.pendingRetry = stored.pendingRetry
  BY <1>0 DEF Storage, Connection, ConnectAccept, ConnectCloseOutage, ConnectBrief,
         ConnectUpAlert, ConnectSettle, ConnectFails, Message, Drop
<1>2. Reconnecting' \subseteq Reconnecting \cup {s}
  BY <1>0 DEF Reconnecting
<1>a. ASSUME pc'[s] \notin {"closeOutage", "brief", "upAlert"} \/ s \in Reconnecting
      PROVE  Reconnecting' \subseteq Reconnecting
  BY <1>0, <1>a DEF Reconnecting
<1>3. CASE Drop(s)
  <2>1. Reconnecting' = Reconnecting
    BY <1>0, <1>3 DEF Drop, Reconnecting, TypeOK
  <2>2. CASE Remaining(s) # {} \/ Restored("disconnectedAt") # None
    <3>1. /\ UNCHANGED <<stored, alarm, dropAt>>
          /\ mem' = mem \/ mem' = [mem EXCEPT !.disconnectedAt = Restored("disconnectedAt")]
      BY <1>3, <2>2 DEF Drop
    <3>2. mem'.disconnectedAt \in {mem.disconnectedAt, Restored("disconnectedAt")}
      BY <1>0, <3>1 DEF Memory
    <3> QED BY <1>1, <2>1, <3>1, <3>2 DEF MarkedAt
  <2>3. CASE Remaining(s) = {} /\ Restored("disconnectedAt") = None
    <3>1. Marks
      BY <1>0, <1>3, <2>3 DEF Drop, Marks, Memory, Storage
    <3>2. \/ alarm' = now + Grace /\ dropAt' = dropAt
          \/ alarm' = alarm /\ dropAt' = now
      BY <1>3, <2>3 DEF Drop, GraceAlarm
    <3> QED BY <1>1, <2>1, <3>1, <3>2
  <2> QED BY <2>2, <2>3
<1>4. CASE ConnectAccept(s)
  <2>1. UNCHANGED <<alarm, dropAt>> /\ mem'.disconnectedAt = Restored("disconnectedAt")
    BY <1>0, <1>4 DEF ConnectAccept, Memory
  <2>2. \/ MarkedAt' = None
        \/ /\ MarkedAt' = MarkedAt /\ Reconnecting' \subseteq Reconnecting
           /\ stored'.currentOutageId = stored.currentOutageId
    BY <1>0, <1>4, <1>a DEF ConnectAccept, MarkedAt, Storage
  <2> QED BY <1>1, <1>2, <2>1, <2>2
<1>5. CASE ConnectCloseOutage(s) \/ ConnectBrief(s) \/ ConnectUpAlert(s)
  BY <1>1, <1>2, <1>5, <1>a DEF ConnectCloseOutage, ConnectBrief, ConnectUpAlert, MarkedAt,
                                Reconnecting
<1>6. CASE ConnectSettle(s) \/ ConnectFails(s) \/ Message(s)
  <2>1. /\ MarkedAt' = MarkedAt /\ mem'.disconnectedAt = mem.disconnectedAt
        /\ stored'.currentOutageId = stored.currentOutageId
        /\ dropAt' = dropAt
        /\ alarm' = alarm \/ (alarm = None /\ alarm' = now + PingInterval)
    BY <1>0, <1>6 DEF ConnectSettle, ConnectFails, Message, Started, MarkedAt, Storage, Memory
  <2>2. Reconnecting' \subseteq Reconnecting
    BY <1>0, <1>6, <1>a DEF ConnectSettle, ConnectFails, Message, Reconnecting
  <2> QED BY <1>1, <1>2, <2>1, <2>2
<1> QED BY <1>3, <1>4, <1>5, <1>6 DEF Connection

\* What follows the retry check, in the alarm handler.
LEMMA AlarmBodyTimer ==
    ASSUME TypeOK, NEW m \in Memory, NEW a, AlarmBody(m, a)
    PROVE  /\ stored'.pendingRetry = stored.pendingRetry
           /\ \/ /\ Restored("disconnectedAt") # None
                 /\ now - Restored("disconnectedAt") < Grace
                 /\ Restores /\ alarm' = a /\ alarmPc' = "idle"
              \/ /\ Restored("disconnectedAt") # None
                 /\ now - Restored("disconnectedAt") >= Grace
                 /\ Restores /\ alarm' = a
                 /\ \/ alarmPc' = "alert"
                    \/ /\ alarmPc' = "outage" /\ job'.start = Restored("disconnectedAt")
                       /\ stored'.currentOutageId # None
              \/ Marks /\ alarm' = now + Grace /\ alarmPc' = "idle"
              \/ /\ Restored("disconnectedAt") = None
                 /\ Restores /\ alarm' = a
                 /\ alarmPc' = "ping" \/ (alarmPc' = "idle" /\ Listed = {})
<1> DEFINE d == Restored("disconnectedAt")
           r == [m EXCEPT !.disconnectedAt = d]
<1>1. r \in Memory /\ r.disconnectedAt = d /\ stored \in Storage /\ NoJob \in Job
  BY RestoredType, EmptyRecords DEF Memory, TypeOK
<1> HIDE DEF r
<1>2. CASE GraceEarly(r, a)
  BY <1>1, <1>2 DEF GraceEarly, AlarmReturn, Restores
<1>3. CASE GraceOver(r, a)
  <2>1. CASE RecordOutage(r, stored)
    <3>1. mem'.disconnectedAt = d /\ stored'.disconnectedAt = stored.disconnectedAt
          /\ stored'.pendingRetry = stored.pendingRetry
      BY <1>1, <2>1 DEF RecordOutage, Memory, Storage
    <3>2. alarmPc' = "outage" /\ job'.start = d /\ stored'.currentOutageId # None
      BY <1>1, <2>1 DEF RecordOutage, NoJob, Storage, None, TypeOK
    <3> QED BY <1>1, <1>3, <3>1, <3>2 DEF GraceOver, Restores
  <2>2. CASE mem' = [r EXCEPT !.lastAlertTimes["client_down"] = now] /\ alarmPc' = "alert"
               /\ UNCHANGED stored
    BY <1>1, <1>3, <2>2 DEF GraceOver, Restores, Memory
  <2> QED BY <1>3, <2>1, <2>2 DEF GraceOver
<1>4. CASE NormalPing(r, a)
  BY <1>1, <1>4 DEF NormalPing, AlarmReturn, GraceAlarm, Restores, Marks, Memory, Storage
<1> QED BY <1>2, <1>3, <1>4 DEF AlarmBody, r

\* The facts about the mark that a step of the alarm handler or of a socket
\* starts from.
MarkInv ==
    /\ Agreement
    /\ (mem.disconnectedAt # None /\ Reconnecting = {}) => MarkedAt # None

LEMMA ConnectionRecords ==
    ASSUME TypeOK, MarkInv, TimerInv, RecordInv, NEW s \in Sessions, Connection(s),
           (MarkedAt # None /\ MarkedAt' = MarkedAt /\ Recorded) => Recorded'
    PROVE  TimerInv' /\ RecordInv'
<1>0. /\ now \in Nat /\ alarm \in Nat \cup {-1} /\ dropAt \in Nat \cup {-1}
      /\ MarkedAt \in Nat \cup {-1} /\ mem.disconnectedAt \in Nat \cup {-1}
      /\ Grace \in Nat \ {0} /\ PingInterval \in Nat \ {0} /\ None = -1
  BY ConstantsOK DEF TypeOK, MaybeTime, Time, None, MarkedAt, Storage, Memory
<1>1. /\ UNCHANGED <<now, alarmPc, job>>
      /\ stored'.pendingRetry = stored.pendingRetry
  BY ConnectionTimer
<1>2. CASE /\ Marks
           /\ Reconnecting' = Reconnecting
           /\ \/ alarm' = now + Grace /\ dropAt' = dropAt
              \/ alarm' = alarm /\ dropAt' = now
  <2>1. MarkedAt' = now
    BY <1>2 DEF Marks, MarkedAt
  <2>2. TimerInv'
    BY <1>0, <1>1, <1>2, <2>1 DEF TimerInv
  <2>3. OnItsWay'
    BY <1>0, <1>1, <1>2, <2>1 DEF OnItsWay, AlarmAhead
  <2> QED BY <2>2, <2>3 DEF RecordInv
<1>3. CASE /\ dropAt' = dropAt
           /\ alarm' = alarm \/ (alarm = None /\ alarm' = now + PingInterval)
           /\ \/ MarkedAt' = None
              \/ /\ MarkedAt' = MarkedAt /\ Reconnecting' \subseteq Reconnecting
                 /\ stored'.currentOutageId = stored.currentOutageId
           /\ mem'.disconnectedAt = Restored("disconnectedAt") \/ s \in Reconnecting
                  \/ mem'.disconnectedAt = mem.disconnectedAt
  <2>1. TimerInv'
    BY <1>0, <1>1, <1>3 DEF TimerInv
  <2>2. ASSUME MarkedAt' # None, ~Recorded'
        PROVE  OnItsWay'
    <3>1. /\ MarkedAt' = MarkedAt /\ ~Recorded
          /\ stored'.currentOutageId = stored.currentOutageId
      BY <1>3, <2>2
    <3>2. OnItsWay
      BY <2>2, <3>1 DEF RecordInv
    <3>3. ASSUME mem.disconnectedAt = MarkedAt, MarkedAt < now
          PROVE  mem'.disconnectedAt = MarkedAt
      <4>1. Reconnecting = {}
        BY <1>0, <2>2, <3>1, <3>3 DEF TimerInv
      <4> QED BY <1>3, <2>2, <3>1, <3>3, <4>1 DEF Restored
    <3> QED BY <1>0, <1>1, <1>3, <3>1, <3>2, <3>3 DEF OnItsWay, AlarmAhead
  <2> QED BY <2>1, <2>2 DEF RecordInv
<1> QED BY <1>2, <1>3, ConnectionTimer

\* The alarm handler's branches, for an alarm a that is set or was consumed.
LEMMA BodyRecords ==
    ASSUME TypeOK, MarkInv, TimerInv, NEW m \in Memory, NEW a \in MaybeTime,
           AlarmBody(m, a), UNCHANGED <<now, pc, dropAt>>,
           a # None => now <= a,
           (MarkedAt # None /\ MarkedAt' = MarkedAt /\ Recorded) => Recorded',
           (MarkedAt # None /\ ~Recorded) =>
               \/ /\ a # None /\ MarkedAt + Grace <= a
                  /\ a <= MarkedAt + Grace \/ a <= MarkedAt + PingInterval
               \/ dropAt # None
               \/ MarkedAt + Grace <= now
    PROVE  TimerInv' /\ RecordInv'
<1>0. /\ now \in Nat /\ a \in Nat \cup {-1} /\ dropAt \in Nat \cup {-1}
      /\ MarkedAt \in Nat \cup {-1} /\ mem.disconnectedAt \in Nat \cup {-1}
      /\ Grace \in Nat \ {0} /\ PingInterval \in Nat \ {0} /\ None = -1
  BY ConstantsOK DEF TypeOK, MaybeTime, Time, None, MarkedAt, Storage, Memory
<1> DEFINE d == Restored("disconnectedAt")
<1>1. MarkedAt # None => d = MarkedAt
  BY DEF MarkInv, Agreement, Restored, MarkedAt
<1>2. Reconnecting' = Reconnecting
  BY DEF Reconnecting
<1>3. stored'.pendingRetry = stored.pendingRetry
  BY AlarmBodyTimer
<1>4. CASE Marks /\ alarm' = now + Grace /\ alarmPc' = "idle"
  <2>1. MarkedAt' = now
    BY <1>4 DEF Marks, MarkedAt
  <2>2. TimerInv'
    BY <1>0, <1>2, <1>3, <1>4, <2>1 DEF TimerInv
  <2>3. AlarmAhead'
    BY <1>0, <1>4, <2>1 DEF AlarmAhead
  <2> QED BY <2>2, <2>3 DEF RecordInv, OnItsWay
<1>5. ASSUME Restores, alarm' = a, alarmPc' \in {"idle", "ping", "alert", "outage"},
             MarkedAt # None => alarmPc' # "ping"
      PROVE  /\ MarkedAt' = MarkedAt /\ mem'.disconnectedAt = d
             /\ TimerInv'
             /\ MarkedAt # None /\ Recorded => Recorded'
  <2>1. MarkedAt' = MarkedAt /\ mem'.disconnectedAt = d
    BY <1>5 DEF Restores, MarkedAt
  <2>2. TimerInv'
    BY <1>0, <1>2, <1>3, <1>5, <2>1 DEF TimerInv
  <2>3. MarkedAt # None /\ Recorded => Recorded'
    BY <2>1
  <2> QED BY <2>1, <2>2, <2>3
<1>6. CASE /\ d # None /\ now - d < Grace
           /\ Restores /\ alarm' = a /\ alarmPc' = "idle"
  <2>1. ASSUME MarkedAt' # None, ~Recorded'
        PROVE  OnItsWay'
    <3>1. MarkedAt' = MarkedAt /\ ~Recorded /\ MarkedAt = d
      BY <1>1, <1>5, <1>6, <2>1
    <3>2. AlarmAhead' \/ dropAt' # None
      BY <1>0, <1>6, <2>1, <3>1 DEF AlarmAhead
    <3> QED BY <3>2 DEF OnItsWay
  <2> QED BY <1>5, <1>6, <2>1 DEF RecordInv
<1>7. CASE /\ d # None /\ now - d >= Grace
           /\ Restores /\ alarm' = a
           /\ \/ alarmPc' = "alert"
              \/ /\ alarmPc' = "outage" /\ job'.start = d
                 /\ stored'.currentOutageId # None
  <2>1. ASSUME MarkedAt' # None, ~Recorded'
        PROVE  OnItsWay'
    <3>1. MarkedAt' = MarkedAt /\ mem'.disconnectedAt = d /\ MarkedAt = d
      BY <1>1, <1>5, <1>7, <2>1
    <3>2. MarkedAt' < now'
      BY <1>0, <1>7, <3>1
    <3> QED BY <1>7, <3>1, <3>2 DEF OnItsWay
  <2> QED BY <1>5, <1>7, <2>1 DEF RecordInv
<1>8. CASE d = None /\ Restores /\ alarm' = a /\ alarmPc' \in {"idle", "ping"}
  BY <1>1, <1>5, <1>8 DEF RecordInv
<1> QED BY <1>4, <1>6, <1>7, <1>8, AlarmBodyTimer

LEMMA AlarmHandlerRecords ==
    ASSUME Prompt, TypeOK, MarkInv, TimerInv, RecordInv, AlarmHandler,
           (MarkedAt # None /\ MarkedAt' = MarkedAt /\ Recorded) => Recorded'
    PROVE  TimerInv' /\ RecordInv'
<1>0. /\ now \in Nat /\ alarm \in Nat \cup {-1} /\ dropAt \in Nat \cup {-1}
      /\ MarkedAt \in Nat \cup {-1} /\ mem.disconnectedAt \in Nat \cup {-1}
      /\ Grace \in Nat \ {0} /\ PingInterval \in Nat \ {0} /\ None = -1
      /\ mem \in Memory /\ stored \in Storage /\ alarm \in MaybeTime /\ None \in MaybeTime
  BY ConstantsOK DEF TypeOK, MaybeTime, Time, None, MarkedAt, Storage, Memory
<1>a. UNCHANGED <<now, pc, dropAt>> /\ Reconnecting' = Reconnecting
  BY DEF Reconnecting, AlarmHandler, AlarmFire, AlarmLoaded, AlarmRetry, AlarmAlert,
         AlarmDispatch, AlarmOutage, AlarmPing, AlarmFails
<1>b. ASSUME NEW m, NEW st, RecordOutage(m, st), m = mem, st = stored, UNCHANGED alarm,
             alarmPc \in {"alert", "dispatch"}
      PROVE  TimerInv' /\ RecordInv'
  <2>1. /\ MarkedAt' = MarkedAt /\ mem'.disconnectedAt = mem.disconnectedAt
        /\ stored'.pendingRetry = stored.pendingRetry
    BY <1>0, <1>b DEF RecordOutage, MarkedAt, Memory, Storage
  <2>2. /\ alarmPc' = "outage" /\ job'.start = mem.disconnectedAt
        /\ stored'.currentOutageId # None
    <3>1. lastId \in Nat
      BY DEF TypeOK
    <3> QED BY <1>0, <1>b, <3>1, EmptyRecords DEF RecordOutage, NoJob, Storage
  <2>3. TimerInv'
    BY <1>0, <1>a, <1>b, <2>1, <2>2 DEF TimerInv
  <2>4. RecordInv'
    BY <1>a, <1>b, <2>1, <2>2 DEF RecordInv, OnItsWay, AlarmAhead
  <2> QED BY <2>3, <2>4
<1>1. CASE AlarmFire
  <2>1. alarmPc = "idle" /\ alarm # None /\ now >= alarm
    BY <1>1 DEF AlarmFire
  <2>2. (MarkedAt # None /\ ~Recorded) => dropAt # None \/ MarkedAt + Grace <= now
    BY <1>0, <2>1 DEF RecordInv, OnItsWay, AlarmAhead
  <2>3. CASE AlarmStart(mem, None)
    <3>1. AlarmBody(mem, None)
      BY <2>3 DEF AlarmStart, TimerInv
    <3> QED BY <1>0, <1>a, <2>2, <3>1, BodyRecords
  <2>4. CASE /\ alarm' = None
             /\ alarmPc' = "load"
             /\ UNCHANGED <<mem, stored, closing, job, lastId>>
    <3>1. MarkedAt' = MarkedAt /\ (MarkedAt # None /\ Recorded => Recorded')
      BY <2>4 DEF MarkedAt, Recorded
    <3>2. TimerInv'
      BY <1>a, <2>4, <3>1 DEF TimerInv
    <3>3. RecordInv'
      BY <1>a, <2>2, <2>4, <3>1 DEF RecordInv, OnItsWay
    <3> QED BY <3>2, <3>3
  <2> QED BY <1>1, <2>3, <2>4 DEF AlarmFire
<1>2. CASE AlarmLoaded
  <2>1. /\ [mem EXCEPT !.configLoaded = TRUE] \in Memory
        /\ AlarmBody([mem EXCEPT !.configLoaded = TRUE], alarm)
    BY <1>0, <1>2 DEF AlarmLoaded, AlarmStart, TimerInv, Memory
  <2>2. alarm # None => now <= alarm
    BY DEF TimerInv
  <2>3. (MarkedAt # None /\ ~Recorded) =>
            \/ AlarmAhead
            \/ dropAt # None
            \/ MarkedAt + Grace <= now
    BY <1>2 DEF AlarmLoaded, RecordInv, OnItsWay
  <2> QED BY <1>0, <1>a, <2>1, <2>2, <2>3, BodyRecords DEF AlarmAhead
<1>3. CASE AlarmRetry \/ AlarmFails
  BY <1>3 DEF AlarmRetry, AlarmFails, TimerInv, Fault, Prompt
<1>4. CASE AlarmAlert
  <2>1. CASE alarmPc' = "dispatch" /\ UNCHANGED <<mem, stored, job, lastId>>
    <3>1. MarkedAt' = MarkedAt /\ (MarkedAt # None /\ Recorded => Recorded') /\ alarm' = alarm
          /\ alarmPc = "alert"
      BY <1>4, <2>1 DEF MarkedAt, Recorded, AlarmAlert
    <3>2. TimerInv'
      BY <1>a, <2>1, <3>1 DEF TimerInv
    <3>3. RecordInv'
      BY <1>a, <2>1, <3>1 DEF RecordInv, OnItsWay, AlarmAhead
    <3> QED BY <3>2, <3>3
  <2>2. CASE RecordOutage(mem, stored)
    BY <1>4, <1>b, <2>2 DEF AlarmAlert
  <2> QED BY <1>4, <2>1, <2>2 DEF AlarmAlert
<1>5. CASE AlarmDispatch
  BY <1>5, <1>b DEF AlarmDispatch, Outcomes, Prompt
<1>6. CASE AlarmOutage
  <2>1. /\ alarmPc = "outage" /\ alarmPc' = "idle"
        /\ UNCHANGED <<alarm, mem, stored>>
        /\ MarkedAt' = MarkedAt /\ (MarkedAt # None /\ Recorded => Recorded')
    BY <1>6 DEF AlarmOutage, MarkedAt, Recorded
  <2>2. TimerInv'
    BY <1>a, <2>1 DEF TimerInv
  <2>3. (job.start = MarkedAt /\ stored.currentOutageId # None) => Recorded'
    <3>1. PICK row : row = [id |-> job.outage, start |-> job.start, end |-> None]
      OBVIOUS
    <3>2. row \in outages' /\ row.start = job.start
      BY <1>6, <3>1 DEF AlarmOutage
    <3> QED BY <2>1, <3>2 DEF Recorded
  <2> QED BY <1>a, <2>1, <2>2, <2>3 DEF RecordInv, OnItsWay, AlarmAhead
<1>7. CASE AlarmPing
  <2>1. /\ alarmPc = "ping" /\ alarmPc' = "idle" /\ alarm' = now + PingInterval
        /\ UNCHANGED <<mem, stored>>
        /\ MarkedAt' = MarkedAt /\ (MarkedAt # None /\ Recorded => Recorded')
    BY <1>7 DEF AlarmPing, MarkedAt, Recorded
  <2>2. TimerInv'
    BY <1>0, <1>a, <2>1 DEF TimerInv
  <2>3. MarkedAt # None => AlarmAhead'
    BY <1>0, <1>a, <2>1 DEF TimerInv, AlarmAhead, Prompt
  <2> QED BY <2>1, <2>2, <2>3 DEF RecordInv, OnItsWay
<1> QED BY <1>1, <1>2, <1>3, <1>4, <1>5, <1>6, <1>7 DEF AlarmHandler

\* The rest, among which the clock, which waits for handlers and alarms.
LEMMA EnvironmentRecords ==
    ASSUME Prompt, TypeOK, MarkInv, TimerInv, RecordInv,
           \/ DropArm \/ DropFails \/ Command \/ Hibernate \/ Crash \/ LoseClient \/ Tick
           \/ UNCHANGED vars
    PROVE  TimerInv' /\ RecordInv'
<1>0. /\ now \in Nat /\ alarm \in Nat \cup {-1} /\ dropAt \in Nat \cup {-1}
      /\ MarkedAt \in Nat \cup {-1} /\ mem.disconnectedAt \in Nat \cup {-1}
      /\ Grace \in Nat \ {0} /\ PingInterval \in Nat \ {0} /\ None = -1
      /\ mem \in Memory /\ stored \in Storage
  BY ConstantsOK DEF TypeOK, MaybeTime, Time, None, MarkedAt, Storage, Memory
<1>a. ASSUME UNCHANGED <<pc, alarmPc, job, outages, now, alarm, dropAt>>, MarkedAt' = MarkedAt,
             stored'.pendingRetry = stored.pendingRetry,
             stored'.currentOutageId = stored.currentOutageId,
             \/ mem'.disconnectedAt = mem.disconnectedAt
             \/ alarmPc = "idle"
      PROVE  TimerInv' /\ RecordInv'
  <2>1. Reconnecting' = Reconnecting
    BY <1>a DEF Reconnecting
  <2> QED BY <1>a, <2>1 DEF TimerInv, RecordInv, OnItsWay, AlarmAhead, Recorded
<1>1. CASE DropArm
  <2>1. /\ dropAt # None /\ dropAt' = None /\ alarm' = dropAt + Grace
        /\ UNCHANGED <<now, stored, pc, alarmPc, job, outages>>
        /\ mem'.disconnectedAt = mem.disconnectedAt
    BY <1>0, <1>1 DEF DropArm, GraceAlarm, Memory
  <2>2. Reconnecting' = Reconnecting /\ MarkedAt' = MarkedAt
    BY <2>1 DEF Reconnecting, MarkedAt
  <2>3. TimerInv'
    BY <1>0, <2>1, <2>2 DEF TimerInv
  <2>4. MarkedAt # None => AlarmAhead'
    BY <1>0, <2>1, <2>2 DEF TimerInv, AlarmAhead
  <2> QED BY <2>2, <2>3, <2>4 DEF RecordInv, OnItsWay
<1>2. CASE DropFails \/ Crash
  BY <1>2 DEF DropFails, Crash, Fault, Prompt
<1>3. CASE Command
  <2>1. Pause \/ Disconnect
    BY <1>3 DEF Command, Resume, Issue, Prompt
  <2>2. /\ MarkedAt' = MarkedAt /\ mem'.disconnectedAt = mem.disconnectedAt
        /\ stored'.pendingRetry = stored.pendingRetry
        /\ stored'.currentOutageId = stored.currentOutageId
    BY <1>0, <2>1 DEF Pause, Disconnect, MarkedAt, Memory, Storage
  <2>3. UNCHANGED <<pc, alarmPc, job, outages, now, alarm, dropAt>>
    BY <2>1 DEF Pause, Disconnect, Issue
  <2> QED BY <1>a, <2>2, <2>3
<1>4. CASE Hibernate
  BY <1>a, <1>4 DEF Hibernate, Idle, MarkedAt
<1>5. CASE LoseClient \/ UNCHANGED vars
  BY <1>a, <1>5 DEF LoseClient, vars, MarkedAt
<1>6. CASE Tick
  <2>1. /\ Idle
        /\ alarm = None \/ now < alarm
        /\ now' = now + 1
        /\ UNCHANGED <<alarm, mem, stored, pc, alarmPc, job, dropAt, outages>>
    BY <1>6 DEF Tick, Prompt
  <2>2. /\ Reconnecting = {} /\ Reconnecting' = {} /\ MarkedAt' = MarkedAt
        /\ alarmPc = "idle" /\ dropAt = None
    BY <2>1 DEF Idle, Connecting, Reconnecting, MarkedAt
  <2>3. TimerInv'
    BY <1>0, <2>1, <2>2 DEF TimerInv
  <2>4. RecordInv'
    BY <1>0, <2>1, <2>2 DEF RecordInv, OnItsWay, AlarmAhead, Recorded
  <2> QED BY <2>3, <2>4
<1> QED BY <1>1, <1>2, <1>3, <1>4, <1>5, <1>6

LEMMA PromptInit ==
    Init => LossInv /\ Agreement /\ TimerInv /\ RecordInv
<1>1. Init => LossInv /\ Agreement
  BY DEF Init, LossInv, LossNoticed, Listed, FreshMemory, Agreement
<1>2. Init => TimerInv /\ RecordInv
  BY DEF Init, TimerInv, RecordInv, MarkedAt, None
<1> QED BY <1>1, <1>2

LEMMA PromptStep ==
    ASSUME Prompt, TypeOK, LossInv, Agreement, TimerInv, RecordInv, [Next]_vars
    PROVE  (LossInv /\ Agreement /\ TimerInv /\ RecordInv)'
<1>0. "d1" \notin Faults /\ "crash" \notin Faults /\ MarkInv
  BY DEF Prompt, MarkInv, LossInv, MarkedAt
<1>1. LossInv' /\ Agreement'
  BY <1>0, LossInvStep, AgreementStep
<1>2. (MarkedAt # None /\ MarkedAt' = MarkedAt /\ Recorded) => Recorded'
  BY RecordsKept
<1>3. TimerInv' /\ RecordInv'
  BY <1>0, <1>2, ConnectionRecords, AlarmHandlerRecords, EnvironmentRecords DEF Next
<1> QED BY <1>1, <1>3

\* When alarms and handlers are prompt, a client that stays away for longer
\* than the grace period and the ping interval has its outage in the table,
\* for any number of sockets, any grace period up to the interval, and
\* through hibernation.
THEOREM LossIsRecorded ==
    ASSUME Prompt
    PROVE  Spec => []LossRecorded
<1> DEFINE Inv == LossInv /\ Agreement /\ TimerInv /\ RecordInv
<1>1. Init => Inv
  BY PromptInit
<1>2. TypeInv /\ Inv /\ [Next]_vars => Inv'
  BY PromptStep DEF TypeInv
<1>3. TypeInv /\ Inv => LossRecorded
  <2> SUFFICES ASSUME TypeInv, Inv, Idle, Disconnected,
                      now > DisconnectedAt + Grace, now > DisconnectedAt + PingInterval
               PROVE  \E o \in outages : o.start = DisconnectedAt
    BY DEF LossRecorded
  <2>1. /\ alarmPc = "idle" /\ dropAt = None /\ Reconnecting = {}
    BY DEF Idle, Connecting, Reconnecting
  <2>2. MarkedAt # None /\ DisconnectedAt = MarkedAt
    BY <2>1 DEF LossInv, Agreement, Disconnected, DisconnectedAt, MarkedAt
  <2>3. ~AlarmAhead
    <3>1. /\ now \in Nat /\ alarm \in Nat \cup {-1} /\ MarkedAt \in Nat \cup {-1}
          /\ Grace \in Nat /\ PingInterval \in Nat /\ None = -1
      BY ConstantsOK DEF TypeInv, TypeOK, MaybeTime, Time, None, MarkedAt, Storage
    <3> QED BY <2>2, <3>1 DEF AlarmAhead, TimerInv
  <2> QED BY <2>1, <2>2, <2>3 DEF RecordInv, OnItsWay, Recorded
<1> QED BY <1>1, <1>2, <1>3, TypeInvAlways, PTL DEF Spec

(***************************************************************************)
(* An admin's disconnection shows.  While the command keeps the client     *)
(* out, no socket is accepted and those there were are closed; so a client *)
(* that can still close its sockets is marked within the tick of the       *)
(* command, and not again before the command has run its time.  That is    *)
(* the grace period and a slack, after which a prompt alarm has recorded   *)
(* the loss, unless a ping that was under way has set a later one: hence   *)
(* the assumption on the interval.                                         *)
(***************************************************************************)
Block == stored.adminDisconnectUntil
BlockedAt == Block - Grace - AdminSlack

AdminInv ==
    (Block # None /\ ~unreachable) =>
        /\ Block \in Nat /\ BlockedAt <= now
        /\ now = BlockedAt => Listed \subseteq closing
        /\ now > BlockedAt => /\ Listed = {}
                              /\ MarkedAt # None => MarkedAt <= BlockedAt

\* What a step does to the block and to what it depends on.
StaysBlocked ==
    /\ Block' = Block
    /\ now' = now
    /\ unreachable => unreachable'
    /\ Listed' \subseteq Listed
    /\ Listed' \cap closing \subseteq closing'
    /\ MarkedAt' = MarkedAt \/ MarkedAt' = None \/ Listed # {}

LEMMA BodyBlocks ==
    ASSUME TypeOK, NEW m, NEW a, AlarmBody(m, a)
    PROVE  /\ Block' = Block
           /\ closing \subseteq closing'
           /\ MarkedAt' = MarkedAt \/ Listed # {}
<1>0. stored \in Storage
  BY DEF TypeOK
<1>1. ASSUME NEW r, GraceEarly(r, a)
      PROVE  stored' = stored /\ closing' = closing
  BY <1>1 DEF GraceEarly, AlarmReturn
<1>2. ASSUME NEW r, GraceOver(r, a)
      PROVE  Block' = Block /\ MarkedAt' = MarkedAt /\ closing \subseteq closing'
  BY <1>0, <1>2 DEF GraceOver, RecordOutage, Block, MarkedAt, Storage
<1>3. ASSUME NEW r, NormalPing(r, a)
      PROVE  /\ Block' = Block /\ closing \subseteq closing'
             /\ MarkedAt' = MarkedAt \/ Listed # {}
  BY <1>0, <1>3 DEF NormalPing, AlarmReturn, Block, MarkedAt, Storage
<1> QED BY <1>1, <1>2, <1>3 DEF AlarmBody, Block, MarkedAt

LEMMA BlockEffect ==
    ASSUME TypeOK, [Next]_vars
    PROVE  \/ Block' = None
           \/ /\ Block' = AdminBlock /\ UNCHANGED <<now, pc>>
              /\ closing' = closing \cup Listed
           \/ StaysBlocked
           \/ Tick
<1>0. stored \in Storage /\ now \in Nat /\ closing \subseteq Sessions
  BY DEF TypeOK, Time
<1>1. ASSUME NEW s \in Sessions, Connection(s)
      PROVE  Block' = None \/ StaysBlocked
  <2>1. CASE ConnectAccept(s)
    BY <1>0, <2>1 DEF ConnectAccept, Block, Storage
  <2>2. CASE Drop(s)
    <3>1. Listed' = Listed \ {s} /\ closing' = closing \ {s} /\ s \in Listed
      BY <2>2 DEF Drop, Listed, TypeOK
    <3>2. Block' = Block /\ UNCHANGED <<now, unreachable>>
      BY <1>0, <2>2 DEF Drop, Block, Storage
    <3> QED BY <3>1, <3>2 DEF StaysBlocked
  <2>3. CASE Message(s) \/ ConnectSettle(s)
    <3>1. Listed' = Listed /\ UNCHANGED <<now, unreachable, closing>>
      BY <2>3 DEF Message, ConnectSettle, Listed, TypeOK
    <3>2. Block' = Block /\ MarkedAt' = MarkedAt
      BY <1>0, <2>3 DEF Message, ConnectSettle, Block, MarkedAt, Storage
    <3> QED BY <3>1, <3>2 DEF StaysBlocked
  <2>4. CASE ConnectCloseOutage(s) \/ ConnectBrief(s) \/ ConnectUpAlert(s) \/ ConnectFails(s)
    <3>1. Listed' = Listed
      BY <2>4 DEF ConnectCloseOutage, ConnectBrief, ConnectUpAlert, ConnectFails, TriggerUp,
                  FinishReconnect, Connecting, Listed, TypeOK
    <3>2. UNCHANGED <<now, unreachable, closing, stored>>
      BY <2>4 DEF ConnectCloseOutage, ConnectBrief, ConnectUpAlert, ConnectFails
    <3> QED BY <3>1, <3>2 DEF StaysBlocked, Block, MarkedAt
  <2> QED BY <1>1, <2>1, <2>2, <2>3, <2>4 DEF Connection
<1>2. CASE AlarmHandler
  <2>1. UNCHANGED <<now, pc, unreachable>>
    BY <1>2 DEF AlarmHandler, AlarmFire, AlarmLoaded, AlarmRetry, AlarmAlert, AlarmDispatch,
                AlarmOutage, AlarmPing, AlarmFails
  <2>2. ASSUME NEW m, NEW a, AlarmStart(m, a)
        PROVE  /\ Block' = Block /\ closing \subseteq closing'
               /\ MarkedAt' = MarkedAt \/ Listed # {}
    BY <1>0, <2>2, BodyBlocks DEF AlarmStart, RetryTaken, Block, MarkedAt, Storage
  <2>3. /\ Block' = Block /\ closing \subseteq closing'
        /\ MarkedAt' = MarkedAt \/ Listed # {}
    <3>1. CASE AlarmFire \/ AlarmLoaded
      BY <2>2, <3>1 DEF AlarmFire, AlarmLoaded, Block, MarkedAt
    <3>2. CASE AlarmRetry
      BY <3>2, BodyBlocks DEF AlarmRetry, AlarmReturn, Block, MarkedAt
    <3>3. CASE AlarmAlert \/ AlarmDispatch
      BY <1>0, <3>3 DEF AlarmAlert, AlarmDispatch, RecordOutage, Block, MarkedAt, Storage
    <3>4. CASE AlarmOutage \/ AlarmPing \/ AlarmFails
      BY <3>4 DEF AlarmOutage, AlarmPing, AlarmFails, Block, MarkedAt
    <3> QED BY <1>2, <3>1, <3>2, <3>3, <3>4 DEF AlarmHandler
  <2> QED BY <2>1, <2>3 DEF StaysBlocked, Listed
<1>3. CASE Disconnect
  BY <1>0, <1>3 DEF Disconnect, Issue, Block, Storage
<1>4. CASE DropArm \/ DropFails \/ Pause \/ Resume \/ Hibernate \/ LoseClient \/ UNCHANGED vars
  BY <1>4 DEF DropArm, DropFails, Pause, Resume, Issue, Hibernate, LoseClient, vars,
              StaysBlocked, Block, MarkedAt, Listed
<1>5. CASE Crash
  BY <1>5 DEF Crash, Fault, StaysBlocked, Block, MarkedAt, Listed, TypeOK
<1> QED BY <1>1, <1>2, <1>3, <1>4, <1>5 DEF Next, Command

LEMMA AdminStep ==
    ASSUME TypeOK, TimerInv, AdminInv, [Next]_vars, "close" \in Timely
    PROVE  AdminInv'
<1>0. /\ now \in Nat /\ Block \in Nat \cup {-1} /\ MarkedAt \in Nat \cup {-1}
      /\ Grace \in Nat \ {0} /\ AdminSlack \in Nat /\ None = -1
      /\ closing \subseteq Sessions
  BY ConstantsOK DEF TypeOK, MaybeTime, Time, None, Block, MarkedAt, Storage
<1>1. CASE Block' = None
  BY <1>1 DEF AdminInv
<1>2. CASE /\ Block' = AdminBlock /\ UNCHANGED <<now, pc>>
           /\ closing' = closing \cup Listed
  <2>1. Block' \in Nat /\ BlockedAt' = now /\ Listed' = Listed
    BY <1>0, <1>2 DEF AdminBlock, BlockedAt, Listed
  <2> QED BY <1>0, <1>2, <2>1 DEF AdminInv
<1>3. CASE StaysBlocked
  <2>1. BlockedAt' = BlockedAt
    BY <1>3 DEF StaysBlocked, BlockedAt
  <2> QED BY <1>0, <1>3, <2>1 DEF StaysBlocked, AdminInv
<1>4. CASE Tick
  <2>1. /\ \A s \in closing : unreachable /\ pc[s] = "open"
        /\ now' = now + 1
        /\ UNCHANGED <<stored, pc, closing, unreachable>>
    BY <1>4 DEF Tick
  <2>2. /\ Block' = Block /\ BlockedAt' = BlockedAt /\ MarkedAt' = MarkedAt
        /\ Listed' = Listed
    BY <2>1 DEF Block, BlockedAt, MarkedAt, Listed
  <2>3. MarkedAt # None => MarkedAt <= now
    BY DEF TimerInv
  <2>4. ~unreachable => closing = {}
    BY <2>1
  <2> QED BY <1>0, <2>1, <2>2, <2>3, <2>4 DEF AdminInv, BlockedAt
<1> QED BY <1>1, <1>2, <1>3, <1>4, BlockEffect

\* When alarms, closes and handlers are prompt, an admin's disconnection is
\* recorded as an outage by the time the client may come back.
THEOREM AdminDisconnectIsShown ==
    ASSUME Prompt, "close" \in Timely, AdminSlack > 0, PingInterval < Grace + AdminSlack
    PROVE  Spec => []AdminDisconnectShown
<1> DEFINE Inv == LossInv /\ Agreement /\ TimerInv /\ RecordInv /\ AdminInv
<1>1. Init => Inv
  BY PromptInit DEF Init, AdminInv, Block, None
<1>2. TypeInv /\ Inv /\ [Next]_vars => Inv'
  BY PromptStep, AdminStep DEF TypeInv
<1>3. TypeInv /\ Inv => AdminDisconnectShown
  <2> SUFFICES ASSUME TypeInv, Inv, Idle, ~unreachable, Block # None, now >= Block,
                      Disconnected
               PROVE  RecordedId # None
    BY DEF AdminDisconnectShown, Block
  <2>0. /\ now \in Nat /\ alarm \in Nat \cup {-1} /\ MarkedAt \in Nat \cup {-1}
        /\ Grace \in Nat \ {0} /\ PingInterval \in Nat /\ AdminSlack \in Nat /\ None = -1
    BY ConstantsOK DEF TypeInv, TypeOK, MaybeTime, Time, None, MarkedAt, Storage
  <2>1. alarmPc = "idle" /\ dropAt = None /\ MarkedAt # None
    BY DEF Idle, Connecting, Reconnecting, LossInv, Disconnected, MarkedAt
  <2>2. now >= MarkedAt + Grace + AdminSlack
    BY <2>0, <2>1 DEF AdminInv, BlockedAt
  <2>3. ~AlarmAhead
    BY <2>0, <2>1, <2>2 DEF AlarmAhead, TimerInv
  <2>4. stored.currentOutageId # None
    BY <2>1, <2>3 DEF RecordInv, OnItsWay, Recorded
  <2> QED BY <2>4 DEF RecordedId
<1> QED BY <1>1, <1>2, <1>3, TypeInvAlways, PTL DEF Spec

(***************************************************************************)
(* The chain of pings.  When no alarm is set although a client is          *)
(* connected, the alarm handler is about to set one, or a connection is    *)
(* being set up and will find none set.  A D1 statement that fails in the  *)
(* fetch handler breaks this, hence the assumption; crashes do not.        *)
(***************************************************************************)
ChainInv ==
    /\ (mem.disconnectedAt # None /\ Reconnecting = {}) => stored.disconnectedAt # None
    /\ (alarm = None /\ ~Disconnected /\ \E s \in Sessions : pc[s] = "open") =>
           \/ alarmPc \in {"load", "retry", "ping"}
           \/ \E s \in Sessions : pc[s] \in Connecting

\* What the steps of a socket do to its place and to the alarm.
LEMMA ConnectionChain ==
    ASSUME TypeOK, NEW s \in Sessions, Connection(s), "d1" \notin Faults
    PROVE  /\ alarmPc' = alarmPc
           /\ \A t \in Sessions \ {s} : pc'[t] = pc[t]
           /\ alarm # None => alarm' # None
           /\ \/ pc'[s] \in Connecting
              \/ pc'[s] = "open" /\ pc[s] \in {"settle", "open"}
                    /\ (pc[s] = "settle" => alarm' # None) /\ Keeps
              \/ pc'[s] = "gone" /\ pc[s] \in {"open", "failed"}
                    /\ (Keeps \/ (Restored("disconnectedAt") # None /\ Restores) \/ Marks)
<1>0. \A v : [pc EXCEPT ![s] = v][s] = v
  BY DEF TypeOK
<1>1. now + PingInterval # None /\ now + Grace # None
  BY ConstantsOK DEF TypeOK, Time, None
<1>2. /\ alarmPc' = alarmPc
      /\ \A t \in Sessions \ {s} : pc'[t] = pc[t]
  BY ConnectionEffect, ConnectionTimer
<1>3. alarm # None => alarm' # None
  BY <1>1, ConnectionTimer
<1>4. CASE ConnectAccept(s) \/ ConnectCloseOutage(s) \/ ConnectBrief(s) \/ ConnectUpAlert(s)
  BY <1>0, <1>2, <1>3, <1>4
     DEF ConnectAccept, ConnectCloseOutage, ConnectBrief, ConnectUpAlert, TriggerUp,
         FinishReconnect, Connecting
<1>5. CASE ConnectSettle(s) \/ Message(s)
  <2>1. Keeps
    BY <1>5 DEF ConnectSettle, Message, Keeps, TypeOK, Memory, Storage
  <2>2. pc'[s] = "open" /\ pc[s] \in {"settle", "open"}
    BY <1>0, <1>5 DEF ConnectSettle, Message
  <2>3. pc[s] = "settle" => alarm' # None
    BY <1>1, <1>5 DEF ConnectSettle, Message, Started
  <2> QED BY <1>2, <1>3, <2>1, <2>2, <2>3
<1>6. CASE Drop(s)
  <2>1. pc'[s] = "gone" /\ pc[s] \in {"open", "failed"}
    BY <1>0, <1>6 DEF Drop
  <2>2. Keeps \/ (Restored("disconnectedAt") # None /\ Restores) \/ Marks
    BY <1>6, <2>1, ConnectionEffect
  <2> QED BY <1>2, <1>3, <2>1, <2>2
<1>7. CASE ConnectFails(s)
  BY <1>7 DEF ConnectFails, Fault
<1> QED BY <1>4, <1>5, <1>6, <1>7 DEF Connection

LEMMA ChainStep ==
    ASSUME TypeOK, ChainInv, [Next]_vars, "d1" \notin Faults
    PROVE  ChainInv'
<1>0. /\ now \in Nat /\ Grace \in Nat /\ PingInterval \in Nat /\ RetryDelay \in Nat
      /\ None = -1 /\ mem \in Memory /\ stored \in Storage
  BY ConstantsOK DEF TypeOK, Time, None
<1> DEFINE Marked == (mem.disconnectedAt # None /\ Reconnecting = {})
                        => stored.disconnectedAt # None
           Chain == (alarm = None /\ ~Disconnected /\ \E s \in Sessions : pc[s] = "open") =>
                        \/ alarmPc \in {"load", "retry", "ping"}
                        \/ \E s \in Sessions : pc[s] \in Connecting
<1>a. ASSUME UNCHANGED pc, Keeps \/ Restores \/ Marks
      PROVE  Marked'
  BY <1>0, <1>a DEF ChainInv, Reconnecting, Keeps, Restores, Marks, Restored
<1>1. CASE UNCHANGED vars
  BY <1>1 DEF vars, ChainInv, Reconnecting, Disconnected
<1>2. ASSUME NEW s \in Sessions, Connection(s)
      PROVE  ChainInv'
  <2>1. CASE pc'[s] \in Connecting
    <3>1. Marked'
      <4>1. CASE pc'[s] \in {"closeOutage", "brief", "upAlert"}
        BY <4>1 DEF Reconnecting
      <4>2. CASE pc'[s] = "settle"
        BY <1>2, <4>2, ConnectionEffect DEF Forgets, Restores, Drop, ConnectFails
      <4> QED BY <2>1, <4>1, <4>2 DEF Connecting
    <3> QED BY <2>1, <3>1 DEF ChainInv
  <2>2. CASE /\ pc'[s] = "open" /\ pc[s] \in {"settle", "open"}
             /\ (pc[s] = "settle" => alarm' # None) /\ Keeps
    <3>1. Chain'
      <4>1. CASE pc[s] = "settle"
        BY <2>2, <4>1
      <4>2. CASE pc[s] = "open"
        BY <1>2, <2>2, <4>2, ConnectionChain
           DEF ChainInv, Keeps, Disconnected, Connecting
      <4> QED BY <2>2, <4>1, <4>2
    <3>2. Marked'
      BY <2>2, <1>2, ConnectionChain DEF ChainInv, Keeps, Reconnecting
    <3> QED BY <3>1, <3>2 DEF ChainInv
  <2>3. CASE /\ pc'[s] = "gone" /\ pc[s] \in {"open", "failed"}
             /\ (Keeps \/ (Restored("disconnectedAt") # None /\ Restores) \/ Marks)
    <3>1. Disconnected => Disconnected'
      BY <1>0, <2>3 DEF Keeps, Restores, Marks, Disconnected, Restored
    <3>2. Chain'
      BY <1>2, <2>3, <3>1, ConnectionChain DEF ChainInv, Connecting
    <3>3. Marked'
      <4>1. Reconnecting' = Reconnecting
        BY <1>2, <2>3, ConnectionChain DEF Reconnecting
      <4> QED BY <1>0, <2>3, <4>1 DEF ChainInv, Keeps, Restores, Marks, Restored
    <3> QED BY <3>2, <3>3 DEF ChainInv
  <2> QED BY <1>2, <2>1, <2>2, <2>3, ConnectionChain
<1>3. CASE AlarmHandler
  <2>1. Marked' /\ UNCHANGED pc
    BY <1>3, <1>a, AlarmHandlerEffect
  <2>2. ASSUME NEW m \in Memory, NEW a, AlarmBody(m, a)
        PROVE  Chain'
    <3>1. CASE Restored("disconnectedAt") # None /\ Restores
      BY <3>1 DEF Restores, Disconnected
    <3>2. CASE Marks /\ alarm' = now + Grace
      BY <1>0, <3>2
    <3>3. CASE alarmPc' = "ping" \/ Listed = {}
      BY <2>1, <3>3 DEF Listed
    <3> QED BY <2>2, <3>1, <3>2, <3>3, AlarmBodyTimer
  <2>3. ASSUME NEW m \in Memory, NEW a, AlarmStart(m, a)
        PROVE  Chain'
    BY <2>2, <2>3 DEF AlarmStart
  <2>4. CASE AlarmFire
    BY <1>0, <2>1, <2>3, <2>4 DEF AlarmFire, ChainInv
  <2>5. CASE AlarmLoaded
    <3>1. [mem EXCEPT !.configLoaded = TRUE] \in Memory
      BY <1>0 DEF Memory
    <3> QED BY <2>1, <2>3, <2>5, <3>1 DEF AlarmLoaded, ChainInv
  <2>6. CASE AlarmRetry
    BY <1>0, <2>1, <2>2, <2>6 DEF AlarmRetry, AlarmReturn, ChainInv
  <2>7. CASE AlarmAlert \/ AlarmDispatch
    <3>1. Keeps
      BY <1>0, <2>7 DEF AlarmAlert, AlarmDispatch, RecordOutage, Keeps, Memory, Storage
    <3>2. alarmPc \notin {"load", "retry", "ping"} /\ (alarm # None => alarm' # None)
      BY <1>0, <2>7 DEF AlarmAlert, AlarmDispatch
    <3> QED BY <2>1, <3>1, <3>2 DEF ChainInv, Keeps, Disconnected
  <2>8. CASE AlarmOutage
    BY <2>1, <2>8 DEF AlarmOutage, ChainInv, Disconnected
  <2>9. CASE AlarmPing \/ AlarmFails
    BY <1>0, <2>1, <2>9 DEF AlarmPing, AlarmFails, Fault, ChainInv
  <2> QED BY <1>3, <2>1, <2>4, <2>5, <2>6, <2>7, <2>8, <2>9 DEF AlarmHandler, ChainInv
<1>4. CASE DropArm \/ DropFails \/ Command \/ LoseClient \/ Tick
  <2>1. Keeps /\ UNCHANGED pc
    BY <1>4, EnvironmentEffect
  <2>2. UNCHANGED alarmPc /\ (alarm # None => alarm' # None)
    <3>1. dropAt # None => dropAt + Grace # None
      BY ConstantsOK DEF TypeOK, MaybeTime, Time, None
    <3> QED BY <1>0, <1>4, <3>1 DEF DropArm, GraceAlarm, DropFails, Command, Pause, Resume,
                                    Disconnect, Issue, LoseClient, Tick
  <2> QED BY <2>1, <2>2, <1>a DEF ChainInv, Keeps, Disconnected
<1>5. CASE Hibernate
  <2>1. /\ Reconnecting = {} /\ UNCHANGED <<alarm, stored, pc, alarmPc>>
        /\ mem'.disconnectedAt = None
    BY <1>5 DEF Hibernate, Idle, Connecting, Reconnecting, FreshMemory
  <2> QED BY <2>1 DEF ChainInv, Disconnected
<1>6. CASE Crash
  <2>1. \A s \in Sessions : pc'[s] \in {"new", "gone"}
    BY <1>6 DEF Crash
  <2>2. mem'.disconnectedAt = None
    BY <1>6 DEF Crash, FreshMemory
  <2> QED BY <2>1, <2>2 DEF ChainInv
<1> QED BY <1>1, <1>2, <1>3, <1>4, <1>5, <1>6 DEF Next

\* Unless a D1 statement fails, a connected client is pinged on and on: the
\* alarm that pings it is set whenever the object is idle, for any number of
\* sockets, whatever hibernation, crashes, failing notifications and
\* commands come between, and however late alarms and handlers are.
THEOREM PingsGoOn ==
    ASSUME "d1" \notin Faults
    PROVE  Spec => []PingChain
<1>1. Init => ChainInv
  BY DEF Init, ChainInv, FreshMemory
<1>2. TypeInv /\ ChainInv /\ [Next]_vars => ChainInv'
  BY ChainStep DEF TypeInv
<1>3. ChainInv => PingChain
  BY DEF ChainInv, PingChain, Idle
<1> QED BY <1>1, <1>2, <1>3, TypeInvAlways, PTL DEF Spec

(***************************************************************************)
(* No alert is retried twice.  The identifier of a client_down alert is in *)
(* one place: with the handler that inserts or sends it, or in the stored  *)
(* retry, from which it is taken before it is sent again.  Each place      *)
(* bounds how often the alert has been sent, and no client_up shares its   *)
(* identifier.                                                             *)
(***************************************************************************)

\* Of the alert id at most n sends are over; with n = -1 it has no row yet.
Owned(id, n) ==
    /\ id <= lastId
    /\ \A s \in Sessions : pc[s] = "upAlert" => arg[s].id # id
    /\ \A a \in alerts : a.id = id => a.type = "client_down" /\ a.attempts <= n

HandlerOwns ==
    /\ alarmPc = "alert" => Owned(job.alert, -1)
    /\ alarmPc = "dispatch" => Owned(job.alert, 0)
    /\ alarmPc = "retry" => Owned(job.retry.alert, 1)

RetryInv ==
    /\ RetriedOnce
    /\ \A a \in alerts : a.id <= lastId
    /\ \A s \in Sessions : pc[s] = "upAlert" => arg[s].id <= lastId
    /\ HandlerOwns
    /\ stored.pendingRetry # NoRetry => Owned(stored.pendingRetry.alert, 1)
    /\ alarmPc \in {"alert", "dispatch", "retry"} => stored.pendingRetry = NoRetry

\* A socket's handler inserts client_up alerts under identifiers of its own.
LEMMA ConnectionAlerts ==
    ASSUME TypeInv, NEW s \in Sessions, Connection(s)
    PROVE  /\ UNCHANGED <<alarmPc, job>> /\ stored'.pendingRetry = stored.pendingRetry
           /\ \A a \in alerts' \ alerts : /\ pc[s] = "upAlert" /\ a.id = arg[s].id
                                          /\ a.type = "client_up" /\ a.attempts <= 1
           /\ \A t \in Sessions : pc'[t] = "upAlert" =>
                \/ pc[t] = "upAlert" /\ arg'[t].id = arg[t].id
                \/ lastId' = lastId + 1 /\ arg'[t].id = lastId'
<1>0. /\ mem \in Memory /\ TypeOK
      /\ \A v : [pc EXCEPT ![s] = v][s] = v
      /\ \A t \in Sessions \ {s} : pc'[t] = pc[t] /\ arg'[t] = arg[t]
  BY DEF TypeInv, TypeOK, Connection, ConnectAccept, ConnectCloseOutage,
         ConnectBrief, ConnectUpAlert, ConnectSettle, ConnectFails, Message, Drop,
         TriggerUp, FinishReconnect
<1>1. UNCHANGED <<alarmPc, job>> /\ stored'.pendingRetry = stored.pendingRetry
  BY <1>0, ConnectionTimer
<1>2. \A a \in alerts' \ alerts : /\ pc[s] = "upAlert" /\ a.id = arg[s].id
                                  /\ a.type = "client_up" /\ a.attempts <= 1
  <2>1. CASE ConnectUpAlert(s)
    <3>1. PICK outcome \in (IF Notifications THEN Outcomes ELSE {0}) :
            alerts' = alerts \cup
              {[id |-> arg[s].id, type |-> "client_up", at |-> arg[s].at,
                delivered |-> outcome, attempts |-> IF Notifications THEN 1 ELSE 0]}
      BY <2>1 DEF ConnectUpAlert
    <3> QED BY <2>1, <3>1 DEF ConnectUpAlert
  <2>2. CASE ~ConnectUpAlert(s)
    BY <2>2 DEF Connection, ConnectAccept, ConnectCloseOutage, ConnectBrief,
                ConnectSettle, ConnectFails, Message, Drop
  <2> QED BY <2>1, <2>2
<1>3. pc'[s] = "upAlert" => lastId' = lastId + 1 /\ arg'[s].id = lastId'
  <2>1. CASE TriggerUp(s)
    <3>1. CASE FinishReconnect(s)
      BY <1>0, <3>1 DEF FinishReconnect
    <3>2. CASE arg' = [arg EXCEPT ![s].id = lastId + 1, ![s].at = now] /\ lastId' = lastId + 1
      <4>1. arg'[s] = [arg[s] EXCEPT !.id = lastId + 1, !.at = now]
        BY <1>0, <3>2 DEF TypeOK
      <4> QED BY <1>0, <3>2, <4>1 DEF TypeOK, ConnArg
    <3> QED BY <2>1, <3>1, <3>2 DEF TriggerUp
  <2>2. CASE \/ ConnectAccept(s) \/ ConnectUpAlert(s) \/ ConnectSettle(s) \/ ConnectFails(s)
             \/ Message(s) \/ Drop(s)
    BY <1>0, <2>2 DEF ConnectAccept, ConnectUpAlert, FinishReconnect, ConnectSettle,
                      ConnectFails, Message, Drop
  <2> QED BY <2>1, <2>2 DEF Connection, ConnectCloseOutage, ConnectBrief
<1> QED BY <1>0, <1>1, <1>2, <1>3

LEMMA OwnedBySockets ==
    ASSUME TypeInv, IdsGrow, NEW s \in Sessions, Connection(s),
           NEW id \in Int, NEW n, Owned(id, n)
    PROVE  Owned(id, n)'
<1>0. lastId \in Nat /\ lastId' \in Nat /\ lastId <= lastId'
  BY DEF TypeInv, TypeOK, IdsGrow
<1>1. id <= lastId'
  BY <1>0 DEF Owned
<1>2. ASSUME NEW t \in Sessions, pc'[t] = "upAlert"
      PROVE  arg'[t].id # id
  BY <1>0, <1>2, ConnectionAlerts DEF Owned
<1>3. ASSUME NEW a \in alerts', a.id = id
      PROVE  a.type = "client_down" /\ a.attempts <= n
  BY <1>3, ConnectionAlerts DEF Owned
<1> QED BY <1>1, <1>2, <1>3 DEF Owned

\* Sending an alert again adds one attempt to its row, and to no other.
LEMMA Resent ==
    ASSUME TypeInv, NEW id, NEW outcome, alerts' = Redeliver(alerts, id, outcome),
           NEW b \in alerts'
    PROVE  \E a \in alerts : /\ b.id = a.id /\ b.type = a.type
                             /\ b.attempts = IF a.id = id THEN a.attempts + 1 ELSE a.attempts
<1>1. PICK a \in alerts :
        b = IF a.id = id
              THEN [a EXCEPT !.delivered = IF outcome = 0 THEN @ ELSE outcome,
                             !.attempts = @ + 1]
              ELSE a
  BY Zenon DEF Redeliver
<1>2. a \in Alert
  BY DEF TypeInv, TypeOK
<1>3. ASSUME NEW d, NEW k
      PROVE  LET c == [a EXCEPT !.delivered = d, !.attempts = k]
             IN  c.id = a.id /\ c.type = a.type /\ c.attempts = k
  BY <1>2 DEF Alert
<1> QED BY <1>1, <1>3

\* The alarm handler's branches own a new identifier, or none.
LEMMA BodyOwns ==
    ASSUME TypeInv, NEW m \in Memory, NEW a, AlarmBody(m, a), UNCHANGED <<pc, arg>>,
           \A b \in alerts' : b.id <= lastId,
           \A s \in Sessions : pc[s] = "upAlert" => arg[s].id <= lastId
    PROVE  HandlerOwns' /\ stored'.pendingRetry = stored.pendingRetry
<1>1. alarmPc' \in {"idle", "ping", "outage", "alert"}
      /\ stored'.pendingRetry = stored.pendingRetry
  BY AlarmBodyTimer DEF TypeInv
<1>2. alarmPc' = "alert" => job'.alert = lastId + 1 /\ lastId' = lastId + 1
  <2>1. NoJob \in Job
    BY EmptyRecords
  <2> QED BY <2>1 DEF AlarmBody, GraceEarly, GraceOver, NormalPing, AlarmReturn, RecordOutage,
                      NoJob
<1>3. ASSUME alarmPc' = "alert"
      PROVE  Owned(job.alert, -1)'
  <2>1. lastId \in Nat /\ (\A b \in alerts' : b.id \in Nat => b.id # lastId + 1)
    BY DEF TypeInv, TypeOK
  <2>2. \A s \in Sessions : pc[s] = "upAlert" => arg[s].id \in Nat
    BY DEF TypeInv, RowsBound, Id
  <2>3. \A b \in alerts' : b.id # lastId + 1
    BY <2>1
  <2> QED BY <1>2, <1>3, <2>1, <2>2, <2>3 DEF Owned
<1> QED BY <1>1, <1>3 DEF HandlerOwns

LEMMA RetryByHandler ==
    ASSUME TypeInv, TypeOK', RetryInv, IdsGrow, AlarmHandler
    PROVE  RetryInv'
<1>0. /\ lastId \in Nat /\ lastId' \in Nat /\ lastId <= lastId'
      /\ mem \in Memory /\ stored \in Storage
      /\ UNCHANGED <<pc, arg>>
      /\ \A s \in Sessions : pc[s] = "upAlert" => arg[s].id \in Nat
      /\ \A a \in alerts : a \in Alert /\ a.id \in Nat /\ a.attempts \in Nat
  BY DEF TypeInv, TypeOK, RowsBound, Alert, Id, IdsGrow, AlarmHandler, AlarmFire, AlarmLoaded,
         AlarmRetry, AlarmAlert, AlarmDispatch, AlarmOutage, AlarmPing, AlarmFails
<1>a. \A s \in Sessions : pc'[s] = "upAlert" => arg'[s].id <= lastId'
  BY <1>0 DEF RetryInv
<1>b. ASSUME alerts' = alerts
      PROVE  RetriedOnce' /\ (\A a \in alerts' : a.id <= lastId')
  BY <1>0, <1>b DEF RetryInv, RetriedOnce
<1>c. ASSUME alerts' = alerts, NEW m \in Memory, NEW a, AlarmStart(m, a)
      PROVE  RetryInv'
  <2>1. CASE AlarmBody(m, a) /\ stored.pendingRetry = NoRetry
    <3>1. HandlerOwns' /\ stored'.pendingRetry = NoRetry
      BY <1>0, <1>c, <2>1, BodyOwns DEF RetryInv
    <3> QED BY <1>a, <1>b, <1>c, <3>1 DEF RetryInv
  <2>2. CASE /\ stored.pendingRetry # NoRetry
             /\ stored' = RetryTaken
             /\ job' = [NoJob EXCEPT !.retry = stored.pendingRetry]
             /\ alarmPc' = "retry"
             /\ UNCHANGED <<closing, lastId>>
    <3>1. stored'.pendingRetry = NoRetry /\ job'.retry = stored.pendingRetry
      BY <1>0, <2>2, EmptyRecords DEF RetryTaken, Storage, NoJob
    <3>2. Owned(job.retry.alert, 1)'
      BY <1>0, <1>c, <2>2, <3>1 DEF RetryInv, Owned
    <3> QED BY <1>a, <1>b, <1>c, <2>2, <3>1, <3>2 DEF RetryInv, HandlerOwns
  <2> QED BY <1>c, <2>1, <2>2 DEF AlarmStart
<1>d. ASSUME alerts' = alerts, alarmPc' \notin {"alert", "dispatch", "retry"},
             UNCHANGED <<stored, lastId>>
      PROVE  RetryInv'
  BY <1>0, <1>a, <1>b, <1>d DEF RetryInv, HandlerOwns, Owned
<1>1. CASE AlarmFire
  <2>1. CASE AlarmStart(mem, None)
    BY <1>0, <1>1, <1>c, <2>1 DEF AlarmFire
  <2>2. CASE alarmPc' = "load" /\ UNCHANGED <<mem, stored, closing, job, lastId>>
    BY <1>1, <1>d, <2>2 DEF AlarmFire
  <2> QED BY <1>1, <2>1, <2>2 DEF AlarmFire
<1>2. CASE AlarmLoaded
  <2>1. [mem EXCEPT !.configLoaded = TRUE] \in Memory
    BY <1>0 DEF Memory
  <2> QED BY <1>2, <1>c, <2>1 DEF AlarmLoaded
<1>3. CASE AlarmOutage \/ AlarmPing \/ AlarmFails
  BY <1>3, <1>d DEF AlarmOutage, AlarmPing, AlarmFails
<1>4. CASE AlarmAlert
  <2>1. /\ alarmPc = "alert" /\ Owned(job.alert, -1) /\ stored.pendingRetry = NoRetry
        /\ job.alert \in Nat
    BY <1>4 DEF AlarmAlert, RetryInv, HandlerOwns, TypeInv, RowsBound, Id
  <2> DEFINE row == [id |-> job.alert, type |-> "client_down", at |-> job.at,
                     delivered |-> 0, attempts |-> 0]
  <2>2. alerts' = alerts \cup {row}
    BY <1>4 DEF AlarmAlert
  <2>3. row.id = job.alert /\ row.type = "client_down" /\ row.attempts = 0
    OBVIOUS
  <2> HIDE DEF row
  <2>4. RetriedOnce' /\ (\A a \in alerts' : a.id <= lastId')
    BY <1>0, <2>1, <2>2, <2>3 DEF RetryInv, RetriedOnce, Owned
  <2>5. CASE alarmPc' = "dispatch" /\ UNCHANGED <<mem, stored, job, lastId>>
    <3>1. Owned(job.alert, 0)'
      BY <1>0, <2>1, <2>2, <2>3, <2>5 DEF Owned
    <3> QED BY <1>a, <2>1, <2>4, <2>5, <3>1 DEF RetryInv, HandlerOwns
  <2>6. CASE RecordOutage(mem, stored)
    <3>1. alarmPc' = "outage" /\ stored'.pendingRetry = NoRetry
      BY <1>0, <2>1, <2>6 DEF RecordOutage, Storage
    <3> QED BY <1>a, <2>4, <3>1 DEF RetryInv, HandlerOwns
  <2> QED BY <1>4, <2>5, <2>6 DEF AlarmAlert
<1>5. CASE AlarmDispatch
  <2>1. /\ alarmPc = "dispatch" /\ Owned(job.alert, 0) /\ stored.pendingRetry = NoRetry
    BY <1>5 DEF AlarmDispatch, RetryInv, HandlerOwns
  <2>2. PICK outcome \in Outcomes :
          /\ alerts' = Redeliver(alerts, job.alert, outcome)
          /\ \/ RecordOutage(mem, stored)
             \/ RecordOutage(mem, [stored EXCEPT !.pendingRetry =
                                   [alert |-> job.alert, restoreAlarmAt |-> Displaced]])
    BY <1>5 DEF AlarmDispatch
  <2>3. ASSUME NEW b \in alerts'
        PROVE  /\ b.attempts <= IF b.type = "client_down" THEN 2 ELSE 1
               /\ b.id <= lastId'
               /\ b.id = job.alert => b.type = "client_down" /\ b.attempts <= 1
    <3>1. PICK a \in alerts :
            /\ b.id = a.id /\ b.type = a.type
            /\ b.attempts = IF a.id = job.alert THEN a.attempts + 1 ELSE a.attempts
      BY <2>2, Resent
    <3> QED BY <1>0, <2>1, <3>1 DEF RetryInv, RetriedOnce, Owned
  <2>4. /\ alarmPc' = "outage"
        /\ \/ stored'.pendingRetry = NoRetry
           \/ stored'.pendingRetry.alert = job.alert
    <3> DEFINE retry == [alert |-> job.alert, restoreAlarmAt |-> Displaced]
    <3>1. retry.alert = job.alert
      OBVIOUS
    <3> HIDE DEF retry
    <3>2. CASE RecordOutage(mem, stored)
      BY <1>0, <2>1, <3>2 DEF RecordOutage, Storage
    <3>3. CASE RecordOutage(mem, [stored EXCEPT !.pendingRetry = retry])
      <4>1. stored'.pendingRetry = retry
        BY <1>0, <3>3 DEF RecordOutage, Storage
      <4> QED BY <3>1, <3>3, <4>1 DEF RecordOutage
    <3> QED BY <2>2, <3>2, <3>3 DEF retry
  <2>5. stored'.pendingRetry # NoRetry => Owned(stored.pendingRetry.alert, 1)'
    <3>1. job.alert <= lastId' /\ \A s \in Sessions : pc'[s] = "upAlert" => arg'[s].id # job.alert
      <4>1. job.alert \in Nat
        BY <2>1 DEF TypeInv, RowsBound, Id
      <4> QED BY <1>0, <2>1, <4>1 DEF Owned
    <3> QED BY <2>3, <2>4, <3>1 DEF Owned
  <2> QED BY <1>a, <2>3, <2>4, <2>5 DEF RetryInv, RetriedOnce, HandlerOwns
<1>6. CASE AlarmRetry
  <2>1. alarmPc = "retry" /\ Owned(job.retry.alert, 1) /\ stored.pendingRetry = NoRetry
    BY <1>6 DEF AlarmRetry, RetryInv, HandlerOwns
  <2>2. PICK outcome : alerts' = Redeliver(alerts, job.retry.alert, outcome)
    BY <1>6 DEF AlarmRetry
  <2>3. ASSUME NEW b \in alerts'
        PROVE  /\ b.attempts <= IF b.type = "client_down" THEN 2 ELSE 1
               /\ b.id <= lastId
    <3>1. PICK a \in alerts :
            /\ b.id = a.id /\ b.type = a.type
            /\ b.attempts = IF a.id = job.retry.alert THEN a.attempts + 1 ELSE a.attempts
      BY <2>2, Resent
    <3> QED BY <1>0, <2>1, <3>1 DEF RetryInv, RetriedOnce, Owned
  <2>4. HandlerOwns' /\ stored'.pendingRetry = NoRetry
    <3>1. CASE AlarmReturn(mem, job.retry.restoreAlarmAt)
      BY <2>1, <3>1 DEF AlarmReturn, HandlerOwns
    <3>2. CASE AlarmBody(mem, alarm)
      BY <1>0, <2>1, <2>3, <3>2, BodyOwns DEF RetryInv
    <3> QED BY <1>6, <3>1, <3>2 DEF AlarmRetry
  <2>5. \A b \in alerts' : b.id <= lastId'
    <3>1. \A b \in alerts' : b.id \in Nat
      BY DEF TypeOK, Alert, Id
    <3> QED BY <1>0, <2>3, <3>1
  <2> QED BY <1>a, <2>3, <2>4, <2>5 DEF RetryInv, RetriedOnce
<1> QED BY <1>1, <1>2, <1>3, <1>4, <1>5, <1>6 DEF AlarmHandler

LEMMA RetryStep ==
    ASSUME TypeInv, TypeInv', RetryInv, [Next]_vars
    PROVE  RetryInv'
<1>0. IdsGrow /\ lastId \in Nat /\ lastId' \in Nat /\ lastId <= lastId'
  BY IdsGrowStep DEF IdsGrow, TypeInv, TypeOK
<1>1. ASSUME NEW s \in Sessions, Connection(s)
      PROVE  RetryInv'
  <2>1. /\ \A a \in alerts : a.id \in Nat /\ a.attempts \in Nat
        /\ \A t \in Sessions : pc[t] = "upAlert" => arg[t].id \in Nat
    BY DEF TypeInv, TypeOK, RowsBound, Alert, Id
  <2>2. job.alert \in Int /\ job.retry.alert \in Int /\ stored.pendingRetry.alert \in Int
    BY DEF TypeInv, TypeOK, Job, Storage, Retry, NoRetry, MaybeId, Id, None
  <2>3. RetriedOnce' /\ (\A a \in alerts' : a.id <= lastId')
    BY <1>0, <1>1, <2>1, ConnectionAlerts DEF RetryInv, RetriedOnce
  <2>4. \A t \in Sessions : pc'[t] = "upAlert" => arg'[t].id <= lastId'
    BY <1>0, <1>1, <2>1, ConnectionAlerts DEF RetryInv
  <2>5. UNCHANGED <<alarmPc, job>> /\ stored'.pendingRetry = stored.pendingRetry
    BY <1>1, ConnectionAlerts
  <2>6. ASSUME NEW id \in Int, NEW n, Owned(id, n)
        PROVE  Owned(id, n)'
    BY <1>0, <1>1, <2>6, OwnedBySockets
  <2>7. ASSUME Owned(job.alert, -1)
        PROVE  Owned(job.alert, -1)'
    <3>1. PICK id \in Int : id = job.alert
      BY <2>2
    <3>2. Owned(id, -1)
      BY <2>7, <3>1 DEF Owned
    <3>3. Owned(id, -1)'
      BY <2>6, <3>2
    <3> QED BY <2>5, <3>1, <3>3 DEF Owned
  <2>8. ASSUME Owned(job.alert, 0)
        PROVE  Owned(job.alert, 0)'
    <3>1. PICK id \in Int : id = job.alert
      BY <2>2
    <3>2. Owned(id, 0)
      BY <2>8, <3>1 DEF Owned
    <3>3. Owned(id, 0)'
      BY <2>6, <3>2
    <3> QED BY <2>5, <3>1, <3>3 DEF Owned
  <2>9. ASSUME Owned(job.retry.alert, 1)
        PROVE  Owned(job.retry.alert, 1)'
    <3>1. PICK id \in Int : id = job.retry.alert
      BY <2>2
    <3>2. Owned(id, 1)
      BY <2>9, <3>1 DEF Owned
    <3>3. Owned(id, 1)'
      BY <2>6, <3>2
    <3> QED BY <2>5, <3>1, <3>3 DEF Owned
  <2>10. ASSUME Owned(stored.pendingRetry.alert, 1)
        PROVE  Owned(stored.pendingRetry.alert, 1)'
    <3>1. PICK id \in Int : id = stored.pendingRetry.alert
      BY <2>2
    <3>2. Owned(id, 1)
      BY <2>10, <3>1 DEF Owned
    <3>3. Owned(id, 1)'
      BY <2>6, <3>2
    <3> QED BY <2>5, <3>1, <3>3 DEF Owned
  <2> QED BY <2>3, <2>4, <2>5, <2>7, <2>8, <2>9, <2>10 DEF RetryInv, HandlerOwns
<1>2. CASE AlarmHandler
  BY <1>0, <1>2, RetryByHandler DEF TypeInv
<1>3. CASE DropArm \/ DropFails \/ Command \/ Hibernate \/ LoseClient \/ Tick \/ UNCHANGED vars
  <2>1. UNCHANGED <<alerts, lastId, pc, arg, alarmPc, job>>
    BY <1>3 DEF DropArm, DropFails, Command, Pause, Resume, Disconnect, Issue, Hibernate,
                LoseClient, Tick, vars
  <2>2. stored'.pendingRetry = stored.pendingRetry
    BY <1>3 DEF DropArm, DropFails, Command, Pause, Resume, Disconnect, Issue, Hibernate,
                LoseClient, Tick, vars, TypeInv, TypeOK, Storage
  <2> QED BY <2>1, <2>2 DEF RetryInv, HandlerOwns, Owned, RetriedOnce
<1>4. CASE Crash
  <2>1. /\ UNCHANGED <<alerts, lastId, stored>> /\ alarmPc' = "idle"
        /\ \A s \in Sessions : pc'[s] # "upAlert"
    BY <1>4 DEF Crash
  <2> QED BY <2>1 DEF RetryInv, HandlerOwns, Owned, RetriedOnce
<1> QED BY <1>1, <1>2, <1>3, <1>4 DEF Next

\* No alert is sent more than twice, and no client_up more than once,
\* whatever fails and at whatever step the object dies: the retry leaves the
\* storage before it is sent, and no other handler knows its identifier.
THEOREM NoSecondRetry == Spec => []RetriedOnce
<1>1. Init => RetryInv
  BY DEF Init, RetryInv, RetriedOnce, HandlerOwns
<1>2. TypeInv /\ TypeInv' /\ RetryInv /\ [Next]_vars => RetryInv'
  BY RetryStep
<1>3. RetryInv => RetriedOnce
  BY DEF RetryInv
<1> QED BY <1>1, <1>2, <1>3, TypeInvAlways, PTL DEF Spec

=============================================================================
