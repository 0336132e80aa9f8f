------------------------ MODULE Connectivity_proofs ------------------------
(***************************************************************************)
(* Proofs about Connectivity: its types, that a reported outage covers no  *)
(* time online, that an acknowledged batch has all its outages, and that   *)
(* no outage is reported twice.                                            *)
(***************************************************************************)
EXTENDS Connectivity, FiniteSetTheorems, SequenceTheorems, TLAPS

-----------------------------------------------------------------------------
(***************************************************************************)
(* Facts about the operators.                                              *)
(***************************************************************************)

\* The log grows at its end.
LEMMA LogAppends ==
    ASSUME events \in Seq(Event), now \in Time,
           NEW e \in {"disconnected", "connected"}, Log(e)
    PROVE  /\ events' \in Seq(Event)
           /\ Len(events') = Len(events) + 1 /\ Len(events) \in Nat
           /\ \A i \in 1..Len(events) : events'[i] = events[i]
           /\ events'[Len(events) + 1] = [event |-> e, at |-> now]
<1>1. [event |-> e, at |-> now] \in Event
  BY DEF Event
<1> QED
  BY <1>1, AppendProperties DEF Log

\* A new delay is within the limits, and the jitter is less than the delay.
LEMMA BackOffTypes ==
    ASSUME ConstantsOK, now \in Time, backoff \in MinDelay..MaxDelay, BackOff
    PROVE  wakeAt' \in Nat /\ backoff' \in MinDelay..MaxDelay
<1> USE DEF ConstantsOK
<1>1. PICK jitter \in Jitter : wakeAt' = now + backoff + jitter
  BY DEF BackOff
<1>2. backoff \in Nat /\ backoff >= MinDelay /\ backoff <= MaxDelay /\ now \in Nat
  BY DEF Time
<1>3. Quarter \in Nat /\ Quarter <= backoff
  BY <1>2 DEF Quarter
<1>4. jitter \in Int /\ jitter >= -Quarter
  BY <1>1, <1>3 DEF Jitter
<1>5. wakeAt' \in Nat
  BY <1>1, <1>2, <1>3, <1>4
<1>6. backoff' \in MinDelay..MaxDelay
  BY <1>2 DEF BackOff, Doubled
<1> QED
  BY <1>5, <1>6

LEMMA RowTypes ==
    ASSUME outages \subseteq Outage, IsFiniteSet(outages),
           NEW start \in Time, NEW end \in Time \cup {None}, NEW by \in Source
    PROVE  Row(start, end, by) \subseteq Outage /\ IsFiniteSet(Row(start, end, by))
<1>1. Cardinality(outages) + 1 \in Nat
  BY FS_CardinalityType
<1>2. [id |-> Cardinality(outages) + 1, start |-> start, end |-> end, by |-> by] \in Outage
  BY <1>1 DEF Outage
<1> QED
  BY <1>2, FS_AddElement DEF Row

\* What the monitor does when the client is back: the outages it leaves are the
\* ones there were, those still open closed, and perhaps a brief one of its own.
LEMMA MonitorSeesTypes ==
    ASSUME now \in Time, monitor \in Time \cup {None},
           outages \subseteq Outage, IsFiniteSet(outages), MonitorSees
    PROVE  /\ monitor' = None
           /\ outages' \subseteq Outage /\ IsFiniteSet(outages')
           /\ \A o \in outages : \E q \in outages' : q.start = o.start
           /\ \A q \in outages' : q \in outages \/ q.by = "monitor" \/ q.end = now
           /\ \A q \in outages' : q \notin outages /\ q.by # "monitor" =>
                \E o \in outages : o.end = None /\ o.by = q.by
<1>0. monitor' = None
  BY DEF MonitorSees
<1>1. CASE monitor = None
  BY <1>0, <1>1 DEF MonitorSees
<1>2. CASE monitor # None /\ \A o \in outages : o.end # None
  <2>1. outages' = Row(monitor, now, "monitor")
    BY <1>2 DEF MonitorSees
  <2>2. outages' \subseteq Outage /\ IsFiniteSet(outages')
    BY <1>2, <2>1, RowTypes DEF Source
  <2> QED
    BY <1>0, <2>1, <2>2 DEF Row
<1>3. CASE monitor # None /\ ~\A o \in outages : o.end # None
  <2> DEFINE Closed(o) == IF o.end = None THEN [o EXCEPT !.end = now] ELSE o
  <2> DEFINE f == [o \in outages |-> Closed(o)]
  <2>1. outages' = {Closed(o) : o \in outages}
    BY <1>3 DEF MonitorSees
  <2>2. f \in Surjection(outages, outages')
    BY <2>1 DEF Surjection
  <2>3. IsFiniteSet(outages')
    BY <2>2, FS_Surjection
  <2>4. \A o \in outages : /\ Closed(o) \in Outage
                           /\ Closed(o).start = o.start /\ Closed(o).by = o.by
                           /\ o.end # None => Closed(o) = o
                           /\ o.end = None => Closed(o).end = now
    BY DEF Outage
  <2> HIDE DEF Closed
  <2> QED
    BY <1>0, <2>1, <2>3, <2>4
<1> QED
  BY <1>1, <1>2, <1>3

\* The pair that is handled first.
Earliest(todo) == CHOOSE p \in todo : \A q \in todo : p[1] <= q[1]

LEMMA EarliestIn ==
    ASSUME NEW todo \in SUBSET (Ids \X Ids), todo # {}
    PROVE  Earliest(todo) \in todo
<1> DEFINE Starts == {p[1] : p \in todo}
<1>1. Starts \subseteq Nat /\ Starts # {}
  BY DEF Ids
<1> DEFINE Less == {ss \in Nat \X Nat : ss[1] < ss[2]}
<1>2. IsWellFoundedOn(Less, Nat)
  BY NatLessThanWellFounded, Zenon DEF OpToRel
<1>3. PICK s \in Starts : \A r \in Starts : ~(<<r, s>> \in Less)
  <2> HIDE DEF Less, Starts
  <2> QED
    BY <1>1, <1>2, WFMin
<1>4. \A r \in Starts : s <= r
  <2> SUFFICES ASSUME NEW r \in Starts PROVE s <= r
    OBVIOUS
  <2> HIDE DEF Starts
  <2>1. r \in Nat /\ s \in Nat
    BY <1>1
  <2>2. ~(r < s)
    BY <1>3, <2>1
  <2> QED
    BY <2>1, <2>2
<1>5. \E p \in todo : \A q \in todo : p[1] <= q[1]
  BY <1>4
<1> QED
  BY <1>5 DEF Earliest

-----------------------------------------------------------------------------
(***************************************************************************)
(* Types.  A handler that is at a statement has a pair to handle.          *)
(***************************************************************************)
Busy == {"check", "insert", "alertCheck", "alertInsert"}

TypeInv ==
    /\ TypeOK
    /\ IsFiniteSet(outages)
    /\ \A d \in Drains : handler[d].pc \in Busy => handler[d].todo # {}

\* The daemon's steps, which leave the drains and the handlers.
LocalOK ==
    /\ client \in {"waiting", "online", "down"}
    /\ wakeAt \in Nat
    /\ backoff \in MinDelay..MaxDelay
    /\ events \in Seq(Event)
    /\ synced \subseteq Ids
    /\ kills \in 0..MaxKills

DrainOK == drain \in [Drains -> [pc : {"new", "fetch", "sent", "over"}, ids : SUBSET Ids]]
HandlerOK ==
    /\ handler \in [Drains -> [pc : {"none", "check", "insert", "alertCheck",
                                    "alertInsert", "done", "failed"},
                              todo : SUBSET (Ids \X Ids)]]
    /\ \A d \in Drains : handler[d].pc \in Busy => handler[d].todo # {}

TablesOK ==
    /\ monitor \in Time \cup {None}
    /\ outages \subseteq Outage /\ IsFiniteSet(outages)
    /\ alerts \subseteq Alert

ClockOK == now \in Time /\ onlineAt \subseteq Time /\ crossed \subseteq Time \X Time

LEMMA TypeInvParts == TypeInv <=> LocalOK /\ DrainOK /\ HandlerOK /\ TablesOK /\ ClockOK
BY DEF TypeInv, TypeOK, LocalOK, DrainOK, HandlerOK, TablesOK, ClockOK

\* A longer log has all the identifiers it had.
LEMMA IdsGrow ==
    ASSUME TypeInv, events' \in Seq(Event), Len(events') >= Len(events)
    PROVE  Ids \subseteq Ids'
BY DEF Ids, TypeInv, TypeOK

LEMMA TypesOfLonger ==
    ASSUME TypeInv, Ids \subseteq Ids', UNCHANGED <<drain, handler>>
    PROVE  DrainOK' /\ HandlerOK'
<1>1. ASSUME NEW d \in Drains
      PROVE  /\ drain[d] \in [pc : {"new", "fetch", "sent", "over"}, ids : SUBSET Ids']
             /\ handler[d] \in [pc : {"none", "check", "insert", "alertCheck",
                                     "alertInsert", "done", "failed"},
                               todo : SUBSET (Ids' \X Ids')]
  BY DEF TypeInv, TypeOK
<1> QED
  BY <1>1 DEF TypeInv, TypeOK, DrainOK, HandlerOK, Drains

LEMMA HandledTypes ==
    ASSUME NEW todo \in SUBSET (Ids \X Ids)
    PROVE  /\ Handled(todo) \in [pc : {"none", "check", "insert", "alertCheck",
                                       "alertInsert", "done", "failed"},
                                 todo : SUBSET (Ids \X Ids)]
           /\ Handled(todo).todo = todo
           /\ todo = {} => Handled(todo).pc = "done"
           /\ todo # {} => Handled(todo).pc = "check"
BY DEF Handled

\* What a handler becomes: one with something to do when it is busy.
LEMMA HandlerGoes ==
    ASSUME HandlerOK, UNCHANGED events, NEW d \in Drains,
           NEW h \in [pc : {"none", "check", "insert", "alertCheck", "alertInsert", "done",
                            "failed"},
                      todo : SUBSET (Ids \X Ids)],
           h.pc \in Busy => h.todo # {},
           handler' = [handler EXCEPT ![d] = h]
    PROVE  HandlerOK'
<1>1. Ids' = Ids
  BY DEF Ids
<1>2. \A c \in Drains : handler'[c] = IF c = d THEN h ELSE handler[c]
  BY DEF HandlerOK
<1>3. \A c \in Drains : handler'[c].pc \in Busy => handler'[c].todo # {}
  BY <1>2 DEF HandlerOK
<1> QED
  BY <1>1, <1>3 DEF HandlerOK

LEMMA TypeDaemon == ASSUME TypeInv, Daemon PROVE TypeInv'
<1> USE ConstantsOK
<1>0. LocalOK /\ DrainOK /\ HandlerOK /\ TablesOK /\ ClockOK
  BY TypeInvParts
<1>1. ASSUME NEW e \in {"disconnected", "connected"}, Log(e)
      PROVE  events' \in Seq(Event) /\ Ids \subseteq Ids'
  <2>1. events' \in Seq(Event) /\ Len(events') = Len(events) + 1 /\ Len(events) \in Nat
    BY <1>0, <1>1, LogAppends DEF LocalOK, ClockOK
  <2> QED
    BY <2>1, IdsGrow
<1>2. ASSUME NEW d \in Drains, Connect(d) PROVE TypeInv'
  <2>1. /\ Log("connected") /\ MonitorSees
        /\ client' = "online" /\ backoff' = MinDelay
        /\ drain' = [drain EXCEPT ![d].pc = "fetch"]
        /\ UNCHANGED <<now, wakeAt, synced, kills, handler, alerts, onlineAt, crossed>>
    BY <1>2 DEF Connect, history
  <2>2. events' \in Seq(Event) /\ Ids \subseteq Ids'
    BY <1>1, <2>1
  <2>3. LocalOK'
    BY <1>0, <2>1, <2>2 DEF LocalOK, ConstantsOK
  <2>4. DrainOK'
    <3>1. \A c \in Drains : drain[c] \in [pc : {"new", "fetch", "sent", "over"}, ids : SUBSET Ids']
      BY <1>0, <2>2 DEF DrainOK
    <3> QED
      BY <2>1, <3>1, <1>0 DEF DrainOK, Drains
  <2>5. HandlerOK'
    <3>1. \A c \in Drains : handler[c] \in [pc : {"none", "check", "insert", "alertCheck",
                                     "alertInsert", "done", "failed"},
                               todo : SUBSET (Ids' \X Ids')]
      BY <1>0, <2>2 DEF HandlerOK
    <3> QED
      BY <2>1, <3>1, <1>0 DEF HandlerOK, Drains
  <2>6. TablesOK' /\ ClockOK'
    <3>1. monitor' = None /\ outages' \subseteq Outage /\ IsFiniteSet(outages')
      BY <1>0, <2>1, MonitorSeesTypes DEF TablesOK, ClockOK
    <3> QED
      BY <1>0, <2>1, <3>1 DEF TablesOK, ClockOK
  <2> QED
    BY <2>3, <2>4, <2>5, <2>6 DEF TypeInv, TypeOK, LocalOK, DrainOK, HandlerOK,
       TablesOK, ClockOK
<1>3. CASE ConnectFails \/ Lose
  <2>1. /\ Log("disconnected") /\ BackOff
        /\ client' = "waiting"
        /\ UNCHANGED <<now, synced, kills, drain, handler, monitor, tables, onlineAt, crossed>>
    BY <1>3 DEF ConnectFails, Lose, history
  <2>2. events' \in Seq(Event) /\ Ids \subseteq Ids'
    BY <1>1, <2>1
  <2>3. wakeAt' \in Nat /\ backoff' \in MinDelay..MaxDelay
    BY <1>0, <2>1, BackOffTypes DEF LocalOK, ClockOK
  <2>4. LocalOK'
    BY <1>0, <2>1, <2>2, <2>3 DEF LocalOK
  <2>5. DrainOK' /\ HandlerOK'
    BY <2>1, <2>2, TypesOfLonger
  <2>6. TablesOK' /\ ClockOK'
    BY <1>0, <2>1 DEF TablesOK, ClockOK, tables
  <2> QED
    BY <2>4, <2>5, <2>6 DEF TypeInv, TypeOK, LocalOK, DrainOK, HandlerOK,
       TablesOK, ClockOK
<1>4. CASE Kill \/ Start
  <2>1. LocalOK'
    BY <1>0, <1>4 DEF Kill, Start, LocalOK, ConstantsOK, Ids, ClockOK, Time
  <2>2. DrainOK'
    BY <1>0, <1>4 DEF Kill, Start, DrainOK, Ids
  <2>3. HandlerOK'
    BY <1>0, <1>4 DEF Kill, Start, HandlerOK, Ids
  <2>4. TablesOK' /\ ClockOK'
    BY <1>0, <1>4 DEF Kill, Start, TablesOK, ClockOK, tables, history
  <2> QED
    BY <2>1, <2>2, <2>3, <2>4 DEF TypeInv, TypeOK, LocalOK, DrainOK, HandlerOK, TablesOK,
       ClockOK
<1> QED
  BY <1>2, <1>3, <1>4 DEF Daemon

LEMMA TypeSync == ASSUME TypeInv, NEW d \in Drains, Sync(d) PROVE TypeInv'
<1>0. LocalOK /\ DrainOK /\ HandlerOK /\ TablesOK /\ ClockOK
  BY TypeInvParts
<1>1. UNCHANGED <<now, client, wakeAt, backoff, events, kills, monitor, tables, onlineAt,
               crossed>>
  BY DEF Sync, Fetch, Answered, Unanswered, local, history
<1>2. TablesOK' /\ ClockOK' /\ Ids' = Ids
  BY <1>0, <1>1 DEF TablesOK, ClockOK, tables, Ids
<1>3. LocalOK'
  <2>1. synced' \subseteq Ids
    BY <1>0 DEF Sync, Fetch, Answered, Unanswered, local, LocalOK, DrainOK
  <2> QED
    BY <1>0, <1>1, <1>2, <2>1 DEF LocalOK
<1>4. DrainOK'
  <2>1. Batch \subseteq Ids
    BY DEF Batch, Unsynced
  <2>2. DrainOK /\ (Fetch(d) \/ Answered(d) \/ Unanswered(d))
    BY <1>0 DEF Sync
  <2> QED
    BY <1>2, <2>1, <2>2 DEF Fetch, Answered, Unanswered, DrainOK
<1>5. HandlerOK'
  <2>1. CASE UNCHANGED handler
    BY <1>0, <1>2, <2>1 DEF HandlerOK
  <2>2. CASE handler' = [handler EXCEPT ![d] = Handled(Work(Batch))]
    <3>1. Work(Batch) \in SUBSET (Ids \X Ids)
      BY DEF Work, Pairs, Batch, Unsynced
    <3>2. /\ Handled(Work(Batch)) \in [pc : {"none", "check", "insert", "alertCheck",
                                             "alertInsert", "done", "failed"},
                                       todo : SUBSET (Ids \X Ids)]
          /\ Handled(Work(Batch)).pc \in Busy => Handled(Work(Batch)).todo # {}
      BY <3>1, HandledTypes DEF Busy
    <3> QED
      BY <1>0, <1>1, <2>2, <3>2, HandlerGoes
  <2>3. CASE handler' = [handler EXCEPT ![d] = NoHandler]
    <3>1. /\ NoHandler \in [pc : {"none", "check", "insert", "alertCheck",
                                   "alertInsert", "done", "failed"},
                             todo : SUBSET (Ids \X Ids)]
          /\ NoHandler.pc \notin Busy
      BY DEF NoHandler, Busy
    <3> QED
      BY <1>0, <1>1, <2>3, <3>1, HandlerGoes
  <2> QED
    BY <2>1, <2>2, <2>3 DEF Sync, Fetch, Answered, Unanswered
<1> QED
  BY <1>2, <1>3, <1>4, <1>5 DEF TypeInv, TypeOK, LocalOK, DrainOK, HandlerOK, TablesOK, ClockOK

\* The first pair of a busy handler is one of its pairs.
LEMMA CurrentIn ==
    ASSUME TypeInv, NEW d \in Drains, handler[d].pc \in Busy
    PROVE  /\ Current(d) = Earliest(handler[d].todo)
           /\ Current(d) \in handler[d].todo
           /\ Current(d) \in Ids \X Ids
           /\ events[Current(d)[1]] \in Event /\ events[Current(d)[2]] \in Event
<1>1. handler[d].todo \in SUBSET (Ids \X Ids) /\ handler[d].todo # {}
  BY DEF TypeInv, TypeOK
<1>2. Current(d) = Earliest(handler[d].todo)
  BY DEF Current, Earliest
<1>3. Current(d) \in handler[d].todo
  BY <1>1, <1>2, EarliestIn
<1>4. events \in Seq(Event)
  BY DEF TypeInv, TypeOK
<1> QED
  BY <1>1, <1>2, <1>3, <1>4 DEF Ids

LEMMA TypeHandle ==
    ASSUME TypeInv, NEW d \in Drains, Handle(d) \/ HandlerFails(d) PROVE TypeInv'
<1>0. LocalOK /\ DrainOK /\ HandlerOK /\ TablesOK /\ ClockOK
  BY TypeInvParts
<1>1. UNCHANGED <<now, local, drain, monitor, onlineAt>> /\ handler[d].pc \in Busy
  BY DEF Handle, Check, Insert, AlertCheck, AlertInsert, HandlerFails, tables, Busy, history
<1>2. LocalOK' /\ DrainOK' /\ ClockOK' /\ Ids' = Ids
  <2>1. ASSUME NEW c \in Drains, handler[c].pc = "insert"
        PROVE  StartOf(c) \in Time
    BY <2>1, CurrentIn DEF Busy, StartOf, Event
  <2>2. crossed' \subseteq Time \X Time
    <3>1. CASE Insert(d)
      <4>1. /\ handler[d].pc = "insert"
            /\ \A x \in crossed' : \/ x \in crossed
                                   \/ \E c \in Drains : /\ handler[c].pc = "insert"
                                                       /\ x = <<StartOf(c), StartOf(d)>>
        BY <3>1 DEF Insert
      <4> QED
        BY <1>0, <2>1, <4>1 DEF ClockOK
    <3>2. CASE ~Insert(d)
      BY <1>0, <3>2 DEF Handle, Check, AlertCheck, AlertInsert, HandlerFails, history, ClockOK
    <3> QED
      BY <3>1, <3>2
  <2> QED
    BY <1>0, <1>1, <2>2 DEF LocalOK, DrainOK, ClockOK, local, Ids
<1>3. handler[d].todo \in SUBSET (Ids \X Ids) /\ handler[d].todo # {}
  BY <1>0, <1>1 DEF HandlerOK
<1>4. HandlerOK'
  <2>0. UNCHANGED events
    BY <1>1 DEF local
  <2>1. CASE handler' = NextPair(d)
    <3> DEFINE h == Handled(handler[d].todo \ {Current(d)})
    <3>1. /\ h \in [pc : {"none", "check", "insert", "alertCheck", "alertInsert", "done",
                          "failed"},
                    todo : SUBSET (Ids \X Ids)]
          /\ h.pc \in Busy => h.todo # {}
      BY <1>3, HandledTypes DEF Busy
    <3>2. handler' = [handler EXCEPT ![d] = h]
      BY <2>1 DEF NextPair
    <3> HIDE DEF h
    <3> QED
      BY <1>0, <2>0, <3>1, <3>2, HandlerGoes
  <2>2. ASSUME NEW pc \in Busy, handler' = [handler EXCEPT ![d].pc = pc] PROVE HandlerOK'
    <3> DEFINE h == [pc |-> pc, todo |-> handler[d].todo]
    <3>1. [handler[d] EXCEPT !.pc = pc] = h
      BY <1>0 DEF HandlerOK
    <3>2. handler' = [handler EXCEPT ![d] = h]
      <4> HIDE DEF h
      <4> QED
        BY <2>2, <3>1
    <3>3. /\ h \in [pc : {"none", "check", "insert", "alertCheck", "alertInsert", "done",
                          "failed"},
                    todo : SUBSET (Ids \X Ids)]
          /\ h.todo # {}
      BY <1>3, <2>2 DEF Busy
    <3> HIDE DEF h
    <3> QED
      BY <1>0, <2>0, <3>2, <3>3, HandlerGoes
  <2>3. CASE HandlerFails(d)
    <3> DEFINE h == [pc |-> "failed", todo |-> {}]
    <3>1. handler' = [handler EXCEPT ![d] = h]
      BY <2>3 DEF HandlerFails
    <3>2. /\ h \in [pc : {"none", "check", "insert", "alertCheck", "alertInsert", "done",
                          "failed"},
                    todo : SUBSET (Ids \X Ids)]
          /\ h.pc \notin Busy
      BY DEF Busy
    <3> HIDE DEF h
    <3> QED
      BY <1>0, <2>0, <3>1, <3>2, HandlerGoes
  <2>4. handler' = NextPair(d) \/ (\E pc \in Busy : handler' = [handler EXCEPT ![d].pc = pc])
          \/ HandlerFails(d)
    BY DEF Handle, Check, Insert, AlertCheck, AlertInsert, Busy
  <2> QED
    BY <2>1, <2>2, <2>3, <2>4
<1>5. TablesOK'
  <2>1. CASE Insert(d)
    <3>1. outages' = Row(StartOf(d), EndOf(d), "client") /\ UNCHANGED <<alerts, monitor>>
      BY <2>1 DEF Insert
    <3>2. StartOf(d) \in Time /\ EndOf(d) \in Time
      BY <1>1, CurrentIn DEF StartOf, EndOf, Event
    <3>3. outages' \subseteq Outage /\ IsFiniteSet(outages')
      BY <1>0, <3>1, <3>2, RowTypes DEF TablesOK, Source
    <3> QED
      BY <1>0, <3>1, <3>3 DEF TablesOK
  <2>2. CASE AlertInsert(d)
    <3>1. /\ alerts' = alerts \cup {[at |-> now, end |-> EndOf(d), by |-> "client"]}
          /\ UNCHANGED <<outages, monitor>>
      BY <2>2 DEF AlertInsert
    <3>2. EndOf(d) \in Time /\ now \in Time
      BY <1>0, <1>1, CurrentIn DEF EndOf, Event, ClockOK
    <3>3. [at |-> now, end |-> EndOf(d), by |-> "client"] \in Alert
      BY <3>2 DEF Alert, Source
    <3> QED
      BY <1>0, <3>1, <3>3 DEF TablesOK
  <2>3. CASE Check(d) \/ AlertCheck(d) \/ HandlerFails(d)
    BY <1>0, <2>3 DEF Check, AlertCheck, HandlerFails, TablesOK, tables
  <2> QED
    BY <2>1, <2>2, <2>3 DEF Handle
<1> QED
  BY <1>2, <1>4, <1>5 DEF TypeInv, TypeOK, LocalOK, DrainOK, HandlerOK, TablesOK, ClockOK

LEMMA TypeMonitor ==
    ASSUME TypeInv, MonitorNotices \/ MonitorRecords \/ Tick PROVE TypeInv'
<1> USE ConstantsOK
<1>0. LocalOK /\ DrainOK /\ HandlerOK /\ TablesOK /\ ClockOK
  BY TypeInvParts
<1>1. UNCHANGED <<local, drain, handler>>
  BY DEF MonitorNotices, MonitorRecords, Tick
<1>2. LocalOK' /\ DrainOK' /\ HandlerOK'
  BY <1>0, <1>1 DEF LocalOK, DrainOK, HandlerOK, local, Ids
<1>3. TablesOK'
  <2>1. CASE MonitorRecords
    <3>1. /\ outages' = Row(monitor, None, "monitor") /\ monitor \in Time
          /\ alerts' = alerts \cup {[at |-> now, end |-> None, by |-> "monitor"]}
          /\ UNCHANGED monitor
      BY <1>0, <2>1 DEF MonitorRecords, TablesOK
    <3>2. outages' \subseteq Outage /\ IsFiniteSet(outages')
      BY <1>0, <3>1, RowTypes DEF TablesOK, Source
    <3>3. [at |-> now, end |-> None, by |-> "monitor"] \in Alert
      BY <1>0 DEF Alert, Source, ClockOK
    <3> QED
      BY <1>0, <3>1, <3>2, <3>3 DEF TablesOK
  <2>2. CASE MonitorNotices \/ Tick
    BY <1>0, <2>2 DEF MonitorNotices, Tick, TablesOK, ClockOK, tables
  <2> QED
    BY <2>1, <2>2
<1>4. ClockOK'
  <2>1. CASE Tick
    <3>1. now \in 0..MaxTime /\ now < MaxTime /\ now' = now + 1 /\ onlineAt \subseteq 0..MaxTime
      BY <1>0, <2>1 DEF Tick, ClockOK, Time
    <3>2. onlineAt' \subseteq 0..MaxTime
      BY <2>1, <3>1 DEF Tick
    <3>3. crossed' \subseteq Time \X Time
      BY <1>0, <2>1 DEF Tick, ClockOK
    <3> QED
      BY <3>1, <3>2, <3>3 DEF ClockOK, Time, ConstantsOK
  <2>2. CASE MonitorNotices \/ MonitorRecords
    BY <1>0, <2>2 DEF MonitorNotices, MonitorRecords, ClockOK, history
  <2> QED
    BY <2>1, <2>2
<1> QED
  BY <1>2, <1>3, <1>4 DEF TypeInv, TypeOK, LocalOK, DrainOK, HandlerOK, TablesOK, ClockOK

LEMMA TypeInvHolds == Spec => []TypeInv
<1>1. Init => TypeInv
  <2> SUFFICES ASSUME Init PROVE TypeInv
    OBVIOUS
  <2> USE ConstantsOK
  <2>1. LocalOK /\ DrainOK /\ ClockOK
    BY DEF Init, LocalOK, DrainOK, ClockOK, ConstantsOK, Time, Ids
  <2>2. HandlerOK
    BY DEF Init, HandlerOK, NoHandler, Busy
  <2>3. IsFiniteSet(outages)
    BY FS_EmptySet DEF Init
  <2>4. TablesOK
    BY <2>3 DEF Init, TablesOK
  <2> QED
    BY <2>1, <2>2, <2>4, TypeInvParts
<1>2. TypeInv /\ [Next]_vars => TypeInv'
  <2> SUFFICES ASSUME TypeInv, [Next]_vars PROVE TypeInv'
    OBVIOUS
  <2>1. CASE UNCHANGED vars
    <3>1. LocalOK /\ DrainOK /\ HandlerOK /\ TablesOK /\ ClockOK
      BY TypeInvParts
    <3> QED
      BY <2>1, <3>1 DEF vars, local, tables, history, TypeInv, TypeOK, LocalOK, DrainOK,
         HandlerOK, TablesOK, ClockOK, Ids
  <2> QED
    BY <2>1, TypeDaemon, TypeSync, TypeHandle, TypeMonitor DEF Next
<1> QED
  BY <1>1, <1>2, PTL DEF Spec

\* Every variable keeps its type; in particular what a drain sends and what a
\* handler has to do are entries of the log.
THEOREM TypeCorrect == Spec => []TypeOK
<1>1. TypeInv => TypeOK
  BY DEF TypeInv
<1> QED
  BY <1>1, TypeInvHolds, PTL

-----------------------------------------------------------------------------
(***************************************************************************)
(* The log.  The client was not online between a disconnection and the     *)
(* connection that is logged next, nor since a disconnection that is last. *)
(***************************************************************************)
LogInv ==
    /\ onlineAt \subseteq 0..(now - 1)
    /\ \A i \in Ids : events[i].at <= now
    /\ \A i \in Ids : i < Len(events) /\ events[i].event = "disconnected"
                        /\ events[i + 1].event # "disconnected" =>
         \A t \in onlineAt : ~(events[i].at <= t /\ t < events[i + 1].at)
    /\ client = "online" =>
         Len(events) > 0 /\ events[Len(events)].event # "disconnected"
    /\ Len(events) > 0 /\ events[Len(events)].event = "disconnected" =>
         \A t \in onlineAt : t < events[Len(events)].at

LEMMA LogInvKept == ASSUME TypeInv, LogInv, [Next]_vars PROVE LogInv'
<1>0. /\ events \in Seq(Event) /\ Len(events) \in Nat /\ now \in Time /\ now \in Nat
      /\ onlineAt \subseteq Nat /\ Ids = 1..Len(events)
      /\ \A i \in Ids : events[i].at \in Nat
  <2>1. events \in Seq(Event) /\ now \in Time /\ onlineAt \subseteq Time
    BY DEF TypeInv, TypeOK
  <2>2. Time \subseteq Nat
    BY DEF Time
  <2>3. Len(events) \in Nat /\ \A i \in 1..Len(events) : events[i] \in Event
    BY <2>1
  <2>4. \A e \in Event : e.at \in Nat
    BY <2>2 DEF Event
  <2> QED
    BY <2>1, <2>2, <2>3, <2>4 DEF Ids
<1>1. ASSUME NEW e \in {"disconnected", "connected"}, Log(e), UNCHANGED <<now, onlineAt>>,
             client' = "online" <=> e = "connected"
      PROVE  LogInv'
  <2>1. /\ events' \in Seq(Event) /\ Len(events') = Len(events) + 1
        /\ \A i \in 1..Len(events) : events'[i] = events[i]
        /\ events'[Len(events) + 1] = [event |-> e, at |-> now]
    BY <1>0, <1>1, LogAppends
  <2>2. /\ events'[Len(events) + 1].event = e /\ events'[Len(events) + 1].at = now
        /\ Ids' = 1..(Len(events) + 1)
    BY <2>1 DEF Ids
  <2>3. \A i \in Ids' : events'[i].at <= now
    BY <1>0, <2>1, <2>2 DEF LogInv
  <2>4. ASSUME NEW i \in Ids', i < Len(events'), events'[i].event = "disconnected",
               events'[i + 1].event # "disconnected", NEW t \in onlineAt,
               events'[i].at <= t, t < events'[i + 1].at
        PROVE  FALSE
    <3>1. i \in Ids /\ events'[i] = events[i]
      BY <1>0, <2>1, <2>2, <2>4
    <3>2. CASE i < Len(events)
      BY <1>0, <2>1, <2>4, <3>1, <3>2 DEF LogInv
    <3>3. CASE i = Len(events)
      BY <1>0, <2>1, <2>2, <2>4, <3>1, <3>3 DEF LogInv
    <3> QED
      BY <1>0, <3>1, <3>2, <3>3
  <2>5. \A t \in onlineAt : t < now
    BY <1>0 DEF LogInv
  <2> QED
    BY <1>0, <1>1, <2>1, <2>2, <2>3, <2>4, <2>5 DEF LogInv
<1>2. ASSUME UNCHANGED <<now, onlineAt, events>>, client' = "online" => client = "online"
      PROVE  LogInv'
  BY <1>2 DEF LogInv, Ids
<1>3. CASE Tick
  <2>1. now' = now + 1 /\ UNCHANGED <<events, client>>
        /\ onlineAt' = IF client = "online" THEN onlineAt \cup {now} ELSE onlineAt
    BY <1>3 DEF Tick, local
  <2>2. onlineAt' \subseteq 0..(now' - 1)
    BY <1>0, <2>1 DEF LogInv
  <2>3. \A i \in Ids : events[i].at <= now'
    <3> SUFFICES ASSUME NEW i \in Ids PROVE events[i].at <= now'
      OBVIOUS
    <3>1. events[i].at \in Nat /\ events[i].at <= now
      BY <1>0 DEF LogInv
    <3> QED
      BY <1>0, <2>1, <3>1
  <2>4. CASE client = "online"
    <3>1. ASSUME NEW i \in Ids, i < Len(events), events[i].event = "disconnected",
                 events[i + 1].event # "disconnected", NEW t \in onlineAt \cup {now},
                 events[i].at <= t, t < events[i + 1].at
          PROVE  FALSE
      <4>1. i + 1 \in Ids
        BY <1>0, <3>1
      <4>2. events[i + 1].at <= now /\ events[i + 1].at \in Nat
        BY <1>0, <4>1 DEF LogInv
      <4>3. CASE t \in onlineAt
        BY <3>1, <4>3 DEF LogInv
      <4>4. CASE t = now
        BY <1>0, <3>1, <4>2, <4>4
      <4> QED
        BY <3>1, <4>3, <4>4
    <3> QED
      BY <2>1, <2>2, <2>3, <2>4, <3>1 DEF LogInv, Ids
  <2>5. CASE client # "online"
    BY <2>1, <2>2, <2>3, <2>5 DEF LogInv, Ids
  <2> QED
    BY <2>4, <2>5
<1>4. CASE Daemon
  <2>1. ASSUME NEW d \in Drains, Connect(d) PROVE LogInv'
    BY <2>1, <1>1 DEF Connect, history
  <2>2. CASE ConnectFails \/ Lose
    BY <2>2, <1>1 DEF ConnectFails, Lose, history
  <2>3. CASE Kill \/ Start
    BY <2>3, <1>2 DEF Kill, Start, history
  <2> QED
    BY <1>4, <2>1, <2>2, <2>3 DEF Daemon
<1>5. ASSUME NEW d \in Drains, Sync(d) \/ Handle(d) \/ HandlerFails(d) PROVE LogInv'
  BY <1>5, <1>2 DEF Sync, Fetch, Answered, Unanswered, Handle, Check, Insert, AlertCheck,
     AlertInsert, HandlerFails, local, history
<1>6. CASE MonitorNotices \/ MonitorRecords
  BY <1>6, <1>2 DEF MonitorNotices, MonitorRecords, local, history
<1>7. CASE UNCHANGED vars
  BY <1>7, <1>2 DEF vars, local, history
<1> QED
  BY <1>3, <1>4, <1>5, <1>6, <1>7 DEF Next

-----------------------------------------------------------------------------
(***************************************************************************)
(* Batches.  What is synced is a first part of the log, so that a batch    *)
(* has no gaps, and a pair's two entries follow each other in the log.     *)
(***************************************************************************)
BatchInv ==
    /\ \A i \in synced, k \in Ids : k < i => k \in synced
    /\ \A d \in Drains : \A i \in drain[d].ids, k \in Ids :
         k < i => k \in synced \/ k \in drain[d].ids
    /\ \A d \in Drains : \A i \in drain[d].ids, j \in drain[d].ids, k \in Ids :
         i < k /\ k < j => k \in drain[d].ids
    /\ \A d \in Drains : \A p \in handler[d].todo :
         /\ p[2] = p[1] + 1
         /\ events[p[1]].event = "disconnected" /\ events[p[2]].event # "disconnected"

LEMMA BatchFacts ==
    ASSUME TypeInv, BatchInv
    PROVE  /\ \A i \in Batch, k \in Ids : k < i => k \in synced \/ k \in Batch
           /\ \A i \in Batch, j \in Batch, k \in Ids : i < k /\ k < j => k \in Batch
           /\ \A p \in Work(Batch) :
                /\ p[2] = p[1] + 1
                /\ events[p[1]].event = "disconnected" /\ events[p[2]].event # "disconnected"
<1>0. Len(events) \in Nat /\ Ids = 1..Len(events) /\ synced \subseteq Ids
  BY DEF TypeInv, TypeOK, Ids
<1>1. ASSUME NEW i \in Batch, NEW k \in Ids, k < i PROVE k \in synced \/ k \in Batch
  <2> DEFINE Below(n) == {j \in Unsynced : j < n}
  <2>1. CASE k \in Unsynced
    <3>1. IsFiniteSet(Below(i))
      <4>1. Below(i) \subseteq Ids /\ IsFiniteSet(Ids)
        BY <1>0, FS_Interval DEF Unsynced
      <4> QED
        BY <4>1, FS_Subset
    <3>2. Below(k) \subseteq Below(i)
      BY <1>0, <1>1 DEF Unsynced, Batch
    <3>3. Cardinality(Below(k)) <= Cardinality(Below(i)) /\ Cardinality(Below(i)) \in Nat
          /\ Cardinality(Below(k)) \in Nat
      <4> HIDE DEF Below
      <4> QED
        BY <3>1, <3>2, FS_Subset, FS_CardinalityType
    <3>4. Cardinality(Below(i)) < BatchSize /\ BatchSize \in Nat
      BY ConstantsOK DEF Batch, ConstantsOK
    <3>5. Cardinality(Below(k)) < BatchSize
      BY <3>3, <3>4
    <3> QED
      BY <2>1, <3>5 DEF Batch
  <2> QED
    BY <1>1, <2>1 DEF Unsynced
<1>2. ASSUME NEW i \in Batch, NEW j \in Batch, NEW k \in Ids, i < k, k < j
      PROVE  k \in Batch
  <2>1. i \in Ids /\ i \notin synced
    BY DEF Batch, Unsynced
  <2>2. k \notin synced
    BY <1>2, <2>1 DEF BatchInv
  <2> QED
    BY <1>1, <1>2, <2>2
<1>3. ASSUME NEW p \in Work(Batch)
      PROVE  /\ p[2] = p[1] + 1
             /\ events[p[1]].event = "disconnected" /\ events[p[2]].event # "disconnected"
  <2>1. /\ p[1] \in Batch /\ p[2] \in Batch /\ p[1] < p[2]
        /\ \A k \in Batch : ~(p[1] < k /\ k < p[2])
        /\ events[p[1]].event = "disconnected" /\ events[p[2]].event # "disconnected"
    BY DEF Work, Pairs, Disconnected
  <2>2. p[1] \in Ids /\ p[2] \in Ids
    BY <2>1 DEF Batch, Unsynced
  <2>3. CASE p[1] + 1 < p[2]
    <3>1. p[1] + 1 \in Ids
      BY <1>0, <2>2, <2>3
    <3>2. p[1] + 1 \in Batch
      BY <1>0, <1>2, <2>1, <2>2, <2>3, <3>1
    <3> QED
      BY <1>0, <2>1, <2>2, <2>3, <3>2
  <2> QED
    BY <1>0, <2>1, <2>2, <2>3
<1> QED
  BY <1>1, <1>2, <1>3

\* A longer log: what it has keeps its place.
Extends ==
    /\ Ids \subseteq Ids'
    /\ \A i \in Ids : events'[i] = events[i]
    /\ \A k \in Ids', i \in Ids : k < i => k \in Ids

LEMMA LogExtends ==
    ASSUME TypeInv, [Next]_vars PROVE Extends
<1>0. events \in Seq(Event) /\ now \in Time /\ Len(events) \in Nat /\ Ids = 1..Len(events)
  BY DEF TypeInv, TypeOK, Ids
<1>1. CASE UNCHANGED events
  BY <1>1 DEF Extends, Ids
<1>2. ASSUME NEW e \in {"disconnected", "connected"}, Log(e) PROVE Extends
  BY <1>0, <1>2, LogAppends DEF Extends, Ids
<1>3. UNCHANGED events \/ \E e \in {"disconnected", "connected"} : Log(e)
  BY DEF Next, Daemon, Connect, ConnectFails, Lose, Kill, Start, Sync, Fetch, Answered,
     Unanswered, Handle, Check, Insert, AlertCheck, AlertInsert, HandlerFails,
     MonitorNotices, MonitorRecords, Tick, vars, local
<1> QED
  BY <1>1, <1>2, <1>3

LEMMA BatchFrame ==
    ASSUME TypeInv, BatchInv, Extends,
           \A i \in synced' : i \in Ids /\ \A k \in Ids : k < i => k \in synced',
           synced \subseteq synced',
           \A d \in Drains : \/ drain'[d].ids = drain[d].ids \/ drain'[d].ids = {}
                             \/ drain'[d].ids = Batch,
           \A d \in Drains : handler'[d].todo \subseteq handler[d].todo
                             \/ handler'[d].todo = Work(Batch)
    PROVE  BatchInv'
<1>0. \A d \in Drains : drain[d].ids \subseteq Ids /\ handler[d].todo \subseteq Ids \X Ids
  BY DEF TypeInv, TypeOK
<1>1. Batch \subseteq Ids /\ Work(Batch) \subseteq Ids \X Ids
  BY DEF Batch, Unsynced, Work, Pairs
<1>2. \A i \in synced', k \in Ids' : k < i => k \in synced'
  BY DEF Extends
<1>3. ASSUME NEW d \in Drains, NEW i \in drain'[d].ids, NEW k \in Ids', k < i
      PROVE  k \in synced' \/ k \in drain'[d].ids
  <2>1. i \in Ids
    BY <1>0, <1>1, <1>3
  <2>2. k \in Ids
    BY <1>3, <2>1 DEF Extends
  <2> QED
    BY <1>3, <2>2, BatchFacts DEF BatchInv
<1>4. ASSUME NEW d \in Drains, NEW i \in drain'[d].ids, NEW j \in drain'[d].ids,
             NEW k \in Ids', i < k, k < j
      PROVE  k \in drain'[d].ids
  <2>1. j \in Ids
    BY <1>0, <1>1, <1>4
  <2>2. k \in Ids
    BY <1>4, <2>1 DEF Extends
  <2> QED
    BY <1>4, <2>2, BatchFacts DEF BatchInv
<1>5. ASSUME NEW d \in Drains, NEW p \in handler'[d].todo
      PROVE  /\ p[2] = p[1] + 1
             /\ events'[p[1]].event = "disconnected" /\ events'[p[2]].event # "disconnected"
  <2>1. p[1] \in Ids /\ p[2] \in Ids
    BY <1>0, <1>1, <1>5
  <2>2. /\ p[2] = p[1] + 1
        /\ events[p[1]].event = "disconnected" /\ events[p[2]].event # "disconnected"
    BY <1>5, BatchFacts DEF BatchInv
  <2> QED
    BY <2>1, <2>2 DEF Extends
<1> QED
  BY <1>2, <1>3, <1>4, <1>5 DEF BatchInv

LEMMA BatchInvKept == ASSUME TypeInv, BatchInv, [Next]_vars PROVE BatchInv'
<1>0. /\ Extends
      /\ synced \subseteq Ids
      /\ \A d \in Drains : drain[d].ids \subseteq Ids
      /\ DrainOK /\ HandlerOK
  BY LogExtends, TypeInvParts DEF TypeInv, TypeOK
<1>1. ASSUME UNCHANGED synced,
             \A d \in Drains : drain'[d].ids = drain[d].ids \/ drain'[d].ids = {},
             \A d \in Drains : handler'[d].todo \subseteq handler[d].todo
      PROVE  BatchInv'
  BY <1>0, <1>1, BatchFrame DEF BatchInv
<1>2. CASE Daemon
  BY <1>0, <1>1, <1>2 DEF Daemon, Connect, ConnectFails, Lose, Kill, Start, DrainOK
<1>3. ASSUME NEW d \in Drains, Fetch(d) PROVE BatchInv'
  <2>1. UNCHANGED synced
    BY <1>3 DEF Fetch, local
  <2>2. \A c \in Drains : drain'[c].ids \in {drain[c].ids, {}, Batch}
    BY <1>0, <1>3 DEF Fetch, DrainOK
  <2>3. \A c \in Drains : handler'[c].todo = handler[c].todo \/ handler'[c].todo = Work(Batch)
    BY <1>0, <1>3 DEF Fetch, HandlerOK, Handled
  <2> QED
    BY <1>0, <2>1, <2>2, <2>3, BatchFrame DEF BatchInv
<1>4. ASSUME NEW d \in Drains, Answered(d) PROVE BatchInv'
  <2>1. synced' = synced \cup drain[d].ids
    BY <1>4 DEF Answered
  <2>2. \A c \in Drains : drain'[c].ids = drain[c].ids \/ drain'[c].ids = {}
    BY <1>0, <1>4 DEF Answered, DrainOK
  <2>3. \A c \in Drains : handler'[c].todo \subseteq handler[c].todo
    BY <1>0, <1>4 DEF Answered, HandlerOK, NoHandler
  <2>4. \A i \in synced' : i \in Ids /\ \A k \in Ids : k < i => k \in synced'
    BY <1>0, <2>1 DEF BatchInv
  <2> QED
    BY <1>0, <2>1, <2>2, <2>3, <2>4, BatchFrame
<1>5. ASSUME NEW d \in Drains, Unanswered(d) PROVE BatchInv'
  BY <1>0, <1>1, <1>5 DEF Unanswered, local, DrainOK
<1>6. ASSUME NEW d \in Drains, Handle(d) \/ HandlerFails(d) PROVE BatchInv'
  <2>1. UNCHANGED <<synced, drain>>
    BY <1>6 DEF Handle, Check, Insert, AlertCheck, AlertInsert, HandlerFails, local
  <2>2. \A c \in Drains : handler'[c].todo \subseteq handler[c].todo
    BY <1>0, <1>6 DEF Handle, Check, Insert, AlertCheck, AlertInsert, HandlerFails, NextPair,
       Handled, HandlerOK
  <2> QED
    BY <1>1, <2>1, <2>2
<1>7. CASE MonitorNotices \/ MonitorRecords \/ Tick \/ UNCHANGED vars
  BY <1>1, <1>7 DEF MonitorNotices, MonitorRecords, Tick, vars, local
<1> QED
  BY <1>2, <1>3, <1>4, <1>5, <1>6, <1>7 DEF Next, Sync

-----------------------------------------------------------------------------
(***************************************************************************)
(* Rows.  An outage of the client's is over when it is reported, and the   *)
(* client was not online in it.                                            *)
(***************************************************************************)
RowInv ==
    \A o \in outages : o.by = "client" =>
        /\ o.end # None /\ o.end <= now
        /\ \A t \in onlineAt : ~(o.start <= t /\ t < o.end)

LEMMA RowInvKept ==
    ASSUME TypeInv, LogInv, BatchInv, RowInv, [Next]_vars PROVE RowInv'
<1>0. /\ now \in Nat /\ TablesOK
      /\ \A o \in outages : o.end \in Nat \/ o.end = None
      /\ \A o \in outages : o.by \in {"client", "monitor"}
  BY TypeInvParts DEF TypeInv, TypeOK, Time, Outage, Source
<1>1. ASSUME UNCHANGED <<now, onlineAt>>,
             \A o \in outages' : o \in outages \/ o.by # "client"
      PROVE  RowInv'
  BY <1>1 DEF RowInv
<1>2. ASSUME NEW d \in Drains, Connect(d) PROVE RowInv'
  <2>1. MonitorSees /\ UNCHANGED <<now, onlineAt>>
    BY <1>2 DEF Connect, history
  <2>2. /\ outages' \subseteq Outage
        /\ \A q \in outages' : q \notin outages /\ q.by # "monitor" =>
             \E o \in outages : o.end = None /\ o.by = q.by
    BY <2>1, <1>0, MonitorSeesTypes DEF TypeInv, TypeOK
  <2>3. \A o \in outages' : o \in outages \/ o.by # "client"
    BY <2>2 DEF RowInv
  <2> QED
    BY <1>1, <2>1, <2>3
<1>3. CASE ConnectFails \/ Lose \/ Kill \/ Start
  BY <1>1, <1>3 DEF ConnectFails, Lose, Kill, Start, tables, history
<1>4. ASSUME NEW d \in Drains, Sync(d) PROVE RowInv'
  BY <1>1, <1>4 DEF Sync, Fetch, Answered, Unanswered, tables, history
<1>5. ASSUME NEW d \in Drains, Insert(d) PROVE RowInv'
  <2> DEFINE c == Current(d)
  <2>1. c \in handler[d].todo /\ c \in Ids \X Ids
    BY <1>5, CurrentIn DEF Insert, Busy
  <2>2. /\ c[2] = c[1] + 1 /\ c[1] \in Ids /\ c[2] \in Ids
        /\ events[c[1]].event = "disconnected" /\ events[c[2]].event # "disconnected"
    BY <2>1 DEF BatchInv
  <2>3. /\ events[c[2]].at <= now /\ events[c[2]].at # None
        /\ \A t \in onlineAt : ~(events[c[1]].at <= t /\ t < events[c[2]].at)
    <3>1. c[1] < Len(events) /\ c[1] + 1 = c[2]
      BY <2>2 DEF Ids, TypeInv, TypeOK
    <3>2. events[c[2]].at \in Time
      BY <1>5, CurrentIn DEF Insert, Busy, Event
    <3> QED
      BY <2>2, <3>1, <3>2 DEF LogInv, None, Time
  <2>4. /\ outages' = outages \cup {[id |-> Cardinality(outages) + 1, start |-> events[c[1]].at,
                                     end |-> events[c[2]].at, by |-> "client"]}
        /\ UNCHANGED <<now, onlineAt>>
    BY <1>5 DEF Insert, Row, StartOf, EndOf
  <2> HIDE DEF c
  <2> QED
    BY <2>3, <2>4 DEF RowInv
<1>6. ASSUME NEW d \in Drains, Check(d) \/ AlertCheck(d) \/ AlertInsert(d) \/ HandlerFails(d)
      PROVE  RowInv'
  BY <1>1, <1>6 DEF Check, AlertCheck, AlertInsert, HandlerFails, tables, history
<1>7. CASE MonitorRecords
  BY <1>1, <1>7 DEF MonitorRecords, Row, history
<1>8. CASE MonitorNotices
  BY <1>1, <1>8 DEF MonitorNotices, tables, history
<1>9. CASE Tick
  <2>1. /\ now' = now + 1 /\ UNCHANGED outages
        /\ \A t \in onlineAt' : t \in onlineAt \/ t = now
    BY <1>9 DEF Tick, tables
  <2> QED
    BY <1>0, <2>1 DEF RowInv
<1>10. CASE UNCHANGED vars
  BY <1>1, <1>10 DEF vars, tables, history
<1> QED
  BY <1>2, <1>3, <1>4, <1>5, <1>6, <1>7, <1>8, <1>9, <1>10 DEF Next, Daemon, Handle

\* No outage the client reports covers a time when the client was online, for
\* any batch size, any limits of the backoff, and however the daemon is killed
\* and requests, answers and statements are lost.
THEOREM ReportedWasOffline == Spec => []OnlyOffline
<1> DEFINE Inv == LogInv /\ BatchInv /\ RowInv
<1>1. Init => Inv
  <2> SUFFICES ASSUME Init PROVE Inv
    OBVIOUS
  <2>1. /\ events = <<>> /\ onlineAt = {} /\ outages = {} /\ synced = {} /\ client = "waiting"
        /\ now = 0
        /\ drain = [d \in Drains |-> [pc |-> "new", ids |-> {}]]
        /\ handler = [d \in Drains |-> [pc |-> "none", todo |-> {}]]
    BY DEF Init, NoHandler
  <2>2. Ids = {} /\ Len(events) = 0
    BY <2>1 DEF Ids
  <2>3. LogInv /\ RowInv
    BY <2>1, <2>2 DEF LogInv, RowInv
  <2>4. BatchInv
    BY <2>1 DEF BatchInv
  <2> QED
    BY <2>3, <2>4
<1>2. TypeInv /\ Inv /\ [Next]_vars => Inv'
  BY LogInvKept, BatchInvKept, RowInvKept
<1>3. TypeInv /\ Inv => OnlyOffline
  BY DEF TypeInv, RowInv, OnlyOffline, Reported
<1> QED
  BY <1>1, <1>2, <1>3, TypeInvHolds, PTL DEF Spec

-----------------------------------------------------------------------------
(***************************************************************************)
(* Answers.  While a request is handled, each long disconnection in it has *)
(* its outage or is one of the pairs still to do.                          *)
(***************************************************************************)
Recorded(t) == \E o \in outages : o.start >= t - Window /\ o.start <= t + Window

Tracked(d) == \A p \in Work(drain[d].ids) : p \in handler[d].todo \/ Recorded(events[p[1]].at)

AckOf(d) ==
    drain[d].pc = "sent" /\ handler[d].pc # "failed" =>
        /\ handler[d].pc = "done" => handler[d].todo = {}
        /\ Tracked(d)
        /\ handler[d].pc \in {"alertCheck", "alertInsert"} =>
             Recorded(events[Earliest(handler[d].todo)[1]].at)

AckInv == \A d \in Drains : AckOf(d)

\* Outages are not taken back.
OutagesStay == \A o \in outages : \E q \in outages' : q.start = o.start

LEMMA Stay == ASSUME TypeInv, [Next]_vars PROVE OutagesStay
<1>1. ASSUME outages \subseteq outages' PROVE OutagesStay
  BY <1>1 DEF OutagesStay
<1>2. ASSUME NEW d \in Drains, Connect(d) PROVE OutagesStay
  BY <1>2, MonitorSeesTypes DEF Connect, OutagesStay, TypeInv, TypeOK
<1>3. outages \subseteq outages' \/ \E d \in Drains : Connect(d)
  BY DEF Next, Daemon, ConnectFails, Lose, Kill, Start, Sync, Fetch, Answered,
     Unanswered, Handle, Check, Insert, AlertCheck, AlertInsert, HandlerFails,
     MonitorNotices, MonitorRecords, Tick, vars, tables, Row
<1> QED
  BY <1>1, <1>2, <1>3

\* The work of a batch is the same in a longer log, and what was done of it
\* stays done.
LEMMA TrackedStays ==
    ASSUME TypeInv, Extends, OutagesStay, NEW d \in Drains, Tracked(d),
           drain'[d].ids = drain[d].ids,
           \A p \in handler[d].todo : p \in handler'[d].todo
               \/ \E o \in outages' : /\ o.start >= events[p[1]].at - Window
                                     /\ o.start <= events[p[1]].at + Window
    PROVE  Tracked(d)'
<1>1. drain[d].ids \subseteq Ids
  BY DEF TypeInv, TypeOK
<1>2. \A i \in drain[d].ids : events'[i] = events[i]
  BY <1>1 DEF Extends
<1> SUFFICES ASSUME NEW p \in drain[d].ids \X drain[d].ids,
                    events'[p[1]].event = "disconnected", events'[p[2]].event # "disconnected",
                    p[1] < p[2],
                    \A k \in drain[d].ids : ~(p[1] < k /\ k < p[2]),
                    events'[p[2]].at - events'[p[1]].at >= Grace
             PROVE  \/ p \in handler'[d].todo
                    \/ \E o \in outages' : /\ o.start >= events'[p[1]].at - Window
                                           /\ o.start <= events'[p[1]].at + Window
  BY DEF Tracked, Work, Pairs, Long, Disconnected, Recorded
<1>3. events'[p[1]] = events[p[1]] /\ events'[p[2]] = events[p[2]]
  BY <1>2
<1>4. p \in Work(drain[d].ids)
  BY <1>3 DEF Work, Pairs, Long, Disconnected
<1>5. p \in handler[d].todo \/ \E o \in outages : /\ o.start >= events[p[1]].at - Window
                                                  /\ o.start <= events[p[1]].at + Window
  BY <1>4 DEF Tracked, Recorded
<1>6. p \in handler[d].todo \/ \E o \in outages' : /\ o.start >= events[p[1]].at - Window
                                                   /\ o.start <= events[p[1]].at + Window
  BY <1>5 DEF OutagesStay
<1> QED
  BY <1>3, <1>6

\* Steps that leave a drain and its handler leave what is known of them.
LEMMA AckFrame ==
    ASSUME TypeInv, Extends, OutagesStay, NEW d \in Drains, AckOf(d),
           handler'[d] = handler[d],
           drain'[d] = drain[d] \/ drain'[d].pc # "sent"
    PROVE  AckOf(d)'
<1>1. CASE drain'[d].pc = "sent" /\ handler'[d].pc # "failed"
  <2>1. drain'[d] = drain[d] /\ drain[d].pc = "sent" /\ handler[d].pc # "failed"
    BY <1>1
  <2>2. Tracked(d)'
    BY <2>1, TrackedStays DEF AckOf
  <2>3. ASSUME handler'[d].pc \in {"alertCheck", "alertInsert"}
        PROVE  \E o \in outages' :
                  /\ o.start >= events'[Earliest(handler'[d].todo)[1]].at - Window
                  /\ o.start <= events'[Earliest(handler'[d].todo)[1]].at + Window
    <3>1. handler[d].pc \in Busy
      BY <2>3 DEF Busy
    <3>2. Earliest(handler[d].todo)[1] \in Ids
      BY <3>1, CurrentIn
    <3>3. events'[Earliest(handler'[d].todo)[1]] = events[Earliest(handler[d].todo)[1]]
      BY <3>2 DEF Extends
    <3>4. \E o \in outages : /\ o.start >= events[Earliest(handler[d].todo)[1]].at - Window
                            /\ o.start <= events[Earliest(handler[d].todo)[1]].at + Window
      BY <2>1, <2>3 DEF AckOf, Recorded
    <3> QED
      BY <3>3, <3>4 DEF OutagesStay
  <2> QED
    BY <2>1, <2>2, <2>3 DEF AckOf, Recorded
<1>2. CASE ~(drain'[d].pc = "sent" /\ handler'[d].pc # "failed")
  BY <1>2 DEF AckOf
<1> QED
  BY <1>1, <1>2

\* The handler is done with a pair that has its outage.
LEMMA AckNextPair ==
    ASSUME TypeInv, Extends, OutagesStay, NEW d \in Drains, AckOf(d),
           handler[d].pc \in Busy, handler' = NextPair(d), UNCHANGED drain,
           \E o \in outages : o.start >= StartOf(d) - Window /\ o.start <= StartOf(d) + Window
    PROVE  AckOf(d)'
<1>1. CASE drain[d].pc = "sent"
  <2>1. Tracked(d)
    BY <1>1 DEF AckOf, Busy
  <2>2. handler'[d] = Handled(handler[d].todo \ {Current(d)})
    BY DEF NextPair, TypeInv, TypeOK
  <2>3. /\ handler'[d].todo = handler[d].todo \ {Current(d)}
        /\ handler'[d].pc \in {"done", "check"}
        /\ handler'[d].pc = "done" => handler'[d].todo = {}
    BY <2>2 DEF Handled
  <2>4. \E o \in outages' : /\ o.start >= events[Current(d)[1]].at - Window
                            /\ o.start <= events[Current(d)[1]].at + Window
    BY DEF OutagesStay, StartOf
  <2>5. Tracked(d)'
    BY <2>1, <2>3, <2>4, TrackedStays
  <2> QED
    BY <2>3, <2>5 DEF AckOf
<1>2. CASE drain[d].pc # "sent"
  BY <1>2 DEF AckOf
<1> QED
  BY <1>1, <1>2

\* The handler goes to another statement for the same pair; for the alert only
\* when the pair has its outage.
LEMMA AckSamePair ==
    ASSUME TypeInv, Extends, OutagesStay, NEW d \in Drains, AckOf(d),
           handler[d].pc \in Busy, NEW pc \in Busy,
           handler' = [handler EXCEPT ![d].pc = pc], UNCHANGED <<drain, events>>,
           pc \in {"alertCheck", "alertInsert"} =>
             \E o \in outages' : o.start >= StartOf(d) - Window /\ o.start <= StartOf(d) + Window
    PROVE  AckOf(d)'
<1>1. CASE drain[d].pc = "sent"
  <2>1. Tracked(d)
    BY <1>1 DEF AckOf, Busy
  <2>2. handler'[d].todo = handler[d].todo /\ handler'[d].pc = pc
    BY DEF TypeInv, TypeOK
  <2>3. Tracked(d)'
    BY <2>1, <2>2, TrackedStays
  <2>4. StartOf(d) = events'[Earliest(handler'[d].todo)[1]].at
    BY <2>2, CurrentIn DEF StartOf
  <2> QED
    BY <2>2, <2>3, <2>4 DEF AckOf, Recorded, Busy
<1>2. CASE drain[d].pc # "sent"
  BY <1>2 DEF AckOf
<1> QED
  BY <1>1, <1>2

LEMMA AckInvKept == ASSUME TypeInv, AckInv, [Next]_vars PROVE AckInv'
<1>0. Extends /\ OutagesStay /\ DrainOK /\ HandlerOK /\ TablesOK
  BY LogExtends, Stay, TypeInvParts
<1>1. ASSUME \A c \in Drains : handler'[c] = handler[c],
             \A c \in Drains : drain'[c] = drain[c] \/ drain'[c].pc # "sent"
      PROVE  AckInv'
  BY <1>0, <1>1, AckFrame DEF AckInv
<1>2. ASSUME NEW d \in Drains, AckOf(d)',
             \A c \in Drains : c # d => handler'[c] = handler[c],
             \A c \in Drains : c # d => drain'[c] = drain[c]
      PROVE  AckInv'
  <2>1. \A c \in Drains : c # d => AckOf(c)'
    BY <1>0, <1>2, AckFrame DEF AckInv
  <2> QED
    BY <1>2, <2>1 DEF AckInv
<1>3. CASE Daemon
  BY <1>0, <1>1, <1>3 DEF Daemon, Connect, ConnectFails, Lose, Kill, Start, DrainOK
<1>4. ASSUME NEW d \in Drains, Fetch(d) PROVE AckInv'
  <2>1. UNCHANGED events
    BY <1>4 DEF Fetch, local
  <2>2. CASE Batch = {}
    BY <1>0, <1>1, <1>4, <2>2 DEF Fetch, DrainOK
  <2>3. CASE Batch # {}
    <3>1. drain' = [drain EXCEPT ![d] = [pc |-> "sent", ids |-> Batch]]
          /\ handler' = [handler EXCEPT ![d] = Handled(Work(Batch))]
      BY <1>4, <2>3 DEF Fetch
    <3>2. drain'[d].ids = Batch /\ handler'[d] = Handled(Work(Batch))
      BY <1>0, <3>1 DEF DrainOK, HandlerOK
    <3>3. /\ handler'[d].todo = Work(Batch) /\ handler'[d].pc \in {"done", "check"}
          /\ handler'[d].pc = "done" => handler'[d].todo = {}
      BY <3>2 DEF Handled
    <3>4. \A ids : ids = Batch => Work(Batch) = {p \in ids \X ids :
             /\ events'[p[1]].event = "disconnected" /\ ~(events'[p[2]].event = "disconnected")
             /\ p[1] < p[2] /\ (\A k \in ids : ~(p[1] < k /\ k < p[2]))
             /\ events'[p[2]].at - events'[p[1]].at >= Grace}
      BY <2>1 DEF Work, Pairs, Long, Disconnected
    <3>5. Tracked(d)'
      BY <2>1, <3>2, <3>3, <3>4 DEF Tracked, Work, Pairs, Long, Disconnected
    <3>6. AckOf(d)'
      BY <3>3, <3>5 DEF AckOf
    <3> QED
      BY <1>0, <1>2, <3>1, <3>6 DEF DrainOK, HandlerOK
  <2> QED
    BY <2>2, <2>3
<1>5. ASSUME NEW d \in Drains, Answered(d) \/ Unanswered(d) PROVE AckInv'
  <2>1. drain'[d].pc # "sent"
    BY <1>0, <1>5 DEF Answered, Unanswered, DrainOK
  <2>2. AckOf(d)'
    BY <2>1 DEF AckOf
  <2> QED
    BY <1>0, <1>2, <1>5, <2>2 DEF Answered, Unanswered, DrainOK, HandlerOK
<1>6. ASSUME NEW d \in Drains, Handle(d) \/ HandlerFails(d) PROVE AckInv'
  <2>1. UNCHANGED <<drain, events>> /\ handler[d].pc \in Busy /\ AckOf(d)
    BY <1>6 DEF Handle, Check, Insert, AlertCheck, AlertInsert, HandlerFails, local, Busy, AckInv
  <2>2. \A c \in Drains : c # d => handler'[c] = handler[c] /\ drain'[c] = drain[c]
    BY <1>0, <1>6 DEF Handle, Check, Insert, AlertCheck, AlertInsert, HandlerFails, NextPair,
       HandlerOK
  <2>3. handler[d].pc \in {"alertCheck", "alertInsert"} /\ drain[d].pc = "sent" =>
           \E o \in outages : o.start >= StartOf(d) - Window /\ o.start <= StartOf(d) + Window
    BY <2>1, CurrentIn DEF AckOf, Recorded, StartOf
  <2>4. CASE drain[d].pc # "sent"
    <3>1. AckOf(d)'
      BY <2>1, <2>4 DEF AckOf
    <3> QED
      BY <1>2, <2>2, <3>1
  <2>5. CASE Check(d)
    <3>1. CASE Known(d)
      BY <1>0, <1>2, <2>1, <2>2, <2>5, <3>1, AckNextPair DEF Check, Known, Near
    <3>2. CASE ~Known(d)
      <4>1. handler' = [handler EXCEPT ![d].pc = "insert"] /\ "insert" \in Busy
        BY <2>5, <3>2 DEF Check, Busy
      <4>2. AckOf(d)'
        BY <1>0, <2>1, <4>1, AckSamePair
      <4> QED
        BY <1>2, <2>2, <4>2
    <3> QED
      BY <3>1, <3>2
  <2>6. CASE Insert(d)
    <3>1. handler' = [handler EXCEPT ![d].pc = "alertCheck"] /\ "alertCheck" \in Busy
      BY <2>6 DEF Insert, Busy
    <3>2. StartOf(d) \in Int /\ Window \in Nat
      BY <2>1, CurrentIn, ConstantsOK DEF StartOf, Event, Time, ConstantsOK
    <3>3. [id |-> Cardinality(outages) + 1, start |-> StartOf(d), end |-> EndOf(d),
           by |-> "client"] \in outages'
      BY <2>6 DEF Insert, Row
    <3>4. \E o \in outages' : o.start >= StartOf(d) - Window /\ o.start <= StartOf(d) + Window
      BY <3>2, <3>3
    <3>5. AckOf(d)'
      BY <1>0, <2>1, <3>1, <3>4, AckSamePair
    <3> QED
      BY <1>2, <2>2, <3>5
  <2>7. CASE AlertCheck(d) /\ drain[d].pc = "sent"
    <3>1. \E o \in outages : o.start >= StartOf(d) - Window /\ o.start <= StartOf(d) + Window
      BY <2>3, <2>7 DEF AlertCheck
    <3>2. CASE AlertExists(d)
      BY <1>0, <1>2, <2>1, <2>2, <2>7, <3>1, <3>2, AckNextPair DEF AlertCheck
    <3>3. CASE ~AlertExists(d)
      <4>1. handler' = [handler EXCEPT ![d].pc = "alertInsert"] /\ "alertInsert" \in Busy
            /\ UNCHANGED outages
        BY <2>7, <3>3 DEF AlertCheck, Busy, tables
      <4>2. AckOf(d)'
        BY <1>0, <2>1, <3>1, <4>1, AckSamePair
      <4> QED
        BY <1>2, <2>2, <4>2
    <3> QED
      BY <3>2, <3>3
  <2>8. CASE AlertInsert(d) /\ drain[d].pc = "sent"
    <3>1. \E o \in outages : o.start >= StartOf(d) - Window /\ o.start <= StartOf(d) + Window
      BY <2>3, <2>8 DEF AlertInsert
    <3> QED
      BY <1>0, <1>2, <2>1, <2>2, <2>8, <3>1, AckNextPair DEF AlertInsert
  <2>9. CASE HandlerFails(d)
    <3>1. handler'[d].pc = "failed"
      BY <1>0, <2>9 DEF HandlerFails, HandlerOK
    <3> QED
      BY <1>2, <2>2, <3>1 DEF AckOf
  <2> QED
    BY <1>6, <2>4, <2>5, <2>6, <2>7, <2>8, <2>9 DEF Handle
<1>7. CASE MonitorNotices \/ MonitorRecords \/ Tick \/ UNCHANGED vars
  BY <1>1, <1>7 DEF MonitorNotices, MonitorRecords, Tick, vars
<1> QED
  BY <1>3, <1>4, <1>5, <1>6, <1>7 DEF Next, Sync

\* When a batch is acknowledged, there is an outage for every long
\* disconnection in it, whatever requests are handled beside it and whatever
\* the monitor writes.
THEOREM AcknowledgedIsReported == Spec => []AckedReported
<1>1. Init => AckInv
  BY DEF Init, AckInv, AckOf
<1>2. TypeInv /\ AckInv /\ [Next]_vars => AckInv'
  BY AckInvKept
<1>3. AckInv => AckedReported
  BY DEF AckInv, AckOf, Tracked, Recorded, AckedReported, Near
<1> QED
  BY <1>1, <1>2, <1>3, TypeInvHolds, PTL DEF Spec
-----------------------------------------------------------------------------
(***************************************************************************)
(* No outage is reported twice.  A handler that has found no outage near   *)
(* the one it is about to write can be overtaken by another handler only,  *)
(* and then "crossed" has the two.                                         *)
(***************************************************************************)
Unreported(d) ==
    handler[d].pc = "insert" =>
        \A o \in Reported : Near(o.start, StartOf(d)) => <<StartOf(d), o.start>> \in crossed

OnceInv == (\A d \in Drains : Unreported(d)) /\ ReportedOnce

\* Nearness has no direction.
LEMMA NearBothWays ==
    ASSUME NEW s \in Int, NEW t \in Int, Near(s, t)
    PROVE  Near(t, s)
BY ConstantsOK DEF Near, ConstantsOK

\* What has crossed stays known.
LEMMA CrossedGrows == ASSUME [Next]_vars PROVE crossed \subseteq crossed'
BY DEF Next, Daemon, Connect, ConnectFails, Lose, Kill, Start, Sync, Fetch, Answered,
   Unanswered, Handle, Check, Insert, AlertCheck, AlertInsert, HandlerFails,
   MonitorNotices, MonitorRecords, Tick, vars, history

\* Apart from the one a handler inserts, the client's rows are the ones there
\* were: the monitor's closing of a row does not change where it starts.
ReportedStay ==
    \A o \in Reported' : \E q \in Reported : q.start = o.start

LEMMA ReportsOnlyInserted ==
    ASSUME TypeInv, [Next]_vars, ReportedOnce
    PROVE  \/ \E d \in Drains : Insert(d)
           \/ ReportedStay /\ ReportedOnce'
<1>0. outages \subseteq Outage
  BY DEF TypeInv, TypeOK
<1>c. crossed \subseteq crossed'
  BY CrossedGrows
<1>1. ASSUME NEW row, row.by = "monitor", outages' = outages \cup {row}
      PROVE  ReportedStay /\ ReportedOnce'
  BY <1>c, <1>1 DEF ReportedStay, ReportedOnce, Reported, Near
<1>2. ASSUME UNCHANGED outages
      PROVE  ReportedStay /\ ReportedOnce'
  BY <1>c, <1>2 DEF ReportedStay, ReportedOnce, Reported, Near
<1>3. ASSUME NEW start, NEW end, outages' = Row(start, end, "monitor")
      PROVE  ReportedStay /\ ReportedOnce'
  <2> DEFINE row == [id |-> Cardinality(outages) + 1, start |-> start, end |-> end,
                     by |-> "monitor"]
  <2>1. row.by = "monitor" /\ outages' = outages \cup {row}
    BY <1>3 DEF Row
  <2> QED
    BY <1>1, <2>1
<1>4. ASSUME outages' = {IF o.end = None THEN [o EXCEPT !.end = now] ELSE o : o \in outages}
      PROVE  ReportedStay /\ ReportedOnce'
  <2>1. ASSUME NEW o \in outages'
        PROVE  \E q \in outages : /\ q.start = o.start /\ q.by = o.by
                                  /\ o = IF q.end = None THEN [q EXCEPT !.end = now] ELSE q
    BY <1>0, <1>4 DEF Outage
  <2>2. ReportedStay
    BY <2>1 DEF ReportedStay, Reported
  <2>3. ASSUME NEW o \in Reported', NEW q \in Reported', o # q
        PROVE  Near(o.start, q.start) =>
                 <<o.start, q.start>> \in crossed' \/ <<q.start, o.start>> \in crossed'
    <3>1. PICK a \in outages : /\ a.start = o.start /\ a.by = o.by
                               /\ o = IF a.end = None THEN [a EXCEPT !.end = now] ELSE a
      BY <2>1 DEF Reported
    <3>2. PICK b \in outages : /\ b.start = q.start /\ b.by = q.by
                               /\ q = IF b.end = None THEN [b EXCEPT !.end = now] ELSE b
      BY <2>1 DEF Reported
    <3>3. a # b /\ a \in Reported /\ b \in Reported
      BY <2>3, <3>1, <3>2 DEF Reported
    <3> QED
      BY <1>c, <3>1, <3>2, <3>3 DEF ReportedOnce
  <2> QED
    BY <2>2, <2>3 DEF ReportedOnce, Near
<1>5. ASSUME NEW d \in Drains, Connect(d)
      PROVE  ReportedStay /\ ReportedOnce'
  BY <1>2, <1>3, <1>4, <1>5 DEF Connect, MonitorSees
<1>6. CASE MonitorRecords
  BY <1>3, <1>6 DEF MonitorRecords
<1>7. CASE ConnectFails \/ Lose \/ Kill \/ Start \/ MonitorNotices \/ Tick \/ UNCHANGED vars
  BY <1>2, <1>7 DEF ConnectFails, Lose, Kill, Start, MonitorNotices, Tick, tables, vars
<1>8. ASSUME NEW d \in Drains,
             Sync(d) \/ Check(d) \/ AlertCheck(d) \/ AlertInsert(d) \/ HandlerFails(d)
      PROVE  ReportedStay /\ ReportedOnce'
  BY <1>2, <1>8 DEF Sync, Fetch, Answered, Unanswered, Check, AlertCheck, AlertInsert,
     HandlerFails, tables
<1> QED
  BY <1>5, <1>6, <1>7, <1>8 DEF Next, Daemon, Handle

LEMMA StartKept ==
    ASSUME TypeInv, [Next]_vars, NEW d \in Drains, handler[d].pc \in Busy,
           handler'[d].todo = handler[d].todo
    PROVE  StartOf(d)' = StartOf(d) /\ StartOf(d) \in Nat
<1>1. /\ Current(d) = Earliest(handler[d].todo)
      /\ Current(d)[1] \in Ids /\ events[Current(d)[1]] \in Event
  BY CurrentIn
<1>2. Current(d)' = Earliest(handler'[d].todo)
  BY DEF Current, Earliest
<1>3. events'[Current(d)[1]] = events[Current(d)[1]]
  BY <1>1, LogExtends DEF Extends
<1> QED
  BY <1>1, <1>2, <1>3 DEF StartOf, Event, Time

\* What a step does to a handler that is about to insert afterwards.
LEMMA BeforeInsert ==
    ASSUME TypeInv, [Next]_vars, NEW d \in Drains, handler'[d].pc = "insert"
    PROVE  /\ handler[d].pc \in Busy /\ handler'[d].todo = handler[d].todo
           /\ \/ handler[d].pc = "insert"
              \/ Check(d) /\ ~Known(d)
<1>0. DrainOK /\ HandlerOK
  BY TypeInvParts
<1>1. CASE handler'[d] = handler[d]
  BY <1>1 DEF Busy
<1>2. ASSUME NEW c \in Drains, Sync(c)
      PROVE  handler'[d] = handler[d]
  <2>1. ASSUME NEW todo
        PROVE  Handled(todo).pc # "insert"
    BY DEF Handled
  <2>2. CASE Fetch(c)
    BY <1>0, <2>1, <2>2 DEF Fetch, HandlerOK
  <2>3. CASE Answered(c)
    BY <1>0, <2>3 DEF Answered, NoHandler, HandlerOK
  <2>4. CASE Unanswered(c)
    BY <2>4 DEF Unanswered
  <2> QED
    BY <1>2, <2>2, <2>3, <2>4 DEF Sync
<1>3. ASSUME NEW c \in Drains, Handle(c) \/ HandlerFails(c)
      PROVE  \/ handler'[d] = handler[d]
             \/ c = d /\ Check(d) /\ ~Known(d) /\ handler'[d].todo = handler[d].todo
  <2>1. CASE c # d
    BY <1>0, <1>3, <2>1 DEF Handle, Check, Insert, AlertCheck, AlertInsert, HandlerFails,
       NextPair, HandlerOK
  <2>2. CASE c = d
    <3>1. handler'[d] # Handled(handler[d].todo \ {Current(d)})
      BY DEF Handled
    <3>2. handler' # NextPair(d)
      BY <1>0, <3>1 DEF NextPair, HandlerOK
    <3>3. CASE Check(d)
      BY <1>0, <3>2, <3>3, <2>2 DEF Check, HandlerOK
    <3>4. CASE Insert(d) \/ AlertCheck(d) \/ AlertInsert(d) \/ HandlerFails(d)
      BY <1>0, <3>2, <3>4 DEF Insert, AlertCheck, AlertInsert, HandlerFails, HandlerOK
    <3> QED
      BY <1>3, <2>2, <3>3, <3>4 DEF Handle
  <2> QED
    BY <2>1, <2>2
<1>4. ASSUME NEW c \in Drains, Check(c)
      PROVE  handler[c].pc \in Busy
  BY <1>4 DEF Check, Busy
<1>5. CASE Daemon \/ MonitorNotices \/ MonitorRecords \/ Tick \/ UNCHANGED vars
  BY <1>1, <1>5 DEF Daemon, Connect, ConnectFails, Lose, Kill, Start, MonitorNotices,
     MonitorRecords, Tick, vars
<1> QED
  BY <1>1, <1>2, <1>3, <1>4, <1>5 DEF Next

LEMMA OnceInvKept == ASSUME TypeInv, OnceInv, [Next]_vars PROVE OnceInv'
<1>0. outages \subseteq Outage /\ HandlerOK /\ crossed \subseteq crossed'
  BY TypeInvParts, CrossedGrows DEF TypeInv, TypeOK
<1>1. ASSUME NEW d \in Drains, Insert(d)
      PROVE  ReportedOnce' /\ \A c \in Drains : Unreported(c)'
  <2> DEFINE row == [id |-> Cardinality(outages) + 1, start |-> StartOf(d), end |-> EndOf(d),
                     by |-> "client"]
  <2>1. outages' = outages \cup {row} /\ row.start = StartOf(d)
    BY <1>1 DEF Insert, Row
  <2>2. handler[d].pc = "insert" /\ handler[d].pc \in Busy
    BY <1>1 DEF Insert, Busy
  <2>3. \A o \in Reported : Near(o.start, StartOf(d)) => <<StartOf(d), o.start>> \in crossed
    BY <2>2 DEF OnceInv, Unreported
  <2>4. StartOf(d) \in Int /\ \A o \in Reported : o.start \in Int
    <3>1. events[Current(d)[1]] \in Event
      BY <2>2, CurrentIn
    <3> QED
      BY <1>0, <3>1 DEF StartOf, Event, Time, Reported, Outage
  <2>5. Reported' \subseteq Reported \cup {row}
    BY <2>1 DEF Reported
  <2>6. ReportedOnce'
    <3> HIDE DEF row
    <3> SUFFICES ASSUME NEW o \in Reported', NEW q \in Reported', o # q, Near(o.start, q.start)
                 PROVE  <<o.start, q.start>> \in crossed' \/ <<q.start, o.start>> \in crossed'
      BY DEF ReportedOnce, Near
    <3>1. CASE o \in Reported /\ q \in Reported
      BY <1>0, <3>1 DEF OnceInv, ReportedOnce
    <3>2. CASE o = row /\ q \in Reported
      BY <1>0, <2>1, <2>3, <2>4, <3>2, NearBothWays
    <3>3. CASE q = row /\ o \in Reported
      BY <1>0, <2>1, <2>3, <2>4, <3>3
    <3> QED
      BY <2>5, <3>1, <3>2, <3>3
  <2>7. ASSUME NEW c \in Drains, handler'[c].pc = "insert",
               NEW o \in Reported', Near(o.start, StartOf(c)')
        PROVE  <<StartOf(c)', o.start>> \in crossed'
    <3>1. c # d
      BY <1>0, <1>1, <2>7 DEF Insert, HandlerOK
    <3>2. handler[c] = handler'[c] /\ handler[c].pc = "insert"
      BY <1>0, <1>1, <2>7, <3>1 DEF Insert, HandlerOK
    <3>3. StartOf(c)' = StartOf(c)
      BY <3>2, StartKept DEF Busy
    <3>4. CASE o \in Reported
      BY <1>0, <2>7, <3>2, <3>3, <3>4 DEF OnceInv, Unreported
    <3>5. CASE o = row
      <4>1. o.start = StartOf(d)
        BY <2>1, <3>5
      <4>2. <<StartOf(c), StartOf(d)>> \in crossed'
        BY <1>1, <2>7, <3>1, <3>2, <3>3, <4>1 DEF Insert
      <4> QED
        BY <3>3, <4>1, <4>2
    <3> QED
      BY <2>5, <3>4, <3>5
  <2> QED
    BY <2>6, <2>7 DEF Unreported, Near
<1>2. ASSUME ReportedStay, NEW d \in Drains, handler'[d].pc = "insert",
             NEW o \in Reported', Near(o.start, StartOf(d)')
      PROVE  <<StartOf(d)', o.start>> \in crossed'
  <2>1. /\ handler[d].pc \in Busy /\ handler'[d].todo = handler[d].todo
        /\ handler[d].pc = "insert" \/ (Check(d) /\ ~Known(d))
    BY <1>2, BeforeInsert
  <2>2. StartOf(d)' = StartOf(d)
    BY <2>1, StartKept
  <2>3. PICK q \in Reported : q.start = o.start
    BY <1>2 DEF ReportedStay
  <2>4. Near(q.start, StartOf(d))
    BY <1>2, <2>2, <2>3
  <2>5. handler[d].pc = "insert"
    BY <2>1, <2>3, <2>4 DEF Known, Reported
  <2> QED
    BY <1>0, <2>2, <2>3, <2>4, <2>5 DEF OnceInv, Unreported
<1>3. ReportedOnce' /\ \A d \in Drains : Unreported(d)'
  BY <1>1, <1>2, ReportsOnlyInserted DEF OnceInv, Unreported, Near
<1> QED
  BY <1>3 DEF OnceInv

\* However its events are posted again after an answer that was lost, a D1
\* statement that failed or a daemon that was killed, and whatever handlers work
\* on them at once, one outage is reported once, unless a handler writes it down
\* between another's check and its INSERT.
THEOREM OutageReportedOnce == Spec => []ReportedOnce
<1>1. Init => OnceInv
  BY DEF Init, NoHandler, OnceInv, Unreported, ReportedOnce, Reported
<1>2. TypeInv /\ OnceInv /\ [Next]_vars => OnceInv'
  BY OnceInvKept
<1>3. OnceInv => ReportedOnce
  BY DEF OnceInv
<1> QED
  BY <1>1, <1>2, <1>3, TypeInvHolds, PTL DEF Spec

=============================================================================
