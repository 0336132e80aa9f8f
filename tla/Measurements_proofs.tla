------------------------ MODULE Measurements_proofs ------------------------
(***************************************************************************)
(* Proofs about Measurements: that a ping is measured once and not lost    *)
(* between the handlers, that traces with an alert's tag are ordered by    *)
(* alerts, and that the ring counts the last results.                      *)
(***************************************************************************)
EXTENDS Measurements, WellFoundedInduction, SequenceTheorems, FiniteSetTheorems,
        FunctionTheorems, TLAPS

-----------------------------------------------------------------------------
(***************************************************************************)
(* Tags.  A tag that is still to be used has been ordered, too.            *)
(***************************************************************************)
TagInv ==
    /\ tagged \in Nat /\ ordered \in Nat
    /\ IF tag THEN tagged < ordered ELSE tagged <= ordered

LEMMA TagInvKept == ASSUME TagInv, [Next]_vars PROVE TagInv'
<1>1. ASSUME UNCHANGED tracks PROVE TagInv'
  BY <1>1 DEF TagInv, tracks
<1>2. ASSUME NEW m \in Messages, MessageNext(m) PROVE TagInv'
  <2>1. CASE TraceResult(m)
    <3>1. tag' = FALSE /\ ordered' = ordered /\ tagged' = IF tag THEN tagged + 1 ELSE tagged
      BY <2>1 DEF TraceResult, TagAfter
    <3>2. CASE tag
      BY <3>1, <3>2 DEF TagInv
    <3>3. CASE ~tag
      BY <3>1, <3>3 DEF TagInv
    <3> QED
      BY <3>2, <3>3
  <2>2. CASE Pong(m)
    BY <2>2, <1>1 DEF Pong
  <2>3. CASE ClientPing(m)
    BY <2>3, <1>1 DEF ClientPing
  <2>4. CASE LatePong(m)
    BY <2>4, <1>1 DEF LatePong
  <2>5. CASE RequestPing(m)
    BY <2>5, <1>1 DEF RequestPing
  <2>6. CASE OtherResult(m)
    BY <2>6, <1>1 DEF OtherResult
  <2>7. CASE RowStored(m)
    BY <2>7, <1>1 DEF RowStored
  <2>8. CASE RowFails(m)
    BY <2>8, <1>1 DEF RowFails
  <2> QED
    BY <1>2, <2>1, <2>2, <2>3, <2>4, <2>5, <2>6, <2>7, <2>8 DEF MessageNext
<1>3. ASSUME NEW h \in Handler, HandlerNext(h) PROVE TagInv'
  <2>1. CASE WriteBatch(h)
    BY <2>1, <1>1 DEF WriteBatch
  <2>2. CASE BatchFails(h)
    BY <2>2, <1>1 DEF BatchFails
  <2>3. CASE AlertStored(h)
    <3>1. OrderTrace
      BY <2>3 DEF AlertStored
    <3>2. CASE connected /\ ~traceSpan
      BY <3>1, <3>2 DEF OrderTrace, TagInv
    <3>3. CASE ~(connected /\ ~traceSpan)
      BY <3>1, <3>3, <1>1 DEF OrderTrace
    <3> QED
      BY <3>2, <3>3
  <2>4. CASE AlertFails(h)
    BY <2>4, <1>1 DEF AlertFails
  <2>5. CASE AlertOver(h)
    BY <2>5, <1>1 DEF AlertOver
  <2> QED
    BY <1>3, <2>1, <2>2, <2>3, <2>4, <2>5 DEF HandlerNext
<1>4. ASSUME NEW p \in Ping, Overdue(p) PROVE TagInv'
  BY <1>4, <1>1 DEF Overdue
<1>5. ASSUME NEW type \in AlertType, CooldownEnds(type) PROVE TagInv'
  BY <1>5, <1>1 DEF CooldownEnds
<1>6. CASE AlarmNext
  <2>1. CASE AlarmPing
    BY <2>1, <1>1 DEF AlarmPing
  <2>2. CASE AlarmSimulates
    BY <2>2, <1>1 DEF AlarmSimulates
  <2>3. CASE AlarmFindsDead
    BY <2>3 DEF AlarmFindsDead, TagInv
  <2>4. CASE AlarmDown
    BY <2>4, <1>1 DEF AlarmDown
  <2> QED
    BY <1>6, <2>1, <2>2, <2>3, <2>4 DEF AlarmNext
<1>7. CASE RunTrace
  BY <1>7 DEF RunTrace, TagInv
<1>8. CASE TagExpires
  BY <1>8 DEF TagExpires, TagInv
<1>9. CASE TraceSpanEnds
  BY <1>9 DEF TraceSpanEnds, TagInv
<1>10. CASE Simulate
  BY <1>10, <1>1 DEF Simulate
<1>11. CASE Disconnect
  BY <1>11 DEF Disconnect, TagInv
<1>12. CASE Reconnect
  BY <1>12, <1>1 DEF Reconnect
<1>13. ASSUME NEW fault, Forget(fault) PROVE TagInv'
  BY <1>13 DEF Forget, TagInv
<1>14. CASE UNCHANGED vars
  BY <1>14, <1>1 DEF vars
<1> QED
  BY <1>2, <1>3, <1>4, <1>5, <1>6, <1>7, <1>8, <1>9, <1>10, <1>11, <1>12, <1>13, <1>14
     DEF Next, Hibernate, Crash

\* No more traces are stored as an alert's than alerts have ordered, whichever
\* of the traces under way comes back first, and whatever the object forgets.
THEOREM TagsAreOrdered == Spec => []TagBudget
<1>1. Init => TagInv
  <2> SUFFICES ASSUME Init PROVE TagInv
    OBVIOUS
  <2>1. tag = FALSE /\ tagged = 0 /\ ordered = 0
    BY DEF Init
  <2> QED
    BY <2>1 DEF TagInv
<1>2. TagInv /\ [Next]_vars => TagInv'
  BY TagInvKept
<1>3. TagInv => TagBudget
  BY DEF TagInv, TagBudget
<1> QED
  BY <1>1, <1>2, <1>3, PTL DEF Spec

-----------------------------------------------------------------------------
(***************************************************************************)
(* Results.  A ping is in one place: in flight, in the buffer, in the      *)
(* batch of one handler, or in D1.                                         *)
(***************************************************************************)
Flushing(h) == At(h, "flush")

Bounds ==
    /\ handler = [h \in Handler |-> handler[h]]
    /\ pings \in Nat /\ pings <= MaxPings
    /\ rows \in [Ping -> Nat]
    /\ overdue \subseteq inFlight
    /\ inFlight \subseteq 1..pings
    /\ buffer \subseteq 1..pings
    /\ \A h \in Handler : Flushing(h) => handler[h].batch \subseteq 1..pings
    /\ \A h \in Handler : At(h, "insert") =>
         handler[h] = [at |-> "insert", type |-> handler[h].type]

Apart ==
    /\ \A p \in inFlight : p \notin buffer
    /\ \A h \in Handler : Flushing(h) =>
         \A p \in handler[h].batch : p \notin inFlight /\ p \notin buffer
    /\ \A g, h \in Handler : Flushing(g) /\ Flushing(h) /\ g # h =>
         \A p \in handler[g].batch : p \notin handler[h].batch

OneRow ==
    \A p \in Ping : rows[p] # 0 =>
        /\ rows[p] = 1 /\ p <= pings
        /\ p \notin inFlight /\ p \notin buffer
        /\ \A h \in Handler : Flushing(h) => p \notin handler[h].batch

Accounted ==
    \A p \in 1..pings :
        \/ rows[p] = 1
        \/ p \in inFlight \/ p \in buffer \/ p \in excused
        \/ \E h \in Handler : Flushing(h) /\ p \in handler[h].batch

PlaceInv == Bounds /\ Apart /\ OneRow /\ Accounted

LEMMA InBatchMember ==
    ASSUME NEW p
    PROVE  p \in InBatch <=> \E h \in Handler : Flushing(h) /\ p \in handler[h].batch
BY DEF InBatch, Flushing

LEMMA PlaceInvGives == PlaceInv => MeasuredOnce
<1> SUFFICES ASSUME PlaceInv PROVE MeasuredOnce
  OBVIOUS
<1> USE ConstantsOK DEF ConstantsOK
<1>1. \A p \in Ping : rows[p] <= 1
  BY DEF PlaceInv, OneRow, Bounds
<1>2. ASSUME NEW p \in inFlight PROVE p \notin buffer /\ p \notin InBatch /\ rows[p] = 0
  <2>1. p \in Ping
    BY DEF PlaceInv, Bounds, Ping
  <2> QED
    BY <2>1, InBatchMember DEF PlaceInv, Apart, OneRow
<1>3. ASSUME NEW p \in 1..pings
      PROVE  rows[p] = 1 \/ p \in inFlight \cup buffer \cup InBatch \cup excused
  BY InBatchMember DEF PlaceInv, Accounted
<1> QED
  BY <1>1, <1>2, <1>3 DEF MeasuredOnce

\* What a handler that is not flushing goes on to, with b as the buffer that it
\* leaves: it cuts b off for its own batch, or raises an alert first.
Onward(h, b) ==
    \/ b = {} /\ buffer' = {} /\ Goes(h, Idle)
    \/ buffer' = {} /\ Goes(h, [at |-> "flush", batch |-> b])
    \/ \E type : buffer' = b /\ Goes(h, [at |-> "insert", type |-> type])

LEMMA FlushOnward ==
    ASSUME NEW h, NEW b, Flush(h, b) PROVE Onward(h, b) /\ UNCHANGED raising
BY DEF Flush, Onward, Kept

LEMMA CheckOnward ==
    ASSUME NEW h, NEW types, NEW r, NEW b, Check(h, types, r, b) PROVE Onward(h, b)
BY DEF Check, Flush, Raises, Onward, Kept

\* Going on keeps the places apart, if the pings that move among the flight
\* and the buffer are those that were there, or a new one.
LEMMA OnwardKeeps ==
    ASSUME PlaceInv,
           NEW h \in Handler, ~Flushing(h),
           NEW b, Onward(h, b),
           UNCHANGED <<rows, excused>>,
           pings' \in {pings, pings + 1}, pings' <= MaxPings,
           overdue' \subseteq inFlight',
           \A p \in b : p \notin inFlight',
           \A p : p \in b \/ p \in inFlight' <=>
                    p \in buffer \/ p \in inFlight \/ p \in (pings + 1)..pings'
    PROVE  PlaceInv'
<1> USE ConstantsOK DEF ConstantsOK, Flushing, At
<1> DEFINE Moved(g) == handler'[g].at = "flush"
<1>1. /\ pings \in Nat /\ pings' \in Nat /\ rows \in [Ping -> Nat]
      /\ \A p \in inFlight \cup buffer : p \in 1..pings
      /\ \A p \in 1..pings : p \in 1..pings'
  BY DEF PlaceInv, Bounds
<1>2. /\ \A p \in b \cup inFlight' : p \in 1..pings'
      /\ \A p \in b \cup inFlight' :
            /\ p \in 1..pings => p \in inFlight \/ p \in buffer
  BY <1>1
<1>3. /\ handler' = [g \in Handler |-> handler'[g]]
      /\ \A g \in Handler : g # h => handler'[g] = handler[g]
      /\ \A p \in buffer' : p \in b
      /\ Moved(h) => handler'[h].batch = b /\ buffer' = {}
      /\ ~Moved(h) => buffer' = b
      /\ handler'[h].at = "insert" =>
           handler'[h] = [at |-> "insert", type |-> handler'[h].type]
  <2>1. handler = [g \in Handler |-> handler[g]]
    BY DEF PlaceInv, Bounds
  <2>2. CASE b = {} /\ buffer' = {} /\ Goes(h, Idle)
    BY <2>1, <2>2 DEF Goes, Idle
  <2>3. CASE buffer' = {} /\ Goes(h, [at |-> "flush", batch |-> b])
    BY <2>1, <2>3 DEF Goes
  <2>4. CASE \E type : buffer' = b /\ Goes(h, [at |-> "insert", type |-> type])
    BY <2>1, <2>4 DEF Goes
  <2> QED
    BY <2>2, <2>3, <2>4 DEF Onward
<1>4. Bounds'
  <2>1. \A g \in Handler : Moved(g) => handler'[g].batch \subseteq 1..pings'
    BY <1>1, <1>2, <1>3 DEF PlaceInv, Bounds
  <2>2. \A g \in Handler : handler'[g].at = "insert" =>
           handler'[g] = [at |-> "insert", type |-> handler'[g].type]
    BY <1>3 DEF PlaceInv, Bounds
  <2> QED
    BY <1>1, <1>2, <1>3, <2>1, <2>2 DEF Bounds
<1>5. ASSUME NEW g \in Handler, g # h, Moved(g), NEW p \in handler'[g].batch
      PROVE  p \notin inFlight' /\ p \notin b
  <2>1. Flushing(g) /\ p \in handler[g].batch
    BY <1>3, <1>5
  <2>2. p \in 1..pings /\ p \notin inFlight /\ p \notin buffer
    BY <2>1 DEF PlaceInv, Bounds, Apart
  <2> QED
    BY <1>2, <2>2
<1>6. Apart'
  <2>1. \A p \in inFlight' : p \notin buffer'
    BY <1>3
  <2>2. \A g \in Handler : Moved(g) =>
           \A p \in handler'[g].batch : p \notin inFlight' /\ p \notin buffer'
    BY <1>3, <1>5
  <2>3. ASSUME NEW f \in Handler, NEW g \in Handler, Moved(f), Moved(g), f # g,
               NEW p \in handler'[f].batch
        PROVE  p \notin handler'[g].batch
    <3>1. CASE f = h
      BY <1>3, <1>5, <2>3, <3>1
    <3>2. CASE g = h
      BY <1>3, <1>5, <2>3, <3>2
    <3>3. CASE f # h /\ g # h
      BY <1>3, <2>3, <3>3 DEF PlaceInv, Apart
    <3> QED
      BY <3>1, <3>2, <3>3
  <2> QED
    BY <2>1, <2>2, <2>3 DEF Apart
<1>7. OneRow'
  <2> SUFFICES ASSUME NEW p \in Ping, rows[p] # 0
               PROVE  /\ rows[p] = 1 /\ p <= pings'
                      /\ p \notin inFlight' /\ p \notin buffer'
                      /\ \A g \in Handler : Moved(g) => p \notin handler'[g].batch
    BY DEF OneRow
  <2>1. /\ rows[p] = 1 /\ p \in 1..pings /\ p \notin inFlight /\ p \notin buffer
        /\ \A g \in Handler : Flushing(g) => p \notin handler[g].batch
    BY <1>1 DEF PlaceInv, OneRow, Ping
  <2>2. p \notin b /\ p \notin inFlight'
    BY <1>2, <2>1
  <2> QED
    BY <1>1, <1>3, <2>1, <2>2
<1>8. Accounted'
  <2> SUFFICES ASSUME NEW p \in 1..pings'
               PROVE  \/ rows[p] = 1
                      \/ p \in inFlight' \/ p \in buffer' \/ p \in excused
                      \/ \E g \in Handler : Moved(g) /\ p \in handler'[g].batch
    BY DEF Accounted
  <2>1. CASE p \in b \/ p \in inFlight'
    BY <1>3, <2>1
  <2>2. CASE p \notin b /\ p \notin inFlight'
    <3>1. p \in 1..pings /\ p \notin inFlight /\ p \notin buffer
      BY <1>1, <2>2
    <3>2. \/ rows[p] = 1 \/ p \in excused
          \/ \E g \in Handler : Flushing(g) /\ p \in handler[g].batch
      BY <3>1 DEF PlaceInv, Accounted
    <3> QED
      BY <1>3, <3>2
  <2> QED
    BY <2>1, <2>2
<1> QED
  BY <1>4, <1>6, <1>7, <1>8 DEF PlaceInv

\* Steps that leave the pings where they are: a handler that is not flushing
\* goes to a place that is no flush.
LEMMA QuietKeeps ==
    ASSUME PlaceInv, UNCHANGED pinging,
           \/ UNCHANGED handler
           \/ \E h \in Handler : \E to :
                /\ ~Flushing(h) /\ Goes(h, to)
                /\ to.at # "flush"
                /\ to.at = "insert" => to = [at |-> "insert", type |-> to.type]
    PROVE  PlaceInv'
<1> USE DEF Flushing, At
<1>1. CASE UNCHANGED handler
  BY <1>1 DEF PlaceInv, Bounds, Apart, OneRow, Accounted, pinging
<1>2. ASSUME NEW h \in Handler, NEW to, ~Flushing(h), Goes(h, to), to.at # "flush",
             to.at = "insert" => to = [at |-> "insert", type |-> to.type]
      PROVE  PlaceInv'
  <2>1. handler = [g \in Handler |-> handler[g]]
    BY DEF PlaceInv, Bounds
  <2>2. /\ handler' = [g \in Handler |-> handler'[g]]
        /\ \A g \in Handler : g # h => handler'[g] = handler[g]
        /\ handler'[h].at # "flush" /\ handler[h].at # "flush"
        /\ handler'[h].at = "insert" =>
             handler'[h] = [at |-> "insert", type |-> handler'[h].type]
    BY <1>2, <2>1 DEF Goes
  <2>3. Bounds'
    BY <2>2 DEF PlaceInv, Bounds, pinging
  <2>4. Apart'
    BY <2>2 DEF PlaceInv, Apart, pinging
  <2>5. OneRow'
    BY <2>2 DEF PlaceInv, OneRow, pinging
  <2>6. Accounted'
    BY <2>2 DEF PlaceInv, Accounted, pinging
  <2> QED
    BY <2>3, <2>4, <2>5, <2>6 DEF PlaceInv
<1> QED
  BY <1>1, <1>2

\* Messages and commands.
LEMMA MessageKeeps ==
    ASSUME PlaceInv, NEW m \in Messages, MessageNext(m) PROVE PlaceInv'
<1> USE ConstantsOK DEF ConstantsOK
<1>0. m \in Handler /\ pings \in Nat /\ pings <= MaxPings
  BY DEF Handler, PlaceInv, Bounds
<1>1. CASE Pong(m)
  <2>1. PICK p \in inFlight, slow \in BOOLEAN :
          /\ inFlight' = inFlight \ {p}
          /\ overdue' = overdue \ {p}
          /\ Check(m, IF slow THEN {"high_latency", "packet_loss"} ELSE {"packet_loss"},
                   ring', buffer \cup {p})
    BY <1>1 DEF Pong
  <2>2. Onward(m, buffer \cup {p})
    BY <2>1, CheckOnward
  <2>3. ~Flushing(m) /\ UNCHANGED <<rows, excused>> /\ pings' = pings
    BY <1>1 DEF Pong, Free, Flushing, At
  <2>4. \A q \in buffer \cup {p} : q \notin inFlight'
    BY <2>1 DEF PlaceInv, Apart
  <2>5. overdue' \subseteq inFlight'
    BY <2>1 DEF PlaceInv, Bounds
  <2>6. \A q : q \in buffer \cup {p} \/ q \in inFlight' <=>
               q \in buffer \/ q \in inFlight \/ q \in (pings + 1)..pings'
    BY <1>0, <2>1, <2>3
  <2> QED
    BY <1>0, <2>2, <2>3, <2>4, <2>5, <2>6, OnwardKeeps
<1>2. CASE ClientPing(m)
  <2>1. /\ pings' = pings + 1 /\ pings' <= MaxPings
        /\ ~Flushing(m) /\ UNCHANGED <<inFlight, overdue, rows, excused>>
    BY <1>0, <1>2 DEF ClientPing, Free, Flushing, At
  <2>2. Onward(m, buffer \cup {pings + 1})
    BY <1>2, <2>1, FlushOnward DEF ClientPing
  <2>3. \A q \in buffer \cup {pings + 1} : q \notin inFlight'
    BY <1>0, <2>1 DEF PlaceInv, Apart, Bounds
  <2>4. overdue' \subseteq inFlight'
    BY <2>1 DEF PlaceInv, Bounds
  <2>5. \A q : q \in buffer \cup {pings + 1} \/ q \in inFlight' <=>
               q \in buffer \/ q \in inFlight \/ q \in (pings + 1)..pings'
    BY <1>0, <2>1
  <2> QED
    BY <1>0, <2>1, <2>2, <2>3, <2>4, <2>5, OnwardKeeps
<1>3. CASE LatePong(m) \/ RowStored(m)
  <2>1. Flush(m, buffer) /\ ~Flushing(m)
        /\ UNCHANGED <<pings, inFlight, overdue, rows, excused>>
    BY <1>3 DEF LatePong, RowStored, Free, Flushing, At
  <2>2. Onward(m, buffer)
    BY <2>1, FlushOnward
  <2>3. (\A q \in buffer : q \notin inFlight') /\ overdue' \subseteq inFlight'
    BY <2>1 DEF PlaceInv, Apart, Bounds
  <2>4. \A q : q \in buffer \/ q \in inFlight' <=>
               q \in buffer \/ q \in inFlight \/ q \in (pings + 1)..pings'
    BY <1>0, <2>1
  <2> QED
    BY <1>0, <2>1, <2>2, <2>3, <2>4, OnwardKeeps
<1>4. CASE RequestPing(m)
  <2>1. /\ pings' = pings + 1 /\ pings' <= MaxPings
        /\ inFlight' = inFlight \cup {pings + 1}
        /\ ~Flushing(m) /\ UNCHANGED <<overdue, rows, excused>>
    BY <1>0, <1>4 DEF RequestPing, SendPing, Free, Flushing, At
  <2>2. Onward(m, buffer)
    BY <1>4, FlushOnward DEF RequestPing
  <2>3. \A q \in buffer : q \notin inFlight'
    BY <1>0, <2>1 DEF PlaceInv, Apart, Bounds
  <2>4. overdue' \subseteq inFlight'
    BY <2>1 DEF PlaceInv, Bounds
  <2>5. \A q : q \in buffer \/ q \in inFlight' <=>
               q \in buffer \/ q \in inFlight \/ q \in (pings + 1)..pings'
    BY <1>0, <2>1
  <2> QED
    BY <1>0, <2>1, <2>2, <2>3, <2>4, <2>5, OnwardKeeps
<1>5. CASE TraceResult(m) \/ OtherResult(m) \/ RowFails(m)
  <2>1. /\ UNCHANGED pinging /\ ~Flushing(m)
        /\ Goes(m, [at |-> "row"]) \/ Goes(m, Idle)
    BY <1>5 DEF TraceResult, OtherResult, RowFails, Free, Flushing, At
  <2>2. [at |-> "row"].at = "row" /\ Idle.at = "idle"
    BY DEF Idle
  <2> QED
    BY <1>0, <2>1, <2>2, QuietKeeps
<1> QED
  BY <1>1, <1>2, <1>3, <1>4, <1>5 DEF MessageNext

\* What a handler goes on with after D1's, or the dispatch's, answer.
LEMMA HandlerKeeps ==
    ASSUME PlaceInv, NEW h \in Handler, HandlerNext(h) PROVE PlaceInv'
<1> USE ConstantsOK DEF ConstantsOK
<1>0. handler = [g \in Handler |-> handler[g]] /\ pings \in Nat /\ pings <= MaxPings
  BY DEF PlaceInv, Bounds
<1>1. ASSUME Flushing(h), Goes(h, Idle),
             UNCHANGED <<pings, inFlight, overdue, buffer>>,
             rows' \in [Ping -> Nat], excused \subseteq excused',
             \A p \in Ping : p \notin handler[h].batch => rows'[p] = rows[p],
             \A p \in Ping : p \in handler[h].batch =>
                 \/ rows'[p] = rows[p] + 1
                 \/ rows'[p] = rows[p] /\ p \in excused'
      PROVE  PlaceInv'
  <2>1. /\ handler' = [g \in Handler |-> handler'[g]]
        /\ \A g \in Handler : g # h => handler'[g] = handler[g]
        /\ handler'[h].at = "idle"
    BY <1>0, <1>1 DEF Goes, Idle
  <2>2. Bounds'
    BY <1>1, <2>1 DEF PlaceInv, Bounds, Flushing, At
  <2>3. Apart'
    BY <1>1, <2>1 DEF PlaceInv, Apart, Flushing, At
  <2>4. \A p \in Ping : p \in handler[h].batch =>
          /\ rows[p] = 0 /\ p <= pings /\ p \notin inFlight /\ p \notin buffer
          /\ \A g \in Handler : Flushing(g) /\ g # h => p \notin handler[g].batch
    BY <1>0, <1>1 DEF PlaceInv, Bounds, Apart, OneRow
  <2>5. OneRow'
    <3> SUFFICES ASSUME NEW p \in Ping, rows'[p] # 0
                 PROVE  /\ rows'[p] = 1 /\ p <= pings
                        /\ p \notin inFlight /\ p \notin buffer
                        /\ \A g \in Handler :
                             handler'[g].at = "flush" => p \notin handler'[g].batch
      BY <1>1 DEF OneRow, Flushing, At
    <3>1. CASE p \in handler[h].batch
      BY <1>1, <2>1, <2>4, <3>1 DEF Flushing, At
    <3>2. CASE p \notin handler[h].batch
      BY <1>1, <2>1, <3>2 DEF PlaceInv, OneRow, Flushing, At
    <3> QED
      BY <3>1, <3>2
  <2>6. Accounted'
    <3> SUFFICES ASSUME NEW p \in 1..pings
                 PROVE  \/ rows'[p] = 1
                        \/ p \in inFlight \/ p \in buffer \/ p \in excused'
                        \/ \E g \in Handler :
                             handler'[g].at = "flush" /\ p \in handler'[g].batch
      BY <1>1 DEF Accounted, Flushing, At
    <3>0. p \in Ping
      BY <1>0 DEF Ping
    <3>1. CASE p \in handler[h].batch
      BY <1>1, <2>4, <3>0, <3>1
    <3>2. CASE p \notin handler[h].batch
      BY <1>1, <2>1, <3>0, <3>2 DEF PlaceInv, Accounted, Flushing, At
    <3> QED
      BY <3>1, <3>2
  <2> QED
    BY <2>2, <2>3, <2>5, <2>6 DEF PlaceInv
<1>2. CASE WriteBatch(h)
  <2>1. /\ Flushing(h) /\ Goes(h, Idle)
        /\ UNCHANGED <<pings, inFlight, overdue, buffer, excused>>
        /\ rows' = [p \in Ping |-> rows[p] + IF p \in handler[h].batch THEN 1 ELSE 0]
    BY <1>2 DEF WriteBatch, Flushing
  <2>2. rows \in [Ping -> Nat]
    BY DEF PlaceInv, Bounds
  <2>3. /\ rows' \in [Ping -> Nat]
        /\ \A p \in Ping : p \notin handler[h].batch => rows'[p] = rows[p]
        /\ \A p \in Ping : p \in handler[h].batch => rows'[p] = rows[p] + 1
    BY <2>1, <2>2
  <2>4. excused \subseteq excused' /\ UNCHANGED <<pings, inFlight, overdue, buffer>>
    BY <2>1
  <2>5. Flushing(h) /\ Goes(h, Idle)
    BY <2>1
  <2> QED
    BY <1>1, <2>3, <2>4, <2>5
<1>3. CASE BatchFails(h)
  <2>1. /\ Flushing(h) /\ Goes(h, Idle)
        /\ UNCHANGED <<pings, inFlight, overdue, buffer, rows>>
        /\ excused' = excused \cup handler[h].batch
    BY <1>3 DEF BatchFails, Flushing
  <2>2. rows \in [Ping -> Nat]
    BY DEF PlaceInv, Bounds
  <2> QED
    BY <1>1, <2>1, <2>2
<1>4. CASE AlertStored(h) \/ AlertFails(h)
  <2>1. UNCHANGED pinging /\ At(h, "insert")
    BY <1>4 DEF AlertStored, AlertFails
  <2>2. handler[h] = [at |-> "insert", type |-> handler[h].type]
    BY <2>1 DEF PlaceInv, Bounds
  <2>3. [handler[h] EXCEPT !.at = "dispatch"].at = "dispatch" /\ Idle.at = "idle"
    BY <2>2 DEF Idle
  <2>4. Goes(h, [handler[h] EXCEPT !.at = "dispatch"]) \/ Goes(h, Idle)
    BY <1>4 DEF AlertStored, AlertFails
  <2>5. ~Flushing(h)
    BY <2>1 DEF Flushing, At
  <2> QED
    BY <2>1, <2>3, <2>4, <2>5, QuietKeeps
<1>5. CASE AlertOver(h)
  <2>1. /\ Resume(h) /\ ~Flushing(h)
        /\ UNCHANGED <<pings, inFlight, overdue, rows, ringed, excused>>
    BY <1>5 DEF AlertOver, Flushing, At
  <2>2. CASE handler[h].type = "client_down"
    <3>1. UNCHANGED pinging /\ Goes(h, Idle)
      BY <2>1, <2>2 DEF Resume, pinging
    <3>2. Idle.at = "idle"
      BY DEF Idle
    <3> QED
      BY <2>1, <3>1, <3>2, QuietKeeps
  <2>3. CASE handler[h].type # "client_down"
    <3>1. Onward(h, buffer)
      BY <2>1, <2>3, CheckOnward DEF Resume
    <3>2. (\A q \in buffer : q \notin inFlight') /\ overdue' \subseteq inFlight'
      BY <2>1 DEF PlaceInv, Apart, Bounds
    <3>3. \A q : q \in buffer \/ q \in inFlight' <=>
                 q \in buffer \/ q \in inFlight \/ q \in (pings + 1)..pings'
      BY <1>0, <2>1
    <3> QED
      BY <1>0, <2>1, <3>1, <3>2, <3>3, OnwardKeeps
  <2> QED
    BY <2>2, <2>3
<1> QED
  BY <1>2, <1>3, <1>4, <1>5 DEF HandlerNext

\* The alarm.
LEMMA AlarmKeeps ==
    ASSUME PlaceInv, AlarmNext PROVE PlaceInv'
<1> USE ConstantsOK DEF ConstantsOK
<1>0. /\ "alarm" \in Handler /\ pings \in Nat /\ pings <= MaxPings
      /\ overdue \subseteq inFlight
      /\ \A q \in inFlight \cup buffer : q \in 1..pings
      /\ \A q \in inFlight : q \notin buffer
  BY DEF Handler, PlaceInv, Bounds, Apart
<1>1. CASE AlarmPing
  <2>1. /\ pings' = pings + 1 /\ pings' <= MaxPings
        /\ inFlight' = (inFlight \ overdue) \cup {pings + 1}
        /\ overdue' = {} /\ ~Flushing("alarm") /\ UNCHANGED <<rows, excused>>
    BY <1>0, <1>1 DEF AlarmPing, AlarmIdle, SendPing, Flushing, At
  <2>2. Onward("alarm", buffer \cup overdue)
    BY <1>1, FlushOnward DEF AlarmPing
  <2>3. \A q \in buffer \cup overdue : q \notin inFlight'
    BY <1>0, <2>1
  <2>4. \A q : q \in buffer \cup overdue \/ q \in inFlight' <=>
               q \in buffer \/ q \in inFlight \/ q \in (pings + 1)..pings'
    BY <1>0, <2>1
  <2> QED
    BY <1>0, <2>1, <2>2, <2>3, <2>4, OnwardKeeps
<1>2. CASE AlarmSimulates
  <2>1. /\ pings' = pings + 1 /\ pings' <= MaxPings
        /\ inFlight' = inFlight \ overdue
        /\ overdue' = {} /\ ~Flushing("alarm") /\ UNCHANGED <<rows, excused>>
    BY <1>0, <1>2 DEF AlarmSimulates, AlarmIdle, Flushing, At
  <2>2. Onward("alarm", buffer \cup overdue \cup {pings + 1})
    BY <1>2, <2>1, FlushOnward DEF AlarmSimulates
  <2>3. \A q \in buffer \cup overdue \cup {pings + 1} : q \notin inFlight'
    BY <1>0, <2>1
  <2>4. \A q : q \in buffer \cup overdue \cup {pings + 1} \/ q \in inFlight' <=>
               q \in buffer \/ q \in inFlight \/ q \in (pings + 1)..pings'
    BY <1>0, <2>1
  <2> QED
    BY <1>0, <2>1, <2>2, <2>3, <2>4, OnwardKeeps
<1>3. CASE AlarmFindsDead
  <2>1. /\ UNCHANGED <<handler, pings, rows, excused>>
        /\ inFlight' = inFlight \ overdue /\ overdue' = {}
        /\ buffer' = buffer \cup overdue
    BY <1>3 DEF AlarmFindsDead
  <2>2. \A q : q \in buffer' \/ q \in inFlight' <=> q \in buffer \/ q \in inFlight
    BY <1>0, <2>1
  <2>3. Bounds'
    BY <1>0, <2>1 DEF PlaceInv, Bounds, Flushing, At
  <2>4. Apart'
    BY <1>0, <2>1 DEF PlaceInv, Apart, Flushing, At
  <2>5. OneRow'
    BY <2>1, <2>2 DEF PlaceInv, OneRow, Flushing, At
  <2>6. Accounted'
    BY <2>1, <2>2 DEF PlaceInv, Accounted, Flushing, At
  <2> QED
    BY <2>3, <2>4, <2>5, <2>6 DEF PlaceInv
<1>4. CASE AlarmDown
  <2>1. /\ UNCHANGED pinging /\ ~Flushing("alarm")
        /\ Goes("alarm", [at |-> "insert", type |-> "client_down"])
    BY <1>4 DEF AlarmDown, AlarmIdle, Raises, Flushing, At
  <2> QED
    BY <1>0, <2>1, QuietKeeps
<1> QED
  BY <1>1, <1>2, <1>3, <1>4 DEF AlarmNext

\* The object's memory goes: what was measured and not written is excused.
LEMMA ForgetKeeps ==
    ASSUME PlaceInv, NEW fault, Forget(fault) PROVE PlaceInv'
<1> USE ConstantsOK DEF ConstantsOK
<1>1. /\ handler' = [h \in Handler |-> Idle]
      /\ inFlight' = {} /\ overdue' = {} /\ buffer' = {}
      /\ excused' = excused \cup inFlight \cup buffer \cup InBatch
      /\ UNCHANGED <<pings, rows>>
  BY DEF Forget
<1>2. \A h \in Handler : handler'[h].at = "idle"
  BY <1>1 DEF Idle
<1>3. Bounds' /\ Apart'
  BY <1>1, <1>2 DEF PlaceInv, Bounds, Apart, Flushing, At
<1>4. OneRow'
  BY <1>1, <1>2 DEF PlaceInv, OneRow, Flushing, At
<1>5. Accounted'
  BY <1>1, InBatchMember DEF PlaceInv, Accounted
<1> QED
  BY <1>3, <1>4, <1>5 DEF PlaceInv

LEMMA PlaceInvKept == ASSUME PlaceInv, [Next]_vars PROVE PlaceInv'
<1>1. ASSUME UNCHANGED pinging, UNCHANGED handler PROVE PlaceInv'
  BY <1>1, QuietKeeps
<1>2. ASSUME NEW p \in Ping, Overdue(p) PROVE PlaceInv'
  <2>1. /\ UNCHANGED <<handler, pings, inFlight, buffer, rows, excused>>
        /\ overdue' \subseteq inFlight
    BY <1>2 DEF Overdue, PlaceInv, Bounds
  <2> QED
    BY <2>1 DEF PlaceInv, Bounds, Apart, OneRow, Accounted, Flushing, At
<1>3. ASSUME NEW type \in AlertType, CooldownEnds(type) PROVE PlaceInv'
  BY <1>1, <1>3 DEF CooldownEnds
<1>4. CASE RunTrace \/ TagExpires \/ TraceSpanEnds \/ Simulate \/ Disconnect \/ Reconnect
  BY <1>1, <1>4 DEF RunTrace, TagExpires, TraceSpanEnds, Simulate, Disconnect, Reconnect
<1>5. CASE UNCHANGED vars
  BY <1>1, <1>5 DEF vars
<1> QED
  BY <1>2, <1>3, <1>4, <1>5, MessageKeeps, HandlerKeeps, AlarmKeeps, ForgetKeeps
     DEF Next, Hibernate, Crash

LEMMA PlaceInvHolds == Spec => []PlaceInv
<1>1. Init => PlaceInv
  <2> SUFFICES ASSUME Init PROVE PlaceInv
    OBVIOUS
  <2>1. /\ handler = [h \in Handler |-> Idle] /\ pings = 0 /\ inFlight = {}
        /\ overdue = {} /\ buffer = {} /\ rows = [p \in Ping |-> 0]
    BY DEF Init
  <2>2. \A h \in Handler : handler[h].at = "idle"
    BY <2>1 DEF Idle
  <2>3. Bounds
    BY <2>1, <2>2, ConstantsOK DEF Bounds, Flushing, At, ConstantsOK
  <2>4. Apart /\ OneRow /\ Accounted
    BY <2>1, <2>2 DEF Apart, OneRow, Accounted, Flushing, At
  <2> QED
    BY <2>3, <2>4 DEF PlaceInv
<1>2. PlaceInv /\ [Next]_vars => PlaceInv'
  BY PlaceInvKept
<1> QED
  BY <1>1, <1>2, PTL DEF Spec

\* A ping gives one result and one row, however the alarm, the pongs and the
\* flushes of several handlers come in each other's way; and no result is lost
\* but with the object's memory or a batch that D1 refuses.
THEOREM PingsMeasuredOnce == Spec => []MeasuredOnce
BY PlaceInvHolds, PlaceInvGives, PTL

-----------------------------------------------------------------------------
(***************************************************************************)
(* The ring.  Until it is full it is the list of the results; from then on *)
(* it is that list turned, and index says how far.                         *)
(***************************************************************************)
\* x is the place of the oldest result once the ring is full.
Turned(x, i) == IF x + i <= Window THEN x + i ELSE x + i - Window

RingOK(r, x, l) ==
    /\ r \in Seq(Status) /\ l \in Seq(Status)
    /\ Len(r) = Len(l) /\ Len(r) <= Window
    /\ x \in 0..Window - 1
    /\ Len(r) < Window => r = l /\ x = Len(r)
    /\ Len(r) = Window => \A i \in 1..Window : l[i] = r[Turned(x, i)]

\* A set of numbers has a least one.
LEMMA Least ==
    ASSUME NEW T, T \subseteq Nat, T # {}
    PROVE  \E x \in T : \A y \in T : x <= y
<1> DEFINE Less == {ss \in Nat \X Nat : ss[1] < ss[2]}
<1>1. IsWellFoundedOn(Less, Nat)
  BY NatLessThanWellFounded, Zenon DEF OpToRel
<1>2. PICK x \in T : \A y \in T : ~(<<y, x>> \in Less)
  <2> HIDE DEF Less
  <2> QED
    BY <1>1, WFMin
<1>3. ASSUME NEW y \in T PROVE x <= y
  <2>1. x \in Nat /\ y \in Nat
    OBVIOUS
  <2>2. ~(y < x)
    BY <1>2, <2>1
  <2> QED
    BY <2>1, <2>2
<1> QED
  BY <1>3

\* One round of recordLoss.
One(b, status) ==
    [ring |-> Recorded(b.ring, b.index, status), index |-> Following(b.index),
     last |-> Append(IF Len(b.last) = Window THEN Tail(b.last) ELSE b.last, status)]

\* The index is back at 0 after the last place.
LEMMA FollowingIs ==
    ASSUME NEW i \in 0..Window - 1
    PROVE  Following(i) = IF i + 1 = Window THEN 0 ELSE i + 1
  BY ConstantsOK DEF ConstantsOK, Following

\* Any property of the state that recording a result keeps, recording n keeps.
LEMMA RecordGives ==
    ASSUME NEW n \in Nat, NEW status, Record(n, status),
           NEW P,
           [ring |-> ring, index |-> index, last |-> last] \in P,
           \A b \in P : One(b, status) \in P
    PROVE  [ring |-> ring', index |-> index', last |-> last'] \in P
<1> DEFINE start == [ring |-> ring, index |-> index, last |-> last]
           Runs(g, m) == g = [k \in 0..m |-> IF k = 0 THEN start ELSE One(g[k-1], status)]
           T == {m \in 0..n : ~\E g : Runs(g, m)}
<1>1. T = {}
  <2> SUFFICES ASSUME T # {} PROVE FALSE
    OBVIOUS
  <2>1. PICK m \in T : \A j \in T : m <= j
    <3> HIDE DEF T
    <3>1. T \subseteq Nat
      BY DEF T
    <3> QED BY <3>1, Least
  <2>2. CASE m = 0
    <3> DEFINE g == [k \in 0..0 |-> start]
    <3>1. Runs(g, 0)
      OBVIOUS
    <3> QED BY <2>1, <2>2, <3>1
  <2>3. CASE m # 0
    <3>1. m - 1 \in 0..n /\ m - 1 \notin T /\ m \in Nat
      BY <2>1, <2>3
    <3>2. PICK f : Runs(f, m - 1)
      BY <3>1
    <3> DEFINE g == [k \in 0..m |-> IF k = m THEN One(f[m-1], status) ELSE f[k]]
    <3>3. ASSUME NEW k \in 0..m
          PROVE  g[k] = IF k = 0 THEN start ELSE One(g[k-1], status)
      <4> HIDE DEF start
      <4>1. CASE k = m
        BY <2>3, <3>1, <4>1
      <4>2. CASE k # m
        <5>1. k \in 0..(m-1) /\ g[k] = f[k]
          BY <3>1, <4>2
        <5>2. f[k] = IF k = 0 THEN start ELSE One(f[k-1], status)
          BY <3>2, <5>1
        <5>3. k # 0 => g[k-1] = f[k-1]
          BY <3>1, <4>2
        <5> QED BY <5>1, <5>2, <5>3
      <4> QED BY <4>1, <4>2
    <3>4. Runs(g, m)
      <4> HIDE DEF start
      <4> QED BY <3>3
    <3> QED BY <2>1, <3>4
  <2> QED BY <2>2, <2>3
<1>2. \E g : Runs(g, n)
  BY <1>1
<1> DEFINE after == CHOOSE g : Runs(g, n)
<1>3. Runs(after, n)
  BY <1>2, Zenon
<1>4. ring' = after[n].ring /\ index' = after[n].index /\ last' = after[n].last
  BY DEF Record, One
<1>5. after[0] = start
      /\ \A k \in 1..n : after[k] = One(after[k-1], status)
  <2> HIDE DEF start, after
  <2> QED
    BY <1>3
<1> DEFINE U == {k \in 0..n : after[k] \notin P}
<1>6. U = {}
  <2> SUFFICES ASSUME U # {} PROVE FALSE
    OBVIOUS
  <2> HIDE DEF after
  <2>1. PICK m \in U : \A j \in U : m <= j
    <3>1. U \subseteq Nat
      OBVIOUS
    <3> HIDE DEF U
    <3> QED BY <3>1, Least
  <2>2. m # 0
    BY <1>5, <2>1
  <2>3. m \in 1..n /\ m - 1 \in 0..n /\ m - 1 < m
    BY <2>2
  <2>4. after[m - 1] \in P
    BY <2>1, <2>3
  <2> QED
    BY <1>5, <2>1, <2>3, <2>4
<1>7. after[n] \in P
  BY <1>6
<1>8. after[n] = [ring |-> after[n].ring, index |-> after[n].index, last |-> after[n].last]
  <2> HIDE DEF after
  <2>1. CASE n = 0
    BY <1>5, <2>1
  <2>2. CASE n # 0
    <3>1. after[n] = One(after[n-1], status)
      BY <1>5, <2>2
    <3> QED BY <3>1 DEF One
  <2> QED BY <2>1, <2>2
<1> QED
  <2> HIDE DEF after
  <2> QED BY <1>4, <1>7, <1>8

\* One result keeps the ring in step with the list, full or not.
LEMMA OneKeeps ==
    ASSUME NEW r, NEW x, NEW l, RingOK(r, x, l), NEW status \in Status
    PROVE  RingOK(Recorded(r, x, status), Following(x),
                  Append(IF Len(l) = Window THEN Tail(l) ELSE l, status))
<1>0. /\ Window \in Nat /\ Window >= 1
      /\ r \in Seq(Status) /\ l \in Seq(Status) /\ Len(r) \in Nat
      /\ Len(r) = Len(l) /\ Len(r) <= Window
      /\ x \in 0..Window - 1
  BY ConstantsOK DEF ConstantsOK, RingOK
<1>1. PICK y : y = Following(x) /\ y = IF x + 1 = Window THEN 0 ELSE x + 1
  BY <1>0, FollowingIs
<1>2. CASE Len(r) < Window
  <2>1. r = l /\ x = Len(r)
    BY <1>2 DEF RingOK
  <2>2. PICK q : q = Append(r, status)
    OBVIOUS
  <2>3. q \in Seq(Status) /\ Len(q) = Len(r) + 1
    BY <1>0, <2>2, AppendProperties
  <2>4. \A i \in 1..Window : Turned(0, i) = i
    BY <1>0 DEF Turned
  <2>5. RingOK(q, y, q)
    BY <1>0, <1>1, <1>2, <2>1, <2>3, <2>4 DEF RingOK
  <2> QED
    BY <1>0, <1>1, <1>2, <2>1, <2>2, <2>5 DEF Recorded
<1>3. CASE Len(r) = Window
  <2>1. PICK q : q = [r EXCEPT ![x + 1] = status]
    OBVIOUS
  <2>2. /\ q \in Seq(Status) /\ Len(q) = Window
        /\ \A i \in 1..Window : q[i] = IF i = x + 1 THEN status ELSE r[i]
    <3>1. x + 1 \in 1..Len(r)
      BY <1>0, <1>3
    <3> QED
      BY <1>0, <1>3, <2>1, <3>1, ExceptSeq
  <2>3. PICK short : short = Tail(l)
    OBVIOUS
  <2>4. /\ short \in Seq(Status) /\ Len(short) = Window - 1
        /\ \A i \in 1..(Window - 1) : short[i] = l[i + 1]
    <3>1. l # <<>>
      <4> SUFFICES ASSUME l = <<>> PROVE FALSE
        OBVIOUS
      <4>1. Len(l) = 0
        OBVIOUS
      <4> QED BY <1>0, <1>3, <4>1
    <3> QED
      BY <1>0, <1>3, <2>3, <3>1, HeadTailProperties
  <2>5. PICK m : m = Append(short, status)
    OBVIOUS
  <2>6. /\ m \in Seq(Status) /\ Len(m) = Window
        /\ \A i \in 1..(Window - 1) : m[i] = l[i + 1]
        /\ m[Window] = status
    BY <1>0, <2>4, <2>5, AppendProperties
  <2>7. ASSUME NEW i \in 1..Window
        PROVE  m[i] = q[Turned(y, i)]
    <3>1. CASE i = Window
      <4>1. Turned(y, i) = x + 1 /\ x + 1 \in 1..Window
        BY <1>0, <1>1, <3>1 DEF Turned
      <4> QED
        BY <2>2, <2>6, <3>1, <4>1
    <3>2. CASE i # Window
      <4>1. i + 1 \in 1..Window /\ i \in 1..(Window - 1)
        BY <1>0, <3>2
      <4>2. Turned(y, i) = Turned(x, i + 1)
        BY <1>0, <1>1, <4>1 DEF Turned
      <4>3. Turned(x, i + 1) \in 1..Window /\ Turned(x, i + 1) # x + 1
        BY <1>0, <4>1 DEF Turned
      <4>4. l[i + 1] = r[Turned(x, i + 1)]
        BY <1>3, <4>1 DEF RingOK
      <4> QED
        BY <2>2, <2>6, <4>1, <4>2, <4>3, <4>4
    <3> QED
      BY <3>1, <3>2
  <2>8. RingOK(q, y, m)
    <3>1. y \in 0..Window - 1
      BY <1>0, <1>1
    <3> QED
      BY <1>0, <2>2, <2>6, <2>7, <3>1 DEF RingOK
  <2> QED
    BY <1>0, <1>1, <1>3, <2>1, <2>3, <2>5, <2>8 DEF Recorded
<1> QED
  BY <1>0, <1>2, <1>3

\* A turned ring has the same results as the last ones in their order.
LEMMA RingCounts ==
    ASSUME NEW r, NEW x, NEW l, RingOK(r, x, l), NEW status
    PROVE  Cardinality({i \in DOMAIN r : r[i] = status})
             = Cardinality({i \in DOMAIN l : l[i] = status})
<1>0. /\ Window \in Nat /\ Window >= 1
      /\ r \in Seq(Status) /\ l \in Seq(Status) /\ Len(r) \in Nat
      /\ Len(r) = Len(l) /\ Len(r) <= Window
      /\ x \in 0..Window - 1
  BY ConstantsOK DEF ConstantsOK, RingOK
<1>1. CASE Len(r) < Window
  BY <1>1 DEF RingOK
<1>2. CASE Len(r) = Window
  <2> DEFINE A == {i \in DOMAIN r : r[i] = status}
             B == {i \in DOMAIN l : l[i] = status}
             f == [i \in B |-> Turned(x, i)]
  <2>1. DOMAIN r = 1..Window /\ DOMAIN l = 1..Window
    <3>1. DOMAIN r = 1..Len(r) /\ DOMAIN l = 1..Len(l)
      BY <1>0, LenProperties
    <3> QED
      BY <1>0, <1>2, <3>1
  <2>2. \A i \in 1..Window : Turned(x, i) \in 1..Window
    BY <1>0 DEF Turned
  <2>3. \A i \in 1..Window : l[i] = r[Turned(x, i)]
    BY <1>2 DEF RingOK
  <2>4. f \in [B -> A]
    BY <2>1, <2>2, <2>3
  <2>5. \A i \in B, j \in B : f[i] = f[j] => i = j
    BY <1>0, <2>1 DEF Turned
  <2>6. ASSUME NEW j \in A
        PROVE  \E i \in B : f[i] = j
    <3>1. PICK i \in 1..Window : Turned(x, i) = j
      <4>1. (IF j > x THEN j - x ELSE j - x + Window) \in 1..Window
        BY <1>0, <2>1
      <4>2. Turned(x, IF j > x THEN j - x ELSE j - x + Window) = j
        BY <1>0, <2>1 DEF Turned
      <4> QED
        BY <4>1, <4>2
    <3> QED
      BY <2>1, <2>3, <3>1
  <2>7. IsFiniteSet(B)
    <3>1. IsFiniteSet(1..Window) /\ B \subseteq 1..Window
      BY <1>0, <2>1, FS_Interval
    <3> QED
      BY <3>1, FS_Subset
  <2> HIDE DEF A, B, f
  <2>8. f \in Bijection(B, A)
    BY <2>4, <2>5, <2>6, Fun_IsBij
  <2>9. Cardinality(A) = Cardinality(B)
    BY <2>7, <2>8, FS_Bijection DEF ExistsBijection
  <2> QED
    BY <2>9 DEF A, B
<1> QED
  BY <1>0, <1>1, <1>2

\* Recording any number of results leaves such a ring.
LEMMA RecordKeepsRing ==
    ASSUME RingOK(ring, index, last), NEW n \in Nat, NEW status \in Status, Record(n, status)
    PROVE  RingOK(ring', index', last')
<1> DEFINE P == {b \in [ring : Seq(Status), index : 0..Window - 1, last : Seq(Status)] :
                   RingOK(b.ring, b.index, b.last)}
<1>1. ASSUME NEW r, NEW x, NEW l
      PROVE  [ring |-> r, index |-> x, last |-> l] \in P <=> RingOK(r, x, l)
  BY DEF RingOK
<1>2. \A b \in P : One(b, status) \in P
  <2> SUFFICES ASSUME NEW b \in P PROVE One(b, status) \in P
    OBVIOUS
  <2>1. RingOK(b.ring, b.index, b.last)
    OBVIOUS
  <2> HIDE DEF P
  <2> QED
    BY <1>1, <2>1, OneKeeps DEF One
<1> HIDE DEF P
<1> QED
  BY <1>1, <1>2, RecordGives

LEMMA RingKept ==
    ASSUME PlaceInv, RingOK(ring, index, last), [Next]_vars
    PROVE  RingOK(ring', index', last')
<1>0. Cardinality(overdue) \in Nat
  <2>1. IsFiniteSet(1..pings) /\ overdue \subseteq 1..pings
    BY FS_Interval DEF PlaceInv, Bounds
  <2> QED
    BY <2>1, FS_Subset, FS_CardinalityType
<1>1. CASE UNCHANGED ringed
  BY <1>1 DEF ringed
<1>2. CASE \E n \in Nat, status \in Status : Record(n, status)
  BY <1>2, RecordKeepsRing
<1>3. ASSUME NEW m \in Messages, MessageNext(m)
      PROVE  UNCHANGED ringed \/ \E n \in Nat, status \in Status : Record(n, status)
  <2>1. CASE Pong(m) \/ ClientPing(m)
    <3>1. Record(1, "ok")
      BY <2>1 DEF Pong, ClientPing
    <3> QED
      BY <3>1 DEF Status
  <2>2. CASE LatePong(m) \/ RequestPing(m) \/ TraceResult(m) \/ OtherResult(m)
             \/ RowStored(m) \/ RowFails(m)
    BY <2>2 DEF LatePong, RequestPing, TraceResult, OtherResult, RowStored, RowFails, pinging
  <2> QED
    BY <1>3, <2>1, <2>2 DEF MessageNext
<1>4. ASSUME NEW h \in Handler, HandlerNext(h)
      PROVE  UNCHANGED ringed
  BY <1>4 DEF HandlerNext, WriteBatch, BatchFails, AlertStored, AlertFails, AlertOver, pinging
<1>5. CASE AlarmNext
  <2>1. CASE AlarmPing \/ AlarmFindsDead
    <3>1. Record(Cardinality(overdue), "timeout")
      BY <2>1 DEF AlarmPing, AlarmFindsDead
    <3> QED
      BY <1>0, <1>2, <3>1 DEF Status
  <2>2. CASE AlarmSimulates
    <3>1. Record(Cardinality(overdue) + 1, "timeout") /\ Cardinality(overdue) + 1 \in Nat
      BY <1>0, <2>2 DEF AlarmSimulates
    <3> QED
      BY <1>2, <3>1 DEF Status
  <2>3. CASE AlarmDown
    BY <1>1, <2>3 DEF AlarmDown, pinging
  <2> QED
    BY <1>5, <2>1, <2>2, <2>3 DEF AlarmNext
<1>6. CASE Hibernate \/ Crash
  <2>1. ring' = <<>> /\ index' = 0 /\ last' = <<>>
    BY <1>6 DEF Hibernate, Crash, Forget
  <2>2. Window \in Nat /\ Window >= 1 /\ Len(<<>>) = 0
    BY ConstantsOK DEF ConstantsOK
  <2> QED
    BY <2>1, <2>2 DEF RingOK
<1>7. ASSUME NEW p \in Ping, Overdue(p)
      PROVE  UNCHANGED ringed
  BY <1>7 DEF Overdue
<1>8. ASSUME NEW type \in AlertType, CooldownEnds(type)
      PROVE  UNCHANGED ringed
  BY <1>8 DEF CooldownEnds, pinging
<1>9. CASE RunTrace \/ TagExpires \/ TraceSpanEnds \/ Simulate \/ Disconnect \/ Reconnect
           \/ UNCHANGED vars
  BY <1>1, <1>9 DEF RunTrace, TagExpires, TraceSpanEnds, Simulate, Disconnect, Reconnect,
     pinging, vars
<1> QED
  BY <1>1, <1>2, <1>3, <1>4, <1>5, <1>6, <1>7, <1>8, <1>9 DEF Next

-----------------------------------------------------------------------------
(***************************************************************************)
(* Types, beyond the places of the pings.                                  *)
(***************************************************************************)
Places(n) == {Idle, [at |-> "row"]} \cup [at : {"flush"}, batch : SUBSET (1..n)]
               \cup [at : {"insert", "dispatch"}, type : AlertType]

HandlerTypes == \A h \in Handler : handler[h] \in Places(pings)

CountTypes ==
    /\ cooldown \subseteq AlertType /\ alerts \in 0..MaxAlerts
    /\ connected \in BOOLEAN /\ lossy \in BOOLEAN
    /\ traceSpan \in BOOLEAN /\ tag \in BOOLEAN
    /\ tracing \in 0..traces /\ traces \in 0..MaxTraces
    /\ excused \subseteq 1..pings
    /\ ordered \in 0..traces /\ tagged \in Nat

LEMMA FlushGoes ==
    ASSUME NEW h, NEW n, NEW b \in SUBSET (1..n), Flush(h, b)
    PROVE  \E to \in Places(n) : Goes(h, to)
BY DEF Flush, Places

LEMMA CheckGoes ==
    ASSUME NEW h, NEW n, NEW b \in SUBSET (1..n), NEW types, NEW r, Check(h, types, r, b)
    PROVE  \E to \in Places(n) : Goes(h, to)
<1>1. CASE Flush(h, b)
  BY <1>1, FlushGoes
<1>2. ASSUME NEW type \in {"high_latency", "packet_loss"}, Raises(h, type)
      PROVE  \E to \in Places(n) : Goes(h, to)
  BY <1>2 DEF Raises, Places, AlertType
<1> QED
  BY <1>1, <1>2 DEF Check

LEMMA HandlersTyped ==
    ASSUME PlaceInv, HandlerTypes, [Next]_vars
    PROVE  HandlerTypes'
<1>0. /\ handler = [h \in Handler |-> handler[h]]
      /\ pings \in Nat /\ inFlight \subseteq 1..pings /\ overdue \subseteq inFlight
      /\ buffer \subseteq 1..pings
      /\ "alarm" \in Handler /\ Messages \subseteq Handler
  BY DEF PlaceInv, Bounds, Handler
<1>1. ASSUME pings' \in {pings, pings + 1},
             UNCHANGED handler \/ \E h \in Handler : \E to \in Places(pings') : Goes(h, to)
      PROVE  HandlerTypes'
  <2>1. 1..pings \subseteq 1..pings'
    BY <1>0, <1>1
  <2>2. \A h \in Handler : handler[h] \in Places(pings')
    BY <2>1 DEF HandlerTypes, Places
  <2> QED
    BY <1>0, <1>1, <2>2 DEF HandlerTypes, Goes
<1>2. /\ \A n : Idle \in Places(n) /\ [at |-> "row"] \in Places(n)
      /\ \A n : \A type \in AlertType : [at |-> "insert", type |-> type] \in Places(n)
      /\ \A n : \A type \in AlertType : [at |-> "dispatch", type |-> type] \in Places(n)
  BY DEF Places
<1>3. ASSUME NEW m \in Messages, MessageNext(m)
      PROVE  HandlerTypes'
  <2>1. CASE Pong(m)
    <3>1. PICK p \in inFlight, slow \in BOOLEAN :
            Check(m, IF slow THEN {"high_latency", "packet_loss"} ELSE {"packet_loss"},
                  ring', buffer \cup {p})
      BY <2>1 DEF Pong
    <3>2. pings' = pings /\ buffer \cup {p} \in SUBSET (1..pings)
      BY <1>0, <2>1 DEF Pong
    <3> QED
      BY <1>0, <1>1, <3>1, <3>2, CheckGoes
  <2>2. CASE ClientPing(m)
    <3>1. pings' = pings + 1 /\ Flush(m, buffer \cup {pings'})
      BY <2>2 DEF ClientPing
    <3>2. buffer \cup {pings'} \in SUBSET (1..pings')
      BY <1>0, <3>1
    <3> QED
      BY <1>0, <1>1, <3>1, <3>2, FlushGoes
  <2>3. CASE LatePong(m) \/ RequestPing(m) \/ RowStored(m)
    <3>1. pings' \in {pings, pings + 1} /\ Flush(m, buffer)
      BY <2>3 DEF LatePong, RequestPing, RowStored, SendPing
    <3>2. buffer \in SUBSET (1..pings')
      BY <1>0, <3>1
    <3> QED
      BY <1>0, <1>1, <3>1, <3>2, FlushGoes
  <2>4. CASE TraceResult(m) \/ OtherResult(m) \/ RowFails(m)
    BY <1>0, <1>1, <1>2, <2>4 DEF TraceResult, OtherResult, RowFails, pinging
  <2> QED
    BY <1>3, <2>1, <2>2, <2>3, <2>4 DEF MessageNext
<1>4. ASSUME NEW h \in Handler, HandlerNext(h)
      PROVE  HandlerTypes'
  <2>1. CASE WriteBatch(h) \/ BatchFails(h) \/ AlertFails(h)
    BY <1>1, <1>2, <2>1 DEF WriteBatch, BatchFails, AlertFails, pinging
  <2>2. CASE AlertStored(h)
    <3>1. handler[h] \in [at : {"insert"}, type : AlertType]
      BY <2>2 DEF AlertStored, At, HandlerTypes, Places, Idle
    <3>2. [handler[h] EXCEPT !.at = "dispatch"] = [at |-> "dispatch", type |-> handler[h].type]
      BY <3>1
    <3> QED
      BY <1>1, <1>2, <2>2, <3>1, <3>2 DEF AlertStored, pinging
  <2>3. CASE AlertOver(h)
    <3>1. pings' = pings /\ buffer \in SUBSET (1..pings') /\ Resume(h)
      BY <1>0, <2>3 DEF AlertOver
    <3> QED
      BY <1>1, <1>2, <3>1, CheckGoes DEF Resume
  <2> QED
    BY <1>4, <2>1, <2>2, <2>3 DEF HandlerNext
<1>5. CASE AlarmNext
  <2>1. CASE AlarmPing
    <3>1. pings' = pings + 1 /\ Flush("alarm", buffer \cup overdue)
      BY <2>1 DEF AlarmPing, SendPing
    <3>2. buffer \cup overdue \in SUBSET (1..pings')
      BY <1>0, <3>1
    <3> QED
      BY <1>0, <1>1, <3>1, <3>2, FlushGoes
  <2>2. CASE AlarmSimulates
    <3>1. pings' = pings + 1 /\ Flush("alarm", buffer \cup overdue \cup {pings'})
      BY <2>2 DEF AlarmSimulates
    <3>2. buffer \cup overdue \cup {pings'} \in SUBSET (1..pings')
      BY <1>0, <3>1
    <3> QED
      BY <1>0, <1>1, <3>1, <3>2, FlushGoes
  <2>3. CASE AlarmFindsDead
    BY <1>1, <2>3 DEF AlarmFindsDead
  <2>4. CASE AlarmDown
    BY <1>0, <1>1, <1>2, <2>4 DEF AlarmDown, Raises, AlertType, pinging
  <2> QED
    BY <1>5, <2>1, <2>2, <2>3, <2>4 DEF AlarmNext
<1>6. CASE Hibernate \/ Crash
  <2>1. handler' = [h \in Handler |-> Idle]
    BY <1>6 DEF Hibernate, Crash, Forget
  <2> QED
    BY <1>2, <2>1 DEF HandlerTypes
<1>7. ASSUME NEW p \in Ping, Overdue(p)
      PROVE  HandlerTypes'
  BY <1>1, <1>7 DEF Overdue
<1>8. ASSUME NEW type \in AlertType, CooldownEnds(type)
      PROVE  HandlerTypes'
  BY <1>1, <1>8 DEF CooldownEnds, pinging
<1>9. CASE RunTrace \/ TagExpires \/ TraceSpanEnds \/ Simulate \/ Disconnect \/ Reconnect
           \/ UNCHANGED vars
  BY <1>1, <1>9 DEF RunTrace, TagExpires, TraceSpanEnds, Simulate, Disconnect, Reconnect,
     pinging, vars
<1> QED
  BY <1>3, <1>4, <1>5, <1>6, <1>7, <1>8, <1>9 DEF Next

\* Raising an alert starts a cooldown and is counted; a flush does neither.
LEMMA CheckCounts ==
    ASSUME CountTypes, NEW h, NEW types, NEW r, NEW b,
           Check(h, types, r, b) \/ Flush(h, b)
    PROVE  cooldown' \subseteq AlertType /\ alerts' \in 0..MaxAlerts
<1>1. CASE Flush(h, b)
  BY <1>1 DEF Flush, raising, CountTypes
<1>2. ASSUME NEW type \in {"high_latency", "packet_loss"}, Raises(h, type)
      PROVE  cooldown' \subseteq AlertType /\ alerts' \in 0..MaxAlerts
  BY <1>2, ConstantsOK DEF ConstantsOK, Raises, CountTypes, AlertType
<1> QED
  BY <1>1, <1>2 DEF Check

LEMMA CountsTyped ==
    ASSUME PlaceInv, CountTypes, [Next]_vars
    PROVE  CountTypes'
<1>0. /\ MaxAlerts \in Nat /\ MaxTraces \in Nat
      /\ pings \in Nat /\ inFlight \subseteq 1..pings /\ buffer \subseteq 1..pings
      /\ \A h \in Handler : At(h, "flush") => handler[h].batch \subseteq 1..pings
  BY ConstantsOK DEF ConstantsOK, PlaceInv, Bounds, Flushing
<1>1. ASSUME UNCHANGED <<connected, lossy, tracks, excused>>, pings' \in {pings, pings + 1},
             cooldown' \subseteq AlertType /\ alerts' \in 0..MaxAlerts
      PROVE  CountTypes'
  <2>1. excused' \subseteq 1..pings'
    BY <1>0, <1>1 DEF CountTypes
  <2> QED
    BY <1>1, <2>1 DEF CountTypes, tracks
<1>2. ASSUME UNCHANGED <<connected, lossy, raising, tracks>>, pings' = pings,
             excused' \subseteq 1..pings
      PROVE  CountTypes'
  BY <1>2 DEF CountTypes, raising, tracks
<1>3. ASSUME NEW m \in Messages, MessageNext(m)
      PROVE  CountTypes'
  <2>1. CASE Pong(m) \/ ClientPing(m) \/ LatePong(m) \/ RequestPing(m) \/ RowStored(m)
    <3>1. /\ UNCHANGED <<connected, lossy, tracks, excused>> /\ pings' \in {pings, pings + 1}
          /\ \E types, r, b : Check(m, types, r, b) \/ Flush(m, b)
      BY <2>1 DEF Pong, ClientPing, LatePong, RequestPing, RowStored, SendPing
    <3> QED
      BY <1>1, <3>1, CheckCounts
  <2>2. CASE TraceResult(m)
    <3>1. /\ UNCHANGED <<connected, lossy, raising, pinging, traceSpan, traces, ordered>>
          /\ tracing > 0 /\ tracing' = tracing - 1
          /\ tagged' = IF tag THEN tagged + 1 ELSE tagged
          /\ tag' = FALSE
      BY <2>2 DEF TraceResult, TagAfter
    <3>2. tracing' \in 0..traces /\ tagged' \in Nat
      BY <3>1 DEF CountTypes
    <3> QED
      BY <3>1, <3>2 DEF CountTypes, raising, pinging
  <2>3. CASE OtherResult(m) \/ RowFails(m)
    BY <1>2, <2>3 DEF OtherResult, RowFails, pinging, CountTypes
  <2> QED
    BY <1>3, <2>1, <2>2, <2>3 DEF MessageNext
<1>4. ASSUME NEW h \in Handler, HandlerNext(h)
      PROVE  CountTypes'
  <2>1. CASE WriteBatch(h) \/ AlertFails(h)
    BY <1>2, <2>1 DEF WriteBatch, AlertFails, pinging, CountTypes
  <2>2. CASE BatchFails(h)
    BY <1>0, <1>2, <2>2 DEF BatchFails, CountTypes
  <2>3. CASE AlertStored(h)
    <3>1. UNCHANGED <<connected, lossy, raising, pinging>> /\ OrderTrace
      BY <2>3 DEF AlertStored
    <3>2. CASE connected /\ ~traceSpan
      <4>1. /\ traces' \in 0..MaxTraces /\ tracing' \in 0..traces' /\ ordered' \in 0..traces'
            /\ traceSpan' = TRUE /\ tag' = TRUE /\ tagged' = tagged
        BY <1>0, <3>1, <3>2 DEF OrderTrace, CountTypes
      <4> QED
        BY <3>1, <4>1 DEF CountTypes, raising, pinging
    <3>3. CASE ~(connected /\ ~traceSpan)
      BY <1>2, <3>1, <3>3 DEF OrderTrace, pinging, CountTypes
    <3> QED
      BY <3>2, <3>3
  <2>4. CASE AlertOver(h)
    <3>1. UNCHANGED <<connected, lossy, tracks, pings, excused>> /\ Resume(h)
      BY <2>4 DEF AlertOver
    <3>2. UNCHANGED raising \/ \E types, r, b : Check(h, types, r, b) \/ Flush(h, b)
      BY <3>1 DEF Resume
    <3> QED
      BY <1>1, <3>1, <3>2, CheckCounts DEF CountTypes, raising
  <2> QED
    BY <1>4, <2>1, <2>2, <2>3, <2>4 DEF HandlerNext
<1>5. CASE AlarmNext
  <2>1. CASE AlarmPing \/ AlarmSimulates
    <3>1. /\ UNCHANGED <<connected, lossy, tracks, excused>> /\ pings' \in {pings, pings + 1}
          /\ \E types, r, b : Check("alarm", types, r, b) \/ Flush("alarm", b)
      BY <2>1 DEF AlarmPing, AlarmSimulates, SendPing
    <3> QED
      BY <1>1, <3>1, CheckCounts
  <2>2. CASE AlarmFindsDead
    <3>1. tracing' \in 0..traces' /\ excused' = excused /\ connected' = FALSE
      BY <2>2 DEF AlarmFindsDead, CountTypes
    <3> QED
      BY <2>2, <3>1 DEF AlarmFindsDead, CountTypes, raising
  <2>3. CASE AlarmDown
    <3>1. cooldown' \subseteq AlertType /\ alerts' \in 0..MaxAlerts
      BY <1>0, <2>3 DEF AlarmDown, Raises, CountTypes, AlertType
    <3> QED
      BY <1>1, <2>3, <3>1 DEF AlarmDown, pinging
  <2> QED
    BY <1>5, <2>1, <2>2, <2>3 DEF AlarmNext
<1>6. CASE Hibernate \/ Crash
  <2>1. excused' = excused \cup inFlight \cup buffer \cup InBatch
    BY <1>6 DEF Hibernate, Crash, Forget
  <2>2. InBatch \subseteq 1..pings
    BY <1>0 DEF InBatch
  <2>3. excused' \subseteq 1..pings
    BY <1>0, <2>1, <2>2 DEF CountTypes
  <2> QED
    BY <1>6, <2>3 DEF Hibernate, Crash, Forget, CountTypes
<1>7. ASSUME NEW p \in Ping, Overdue(p)
      PROVE  CountTypes'
  BY <1>2, <1>7 DEF Overdue, CountTypes
<1>8. ASSUME NEW type \in AlertType, CooldownEnds(type)
      PROVE  CountTypes'
  BY <1>1, <1>8 DEF CooldownEnds, pinging, CountTypes
<1>9. CASE RunTrace
  <2>1. tracing' \in 0..traces' /\ traces' \in 0..MaxTraces /\ ordered' \in 0..traces'
    BY <1>0, <1>9 DEF RunTrace, CountTypes
  <2> QED
    BY <1>9, <2>1 DEF RunTrace, CountTypes, raising, pinging
<1>10. CASE Disconnect
  <2>1. tracing' \in 0..traces'
    BY <1>10 DEF Disconnect, CountTypes
  <2> QED
    BY <1>10, <2>1 DEF Disconnect, CountTypes, raising, pinging
<1>11. CASE TagExpires \/ TraceSpanEnds \/ Simulate \/ Reconnect \/ UNCHANGED vars
  BY <1>11 DEF TagExpires, TraceSpanEnds, Simulate, Reconnect, vars, CountTypes, raising,
     pinging, tracks
<1> QED
  BY <1>3, <1>4, <1>5, <1>6, <1>7, <1>8, <1>9, <1>10, <1>11 DEF Next

\* Whatever the handlers and the alarm record, in whatever order, one result or
\* many timeouts at once, before the ring is full and after any number of
\* turns, it counts the last results and no others; and the types are kept.
THEOREM RingHoldsTheLast == Spec => []RingIsRecent
<1> DEFINE Inv == PlaceInv /\ RingOK(ring, index, last) /\ HandlerTypes /\ CountTypes
<1>1. Init => RingOK(ring, index, last) /\ HandlerTypes /\ CountTypes
  <2> SUFFICES ASSUME Init PROVE RingOK(ring, index, last) /\ HandlerTypes /\ CountTypes
    OBVIOUS
  <2>1. Window \in Nat /\ Window >= 1 /\ Len(<<>>) = 0 /\ MaxAlerts \in Nat /\ MaxTraces \in Nat
    BY ConstantsOK DEF ConstantsOK
  <2>2. RingOK(ring, index, last)
    BY <2>1 DEF Init, RingOK
  <2>3. HandlerTypes
    BY DEF Init, HandlerTypes, Places
  <2>4. CountTypes
    <3>1. 0 \in 0..MaxAlerts /\ 0 \in 0..MaxTraces /\ 0 \in 0..0 /\ 0 \in Nat
      BY <2>1
    <3> QED
      BY <3>1 DEF Init, CountTypes
  <2> QED
    BY <2>2, <2>3, <2>4
<1>2. Inv /\ [Next]_vars => RingOK(ring, index, last)' /\ HandlerTypes' /\ CountTypes'
  BY RingKept, HandlersTyped, CountsTyped
<1>3. Inv => RingIsRecent
  <2> SUFFICES ASSUME Inv PROVE RingIsRecent
    OBVIOUS
  <2>1. TypeOK
    BY DEF PlaceInv, Bounds, RingOK, HandlerTypes, Places, CountTypes, TypeOK
  <2> QED
    BY <2>1, RingCounts DEF RingIsRecent
<1> QED
  BY <1>1, <1>2, <1>3, PlaceInvHolds, PTL DEF Spec

=============================================================================
