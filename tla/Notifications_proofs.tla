------------------------- MODULE Notifications_proofs -------------------------
(***************************************************************************)
(* Theorems about Notifications, for every number of message handlers and  *)
(* alerts and every choice of channels.                                    *)
(***************************************************************************)
EXTENDS Notifications, FiniteSetTheorems, TLAPS

(***************************************************************************)
(* The invariant, part by part.                                            *)
(***************************************************************************)
Under(h) == handler[h].at \in {"mute", "clear", "send", "status"}
Inserting == {h \in Handler : At(h, "insert")}
Doing == {Idle} \cup [at : {"insert"}, type : AlertType] \cup Dispatching
Row == [type : AlertType, status : [Channel -> {-1, 0, 1}]]

\* A handler that dispatches has the alert of a row, unless it is a request.
HandlerShape(h) ==
    Under(h) =>
        /\ handler[h].alert = 0 <=> h = "web"
        /\ h = "web" => handler[h].at \in {"mute", "clear"}
        /\ handler[h].alert <= Len(alerts)

\* The types, and the number of rows there will be.
Shape ==
    /\ TypeOK
    /\ alerts \in Seq(Row)
    /\ handler \in [Handler -> Doing]
    /\ IsFiniteSet(Inserting) /\ Len(alerts) + Cardinality(Inserting) <= MaxAlerts
    /\ \A h \in Handler : HandlerShape(h)
    /\ ~At("web", "insert")
    /\ retry.alert <= Len(alerts)

(***************************************************************************)
(* The states of a handler, without the records.                           *)
(***************************************************************************)
\* A handler is idle, inserting or dispatching.
LEMMA Doings ==
    /\ Idle.at = "idle" /\ Idle \in Doing
    /\ \A type \in AlertType : /\ [at |-> "insert", type |-> type] \in Doing
                               /\ [at |-> "insert", type |-> type].at = "insert"
                               /\ [at |-> "insert", type |-> type].type = type
    /\ \A d \in Doing :
         /\ d.at \in {"idle", "insert", "mute", "clear", "send", "status"}
         /\ d.at = "insert" => d.type \in AlertType
         /\ d.at \in {"mute", "clear", "send", "status"} <=> d \in Dispatching
    /\ Dispatching \subseteq Doing
<1>1. Idle.at = "idle" /\ Idle \in Doing
  BY DEF Idle, Doing
<1>2. \A type \in AlertType : /\ [at |-> "insert", type |-> type] \in Doing
                              /\ [at |-> "insert", type |-> type].at = "insert"
                              /\ [at |-> "insert", type |-> type].type = type
  BY DEF Doing
<1>3. ASSUME NEW d \in Dispatching PROVE d.at \in {"mute", "clear", "send", "status"}
  BY DEF Dispatching
<1>4. ASSUME NEW d \in [at : {"insert"}, type : AlertType]
      PROVE  d.at = "insert" /\ d.type \in AlertType
  OBVIOUS
<1>5. Dispatching \subseteq Doing
  BY DEF Doing
<1>6. ASSUME NEW d \in Doing
      PROVE  d = Idle \/ d \in [at : {"insert"}, type : AlertType] \/ d \in Dispatching
  BY DEF Doing
<1> QED BY <1>1, <1>2, <1>3, <1>4, <1>5, <1>6

\* The fields of a row.
LEMMA Rows ==
    ASSUME alerts \in Seq(Row)
    PROVE  \A a \in 1..Len(alerts) : /\ alerts[a] \in Row
                                     /\ alerts[a].type \in AlertType
                                     /\ alerts[a].status \in [Channel -> {-1, 0, 1}]
<1>1. \A a \in 1..Len(alerts) : alerts[a] \in Row
  OBVIOUS
<1> QED BY <1>1 DEF Row

\* The fields of a dispatch, and what changes one keeps it a dispatch.
LEMMA Dispatchings ==
    /\ \A d \in Dispatching :
         /\ d.at \in {"mute", "clear", "send", "status"}
         /\ d.alert \in {0} \cup Alert /\ d.type \in AlertType
         /\ d.tried \subseteq Channel /\ d.posted \subseteq Channel /\ d.again \in BOOLEAN
    /\ \A d \in Dispatching, p \in SUBSET Channel :
         /\ [d EXCEPT !.at = "clear"] \in Dispatching
         /\ [d EXCEPT !.at = "send", !.posted = p] \in Dispatching
         /\ [d EXCEPT !.at = "status", !.posted = p] \in Dispatching
BY DEF Dispatching

\* What a change of a dispatch leaves.
LEMMA DispatchChanges ==
    ASSUME NEW d \in Dispatching, NEW p
    PROVE  /\ LET e == [d EXCEPT !.at = "clear"] IN
                /\ e.at = "clear" /\ e.alert = d.alert /\ e.type = d.type
                /\ e.tried = d.tried /\ e.posted = d.posted /\ e.again = d.again
           /\ LET e == [d EXCEPT !.at = "send", !.posted = p] IN
                /\ e.at = "send" /\ e.alert = d.alert /\ e.type = d.type
                /\ e.tried = d.tried /\ e.posted = p /\ e.again = d.again
           /\ LET e == [d EXCEPT !.at = "status", !.posted = p] IN
                /\ e.at = "status" /\ e.alert = d.alert /\ e.type = d.type
                /\ e.tried = d.tried /\ e.posted = p /\ e.again = d.again
BY DEF Dispatching

\* A dispatch begins.
LEMMA DispatchBegins ==
    ASSUME NEW a \in {0} \cup Alert, NEW type \in AlertType, NEW channels \in SUBSET Channel,
           NEW again \in BOOLEAN
    PROVE  LET d == Dispatch(a, type, channels, again) IN
             /\ d \in Dispatching /\ d.at \in {"mute", "send"}
             /\ d.alert = a /\ d.type = type /\ d.again = again
             /\ d.tried = channels /\ d.posted \subseteq channels
BY ConstantsOK DEF Dispatch, Dispatching

\* One handler goes elsewhere.
LEMMA Moved ==
    ASSUME handler \in [Handler -> Doing], NEW h \in Handler, NEW to \in Doing, Goes(h, to)
    PROVE  /\ handler' \in [Handler -> Doing] /\ handler'[h] = to
           /\ \A g \in Handler : g # h => handler'[g] = handler[g]
BY DEF Goes

(***************************************************************************)
(* What the actions of a handler do, without the records.                  *)
(***************************************************************************)
Others(h) ==
    /\ handler' \in [Handler -> Doing]
    /\ \A g \in Handler : g # h => handler'[g] = handler[g]

\* A handler that dispatches an alert is in the states of a dispatch.
LEMMA UnderWay ==
    ASSUME Shape, NEW h \in Handler, Under(h)
    PROVE  /\ handler[h] \in Dispatching
           /\ handler[h].alert \in {0} \cup Alert /\ handler[h].type \in AlertType
           /\ handler[h].tried \subseteq Channel /\ handler[h].posted \subseteq Channel
           /\ handler[h].again \in BOOLEAN
           /\ h # "web" => handler[h].alert \in 1..Len(alerts) /\ handler[h].alert \in Alert
<1>1. handler[h] \in Dispatching
  BY Doings DEF Under, Shape
<1>2. Alert \subseteq Nat /\ Len(alerts) \in Nat
  BY DEF Alert, Shape
<1>3. handler[h].alert \in {0} \cup Alert
  BY <1>1, Dispatchings
<1>4. HandlerShape(h)
  BY DEF Shape
<1>5. h # "web" => handler[h].alert \in Alert /\ handler[h].alert \in 1..Len(alerts)
  BY <1>2, <1>3, <1>4 DEF HandlerShape, Alert
<1> QED BY <1>1, <1>3, <1>5, Dispatchings

\* Reading or clearing the mute setting: on to the next await, with the alert.
LEMMA Proceeds ==
    ASSUME Shape, NEW h \in Handler, ReadMute(h) \/ ClearMute(h)
    PROVE  /\ Under(h) /\ handler[h].at \in {"mute", "clear"} /\ Others(h)
           /\ UNCHANGED <<selected, alerts, cooldown, retry, record>>
           /\ \/ h = "web" /\ handler'[h] = Idle
              \/ /\ handler'[h] \in Dispatching
                 /\ handler'[h].at = "clear" => handler[h].at = "mute" /\ Expired
                 /\ handler'[h].at \in {"clear", "send"}
                 /\ handler'[h].at = "send" => h # "web"
                 /\ handler'[h].alert = handler[h].alert /\ handler'[h].type = handler[h].type
                 /\ handler'[h].tried = handler[h].tried /\ handler'[h].again = handler[h].again
                 /\ handler'[h].posted \subseteq handler[h].posted
<1>1. Under(h) /\ handler[h].at \in {"mute", "clear"} /\ handler[h] \in Dispatching
  BY UnderWay DEF Under, ReadMute, ClearMute, At
<1>2. UNCHANGED <<selected, alerts, cooldown, retry, record>>
  BY DEF ReadMute, ClearMute, muting, record
<1>3. handler \in [Handler -> Doing]
  BY DEF Shape
<1>4. CASE handler[h].at = "mute" /\ Expired /\ Goes(h, [handler[h] EXCEPT !.at = "clear"])
  <2>1. [handler[h] EXCEPT !.at = "clear"] \in Dispatching
    BY <1>1, Dispatchings
  <2>2. Others(h) /\ handler'[h] = [handler[h] EXCEPT !.at = "clear"]
    BY <1>3, <1>4, <2>1, Moved, Doings DEF Others
  <2> QED BY <1>1, <1>2, <1>4, <2>1, <2>2, DispatchChanges
<1>5. ASSUME NEW muted, Goes(h, Reading(h, muted))
      PROVE  /\ Others(h)
             /\ \/ h = "web" /\ handler'[h] = Idle
                \/ /\ handler'[h] \in Dispatching /\ handler'[h].at = "send" /\ h # "web"
                   /\ handler'[h].alert = handler[h].alert /\ handler'[h].type = handler[h].type
                   /\ handler'[h].tried = handler[h].tried /\ handler'[h].again = handler[h].again
                   /\ handler'[h].posted \subseteq handler[h].posted
  <2>1. CASE h = "web"
    BY <1>3, <1>5, <2>1, Moved, Doings DEF Reading, Others
  <2>2. CASE h # "web"
    <3>1. /\ Allowed(h, muted) \subseteq handler[h].posted
          /\ Allowed(h, muted) \subseteq Channel
      BY <1>1, Dispatchings DEF Allowed
    <3>2. Reading(h, muted) = [handler[h] EXCEPT !.at = "send", !.posted = Allowed(h, muted)]
      BY <2>2 DEF Reading
    <3>3. Reading(h, muted) \in Dispatching
      <4>1. \A p \in SUBSET Channel : [handler[h] EXCEPT !.at = "send", !.posted = p] \in Dispatching
        BY <1>1, Dispatchings
      <4>2. Allowed(h, muted) \in SUBSET Channel
        BY <3>1
      <4> QED BY <3>2, <4>1, <4>2
    <3>4. Others(h) /\ handler'[h] = Reading(h, muted)
      BY <1>3, <1>5, <3>3, Moved, Doings DEF Others
    <3> QED BY <1>1, <2>2, <3>1, <3>2, <3>3, <3>4, DispatchChanges
  <2> QED BY <2>1, <2>2
<1> QED BY <1>1, <1>2, <1>4, <1>5 DEF ReadMute, ClearMute, At

\* The messages of one alert.
LEMMA SendEffects ==
    ASSUME Shape, NEW h \in Handler, Send(h)
    PROVE  /\ At(h, "send") /\ Under(h) /\ h # "web" /\ Others(h)
           /\ UNCHANGED <<selected, alerts, cooldown, retry, over, muting>>
           /\ handler'[h] \in Dispatching /\ handler'[h].at = "status"
           /\ handler'[h].alert = handler[h].alert /\ handler'[h].type = handler[h].type
           /\ handler'[h].tried = handler[h].tried /\ handler'[h].again = handler[h].again
           /\ \E reached \in SUBSET handler[h].posted :
                LET a == handler[h].alert IN
                /\ handler'[h].posted \subseteq reached
                /\ delivered' = [delivered EXCEPT ![a] =
                                   [c \in Channel |-> @[c] + IF c \in reached THEN 1 ELSE 0]]
                /\ unanswered' = IF handler'[h].posted # reached THEN unanswered \cup {a}
                                 ELSE unanswered
<1>1. At(h, "send") /\ Under(h) /\ h # "web"
  BY DEF Send, At, Under, Shape, HandlerShape
<1>2. handler[h] \in Dispatching /\ handler[h].posted \subseteq Channel
  BY <1>1, UnderWay
<1>3. PICK reached \in Reached(h) : \E answered \in Answered(reached) :
         LET a == handler[h].alert IN
         /\ delivered' = [delivered EXCEPT ![a] =
                            [c \in Channel |-> @[c] + IF c \in reached THEN 1 ELSE 0]]
         /\ unanswered' = IF answered # reached THEN unanswered \cup {a} ELSE unanswered
         /\ Goes(h, [handler[h] EXCEPT !.at = "status", !.posted = answered])
  BY DEF Send
<1>4. PICK answered \in Answered(reached) :
         LET a == handler[h].alert IN
         /\ delivered' = [delivered EXCEPT ![a] =
                            [c \in Channel |-> @[c] + IF c \in reached THEN 1 ELSE 0]]
         /\ unanswered' = IF answered # reached THEN unanswered \cup {a} ELSE unanswered
         /\ Goes(h, [handler[h] EXCEPT !.at = "status", !.posted = answered])
  BY <1>3
<1>5. reached \in SUBSET handler[h].posted /\ answered \subseteq reached
  BY DEF Reached, Answered
<1>6. [handler[h] EXCEPT !.at = "status", !.posted = answered] \in Dispatching
  <2>1. answered \in SUBSET Channel
    BY <1>2, <1>5
  <2>2. \A p \in SUBSET Channel : [handler[h] EXCEPT !.at = "status", !.posted = p] \in Dispatching
    BY <1>2, Dispatchings
  <2> QED BY <2>1, <2>2
<1>7. /\ Others(h)
      /\ handler'[h] = [handler[h] EXCEPT !.at = "status", !.posted = answered]
  BY <1>4, <1>6, Moved, Doings DEF Others, Shape
<1>8. /\ handler'[h] \in Dispatching /\ handler'[h].at = "status"
      /\ handler'[h].alert = handler[h].alert /\ handler'[h].type = handler[h].type
      /\ handler'[h].tried = handler[h].tried /\ handler'[h].again = handler[h].again
      /\ handler'[h].posted = answered
  BY <1>2, <1>6, <1>7, DispatchChanges
<1>9. UNCHANGED <<selected, alerts, cooldown, retry, over, muting>>
  BY DEF Send
<1> QED BY <1>1, <1>4, <1>5, <1>7, <1>8, <1>9

\* What the row's status becomes.
Outcome(h) == [c \in Channel |-> IF c \notin handler[h].tried
                                 THEN alerts[handler[h].alert].status[c]
                                 ELSE IF c \in handler[h].posted THEN 1 ELSE -1]

\* One row's status, and perhaps a retry.
LEMMA SettleEffects ==
    ASSUME Shape, NEW h \in Handler, Settle(h)
    PROVE  /\ At(h, "status") /\ Under(h) /\ h # "web" /\ Others(h) /\ handler'[h] = Idle
           /\ UNCHANGED <<selected, cooldown, muting, delivered, unanswered>>
           /\ alerts' \in Seq(Row) /\ Len(alerts') = Len(alerts)
           /\ \A a \in 1..Len(alerts) :
                /\ alerts'[a].type = alerts[a].type
                /\ alerts'[a].status = IF a = handler[h].alert THEN Outcome(h) ELSE alerts[a].status
           /\ IF MustRetry(h)
              THEN retry' = [alert |-> handler[h].alert, channels |-> Failing(h)]
              ELSE retry' = retry
           /\ over' = IF handler[h].again THEN over \cup {handler[h].alert} ELSE over
<1>1. At(h, "status") /\ Under(h) /\ h # "web"
  BY DEF Settle, At, Under, Shape, HandlerShape
<1>2. Others(h) /\ handler'[h] = Idle
  BY Moved, Doings DEF Settle, Others, Shape
<1>3. alerts' = [alerts EXCEPT ![handler[h].alert].status = Outcome(h)]
  <2> HIDE DEF Shape
  <2>1. alerts' = [alerts EXCEPT ![handler[h].alert].status =
                     [c \in Channel |-> IF c \notin handler[h].tried THEN @[c]
                                        ELSE IF c \in handler[h].posted THEN 1 ELSE -1]]
    BY DEF Settle, Worked
  <2> QED BY <2>1 DEF Outcome
<1>4. alerts \in Seq(Row) /\ handler[h].alert \in 1..Len(alerts)
  BY <1>1, UnderWay DEF Shape
<1>5. \A a \in 1..Len(alerts) : /\ alerts[a] \in Row
                                /\ alerts[a].type \in AlertType
                                /\ alerts[a].status \in [Channel -> {-1, 0, 1}]
  BY <1>4, Rows
<1>6. Outcome(h) \in [Channel -> {-1, 0, 1}]
  BY <1>4, <1>5 DEF Outcome
<1>7. \A a \in 1..Len(alerts) :
         alerts'[a] = IF a = handler[h].alert THEN [alerts[a] EXCEPT !.status = Outcome(h)]
                      ELSE alerts[a]
  BY <1>3, <1>4
<1>8. \A a \in 1..Len(alerts) :
         /\ alerts'[a] \in Row
         /\ alerts'[a].type = alerts[a].type
         /\ alerts'[a].status = IF a = handler[h].alert THEN Outcome(h) ELSE alerts[a].status
  BY <1>5, <1>6, <1>7 DEF Row
<1>9. Len(alerts') = Len(alerts) /\ alerts' \in Seq(Row)
  BY <1>3, <1>4, <1>5, <1>6 DEF Row
<1>10. /\ UNCHANGED <<selected, cooldown, muting, delivered, unanswered>>
       /\ IF MustRetry(h)
          THEN retry' = [alert |-> handler[h].alert, channels |-> Failing(h)]
          ELSE retry' = retry
       /\ over' = IF handler[h].again THEN over \cup {handler[h].alert} ELSE over
  BY DEF Settle
<1> QED BY <1>1, <1>2, <1>8, <1>9, <1>10

\* A new row and its dispatch.
LEMMA InsertEffects ==
    ASSUME Shape, NEW h \in Handler, Insert(h)
    PROVE  /\ At(h, "insert") /\ h # "web" /\ Others(h) /\ handler[h].type \in AlertType
           /\ UNCHANGED <<selected, cooldown, retry, muting, record>>
           /\ Len(alerts) + 1 \in Alert
           /\ alerts' \in Seq(Row) /\ Len(alerts') = Len(alerts) + 1
           /\ \A a \in 1..Len(alerts) : alerts'[a] = alerts[a]
           /\ alerts'[Len(alerts) + 1].type = handler[h].type
           /\ \A c \in Channel : alerts'[Len(alerts) + 1].status[c] = 0
           /\ handler'[h] \in Dispatching /\ handler'[h].at \in {"mute", "send"}
           /\ handler'[h].alert = Len(alerts) + 1 /\ handler'[h].type = handler[h].type
           /\ handler'[h].again = FALSE
           /\ handler'[h].posted \subseteq handler'[h].tried
<1>1. At(h, "insert") /\ h # "web" /\ handler[h].type \in AlertType
  BY Doings DEF Insert, At, Shape
<1>2. PICK channels \in Chosen(handler[h].type) :
         /\ alerts' = Append(alerts, [type |-> handler[h].type, status |-> [c \in Channel |-> 0]])
         /\ Goes(h, Dispatch(Len(alerts) + 1, handler[h].type, channels, FALSE))
  BY DEF Insert
<1>3. channels \in SUBSET Channel
  BY ConstantsOK DEF Chosen, Shape, TypeOK
<1>4. [type |-> handler[h].type, status |-> [c \in Channel |-> 0]] \in Row
  BY <1>1 DEF Row
<1>5. alerts \in Seq(Row) /\ Len(alerts) \in Nat
  BY DEF Shape
<1>6. Len(alerts) + 1 \in Alert
  <2>1. h \in Inserting /\ IsFiniteSet(Inserting)
    BY <1>1 DEF Inserting, Shape
  <2>2. Cardinality(Inserting) \in Nat /\ Cardinality(Inserting) # 0
    BY <2>1, FS_CardinalityType, FS_EmptySet
  <2> QED BY <1>5, <2>2, ConstantsOK DEF Shape, Alert
<1>7. /\ alerts' \in Seq(Row) /\ Len(alerts') = Len(alerts) + 1
      /\ \A a \in 1..Len(alerts) : alerts'[a] = alerts[a]
      /\ alerts'[Len(alerts) + 1].type = handler[h].type
      /\ \A c \in Channel : alerts'[Len(alerts) + 1].status[c] = 0
  <2>1. /\ alerts' \in Seq(Row) /\ Len(alerts') = Len(alerts) + 1
        /\ \A a \in 1..Len(alerts) : alerts'[a] = alerts[a]
        /\ alerts'[Len(alerts) + 1] =
              [type |-> handler[h].type, status |-> [c \in Channel |-> 0]]
    BY <1>2, <1>4, <1>5
  <2> QED BY <2>1
<1>8. LET d == Dispatch(Len(alerts) + 1, handler[h].type, channels, FALSE) IN
        /\ d \in Dispatching /\ d.at \in {"mute", "send"}
        /\ d.alert = Len(alerts) + 1 /\ d.type = handler[h].type /\ d.again = FALSE
        /\ d.tried = channels /\ d.posted \subseteq channels
  BY <1>1, <1>3, <1>6, DispatchBegins
<1>9. Others(h) /\ handler'[h] = Dispatch(Len(alerts) + 1, handler[h].type, channels, FALSE)
  BY <1>2, <1>8, Moved, Doings DEF Others, Shape
<1>10. UNCHANGED <<selected, cooldown, retry, muting, record>>
  BY DEF Insert
<1> QED BY <1>1, <1>6, <1>7, <1>8, <1>9, <1>10

\* The stored retry is the alarm's.
LEMMA RetryEffects ==
    ASSUME Shape, Retry
    PROVE  /\ retry.alert \in 1..Len(alerts) /\ At("alarm", "idle") /\ Others("alarm")
           /\ retry' = NoRetry
           /\ UNCHANGED <<selected, alerts, cooldown, muting, record>>
           /\ handler'["alarm"] \in Dispatching /\ handler'["alarm"].at \in {"mute", "send"}
           /\ handler'["alarm"].alert = retry.alert
           /\ handler'["alarm"].type = alerts[retry.alert].type
           /\ handler'["alarm"].again = TRUE
           /\ handler'["alarm"].posted \subseteq retry.channels
<1>1. /\ retry \in [alert : {0} \cup Alert, channels : SUBSET Channel]
      /\ retry.alert = 0 <=> retry.channels = {}
      /\ Len(alerts) \in Nat /\ retry.alert <= Len(alerts)
  BY DEF Shape, TypeOK
<1>2. retry.alert # 0
  BY <1>1 DEF Retry, NoRetry
<1>3. retry.alert \in Alert /\ retry.alert \in 1..Len(alerts)
  BY <1>1, <1>2 DEF Alert
<1>4. alerts[retry.alert].type \in AlertType
  BY <1>3, Rows DEF Shape
<1>5. LET d == Dispatch(retry.alert, alerts[retry.alert].type, retry.channels, TRUE) IN
        /\ d \in Dispatching /\ d.at \in {"mute", "send"}
        /\ d.alert = retry.alert /\ d.type = alerts[retry.alert].type /\ d.again = TRUE
        /\ d.tried = retry.channels /\ d.posted \subseteq retry.channels
  BY <1>1, <1>3, <1>4, DispatchBegins
<1>6. /\ Others("alarm")
      /\ handler'["alarm"] =
            Dispatch(retry.alert, alerts[retry.alert].type, retry.channels, TRUE)
  <2>1. "alarm" \in Handler /\ handler \in [Handler -> Doing]
    BY DEF Handler, Shape
  <2>2. Goes("alarm", Dispatch(retry.alert, alerts[retry.alert].type, retry.channels, TRUE))
    BY DEF Retry
  <2>3. Dispatch(retry.alert, alerts[retry.alert].type, retry.channels, TRUE) \in Doing
    BY <1>5, Doings
  <2> QED BY <2>1, <2>2, <2>3, Moved DEF Others
<1> QED BY <1>3, <1>5, <1>6 DEF Retry

\* The handler ends; an email may have gone.
LEMMA FailsEffects ==
    ASSUME Shape, NEW h \in Handler, DispatchFails(h)
    PROVE  LET a == handler[h].alert IN
           /\ Under(h) /\ ~At(h, "send") /\ Others(h) /\ handler'[h] = Idle
           /\ UNCHANGED <<selected, alerts, cooldown, retry, muting, unanswered>>
           /\ over' = IF h = "web" THEN over ELSE over \cup {a}
           /\ \/ delivered' = delivered
              \/ /\ h # "web" /\ ~At(h, "status")
                 /\ \E mailed \in SUBSET handler[h].posted :
                      delivered' = [delivered EXCEPT ![a] =
                                      [c \in Channel |-> @[c] + IF c \in mailed THEN 1 ELSE 0]]
<1>1. Under(h) /\ ~At(h, "send")
  BY DEF DispatchFails, Under, At
<1>2. Others(h) /\ handler'[h] = Idle
  BY Moved, Doings DEF DispatchFails, Others, Shape
<1>3. handler[h].alert = 0 <=> h = "web"
  BY <1>1 DEF Shape, HandlerShape
<1>4. UNCHANGED <<selected, alerts, cooldown, retry, muting, unanswered>>
  BY DEF DispatchFails
<1>5. over' = IF h = "web" THEN over ELSE over \cup {handler[h].alert}
  BY <1>3 DEF DispatchFails
<1>6. PICK mailed \in SUBSET (IF At(h, "status") THEN {} ELSE handler[h].posted \cap {"email"}) :
         delivered' = IF handler[h].alert = 0 THEN delivered
                      ELSE [delivered EXCEPT ![handler[h].alert] =
                              [c \in Channel |-> @[c] + IF c \in mailed THEN 1 ELSE 0]]
  BY DEF DispatchFails
<1>7. CASE h = "web"
  BY <1>1, <1>2, <1>3, <1>4, <1>5, <1>6, <1>7
<1>8. CASE h # "web" /\ ~At(h, "status")
  BY <1>1, <1>2, <1>3, <1>4, <1>5, <1>6, <1>8
<1>9. CASE h # "web" /\ At(h, "status")
  <2>1. mailed = {} /\ h # "web"
    BY <1>6, <1>9
  <2>2. handler[h].alert \in Alert
    BY <1>1, <1>9, UnderWay
  <2>3. delivered \in [Alert -> [Channel -> Nat]]
    BY DEF Shape, TypeOK
  <2>4. [c \in Channel |-> delivered[handler[h].alert][c] + IF c \in mailed THEN 1 ELSE 0]
           = delivered[handler[h].alert]
    BY <2>1, <2>2, <2>3
  <2>5. delivered' = delivered
    BY <1>3, <1>6, <2>1, <2>2, <2>3, <2>4
  <2> QED BY <1>1, <1>2, <1>4, <1>5, <2>5
<1> QED BY <1>7, <1>8, <1>9

(***************************************************************************)
(* Type correctness.                                                       *)
(***************************************************************************)
Room == IsFiniteSet(Inserting) /\ Len(alerts) + Cardinality(Inserting) <= MaxAlerts

\* Handlers that leave "insert" without a row make room.
LEMMA RoomLeft ==
    ASSUME Shape, Inserting' \subseteq Inserting, Len(alerts') = Len(alerts)
    PROVE  Room'
<1>1. /\ IsFiniteSet(Inserting') /\ Cardinality(Inserting') <= Cardinality(Inserting)
      /\ Cardinality(Inserting) \in Nat /\ Cardinality(Inserting') \in Nat
  BY FS_Subset, FS_CardinalityType DEF Shape
<1>2. Len(alerts) \in Nat
  BY DEF Shape
<1> QED BY <1>1, <1>2, ConstantsOK DEF Shape, Room

\* The step of one handler keeps the shape of the others.
LEMMA ShapeKept ==
    ASSUME Shape, NEW h \in Handler, Others(h), Room', handler'[h].at = "insert" => h # "web",
           alerts' \in Seq(Row), Len(alerts') >= Len(alerts), HandlerShape(h)',
           UNCHANGED <<selected, muting>>, cooldown' \subseteq AlertType,
           retry' \in [alert : {0} \cup Alert, channels : SUBSET Channel],
           retry'.alert = 0 <=> retry'.channels = {}, retry'.alert <= Len(alerts'),
           delivered' \in [Alert -> [Channel -> Nat]],
           unanswered' \subseteq Alert, over' \subseteq Alert
    PROVE  Shape'
<1>1. Len(alerts) \in Nat /\ Len(alerts') \in Nat /\ handler' \in [Handler -> Doing]
  BY DEF Shape, Others
<1>2. Len(alerts') <= MaxAlerts
  <2>1. Cardinality(Inserting') \in Nat
    BY FS_CardinalityType DEF Room
  <2> QED BY <1>1, <2>1, ConstantsOK DEF Room
<1>3. ASSUME NEW g \in Handler PROVE HandlerShape(g)'
  <2>1. CASE g = h
    BY <2>1
  <2>2. CASE g # h
    <3>1. handler'[g] = handler[g] /\ HandlerShape(g)
      BY <2>2 DEF Others, Shape
    <3>2. Under(g) => handler[g].alert \in Nat
      BY UnderWay DEF Alert
    <3> QED BY <1>1, <3>1, <3>2 DEF HandlerShape, Under
  <2> QED BY <2>1, <2>2
<1>4. ~At("web", "insert")'
  BY DEF At, Others, Shape, Handler
<1>5. \A a \in 1..Len(alerts') :
         alerts'[a].type \in AlertType /\ alerts'[a].status \in [Channel -> {-1, 0, 1}]
  <2>1. \A a \in 1..Len(alerts') : alerts'[a] \in Row
    OBVIOUS
  <2> QED BY <2>1 DEF Row
<1>6. \A g \in Handler : \/ handler'[g] \in {Idle} \cup [at : {"insert"}, type : AlertType]
                         \/ handler'[g] \in Dispatching
  BY <1>1 DEF Doing
<1>7. /\ selected' \in Selections
      /\ mute' \in {"none", "on", "expired"} /\ mutes' \in 0..MaxMutes
      /\ wanted' \in BOOLEAN /\ crossed' \in BOOLEAN
  BY DEF Shape, TypeOK, muting
<1>8. TypeOK'
  BY <1>2, <1>5, <1>6, <1>7 DEF TypeOK
<1> QED BY <1>1, <1>3, <1>4, <1>8 DEF Shape, Room

\* Adding to what was delivered.
LEMMA Deliver ==
    ASSUME Shape, NEW a \in Alert, NEW reached,
           delivered' = [delivered EXCEPT ![a] =
                           [c \in Channel |-> @[c] + IF c \in reached THEN 1 ELSE 0]]
    PROVE  /\ delivered' \in [Alert -> [Channel -> Nat]]
           /\ \A b \in Alert : b # a => delivered'[b] = delivered[b]
           /\ \A c \in Channel :
                delivered'[a][c] = delivered[a][c] + IF c \in reached THEN 1 ELSE 0
<1>1. delivered \in [Alert -> [Channel -> Nat]]
  BY DEF Shape, TypeOK
<1>2. [c \in Channel |-> delivered[a][c] + IF c \in reached THEN 1 ELSE 0] \in [Channel -> Nat]
  BY <1>1
<1>3. delivered' = [delivered EXCEPT ![a] =
                      [c \in Channel |-> delivered[a][c] + IF c \in reached THEN 1 ELSE 0]]
  OBVIOUS
<1> QED BY <1>1, <1>2, <1>3

\* Every action keeps the shape.
LEMMA ShapeStep == Shape /\ [Next]_vars => Shape'
<1> SUFFICES ASSUME Shape, [Next]_vars
             PROVE  Shape'
  OBVIOUS
<1>0. /\ selected \in Selections /\ cooldown \subseteq AlertType
      /\ retry \in [alert : {0} \cup Alert, channels : SUBSET Channel]
      /\ retry.alert = 0 <=> retry.channels = {}
      /\ retry.alert <= Len(alerts) /\ Len(alerts) \in Nat /\ alerts \in Seq(Row)
      /\ delivered \in [Alert -> [Channel -> Nat]]
      /\ unanswered \subseteq Alert /\ over \subseteq Alert
      /\ handler \in [Handler -> Doing]
  BY DEF Shape, TypeOK
<1>1. ASSUME NEW h \in Handler, Others(h), handler'[h] = Idle
      PROVE  Inserting' \subseteq Inserting /\ HandlerShape(h)' /\ handler'[h].at # "insert"
  BY <1>1, Doings DEF Others, Inserting, At, HandlerShape, Under
<1>2. ASSUME NEW h \in Handler, NEW type \in AlertType, Raise(h, type)
      PROVE  Shape'
  <2>1. /\ Others(h) /\ handler'[h].at = "insert" /\ h # "web" /\ At(h, "idle")
        /\ UNCHANGED <<selected, alerts, retry, muting, record>>
        /\ cooldown' = cooldown \cup {type}
        /\ Len(alerts) + Cardinality(Inserting) < MaxAlerts
    BY <1>0, <1>2, Doings, Moved DEF Raise, Others, Raised, Inserting
  <2>2. Inserting' = Inserting \cup {h} /\ h \notin Inserting
    BY <2>1 DEF Inserting, At, Others
  <2>3. Room'
    <3>1. IsFiniteSet(Inserting) /\ Cardinality(Inserting) \in Nat
      BY FS_CardinalityType DEF Shape
    <3>2. IsFiniteSet(Inserting') /\ Cardinality(Inserting') = Cardinality(Inserting) + 1
      BY <2>2, <3>1, FS_AddElement
    <3> QED BY <1>0, <2>1, <3>1, <3>2, ConstantsOK DEF Room
  <2>4. HandlerShape(h)'
    BY <2>1 DEF HandlerShape, Under
  <2> QED BY <1>0, <2>1, <2>3, <2>4, ShapeKept DEF record
<1>3. ASSUME NEW h \in Handler, Insert(h)
      PROVE  Shape'
  <2>1. /\ At(h, "insert") /\ Others(h) /\ handler'[h].at \in {"mute", "send"} /\ h # "web"
        /\ handler'[h].alert = Len(alerts) + 1 /\ alerts' \in Seq(Row)
        /\ Len(alerts') = Len(alerts) + 1
        /\ UNCHANGED <<selected, cooldown, retry, muting, record>>
    BY <1>3, InsertEffects
  <2>2. Inserting' = Inserting \ {h} /\ h \in Inserting
    BY <2>1 DEF Inserting, At, Others
  <2>3. Room'
    <3>1. IsFiniteSet(Inserting) /\ Cardinality(Inserting) \in Nat
      BY FS_CardinalityType DEF Shape
    <3>2. IsFiniteSet(Inserting') /\ Cardinality(Inserting') = Cardinality(Inserting) - 1
      BY <2>2, <3>1, FS_RemoveElement
    <3> QED BY <1>0, <2>1, <3>1, <3>2, ConstantsOK DEF Room, Shape
  <2>4. HandlerShape(h)'
    BY <1>0, <2>1 DEF HandlerShape, Under
  <2>5. retry'.alert <= Len(alerts')
    BY <1>0, <2>1 DEF Alert
  <2> QED BY <1>0, <2>1, <2>3, <2>4, <2>5, ShapeKept DEF record
<1>4. ASSUME NEW h \in Handler, InsertFails(h)
      PROVE  Shape'
  <2>1. /\ Others(h) /\ handler'[h] = Idle
        /\ UNCHANGED <<selected, alerts, cooldown, retry, muting, record>>
    BY <1>0, <1>4, Doings, Moved DEF InsertFails, Others
  <2>2. Room'
    BY <1>1, <2>1, RoomLeft
  <2> QED BY <1>0, <1>1, <2>1, <2>2, ShapeKept DEF record
<1>5. ASSUME NEW h \in Handler, ReadMute(h) \/ ClearMute(h)
      PROVE  Shape'
  <2>1. /\ Under(h) /\ Others(h)
        /\ UNCHANGED <<selected, alerts, cooldown, retry, record>>
        /\ \/ h = "web" /\ handler'[h] = Idle
           \/ /\ handler'[h].at \in {"clear", "send"}
              /\ handler'[h].at = "send" => h # "web"
              /\ handler'[h].alert = handler[h].alert
    BY <1>5, Proceeds
  <2>2. Inserting' \subseteq Inserting /\ HandlerShape(h)' /\ handler'[h].at # "insert"
    <3>1. CASE handler'[h] = Idle
      BY <1>1, <2>1, <3>1
    <3>2. CASE /\ handler'[h].at \in {"clear", "send"}
               /\ handler'[h].at = "send" => h # "web"
               /\ handler'[h].alert = handler[h].alert
      BY <2>1, <3>2 DEF Shape, HandlerShape, Under, Inserting, Others, At
    <3> QED BY <2>1, <3>1, <3>2
  <2>3. Room'
    BY <2>1, <2>2, RoomLeft
  <2>4. CASE UNCHANGED muting
    BY <1>0, <2>1, <2>2, <2>3, <2>4, ShapeKept DEF record
  <2>5. CASE mute' = "none" /\ UNCHANGED <<mutes, wanted, crossed>>
    <3>1. /\ handler' \in [Handler -> Doing] /\ ~At("web", "insert")'
          /\ \A g \in Handler : HandlerShape(g)'
      BY <2>1, <2>2 DEF Others, Shape, HandlerShape, Under, At, Handler
    <3>2. TypeOK'
      BY <1>0, <2>1, <2>5, <3>1 DEF Shape, TypeOK, Doing, record
    <3> QED BY <1>0, <2>1, <2>3, <3>1, <3>2 DEF Shape, Room
  <2> QED BY <1>5, <2>4, <2>5 DEF ReadMute, ClearMute
<1>6. ASSUME NEW h \in Handler, Send(h)
      PROVE  Shape'
  <2>1. /\ Under(h) /\ Others(h) /\ h # "web"
        /\ UNCHANGED <<selected, alerts, cooldown, retry, over, muting>>
        /\ handler'[h].at = "status" /\ handler'[h].alert = handler[h].alert
    BY <1>6, SendEffects
  <2>2. handler[h].alert \in Alert
    BY <2>1, UnderWay
  <2>3. PICK reached \in SUBSET handler[h].posted :
          LET a == handler[h].alert IN
          /\ delivered' = [delivered EXCEPT ![a] =
                             [c \in Channel |-> @[c] + IF c \in reached THEN 1 ELSE 0]]
          /\ unanswered' = IF handler'[h].posted # reached THEN unanswered \cup {a}
                           ELSE unanswered
    BY <1>6, SendEffects
  <2>4. delivered' \in [Alert -> [Channel -> Nat]] /\ unanswered' \subseteq Alert
    BY <1>0, <2>2, <2>3, Deliver
  <2>5. Inserting' \subseteq Inserting /\ HandlerShape(h)' /\ handler'[h].at # "insert"
    BY <2>1 DEF Shape, HandlerShape, Under, Inserting, Others, At
  <2>6. Room'
    BY <2>1, <2>5, RoomLeft
  <2>7. /\ alerts' \in Seq(Row) /\ Len(alerts') >= Len(alerts) /\ cooldown' \subseteq AlertType
        /\ retry' \in [alert : {0} \cup Alert, channels : SUBSET Channel]
        /\ retry'.alert = 0 <=> retry'.channels = {}
        /\ retry'.alert <= Len(alerts') /\ over' \subseteq Alert
        /\ UNCHANGED <<selected, muting>>
    BY <1>0, <2>1
  <2> QED BY <2>1, <2>4, <2>5, <2>6, <2>7, ShapeKept
<1>7. ASSUME NEW h \in Handler, Settle(h)
      PROVE  Shape'
  <2>1. /\ Under(h) /\ Others(h) /\ h # "web" /\ handler'[h] = Idle
        /\ UNCHANGED <<selected, cooldown, muting, delivered, unanswered>>
        /\ alerts' \in Seq(Row) /\ Len(alerts') = Len(alerts)
        /\ over' = IF handler[h].again THEN over \cup {handler[h].alert} ELSE over
        /\ IF MustRetry(h)
           THEN retry' = [alert |-> handler[h].alert, channels |-> Failing(h)]
           ELSE retry' = retry
    BY <1>7, SettleEffects
  <2>2. /\ handler[h].alert \in Alert /\ handler[h].alert \in 1..Len(alerts)
        /\ handler[h].tried \subseteq Channel
    BY <2>1, UnderWay
  <2>3. /\ retry' \in [alert : {0} \cup Alert, channels : SUBSET Channel]
        /\ retry'.alert = 0 <=> retry'.channels = {}
        /\ retry'.alert <= Len(alerts')
    <3>1. CASE ~MustRetry(h)
      BY <1>0, <2>1, <3>1
    <3>2. CASE MustRetry(h)
      <4>1. /\ retry'.alert = handler[h].alert /\ retry'.channels = Failing(h)
            /\ retry' = [alert |-> handler[h].alert, channels |-> Failing(h)]
        BY <2>1, <3>2
      <4>2. Failing(h) # {} /\ Failing(h) \subseteq Channel
        BY <2>2, <3>2 DEF MustRetry, Failing
      <4> QED BY <1>0, <2>1, <2>2, <4>1, <4>2 DEF Alert
    <3> QED BY <3>1, <3>2
  <2>4. Room'
    BY <1>1, <2>1, RoomLeft
  <2>5. /\ Len(alerts') >= Len(alerts) /\ cooldown' \subseteq AlertType
        /\ delivered' \in [Alert -> [Channel -> Nat]]
        /\ unanswered' \subseteq Alert /\ over' \subseteq Alert
        /\ UNCHANGED <<selected, muting>>
    BY <1>0, <2>1, <2>2
  <2>6. HandlerShape(h)' /\ handler'[h].at # "insert"
    BY <1>1, <2>1
  <2> QED BY <2>1, <2>3, <2>4, <2>5, <2>6, ShapeKept
<1>8. ASSUME NEW h \in Handler, DispatchFails(h)
      PROVE  Shape'
  <2>1. /\ Under(h) /\ Others(h) /\ handler'[h] = Idle
        /\ UNCHANGED <<selected, alerts, cooldown, retry, muting, unanswered>>
        /\ over' = IF h = "web" THEN over ELSE over \cup {handler[h].alert}
        /\ \/ delivered' = delivered
           \/ h # "web" /\ \E mailed \in SUBSET handler[h].posted :
                delivered' = [delivered EXCEPT ![handler[h].alert] =
                                [c \in Channel |-> @[c] + IF c \in mailed THEN 1 ELSE 0]]
    BY <1>8, FailsEffects
  <2>2. h # "web" => handler[h].alert \in Alert
    BY <2>1, UnderWay
  <2>3. delivered' \in [Alert -> [Channel -> Nat]] /\ over' \subseteq Alert
    <3>1. CASE delivered' = delivered
      BY <1>0, <2>1, <2>2, <3>1
    <3>2. ASSUME NEW mailed, h # "web",
                 delivered' = [delivered EXCEPT ![handler[h].alert] =
                                 [c \in Channel |-> @[c] + IF c \in mailed THEN 1 ELSE 0]]
          PROVE  delivered' \in [Alert -> [Channel -> Nat]]
      BY <2>2, <3>2, Deliver
    <3>3. over' \subseteq Alert
      BY <1>0, <2>1, <2>2
    <3> QED BY <2>1, <3>1, <3>2, <3>3
  <2>4. Room'
    BY <1>1, <2>1, RoomLeft
  <2> QED BY <1>0, <1>1, <2>1, <2>3, <2>4, ShapeKept
<1>9. ASSUME Retry
      PROVE  Shape'
  <2>1. /\ retry.alert \in 1..Len(alerts) /\ Others("alarm") /\ retry' = NoRetry
        /\ UNCHANGED <<selected, alerts, cooldown, muting, record>>
        /\ handler'["alarm"].at \in {"mute", "send"} /\ handler'["alarm"].alert = retry.alert
    BY <1>9, RetryEffects
  <2>2. /\ Inserting' \subseteq Inserting /\ HandlerShape("alarm")' /\ "alarm" \in Handler
        /\ handler'["alarm"].at # "insert"
    BY <1>0, <2>1 DEF HandlerShape, Under, Inserting, Others, At, Handler
  <2>3. Room'
    BY <2>1, <2>2, RoomLeft
  <2>4. /\ NoRetry \in [alert : {0} \cup Alert, channels : SUBSET Channel]
        /\ NoRetry.alert = 0 /\ NoRetry.channels = {}
    BY DEF NoRetry
  <2>5. /\ retry' \in [alert : {0} \cup Alert, channels : SUBSET Channel]
        /\ retry'.alert = 0 <=> retry'.channels = {}
        /\ retry'.alert <= Len(alerts')
    BY <1>0, <2>1, <2>4
  <2>6. /\ alerts' \in Seq(Row) /\ Len(alerts') >= Len(alerts) /\ cooldown' \subseteq AlertType
        /\ delivered' \in [Alert -> [Channel -> Nat]]
        /\ unanswered' \subseteq Alert /\ over' \subseteq Alert
        /\ UNCHANGED <<selected, muting>>
    BY <1>0, <2>1 DEF record
  <2> QED BY <2>1, <2>2, <2>3, <2>5, <2>6, ShapeKept
<1>10. ASSUME WebReads
       PROVE  Shape'
  <2>1. "web" \in Handler /\ UNCHANGED <<selected, alerts, cooldown, retry, muting, record>>
    BY <1>10 DEF WebReads, Handler
  <2>2. /\ [Dispatch(0, "high_latency", Channel, FALSE) EXCEPT !.at = "mute"] \in Dispatching
        /\ [Dispatch(0, "high_latency", Channel, FALSE) EXCEPT !.at = "mute"].at = "mute"
        /\ [Dispatch(0, "high_latency", Channel, FALSE) EXCEPT !.at = "mute"].alert = 0
    BY ConstantsOK DEF Dispatch, Dispatching, AlertType
  <2>3. Others("web") /\ handler'["web"].at = "mute" /\ handler'["web"].alert = 0
    <3>1. Goes("web", [Dispatch(0, "high_latency", Channel, FALSE) EXCEPT !.at = "mute"])
      BY <1>10 DEF WebReads
    <3>2. [Dispatch(0, "high_latency", Channel, FALSE) EXCEPT !.at = "mute"] \in Doing
      BY <2>2, Doings
    <3>3. /\ Others("web")
          /\ handler'["web"] = [Dispatch(0, "high_latency", Channel, FALSE) EXCEPT !.at = "mute"]
      BY <1>0, <2>1, <3>1, <3>2, Moved DEF Others
    <3> QED BY <2>2, <3>3
  <2>4. /\ Inserting' \subseteq Inserting /\ HandlerShape("web")'
        /\ handler'["web"].at # "insert"
    BY <1>0, <2>1, <2>3 DEF HandlerShape, Under, Inserting, Others, At
  <2>5. Room'
    BY <2>1, <2>4, RoomLeft
  <2> QED BY <1>0, <2>1, <2>3, <2>4, <2>5, ShapeKept DEF record
<1>11. ASSUME UNCHANGED <<selected, alerts, handler, retry, record>>, cooldown' \subseteq AlertType,
              mute' \in {"none", "on", "expired"}, mutes' \in 0..MaxMutes,
              wanted' \in BOOLEAN, crossed' \in BOOLEAN
       PROVE  Shape'
  <2>1. Inserting' = Inserting /\ (\A h \in Handler : HandlerShape(h)') /\ ~At("web", "insert")'
    BY <1>11 DEF Inserting, At, HandlerShape, Under, Shape
  <2>2. TypeOK'
    BY <1>11 DEF Shape, TypeOK, record
  <2> QED BY <1>11, <2>1, <2>2 DEF Shape
<1>12. ASSUME NEW type \in AlertType, CooldownEnds(type)
       PROVE  Shape'
  <2>1. UNCHANGED <<selected, alerts, handler, retry, record, muting>> /\ cooldown' \subseteq AlertType
    BY <1>0, <1>12 DEF CooldownEnds
  <2> QED BY <1>11, <2>1 DEF Shape, TypeOK, muting
<1>13. CASE Mute
  BY <1>0, <1>11, <1>13, ConstantsOK DEF Mute, dispatching, Shape, TypeOK
<1>14. CASE Unmute
  <2>1. /\ UNCHANGED <<selected, alerts, handler, retry, record>> /\ cooldown' = cooldown
        /\ mute' = "none" /\ mutes < MaxMutes /\ mutes' = mutes + 1 /\ crossed' = crossed
        /\ wanted' = FALSE
    BY <1>14 DEF Unmute, dispatching
  <2>2. mutes \in 0..MaxMutes /\ crossed \in BOOLEAN
    BY DEF Shape, TypeOK
  <2>3. mutes' \in 0..MaxMutes
    BY <2>1, <2>2, ConstantsOK
  <2> QED BY <1>0, <1>11, <2>1, <2>2, <2>3
<1>15. CASE MuteExpires
  BY <1>0, <1>11, <1>15 DEF MuteExpires, dispatching, Shape, TypeOK
<1>16. CASE Crash
  <2>1. handler' = [h \in Handler |-> IF h = "web" THEN handler[h] ELSE Idle]
    BY <1>16 DEF Crash
  <2>2. handler' \in [Handler -> Doing]
    BY <1>0, <2>1, Doings
  <2>3. UNCHANGED <<selected, alerts, retry, muting, delivered, unanswered>> /\ cooldown' = {}
    BY <1>16 DEF Crash
  <2>4. Inserting' \subseteq Inserting /\ ~At("web", "insert")'
    BY <2>1, Doings DEF Inserting, At, Shape, Handler
  <2>5. Room'
    BY <2>3, <2>4, RoomLeft
  <2>6. \A h \in Handler : HandlerShape(h)'
    BY <2>1, <2>3, Doings DEF HandlerShape, Under, Shape
  <2>7. over' \subseteq Alert
    <3>1. over' = over \cup {handler[h].alert : h \in {g \in Handler \ {"web"} :
                               handler[g].at \in {"mute", "clear", "send", "status"}}}
      BY <1>16 DEF Crash
    <3>2. \A g \in Handler \ {"web"} :
             handler[g].at \in {"mute", "clear", "send", "status"} => handler[g].alert \in Alert
      BY UnderWay DEF Under
    <3> QED BY <1>0, <3>1, <3>2
  <2>8. \A h \in Handler : \/ handler'[h] \in {Idle} \cup [at : {"insert"}, type : AlertType]
                           \/ handler'[h] \in Dispatching
    BY <2>2 DEF Doing
  <2>9. TypeOK'
    BY <2>3, <2>7, <2>8 DEF TypeOK, Shape, muting
  <2> QED BY <2>2, <2>3, <2>4, <2>5, <2>6, <2>9 DEF Shape, Room
<1>17. CASE UNCHANGED vars
  BY <1>0, <1>11, <1>17 DEF vars, dispatching, muting, record, Shape, TypeOK
<1> QED
  BY <1>2, <1>3, <1>4, <1>5, <1>6, <1>7, <1>8, <1>9, <1>10, <1>12, <1>13, <1>14, <1>15, <1>16, <1>17
  DEF Next, HandlerNext

\* The shape holds in every behaviour.
LEMMA ShapeAlways == Spec => []Shape
<1>1. Init => Shape
  <2> SUFFICES ASSUME Init PROVE Shape
    OBVIOUS
  <2>1. Inserting = {} /\ (\A h \in Handler : HandlerShape(h)) /\ ~At("web", "insert")
    BY Doings DEF Init, Inserting, At, HandlerShape, Under, Handler
  <2>2. handler \in [Handler -> Doing] /\ alerts \in Seq(Row) /\ Len(alerts) = 0
    BY Doings DEF Init
  <2>3. retry \in [alert : {0} \cup Alert, channels : SUBSET Channel]
        /\ retry.alert = 0 /\ retry.channels = {}
    BY DEF Init, NoRetry
  <2>4. TypeOK
    <3>1. \A h \in Handler : handler[h] \in {Idle} \cup [at : {"insert"}, type : AlertType]
      BY DEF Init
    <3>2. /\ selected \in Selections /\ cooldown \subseteq AlertType
          /\ mute \in {"none", "on", "expired"} /\ mutes \in 0..MaxMutes
          /\ delivered \in [Alert -> [Channel -> Nat]]
          /\ unanswered \subseteq Alert /\ over \subseteq Alert
      BY ConstantsOK DEF Init
    <3>4. wanted \in BOOLEAN /\ crossed \in BOOLEAN
      BY DEF Init
    <3>3. Len(alerts) <= MaxAlerts /\ \A a \in 1..Len(alerts) : FALSE
      BY <2>2, ConstantsOK
    <3> QED BY <2>3, <3>1, <3>2, <3>3, <3>4 DEF TypeOK
  <2>5. IsFiniteSet(Inserting) /\ Cardinality(Inserting) = 0
    BY <2>1, FS_EmptySet
  <2> QED BY <2>1, <2>2, <2>3, <2>4, <2>5, ConstantsOK DEF Shape
<1> QED BY <1>1, ShapeStep, PTL DEF Spec

\* The state keeps its types; in particular a handler that dispatches, and the
\* stored retry, have an alert within the bound, or none.
THEOREM TypeCorrect == Spec => []TypeOK
<1>1. Shape => TypeOK
  BY DEF Shape
<1> QED BY <1>1, ShapeAlways, PTL

(***************************************************************************)
(* An alert is in one place: with one handler, or in the object's storage. *)
(***************************************************************************)
Apart(h) ==
    (Under(h) /\ h # "web") =>
        /\ handler[h].type = alerts[handler[h].alert].type
        /\ handler[h].alert # retry.alert
        /\ \A g \in Handler : (g # h /\ Under(g)) => handler[g].alert # handler[h].alert

\* Critical alerts are the alarm's, which has no retry stored while it is busy.
Turn(h) ==
    /\ (handler[h].at # "idle" /\ h # "web") => (Critical(handler[h].type) <=> h = "alarm")
    /\ (handler[h].at # "idle" /\ h = "alarm") => retry = NoRetry

Places ==
    /\ \A h \in Handler : Apart(h) /\ Turn(h)
    /\ retry.alert # 0 => Critical(alerts[retry.alert].type)

\* A handler that goes on with its alert, or has none.
LEMMA PlacesKept ==
    ASSUME Shape, Shape', Places, NEW h \in Handler, Others(h), retry' = retry,
           \A a \in 1..Len(alerts) : alerts'[a].type = alerts[a].type,
           Turn(h)',
           \/ h = "web"
           \/ ~Under(h)'
           \/ /\ Under(h) /\ handler'[h].alert = handler[h].alert
              /\ handler'[h].type = handler[h].type
    PROVE  Places'
<1>1. \A g \in Handler : Under(g) /\ g # "web" => handler[g].alert \in 1..Len(alerts)
  BY UnderWay
<1>2. \A g \in Handler : g # h => (Under(g)' <=> Under(g)) /\ handler'[g] = handler[g]
  BY DEF Others, Under
<1>3. Under("web")' => handler'["web"].alert = 0
  BY DEF Shape, HandlerShape, Handler
<1>4. \A g \in Handler : Apart(g) /\ Turn(g)
  BY DEF Places
<1>5. ASSUME NEW g \in Handler, g # h PROVE Apart(g)'
  <2>1. SUFFICES ASSUME Under(g), g # "web" PROVE Apart(g)'
    BY <1>2, <1>5 DEF Apart
  <2>2. /\ handler'[g] = handler[g] /\ handler[g].alert \in 1..Len(alerts)
        /\ handler[g].alert # 0
    BY <1>1, <1>2, <1>5, <2>1
  <2>3. ASSUME NEW f \in Handler, f # g, Under(f)' PROVE handler'[f].alert # handler[g].alert
    <3>1. CASE f # h
      BY <1>2, <1>4, <2>1, <2>3, <3>1 DEF Apart
    <3>2. CASE f = h /\ h = "web"
      BY <1>3, <2>2, <2>3, <3>2
    <3>3. CASE f = h /\ Under(h) /\ handler'[h].alert = handler[h].alert
      BY <1>4, <2>1, <2>3, <3>3 DEF Apart
    <3> QED BY <2>3, <3>1, <3>2, <3>3
  <2> QED BY <1>4, <2>1, <2>2, <2>3 DEF Apart
<1>6. Apart(h)'
  <2>1. SUFFICES ASSUME Under(h)', h # "web" PROVE Apart(h)'
    BY DEF Apart
  <2>2. /\ Under(h) /\ handler'[h].alert = handler[h].alert
        /\ handler'[h].type = handler[h].type /\ handler[h].alert \in 1..Len(alerts)
    BY <1>1, <2>1
  <2> QED BY <1>2, <1>4, <2>1, <2>2 DEF Apart
<1>7. \A g \in Handler : g # h => Turn(g)'
  BY <1>2, <1>4 DEF Turn
<1>8. retry'.alert # 0 => Critical(alerts'[retry'.alert].type)
  <2>1. retry.alert # 0 => retry.alert \in 1..Len(alerts)
    BY DEF Shape, TypeOK, Alert
  <2> QED BY <2>1 DEF Places, Critical
<1> QED BY <1>5, <1>6, <1>7, <1>8 DEF Places

\* Every action leaves an alert in one place.
LEMMA PlacesStep == Shape /\ Places /\ [Next]_vars => Places'
<1> SUFFICES ASSUME Shape, Places, [Next]_vars
             PROVE  Places'
  OBVIOUS
<1>0. /\ Shape' /\ handler \in [Handler -> Doing] /\ Len(alerts) \in Nat
      /\ \A h \in Handler : Apart(h) /\ Turn(h)
      /\ \A h \in Handler : Under(h) /\ h # "web" => handler[h].alert \in 1..Len(alerts)
      /\ \A h \in Handler : Under(h) /\ h = "web" => handler[h].alert = 0
  BY ShapeStep, UnderWay DEF Shape, Places, HandlerShape
<1>1. ASSUME NEW h \in Handler, NEW type \in AlertType, Raise(h, type)
      PROVE  Places'
  <2>1. /\ Others(h) /\ handler'[h].at = "insert" /\ handler'[h].type = type
        /\ UNCHANGED <<alerts, retry>> /\ h # "web"
        /\ Critical(type) <=> h = "alarm"
        /\ h = "alarm" => retry = NoRetry
    BY <1>0, <1>1, Doings, Moved DEF Raise, Others
  <2>2. Turn(h)' /\ ~Under(h)'
    BY <2>1 DEF Turn, Under, Critical
  <2> QED BY <1>0, <2>1, <2>2, PlacesKept
<1>2. ASSUME NEW h \in Handler, Insert(h)
      PROVE  Places'
  <2>1. /\ At(h, "insert") /\ h # "web" /\ Others(h) /\ retry' = retry
        /\ Len(alerts') = Len(alerts) + 1
        /\ \A a \in 1..Len(alerts) : alerts'[a] = alerts[a]
        /\ alerts'[Len(alerts) + 1].type = handler[h].type
        /\ handler'[h].at \in {"mute", "send"}
        /\ handler'[h].alert = Len(alerts) + 1 /\ handler'[h].type = handler[h].type
    BY <1>2, InsertEffects
  <2>2. \A g \in Handler : g # h => (Under(g)' <=> Under(g)) /\ handler'[g] = handler[g]
    BY <2>1 DEF Others, Under
  <2>3. retry.alert # Len(alerts) + 1 /\ (retry.alert # 0 => retry.alert \in 1..Len(alerts))
    BY <1>0 DEF Shape, TypeOK, Alert
  <2>4. ASSUME NEW g \in Handler, g # h PROVE Apart(g)' /\ Turn(g)'
    <3>1. Turn(g)'
      BY <1>0, <2>1, <2>2, <2>4 DEF Turn
    <3>2. Under(g) /\ g # "web" => handler[g].alert # Len(alerts) + 1
      BY <1>0
    <3> QED BY <1>0, <2>1, <2>2, <2>4, <3>1, <3>2 DEF Apart
  <2>5. Turn(h)'
    BY <1>0, <2>1 DEF Turn, At
  <2>6. ASSUME NEW g \in Handler, g # h, Under(g) PROVE handler[g].alert # Len(alerts) + 1
    BY <1>0, <2>6
  <2>7. Apart(h)'
    BY <2>1, <2>2, <2>3, <2>6 DEF Apart
  <2> QED BY <2>1, <2>3, <2>4, <2>5, <2>7 DEF Places, Critical
<1>3. ASSUME NEW h \in Handler, Others(h), handler'[h] = Idle, UNCHANGED <<alerts, retry>>
      PROVE  Places'
  <2>1. Turn(h)' /\ ~Under(h)'
    BY <1>3, Doings DEF Turn, Under
  <2> QED BY <1>0, <1>3, <2>1, PlacesKept
<1>4. ASSUME NEW h \in Handler, InsertFails(h)
      PROVE  Places'
  <2>1. Others(h) /\ handler'[h] = Idle /\ UNCHANGED <<alerts, retry>>
    BY <1>0, <1>4, Doings, Moved DEF InsertFails, Others
  <2> QED BY <1>3, <2>1
<1>5. ASSUME NEW h \in Handler, Others(h), UNCHANGED <<alerts, retry>>, Under(h),
             handler'[h].alert = handler[h].alert, handler'[h].type = handler[h].type
      PROVE  Places'
  <2>1. Turn(h)'
    BY <1>0, <1>5 DEF Turn, Under
  <2> QED BY <1>0, <1>5, <2>1, PlacesKept
<1>6. ASSUME NEW h \in Handler, ReadMute(h) \/ ClearMute(h)
      PROVE  Places'
  <2>1. /\ Under(h) /\ Others(h) /\ UNCHANGED <<alerts, retry>>
        /\ \/ handler'[h] = Idle
           \/ handler'[h].alert = handler[h].alert /\ handler'[h].type = handler[h].type
    BY <1>6, Proceeds
  <2> QED BY <1>3, <1>5, <2>1
<1>7. ASSUME NEW h \in Handler, Send(h)
      PROVE  Places'
  <2>1. /\ Under(h) /\ Others(h) /\ UNCHANGED <<alerts, retry>>
        /\ handler'[h].alert = handler[h].alert /\ handler'[h].type = handler[h].type
    BY <1>7, SendEffects
  <2> QED BY <1>5, <2>1
<1>8. ASSUME NEW h \in Handler, DispatchFails(h)
      PROVE  Places'
  <2>1. Others(h) /\ handler'[h] = Idle /\ UNCHANGED <<alerts, retry>>
    BY <1>8, FailsEffects
  <2> QED BY <1>3, <2>1
<1>9. ASSUME NEW h \in Handler, Settle(h)
      PROVE  Places'
  <2>1. /\ Under(h) /\ h # "web" /\ Others(h) /\ handler'[h] = Idle
        /\ Len(alerts') = Len(alerts)
        /\ \A a \in 1..Len(alerts) : alerts'[a].type = alerts[a].type
        /\ IF MustRetry(h)
           THEN retry' = [alert |-> handler[h].alert, channels |-> Failing(h)]
           ELSE retry' = retry
    BY <1>9, SettleEffects
  <2>2. Turn(h)' /\ ~Under(h)'
    BY <2>1, Doings DEF Turn, Under
  <2>3. CASE ~MustRetry(h)
    BY <1>0, <2>1, <2>2, <2>3, PlacesKept
  <2>4. CASE MustRetry(h)
    <3>1. /\ retry'.alert = handler[h].alert /\ handler[h].alert \in 1..Len(alerts)
          /\ Critical(handler[h].type) /\ handler[h].type = alerts[handler[h].alert].type
      BY <1>0, <2>1, <2>4 DEF MustRetry, Apart
    <3>2. h = "alarm"
      BY <1>0, <2>1, <3>1 DEF Turn, Under
    <3>3. \A g \in Handler : g # h => (Under(g)' <=> Under(g)) /\ handler'[g] = handler[g]
      BY <2>1 DEF Others, Under
    <3>4. ASSUME NEW g \in Handler, g # h PROVE Turn(g)'
      BY <1>0, <3>2, <3>3, <3>4 DEF Turn
    <3>5. ASSUME NEW g \in Handler, g # h, Under(g), g # "web" PROVE Apart(g)'
      <4>1. handler[g].alert # handler[h].alert
        BY <1>0, <2>1, <3>5 DEF Apart
      <4>2. \A f \in Handler : (f # g /\ Under(f)') => Under(f) /\ handler'[f] = handler[f]
        BY <2>2, <3>3
      <4> QED BY <1>0, <2>1, <3>1, <3>3, <3>5, <4>1, <4>2 DEF Apart
    <3>6. \A g \in Handler : Apart(g)'
      BY <2>2, <3>3, <3>5 DEF Apart
    <3> QED BY <2>1, <2>2, <3>1, <3>4, <3>6 DEF Places, Critical
  <2> QED BY <2>3, <2>4
<1>10. ASSUME Retry
       PROVE  Places'
  <2>1. /\ retry.alert \in 1..Len(alerts) /\ At("alarm", "idle") /\ Others("alarm")
        /\ retry' = NoRetry /\ alerts' = alerts
        /\ handler'["alarm"].at \in {"mute", "send"}
        /\ handler'["alarm"].alert = retry.alert
        /\ handler'["alarm"].type = alerts[retry.alert].type
    BY <1>10, RetryEffects
  <2>2. retry'.alert = 0 /\ retry.alert # 0 /\ Critical(alerts[retry.alert].type)
    BY <1>0, <2>1 DEF NoRetry, Places
  <2>3. \A g \in Handler : g # "alarm" => (Under(g)' <=> Under(g)) /\ handler'[g] = handler[g]
    BY <2>1 DEF Others, Under
  <2>4. \A g \in Handler : Turn(g)'
    BY <1>0, <2>1, <2>2, <2>3 DEF Turn
  <2>5. ASSUME NEW g \in Handler, g # "alarm" PROVE Apart(g)'
    <3>1. Under(g) /\ g # "web" => handler[g].alert \in 1..Len(alerts)
      BY <1>0
    <3> QED BY <1>0, <2>1, <2>2, <2>3, <2>5, <3>1 DEF Apart
  <2>6. Apart("alarm")'
    <3>1. ASSUME NEW g \in Handler, g # "alarm", Under(g) PROVE handler[g].alert # retry.alert
      BY <1>0, <2>2, <3>1 DEF Apart
    <3> QED BY <2>1, <2>2, <2>3, <3>1 DEF Apart
  <2> QED BY <2>2, <2>4, <2>5, <2>6 DEF Places
<1>11. ASSUME WebReads
       PROVE  Places'
  <2>1. "web" \in Handler /\ Others("web") /\ UNCHANGED <<alerts, retry>>
    BY <1>0, <1>11 DEF WebReads, Goes, Handler, Others, Shape
  <2>2. Turn("web")'
    BY DEF Turn
  <2> QED BY <1>0, <2>1, <2>2, PlacesKept
<1>12. CASE UNCHANGED <<alerts, handler, retry>>
  BY <1>12 DEF Places, Apart, Turn, Under
<1>13. CASE (\E type \in AlertType : CooldownEnds(type)) \/ Mute \/ Unmute \/ MuteExpires
            \/ UNCHANGED vars
  BY <1>12, <1>13 DEF CooldownEnds, Mute, Unmute, MuteExpires, vars, dispatching
<1>14. CASE Crash
  <2>1. /\ UNCHANGED <<alerts, retry>>
        /\ \A h \in Handler : handler'[h] = IF h = "web" THEN handler[h] ELSE Idle
    BY <1>14 DEF Crash
  <2>2. \A h \in Handler : Apart(h)' /\ Turn(h)'
    BY <2>1, Doings DEF Apart, Turn, Under
  <2> QED BY <2>1, <2>2 DEF Places
<1> QED
  BY <1>1, <1>2, <1>4, <1>6, <1>7, <1>8, <1>9, <1>10, <1>11, <1>13, <1>14
  DEF Next, HandlerNext

(***************************************************************************)
(* What was delivered of an alert, while it is in its place.               *)
(***************************************************************************)
Fresh(a) == a \notin unanswered /\ \A c \in Channel : delivered[a][c] = 0
AtMostOnce(a) == \A c \in Channel : delivered[a][c] <= 1
Undelivered(a, channels) ==
    a \notin unanswered => \A c \in channels : delivered[a][c] = 0

\* Of a first dispatch nothing is delivered until it is sent, and then only what
\* was answered unless an answer was lost; a retry is for what was not delivered.
Sent(h) ==
    (Under(h) /\ h # "web") =>
        LET a == handler[h].alert IN
        /\ At(h, "status") => \A c \in handler[h].posted : delivered[a][c] > 0
        /\ (~handler[h].again /\ ~At(h, "status")) => Fresh(a)
        /\ (~handler[h].again /\ At(h, "status")) =>
              AtMostOnce(a) /\ Undelivered(a, Channel \ handler[h].posted)
        /\ (handler[h].again /\ ~At(h, "status")) =>
              AtMostOnce(a) /\ Undelivered(a, handler[h].posted)

Stored ==
    retry.alert # 0 => AtMostOnce(retry.alert) /\ Undelivered(retry.alert, retry.channels)

Deliveries ==
    /\ \A h \in Handler : Sent(h)
    /\ \A a \in Alert : a > Len(alerts) => Fresh(a)
    /\ Stored
    /\ DeliveredOnce

\* Another handler's step leaves a handler's own alert alone.
LEMMA SentKept ==
    ASSUME Shape, Places, Deliveries, NEW h \in Handler, Others(h),
           \A b \in Alert : b # handler[h].alert =>
              delivered'[b] = delivered[b] /\ (b \in unanswered' <=> b \in unanswered),
           Under(h) /\ h # "web",
           NEW g \in Handler, g # h
    PROVE  Sent(g)'
<1>1. SUFFICES ASSUME Under(g), g # "web" PROVE Sent(g)'
  BY DEF Sent, Under, Others
<1>2. handler'[g] = handler[g] /\ handler[g].alert # handler[h].alert
  BY <1>1 DEF Others, Places, Apart
<1>3. handler[g].alert \in Alert
  BY <1>1, UnderWay
<1>4. /\ delivered'[handler[g].alert] = delivered[handler[g].alert]
      /\ handler[g].alert \in unanswered' <=> handler[g].alert \in unanswered
  BY <1>2, <1>3
<1> QED BY <1>1, <1>2, <1>4 DEF Deliveries, Sent, Fresh, AtMostOnce, Undelivered, Under, At

\* Deliveries of one handler's alert.
LEMMA DeliveriesKept ==
    ASSUME Shape, Places, Deliveries, NEW h \in Handler, Others(h), Under(h), h # "web",
           Len(alerts') = Len(alerts), retry' = retry,
           \A b \in Alert : b # handler[h].alert =>
              delivered'[b] = delivered[b] /\ (b \in unanswered' <=> b \in unanswered),
           \A c \in Channel :
              delivered'[handler[h].alert][c] > 1 =>
                 handler[h].alert \in unanswered' /\ delivered'[handler[h].alert][c] = 2,
           Sent(h)'
    PROVE  Deliveries'
<1>1. handler[h].alert \in 1..Len(alerts) /\ Len(alerts) \in Nat
  BY UnderWay DEF Shape
<1>2. \A g \in Handler : Sent(g)'
  BY SentKept
<1>3. \A a \in Alert : a > Len(alerts') => Fresh(a)'
  <2> SUFFICES ASSUME NEW a \in Alert, a > Len(alerts) PROVE Fresh(a)'
    OBVIOUS
  <2>1. a # handler[h].alert
    BY <1>1 DEF Alert
  <2> QED BY <2>1 DEF Deliveries, Fresh
<1>4. Stored'
  <2> SUFFICES ASSUME retry.alert # 0 PROVE Stored'
    BY DEF Stored
  <2>1. retry.alert \in Alert /\ retry.alert # handler[h].alert
    BY DEF Shape, TypeOK, Places, Apart
  <2>2. /\ delivered'[retry.alert] = delivered[retry.alert]
        /\ retry.alert \in unanswered' <=> retry.alert \in unanswered
    BY <2>1
  <2> QED BY <2>2 DEF Deliveries, Stored, AtMostOnce, Undelivered
<1>5. DeliveredOnce'
  BY DEF Deliveries, DeliveredOnce
<1> QED BY <1>2, <1>3, <1>4, <1>5 DEF Deliveries

\* Nothing is sent, and no handler takes up an alert.
LEMMA NothingSent ==
    ASSUME Shape, Deliveries, UNCHANGED <<delivered, unanswered, retry>>,
           Len(alerts') = Len(alerts), \A h \in Handler : Sent(h)'
    PROVE  Deliveries'
BY DEF Deliveries, DeliveredOnce, Stored, Fresh, AtMostOnce, Undelivered

\* No action sends what was delivered, but for a lost answer.
LEMMA DeliveriesStep == Shape /\ Places /\ Deliveries /\ [Next]_vars => Deliveries'
<1> SUFFICES ASSUME Shape, Places, Deliveries, [Next]_vars
             PROVE  Deliveries'
  OBVIOUS
<1>0. /\ handler \in [Handler -> Doing] /\ Len(alerts) \in Nat
      /\ delivered \in [Alert -> [Channel -> Nat]]
      /\ \A h \in Handler : Sent(h)
  BY DEF Shape, TypeOK, Deliveries
<1>1. ASSUME NEW h \in Handler, Others(h), ~Under(h)' \/ h = "web",
             UNCHANGED <<delivered, unanswered, retry>>, Len(alerts') = Len(alerts)
      PROVE  Deliveries'
  <2>1. \A g \in Handler : Sent(g)'
    BY <1>0, <1>1 DEF Sent, Under, At, Others, Fresh, AtMostOnce, Undelivered
  <2> QED BY <1>1, <2>1, NothingSent
<1>2. ASSUME NEW h \in Handler, NEW type \in AlertType, Raise(h, type)
      PROVE  Deliveries'
  <2>1. /\ Others(h) /\ handler'[h].at = "insert" /\ UNCHANGED <<alerts, retry, record>>
    BY <1>0, <1>2, Doings, Moved DEF Raise, Others
  <2> QED BY <1>1, <2>1 DEF Under, record
<1>3. ASSUME NEW h \in Handler, Insert(h)
      PROVE  Deliveries'
  <2>1. /\ Others(h) /\ UNCHANGED <<retry, record>> /\ Len(alerts) + 1 \in Alert
        /\ Len(alerts') = Len(alerts) + 1 /\ handler'[h].at \in {"mute", "send"}
        /\ handler'[h].alert = Len(alerts) + 1 /\ handler'[h].again = FALSE
    BY <1>3, InsertEffects
  <2>2. UNCHANGED <<delivered, unanswered>>
    BY <2>1 DEF record
  <2>3. Sent(h)'
    <3>1. /\ Len(alerts) + 1 \notin unanswered
          /\ \A c \in Channel : delivered[Len(alerts) + 1][c] = 0
      BY <1>0, <2>1 DEF Deliveries, Fresh
    <3> QED BY <2>1, <2>2, <3>1 DEF Sent, At, Fresh
  <2>4. \A g \in Handler : g # h => Sent(g)'
    BY <1>0, <2>1, <2>2 DEF Sent, Under, At, Others, Fresh, AtMostOnce, Undelivered
  <2>5. \A a \in Alert : a > Len(alerts') => Fresh(a)'
    BY <1>0, <2>1, <2>2 DEF Deliveries, Fresh, Alert
  <2>6. Stored'
    BY <2>1, <2>2 DEF Deliveries, Stored, AtMostOnce, Undelivered
  <2>7. DeliveredOnce'
    BY <2>2 DEF Deliveries, DeliveredOnce
  <2> QED BY <2>3, <2>4, <2>5, <2>6, <2>7 DEF Deliveries
<1>4. ASSUME NEW h \in Handler, InsertFails(h)
      PROVE  Deliveries'
  <2>1. Others(h) /\ handler'[h] = Idle /\ UNCHANGED <<alerts, retry, record>>
    BY <1>0, <1>4, Doings, Moved DEF InsertFails, Others
  <2> QED BY <1>1, <2>1, Doings DEF Under, record
<1>5. ASSUME NEW h \in Handler, ReadMute(h) \/ ClearMute(h)
      PROVE  Deliveries'
  <2>1. /\ Under(h) /\ handler[h].at \in {"mute", "clear"} /\ Others(h)
        /\ UNCHANGED <<alerts, retry, record>>
        /\ \/ handler'[h] = Idle
           \/ /\ handler'[h].at \in {"clear", "send"}
              /\ handler'[h].alert = handler[h].alert /\ handler'[h].again = handler[h].again
              /\ handler'[h].posted \subseteq handler[h].posted
    BY <1>5, Proceeds
  <2>2. CASE h = "web" \/ handler'[h] = Idle
    BY <1>1, <2>1, <2>2, Doings DEF Under, record
  <2>3. CASE /\ h # "web" /\ handler'[h].at \in {"clear", "send"}
             /\ handler'[h].alert = handler[h].alert /\ handler'[h].again = handler[h].again
             /\ handler'[h].posted \subseteq handler[h].posted
    <3>1. UNCHANGED <<delivered, unanswered>>
      BY <2>1 DEF record
    <3>2. Sent(h)'
      BY <1>0, <2>1, <2>3, <3>1 DEF Sent, Under, At, Fresh, AtMostOnce, Undelivered
    <3>3. \A g \in Handler : g # h => Sent(g)'
      BY <1>0, <2>1, <3>1 DEF Sent, Under, At, Others, Fresh, AtMostOnce, Undelivered
    <3> QED BY <2>1, <3>1, <3>2, <3>3, NothingSent
  <2> QED BY <2>1, <2>2, <2>3
<1>6. ASSUME NEW h \in Handler, Send(h)
      PROVE  Deliveries'
  <2>1. /\ At(h, "send") /\ Under(h) /\ h # "web" /\ Others(h)
        /\ UNCHANGED <<alerts, retry>> /\ handler'[h].at = "status"
        /\ handler'[h].alert = handler[h].alert /\ handler'[h].again = handler[h].again
    BY <1>6, SendEffects
  <2>2. handler[h].alert \in Alert /\ handler[h].again \in BOOLEAN /\ handler[h].posted \subseteq Channel
    BY <2>1, UnderWay
  <2>3. PICK reached \in SUBSET handler[h].posted :
          /\ handler'[h].posted \subseteq reached
          /\ delivered' = [delivered EXCEPT ![handler[h].alert] =
                             [c \in Channel |-> @[c] + IF c \in reached THEN 1 ELSE 0]]
          /\ unanswered' = IF handler'[h].posted # reached
                           THEN unanswered \cup {handler[h].alert} ELSE unanswered
    BY <1>6, SendEffects
  <2>4. /\ \A b \in Alert : b # handler[h].alert => delivered'[b] = delivered[b]
        /\ \A c \in Channel : delivered'[handler[h].alert][c]
                                = delivered[handler[h].alert][c] + IF c \in reached THEN 1 ELSE 0
    BY <2>2, <2>3, Deliver
  <2>5. \A b \in Alert : b # handler[h].alert =>
           delivered'[b] = delivered[b] /\ (b \in unanswered' <=> b \in unanswered)
    BY <2>3, <2>4
  <2>6. \A c \in Channel : delivered[handler[h].alert][c] \in Nat
    BY <1>0, <2>2
  <2>7. handler[h].alert \in unanswered => handler[h].alert \in unanswered'
    BY <2>3
  <2>8. \A c \in handler'[h].posted : delivered'[handler[h].alert][c] > 0
    BY <2>2, <2>3, <2>4, <2>6
  <2>9. CASE ~handler[h].again
    <3>1. /\ handler[h].alert \notin unanswered
          /\ \A c \in Channel : delivered[handler[h].alert][c] = 0
      BY <1>0, <2>1, <2>9 DEF Sent, Fresh, At
    <3>2. \A c \in Channel : delivered'[handler[h].alert][c] = IF c \in reached THEN 1 ELSE 0
      BY <2>4, <3>1
    <3>3. handler[h].alert \notin unanswered' => handler'[h].posted = reached
      BY <2>3
    <3>4. Sent(h)'
      BY <2>1, <2>8, <2>9, <3>2, <3>3 DEF Sent, At, AtMostOnce, Undelivered
    <3> QED BY <2>1, <2>5, <3>2, <3>4, DeliveriesKept
  <2>10. CASE handler[h].again
    <3>1. /\ \A c \in Channel : delivered[handler[h].alert][c] <= 1
          /\ handler[h].alert \notin unanswered =>
               \A c \in handler[h].posted : delivered[handler[h].alert][c] = 0
      BY <1>0, <2>1, <2>10 DEF Sent, AtMostOnce, Undelivered, At
    <3>2. \A c \in Channel : delivered'[handler[h].alert][c] > 1 =>
             handler[h].alert \in unanswered' /\ delivered'[handler[h].alert][c] = 2
      BY <2>3, <2>4, <2>6, <2>7, <3>1
    <3>3. Sent(h)'
      BY <2>1, <2>8, <2>10 DEF Sent, At
    <3> QED BY <2>1, <2>5, <3>2, <3>3, DeliveriesKept
  <2> QED BY <2>2, <2>9, <2>10
<1>7. ASSUME NEW h \in Handler, DispatchFails(h)
      PROVE  Deliveries'
  <2>1. /\ Under(h) /\ Others(h) /\ handler'[h] = Idle
        /\ UNCHANGED <<alerts, retry, unanswered>>
        /\ \/ delivered' = delivered
           \/ /\ h # "web" /\ ~At(h, "status")
              /\ \E mailed \in SUBSET handler[h].posted :
                   delivered' = [delivered EXCEPT ![handler[h].alert] =
                                   [c \in Channel |-> @[c] + IF c \in mailed THEN 1 ELSE 0]]
    BY <1>7, FailsEffects
  <2>2. CASE delivered' = delivered
    BY <1>1, <2>1, <2>2, Doings DEF Under
  <2>3. ASSUME NEW mailed \in SUBSET handler[h].posted, h # "web", ~At(h, "status"),
               delivered' = [delivered EXCEPT ![handler[h].alert] =
                               [c \in Channel |-> @[c] + IF c \in mailed THEN 1 ELSE 0]]
        PROVE  Deliveries'
    <3>1. handler[h].alert \in Alert /\ handler[h].again \in BOOLEAN
      BY <2>1, <2>3, UnderWay
    <3>2. /\ \A b \in Alert : b # handler[h].alert => delivered'[b] = delivered[b]
          /\ \A c \in Channel : delivered'[handler[h].alert][c]
                                  = delivered[handler[h].alert][c] + IF c \in mailed THEN 1 ELSE 0
      BY <2>3, <3>1, Deliver
    <3>3. \A c \in Channel : delivered[handler[h].alert][c] \in Nat
      BY <1>0, <3>1
    <3>4. /\ \A c \in Channel : delivered[handler[h].alert][c] <= 1
          /\ handler[h].alert \notin unanswered =>
               \A c \in handler[h].posted : delivered[handler[h].alert][c] = 0
      <4>1. CASE handler[h].again
        BY <1>0, <2>1, <2>3, <4>1 DEF Sent, AtMostOnce, Undelivered
      <4>2. CASE ~handler[h].again
        <5>1. \A c \in Channel : delivered[handler[h].alert][c] = 0
          BY <1>0, <2>1, <2>3, <4>2 DEF Sent, Fresh
        <5>2. handler[h].posted \subseteq Channel
          BY <2>1, UnderWay
        <5> QED BY <5>1, <5>2
      <4> QED BY <3>1, <4>1, <4>2
    <3>5. \A c \in Channel : delivered'[handler[h].alert][c] > 1 =>
             handler[h].alert \in unanswered' /\ delivered'[handler[h].alert][c] = 2
      BY <2>1, <3>2, <3>3, <3>4
    <3>6. Sent(h)'
      BY <2>1, Doings DEF Sent, Under
    <3> QED BY <2>1, <2>3, <3>2, <3>5, <3>6, DeliveriesKept
  <2> QED BY <2>1, <2>2, <2>3
<1>8. ASSUME NEW h \in Handler, Settle(h)
      PROVE  Deliveries'
  <2>1. /\ At(h, "status") /\ Under(h) /\ h # "web" /\ Others(h) /\ handler'[h] = Idle
        /\ UNCHANGED <<delivered, unanswered>> /\ Len(alerts') = Len(alerts)
        /\ IF MustRetry(h)
           THEN retry' = [alert |-> handler[h].alert, channels |-> Failing(h)]
           ELSE retry' = retry
    BY <1>8, SettleEffects
  <2>2. CASE ~MustRetry(h)
    BY <1>1, <2>1, <2>2, Doings DEF Under
  <2>3. CASE MustRetry(h)
    <3>1. /\ retry'.alert = handler[h].alert /\ retry'.channels = Failing(h)
          /\ ~handler[h].again
      BY <2>1, <2>3 DEF MustRetry
    <3>2. Failing(h) \subseteq Channel \ handler[h].posted
      BY <2>1, UnderWay DEF Failing
    <3>3. AtMostOnce(handler[h].alert) /\ Undelivered(handler[h].alert, Channel \ handler[h].posted)
      BY <1>0, <2>1, <3>1 DEF Sent
    <3>4. Stored'
      BY <2>1, <3>1, <3>2, <3>3 DEF Stored, AtMostOnce, Undelivered
    <3>5. \A g \in Handler : Sent(g)'
      BY <1>0, <2>1, Doings DEF Sent, Under, At, Others, Fresh, AtMostOnce, Undelivered
    <3>6. DeliveredOnce' /\ \A a \in Alert : a > Len(alerts') => Fresh(a)'
      BY <2>1 DEF Deliveries, DeliveredOnce, Fresh
    <3> QED BY <3>4, <3>5, <3>6 DEF Deliveries
  <2> QED BY <2>2, <2>3
<1>9. ASSUME Retry
      PROVE  Deliveries'
  <2>1. /\ retry.alert \in 1..Len(alerts) /\ Others("alarm") /\ retry' = NoRetry
        /\ UNCHANGED <<alerts, record>>
        /\ handler'["alarm"].at \in {"mute", "send"} /\ handler'["alarm"].alert = retry.alert
        /\ handler'["alarm"].again = TRUE /\ handler'["alarm"].posted \subseteq retry.channels
    BY <1>9, RetryEffects
  <2>2. UNCHANGED <<delivered, unanswered>> /\ retry'.alert = 0 /\ retry.alert # 0
    BY <1>0, <2>1 DEF record, NoRetry
  <2>3. Sent("alarm")'
    <3>1. AtMostOnce(retry.alert) /\ Undelivered(retry.alert, retry.channels)
      BY <2>2 DEF Deliveries, Stored
    <3> QED BY <2>1, <2>2, <3>1 DEF Sent, At, AtMostOnce, Undelivered
  <2>4. \A g \in Handler : g # "alarm" => Sent(g)'
    BY <1>0, <2>1, <2>2 DEF Sent, Under, At, Others, Fresh, AtMostOnce, Undelivered
  <2>5. DeliveredOnce' /\ \A a \in Alert : a > Len(alerts') => Fresh(a)'
    BY <2>1, <2>2 DEF Deliveries, DeliveredOnce, Fresh
  <2> QED BY <2>2, <2>3, <2>4, <2>5 DEF Deliveries, Stored
<1>10. ASSUME WebReads
       PROVE  Deliveries'
  <2>1. "web" \in Handler /\ Others("web") /\ UNCHANGED <<alerts, retry, record>>
    <3>1. Shape'
      BY ShapeStep
    <3> QED BY <1>0, <1>10, <3>1 DEF WebReads, Goes, Handler, Others, Shape
  <2> QED BY <1>1, <2>1 DEF record
<1>11. CASE UNCHANGED <<alerts, handler, retry, record>>
  <2>1. \A h \in Handler : Sent(h)'
    BY <1>0, <1>11 DEF Sent, Under, At, Fresh, AtMostOnce, Undelivered, record
  <2> QED BY <1>11, <2>1, NothingSent DEF record
<1>12. CASE (\E type \in AlertType : CooldownEnds(type)) \/ Mute \/ Unmute \/ MuteExpires
            \/ UNCHANGED vars
  BY <1>11, <1>12 DEF CooldownEnds, Mute, Unmute, MuteExpires, vars, dispatching
<1>13. CASE Crash
  <2>1. /\ UNCHANGED <<alerts, retry, delivered, unanswered>>
        /\ \A h \in Handler : handler'[h] = IF h = "web" THEN handler[h] ELSE Idle
    BY <1>13 DEF Crash
  <2>2. \A h \in Handler : Sent(h)'
    BY <2>1, Doings DEF Sent, Under
  <2> QED BY <2>1, <2>2, NothingSent
<1> QED
  BY <1>2, <1>3, <1>4, <1>5, <1>6, <1>7, <1>8, <1>9, <1>10, <1>12, <1>13
  DEF Next, HandlerNext

\* The two invariants hold in every behaviour.
LEMMA DeliveriesAlways == Spec => [](Places /\ Deliveries)
<1>1. Init => Places /\ Deliveries
  <2> SUFFICES ASSUME Init PROVE Places /\ Deliveries
    OBVIOUS
  <2>1. \A h \in Handler : handler[h].at = "idle"
    BY Doings DEF Init
  <2>2. retry.alert = 0
    BY DEF Init, NoRetry
  <2>3. Places
    BY <2>1, <2>2 DEF Places, Apart, Turn, Under
  <2>4. Deliveries
    BY <2>1, <2>2 DEF Init, Deliveries, Stored, Sent, Under, Fresh, DeliveredOnce
  <2> QED BY <2>3, <2>4
<1> QED BY <1>1, ShapeAlways, PlacesStep, DeliveriesStep, PTL DEF Spec

\* A channel is never used again for an alert it has delivered, unless its answer
\* was lost, and then once more: triggerAlert keeps the failed channels only, and
\* the alarm drops them before it tries again.
THEOREM NoAlertTwice == Spec => []DeliveredOnce
<1>1. Deliveries => DeliveredOnce
  BY DEF Deliveries
<1> QED BY <1>1, DeliveriesAlways, PTL

\* Each message, handler and stored retry is for an alert whose row was inserted,
\* and no two of the handlers and the retry have the same alert.
AlertsInOnePlace ==
    /\ \A b \in Alert : b > Len(alerts) => \A c \in Channel : delivered[b][c] = 0
    /\ retry.alert <= Len(alerts)
    /\ \A h \in Handler \ {"web"} : Under(h) =>
         /\ handler[h].alert \in 1..Len(alerts)
         /\ handler[h].alert # retry.alert
         /\ \A g \in Handler \ {h} : Under(g) => handler[g].alert # handler[h].alert

\* dispatchAlert is called for an alert whose INSERT has succeeded, or for the stored
\* retry that the object has taken up: whatever handlers run at once, fail or are cut
\* short, no channel has a message of an alert without a row, and no two of them
\* dispatch the same one.
THEOREM EveryAlertInOnePlace == Spec => []AlertsInOnePlace
<1>1. Shape /\ Places /\ Deliveries => AlertsInOnePlace
  <2> SUFFICES ASSUME Shape, Places, Deliveries PROVE AlertsInOnePlace
    OBVIOUS
  <2>1. \A b \in Alert : b > Len(alerts) => \A c \in Channel : delivered[b][c] = 0
    BY DEF Deliveries, Fresh
  <2>2. \A h \in Handler \ {"web"} : Under(h) => handler[h].alert \in 1..Len(alerts)
    BY UnderWay
  <2>3. \A h \in Handler \ {"web"} : Apart(h)
    BY DEF Places
  <2> QED BY <2>1, <2>2, <2>3 DEF Shape, Apart, AlertsInOnePlace
<1> QED BY <1>1, ShapeAlways, DeliveriesAlways, PTL

(***************************************************************************)
(* The status of an alert's row.                                           *)
(***************************************************************************)
NotTried(h) ==
    (Under(h) /\ h # "web" /\ ~handler[h].again) =>
        \A c \in Channel : alerts[handler[h].alert].status[c] = 0

\* What StatusTruthful says of one channel.
Truthful(a, c) ==
    /\ alerts[a].status[c] = 1 => delivered[a][c] > 0
    /\ (Critical(alerts[a].type) /\ alerts[a].status[c] = -1 /\ a \notin over) =>
         (retry.alert = a /\ c \in retry.channels) \/ Retrying(a)

Statuses ==
    /\ \A h \in Handler : NotTried(h)
    /\ \A a \in 1..Len(alerts), c \in Channel : Truthful(a, c)

\* A step that leaves the rows, the retry and the retrying handlers alone.
LEMMA TruthKept ==
    ASSUME Shape, Shape', Statuses, UNCHANGED <<alerts, retry>>, over \subseteq over',
           \A a \in Alert, c \in Channel : delivered'[a][c] >= delivered[a][c],
           \A h \in Handler : (Under(h) /\ handler[h].again /\ h # "web") =>
              \/ Under(h)' /\ handler'[h].again /\ handler'[h].alert = handler[h].alert
              \/ handler[h].alert \in over'
    PROVE  \A a \in 1..Len(alerts'), c \in Channel : Truthful(a, c)'
<1> SUFFICES ASSUME NEW a \in 1..Len(alerts), NEW c \in Channel
             PROVE  Truthful(a, c)'
  OBVIOUS
<1>1. Truthful(a, c) /\ a \in Alert
  BY ConstantsOK DEF Statuses, Shape, TypeOK, Alert
<1>2. delivered[a][c] \in Nat /\ delivered'[a][c] >= delivered[a][c]
  BY <1>1 DEF Shape, TypeOK
<1>3. alerts'[a].status[c] = 1 => delivered'[a][c] > 0
  <2>1. delivered'[a][c] \in Nat
    BY <1>1 DEF Shape, TypeOK
  <2>2. delivered[a][c] > 0 => delivered'[a][c] > 0
    BY <1>2, <2>1
  <2> QED BY <1>1, <2>2 DEF Truthful
<1>4. Retrying(a) => Retrying(a)' \/ a \in over'
  <2> SUFFICES ASSUME NEW h \in Handler, Under(h), handler[h].alert = a, handler[h].again
               PROVE  Retrying(a)' \/ a \in over'
    BY DEF Retrying, Under
  <2>1. h # "web"
    BY <1>1 DEF Shape, HandlerShape, Alert
  <2> QED BY <2>1 DEF Retrying, Under
<1> QED BY <1>1, <1>3, <1>4 DEF Truthful, Critical

\* The statuses follow what is sent.
LEMMA StatusesStep == Shape /\ Places /\ Deliveries /\ Statuses /\ [Next]_vars => Statuses'
<1> SUFFICES ASSUME Shape, Places, Deliveries, Statuses, [Next]_vars
             PROVE  Statuses'
  OBVIOUS
<1>0. /\ handler \in [Handler -> Doing] /\ Len(alerts) \in Nat
      /\ delivered \in [Alert -> [Channel -> Nat]]
      /\ \A h \in Handler : NotTried(h) /\ Apart(h)
      /\ \A h \in Handler : Under(h) /\ h # "web" =>
            handler[h].alert \in 1..Len(alerts) /\ handler[h].alert \in Alert
      /\ \A a \in 1..Len(alerts), c \in Channel : Truthful(a, c)
  BY UnderWay DEF Shape, TypeOK, Statuses, Places
<1>15. Shape'
  BY ShapeStep
<1>1. ASSUME NEW h \in Handler, Others(h), UNCHANGED <<alerts, retry>>, over \subseteq over',
             \A a \in Alert, c \in Channel : delivered'[a][c] >= delivered[a][c],
             \/ h = "web"
             \/ ~Under(h)' /\ (Under(h) /\ handler[h].again => handler[h].alert \in over')
             \/ /\ Under(h) /\ Under(h)' /\ handler'[h].alert = handler[h].alert
                /\ handler'[h].again = handler[h].again
      PROVE  Statuses'
  <2>1. \A g \in Handler : NotTried(g)'
    BY <1>0, <1>1 DEF NotTried, Under, Others
  <2>2. \A g \in Handler : (Under(g) /\ handler[g].again /\ g # "web") =>
           \/ Under(g)' /\ handler'[g].again /\ handler'[g].alert = handler[g].alert
           \/ handler[g].alert \in over'
    BY <1>1 DEF Under, Others
  <2>3. \A a \in 1..Len(alerts'), c \in Channel : Truthful(a, c)'
    BY <1>1, <1>15, <2>2, TruthKept
  <2> QED BY <2>1, <2>3 DEF Statuses
<1>2. \A a \in Alert, c \in Channel : delivered[a][c] >= delivered[a][c]
  BY <1>0
<1>3. ASSUME NEW h \in Handler, NEW type \in AlertType, Raise(h, type)
      PROVE  Statuses'
  <2>1. /\ Others(h) /\ handler'[h].at = "insert" /\ At(h, "idle")
        /\ UNCHANGED <<alerts, retry, record>>
    BY <1>0, <1>3, Doings, Moved DEF Raise, Others
  <2> QED BY <1>1, <1>2, <2>1 DEF Under, At, record
<1>4. ASSUME NEW h \in Handler, InsertFails(h)
      PROVE  Statuses'
  <2>1. /\ Others(h) /\ handler'[h] = Idle /\ At(h, "insert")
        /\ UNCHANGED <<alerts, retry, record>>
    BY <1>0, <1>4, Doings, Moved DEF InsertFails, Others
  <2> QED BY <1>1, <1>2, <2>1, Doings DEF Under, At, record
<1>5. ASSUME NEW h \in Handler, ReadMute(h) \/ ClearMute(h)
      PROVE  Statuses'
  <2>1. /\ Under(h) /\ Others(h) /\ UNCHANGED <<alerts, retry, record>>
        /\ \/ h = "web"
           \/ /\ handler'[h].at \in {"clear", "send"}
              /\ handler'[h].alert = handler[h].alert /\ handler'[h].again = handler[h].again
    BY <1>5, Proceeds
  <2>2. UNCHANGED <<alerts, retry, delivered, over>>
    BY <2>1 DEF record
  <2>3. \/ h = "web"
        \/ /\ Under(h) /\ Under(h)' /\ handler'[h].alert = handler[h].alert
           /\ handler'[h].again = handler[h].again
    BY <2>1 DEF Under
  <2> QED BY <1>1, <1>2, <2>1, <2>2, <2>3
<1>6. ASSUME NEW h \in Handler, Send(h)
      PROVE  Statuses'
  <2>1. /\ Under(h) /\ h # "web" /\ Others(h) /\ UNCHANGED <<alerts, retry, over>>
        /\ handler'[h].at = "status"
        /\ handler'[h].alert = handler[h].alert /\ handler'[h].again = handler[h].again
    BY <1>6, SendEffects
  <2>2. PICK reached \in SUBSET handler[h].posted :
          delivered' = [delivered EXCEPT ![handler[h].alert] =
                          [c \in Channel |-> @[c] + IF c \in reached THEN 1 ELSE 0]]
    BY <1>6, SendEffects
  <2>3. \A a \in Alert, c \in Channel : delivered'[a][c] >= delivered[a][c]
    BY <1>0, <2>1, <2>2, Deliver
  <2>4. Under(h)'
    BY <2>1 DEF Under
  <2> QED BY <1>1, <2>1, <2>3, <2>4
<1>7. ASSUME NEW h \in Handler, DispatchFails(h)
      PROVE  Statuses'
  <2>1. /\ Under(h) /\ Others(h) /\ handler'[h] = Idle /\ UNCHANGED <<alerts, retry>>
        /\ over' = IF h = "web" THEN over ELSE over \cup {handler[h].alert}
        /\ \/ delivered' = delivered
           \/ /\ h # "web"
              /\ \E mailed \in SUBSET handler[h].posted :
                   delivered' = [delivered EXCEPT ![handler[h].alert] =
                                   [c \in Channel |-> @[c] + IF c \in mailed THEN 1 ELSE 0]]
    BY <1>7, FailsEffects
  <2>2. \A a \in Alert, c \in Channel : delivered'[a][c] >= delivered[a][c]
    <3>1. CASE delivered' = delivered
      BY <1>2, <3>1
    <3>2. ASSUME NEW mailed, h # "web",
                 delivered' = [delivered EXCEPT ![handler[h].alert] =
                                 [c \in Channel |-> @[c] + IF c \in mailed THEN 1 ELSE 0]]
          PROVE  \A a \in Alert, c \in Channel : delivered'[a][c] >= delivered[a][c]
      BY <1>0, <2>1, <3>2, Deliver
    <3> QED BY <2>1, <3>1, <3>2
  <2>3. ~Under(h)' /\ (h # "web" => handler[h].alert \in over') /\ over \subseteq over'
    BY <2>1, Doings DEF Under
  <2> QED BY <1>1, <2>1, <2>2, <2>3
<1>8. ASSUME NEW h \in Handler, Insert(h)
      PROVE  Statuses'
  <2>1. /\ Others(h) /\ UNCHANGED <<retry, record>> /\ Len(alerts') = Len(alerts) + 1
        /\ At(h, "insert")
        /\ \A a \in 1..Len(alerts) : alerts'[a] = alerts[a]
        /\ \A c \in Channel : alerts'[Len(alerts) + 1].status[c] = 0
        /\ handler'[h].alert = Len(alerts) + 1
    BY <1>8, InsertEffects
  <2>2. \A g \in Handler : NotTried(g)'
    BY <1>0, <2>1 DEF NotTried, Under, Others
  <2>3. \A a \in Alert : Retrying(a) => Retrying(a)'
    <3>1. ~Under(h)
      BY <2>1 DEF Under, At
    <3> QED BY <2>1, <3>1 DEF Retrying, Others, Under
  <2>4. ASSUME NEW a \in 1..Len(alerts), NEW c \in Channel PROVE Truthful(a, c)'
    <3>1. a \in Alert
      BY ConstantsOK DEF Shape, TypeOK, Alert
    <3> QED BY <1>0, <2>1, <2>3, <2>4, <3>1 DEF Truthful, Critical, record
  <2>5. ASSUME NEW a, a = Len(alerts) + 1, NEW c \in Channel PROVE Truthful(a, c)'
    BY <2>1, <2>5 DEF Truthful
  <2> QED BY <1>0, <2>1, <2>2, <2>4, <2>5 DEF Statuses
<1>9. ASSUME NEW h \in Handler, Settle(h)
      PROVE  Statuses'
  <2>1. /\ At(h, "status") /\ Under(h) /\ h # "web" /\ Others(h) /\ handler'[h] = Idle
        /\ delivered' = delivered /\ Len(alerts') = Len(alerts)
        /\ \A a \in 1..Len(alerts) :
             /\ alerts'[a].type = alerts[a].type
             /\ alerts'[a].status = IF a = handler[h].alert THEN Outcome(h) ELSE alerts[a].status
        /\ IF MustRetry(h)
           THEN retry' = [alert |-> handler[h].alert, channels |-> Failing(h)]
           ELSE retry' = retry
        /\ over' = IF handler[h].again THEN over \cup {handler[h].alert} ELSE over
    BY <1>9, SettleEffects
  <2>2. ~Under(h)' /\ \A g \in Handler : g # h => handler'[g] = handler[g]
    BY <2>1, Doings DEF Under, Others
  <2>3. ASSUME NEW g \in Handler PROVE NotTried(g)'
    <3>1. CASE g = h
      BY <2>2, <3>1 DEF NotTried
    <3>2. CASE g # h
      <4>1. SUFFICES ASSUME Under(g), g # "web", ~handler[g].again PROVE NotTried(g)'
        BY <2>2, <3>2 DEF NotTried, Under
      <4>2. /\ handler[g].alert # handler[h].alert /\ handler[g].alert \in 1..Len(alerts)
            /\ handler'[g] = handler[g]
        BY <1>0, <2>1, <2>2, <3>2, <4>1 DEF Apart
      <4> QED BY <1>0, <2>1, <4>1, <4>2 DEF NotTried
    <3> QED BY <3>1, <3>2
  <2>4. ASSUME NEW a \in 1..Len(alerts), NEW c \in Channel, a # handler[h].alert
        PROVE  Truthful(a, c)'
    <3>1. /\ alerts'[a].type = alerts[a].type /\ alerts'[a].status = alerts[a].status
          /\ a \in over <=> a \in over'
      BY <2>1, <2>4
    <3>2. Retrying(a) => Retrying(a)'
      BY <2>2, <2>4 DEF Retrying
    <3>3. (retry.alert = a /\ Critical(alerts[a].type)) => retry' = retry
      <4>1. SUFFICES ASSUME retry.alert = a, MustRetry(h) PROVE FALSE
        BY <2>1
      <4>2. handler[h].at # "idle" /\ Critical(handler[h].type)
        BY <2>1, <4>1 DEF At, MustRetry
      <4>3. retry = NoRetry
        BY <2>1, <4>2 DEF Places, Turn
      <4> QED BY <1>0, <4>1, <4>3 DEF NoRetry
    <3> QED BY <1>0, <2>1, <3>1, <3>2, <3>3 DEF Truthful, Critical
  <2>5. ASSUME NEW a \in 1..Len(alerts), NEW c \in Channel, a = handler[h].alert
        PROVE  Truthful(a, c)'
    <3>1. /\ alerts'[a].type = alerts[a].type /\ handler[h].type = alerts[a].type
          /\ alerts'[a].status[c] = IF c \notin handler[h].tried THEN alerts[a].status[c]
                                    ELSE IF c \in handler[h].posted THEN 1 ELSE -1
      <4>1. /\ alerts'[a].type = alerts[a].type /\ alerts'[a].status = Outcome(h)
            /\ handler[h].type = alerts[a].type
        BY <1>0, <2>1, <2>5 DEF Apart
      <4>2. Outcome(h)[c] = IF c \notin handler[h].tried THEN alerts[a].status[c]
                            ELSE IF c \in handler[h].posted THEN 1 ELSE -1
        BY <2>5 DEF Outcome
      <4> QED BY <4>1, <4>2
    <3>2. c \in handler[h].posted => delivered[a][c] > 0
      BY <2>1, <2>5 DEF Deliveries, Sent
    <3>3. alerts'[a].status[c] = 1 => delivered'[a][c] > 0
      BY <1>0, <2>1, <3>1, <3>2 DEF Truthful
    <3>4. CASE handler[h].again
      BY <2>1, <2>5, <3>3, <3>4 DEF Truthful
    <3>5. CASE ~handler[h].again
      <4>1. alerts[a].status[c] = 0
        BY <1>0, <2>1, <2>5, <3>5 DEF NotTried
      <4>2. (Critical(alerts'[a].type) /\ alerts'[a].status[c] = -1)
              => retry'.alert = a /\ c \in retry'.channels
        <5>1. SUFFICES ASSUME Critical(handler[h].type), c \in handler[h].tried \ handler[h].posted
                       PROVE  retry'.alert = a /\ c \in retry'.channels
          BY <3>1, <4>1 DEF Critical
        <5>2. MustRetry(h) /\ c \in Failing(h)
          BY <3>5, <5>1 DEF MustRetry, Failing
        <5> QED BY <2>1, <2>5, <5>2
      <4> QED BY <3>3, <4>2 DEF Truthful, Critical
    <3> QED BY <3>4, <3>5
  <2> QED BY <2>1, <2>3, <2>4, <2>5 DEF Statuses
<1>10. ASSUME Retry
       PROVE  Statuses'
  <2>1. /\ retry.alert \in 1..Len(alerts) /\ At("alarm", "idle") /\ Others("alarm")
        /\ retry' = NoRetry /\ UNCHANGED <<alerts, record>>
        /\ handler'["alarm"].at \in {"mute", "send"} /\ handler'["alarm"].alert = retry.alert
        /\ handler'["alarm"].again = TRUE /\ "alarm" \in Handler
    BY <1>10, RetryEffects DEF Handler
  <2>2. \A g \in Handler : NotTried(g)'
    BY <1>0, <2>1 DEF NotTried, Under, Others
  <2>3. \A a \in Alert : Retrying(a) => Retrying(a)'
    BY <2>1 DEF Retrying, Others, At
  <2>4. ASSUME NEW a \in 1..Len(alerts), a = retry.alert PROVE Retrying(a)'
    <3>1. \E g \in Handler : /\ handler'[g].at \in {"mute", "clear", "send", "status"}
                             /\ handler'[g].alert = a /\ handler'[g].again
      BY <2>1, <2>4
    <3> QED BY <3>1 DEF Retrying
  <2>5. ASSUME NEW a \in 1..Len(alerts), NEW c \in Channel PROVE Truthful(a, c)'
    <3>1. a \in Alert
      BY ConstantsOK DEF Shape, TypeOK, Alert
    <3> QED BY <1>0, <2>1, <2>3, <2>4, <2>5, <3>1 DEF Truthful, Critical, record
  <2> QED BY <2>1, <2>2, <2>5 DEF Statuses
<1>11. ASSUME WebReads
       PROVE  Statuses'
  <2>1. "web" \in Handler /\ Others("web") /\ UNCHANGED <<alerts, retry, record>>
    BY <1>0, <1>11, <1>15 DEF WebReads, Goes, Handler, Others, Shape
  <2> QED BY <1>1, <1>2, <2>1 DEF record
<1>12. CASE UNCHANGED <<alerts, handler, retry, record>>
  BY <1>0, <1>12 DEF Statuses, NotTried, Truthful, Retrying, Under, Critical, record
<1>13. CASE (\E type \in AlertType : CooldownEnds(type)) \/ Mute \/ Unmute \/ MuteExpires
            \/ UNCHANGED vars
  BY <1>12, <1>13 DEF CooldownEnds, Mute, Unmute, MuteExpires, vars, dispatching
<1>14. CASE Crash
  <2>1. /\ UNCHANGED <<alerts, retry, delivered>>
        /\ \A h \in Handler : handler'[h] = IF h = "web" THEN handler[h] ELSE Idle
        /\ over' = over \cup {handler[h].alert : h \in {g \in Handler \ {"web"} :
                                handler[g].at \in {"mute", "clear", "send", "status"}}}
    BY <1>14 DEF Crash
  <2>2. \A h \in Handler : NotTried(h)'
    BY <2>1, Doings DEF NotTried, Under
  <2>3. \A h \in Handler : (Under(h) /\ h # "web") => handler[h].alert \in over'
    BY <2>1 DEF Under
  <2>4. \A a \in 1..Len(alerts'), c \in Channel : Truthful(a, c)'
    BY <1>2, <1>15, <2>1, <2>3, TruthKept
  <2> QED BY <2>2, <2>4 DEF Statuses
<1> QED
  BY <1>3, <1>4, <1>5, <1>6, <1>7, <1>8, <1>9, <1>10, <1>11, <1>13, <1>14
  DEF Next, HandlerNext

\* A row says that a channel worked only if a message was delivered on it, and a
\* channel that failed for a critical alert is retried, by the alarm that is
\* under way or the next, unless D1 or the object failed on the way.
THEOREM StatusesAreTruthful == Spec => []StatusTruthful
<1>1. Init => Statuses
  BY Doings DEF Init, Statuses, NotTried, Under
<1>2. Shape /\ Statuses => StatusTruthful
  BY DEF Shape, Statuses, Truthful, StatusTruthful
<1> QED BY <1>1, <1>2, ShapeAlways, DeliveriesAlways, StatusesStep, PTL DEF Spec

(***************************************************************************)
(* The mute setting.                                                       *)
(***************************************************************************)
MuteInv == (wanted /\ ~crossed) => mute = "on" /\ \A h \in Handler : ~At(h, "clear")

\* Only readers that found an expired setting clear it.
LEMMA MuteStep == Shape /\ MuteInv /\ [Next]_vars => MuteInv'
<1> SUFFICES ASSUME Shape, MuteInv, [Next]_vars
             PROVE  MuteInv'
  OBVIOUS
<1>0. handler \in [Handler -> Doing]
  BY DEF Shape
<1>1. ASSUME NEW h \in Handler, Others(h), handler'[h].at # "clear", UNCHANGED muting
      PROVE  MuteInv'
  BY <1>1 DEF MuteInv, Others, At, muting
<1>2. ASSUME NEW h \in Handler, NEW type \in AlertType, Raise(h, type)
      PROVE  MuteInv'
  <2>1. Others(h) /\ handler'[h].at = "insert" /\ UNCHANGED muting
    BY <1>0, <1>2, Doings, Moved DEF Raise, Others
  <2> QED BY <1>1, <2>1
<1>3. ASSUME NEW h \in Handler, Insert(h) PROVE MuteInv'
  BY <1>1, <1>3, InsertEffects
<1>4. ASSUME NEW h \in Handler, InsertFails(h) PROVE MuteInv'
  <2>1. Others(h) /\ handler'[h] = Idle /\ UNCHANGED muting
    BY <1>0, <1>4, Doings, Moved DEF InsertFails, Others
  <2> QED BY <1>1, <2>1, Doings
<1>5. ASSUME NEW h \in Handler, ReadMute(h) PROVE MuteInv'
  <2>1. Others(h) /\ UNCHANGED muting /\ (handler'[h].at = "clear" => Expired)
    BY <1>5, Proceeds, Doings DEF ReadMute
  <2>2. CASE Expired
    BY <2>1, <2>2 DEF Expired, MuteInv, muting
  <2> QED BY <1>1, <2>1, <2>2
<1>6. ASSUME NEW h \in Handler, ClearMute(h) PROVE MuteInv'
  <2>1. ~ (wanted /\ ~crossed) /\ UNCHANGED <<wanted, crossed>>
    BY <1>6 DEF ClearMute, MuteInv
  <2> QED BY <2>1 DEF MuteInv
<1>7. ASSUME NEW h \in Handler, Send(h) PROVE MuteInv'
  BY <1>1, <1>7, SendEffects
<1>8. ASSUME NEW h \in Handler, Settle(h) PROVE MuteInv'
  BY <1>1, <1>8, SettleEffects, Doings
<1>9. ASSUME NEW h \in Handler, DispatchFails(h) PROVE MuteInv'
  BY <1>1, <1>9, FailsEffects, Doings
<1>10. CASE Retry
  BY <1>1, <1>10, RetryEffects DEF Handler
<1>11. CASE WebReads
  <2>1. /\ "web" \in Handler /\ UNCHANGED muting
        /\ Goes("web", [Dispatch(0, "high_latency", Channel, FALSE) EXCEPT !.at = "mute"])
    BY <1>11 DEF WebReads, Handler
  <2>2. Shape' /\ [Dispatch(0, "high_latency", Channel, FALSE) EXCEPT !.at = "mute"].at = "mute"
    BY ShapeStep DEF Dispatch
  <2>3. Others("web") /\ handler'["web"].at = "mute"
    BY <1>0, <2>1, <2>2 DEF Goes, Others, Shape
  <2> QED BY <1>1, <2>1, <2>3
<1>12. CASE UNCHANGED <<handler, muting>>
  BY <1>12 DEF MuteInv, At, muting
<1>13. CASE (\E type \in AlertType : CooldownEnds(type)) \/ UNCHANGED vars
  BY <1>12, <1>13 DEF CooldownEnds, vars, dispatching
<1>14. CASE Mute
  <2>1. mute' = "on" /\ handler' = handler /\ (crossed' <=> \E h \in Handler : At(h, "clear"))
    BY <1>14 DEF Mute, dispatching
  <2> QED BY <2>1 DEF MuteInv, At
<1>15. CASE Unmute \/ MuteExpires
  BY <1>15 DEF Unmute, MuteExpires, MuteInv
<1>16. CASE Crash
  <2>1. UNCHANGED muting /\ \A h \in Handler : At(h, "clear")' => At(h, "clear")
    BY <1>16, Doings DEF Crash, At
  <2> QED BY <2>1 DEF MuteInv, muting
<1> QED
  BY <1>2, <1>3, <1>4, <1>5, <1>6, <1>7, <1>8, <1>9, <1>10, <1>11, <1>13, <1>14, <1>15, <1>16
  DEF Next, HandlerNext

\* A mute set by the bot lasts until it runs out or is taken back, whatever the
\* handlers and requests that clear an older one, but for those that had read
\* the older one when it was set.
THEOREM MuteIsKept == Spec => []MuteKept
<1>1. Init => MuteInv
  BY DEF Init, MuteInv
<1>2. MuteInv => MuteKept
  BY DEF MuteInv, MuteKept
<1> QED BY <1>1, <1>2, MuteStep, ShapeAlways, PTL DEF Spec
=============================================================================
