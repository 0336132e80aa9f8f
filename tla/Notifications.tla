--------------------------- MODULE Notifications ---------------------------
(***************************************************************************)
(* From an alert to its messages: triggerAlert of the Durable Object with  *)
(* its cooldown and the retry of critical alerts, dispatchAlert with the   *)
(* choice of channels, and the mute setting of the Telegram bot, which     *)
(* every reader clears once it has run out (worker/src/durable-objects/    *)
(* client-monitor.ts, services/alert-dispatch.ts, notify.ts,               *)
(* bot-settings.ts, api/telegram.ts and alerts.ts).  Handlers are followed *)
(* from one await to the next; Measurements has what makes them raise an   *)
(* alert and what they go on with, ClientMonitor the alarm of the retry.   *)
(***************************************************************************)
EXTENDS Integers, Sequences, FiniteSets

CONSTANTS
    Messages,       \* handlers of WebSocket messages that may be under way
    Selections,     \* values of config.down_alert_channels
    Escalation,     \* config.down_alert_escalate_channels, {} if not enabled
    Configured,     \* the channels whose secrets are set
    Disabled,       \* types for which Telegram is switched off
    MaxAlerts,      \* bound on alerts
    MaxMutes,       \* bound on /mute and /unmute
    Faults          \* what may happen: "d1", "send", "answer", "crash"

Channel == {"email", "telegram"}
AlertType == {"high_latency", "packet_loss", "client_down"}
Critical(type) == type = "client_down"

ASSUME ConstantsOK ==
    /\ {"alarm", "web"} \cap Messages = {}
    /\ Selections \subseteq SUBSET Channel /\ Selections # {}
    /\ Escalation \subseteq Channel /\ Configured \subseteq Channel
    /\ Disabled \subseteq AlertType
    /\ MaxAlerts \in Nat /\ MaxMutes \in Nat
    /\ Faults \subseteq {"d1", "send", "answer", "crash"}

\* web is a request to the Worker: a test alert, or /status of the bot.
Handler == Messages \cup {"alarm", "web"}

VARIABLES
    selected,       \* config.down_alert_channels
    alerts,         \* the table alerts
    cooldown,       \* types in lastAlertTimes, for five minutes
    handler,        \* each handler: the await it is at
    retry,          \* pendingRetry in the object's storage
    mute,           \* muted_until in bot_settings
    mutes,          \* mutings and unmutings so far
    \* History.
    delivered,      \* messages delivered for each alert
    unanswered,     \* alerts of which a delivered message was taken for lost
    over,           \* alerts that are not retried again, or not at all
    wanted,         \* the admin wants to be left alone
    crossed         \* a /mute fell between a reader's SELECT and its DELETE

dispatching == <<alerts, cooldown, handler, retry>>
muting == <<mute, mutes, wanted, crossed>>
record == <<delivered, unanswered, over>>
vars == <<selected, dispatching, muting, record>>

Idle == [at |-> "idle"]
At(h, place) == handler[h].at = place
NoRetry == [alert |-> 0, channels |-> {}]
Alert == 1..MaxAlerts

\* A handler at "insert" awaits the row of the alert, at "mute" the SELECT of the
\* mute setting, at "clear" its DELETE, at "send" the messages and at "status"
\* the UPDATE of the row.
Dispatching ==
    [at : {"mute", "clear", "send", "status"}, alert : {0} \cup Alert, type : AlertType,
     tried : SUBSET Channel, posted : SUBSET Channel, again : BOOLEAN]

TypeOK ==
    /\ selected \in Selections
    /\ Len(alerts) <= MaxAlerts
    /\ \A a \in 1..Len(alerts) :
         alerts[a].type \in AlertType /\ alerts[a].status \in [Channel -> {-1, 0, 1}]
    /\ cooldown \subseteq AlertType
    /\ \A h \in Handler : handler[h] \in {Idle} \cup [at : {"insert"}, type : AlertType]
                           \/ handler[h] \in Dispatching
    /\ retry \in [alert : {0} \cup Alert, channels : SUBSET Channel]
    /\ retry.alert = 0 <=> retry.channels = {}
    /\ mute \in {"none", "on", "expired"}
    /\ mutes \in 0..MaxMutes
    /\ delivered \in [Alert -> [Channel -> Nat]]
    /\ unanswered \subseteq Alert /\ over \subseteq Alert
    /\ wanted \in BOOLEAN /\ crossed \in BOOLEAN

Init ==
    /\ selected \in Selections
    /\ alerts = <<>>
    /\ cooldown = {}
    /\ handler = [h \in Handler |-> Idle]
    /\ retry = NoRetry
    /\ mute = "none" /\ mutes = 0
    /\ delivered = [a \in Alert |-> [c \in Channel |-> 0]]
    /\ unanswered = {} /\ over = {}
    /\ wanted = FALSE /\ crossed = FALSE

Goes(h, to) == handler' = [handler EXCEPT ![h] = to]

-----------------------------------------------------------------------------
(***************************************************************************)
(* triggerAlert.  The cooldown begins before the row is written.           *)
(***************************************************************************)
Raised == Len(alerts) + Cardinality({h \in Handler : At(h, "insert")})
CoolingDown(type) == type \in cooldown

\* A pong raises the thresholds' alerts, the alarm that of the grace period.
Raise(h, type) ==
    /\ At(h, "idle")
    /\ h # "web" /\ (Critical(type) <=> h = "alarm")
    /\ h = "alarm" => retry = NoRetry
    /\ ~CoolingDown(type)
    /\ Raised < MaxAlerts
    /\ cooldown' = cooldown \cup {type}
    /\ Goes(h, [at |-> "insert", type |-> type])
    /\ UNCHANGED <<selected, alerts, retry, muting, record>>

CooldownEnds(type) ==
    /\ type \in cooldown
    /\ ~ \E h \in Handler : At(h, "insert") /\ handler[h].type = type
    /\ cooldown' = cooldown \ {type}
    /\ UNCHANGED <<selected, alerts, handler, retry, muting, record>>

\* dispatchAlert, up to its first await: the email is on its way, Telegram waits
\* for the mute setting.
Dispatch(alert, type, channels, again) ==
    [at |-> IF "telegram" \in channels \cap Configured THEN "mute" ELSE "send",
     alert |-> alert, type |-> type, tried |-> channels,
     posted |-> channels \cap Configured, again |-> again]

\* A client that has been down for long enough is escalated.
Chosen(type) == {selected} \cup IF Critical(type) THEN {selected \cup Escalation} ELSE {}

\* The row is written.
Insert(h) ==
    /\ At(h, "insert")
    /\ LET type == handler[h].type IN
       \E channels \in Chosen(type) :
         /\ alerts' = Append(alerts, [type |-> type, status |-> [c \in Channel |-> 0]])
         /\ Goes(h, Dispatch(Len(alerts) + 1, type, channels, FALSE))
    /\ UNCHANGED <<selected, cooldown, retry, muting, record>>

\* The row fails: the error ends the handler.
InsertFails(h) ==
    /\ "d1" \in Faults
    /\ At(h, "insert")
    /\ Goes(h, Idle)
    /\ UNCHANGED <<selected, alerts, cooldown, retry, muting, record>>

\* getMuteUntil: a setting that has run out is deleted, by key.
RunOut == mute # "none"                          \* mutant: the mute in force as well
Expired == mute = "expired"

\* Telegram is not used while it is muted, but for critical alerts, nor for the
\* types it is switched off for.
Allowed(h, muted) ==
    IF (muted /\ ~Critical(handler[h].type)) \/ handler[h].type \in Disabled
    THEN handler[h].posted \ {"telegram"} ELSE handler[h].posted

\* What a request to the Worker goes on with is not followed.
Reading(h, muted) ==
    IF h = "web" THEN Idle
    ELSE [handler[h] EXCEPT !.at = "send", !.posted = Allowed(h, muted)]

ReadMute(h) ==
    /\ At(h, "mute")
    /\ \/ /\ Expired
          /\ Goes(h, [handler[h] EXCEPT !.at = "clear"])
       \/ /\ ~Expired
          /\ Goes(h, Reading(h, mute = "on"))
    /\ UNCHANGED <<selected, alerts, cooldown, retry, muting, record>>

ClearMute(h) ==
    /\ At(h, "clear")
    /\ mute' = "none"
    /\ Goes(h, Reading(h, FALSE))
    /\ UNCHANGED <<selected, alerts, cooldown, retry, mutes, wanted, crossed, record>>

\* The messages have been sent, or have failed.  A message may be delivered and
\* its answer lost.
Reached(h) == {handler[h].posted} \cup IF "send" \in Faults
                                       THEN SUBSET handler[h].posted ELSE {}
Answered(reached) == {reached} \cup IF "answer" \in Faults
                                    THEN SUBSET reached ELSE {}

Send(h) ==
    /\ At(h, "send")
    /\ \E reached \in Reached(h) : \E answered \in Answered(reached) :
         LET a == handler[h].alert IN
         /\ delivered' = [delivered EXCEPT ![a] =
                            [c \in Channel |-> @[c] + IF c \in reached THEN 1 ELSE 0]]
         /\ unanswered' = IF answered # reached THEN unanswered \cup {a} ELSE unanswered
         /\ Goes(h, [handler[h] EXCEPT !.at = "status", !.posted = answered])
    /\ UNCHANGED <<selected, alerts, cooldown, retry, over, muting>>

\* The UPDATE of the row, and the retry of the channels that have failed, which
\* the object keeps for its alarm.  A retry is not retried.
Attempted(h) == handler[h].tried                 \* mutant: what was tried worked
Worked(h) == handler[h].posted

AllTried(h) == handler[h].tried                  \* mutant: those that worked too
Failing(h) == handler[h].tried \ handler[h].posted

MustRetry(h) == Critical(handler[h].type) /\ ~handler[h].again /\ Failing(h) # {}

Settle(h) ==
    LET a == handler[h].alert IN
    /\ At(h, "status")
    /\ alerts' = [alerts EXCEPT ![a].status =
                     [c \in Channel |-> IF c \notin handler[h].tried THEN @[c]
                                        ELSE IF c \in Worked(h) THEN 1 ELSE -1]]
    /\ retry' = IF MustRetry(h) THEN [alert |-> a, channels |-> Failing(h)] ELSE retry
    /\ over' = IF handler[h].again THEN over \cup {a} ELSE over
    /\ Goes(h, Idle)
    /\ UNCHANGED <<selected, cooldown, muting, delivered, unanswered>>

\* D1 fails at the mute setting, when an email may be on its way, or at the
\* UPDATE.  The error is caught: there is no status, and no retry.
DispatchFails(h) ==
    LET a == handler[h].alert IN
    /\ "d1" \in Faults
    /\ At(h, "mute") \/ At(h, "clear") \/ At(h, "status")
    /\ over' = IF a = 0 THEN over ELSE over \cup {a}
    /\ \E mailed \in SUBSET (IF At(h, "status") THEN {} ELSE handler[h].posted \cap {"email"}) :
         delivered' = IF a = 0 THEN delivered
                      ELSE [delivered EXCEPT ![a] =
                              [c \in Channel |-> @[c] + IF c \in mailed THEN 1 ELSE 0]]
    /\ Goes(h, Idle)
    /\ UNCHANGED <<selected, alerts, cooldown, retry, muting, unanswered>>

\* alarm() finds pendingRetry, and deletes it first.
Retry ==
    /\ retry # NoRetry
    /\ At("alarm", "idle")
    /\ retry' = NoRetry
    /\ Goes("alarm", Dispatch(retry.alert, alerts[retry.alert].type, retry.channels, TRUE))
    /\ UNCHANGED <<selected, alerts, cooldown, muting, record>>

-----------------------------------------------------------------------------
(***************************************************************************)
(* Requests to the Worker that read or write the mute setting.             *)
(***************************************************************************)

\* POST /api/alerts/test, or /status of the bot, which sends nothing more.
WebReads ==
    /\ At("web", "idle")
    /\ Goes("web", [Dispatch(0, "high_latency", Channel, FALSE) EXCEPT !.at = "mute"])
    /\ UNCHANGED <<selected, alerts, cooldown, retry, muting, record>>

\* /mute.
Mute ==
    /\ mutes < MaxMutes
    /\ mutes' = mutes + 1
    /\ mute' = "on"
    /\ wanted' = TRUE
    /\ crossed' = \E h \in Handler : At(h, "clear")
    /\ UNCHANGED <<selected, dispatching, record>>

\* /unmute.
Unmute ==
    /\ mutes < MaxMutes
    /\ mutes' = mutes + 1
    /\ mute' = "none"
    /\ wanted' = FALSE
    /\ UNCHANGED <<selected, dispatching, crossed, record>>

MuteExpires ==
    /\ mute = "on"
    /\ mute' = "expired"
    /\ wanted' = FALSE
    /\ UNCHANGED <<selected, dispatching, mutes, crossed, record>>

\* The object is restarted, or it hibernates between two handlers.  The Worker's
\* requests go on, pendingRetry is stored.
Crash ==
    /\ "crash" \in Faults
    /\ over' = over \cup {handler[h].alert : h \in {g \in Handler \ {"web"} :
                              handler[g].at \in {"mute", "clear", "send", "status"}}}
    /\ handler' = [h \in Handler |-> IF h = "web" THEN handler[h] ELSE Idle]
    /\ cooldown' = {}
    /\ UNCHANGED <<selected, alerts, retry, muting, delivered, unanswered>>

HandlerNext(h) ==
    \/ \E type \in AlertType : Raise(h, type)
    \/ Insert(h)
    \/ InsertFails(h)
    \/ ReadMute(h)
    \/ ClearMute(h)
    \/ Send(h)
    \/ Settle(h)
    \/ DispatchFails(h)

Next ==
    \/ \E h \in Handler : HandlerNext(h)
    \/ \E type \in AlertType : CooldownEnds(type)
    \/ Retry
    \/ WebReads
    \/ Mute
    \/ Unmute
    \/ MuteExpires
    \/ Crash

Spec == Init /\ [][Next]_vars

-----------------------------------------------------------------------------
(***************************************************************************)
(* Properties.                                                             *)
(***************************************************************************)

\* A channel that has delivered an alert is not used for it again: the retry
\* takes the channels that failed, and only an answer that was lost makes it
\* send twice.
DeliveredOnce ==
    \A a \in Alert, c \in Channel :
        delivered[a][c] > 1 => (a \in unanswered /\ delivered[a][c] = 2)

\* The row of an alert tells what became of it: 1 is for a message that was
\* delivered, and a failed channel of a critical alert is retried once, now or
\* by the next alarm, unless D1 or the object failed on the way.
Retrying(a) == \E h \in Handler : handler[h].at \in {"mute", "clear", "send", "status"}
                                  /\ handler[h].alert = a /\ handler[h].again
StatusTruthful ==
    /\ TypeOK
    /\ \A a \in 1..Len(alerts), c \in Channel :
        /\ alerts[a].status[c] = 1 => delivered[a][c] > 0
        /\ (Critical(alerts[a].type) /\ alerts[a].status[c] = -1 /\ a \notin over) =>
             (retry.alert = a /\ c \in retry.channels) \/ Retrying(a)

\* A mute lasts until it runs out or is taken back, whatever readers clear an
\* older one: only a /mute between the two statements of such a reader is lost.
MuteKept == (wanted /\ ~crossed) => mute = "on"

=============================================================================
