---------------------------- MODULE ClientConfig ----------------------------
(***************************************************************************)
(* The configuration of one client and its copies: the row in D1, the      *)
(* memory of the Durable Object, config.toml and the daemon, and the forms *)
(* of the dashboard from which it is changed (EditClientDialog, the editor *)
(* of the control panel, the alerts page).  The alerts page changes all    *)
(* clients, and shows the values of the first in its list, which may be    *)
(* another one.  A value is the number of the edit that typed it, 0 the    *)
(* default.                                                                *)
(***************************************************************************)
EXTENDS Integers, Sequences

CONSTANTS
    Tabs,           \* open pages of the dashboard
    Changed,        \* the keys whose fields people change
    Kinds,          \* what can be typed into a number field
    MaxEdits        \* bound on edits

\* ping stands for the two intervals of the daemon's own timers.
Keys == {"ping", "threshold", "sound", "notify", "timezone"}

ASSUME ConstantsOK ==
    /\ Changed \subseteq Keys
    /\ "good" \in Kinds /\ Kinds \subseteq {"good", "zero", "empty"}
    /\ MaxEdits \in Nat

\* What the alerts page writes to every client.
Shared == {"sound", "notify"}

\* The keys a page submits: always all of them.
Fields(page) ==
    CASE page = "dialog" -> Keys
      [] page = "editor" -> {"ping", "threshold"}
      [] page = "alerts" -> Shared
Pages == {"dialog", "editor", "alerts"}

\* The keys update_config takes over, and those the daemon reads.
Allowed == Keys \ {"timezone"}
Pushed == {"ping", "threshold"}

Detected == MaxEdits + 1        \* the time zone of a request
Elsewhere == MaxEdits + 2       \* what another client has, and this one never had
Value == 0..Elsewhere
Config == [Keys -> Value]
Default == [k \in Keys |-> 0]

VARIABLES
    row,        \* clients.config_json
    object,     \* ClientMonitor.config
    loaded,     \* ClientMonitor.configLoaded
    handler,    \* fetch() for a connection, or alarm(): its next step, with
                \* the row it has read or is about to write
    channel,    \* config_update messages on their way to the daemon
    link,       \* the daemon is connected
    client,     \* the daemon's configuration, which config.toml equals
    form,       \* the page in each tab, with the values it was opened with
    put,        \* PUT /api/clients/:id of each edit
    typed,      \* what was typed in each edit
    wanted,     \* history: the last edit of each key
    undone,     \* history: the keys of which a write may have undone an edit
    strayed     \* history: the object may not have what the row has

copies == <<row, object, loaded, client>>
handlers == <<handler, channel, link>>
requests == <<form, put, typed>>
history == <<wanted, undone, strayed>>
vars == <<copies, handlers, requests, history>>

Edits == 1..Len(typed)
NoForm == [page |-> "none", config |-> <<>>]
Done == [at |-> "done", body |-> <<>>, config |-> Default]
Restricted(config, keys) == [k \in keys |-> config[k]]

TypeOK ==
    /\ row \in Config /\ object \in Config
    /\ client \in [Pushed -> Value]
    /\ loaded \in BOOLEAN /\ link \in BOOLEAN
    /\ handler \in {[at |-> s] : s \in {"none", "detect", "send"}}
                   \cup [at : {"load", "alarm", "write"}, config : Config]
    /\ channel \in Seq(Config)
    /\ \A t \in Tabs :
         \/ form[t] = NoForm
         \/ form[t].page \in Pages /\ form[t].config \in [Fields(form[t].page) -> Value]
    /\ \A n \in DOMAIN put :
         /\ put[n].at \in {"sent", "read", "written", "done"}
         /\ put[n].config \in Config
    /\ typed \in Seq(Kinds) /\ Len(typed) <= MaxEdits
    /\ wanted \in Config
    /\ undone \subseteq Allowed /\ strayed \in BOOLEAN

Init ==
    /\ row = Default /\ object = Default /\ loaded = FALSE
    /\ handler = [at |-> "none"]
    /\ channel = <<>>
    /\ link = FALSE
    /\ client = [k \in Pushed |-> 0]
    /\ form = [t \in Tabs |-> NoForm]
    /\ put = <<>>
    /\ typed = <<>>
    /\ wanted = Default
    /\ undone = {} /\ strayed = FALSE

Unsent(config) == channel                    \* mutant

\* What the object sends to the daemon, if it is connected.
Sent(config) == IF link THEN Append(channel, config) ELSE channel

-----------------------------------------------------------------------------
(***************************************************************************)
(* The dashboard.                                                          *)
(***************************************************************************)
\* The alerts page takes what it shows from the first client of the list: this
\* one, or one whose row is not followed and may have other values.
Shows(page) ==
    IF page = "alerts"
    THEN {first \in [Shared -> Value] : \A k \in Shared : first[k] \in {row[k], Elsewhere}}
    ELSE {Restricted(row, Fields(page))}

\* A page that is closed without being submitted is one that stays open.
Open(t, page) ==
    /\ form[t] = NoForm
    /\ Len(typed) < MaxEdits
    /\ \E shown \in Shows(page) : form' = [form EXCEPT ![t] = [page |-> page, config |-> shown]]
    /\ UNCHANGED <<copies, handlers, put, typed, history>>

\* The editor's key holds the values it shows: a poll that brings others makes
\* it start again.
EditorRemounts(t) ==
    /\ form[t].page = "editor"
    /\ form[t].config # Restricted(row, Fields("editor"))
    /\ form' = [form EXCEPT ![t].config = Restricted(row, Fields("editor"))]
    /\ UNCHANGED <<copies, handlers, put, typed, history>>

\* What can be typed.  The browser holds a form to its minimum, but lets an
\* empty field pass, which becomes null; the editor is no form.  ping stands
\* for all numbers.
Typeable(page, k) ==
    {"good"} \cup IF k # "ping" THEN {}
                  ELSE IF page = "editor" THEN {"zero", "empty"} ELSE {"empty"}

\* Two requests at the same time reach the row, or the object, in any order.
Racing == {n \in DOMAIN put : put[n].at \in {"sent", "read"}}
Overlap == \E n \in DOMAIN put : put[n].at # "done"

Request(request, k, what) ==
    /\ Len(typed) < MaxEdits
    /\ typed' = Append(typed, what)
    /\ put' = Append(put, request)
    /\ wanted' = [wanted EXCEPT ![k] = Len(typed) + 1]

\* What a page shows that was not asked for last: the page is outdated, or the
\* value is another client's.
Foreign(t) == {f \in DOMAIN form[t].config : form[t].config[f] # wanted[f]}

\* The user changes one field and submits the page.
Submit(t, k, what) ==
    /\ form[t] # NoForm
    /\ k \in Changed \cap Fields(form[t].page)
    /\ what \in Typeable(form[t].page, k)
    /\ LET body == [form[t].config EXCEPT ![k] = Len(typed) + 1]
           races == UNION {DOMAIN put[n].body : n \in Racing}
       IN  /\ Request([at |-> "sent", body |-> body, config |-> Default], k, what)
           /\ undone' = Allowed \cap (IF Racing = {}
                                      THEN (undone \ DOMAIN body) \cup (Foreign(t) \ {k})
                                      ELSE undone \cup DOMAIN body \cup races)
    /\ strayed' = (strayed \/ Overlap)
    /\ form' = [form EXCEPT ![t] = NoForm]
    /\ UNCHANGED <<copies, handlers>>

\* PUT /api/alerts: json_set in one statement, for every client; no object is
\* told.
DefaultThreshold ==
    /\ Request(Done, "threshold", "good")
    /\ row' = [row EXCEPT !["threshold"] = Len(typed) + 1]
    /\ undone' = IF Racing = {} THEN undone \ {"threshold"} ELSE undone \cup {"threshold"}
    /\ strayed' = TRUE
    /\ UNCHANGED <<object, loaded, client, handlers, form>>

(***************************************************************************)
(* PUT /api/clients/:id: the row is read, merged with the body, written,   *)
(* and after the answer sent to the object.                                *)
(***************************************************************************)
Spread(n, rest) ==                          \* { ...rest, ...body.config }
    [k \in Keys |-> IF k \in DOMAIN put[n].body THEN put[n].body[k] ELSE rest[k]]
BodyOnly(n) == Spread(n, Default)           \* mutant: no merge
Merged(n) == Spread(n, row)

Read(n) ==
    /\ put[n].at = "sent"
    /\ put' = [put EXCEPT ![n] = [at |-> "read", body |-> @.body, config |-> Merged(n)]]
    /\ UNCHANGED <<copies, handlers, form, typed, history>>

Write(n) ==
    /\ put[n].at = "read"
    /\ row' = put[n].config
    /\ put' = [put EXCEPT ![n].at = "written"]
    /\ UNCHANGED <<object, loaded, client, handlers, form, typed, history>>

\* update_config in the object.
UpdateConfig(n) ==
    /\ put[n].at = "written"
    /\ object' = [k \in Keys |-> IF k \in Allowed THEN put[n].config[k] ELSE object[k]]
    /\ channel' = Sent(object')
    /\ put' = [put EXCEPT ![n] = Done]
    /\ strayed' = (strayed \/ handler.at \in {"load", "alarm"})
    /\ UNCHANGED <<row, loaded, client, handler, link, form, typed, wanted, undone>>

UpdateConfigFails(n) ==
    /\ put[n].at = "written"
    /\ put' = [put EXCEPT ![n] = Done]
    /\ strayed' = TRUE
    /\ UNCHANGED <<copies, handlers, form, typed, wanted, undone>>

(***************************************************************************)
(* The object.                                                             *)
(***************************************************************************)

\* ensureConfigLoaded: what it has read when it waits for D1, and the answer.
\* One handler at a time is followed, beside the commands.
AlarmLoads ==
    /\ ~loaded
    /\ handler.at = "none"
    /\ handler' = [at |-> "alarm", config |-> row]
    /\ UNCHANGED <<copies, channel, link, requests, history>>

Loaded ==
    /\ handler.at \in {"load", "alarm"}
    /\ object' = handler.config
    /\ loaded' = TRUE
    /\ handler' = [at |-> IF handler.at = "load" THEN "detect" ELSE "none"]
    /\ UNCHANGED <<row, client, channel, link, requests, history>>

\* The daemon connects.  Its timers are made before it reads a message, and an
\* interval of zero ends it; the object goes on with the upgrade.
Works(config) == config["ping"] = 0 \/ typed[config["ping"]] # "zero"

Connect ==
    /\ ~link
    /\ handler.at = "none"
    /\ link' = Works(client)
    /\ handler' = IF loaded THEN [at |-> "detect"] ELSE [at |-> "load", config |-> row]
    /\ UNCHANGED <<copies, channel, requests, history>>

\* The time zone is taken from the request, if the object's copy has none.
Detect ==
    /\ handler.at = "detect"
    /\ \/ /\ object["timezone"] = 0
          /\ object' = [object EXCEPT !["timezone"] = Detected]
          /\ handler' = [at |-> "write", config |-> object']
       \/ /\ handler' = [at |-> "send"]
          /\ UNCHANGED object
    /\ UNCHANGED <<row, loaded, client, channel, link, requests, history>>

WriteBack ==
    /\ handler.at = "write"
    /\ row' = handler.config
    /\ handler' = [at |-> "send"]
    /\ LET lost == {k \in Keys : row'[k] # row[k]}
       IN  /\ undone' = undone \cup (Allowed \cap lost)
           /\ strayed' = (strayed \/ \E k \in lost : row[k] \in Edits)
    /\ UNCHANGED <<object, loaded, client, channel, link, requests, wanted>>

NotGreeted == channel                       \* mutant
Greeted == Sent(object)

Greet ==
    /\ handler.at = "send"
    /\ channel' = Greeted
    /\ handler' = [at |-> "none"]
    /\ UNCHANGED <<copies, link, requests, history>>

Hibernate ==
    /\ loaded
    /\ handler.at = "none"
    /\ object' = Default
    /\ loaded' = FALSE
    /\ UNCHANGED <<row, client, handlers, requests, history>>

(***************************************************************************)
(* The daemon.                                                             *)
(***************************************************************************)

\* A message with a null where the daemon wants a number is no message.
Readable(config) == \A k \in Pushed : config[k] \in Edits => typed[config[k]] # "empty"

\* config_update: saved, then the timers are made anew.
Apply ==
    /\ channel # <<>>
    /\ IF Readable(Head(channel))
       THEN /\ client' = [k \in Pushed |-> Head(channel)[k]]
            /\ link' = Works(client')
            /\ channel' = IF link' THEN Tail(channel) ELSE <<>>
       ELSE /\ channel' = Tail(channel)
            /\ UNCHANGED <<client, link>>
    /\ UNCHANGED <<row, object, loaded, handler, requests, history>>

Disconnect ==
    /\ link
    /\ link' = FALSE
    /\ channel' = <<>>
    /\ UNCHANGED <<copies, handler, requests, history>>

-----------------------------------------------------------------------------
Next ==
    \/ \E t \in Tabs :
         \/ \E page \in Pages : Open(t, page)
         \/ EditorRemounts(t)
         \/ \E k \in Keys, what \in Kinds : Submit(t, k, what)
    \/ DefaultThreshold
    \/ \E n \in DOMAIN put : Read(n) \/ Write(n) \/ UpdateConfig(n) \/ UpdateConfigFails(n)
    \/ AlarmLoads
    \/ Loaded
    \/ Connect
    \/ Detect
    \/ WriteBack
    \/ Greet
    \/ Hibernate
    \/ Apply
    \/ Disconnect

Spec == Init /\ [][Next]_vars

\* Requests and handlers that have begun go on, and messages arrive or the
\* connection ends.
FairSpec ==
    /\ Spec
    /\ WF_vars(\E n \in DOMAIN put :
                  Read(n) \/ Write(n) \/ UpdateConfig(n) \/ UpdateConfigFails(n))
    /\ WF_vars(Loaded \/ Detect \/ WriteBack \/ Greet)
    /\ WF_vars(Apply)

-----------------------------------------------------------------------------
Idle == \A n \in DOMAIN put : put[n].at = "done"
Quiet == Idle /\ handler.at = "none"

\* A change of a key stays in the row until the key is changed again.  What may
\* undo it: a request that overlaps with one that carries the key, a page that
\* carries it and is older than the change or shows another client's value, and
\* the object writing back its copy for the time zone; and what one of them has
\* undone, the next undisturbed change of the key sets right.
ChangesSurvive ==
    Racing = {} => \A k \in Allowed \ undone : row[k] = wanted[k]

\* The object works with the row, and the daemon with what the object has of it,
\* if it can read it: the object tells it of changes made while it was not
\* connected.  Only what is marked by `strayed' separates them.
CopiesFollow ==
    /\ TypeOK
    /\ (Quiet /\ loaded /\ ~strayed) =>
         /\ \A k \in Keys \ {"timezone"} : object[k] = row[k]
         /\ (link /\ channel = <<>> /\ Readable(object)) =>
              \A k \in Pushed : client[k] = object[k]

\* A change is carried to the daemon: it has the values last wanted, is not
\* connected, cannot read them, or the change was lost.
ChangesArrive ==
    (\E n \in DOMAIN put : put[n].at = "sent") ~>
        \/ \A k \in Pushed : client[k] = wanted[k]
        \/ ~link
        \/ ~Readable(wanted)
        \/ Pushed \cap undone # {} \/ strayed

=============================================================================
