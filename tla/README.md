# PingPulse, specified

PingPulse watches the internet connection of remote machines.  A Rust daemon on
each machine (`client/`) keeps a WebSocket open to a Cloudflare Worker
(`worker/`), answers its pings, probes a few targets of its own and logs when it
was cut off.  The Worker has one Durable Object per client, a D1 (SQLite)
database, an R2 bucket for archives, and a React dashboard.

This directory holds TLA+ specifications of PingPulse, TLC configurations that
check them on small instances, and TLAPS proofs of the most important results
for all values of the constants.  `PROJECT.json` indexes it: for each definition
the lines of code it stands for, for each hazard the properties about it, for
each property a change to the code's logic that breaks it.

Paths below are relative to `src/`; `client-monitor.ts` stands for
`worker/src/durable-objects/client-monitor.ts`, and a file with the ending `.tsx`
is below `worker/dashboard/src/`.

Contents: 1 the system, 2 the modules, 3 the runs, 4 the proofs, 5 where the code
differs from what is said or meant, 6 what is not modelled, 7 the plan.


## 1. The system

### 1.1 Components

**Connection monitor** (`client-monitor.ts`, one Durable Object per client).
*State*: instance fields (start of the current disconnection, identifier of the
outage being recorded, times of the last alerts, whether the configuration is
loaded, paused), durable storage (copies of the first two, last client activity,
an admin's block, a pending retry), one alarm, the accepted sockets; rows of
`outages` and `alerts` in D1.
*Operations*: accept a connection (`fetch`, `handleReconnect`), message, close
or error of a socket (`handleSessionDrop`), `alarm()`, the admin commands, and
what the platform does: hibernate, restart, deliver an alarm again.
*Hard*: a handler gives way at every D1 query and every notification, so that
closes, messages, reconnections and the alarm interleave with it; fields
vanish at hibernation; one alarm serves pings, the grace period and retries.
*Correct when*: a client that is gone is noticed, its grace period runs from the
moment it went and ends in one outage and one alert; a reconnection closes it;
alerts are not repeated within the cooldown; a failed one is tried once more.

**Probe pipeline** (`client/src/store.rs`, `sync.rs`, `websocket.rs`,
`worker/src/api/sync.ts`).
*State*: the local SQLite file (rows, whether each is synced, the
AUTOINCREMENT counter, the session identifier), a channel of 256 records, the
requests and messages under way, `client_probe_results` in D1.
*Operations*: probe, forward live, drain after a reconnection (a spawned task)
and every few minutes (awaited in the main loop), mark as synced, clean up,
insert on the server.
*Hard*: two drains overlap with each other, with the stream and the cleanup;
requests and answers are lost; the daemon, or the machine's power, goes at any
moment; the database may be created anew.
*Correct when*: the client is the source of truth: no probe is lost before the
server has it, and the server has each once.

**Connection log and reported outages** (`client/src/websocket.rs` run loop,
`store.rs`, `sync.rs`, `worker/src/api/connectivity.ts`).
*State*: backoff, the log of losses and connections and which entries are
synced, the request being handled, `outages`, `alerts`.
*Hard*: the handler's checks and insertions are separate statements of
concurrent requests and may fail between any two; the log is cut into batches,
posted again, and incomplete after a kill; the connection monitor writes the
same tables from what it saw itself.
*Correct when*: an outage that is reported was one, and each long one in a batch
is reported, once.

**Archive and retention** (`worker/src/services/archiver.ts`,
`worker/src/index.ts`). *State*: rows in D1, objects in R2. *Operations*: a cron
every six hours copies pings and speed tests older than 30 days to R2 and
deletes them in batches; beside it a transaction prunes what each client's
configuration calls old. *Hard*: it fails or is ended between any two
statements; four runs of a day share an object. *Correct when*: a row is only deleted
when it is archived, and stays archived; a run that is not cut short leaves none behind.

**Ping statistics and threshold alerts** (`client-monitor.ts`).
*State*: pings in flight, a buffer of results, a ring of the last ones, the
times of the last alerts and of the last trace they ordered, a mark that the
next trace is an alert's; all in memory. *Operations*: send a ping, take a pong
or note a timeout, flush the buffer to D1, check the thresholds, order a trace
and take its result. *Hard*: each handler awaits D1 and the dispatch of an alert
while others go on with the same buffer and ring; the memory goes with
hibernation. *Correct when*: a ping is one result and one row; the loss is that
of the last results; a trace is called an alert's no more often than one was
ordered.

**Alert dispatch and notifications** (`client-monitor.ts` `triggerAlert`,
`worker/src/services/alert-dispatch.ts`, `notify.ts`, `bot-settings.ts`,
`worker/src/api/telegram.ts`, `alerts.ts`).
*State*: `alerts` with a delivery status for each channel, the cooldowns, the
pending retry, `muted_until`. *Operations*: raise an alert, choose the channels,
read the mute (which clears it when it has run out), send, note the outcome,
retry; `/mute`, `/unmute`, a test alert, `/status`. *Hard*: each of these is an
await; messages fail, and answers to delivered ones are lost; one channel of two
fails. *Correct when*: a channel delivers an alert once; the row tells what
became of it; a failed channel of a critical alert is retried; a mute lasts.

**Registration and client lifecycle**, with **self-update and service
management** (`worker/src/api/auth.ts`, `clients.ts`, `utils/client-db.ts`,
`middleware/client-auth.ts`, `client/src/main.rs`, `websocket.rs`, `service.rs`,
`agent.rs`).
*State*: tokens, the client's row; on the machine the configuration, the binary,
the service unit and the daemon with its count of refusals. *Operations*:
generate a token, register (look up, then use), delete a client (tell the
object, then delete the rows), upgrade a connection; `register`, `start`,
`stop`, `uninstall`, the management API, an update; the daemon that removes
itself when it is told, or is answered that it is gone, or is refused three
times in a row. *Hard*: the deletion races with connections, a registration with
another and with a daemon that was not stopped in time; answers are lost,
processes crash and are started again by the service manager. *Correct when*: a
token makes one client; a machine's data are erased for cause only; a deleted
client leaves its machine; the identity registered last is kept.

**Client configuration** (`worker/src/api/clients.ts`, `client-monitor.ts`,
`client/src/websocket.rs`, `EditClientDialog.tsx`, `ControlPanel.tsx`,
`Alerts.tsx`). *State*: a JSON column in D1, the object's copy, the daemon's
copy and file, the forms that are open. *Operations*: open and submit a form,
read, merge and write the row, send the command after the response, load the
row in the object, detect and write back the time zone, send the configuration
to the daemon and apply it there. *Hard*: read and write are two statements of
concurrent requests; a form may be older than the row; the object hibernates;
fields may be emptied or set to zero. *Correct when*: a change stays until the
key is changed again, and reaches the object and the daemon.

**Rate limit** (`middleware/rate-limit.ts`), **queries, analysis and reports**
(`metrics.ts`, `FullAnalysisReport.tsx`, `worker/src/index.ts`): a fixed window
for each address; percentiles, loss, error bursts, findings; the schedule of the
health reports. *Hard*: boundaries. *Correct when*: each figure is what its name
says, and the parts of the program that work out the same one agree.

**Dashboard, router and sessions** (`hooks.ts`, `useAuth`, `ClientDetail.tsx`,
`worker/src/middleware/auth-guard.ts`, `worker/src/api/auth.ts`). *State*: who is
signed in, the selected range and what is shown of it, a speed test with its
interval, the answers on their way. *Hard*: answers come late, in another order,
or not at all; the page is left while one is on its way; the session ends.
*Correct when*: what is shown becomes what was asked for; the button of the speed
test comes back; an ended session leads to the login form.

**Path traces and speed tests**, **Telegram bot**: the parts of them that keep
state are in the components above. **Probes** (`client/src/probe.rs`) and
**client log files** are pure I/O.

### 1.2 How they interact

    daemon: probe task --channel--> main loop <--WebSocket--> ClientMonitor --> outages, alerts
              |                      |   |                       | alarm          (D1)
              v                      |   +-- POST /sync -----------------> client_probe_results
            store.db <--- drains ----+------ POST /connectivity ---------> outages, alerts
                                                       cron ---> archiver ---> R2, D1
    dashboard --> Worker --> D1 and, by command, ClientMonitor --> messages to the daemon
    ClientMonitor, Worker --> alert-dispatch --> email, Telegram

* The daemon's disconnection shows on the server as the close of a socket (or as
  silence); on the client as an entry of the log. The two reports of one outage
  meet in `outages`, where `connectivity.ts` looks for one that starts within 30 s
  of the other.
* A probe takes two ways to the server, live and in a batch; the unique index on
  client, session and sequence number makes them one.
* Admin requests reach the object by `handleCommand`, beside its other events.
* The archiver deletes rows of tables that the other parts write; deleting a
  client deletes all its rows.
* `triggerAlert` is where the object's parts meet: the monitor's `client_down` and
  the measurements' thresholds share the cooldowns, the dispatch and the retry.
* A deletion and a change of the configuration both go to D1 and to the object,
  in two steps, and from there to the daemon if it is connected.


## 2. The modules

| module | models | constants that are bounds |
|---|---|---|
| `ClientMonitor` | the connection monitor | `Sessions`, `MaxTime`, `MaxCommands`, `MaxFaults` |
| `MCClientMonitor` | symmetry of the sockets, for TLC | |
| `ProbeLog` | what the probe pipeline promises | |
| `ProbeSync` | the probe pipeline, refining `ProbeLog` | `Drains`, `MaxProbes`, `MaxSessions` |
| `Connectivity` | the daemon's run loop, its log, the report of outages, and the monitor as far as it writes the same tables | `MaxConnections`, `MaxTime`, `MaxKills` |
| `Retention` | the cron's two jobs | `MaxTime`, `MaxRows` |
| `MCRetention` | a value for a function-valued constant | |
| `Lifecycle` | a client from its registration to its removal, on the server and on the machine | `MaxClients`, `MaxOps`, `MaxFaults` |
| `ClientConfig` | the configuration and its copies | `MaxEdits` |
| `Notifications` | from an alert to its messages | `MaxAlerts`, `MaxMutes` |
| `Measurements` | pings, buffer, ring, thresholds, traces | `MaxPings`, `MaxAlerts`, `MaxTraces` |
| `Reports` | the calculations that keep no state | `MaxInput` |
| `Dashboard` | the browser and its session; EXTENDS `Reports` | `Older`, `MaxTests`, `InFlight`, `MaxPosts`, `Timers` |
| `X_proofs` | theorems about `X`, for `ClientMonitor`, `ProbeSync`, `Connectivity`, `Lifecycle`, `Notifications`, `Measurements`, `ClientConfig` | |
| `Worker_proofs` | theorems about `Retention`, `Reports` and `Dashboard` | |

The other constants are parameters of the program (a batch size, a grace period),
or say what may happen (`Faults`, `Commands`). Definitions marked `\* mutant` are
variants with a plausible mistake; nothing but the mutants of `PROJECT.json` uses
them.

The one Durable Object is in four modules, by what shares state: sockets, alarm and
outages (`ClientMonitor`); pings and traces (`Measurements`); the dispatch of alerts
(`Notifications`); the configuration (`ClientConfig`); and a command of it in
`Lifecycle`. They share little more than `connected`, the cooldowns and the fact
that handlers interleave and memory goes, which each of them has. Where one needs
another it has the other's interface: `Measurements` raises alerts and awaits their
dispatch, without what the dispatch does; `Notifications` raises them at any time.

### 2.1 ClientMonitor

A Durable Object runs one handler at a time, until the handler awaits something
outside the object: then other events are delivered. It delivers none while the
object awaits its own storage. So an action is the code from one outside await
to the next, and what a handler has bound to the statement it awaits is kept in
a variable of its own:

| state | code |
|---|---|
| `mem` | `disconnectedAt`, `currentOutageId`, `lastAlertTimes`, `alarmEnsured`, `configLoaded`, `paused` |
| `stored` | the keys of `state.storage` with these names, `lastClientActivity`, `adminDisconnectUntil`, `pendingRetry` |
| `alarm` | `storage.getAlarm()` / `setAlarm()` |
| `pc`, `arg` | where the `fetch` of each socket stands, what it will write |
| `alarmPc`, `job` | the same for `alarm()` |
| `dropAt` | `handleSessionDrop` waiting for the configuration from D1 |
| `closing` | sockets on which `close()` was called; they stay listed until their close event |

A connection is `ConnectAccept` (secret, block, restoring the disconnection),
then `ConnectCloseOutage` or `ConnectBrief`, `ConnectUpAlert`, `ConnectSettle`.
The alarm is `AlarmFire`, then, as the branches go, `AlarmLoaded`, `AlarmRetry`,
`AlarmAlert`, `AlarmDispatch`, `AlarmOutage`, `AlarmPing`; the pure parts of
`alarm()` are the operators `AlarmStart`, `AlarmBody`, `GraceEarly`, `GraceOver`
and `NormalPing`. `Drop` and `DropArm` are `handleSessionDrop`; `Pause`,
`Resume`, `Disconnect` are `handleCommand`. `Hibernate`, `Crash`, `AlarmFails`,
`ConnectFails`, `DropFails` and `LoseClient` are the environment: an alarm whose
handler throws is delivered again (documented behaviour of Durable Objects),
a hibernated object keeps sockets, alarm and storage, a crash keeps only the
last two.

Abstracted: the contents of pings and the loss percentage; the several
channels of a client, of which one is modelled whose outcome is delivered, not
delivered, or an error that is logged; the texts of alerts. `forgotten` is a
history variable: the last identifier handed out when the fields were last
lost.

**Timely.** `Tick` may be held back until what is listed in the constant
`Timely` is over: the delivery of a due alarm (`alarm`), the close of a socket
of a client that can be reached (`close`), any handler (`handlers`), or only the
read of the configuration in `handleSessionDrop` (`configRead`). Interleavings
remain: only the clock waits. Each run says what it assumes, and section 5.1
says what is seen without it.

### 2.2 ProbeLog and ProbeSync

`ProbeLog` says what is promised: rows with keys of their own are written, and
the server stores written rows, each once and for good. `ProbeSync` is the
pipeline. A probe is inserted and sent to the channel in one action (the insert
is committed before `tx.send`; a crash between the two loses the copy in the
channel, which a crash loses anyway). A call of `sync_all` goes through
`Fetch`, `ServerSync` or `ServerRefuses`, then `Acked` or `SyncFails`; a request
whose sender is gone may be handled still. `via` stands for `received_at`: it
makes a second insertion of one row visible. `Flush` and `PowerLoss` model WAL
with `synchronous = NORMAL`, where a commit is on disk only some time later.
The refinement maps the server's rows to those of `ProbeLog`, forgetting `via`;
`written` is a history variable.

### 2.3 Connectivity

The daemon waits, is online, or is down; every failed attempt is logged as a
disconnection, as the code does. The handler of a batch is split at its D1
statements (`Check`, `Insert`, `AlertCheck`, `AlertInsert`). `Pairs` states the
loop with `pendingDisconnect` as a set: each disconnection with a connection
that follows it directly in the batch. Timestamps of the log rise with its
ids, as the client's clock is not set back in the model. The monitor is
reduced to what it writes into the two tables; it may notice a loss at any
time after the client has (`MonitorNotices`), or never. `onlineAt` and `crossed` are
history variables; `crossed` has a pair of starts when the handler of one batch
writes an outage between another's check for one near it and its INSERT. The service manager restarts a killed daemon after a tick
(`RestartSec=5`), so that a lost connection and the next have different times.

### 2.4 Retention

A unit of time is one run of the cron (`NextRun` goes on to the next), which starts
`archiveOldRecords` and `applyPerClientRetention` in parallel. The first is split at
each D1 statement and at the put to R2: `List`, `Read`, `Put`, `Delete`, with `RunFails`
for any of them and `Abort` for the end of the invocation. The objects of R2 are a
function of client and day, as their names are (`RunsPerDay` runs have the same day),
with the rows and the time of the last put. `moved` is a history variable: what either
job deleted (`LeaveD1`) of the archived tables, and when. The second job is one
transaction. Its cutoff is a number: compared with the TEXT timestamps of pings it is a
text that precedes every date, so it prunes probe results only; the model has what
SQLite does, not what was meant. The speed tests' and pings' own 30 days are `Keep`.

### 2.5 Lifecycle

One daemon and at most one registration for each machine; a client's secret
stands for its id. `POST /register` is split between the look-up of the token
(`LookUp`) and its use with the insertion of the row (`Commit`), `DELETE` between
the message to the object (`Notify`) and the rows (`Cascade`).

| state | code |
|---|---|
| `token`, `rows`, `deletion` | `registration_tokens`, the ids in `clients`, how far a `DELETE` is |
| `register` | `pingpulse register` and its request |
| `config`, `binary`, `unit` | `config.toml`, `bin/pingpulse`, the plist or unit file |
| `daemon` | the process: its id, `consecutive_auth_failures`, its connection |
| `agent` | what the process does besides: an update, a restart, an uninstallation; or that it will be killed |

An upgrade is `Validate` (the secret is right) and `Accept`; between them the
deletion may come, and the socket is then `late`. The daemon's answer to what it
meets is `Gone` (410), `Refused` (401, 403), `AttemptFails` (anything else),
`Deregistered`. The two service managers differ, and `Launchd` says which machine has
which: `launchctl remove` does not wait for a daemon in its backoff, which swallows
SIGTERM there and lives on until it is killed; `systemctl stop` waits.
`ids`, `overlapped`, `asked`, `erased`, `streak` and `latest` are history variables;
`streak` counts refusals as a reader of the log would, so that it can be compared
with the program's own counter.

### 2.6 ClientConfig

A value is the number of the edit that typed it, so that it is known whose value
a copy holds. There are five keys, for what the code treats differently: one the
daemon's timers use (a zero makes them panic), one it reads but does not run on,
two that the alerts page shows and saves together, and the time zone. That page
shows what the first client in its list has, and saves it to every client; the
model follows one client, so the page may show its row or, for each of the two keys, a
value this client never had (`Shows`, `Elsewhere`). `Read`, `Write` and `UpdateConfig` are the
three steps of `PUT /api/clients/:id`; `handler` is the one handler of the object that
loads, detects the time zone and writes back (`Loaded`, `Detect`, `WriteBack`) or greets
the daemon (`Greet`). Empty number fields become `null` in JSON, which the
daemon cannot read (`Readable`). History: `wanted`, the last edit of each key; `undone`
and `strayed` mark the cases in which the code does lose a change, each where it
happens. `undone` is the set of keys that two requests at a time carried, that a page
submitted with an older value than the last or with another client's (`Foreign`), or that the
write-back of the object's copy changed; a key leaves it with its next change that none
of these disturbs. `strayed` has an `update_config` that fails, that comes while a handler
loads an older row, or that is never sent, and again two requests or a write-back at
the same time. Section 5.3 lists them.

### 2.7 Notifications

A handler is at one of the awaits of `triggerAlert` and `dispatchAlert`: `insert`,
`mute`, `clear`, `send`, `status`. `web` is a request of the Worker that reads the mute
setting beside the object's handlers. The outcome of a message is what the other
side got (`Reached`) and what the sender hears (`Answered`), which may be less. The types
of alerts are three: one whose switch may be off, one that is not critical, one
that is. `over` holds the alerts whose retry the code gives up: the row or the
mute could not be read, the outcome not written, the object restarted.

### 2.8 Measurements

A ping is its number; its result is in flight (`inFlight`), in `buffer`, in the batch a
handler has cut off and awaits (`handler[h].batch`), or in D1 (`rows`). `Check`
is what a handler does between one await and the next: the thresholds, one alert
after another, and the flush. `Record` is `recordLoss` for some results of one status,
as a recursive function. `AlarmPing`, `AlarmSimulates`, `AlarmFindsDead` and `AlarmDown`
are the branches of `alarm()` in which pings are sent, counted as lost, or nothing
is measured. Times are flags: a ping is `overdue` or not, the ten minutes between
traces are over or not (`traceSpan`), the mark for the next trace is valid or not (`tag`).
`excused` are the pings lost with the memory or with a batch D1 refused; `last` is the
list of results the ring should hold.

### 2.9 Reports

Each calculation is an operator translated from its code, and each has a property
that says what it is for in other terms: the percentile by the share of pings
below it, the bursts as the longest runs of errors without a long pause, the limiter by
the number of requests in any stretch of time. A behaviour asks for one of them
with some input (`AskAnything`) and goes back; so TLC goes through all the inputs up
to the bounds. The loops of the code are recursive functions of a place in the input:
`Entries` has the counter that each request leaves, `BurstsSoFar` the burst that each
error belongs to so far, as the loop of `detectErrorBursts` has it in `current`.
`Sorted` says what `Array.sort` returns, a rearrangement in order, and not how it gets
there.

### 2.10 Dashboard

The browser as a state machine: `path`, `authed` and `me` are the router and `useAuth`;
`range` and `requests` the polled metrics (`usePolling`), `page` the speed test with its
intervals, `analysis` the other tab. A request carries what the server answers when it
handles it; answers are applied in any order, as the hooks do. `Poll` is the
interval of `usePolling`, `Tick(id)` an interval of a speed test. The metrics and the
analysis of a visit are followed one at a time (`watch`), since they share only
the range. `overtaken` marks that the page saw its result before the `POST` was
answered; a test can then be started while that `POST` is still on its way, so `page.post`
counts them. The attempts of an interval are counted up to the last (`Counted`), since the
code asks only whether that was reached: an interval nobody stops goes on for ever.


## 3. The runs

`tlc -config X.cfg M` for each line. All pass but `MonitorLongGrace`, which finds what
5.1 describes. No run checks for deadlock, because
every model may come to rest: at its bounds (the clock, the number of probes,
alerts or edits), or because nobody wants anything.

| run | shows | states |
|---|---|---|
| `MonitorCrash` | The object hibernates, crashes or is refused by D1 at any await, notifications fail, alarms are delivered again, an admin pauses and resumes: alerts of one type are a cooldown apart (`AlertsSpaced`), no `client_down` is sent more than twice and no `client_up` more than once (`RetriedOnce`), and a disconnection keeps its start (`GraceTimerKept`) | 1.8 million |
| `MonitorGone` | Prompt alarms, closes and handlers; hibernation, a disconnect command, a machine that vanishes without a close. A client whose last socket is gone is marked as such (`LossNoticed`), and one that stays away has its outage (`LossRecorded`, and `GoneIsRecorded` under `FairSpec`); a connected client's chain of ping alarms goes on (`PingChain`); an admin's disconnection keeps the client out until its outage is recorded (`AdminDisconnectShown`) | 1.1 million |
| `MonitorLongGrace` | `LossRecorded` with a grace period longer than the ping interval, and no fault at all: violated | |
| `ProbeDelivery` | Two drains, stream, cleanup, lost and refused requests, crashes, new databases: no probe is lost (`NothingLost`), and the pipeline implements `ProbeLog` (`ImplementsLog`) | 81 000 |
| `ProbeLiveness` | With crashes and power failures: no key is stored twice (`StoredOnce`), and every probe reaches the server (`EventuallyStored`, under `FairSpec`) | 227 000 |
| `ConnReports` | Failed attempts, lost answers, failing D1, the monitor's own detection, a killed daemon: a reported outage covers no time online (`OnlyOffline`), an acknowledged batch has all its outages (`AckedReported`), none is reported twice but by handlers that cross between check and INSERT (`ReportedOnce`); drains and handlers overlap and take any time | 5.0 million |
| `RetentionRuns` | Failures of D1 and R2, aborts, deleted clients, pruning beside: rows leave D1 only for R2, which the design states as "D1 rows deleted after confirmed R2 write" (`docs/superpowers/specs/2026-03-17-pingpulse-design.md:171`), and stay there but for a later run of the day (`ArchiveKept`); a complete run leaves none behind (`Swept`) | 203 000 |
| `Lifecycle` | Registrations that overlap or whose answer is lost, deletions racing connections, refusals, crashes, service commands, the local API, an update: data are erased for cause only (`ErasedForCause`), a token makes one client unless its requests overlap (`TokenOnce`), a connection whose client is deleted is told, or came too late to be (`NoSilentZombie`), under systemd the latest identity is kept (`IdentityKept`), a deleted client leaves the machine (`DeletedForgotten`, under `FairSpec`) | 313 000 |
| `ClientConfig` | The last change of a key is in the row, but for the keys that are marked as undone and until they are changed again (`ChangesSurvive`); object and daemon follow (`CopiesFollow`), each change arrives (`ChangesArrive`, under `FairSpec`), but in the marked cases | 1.9 million |
| `Notifications` | A pong's handler, the alarm and a reader in the Worker; failing D1, lost messages and answers, restarts: an alert is delivered once by a channel (`DeliveredOnce`), its row is true and its failed channel in the retry (`StatusTruthful`), a mute lasts (`MuteKept`) | 2.8 million |
| `Measurements` | A message handler and the alarm interleave, pongs come late, D1 fails, memory goes: a ping has one result (`MeasuredOnce`), the ring holds the last ones (`RingIsRecent`), tags are no more than alerts ordered (`TagBudget`) | 3.9 million |
| `Dashboard` | Answers overtake each other and are lost, a session ends: intervals are bounded (`PollBounded`), the analysis fits the range (`ReportFits`), "Running..." ends (`RunningEnds`), the metrics become those of the range (`ViewFollows`), an ended session asks for a login (`EndedAsksLogin`), the last three under `FairSpec`. Before that, over all inputs to their bounds, the limiter (`LimiterBound`) and the other calculations (`CalculationsRight`) | 95 000 |

`ErasedForCause`, `CopiesFollow`, `StatusTruthful`, `RingIsRecent`, `OnlyOffline` and
`PollBounded` have the type invariant of their module as their first conjunct.

### 3.1 Bounds

*ClientMonitor.* Two sockets are enough for the cases of the code, which
asks whether another is left: a client that comes back while its old socket is
open, a close that comes late, a loss, a return and a second loss.
`MonitorCrash` has one fault and one command beside hibernation and failing notifications: a
second crash only repeats the first, as a crash erases all that is not stored.
Its clock of 2 reaches the end of a grace period of 1 and the retry after it, and
its cooldown of 2 is longer than that retry is away, so that the retry's fall through
is one that must not alert again.
`MonitorGone` needs a clock of 8 for the dead connection (more than two
intervals), the interval of the alarm that sees it, and the grace period after
that; `GoneIsRecorded` speaks of clients lost when that much time is left, so
that the clock's end is not what refutes it. `AdminSlack` stands for the 30 s
by which the block exceeds the grace period.

*ProbeSync.* Two probes in batches of two give full and partial batches; with a
channel of one the second probe stalls. One background drain beside the periodic
one gives two that overlap; two sessions give one database created anew, which
`ProbeDelivery` has and `ProbeLiveness`, for the sake of its graph, has not.

*Connectivity.* Three connections and a batch of three: one loss and return cut
off by a failed attempt, by a kill or by the batch; the window of 1 and the
grace period of 2 make outages that are blips, that are long, and that are
within the window of another. The default grace period is the window (30 s each);
the run has it longer, and the theorems of section 4 have any.

*Retention.* Two clients, three rows, batches of one: a run that is cut short
between any two statements of a client or between two clients; the clock of 3
reaches a second day, as there are two runs a day, and the rows of a first run
may be finished by the next.

*Lifecycle.* Two machines, one with each service manager, two tokens and two clients:
a machine registered again, two that share a token, a deletion of one of
them. Two refusals make the daemon remove itself (three in the code), so that a
counter that is not reset shows after one; three operations of people are
enough to register, delete and register again, and two faults for a lost answer
and a crash.

*ClientConfig.* Two edits are what it takes for one to undo another; a third edit
repeats the second. People change the daemon's interval and the two keys of the alerts page
(`Changed`), which gives two edits of one page, of different pages that share a key, and
of pages that share none; `DefaultThreshold` changes the fourth key, and the object the fifth.
One tab is enough, since its form stays as old as it is while the requests of the first edit are under way.

*Notifications.* One message handler beside the alarm and the Worker's reader gives
three concurrent handlers, and one more of the same kind only permutes. Two alerts
and two mutings: an alert overtaken by the next, a mute by the next. The down
alert goes to Telegram and is escalated to email, which gives two channels, of
which either may fail.

*Measurements.* A ring of two places with three pings turns over; a loss of one in two
exceeds the limit of 40, none does not. Two traces, one of them manual, race for one tag.

*Dashboard.* Two requests in flight overtake each other; two attempts of a speed
test and two intervals give one that is left behind, as do two `POST`s on their way (one
overtaken by its result, one of the next test); the inputs of the calculations
go up to length four (five arrivals), with times up to twice the window or gap.

### 3.2 What each run assumes

`MonitorCrash`: the read of the configuration in `handleSessionDrop` ends before the
clock moves on (otherwise the grace alarm is set for a time measured from before
the read, which shortens nothing, but may lie in the past at once). `MonitorGone`
and `MonitorLongGrace`: alarms, closes and handlers take less than a tick; the first
also has a grace period no longer than the interval, and no failing
notification or D1, since `LossRecorded` is false without each of these (5.1).
`ConnReports`: an attempt to connect that is due takes less than a tick; drains and
handlers may take any time, and be given up and posted again meanwhile. The other
runs assume nothing about time.

### 3.3 Fairness

*ClientMonitor*: time passes; the platform delivers a due alarm; a
handler that was started ends. That is what Durable Objects promise; nothing is
assumed of the client, the network or the admin.

*ProbeSync*: the client reconnects (its loop has no exit but deregistration, which
is `Lifecycle`'s), its timers and tasks run (weak fairness), and of the requests a
caller sends again and again some are served and answered (strong fairness): the
network is not cut for good. A drain whose request is lost ends, so strong
fairness is needed; weak fairness would assume that no request is ever lost.
Crashes, power failures and new databases stop in the end, as a daemon that
crashes for ever syncs nothing; what they left behind must still be repaired.

*Lifecycle*: the daemon's loop goes on trying (`run` has no pause but its backoff), the
object answers an attempt, a message it has sent arrives, timers of the
agent and the service manager run. Nothing is assumed of people.

*ClientConfig*: a request that was begun goes on (to a failure, too), the object's handler
ends, a message that was sent arrives while the connection lasts.

*Dashboard*: the intervals of the browser tick and requests end, with an answer or
without; of the polls of the selected range, sent again and again, some are
answered (strong fairness). Nothing is assumed of the user.


## 4. The proofs

For every value of the constants that satisfies the module's assumptions (`ConstantsOK`,
for `Reports` and `Dashboard` `LimiterOK`, `BurstOK`, `InputsOK` and `DashboardOK`),
checked by TLAPS.
Each module first proves type correctness, then an inductive invariant, each
action in a step of its own.

**ClientMonitor_proofs**
* `TypeCorrect`: `Spec => []TypeOK`. The inductive invariant adds `RowsBound`: the
  rows of `outages` and `alerts`, and every identifier a handler or a field holds,
  were handed out (`<= lastId`).
* `GraceTimerIsKept`: `GraceTimerKept`. The invariant is `Agreement`: when both
  memory and storage have a start of the disconnection, it is the same. Holds
  under every fault and without any `Timely`.
* `LossIsNoticed`: `LossNoticed`, if `crash` and `d1` are not in `Faults`. The
  invariant `LossInv` adds that the mark in memory is also in storage unless a
  reconnection, whose own socket is listed, is taking it over: so hibernation
  erases none that is needed. With `d1` the property is false: see 5.1.
* `AlertsAreSpaced`: `AlertsSpaced`, under all faults. `SpacedInv` relates
  `lastAlertTimes` to the alerts raised in the present life of the instance,
  those on their way to D1 included; `forgotten` says where that life begins.
* `LossIsRecorded`: `LossRecorded`, if alarms and handlers are prompt, there is no crash,
  failing D1, failing notification or `resume`, and the grace period is at most the
  ping interval (`Prompt`). Two invariants. `TimerInv` is what promptness makes of
  times: a handler that is under way began in this tick, and no alarm is overdue.
  `RecordInv`: a loss without a row is on its way to one, by an alarm that is set
  for the end of the grace period or later (`AlarmAhead`), or by the handler that sets
  it, looks at it, alerts, or inserts. The last condition is what makes the step
  of the ping that overwrites the grace alarm harmless: what it sets comes no
  earlier. Without it this step fails, and so does the property (`MonitorLongGrace`);
  for the rest see 5.1.
* `AdminDisconnectIsShown`: `AdminDisconnectShown`, if besides closes are prompt and the
  interval is shorter than grace period and slack together. `AdminInv`: after the tick
  of the command no socket is left and no loss can be marked, so that one that is
  marked is no later than the command, and by the end of the block has been recorded.
* `PingsGoOn`: `PingChain`, if `d1` is not in `Faults`; however late alarms and handlers
  are, and with crashes. `ChainInv`: where an open socket has no alarm, the alarm
  handler is before the statement that sets one, or a connection is being set up
  that will find none set.
* `NoSecondRetry`: `RetriedOnce`, under all faults. `RetryInv`: the identifier of an alert
  that may still be sent is in one place, with the handler or in the stored retry,
  and the place bounds how often it was sent.

**ProbeSync_proofs**
* `TypeCorrect`.
* `NoRowTwice`: `StoredOnce`, with power failures and all.
* `PipelineImplementsLog`: `Spec => Log!Spec` if `power` is not in `Faults`.
  `OriginInv` says that whatever is on its way (channel, stream, batches,
  requests) was written, and that keys of written rows are below the counter.
* `NoProbeLost`: `NothingLost`, same assumption. `DeliveryInv` adds that the rows of
  an acknowledged batch are on the server, so that marking them loses nothing.

**Connectivity_proofs**
* `TypeCorrect`.
* `ReportedWasOffline`: `OnlyOffline`, under all faults and without `Timely`. Three
  invariants, one on the other: `LogInv`, that entries of the log rise in time
  and that between a disconnection and the entry after it the daemon was not
  online; `BatchInv`, that what is synced is a first part of the log, so that a
  batch has no gaps and two neighbours in it are neighbours in the log; `RowInv`,
  that a row of the client's is such a pair.
* `AcknowledgedIsReported`: `AckedReported`. `AckInv` says the same of the pairs the
  handler is done with, and that outages are not deleted.
* `OutageReportedOnce`: `ReportedOnce`, for any number of drains and handlers that are at
  work at once, of any duration, and under all faults. `OnceInv`: an outage near the one that a
  handler is about to write is in the table only if another handler wrote it since the
  first one looked, and then `crossed` has the two. Nothing is assumed of the handlers'
  times; what the exception allows, the code does (5.1).

**Lifecycle_proofs**
* `TypeCorrect`, and from it `TokensOnce`: `TokenOnce`. `TokenInv`: a token that made a
  client is used, and a request that has found it all the same overlapped with
  one that did.
* `ErasedOnlyForCause`: `ErasedForCause`. The key is `HeldInv`: no two machines ever hold
  one id, be it in a file, in a process or in an answer on its way; so a message
  for a client reaches its own machine. `CauseInv` then follows each
  cause back to who asked for it, and the program's counter to the refusals counted
  by the history.
* `ZombiesKnow`: `NoSilentZombie`. `ZombieInv` follows a deletion through its steps: an
  open socket is told when it is notified, one accepted after it is late.
* `IdentityIsKept`: `IdentityKept`. `IdentityInv`: off launchd, a daemon or an agent that
  could write an id has the latest one, since whoever registers has waited for
  the process to end.

**Notifications_proofs**
* `TypeCorrect`.
* `EveryAlertInOnePlace`: no channel has a message of an alert that has no row, and no two of
  the handlers and the stored retry have the same alert. It collects what the next
  theorem's invariants say of this.
* `NoAlertTwice`: `DeliveredOnce`. `Shape` has what each await implies of the handler's
  fields; `Places`, that an alert is in one place only: in one handler, in the
  stored retry, or settled; `Deliveries`, that a channel still to be tried has not
  delivered, but for lost answers.
* `StatusesAreTruthful`: `StatusTruthful`, with `Statuses` on top of these.
* `MuteIsKept`: `MuteKept`. `MuteInv`: while a mute is wanted no reader is about to clear the
  setting, unless `crossed` says that it was set between a reader's two statements.

**Measurements_proofs**
* `PingsMeasuredOnce`: `MeasuredOnce`. `PlaceInv`: a ping is in one place, in flight, in
  the buffer, in the batch of one handler, or in D1, for any number of handlers.
* `TagsAreOrdered`: `TagBudget`. `TagInv`: a tag that can still be used was ordered.
* `RingHoldsTheLast`: `RingIsRecent`, for any size of the ring. `RingOK`: until it is full
  the ring is the list of the last results, then that list turned, by as much
  as `index` says; the two count alike because turning is a bijection. Many timeouts
  are recorded at once, by a recursive function over their number; what it
  computes is proved by way of the least number for which it would be wrong.

**ClientConfig_proofs**
* `EditsSurvive`: `ChangesSurvive`, for any number of pages and edits. `SurviveInv` says of each key
  that is not `undone`: a request on its way that carries it is the only one and has the
  value last wanted; one that has read the row writes that value; and while none carries
  the key the row has it. So requests that overlap are harmful only to the keys they carry.
* `CopiesFollowRow`: `CopiesFollow`. `OldInv`: no copy, form or message has an edit that was not
  made. `FollowInv` follows an edit on its way into the copies:
  where the object's copy is behind the row, the request that wrote it has yet to
  tell the object; where the daemon's is behind, the channel ends with what it
  will have, or the greeting has not been sent.

**Worker_proofs**, the archive
* `RetentionTypeCorrect`.
* `ArchiveIsKept`: `ArchiveKept`. `KeptInv` has two parts besides. `PutFirst`: a run that deletes
  has put all that it deletes, in this run. `MovedBefore`: nothing was deleted later
  than now, no object is later than now, and a client still to be done has lost no rows in
  this run; so a put for it can only replace what an earlier run moved.
* `LastRunKeepsAll`: of the runs that share a day, and with it the names of the objects, what the
  last one moves out of D1 is in the archive for good. By `OfItsDay` an object was put on the
  day of its name, so no run of a later day replaces it. What the archive does lose (5.1) is
  what the earlier runs of a day moved, and nothing else.
* `CompleteRunSweeps`: `Swept`. The invariant `SweptSoFar`: a run that was not cut
  short has left no old rows of clients it is past; rows that arrive meanwhile
  are new.

**Worker_proofs**, the calculations. Their inputs are of any length and size, by the
invariant `InputOK`; nothing is left of `MaxInput`.
* `LimiterIsBounded`: `LimiterBound`. `EntriesAre`: each request's entry counts the requests
  since the one that opened its window. The requests of a stretch as long as a
  window then have entries of at most two windows (`WindowBound`), each of which lets
  the limit pass; before one that is refused the limit passed in its own window (`WindowFull`).
* `CalculationsAreRight`: `CalculationsRight`. Percentiles and bursts rest on `SortedIs`: sorting
  exists, and rearranges, so that as many values are below a bound before as after
  (`Counts`). The bursts are the longest runs in both directions: `BurstsAre`, by what the
  loop has at each error; `BurstIsRun`, that no error joins on either side;
  `RunIsBurst`, that each longest run is found; `RunMeans`, from the sorted errors
  back to those in the order they came in. Losses agree because a direction and a
  status part the pings; "healthy" follows from rounding, and the digests from division.

  What a recursive function computes is not proved by induction over data, which the
  prover cannot instantiate, but by `Least`: the least place for which it would be wrong
  cannot be the first, nor any after one for which it is right. The library's theorem
  on well-founded recursion has an operator for a parameter, too; `Unfolds` has the step
  at each place as a function, and shows that a sequence can be worked out along it.

**Worker_proofs**, the dashboard
* `DashboardTypeCorrect`, on which the next two rest; it says nothing of how long an interval
  runs.
* `PollingIsBounded`: `PollBounded`. `PollInv`: unless a result was taken early, the one
  interval that runs is `pollRef`'s; none runs while a `POST` is under way, of which there is one at most, nor on a page that
  waits for no result, which is why the next test cannot lose one.
* `ReportsFit`: `ReportFits`. `FitInv`: the newest request or, if there is none, what is
  shown, is of the selected range, unless `muddled`; and only the client's page has
  an analysis at all.

Every invariant and every action property of the runs that pass is a theorem, as is the
refinement of `ProbeLog`. Some are proved under an assumption about faults,
promptness or the length of an interval, which their run makes as well; the entries
above name it. Left to TLC is liveness (`GoneIsRecorded`,
`EventuallyStored`, `DeletedForgotten`, `ChangesArrive`, `RunningEnds`, `ViewFollows`,
`EndedAsksLogin`), which is out of the prover's reach.


## 5. Where the code differs from what is said or meant

The modules have what the code does. The properties are stated, or their runs
configured, so as to hold beside it; the second item below is the exception, which
`MonitorLongGrace` shows and `PROJECT.json` lists as a finding.

### 5.1 Monitor, probes, outages, archive

* When the notification of `client_down` fails, `alarm()` tries it again 5 s later.
  Unless the retry puts a later alarm back it goes on to the grace check, finds the
  client still down, and records a second outage over the first
  (`client-monitor.ts` 431). The reconnection closes the last one only.
* A socket that closes while the ping alarm awaits D1 has its grace alarm
  replaced by the next ping alarm (522). With a grace period longer than the interval,
  as in the design of 2026-03-17 (60 s against 30 s), that alarm finds the grace
  period not over and returns without setting another (470): neither the outage nor
  `client_down` follows. With a shorter one the outage is recorded late.
* A retry reads the alarm to put back before it sends; a reconnection and
  another loss meanwhile make it stale (432): the ping alarm it puts over the grace
  alarm of that loss may come too early in the same way.
* A reconnection during the notification of `client_down` clears `disconnectedAt`,
  from which the outage row is then written: for a connected client, with the start
  `new Date(null)`, and open until its next loss and return (466).
* A read of the configuration that fails in `handleSessionDrop` leaves the loss
  without a grace alarm (543); the ping alarm that comes early ends the chain.
* `resume` sets the alarm to a ping interval from now, over a grace alarm, too (824).
* A reconnection deletes the stored start of the disconnection before it writes
  the outage; if that D1 statement fails, and the object then hibernates, the loss
  is forgotten (153).
* The cooldown of alerts is in memory, so an object that hibernated may alert
  again (1047); and the cooldown of a recovery swallows the next (1048).
* The probe task awaits `tx.send()` on a channel nobody reads while the client is
  offline (`client/src/websocket.rs` 103); after 256 probes it stands still, and so
  does the cleanup. The README has the client buffer offline.
* After a power failure numbers of rows the server has may be handed out again
  under the same session (`client/src/store.rs` 37): the new row is taken for the old
  one, marked as synced and lost. This is why `NothingLost` and `ImplementsLog` are
  checked, and proved, without power failures, and why `EventuallyStored` allows a
  probe to be missing once a failure has set the counter of rows back.
* A `disconnected` at the end of one batch and the `connected` at the start of the next
  are not paired (`worker/src/api/connectivity.ts` 45), but both are marked as synced:
  the outage is never reported. `AckedReported` speaks of pairs within a batch.
* A failed attempt to connect is logged as a disconnection, so the outage that is
  reported starts at the last failed attempt (`client/src/websocket.rs` 196).
  `OnlyOffline` allows for that: it says nothing of an outage that is too short.
* The Worker may alert a second time to an outage the monitor has announced, when
  that alert lies outside the window it looks in (`connectivity.ts` 79); and
  handlers of overlapping drains, or of a request that was given up and posted again,
  pass its check for a known outage together (65; `crossed` in `ReportedOnce`).
  If the handler fails after the outage is inserted, no one is alerted when
  the batch comes again (71).
* The R2 object is named for client and day, the cron runs four times a day: the
  second run that finds rows replaces the object of the first, whose rows D1 no
  longer has (`worker/src/services/archiver.ts` 46). `ArchiveKept` has this as its one
  exception; what the last run of a day moves is safe (`LastRunKeepsAll`).
* The per-client retention never prunes pings (a number compared with TEXT), and
  prunes probe results without an archive of them; pings are archived after 30
  days whatever `retention_raw_days` says. The design of 2026-03-21 (lines 195-199)
  has it otherwise.

### 5.2 Alerts and measurements

* "Critical alerts always send regardless of mute" (`EditClientDialog.tsx` 306,
  `Alerts.tsx` 173) holds of the mute; the switch of its type silences a critical
  alert as well.
* A muted or disabled Telegram is recorded as -1, though the comment has 0 for "not
  attempted" (`client-monitor.ts` 1102), and a disabled `client_down` is retried.
* A failing read of the mute setting, or a failing UPDATE of the status, ends the
  dispatch without a retry (`over`).
* A mute set between a reader's SELECT and its DELETE is lost
  (`bot-settings.ts` 20; `crossed`).
* The escalation is looked at when `client_down` is raised only, and packet loss on a
  pong only: a client that answers nothing raises no loss alert. The alarm that
  finds a dead connection leaves its timeouts in the buffer, which hibernation
  empties.
* The mark that the next trace is an alert's, and the time of the last one, are in
  memory; a manual trace that comes first takes the mark (299).
* The bot's `/speedtest` sends `type: "probe"` (`telegram.ts` 180), the object reads
  `test_type` (833) and runs a full test. Its commands report success for an answer
  `ok: false`.

### 5.3 Registration, service, configuration

* A token "can only be used once" (`RegisterDialog.tsx` 115): two requests that overlap
  register two clients with it (`overlapped` in `TokenOnce`).
* A connection checked before a deletion and accepted after its message stays open
  without a row until it ends (`late` in `NoSilentZombie`, `DeletedForgotten`). A
  deletion that fails after its message leaves a client that erased itself in the
  list. `pingpulse uninstall` leaves the server's row.
* `launchctl remove` does not wait, and a daemon in its backoff swallows SIGTERM: it may
  save the identity of the earlier registration over that of the latest. `IdentityKept`
  speaks of systemd.
* `pingpulse register` over an existing configuration, and `self_remove`, delete the program's
  own binary; an update that fails between its two renames leaves none.
  The agent is part of the daemon, so its restart cannot start it again when it
  is stopped.
* The dashboard's removal of a service and change of a password call endpoints
  the program does not have.
* The alerts page shows the settings of the first client and saves them to all
  (`Alerts.tsx` 61, 93): to change one of them for all replaces the others of every client by
  the first one's. (`Foreign`, and so `undone`.)
* A form saves all of its keys, with the values it was opened with; two changes of the
  row at a time are a lost update; the object writes its whole copy back when it
  detects a time zone (`client-monitor.ts` 170), and detects it again over one that an
  admin set to UTC. These are `undone`.
* `update_config` is sent after the response and may fail or be overtaken;
  `PUT /api/alerts` tells no object; a load begun before a change overwrites it. These are
  `strayed`.
* An empty number field is sent as `null`: the daemon then cannot read any later
  configuration, and the object's alarm interval is 0. An interval of zero ends the
  daemon's loop with a panic. Settings of probes are used from the daemon's next start
  on, against "No restart needed" (`ControlPanel.tsx` 321), and that page's grace period is
  without effect when `down_alert_grace_seconds` is set.

### 5.4 Dashboard and reports

* A fixed window lets twice its limit pass around a boundary (`LimiterBound` has it so);
  the counters are in the memory of one isolate, shared by the tabs and daemons
  behind one address. The D1 table `rate_limits` is not used.
* The interval of a speed test is started when the `POST` is answered, even if the result
  was shown before (`ClientDetail.tsx` 82): it runs its attempts for no test, and the
  next test loses it. An interval that nobody's `pollRef` holds ticks, and refreshes, until the
  page is reloaded: past its last attempt it stops only what `pollRef` holds (86).
  `PollBounded` excludes these (`overtaken`).
* Answers of the analysis that come late, or fail, stay until it is refreshed
  (`muddled` in `ReportFits`); while its first request is under way the tab says that
  it failed.
* `useAuth` takes any error for "signed out".
* "Healthy" may stand beside an upstream asymmetry, an error burst or a variation of speed, which
  it does not ask for; bursts are said to be "across all targets" whatever their targets are.
* The analysis compares ISO strings with the integers of `client_probe_results`, so its
  probe statistics are empty; its asymmetry averages in the -1 of lost pings.


## 6. What is not modelled, and why

`PROJECT.json` lists every component with its status. Left out are:

* the probes themselves and the log files: pure I/O, with no state of the
  program's own;
* of the connection monitor, what it gathers of its logs for an agent
  (`gatherRecentLogs`), a read;
* of self-update and service management, the archives, checksums, paths and the port
  of the local API: calls of the platform whose outcome is the model's choice of
  success or failure;
* of traces and speed tests, the measurements and the look-up of hops;
* of the Telegram bot, the commands that format a query or pass a command on;
* of queries and reports, the SQL aggregates and the wording;
* the table of routes; and of the dashboard the charts, the sync badge, the lists of
  logs and traces, which show what they fetch.

In the modelled parts: clocks run alike on client and server; D1 statements are
atomic and a batch is a transaction; requests are not duplicated by the network
(a client's own repetition is modelled). `ClientMonitor` has one channel of
notification, `Notifications` the two; the failure of the SELECT of a client's name, which
only email needs, is merged there with the other failures of the dispatch.
`Measurements` leaves out the alarms of a paused client, which measure nothing.


## 7. The plan

The modules of the plan are written. What would add to them:

* what remains true of `LossRecorded` when a notification fails, for which the alarm a
  retry puts back has to be related to the loss it was read before;
* the composition of `ClientMonitor` with `Connectivity`, in which the monitor's writes to
  `outages` (`MonitorSees`, `MonitorNotices`, `MonitorRecords`) become a specification that
  `ClientMonitor` implements.
