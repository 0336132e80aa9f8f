----------------------------- MODULE Lifecycle -----------------------------
(***************************************************************************)
(* A client from its registration to its removal: the tokens and the       *)
(* clients table of the server (worker/src/api/auth.ts, clients.ts), the   *)
(* upgrade of its Durable Object, and on the machine the commands of       *)
(* main.rs, the service of service.rs, the reconnecting loop of            *)
(* websocket.rs and the local management API of agent.rs.                  *)
(***************************************************************************)
EXTENDS Integers, Sequences

CONSTANTS
    Machines,
    Tokens,
    MaxAuthFailures,    \* MAX_AUTH_FAILURES
    MaxClients,         \* bound on clients ever registered
    MaxOps,             \* bound on what people do
    MaxFaults,          \* bound on faults
    Launchd             \* the machines under launchd; the others have systemd

ASSUME ConstantsOK ==
    /\ MaxAuthFailures \in Nat \ {0}
    /\ MaxClients \in Nat
    /\ MaxOps \in Nat
    /\ MaxFaults \in Nat
    /\ Launchd \subseteq Machines

Nobody == 0
ClientId == 1..MaxClients

VARIABLES
    \* The server.
    token,          \* registration_tokens
    rows,           \* the ids in the table clients
    deletion,       \* DELETE /api/clients/:id: how far it is
    \* The machines.
    register,       \* pingpulse register, and POST /register at the server
    config,         \* the client id in config.toml, Nobody without a file
    binary,         \* ~/.pingpulse/bin/pingpulse is there
    unit,           \* the service is installed: the plist or the unit file
    daemon,         \* the process: its state, its copy of the client id,
                    \* consecutive_auth_failures, its connection to the object
    agent,          \* what the process does besides: an update, a restart or
                    \* an uninstallation, or whether it is about to be killed
    ops,            \* operations of people so far
    faults,         \* faults so far
    \* History.
    ids,            \* clients registered so far: the token of each
    overlapped,     \* tokens looked up while another request had them
    asked,          \* ids somebody asked the server to delete
    erased,         \* why the daemon erased its data, and whose
    streak,         \* refusals since the last attempt that ended otherwise
    latest          \* the id of the machine's last registration

server == <<token, rows, deletion>>
disk == <<config, binary, unit>>
process == <<daemon, agent>>
bounds == <<ops, faults>>
history == <<ids, overlapped, asked, erased, streak, latest>>
vars == <<server, register, disk, process, bounds, history>>

Off(exit) == [state |-> "off", id |-> Nobody, failures |-> 0, socket |-> exit]
Running(id) == [state |-> "offline", id |-> id, failures |-> 0, socket |-> "none"]

\* A connection is checked when the object has found the secret to be right and
\* has not yet accepted the socket.  It is late when the deregistered message
\* has been sent without it, told when the message is on its way.
Daemon ==
    [state : {"offline", "online"}, id : ClientId, failures : 0..(MaxAuthFailures - 1),
     socket : {"none", "checked", "open", "late", "told"}]
    \cup {Off("clean"), Off("failed")}

Register ==
    {[at |-> "idle"]} \cup [at : {"sent", "found"}, token : Tokens]
    \cup [at : {"answered"}, id : ClientId]

TypeOK ==
    /\ token \in [Tokens -> {"none", "fresh", "expired", "used"}]
    /\ rows \subseteq ClientId
    /\ deletion \in [ClientId -> {"none", "asked", "notified"}]
    /\ register \in [Machines -> Register]
    /\ config \in [Machines -> {Nobody} \cup ClientId]
    /\ binary \in [Machines -> BOOLEAN]
    /\ unit \in [Machines -> BOOLEAN]
    /\ daemon \in [Machines -> Daemon]
    /\ agent \in [Machines -> {"idle", "updating", "restarting", "doomed",
                               "removing", "removed"}]
    /\ ops \in 0..MaxOps
    /\ faults \in 0..MaxFaults

Init ==
    /\ token = [t \in Tokens |-> "none"]
    /\ rows = {}
    /\ deletion = [c \in ClientId |-> "none"]
    /\ register = [m \in Machines |-> [at |-> "idle"]]
    /\ config = [m \in Machines |-> Nobody]
    /\ binary = [m \in Machines |-> FALSE]
    /\ unit = [m \in Machines |-> FALSE]
    /\ daemon = [m \in Machines |-> Off("clean")]
    /\ agent = [m \in Machines |-> "idle"]
    /\ ops = 0
    /\ faults = 0
    /\ ids = <<>>
    /\ overlapped = {}
    /\ asked = {}
    /\ erased = [m \in Machines |-> [why |-> "no", id |-> Nobody]]
    /\ streak = [m \in Machines |-> 0]
    /\ latest = [m \in Machines |-> Nobody]

Op == ops < MaxOps /\ ops' = ops + 1 /\ UNCHANGED faults
Fault == faults < MaxFaults /\ faults' = faults + 1 /\ UNCHANGED ops
(***************************************************************************)
(* The registration tokens, which the admin generates and which expire     *)
(* after 15 minutes.                                                       *)
(***************************************************************************)
GenerateToken(t) ==
    /\ token[t] = "none"
    /\ token' = [token EXCEPT ![t] = "fresh"]
    /\ UNCHANGED <<rows, deletion, register, disk, process,
                   bounds, history>>

TokenExpires(t) ==
    /\ token[t] = "fresh"
    /\ token' = [token EXCEPT ![t] = "expired"]
    /\ UNCHANGED <<rows, deletion, register, disk, process,
                   bounds, history>>

(***************************************************************************)
(* The service on the machine.                                             *)
(***************************************************************************)

\* The states in which service::stop(), called by another process, leaves the
\* daemon.  systemctl waits until the daemon has ended.  launchctl remove does
\* not: only the loop of a connection listens for SIGTERM, a daemon that waits
\* to reconnect lives on until it is killed.
StopWaits(m) ==                                     \* mutant: nobody waits
    IF daemon[m].state = "offline"
    THEN {<<Off("clean"), "idle">>, <<daemon[m], "doomed">>}
    ELSE {<<Off("clean"), "idle">>}
StoppedFromOutside(m) ==
    IF daemon[m].state = "off" THEN {<<daemon[m], "idle">>}
    ELSE IF m \notin Launchd THEN {<<Off("clean"), "idle">>}
    ELSE IF ~unit[m] THEN {<<daemon[m], agent[m]>>}
    ELSE IF daemon[m].state = "online" THEN {<<Off("clean"), "idle">>}
    ELSE {<<Off("clean"), "idle">>, <<daemon[m], "doomed">>}

Stop(m) ==
    /\ \E result \in StoppedFromOutside(m) :
         /\ daemon' = [daemon EXCEPT ![m] = result[1]]
         /\ agent' = [agent EXCEPT ![m] = result[2]]
    /\ unit' = [unit EXCEPT ![m] = FALSE]

\* pingpulse stop.
CliStop(m) ==
    /\ Op
    /\ binary[m]
    /\ unit[m]
    /\ Stop(m)
    /\ UNCHANGED <<server, register, config, binary, history>>

\* pingpulse uninstall: the server is not told.
CliUninstall(m) ==
    /\ Op
    /\ binary[m]
    /\ register[m].at = "idle"
    /\ Stop(m)
    /\ config' = [config EXCEPT ![m] = Nobody]
    /\ binary' = [binary EXCEPT ![m] = FALSE]
    /\ UNCHANGED <<server, register, history>>

\* pingpulse start, on a machine that is registered.
CliStart(m) ==
    /\ binary[m]
    /\ config[m] # Nobody
    /\ daemon[m].state = "off"
    /\ unit' = [unit EXCEPT ![m] = TRUE]
    /\ daemon' = [daemon EXCEPT ![m] = Running(config[m])]
    /\ streak' = [streak EXCEPT ![m] = 0]
    /\ UNCHANGED <<server, register, config, binary, agent, bounds,
                   ids, overlapped, asked, erased, latest>>

\* Restart=always, KeepAlive with SuccessfulExit=false, or the next boot.
ManagerStarts(m) ==
    /\ unit[m]
    /\ binary[m]
    /\ config[m] # Nobody
    /\ daemon[m].state = "off"
    /\ m \notin Launchd \/ daemon[m] = Off("failed")
    /\ daemon' = [daemon EXCEPT ![m] = Running(config[m])]
    /\ streak' = [streak EXCEPT ![m] = 0]
    /\ UNCHANGED <<server, register, disk, agent, bounds, ids,
                   overlapped, asked, erased, latest>>

\* A crash or a reboot.
Crash(m) ==
    /\ Fault
    /\ daemon' = [daemon EXCEPT ![m] = Off("failed")]
    /\ agent' = [agent EXCEPT ![m] = "idle"]
    /\ UNCHANGED <<server, register, disk, history>>

\* SIGKILL, when SIGTERM has not ended the daemon in time.
Killed(m) ==
    /\ agent[m] = "doomed"
    /\ daemon' = [daemon EXCEPT ![m] = Off("failed")]
    /\ agent' = [agent EXCEPT ![m] = "idle"]
    /\ UNCHANGED <<server, register, disk, bounds, history>>

(***************************************************************************)
(* Registration.  The program removes what it finds of an earlier one,     *)
(* its own binary included, before it asks the server; the install script  *)
(* removes it before it runs the program, and keeps the binary.            *)
(***************************************************************************)
CleanUp(m, keepBinary) ==
    \/ /\ config[m] # Nobody
       /\ Stop(m)
       /\ config' = [config EXCEPT ![m] = Nobody]
       /\ binary' = [binary EXCEPT ![m] = keepBinary]
    \/ /\ config[m] = Nobody
       /\ binary' = [binary EXCEPT ![m] = TRUE]
       /\ UNCHANGED <<config, unit, process>>

Send(m, t) == register' = [register EXCEPT ![m] = [at |-> "sent", token |-> t]]

\* pingpulse register.
CliRegister(m, t) ==
    /\ Op
    /\ binary[m]
    /\ register[m].at = "idle"
    /\ token[t] # "none"
    /\ CleanUp(m, FALSE)
    /\ Send(m, t)
    /\ UNCHANGED <<server, history>>

\* install.sh, up to its call of pingpulse register.
Install(m, t) ==
    /\ Op
    /\ register[m].at = "idle"
    /\ token[t] # "none"
    /\ CleanUp(m, TRUE)
    /\ Send(m, t)
    /\ UNCHANGED <<server, history>>

\* POST /register, first statement: the token is looked up.
Unexpired(t) == token[t] \in {"fresh", "used"}      \* mutant: used_at not seen
Usable(t) == token[t] = "fresh"

LookUp(m) ==
    /\ register[m].at = "sent"
    /\ LET t == register[m].token IN
       \/ /\ Usable(t)
          /\ register' = [register EXCEPT ![m] = [at |-> "found", token |-> t]]
          /\ overlapped' = IF \E n \in Machines : register[n] = [at |-> "found", token |-> t]
                           THEN overlapped \cup {t} ELSE overlapped
       \/ /\ ~Usable(t)
          /\ register' = [register EXCEPT ![m] = [at |-> "idle"]]
          /\ UNCHANGED overlapped
    /\ UNCHANGED <<server, disk, process, bounds, ids, asked, erased,
                   streak, latest>>

\* POST /register, second statement: the token is marked as used, whatever it
\* was, and the client is inserted.
Commit(m) ==
    /\ register[m].at = "found"
    /\ Len(ids) < MaxClients
    /\ LET id == Len(ids) + 1
           t == register[m].token
       IN  /\ ids' = Append(ids, t)
           /\ rows' = rows \cup {id}
           /\ token' = [token EXCEPT ![t] = "used"]
           /\ register' = [register EXCEPT ![m] = [at |-> "answered", id |-> id]]
    /\ UNCHANGED <<deletion, disk, process, bounds,
                   overlapped, asked, erased, streak, latest>>

\* The answer arrives, and the configuration is saved.
Registered(m) ==
    /\ register[m].at = "answered"
    /\ config' = [config EXCEPT ![m] = register[m].id]
    /\ latest' = [latest EXCEPT ![m] = register[m].id]
    /\ erased' = [erased EXCEPT ![m] = [why |-> "no", id |-> Nobody]]
    /\ register' = [register EXCEPT ![m] = [at |-> "idle"]]
    /\ UNCHANGED <<server, binary, unit, process, bounds, ids,
                   overlapped, asked, streak>>

\* The request or its answer is lost, or the server fails.
RegisterFails(m) ==
    /\ Fault
    /\ register[m].at # "idle"
    /\ register' = [register EXCEPT ![m] = [at |-> "idle"]]
    /\ UNCHANGED <<server, disk, process, history>>

(***************************************************************************)
(* The daemon's loop (run and connect_and_run).                            *)
(***************************************************************************)

\* self_remove.  An installation that the agent has begun is completed all
\* the same, before or after the removal.
Erase(m, why) ==
    /\ config' = [config EXCEPT ![m] = Nobody]
    /\ binary' = [binary EXCEPT ![m] = FALSE]
    /\ \E left \in {FALSE} \cup IF agent[m] = "restarting" THEN {TRUE} ELSE {} :
         unit' = [unit EXCEPT ![m] = left]
    /\ erased' = [erased EXCEPT ![m] = [why |-> why, id |-> daemon[m].id]]

\* stop_service(), and run returns.
SelfRemove(m, why) ==
    /\ Erase(m, why)
    /\ daemon' = [daemon EXCEPT ![m] = Off("clean")]
    /\ agent' = [agent EXCEPT ![m] = "idle"]

Connecting(m) == daemon[m].state = "offline" /\ daemon[m].socket = "none"

\* The object finds the secret right.
Validate(m) ==
    /\ Connecting(m)
    /\ daemon[m].id \in rows
    /\ daemon' = [daemon EXCEPT ![m].socket = "checked"]
    /\ UNCHANGED <<server, register, disk, agent, bounds, history>>

\* The object accepts the socket.
Accept(m) ==
    /\ daemon[m].socket = "checked"
    /\ LET id == daemon[m].id IN
       daemon' = [daemon EXCEPT ![m].state = "online",
                                ![m].socket = IF id \in rows /\ deletion[id] # "notified"
                                              THEN "open" ELSE "late"]
    /\ streak' = [streak EXCEPT ![m] = 0]
    /\ UNCHANGED <<server, register, disk, agent, bounds, ids,
                   overlapped, asked, erased, latest>>

\* 410 Gone.
NeverGone(m) == FALSE                               \* mutant: an error like any other
IsGone(m) == daemon[m].id \notin rows

Gone(m) ==
    /\ Connecting(m)
    /\ IsGone(m)
    /\ SelfRemove(m, "gone")
    /\ UNCHANGED <<server, register, bounds, ids, overlapped, asked,
                   streak, latest>>

TooMany(m) == daemon[m].failures + 1 >= MaxAuthFailures

\* 401 or 403, which something between the client and the object answers.
Refused(m) ==
    /\ Fault
    /\ Connecting(m)
    /\ streak' = [streak EXCEPT ![m] = @ + 1]
    /\ \/ /\ TooMany(m)
          /\ SelfRemove(m, "refused")
       \/ /\ ~TooMany(m)
          /\ daemon' = [daemon EXCEPT ![m].failures = @ + 1]
          /\ UNCHANGED <<disk, agent, erased>>
    /\ UNCHANGED <<server, register, ids, overlapped, asked, latest>>

\* What every other end of an attempt or of a connection does to the count.
StillCounted(m) == daemon[m].failures               \* mutant: not in a row
Counted(m) == 0

\* Any other error: the network, or the object answers 5xx.
AttemptFails(m) ==
    /\ daemon[m].state = "offline"
    /\ daemon[m].socket = "checked" \/ daemon[m].failures > 0
    /\ daemon' = [daemon EXCEPT ![m].socket = "none", ![m].failures = Counted(m)]
    /\ streak' = [streak EXCEPT ![m] = 0]
    /\ UNCHANGED <<server, register, disk, agent, bounds, ids,
                   overlapped, asked, erased, latest>>

\* The connection ends, with any message that is still under way.
Disconnected(m) ==
    /\ daemon[m].state = "online"
    /\ daemon' = [daemon EXCEPT ![m].state = "offline", ![m].socket = "none",
                                ![m].failures = Counted(m)]
    /\ UNCHANGED <<server, register, disk, agent, bounds, history>>

\* The deregistered message arrives.
Deregistered(m) ==
    /\ daemon[m].socket = "told"
    /\ SelfRemove(m, "told")
    /\ UNCHANGED <<server, register, bounds, ids, overlapped, asked,
                   streak, latest>>

\* A config_update arrives, as after each connection: the daemon saves its
\* whole configuration.
ConfigSaved(m) ==
    /\ daemon[m].state = "online"
    /\ config[m] # daemon[m].id
    /\ config' = [config EXCEPT ![m] = daemon[m].id]
    /\ UNCHANGED <<server, register, binary, unit, process, bounds,
                   history>>

(***************************************************************************)
(* The deletion of a client by the admin: the object is told to send       *)
(* "deregistered", then the rows are deleted.                              *)
(***************************************************************************)
AdminDelete(c) ==
    /\ Op
    /\ c \in rows
    /\ deletion[c] = "none"
    /\ deletion' = [deletion EXCEPT ![c] = "asked"]
    /\ asked' = asked \cup {c}
    /\ UNCHANGED <<token, rows, register, disk, process, ids,
                   overlapped, erased, streak, latest>>

\* deregister, to all sockets of the object.
Sent(c, message) ==
    daemon' = [m \in Machines |->
                  IF daemon[m].id = c /\ daemon[m].socket \in {"open", "late"}
                  THEN [daemon[m] EXCEPT !.socket = message] ELSE daemon[m]]

Notify(c) ==
    /\ deletion[c] = "asked"
    /\ deletion' = [deletion EXCEPT ![c] = "notified"]
    /\ \/ Sent(c, "told") /\ UNCHANGED bounds
       \/ Sent(c, "late") /\ Fault          \* best effort
    /\ UNCHANGED <<token, rows, register, disk, agent,
                   history>>

\* The rows of the client are deleted once the object has answered, or failed to.
NotAwaited(c) == deletion[c] # "none"               \* mutant
Awaited(c) == deletion[c] = "notified"

Cascade(c) ==
    /\ Awaited(c)
    /\ deletion' = [deletion EXCEPT ![c] = "none"]
    /\ \/ rows' = rows \ {c} /\ UNCHANGED bounds
       \/ Fault /\ UNCHANGED rows           \* the batch fails
    /\ UNCHANGED <<token, register, disk, process, history>>

(***************************************************************************)
(* The local management API, which lives in the daemon's process, and the  *)
(* update it carries out for the server.                                   *)
(***************************************************************************)

\* What the agent's own SIGTERM leaves of the process: the end of the daemon
\* ends the agent, with the handler it is in.
StoppedFromInside(m, next) ==
    \/ /\ daemon' = [daemon EXCEPT ![m] = Off("clean")]
       /\ UNCHANGED agent
    \/ /\ daemon[m].state = "offline"
       /\ agent' = [agent EXCEPT ![m] = next]
       /\ UNCHANGED daemon

AgentStop(m, next) ==
    /\ Op
    /\ daemon[m].state # "off"
    /\ agent[m] = "idle"
    /\ unit[m]
    /\ unit' = [unit EXCEPT ![m] = FALSE]
    /\ StoppedFromInside(m, next)
    /\ UNCHANGED <<server, register, config, binary, history>>

\* A restart goes on to install the service, if the process is still there.
AgentStarts(m) ==
    /\ agent[m] = "restarting"
    /\ unit' = [unit EXCEPT ![m] = TRUE]
    /\ agent' = [agent EXCEPT ![m] = "doomed"]
    /\ UNCHANGED <<server, register, config, binary, daemon, bounds,
                   history>>

\* POST /service/uninstall: the server's record first, which may fail.
AgentUninstall(m) ==
    /\ Op
    /\ daemon[m].state # "off"
    /\ agent[m] = "idle"
    /\ rows' \in {rows, rows \ {daemon[m].id}}
    /\ asked' = asked \cup {daemon[m].id}
    /\ agent' = [agent EXCEPT ![m] = "removing"]
    /\ UNCHANGED <<token, deletion, register, disk, daemon,
                   ids, overlapped, erased, streak, latest>>

\* 1.5 s later, self_remove; on macOS it then resets the login items for up to
\* 5 s before the process exits.
AgentErases(m) ==
    /\ agent[m] = "removing"
    /\ Erase(m, "uninstall")
    /\ IF m \in Launchd
       THEN /\ agent' = [agent EXCEPT ![m] = "removed"]
            /\ UNCHANGED daemon
       ELSE /\ agent' = [agent EXCEPT ![m] = "idle"]
            /\ daemon' = [daemon EXCEPT ![m] = Off("clean")]
    /\ UNCHANGED <<server, register, bounds, ids, overlapped, asked,
                   streak, latest>>

AgentExits(m) ==
    /\ agent[m] = "removed"
    /\ agent' = [agent EXCEPT ![m] = "idle"]
    /\ daemon' = [daemon EXCEPT ![m] = Off("clean")]
    /\ UNCHANGED <<server, register, disk, bounds, history>>

\* self_update.
AdminUpdate(m) ==
    /\ Op
    /\ daemon[m].socket \in {"open", "late"}
    /\ agent[m] = "idle"
    /\ agent' = [agent EXCEPT ![m] = "updating"]
    /\ UNCHANGED <<server, register, disk, daemon, history>>

\* The download or the archive is no good.
UpdateFails(m) ==
    /\ agent[m] = "updating"
    /\ agent' = [agent EXCEPT ![m] = "idle"]
    /\ UNCHANGED <<server, register, disk, daemon, bounds, history>>

\* The binary is replaced and the service restarted.
UpdateInstalls(m) ==
    /\ agent[m] = "updating"
    /\ binary' = [binary EXCEPT ![m] = TRUE]
    /\ agent' = [agent EXCEPT ![m] = "idle"]
    /\ daemon' = [daemon EXCEPT ![m] = IF unit[m] THEN Off("failed") ELSE @]
    /\ UNCHANGED <<server, register, config, unit, bounds, history>>

\* The old binary is removed, the new one cannot be copied.
UpdateBreaks(m) ==
    /\ Fault
    /\ agent[m] = "updating"
    /\ binary' = [binary EXCEPT ![m] = FALSE]
    /\ agent' = [agent EXCEPT ![m] = "idle"]
    /\ UNCHANGED <<server, register, config, unit, daemon, history>>

-----------------------------------------------------------------------------
Admin ==
    \/ \E t \in Tokens : GenerateToken(t) \/ TokenExpires(t)
    \/ \E c \in ClientId : AdminDelete(c) \/ Notify(c) \/ Cascade(c)
    \/ \E m \in Machines : AdminUpdate(m)

Registration(m) ==
    \/ \E t \in Tokens : CliRegister(m, t) \/ Install(m, t)
    \/ LookUp(m)
    \/ Commit(m)
    \/ Registered(m)
    \/ RegisterFails(m)

Service(m) ==
    \/ CliStop(m)
    \/ CliUninstall(m)
    \/ CliStart(m)
    \/ ManagerStarts(m)
    \/ Crash(m)
    \/ Killed(m)

Loop(m) ==
    \/ Validate(m)
    \/ Accept(m)
    \/ Gone(m)
    \/ Refused(m)
    \/ AttemptFails(m)
    \/ Disconnected(m)
    \/ Deregistered(m)
    \/ ConfigSaved(m)

Agent(m) ==
    \/ \E next \in {"doomed", "restarting"} : AgentStop(m, next)
    \/ AgentStarts(m)
    \/ AgentUninstall(m)
    \/ AgentErases(m)
    \/ AgentExits(m)
    \/ UpdateFails(m)
    \/ UpdateInstalls(m)
    \/ UpdateBreaks(m)

Next ==
    \/ Admin
    \/ \E m \in Machines : Registration(m) \/ Service(m) \/ Loop(m) \/ Agent(m)

Spec == Init /\ [][Next]_vars

(***************************************************************************)
(* Fairness: the loop keeps trying and the object answers some attempt in  *)
(* time, messages arrive or the connection ends, timers and the service    *)
(* manager run.                                                            *)
(***************************************************************************)
FairSpec ==
    /\ Spec
    /\ \A m \in Machines :
         /\ WF_vars(Accept(m) \/ AttemptFails(m))
         /\ WF_vars(Gone(m))
         /\ WF_vars(Deregistered(m))
         /\ WF_vars(ManagerStarts(m))
         /\ WF_vars(AgentErases(m) \/ AgentExits(m) \/ AgentStarts(m) \/ Killed(m))

(***************************************************************************)
(* Properties.                                                             *)
(***************************************************************************)

\* The daemon erases the machine's data for cause only: somebody has asked for
\* the deletion of this very client, or the last MaxAuthFailures attempts, with
\* none between them that ended otherwise, were all refused.
ErasedForCause ==
    /\ TypeOK
    /\ \A m \in Machines :
        CASE erased[m].why \in {"gone", "told", "uninstall"} -> erased[m].id \in asked
          [] erased[m].why = "refused" -> streak[m] >= MaxAuthFailures
          [] OTHER -> TRUE

\* Requests that come one after the other register one client with a token.
TokenOnce ==
    \A i, j \in 1..Len(ids) : (ids[i] = ids[j] /\ i # j) => ids[i] \in overlapped

\* A client that stays connected though its row is gone knows of the deletion,
\* is being told, or its connection was accepted too late to be told.
NoSilentZombie ==
    \A m \in Machines :
        (daemon[m].socket = "open" /\ daemon[m].id \notin rows)
            => agent[m] \in {"removing", "removed"}

\* Under systemd no daemon of an earlier registration writes its identity over
\* that of the latest.
IdentityKept ==
    \A m \in Machines :
        m \notin Launchd => config[m] \in {Nobody, latest[m]}

\* A deleted client is removed from the machine that runs it, unless it is kept
\* from running or connected as one that was missed.
DeletedForgotten ==
    \A m \in Machines, c \in ClientId :
        (daemon[m].id = c /\ c \notin rows) ~>
            \/ config[m] # c
            \/ ~unit[m] \/ ~binary[m]
            \/ daemon[m].socket = "late"

=============================================================================
