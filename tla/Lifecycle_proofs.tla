-------------------------- MODULE Lifecycle_proofs --------------------------
(***************************************************************************)
(* Theorems about Lifecycle, for every number of machines and tokens and   *)
(* every bound.                                                            *)
(***************************************************************************)
EXTENDS Lifecycle, TLAPS

(***************************************************************************)
(* Type correctness.                                                       *)
(***************************************************************************)

\* The types of the history variables, which TypeOK leaves out.
HistoryOK ==
    /\ ids \in Seq(Tokens) /\ Len(ids) <= MaxClients
    /\ overlapped \subseteq Tokens
    /\ asked \subseteq ClientId
    /\ erased \in [Machines -> [why : {"no", "gone", "told", "refused", "uninstall"},
                                id : {Nobody} \cup ClientId]]
    /\ streak \in [Machines -> Nat]
    /\ latest \in [Machines -> {Nobody} \cup ClientId]

TypeInv == TypeOK /\ HistoryOK

\* The states of a daemon, and what changes one keeps it a state.
Sockets == {"none", "checked", "open", "late", "told"}
Failures == 0..(MaxAuthFailures - 1)
LiveDaemon == [state : {"offline", "online"}, id : ClientId, failures : Failures, socket : Sockets]

\* A daemon starts, and stops, in states of a daemon.
LEMMA NewDaemons ==
    /\ Off("clean") \in Daemon /\ Off("failed") \in Daemon
    /\ \A c \in ClientId : Running(c) \in Daemon
BY ConstantsOK DEF Daemon, Running

\* What the fields of a daemon can be, without the records.
LEMMA DaemonStates ==
    \A d \in Daemon :
         /\ d.id \in {Nobody} \cup ClientId
         /\ d.state \in {"off", "offline", "online"}
         /\ d.state = "off" => d.id = Nobody /\ d.socket \in {"clean", "failed"}
         /\ d.state # "off" => /\ d.id \in ClientId
                               /\ d.failures \in Failures
                               /\ d.socket \in Sockets
<1>1. ASSUME NEW d \in Daemon, d \in {Off("clean"), Off("failed")}
      PROVE  d.id = Nobody /\ d.state = "off" /\ d.socket \in {"clean", "failed"}
  BY <1>1 DEF Off
<1>2. ASSUME NEW d \in Daemon, d \notin {Off("clean"), Off("failed")}
      PROVE  /\ d.id \in ClientId /\ d.state \in {"offline", "online"}
             /\ d.failures \in Failures /\ d.socket \in Sockets
  BY <1>2 DEF Daemon, Failures, Sockets
<1> QED BY <1>1, <1>2

\* What the loop and the messages change in a daemon that runs.
LEMMA DaemonChanges ==
    ASSUME NEW d \in Daemon, d.state # "off"
    PROVE  /\ \A s \in Sockets : [d EXCEPT !.socket = s] \in Daemon
           /\ \A f \in Failures : [d EXCEPT !.failures = f] \in Daemon
           /\ \A s \in Sockets : [d EXCEPT !.state = "online", !.socket = s] \in Daemon
           /\ [d EXCEPT !.socket = "none", !.failures = 0] \in Daemon
           /\ [d EXCEPT !.state = "offline", !.socket = "none", !.failures = 0] \in Daemon
<1>1. d \in LiveDaemon
  BY DEF LiveDaemon, Daemon, Off, Failures, Sockets
<1>2. 0 \in Failures /\ "none" \in Sockets
  BY ConstantsOK DEF Failures, Sockets
<1>3. LiveDaemon \subseteq Daemon
  BY DEF LiveDaemon, Daemon, Failures, Sockets
<1>4. ASSUME NEW s \in Sockets
      PROVE  /\ [d EXCEPT !.socket = s] \in LiveDaemon
             /\ [d EXCEPT !.state = "online", !.socket = s] \in LiveDaemon
  BY <1>1 DEF LiveDaemon
<1>5. ASSUME NEW f \in Failures PROVE [d EXCEPT !.failures = f] \in LiveDaemon
  BY <1>1 DEF LiveDaemon
<1>6. /\ [d EXCEPT !.socket = "none", !.failures = 0] \in LiveDaemon
      /\ [d EXCEPT !.state = "offline", !.socket = "none", !.failures = 0] \in LiveDaemon
  BY <1>1, <1>2 DEF LiveDaemon
<1> QED BY <1>3, <1>4, <1>5, <1>6

\* What a stop from outside leaves: nothing of the process, or under launchd a
\* daemon as it was, which is killed if it had a service.
LEMMA StopLeaves ==
    ASSUME NEW m \in Machines, Stop(m), TypeInv
    PROVE  /\ unit' = [unit EXCEPT ![m] = FALSE]
           /\ \/ /\ daemon' = [daemon EXCEPT ![m] = Off("clean")]
                 /\ agent' = [agent EXCEPT ![m] = "idle"]
              \/ /\ daemon[m].state = "off"
                 /\ daemon' = daemon
                 /\ agent' = [agent EXCEPT ![m] = "idle"]
              \/ /\ m \in Launchd /\ daemon[m].state # "off"
                 /\ daemon' = daemon
                 /\ \/ agent' = agent
                    \/ /\ agent' = [agent EXCEPT ![m] = "doomed"]
                       /\ daemon[m].state = "offline"
<1>1. PICK result \in StoppedFromOutside(m) :
         /\ daemon' = [daemon EXCEPT ![m] = result[1]]
         /\ agent' = [agent EXCEPT ![m] = result[2]]
  BY DEF Stop
<1>2. /\ daemon[m].state = "off" => result = <<daemon[m], "idle">>
      /\ daemon[m].state # "off" =>
           \/ result = <<Off("clean"), "idle">>
           \/ m \in Launchd /\ result = <<daemon[m], agent[m]>>
           \/ m \in Launchd /\ daemon[m].state = "offline" /\ result = <<daemon[m], "doomed">>
  BY DaemonStates DEF StoppedFromOutside, TypeInv, TypeOK
<1>3. /\ daemon = [daemon EXCEPT ![m] = daemon[m]]
      /\ agent = [agent EXCEPT ![m] = agent[m]]
  BY DEF TypeInv, TypeOK
<1>4. unit' = [unit EXCEPT ![m] = FALSE]
  BY DEF Stop
<1>5. CASE daemon[m].state = "off"
  <2>1. result[1] = daemon[m] /\ result[2] = "idle"
    BY <1>2, <1>5
  <2> QED BY <1>1, <1>3, <1>4, <1>5, <2>1
<1>6. CASE result = <<Off("clean"), "idle">>
  BY <1>1, <1>4, <1>6
<1>7. CASE daemon[m].state # "off" /\ m \in Launchd /\ result = <<daemon[m], agent[m]>>
  <2>1. result[1] = daemon[m] /\ result[2] = agent[m]
    BY <1>7
  <2> QED BY <1>1, <1>3, <1>4, <1>7, <2>1
<1>8. CASE m \in Launchd /\ daemon[m].state = "offline" /\ result = <<daemon[m], "doomed">>
  <2>1. result[1] = daemon[m] /\ result[2] = "doomed"
    BY <1>8
  <2> QED BY <1>1, <1>3, <1>4, <1>8, <2>1
<1> QED BY <1>2, <1>5, <1>6, <1>7, <1>8

\* The stages of a registration.
LEMMA RegisterStates ==
    /\ [at |-> "idle"] \in Register
    /\ \A t \in Tokens : /\ [at |-> "sent", token |-> t] \in Register
                         /\ [at |-> "found", token |-> t] \in Register
    /\ \A c \in ClientId : [at |-> "answered", id |-> c] \in Register
    /\ \A r \in Register : /\ r.at \in {"idle", "sent", "found", "answered"}
                           /\ r.at \in {"sent", "found"} => r.token \in Tokens
                           /\ r.at = "answered" => r.id \in ClientId
BY DEF Register

\* Stopping a daemon keeps the types of what it changes.
LEMMA StopTypes ==
    ASSUME NEW m \in Machines, Stop(m), TypeInv
    PROVE  /\ unit' \in [Machines -> BOOLEAN]
           /\ daemon' \in [Machines -> Daemon]
           /\ agent' \in [Machines -> {"idle", "updating", "restarting", "doomed",
                                       "removing", "removed"}]
<1>1. unit' = [unit EXCEPT ![m] = FALSE]
  BY StopLeaves
<1>2. daemon' = daemon \/ daemon' = [daemon EXCEPT ![m] = Off("clean")]
  BY StopLeaves
<1>3. \/ agent' = agent
      \/ agent' = [agent EXCEPT ![m] = "idle"]
      \/ agent' = [agent EXCEPT ![m] = "doomed"]
  BY StopLeaves
<1> QED BY <1>1, <1>2, <1>3, NewDaemons DEF TypeInv, TypeOK

\* So does removing the data.
LEMMA EraseTypes ==
    ASSUME NEW m \in Machines, NEW why \in {"gone", "told", "refused", "uninstall"},
           Erase(m, why), TypeInv
    PROVE  /\ config' \in [Machines -> {Nobody} \cup ClientId]
           /\ binary' \in [Machines -> BOOLEAN]
           /\ unit' \in [Machines -> BOOLEAN]
           /\ erased' \in [Machines -> [why : {"no", "gone", "told", "refused", "uninstall"},
                                        id : {Nobody} \cup ClientId]]
<1>1. daemon[m].id \in {Nobody} \cup ClientId
  BY DaemonStates DEF TypeInv, TypeOK
<1>2. config' \in [Machines -> {Nobody} \cup ClientId] /\ binary' \in [Machines -> BOOLEAN]
  BY DEF Erase, TypeInv, TypeOK
<1>3. unit' \in [Machines -> BOOLEAN]
  BY DEF Erase, TypeInv, TypeOK
<1> QED BY <1>1, <1>2, <1>3 DEF Erase, TypeInv, HistoryOK

\* Every action keeps the types.
LEMMA TypeStep == TypeInv /\ [Next]_vars => TypeInv'
<1> USE ConstantsOK, NewDaemons DEF TypeInv, TypeOK, HistoryOK
<1> SUFFICES ASSUME TypeInv, [Next]_vars
             PROVE  TypeInv'
  OBVIOUS
<1>1. ASSUME NEW t \in Tokens, GenerateToken(t) PROVE TypeInv'
  BY <1>1 DEF GenerateToken, disk, process, bounds, history
<1>2. ASSUME NEW t \in Tokens, TokenExpires(t) PROVE TypeInv'
  BY <1>2 DEF TokenExpires, disk, process, bounds, history
<1>3. ASSUME NEW c \in ClientId, AdminDelete(c) PROVE TypeInv'
  BY <1>3 DEF AdminDelete, Op, disk, process
<1>4. ASSUME NEW c \in ClientId, Cascade(c) PROVE TypeInv'
  BY <1>4 DEF Cascade, Fault, disk, process, bounds, history
<1>5. ASSUME NEW c \in ClientId, Notify(c) PROVE TypeInv'
  <2>1. ASSUME NEW k \in Sockets, Sent(c, k) PROVE daemon' \in [Machines -> Daemon]
    <3>1. ASSUME NEW m \in Machines, daemon[m].socket \in {"open", "late"}
          PROVE  [daemon[m] EXCEPT !.socket = k] \in Daemon
      BY <3>1, DaemonChanges, DaemonStates
    <3> QED BY <2>1, <3>1 DEF Sent
  <2>2. daemon' \in [Machines -> Daemon]
    BY <1>5, <2>1 DEF Notify, Sockets
  <2>3. deletion' \in [ClientId -> {"none", "asked", "notified"}] /\ faults' \in 0..MaxFaults
    BY <1>5 DEF Notify, Fault, bounds
  <2>4. UNCHANGED <<token, rows, register, config, binary, unit, agent, ops, history>>
    BY <1>5 DEF Notify, Fault, disk, bounds, history
  <2> QED BY <2>2, <2>3, <2>4 DEF history
<1>6. ASSUME NEW m \in Machines, AdminUpdate(m) PROVE TypeInv'
  BY <1>6 DEF AdminUpdate, Op, server, disk, history
<1>7. ASSUME NEW m \in Machines, NEW t \in Tokens, CliRegister(m, t) \/ Install(m, t)
      PROVE  TypeInv'
  <2>1. PICK keep \in BOOLEAN : CleanUp(m, keep)
    BY <1>7 DEF CliRegister, Install
  <2>2. config' \in [Machines -> {Nobody} \cup ClientId] /\ binary' \in [Machines -> BOOLEAN]
    BY <2>1 DEF CleanUp
  <2>3. /\ unit' \in [Machines -> BOOLEAN] /\ daemon' \in [Machines -> Daemon]
        /\ agent' \in [Machines -> {"idle", "updating", "restarting", "doomed", "removing", "removed"}]
    <3>1. CASE Stop(m)
      BY <3>1, StopTypes
    <3>2. CASE UNCHANGED <<unit, process>>
      BY <3>2 DEF process
    <3> QED BY <2>1, <3>1, <3>2 DEF CleanUp
  <2>4. register' \in [Machines -> Register] /\ ops' \in 0..MaxOps
    <3>1. Send(m, t) /\ Op
      BY <1>7 DEF CliRegister, Install
    <3>2. register' \in [Machines -> Register]
      BY <3>1, RegisterStates DEF Send
    <3>3. ops' \in 0..MaxOps
      BY <3>1 DEF Op
    <3> QED BY <3>2, <3>3
  <2>5. UNCHANGED <<token, rows, deletion, faults, history>>
    BY <1>7 DEF CliRegister, Install, Op, server
  <2> QED BY <2>2, <2>3, <2>4, <2>5 DEF history
<1>8. ASSUME NEW m \in Machines, LookUp(m) PROVE TypeInv'
  <2>1. register[m].token \in Tokens
    BY <1>8, RegisterStates DEF LookUp
  <2>2. register' \in [Machines -> Register]
    BY <1>8, <2>1, RegisterStates DEF LookUp
  <2>3. overlapped' \subseteq Tokens
    BY <1>8, <2>1 DEF LookUp
  <2> QED BY <1>8, <2>2, <2>3 DEF LookUp, server, disk, process, bounds
<1>9. ASSUME NEW m \in Machines, Commit(m) PROVE TypeInv'
  <2>1. Len(ids) + 1 \in ClientId /\ register[m].token \in Tokens
    BY <1>9, RegisterStates DEF Commit, ClientId
  <2>2. /\ ids' = Append(ids, register[m].token)
        /\ register' = [register EXCEPT ![m] = [at |-> "answered", id |-> Len(ids) + 1]]
        /\ rows' = rows \cup {Len(ids) + 1}
        /\ token' = [token EXCEPT ![register[m].token] = "used"]
        /\ Len(ids) < MaxClients
    BY <1>9 DEF Commit
  <2>3. ids' \in Seq(Tokens) /\ Len(ids') = Len(ids) + 1
    BY <2>1, <2>2
  <2>4. register' \in [Machines -> Register]
    BY <2>1, <2>2, RegisterStates
  <2>5. rows' \subseteq ClientId /\ token' \in [Tokens -> {"none", "fresh", "expired", "used"}]
    BY <2>1, <2>2
  <2>6. Len(ids') <= MaxClients
    BY <2>2, <2>3
  <2> QED BY <1>9, <2>3, <2>4, <2>5, <2>6 DEF Commit, disk, process, bounds
<1>10. ASSUME NEW m \in Machines, Registered(m) PROVE TypeInv'
  <2>1. register[m].id \in ClientId
    BY <1>10, RegisterStates DEF Registered
  <2> QED BY <1>10, <2>1, RegisterStates DEF Registered, server, process, bounds
<1>11. ASSUME NEW m \in Machines, RegisterFails(m) PROVE TypeInv'
  BY <1>11, RegisterStates DEF RegisterFails, Fault, server, disk, process, history
<1>12. ASSUME NEW m \in Machines, CliStop(m) PROVE TypeInv'
  <2>1. ops' \in 0..MaxOps
    BY <1>12 DEF CliStop, Op
  <2>2. UNCHANGED <<token, rows, deletion, register, config, binary, faults, history>>
    BY <1>12 DEF CliStop, Op, server
  <2> QED BY <1>12, <2>1, <2>2, StopTypes DEF CliStop, history
<1>13. ASSUME NEW m \in Machines, CliUninstall(m) PROVE TypeInv'
  <2>1. /\ ops' \in 0..MaxOps
        /\ config' \in [Machines -> {Nobody} \cup ClientId] /\ binary' \in [Machines -> BOOLEAN]
    BY <1>13 DEF CliUninstall, Op
  <2>2. UNCHANGED <<token, rows, deletion, register, faults, history>>
    BY <1>13 DEF CliUninstall, Op, server
  <2> QED BY <1>13, <2>1, <2>2, StopTypes DEF CliUninstall, history
<1>14. ASSUME NEW m \in Machines, CliStart(m) PROVE TypeInv'
  BY <1>14 DEF CliStart, server, disk, bounds
<1>15. ASSUME NEW m \in Machines, ManagerStarts(m) PROVE TypeInv'
  BY <1>15 DEF ManagerStarts, server, disk, bounds
<1>16. ASSUME NEW m \in Machines, Crash(m) PROVE TypeInv'
  BY <1>16 DEF Crash, Fault, server, disk, history
<1>17. ASSUME NEW m \in Machines, Killed(m) PROVE TypeInv'
  BY <1>17 DEF Killed, server, disk, bounds, history
<1>18. ASSUME NEW m \in Machines, Validate(m) \/ Accept(m) \/ AttemptFails(m) \/ Disconnected(m)
       PROVE  TypeInv'
  <2>1. daemon[m].state # "off"
    BY <1>18, DaemonStates DEF Validate, Connecting, Accept, AttemptFails, Disconnected
  <2>2. daemon[m] \in Daemon
    OBVIOUS
  <2>3. daemon' \in [Machines -> Daemon]
    <3>1. CASE Validate(m)
      BY <2>1, <2>2, <3>1, DaemonChanges DEF Validate, Sockets
    <3>2. CASE Accept(m)
      BY <2>1, <2>2, <3>2, DaemonChanges DEF Accept, Sockets
    <3>3. CASE AttemptFails(m) \/ Disconnected(m)
      BY <2>1, <2>2, <3>3, DaemonChanges DEF AttemptFails, Disconnected, Counted
    <3> QED BY <1>18, <3>1, <3>2, <3>3
  <2>4. streak' \in [Machines -> Nat]
    BY <1>18 DEF Validate, Accept, AttemptFails, Disconnected, history
  <2>5. UNCHANGED <<token, rows, deletion, register, config, binary, unit, agent, ops, faults,
                    ids, overlapped, asked, erased, latest>>
    BY <1>18 DEF Validate, Accept, AttemptFails, Disconnected, server, disk, bounds, history
  <2> QED BY <2>3, <2>4, <2>5
<1>19. ASSUME NEW m \in Machines, Gone(m) PROVE TypeInv'
  BY <1>19, EraseTypes DEF Gone, SelfRemove, server, bounds
<1>20. ASSUME NEW m \in Machines, Deregistered(m) PROVE TypeInv'
  BY <1>20, EraseTypes DEF Deregistered, SelfRemove, server, bounds
<1>21. ASSUME NEW m \in Machines, Refused(m) PROVE TypeInv'
  <2>1. streak' \in [Machines -> Nat] /\ faults' \in 0..MaxFaults
    BY <1>21 DEF Refused, Fault
  <2>2. UNCHANGED <<token, rows, deletion, register, ops, ids, overlapped, asked, latest>>
    BY <1>21 DEF Refused, Fault, server
  <2>3. CASE SelfRemove(m, "refused")
    BY <2>1, <2>2, <2>3, EraseTypes DEF SelfRemove
  <2>4. CASE /\ ~TooMany(m) /\ daemon' = [daemon EXCEPT ![m].failures = @ + 1]
             /\ UNCHANGED <<disk, agent, erased>>
    <3>1. daemon[m].state # "off" /\ daemon[m].failures \in Failures
      BY <1>21, DaemonStates DEF Refused, Connecting
    <3>2. daemon[m].failures + 1 \in Failures
      BY <3>1, <2>4 DEF TooMany, Failures
    <3>3. daemon' \in [Machines -> Daemon]
      BY <2>4, <3>1, <3>2, DaemonChanges
    <3> QED BY <2>1, <2>2, <2>4, <3>3 DEF disk
  <2> QED BY <1>21, <2>3, <2>4 DEF Refused
<1>22. ASSUME NEW m \in Machines, ConfigSaved(m) PROVE TypeInv'
  <2>1. daemon[m].id \in ClientId
    BY <1>22, DaemonStates DEF ConfigSaved
  <2> QED BY <1>22, <2>1 DEF ConfigSaved, server, process, bounds, history
<1>23. ASSUME NEW m \in Machines, NEW next \in {"doomed", "restarting"}, AgentStop(m, next)
       PROVE  TypeInv'
  <2>1. daemon' \in [Machines -> Daemon]
    BY <1>23 DEF AgentStop, StoppedFromInside
  <2>2. agent' \in [Machines -> {"idle", "updating", "restarting", "doomed", "removing", "removed"}]
    BY <1>23 DEF AgentStop, StoppedFromInside
  <2>3. unit' \in [Machines -> BOOLEAN] /\ ops' \in 0..MaxOps /\ faults' = faults
    BY <1>23 DEF AgentStop, Op
  <2>4. UNCHANGED <<token, rows, deletion, register, config, binary, history>>
    BY <1>23 DEF AgentStop, server
  <2> QED BY <2>1, <2>2, <2>3, <2>4 DEF history
<1>24. ASSUME NEW m \in Machines, AgentStarts(m) PROVE TypeInv'
  BY <1>24 DEF AgentStarts, server, bounds, history
<1>25. ASSUME NEW m \in Machines, AgentUninstall(m) PROVE TypeInv'
  <2>1. daemon[m].id \in ClientId
    BY <1>25, DaemonStates DEF AgentUninstall
  <2> QED BY <1>25, <2>1 DEF AgentUninstall, Op, disk
<1>26. ASSUME NEW m \in Machines, AgentErases(m) PROVE TypeInv'
  <2>1. daemon' \in [Machines -> Daemon]
    <3>1. daemon' = daemon \/ daemon' = [daemon EXCEPT ![m] = Off("clean")]
      BY <1>26 DEF AgentErases
    <3> QED BY <3>1
  <2>2. agent' \in [Machines -> {"idle", "updating", "restarting", "doomed", "removing", "removed"}]
    <3>1. agent' = [agent EXCEPT ![m] = "removed"] \/ agent' = [agent EXCEPT ![m] = "idle"]
      BY <1>26 DEF AgentErases
    <3> QED BY <3>1
  <2> QED BY <1>26, <2>1, <2>2, EraseTypes DEF AgentErases, server, bounds
<1>27. ASSUME NEW m \in Machines, AgentExits(m) PROVE TypeInv'
  BY <1>27 DEF AgentExits, server, disk, bounds, history
<1>28. ASSUME NEW m \in Machines, UpdateFails(m) PROVE TypeInv'
  BY <1>28 DEF UpdateFails, server, disk, bounds, history
<1>29. ASSUME NEW m \in Machines, UpdateInstalls(m) PROVE TypeInv'
  BY <1>29 DEF UpdateInstalls, server, bounds, history
<1>30. ASSUME NEW m \in Machines, UpdateBreaks(m) PROVE TypeInv'
  BY <1>30 DEF UpdateBreaks, Fault, server, history
<1>31. CASE UNCHANGED vars
  BY <1>31 DEF vars, server, disk, process, bounds, history
<1> QED
  BY <1>1, <1>2, <1>3, <1>4, <1>5, <1>6, <1>7, <1>8, <1>9, <1>10, <1>11, <1>12, <1>13, <1>14,
     <1>15, <1>16, <1>17, <1>18, <1>19, <1>20, <1>21, <1>22, <1>23, <1>24, <1>25, <1>26,
     <1>27, <1>28, <1>29, <1>30, <1>31
  DEF Next, Admin, Registration, Service, Loop, Agent

\* The types hold in every behaviour.
LEMMA TypeInvAlways == Spec => []TypeInv
<1>1. Init => TypeInv
  BY ConstantsOK, NewDaemons, RegisterStates DEF Init, TypeInv, TypeOK, HistoryOK
<1> QED BY <1>1, TypeStep, PTL DEF Spec

\* The state keeps its types: a daemon that runs has the id of a registered
\* client and fewer refusals in a row than would make it remove itself.
THEOREM TypeCorrect == Spec => []TypeOK
<1>1. TypeInv => TypeOK
  BY DEF TypeInv
<1> QED BY <1>1, TypeInvAlways, PTL

(***************************************************************************)
(* The identities that machines hold.                                      *)
(***************************************************************************)

\* The ids in the configuration, in the daemon, and in an answer on its way.
Held(m) ==
    ({config[m], daemon[m].id}
      \cup IF register[m].at = "answered" THEN {register[m].id} ELSE {}) \ {Nobody}

\* They were registered, and no other machine has them.
HeldInv ==
    /\ \A m \in Machines : Held(m) \subseteq 1..Len(ids)
    /\ \A m, n \in Machines : m # n => Held(m) \cap Held(n) = {}

(***************************************************************************)
(* Tokens.                                                                 *)
(***************************************************************************)

\* A token that has made a client is used; a request that has found it all the
\* same, or beside another, has overlapped with one that did.
TokenInv ==
    /\ \A i \in 1..Len(ids) : token[ids[i]] = "used"
    /\ \A m \in Machines : register[m].at = "found" =>
         /\ \A i \in 1..Len(ids) : ids[i] = register[m].token => ids[i] \in overlapped
         /\ \A n \in Machines : (n # m /\ register[n] = register[m]) =>
                register[m].token \in overlapped
    /\ TokenOnce

(***************************************************************************)
(* Causes: what leads to the removal of a machine's data was asked for, or *)
(* the daemon has counted the refusals one by one.                         *)
(***************************************************************************)
MachineCause(m) ==
    /\ daemon[m].socket = "told" => daemon[m].id \in asked
    /\ agent[m] \in {"removing", "removed"} =>
         daemon[m].state # "off" /\ daemon[m].id \in asked
    /\ daemon[m].state = "offline" => daemon[m].failures <= streak[m]
    /\ erased[m].why = "refused" =>
         config[m] = Nobody /\ daemon[m].state = "off" /\ streak[m] >= MaxAuthFailures
    /\ erased[m].why \in {"gone", "told", "uninstall"} => erased[m].id \in asked

CauseInv ==
    /\ \A c \in 1..Len(ids) : c \notin rows => c \in asked
    /\ \A c \in ClientId : deletion[c] # "none" => c \in asked
    /\ \A m \in Machines : MachineCause(m)

(***************************************************************************)
(* Zombies: a connection that nobody will tell is known to be late, or its *)
(* client is still to be notified.                                         *)
(***************************************************************************)
MachineZombie(m) ==
    /\ daemon[m].state = "offline" => daemon[m].socket \in {"none", "checked"}
    /\ daemon[m].state = "online" => daemon[m].socket \in {"open", "late", "told"}
    /\ daemon[m].socket = "open" =>
         /\ deletion[daemon[m].id] # "notified"
         /\ daemon[m].id \notin rows => agent[m] \in {"removing", "removed"}
ZombieInv == \A m \in Machines : MachineZombie(m)

(***************************************************************************)
(* Identities under systemd: a daemon runs with what was registered last,  *)
(* and a registration begins when the machine has no configuration.        *)
(***************************************************************************)
MachineIdentity(m) ==
    /\ agent[m] # "removed"
    /\ config[m] \in {Nobody, latest[m]}
    /\ register[m].at # "idle" => config[m] = Nobody
    /\ daemon[m].state # "off" => config[m] # Nobody /\ daemon[m].id = latest[m]
IdentityInv == \A m \in Machines : m \notin Launchd => MachineIdentity(m)

\* Everybody but the registrations leaves the tokens alone.
LEMMA TokensLeft ==
    ASSUME [Next]_vars,
           ~ \E t \in Tokens : GenerateToken(t) \/ TokenExpires(t),
           ~ \E m \in Machines : Registration(m)
    PROVE  UNCHANGED <<token, register, ids, overlapped>>
<1>1. CASE \E c \in ClientId : AdminDelete(c) \/ Notify(c) \/ Cascade(c)
  BY <1>1 DEF AdminDelete, Notify, Cascade, history
<1>2. CASE \E m \in Machines : AdminUpdate(m)
  BY <1>2 DEF AdminUpdate, server, history
<1>3. CASE \E m \in Machines : Service(m)
  BY <1>3 DEF Service, CliStop, CliUninstall, CliStart, ManagerStarts, Crash, Killed,
              server, history
<1>4. CASE \E m \in Machines : Loop(m)
  BY <1>4 DEF Loop, Validate, Accept, Gone, Refused, AttemptFails, Disconnected, Deregistered,
              ConfigSaved, server, history
<1>5. CASE \E m \in Machines : Agent(m)
  BY <1>5 DEF Agent, AgentStop, AgentStarts, AgentUninstall, AgentErases, AgentExits,
              UpdateFails, UpdateInstalls, UpdateBreaks, server, history
<1>6. CASE UNCHANGED vars
  BY <1>6 DEF vars, server, history
<1> QED BY <1>1, <1>2, <1>3, <1>4, <1>5, <1>6 DEF Next, Admin

\* The three steps of a registration keep the tokens' invariant.
LEMMA TokenStep == TypeInv /\ TokenInv /\ [Next]_vars => TokenInv'
<1> SUFFICES ASSUME TypeInv, TokenInv, [Next]_vars
             PROVE  TokenInv'
  OBVIOUS
<1>0. /\ token \in [Tokens -> {"none", "fresh", "expired", "used"}]
      /\ register \in [Machines -> Register]
      /\ ids \in Seq(Tokens) /\ overlapped \subseteq Tokens
  BY DEF TypeInv, TypeOK, HistoryOK
<1>1. ASSUME NEW t \in Tokens, GenerateToken(t) \/ TokenExpires(t)
      PROVE  TokenInv'
  <2>1. UNCHANGED <<register, ids, overlapped>>
    BY <1>1 DEF GenerateToken, TokenExpires, history
  <2>2. \A u \in Tokens : token[u] = "used" => token'[u] = "used"
    BY <1>0, <1>1 DEF GenerateToken, TokenExpires
  <2> QED BY <1>0, <2>1, <2>2 DEF TokenInv, TokenOnce
<1>2. ASSUME NEW m \in Machines, NEW t \in Tokens, CliRegister(m, t) \/ Install(m, t)
      PROVE  TokenInv'
  <2>1. /\ UNCHANGED <<token, ids, overlapped>>
        /\ register' = [register EXCEPT ![m] = [at |-> "sent", token |-> t]]
    BY <1>2 DEF CliRegister, Install, Send, server, history
  <2> QED BY <1>0, <2>1 DEF TokenInv, TokenOnce
<1>3. ASSUME NEW m \in Machines, LookUp(m)
      PROVE  TokenInv'
  <2>1. UNCHANGED <<token, ids>>
    BY <1>3 DEF LookUp, server
  <2>2. CASE register' = [register EXCEPT ![m] = [at |-> "idle"]] /\ UNCHANGED overlapped
    BY <1>0, <2>1, <2>2 DEF TokenInv, TokenOnce
  <2>3. CASE /\ token[register[m].token] = "fresh"
             /\ register' = [register EXCEPT ![m] = [at |-> "found", token |-> register[m].token]]
             /\ overlapped' = IF \E n \in Machines :
                                   register[n] = [at |-> "found", token |-> register[m].token]
                              THEN overlapped \cup {register[m].token} ELSE overlapped
    <3> DEFINE t == register[m].token
    <3>1. \A i \in 1..Len(ids) : ids[i] # t
      BY <2>3 DEF TokenInv
    <3>2. overlapped \subseteq overlapped'
      BY <2>3
    <3>3. \A n \in Machines : register[n] = [at |-> "found", token |-> t] => t \in overlapped'
      BY <2>3
    <3>4. register[m].at = "sent"
      BY <1>3 DEF LookUp
    <3>5. /\ register'[m] = [at |-> "found", token |-> t]
          /\ \A n \in Machines : n # m => register'[n] = register[n]
      BY <1>0, <2>3
    <3> HIDE DEF t
    <3>6. ASSUME NEW n \in Machines, register'[n].at = "found",
                 NEW i \in 1..Len(ids), ids[i] = register'[n].token
          PROVE  ids[i] \in overlapped'
      BY <3>1, <3>2, <3>5, <3>6 DEF TokenInv
    <3>7. ASSUME NEW n \in Machines, register'[n].at = "found",
                 NEW o \in Machines, o # n, register'[o] = register'[n]
          PROVE  register'[n].token \in overlapped'
      BY <3>2, <3>3, <3>5, <3>7 DEF TokenInv
    <3>8. TokenOnce'
      BY <2>1, <3>2 DEF TokenInv, TokenOnce
    <3> QED BY <2>1, <3>6, <3>7, <3>8 DEF TokenInv
  <2> QED BY <1>3, <2>2, <2>3 DEF LookUp, Usable
<1>4. ASSUME NEW m \in Machines, Commit(m)
      PROVE  TokenInv'
  <2> DEFINE t == register[m].token
  <2>1. /\ register[m].at = "found" /\ overlapped' = overlapped
        /\ ids' = Append(ids, t)
        /\ token' = [token EXCEPT ![t] = "used"]
        /\ register' = [register EXCEPT ![m] = [at |-> "answered", id |-> Len(ids) + 1]]
    BY <1>4 DEF Commit
  <2>2. t \in Tokens
    BY <1>0, <2>1, RegisterStates
  <2>3. /\ Len(ids') = Len(ids) + 1
        /\ ids'[Len(ids) + 1] = t
        /\ \A i \in 1..Len(ids) : ids'[i] = ids[i]
    BY <1>0, <2>1, <2>2
  <2>4. \A i \in 1..Len(ids) : ids[i] = t => t \in overlapped
    BY <2>1 DEF TokenInv
  <2>5. Len(ids) \in Nat
    BY <1>0
  <2>6. /\ register'[m].at = "answered"
        /\ \A n \in Machines : n # m => register'[n] = register[n]
    BY <1>0, <2>1
  <2>7. ASSUME NEW n \in Machines, n # m, register[n].at = "found", register[n].token = t
        PROVE  t \in overlapped
    <3>1. register[n] \in [at : {"sent", "found"}, token : Tokens]
      BY <1>0, <2>7 DEF Register
    <3>2. register[m] \in [at : {"sent", "found"}, token : Tokens]
      BY <1>0, <2>1 DEF Register
    <3>3. register[n] = register[m]
      BY <2>1, <2>7, <3>1, <3>2
    <3> QED BY <2>1, <2>7, <3>3 DEF TokenInv
  <2> HIDE DEF t
  <2>8. \A i \in 1..Len(ids') : token'[ids'[i]] = "used"
    BY <1>0, <2>1, <2>2, <2>3, <2>5 DEF TokenInv
  <2>9. ASSUME NEW n \in Machines, register'[n].at = "found",
               NEW i \in 1..Len(ids'), ids'[i] = register'[n].token
        PROVE  ids'[i] \in overlapped'
    BY <2>1, <2>3, <2>5, <2>6, <2>7, <2>9 DEF TokenInv
  <2>10. ASSUME NEW n \in Machines, register'[n].at = "found",
                NEW o \in Machines, o # n, register'[o] = register'[n]
         PROVE  register'[n].token \in overlapped'
    BY <2>1, <2>6, <2>10 DEF TokenInv
  <2>11. TokenOnce'
    BY <2>1, <2>3, <2>4, <2>5 DEF TokenInv, TokenOnce
  <2> QED BY <2>8, <2>9, <2>10, <2>11 DEF TokenInv
<1>5. ASSUME NEW m \in Machines, Registered(m) \/ RegisterFails(m)
      PROVE  TokenInv'
  <2>1. UNCHANGED <<token, ids, overlapped>> /\ register' = [register EXCEPT ![m] = [at |-> "idle"]]
    BY <1>5 DEF Registered, RegisterFails, server, history
  <2> QED BY <1>0, <2>1 DEF TokenInv, TokenOnce
<1>6. CASE UNCHANGED <<token, register, ids, overlapped>>
  BY <1>6 DEF TokenInv, TokenOnce
<1> QED BY <1>1, <1>2, <1>3, <1>4, <1>5, <1>6, TokensLeft DEF Registration

\* A registration token makes one client, as the dialog that shows it says,
\* except where the look-up of another request with it fell between the look-up
\* and the update of the first (auth.ts).
THEOREM TokensOnce == Spec => []TokenOnce
<1>1. Init => TokenInv
  BY DEF Init, TokenInv, TokenOnce
<1>2. TokenInv => TokenOnce
  BY DEF TokenInv
<1> QED BY <1>1, <1>2, TokenStep, TypeInvAlways, PTL DEF Spec

\* A machine comes to hold an id only by registering it: whatever it has
\* afterwards it had before, in one place or another.
Inherits(m) ==
    /\ config'[m] \in Held(m) \cup {Nobody}
    /\ daemon'[m].id \in Held(m) \cup {Nobody}
    /\ register'[m].at = "answered" => register'[m] = register[m]

\* A machine whose places are left alone inherits what it has.
LEMMA Kept ==
    ASSUME NEW m \in Machines, config'[m] = config[m], daemon'[m].id = daemon[m].id,
           register'[m] = register[m]
    PROVE  Inherits(m)
BY DEF Inherits, Held

\* Stopping a daemon takes its id from it and changes no other.
LEMMA StopInherits ==
    ASSUME TypeInv, NEW m \in Machines, Stop(m)
    PROVE  /\ daemon'[m].id \in {daemon[m].id, Nobody}
           /\ \A n \in Machines : n # m => daemon'[n] = daemon[n]
<1>1. daemon' = daemon \/ daemon' = [daemon EXCEPT ![m] = Off("clean")]
  BY StopLeaves
<1> QED BY <1>1 DEF TypeInv, TypeOK, Off

\* A registration that is not being committed spreads no new id.
LEMMA RegistrationInherits ==
    ASSUME TypeInv, NEW m \in Machines, Registration(m), ~Commit(m)
    PROVE  ids' = ids /\ \A n \in Machines : Inherits(n)
<1>0. /\ config \in [Machines -> {Nobody} \cup ClientId]
      /\ daemon \in [Machines -> Daemon] /\ register \in [Machines -> Register]
  BY DEF TypeInv, TypeOK
<1>1. ASSUME NEW t \in Tokens, CliRegister(m, t) \/ Install(m, t)
      PROVE  ids' = ids /\ \A n \in Machines : Inherits(n)
  <2>1. PICK keep \in BOOLEAN : CleanUp(m, keep)
    BY <1>1 DEF CliRegister, Install
  <2>2. register' = [register EXCEPT ![m] = [at |-> "sent", token |-> t]] /\ ids' = ids
    BY <1>1 DEF CliRegister, Install, Send, history
  <2>3. /\ config'[m] \in {config[m], Nobody} /\ daemon'[m].id \in {daemon[m].id, Nobody}
        /\ \A n \in Machines : n # m => config'[n] = config[n] /\ daemon'[n] = daemon[n]
    BY <1>0, <2>1, StopInherits DEF CleanUp, process
  <2>4. Inherits(m)
    BY <1>0, <2>2, <2>3 DEF Inherits, Held
  <2>5. ASSUME NEW n \in Machines, n # m PROVE Inherits(n)
    BY <1>0, <2>2, <2>3, <2>5, Kept
  <2> QED BY <2>2, <2>4, <2>5
<1>2. CASE LookUp(m)
  <2>1. ids' = ids /\ config' = config /\ daemon' = daemon
    BY <1>2 DEF LookUp, disk, process
  <2>2. \A n \in Machines : register'[n] = register[n] \/ register'[n].at # "answered"
    BY <1>0, <1>2 DEF LookUp
  <2> QED BY <2>1, <2>2 DEF Inherits, Held
<1>3. CASE Registered(m)
  <2>1. /\ ids' = ids /\ daemon' = daemon /\ register[m].at = "answered"
        /\ config' = [config EXCEPT ![m] = register[m].id]
        /\ register' = [register EXCEPT ![m] = [at |-> "idle"]]
    BY <1>3 DEF Registered, process
  <2>2. Inherits(m)
    BY <1>0, <2>1 DEF Inherits, Held
  <2>3. ASSUME NEW n \in Machines, n # m PROVE Inherits(n)
    BY <1>0, <2>1, <2>3, Kept
  <2> QED BY <2>1, <2>2, <2>3
<1>4. CASE RegisterFails(m)
  <2>1. /\ ids' = ids /\ config' = config /\ daemon' = daemon
        /\ \A n \in Machines : register'[n] = register[n] \/ register'[n].at # "answered"
    BY <1>0, <1>4 DEF RegisterFails, disk, process, history
  <2> QED BY <2>1 DEF Inherits, Held
<1> QED BY <1>1, <1>2, <1>3, <1>4 DEF Registration

\* Nor does anything else.
LEMMA Inheritance ==
    ASSUME TypeInv, [Next]_vars, \A m \in Machines : ~Commit(m)
    PROVE  ids' = ids /\ \A n \in Machines : Inherits(n)
<1>0. /\ config \in [Machines -> {Nobody} \cup ClientId]
      /\ daemon \in [Machines -> Daemon] /\ register \in [Machines -> Register]
  BY DEF TypeInv, TypeOK
<1>1. CASE \E m \in Machines : Registration(m)
  BY <1>1, RegistrationInherits
<1>2. CASE UNCHANGED <<config, register, ids>> /\ \A n \in Machines : daemon'[n].id = daemon[n].id
  BY <1>2, Kept
<1>3. ASSUME NEW m \in Machines, UNCHANGED <<register, ids>>,
             \A n \in Machines : n # m => config'[n] = config[n] /\ daemon'[n] = daemon[n],
             config'[m] \in {config[m], daemon[m].id, Nobody},
             daemon'[m].id \in {config[m], daemon[m].id, Nobody}
      PROVE  ids' = ids /\ \A n \in Machines : Inherits(n)
  <2>1. Inherits(m)
    BY <1>3 DEF Inherits, Held
  <2>2. ASSUME NEW n \in Machines, n # m PROVE Inherits(n)
    BY <1>3, <2>2, Kept
  <2> QED BY <1>3, <2>1, <2>2
<1>4. CASE (\E t \in Tokens : GenerateToken(t) \/ TokenExpires(t)) \/ UNCHANGED vars
  BY <1>2, <1>4 DEF GenerateToken, TokenExpires, vars, disk, process, history
<1>5. ASSUME NEW c \in ClientId, AdminDelete(c) \/ Notify(c) \/ Cascade(c)
      PROVE  ids' = ids /\ \A n \in Machines : Inherits(n)
  <2>1. UNCHANGED <<config, register, ids>>
    BY <1>5 DEF AdminDelete, Notify, Cascade, disk, history
  <2>2. ASSUME NEW n \in Machines PROVE daemon'[n].id = daemon[n].id
    <3>1. ASSUME NEW message, Sent(c, message) PROVE daemon'[n].id = daemon[n].id
      <4>1. CASE daemon'[n] = daemon[n]
        BY <4>1
      <4>2. CASE /\ daemon[n].socket \in {"open", "late"}
                 /\ daemon'[n] = [daemon[n] EXCEPT !.socket = message]
        <5>1. daemon[n] \in LiveDaemon
          BY <1>0, <4>2 DEF LiveDaemon, Daemon, Off, Failures, Sockets
        <5> QED BY <4>2, <5>1 DEF LiveDaemon
      <4> QED BY <3>1, <4>1, <4>2 DEF Sent
    <3> QED BY <1>5, <3>1 DEF AdminDelete, Notify, Cascade, process
  <2> QED BY <1>2, <2>1, <2>2
<1>6. ASSUME NEW m \in Machines, AdminUpdate(m)
      PROVE  ids' = ids /\ \A n \in Machines : Inherits(n)
  BY <1>2, <1>6 DEF AdminUpdate, disk, history
<1>7. ASSUME NEW m \in Machines, CliStop(m) \/ CliUninstall(m)
      PROVE  ids' = ids /\ \A n \in Machines : Inherits(n)
  <2>1. /\ Stop(m) /\ UNCHANGED <<register, ids>>
        /\ config' = config \/ config' = [config EXCEPT ![m] = Nobody]
    BY <1>7 DEF CliStop, CliUninstall, history
  <2>2. /\ config'[m] \in {config[m], Nobody}
        /\ \A n \in Machines : n # m => config'[n] = config[n]
    BY <1>0, <2>1
  <2> QED BY <1>3, <2>1, <2>2, StopInherits
<1>8. ASSUME NEW m \in Machines, CliStart(m) \/ ManagerStarts(m)
      PROVE  ids' = ids /\ \A n \in Machines : Inherits(n)
  <2>1. UNCHANGED <<config, register, ids>> /\ daemon' = [daemon EXCEPT ![m] = Running(config[m])]
    BY <1>8 DEF CliStart, ManagerStarts, disk
  <2>2. /\ daemon'[m].id = config[m]
        /\ \A n \in Machines : n # m => daemon'[n] = daemon[n]
    BY <1>0, <2>1 DEF Running
  <2> QED BY <1>3, <2>1, <2>2
<1>9. ASSUME NEW m \in Machines, Crash(m) \/ Killed(m) \/ AgentExits(m)
      PROVE  ids' = ids /\ \A n \in Machines : Inherits(n)
  <2>1. /\ UNCHANGED <<config, register, ids>>
        /\ \/ daemon' = [daemon EXCEPT ![m] = Off("failed")]
           \/ daemon' = [daemon EXCEPT ![m] = Off("clean")]
    BY <1>9 DEF Crash, Killed, AgentExits, disk, history
  <2>2. /\ daemon'[m].id = Nobody
        /\ \A n \in Machines : n # m => daemon'[n] = daemon[n]
    BY <1>0, <2>1 DEF Off
  <2> QED BY <1>3, <2>1, <2>2
<1>10. ASSUME NEW m \in Machines, Validate(m) \/ Accept(m) \/ AttemptFails(m) \/ Disconnected(m)
      PROVE  ids' = ids /\ \A n \in Machines : Inherits(n)
  <2>1. UNCHANGED <<config, register, ids>>
    BY <1>10 DEF Validate, Accept, AttemptFails, Disconnected, disk, history
  <2>2. daemon[m] \in LiveDaemon
    BY <1>0, <1>10 DEF Validate, Connecting, Accept, AttemptFails, Disconnected, LiveDaemon,
                       Daemon, Off, Failures, Sockets
  <2>3. daemon'[m].id = daemon[m].id /\ \A n \in Machines : n # m => daemon'[n] = daemon[n]
    <3>1. CASE Validate(m)
      BY <1>0, <2>2, <3>1 DEF Validate, LiveDaemon
    <3>2. CASE Accept(m)
      BY <1>0, <2>2, <3>2 DEF Accept, LiveDaemon
    <3>3. CASE AttemptFails(m)
      BY <1>0, <2>2, <3>3 DEF AttemptFails, LiveDaemon
    <3>4. CASE Disconnected(m)
      BY <1>0, <2>2, <3>4 DEF Disconnected, LiveDaemon
    <3> QED BY <1>10, <3>1, <3>2, <3>3, <3>4
  <2> QED BY <1>2, <2>1, <2>3
<1>11. ASSUME NEW m \in Machines, NEW why, Erase(m, why), UNCHANGED <<register, ids>>,
             daemon' = daemon \/ daemon' = [daemon EXCEPT ![m] = Off("clean")]
      PROVE  ids' = ids /\ \A n \in Machines : Inherits(n)
  <2>1. config'[m] = Nobody /\ \A n \in Machines : n # m => config'[n] = config[n]
    BY <1>0, <1>11 DEF Erase
  <2>2. /\ daemon'[m].id \in {daemon[m].id, Nobody}
        /\ \A n \in Machines : n # m => daemon'[n] = daemon[n]
    BY <1>0, <1>11 DEF Off
  <2> QED BY <1>3, <1>11, <2>1, <2>2
<1>12. ASSUME NEW m \in Machines, Gone(m) \/ Deregistered(m) \/ AgentErases(m)
      PROVE  ids' = ids /\ \A n \in Machines : Inherits(n)
  <2>1. CASE AgentErases(m)
    BY <1>11, <2>1 DEF AgentErases
  <2> QED BY <1>11, <1>12, <2>1 DEF Gone, Deregistered, SelfRemove
<1>13. ASSUME NEW m \in Machines, Refused(m)
      PROVE  ids' = ids /\ \A n \in Machines : Inherits(n)
  <2>1. CASE SelfRemove(m, "refused")
    BY <1>11, <1>13, <2>1 DEF Refused, SelfRemove
  <2>2. CASE daemon' = [daemon EXCEPT ![m].failures = @ + 1] /\ UNCHANGED disk
    <3>1. daemon[m] \in LiveDaemon
      BY <1>0, <1>13 DEF Refused, Connecting, LiveDaemon, Daemon, Off, Failures, Sockets
    <3>2. daemon'[m].id = daemon[m].id /\ \A n \in Machines : n # m => daemon'[n] = daemon[n]
      BY <1>0, <2>2, <3>1 DEF LiveDaemon
    <3> QED BY <1>2, <1>13, <2>2, <3>2 DEF Refused, disk
  <2> QED BY <1>13, <2>1, <2>2 DEF Refused
<1>14. ASSUME NEW m \in Machines, ConfigSaved(m)
      PROVE  ids' = ids /\ \A n \in Machines : Inherits(n)
  <2>1. /\ UNCHANGED <<daemon, register, ids>>
        /\ config'[m] = daemon[m].id /\ \A n \in Machines : n # m => config'[n] = config[n]
    BY <1>0, <1>14 DEF ConfigSaved, process, history
  <2> QED BY <1>3, <2>1
<1>15. ASSUME NEW m \in Machines, NEW next \in {"doomed", "restarting"}, AgentStop(m, next)
      PROVE  ids' = ids /\ \A n \in Machines : Inherits(n)
  <2>1. /\ UNCHANGED <<config, register, ids>>
        /\ daemon' = daemon \/ daemon' = [daemon EXCEPT ![m] = Off("clean")]
    BY <1>15 DEF AgentStop, StoppedFromInside, history
  <2>2. /\ daemon'[m].id \in {daemon[m].id, Nobody}
        /\ \A n \in Machines : n # m => daemon'[n] = daemon[n]
    BY <1>0, <2>1 DEF Off
  <2> QED BY <1>3, <2>1, <2>2
<1>16. ASSUME NEW m \in Machines,
              AgentStarts(m) \/ AgentUninstall(m) \/ UpdateFails(m) \/ UpdateBreaks(m)
      PROVE  ids' = ids /\ \A n \in Machines : Inherits(n)
  BY <1>2, <1>16 DEF AgentStarts, AgentUninstall, UpdateFails, UpdateBreaks, disk, history
<1>17. ASSUME NEW m \in Machines, UpdateInstalls(m)
      PROVE  ids' = ids /\ \A n \in Machines : Inherits(n)
  <2>1. /\ UNCHANGED <<config, register, ids>>
        /\ daemon' = [daemon EXCEPT ![m] = IF unit[m] THEN Off("failed") ELSE @]
    BY <1>17 DEF UpdateInstalls, history
  <2>2. /\ daemon'[m].id \in {daemon[m].id, Nobody}
        /\ \A n \in Machines : n # m => daemon'[n] = daemon[n]
    BY <1>0, <2>1 DEF Off
  <2> QED BY <1>3, <2>1, <2>2
<1> QED
  BY <1>1, <1>4, <1>5, <1>6, <1>7, <1>8, <1>9, <1>10, <1>12, <1>13, <1>14, <1>15, <1>16, <1>17
  DEF Next, Admin, Service, Loop, Agent

\* An id stays with the machine that registered it: the commit gives it a new
\* one, and the others pass on what they have.
LEMMA HeldStep == TypeInv /\ HeldInv /\ [Next]_vars => HeldInv'
<1> SUFFICES ASSUME TypeInv, HeldInv, [Next]_vars
             PROVE  HeldInv'
  OBVIOUS
<1>1. CASE \A m \in Machines : ~Commit(m)
  <2>1. ids' = ids /\ \A n \in Machines : Inherits(n)
    BY <1>1, Inheritance
  <2>2. ASSUME NEW n \in Machines PROVE Held(n)' \subseteq Held(n)
    BY <2>1 DEF Inherits, Held
  <2> QED BY <2>1, <2>2 DEF HeldInv
<1>2. ASSUME NEW m \in Machines, Commit(m) PROVE HeldInv'
  <2>1. /\ UNCHANGED <<config, daemon>> /\ ids' = Append(ids, register[m].token)
        /\ register[m].at = "found"
        /\ register' = [register EXCEPT ![m] = [at |-> "answered", id |-> Len(ids) + 1]]
    BY <1>2 DEF Commit, disk, process
  <2>2. register \in [Machines -> Register] /\ ids \in Seq(Tokens)
    BY DEF TypeInv, TypeOK, HistoryOK
  <2>3. register[m].token \in Tokens
    BY <2>1, <2>2, RegisterStates
  <2>4. Len(ids') = Len(ids) + 1 /\ Len(ids) \in Nat
    BY <2>1, <2>2, <2>3
  <2>5. /\ Held(m)' \subseteq Held(m) \cup {Len(ids) + 1}
        /\ \A n \in Machines : n # m => Held(n)' = Held(n)
    BY <2>1, <2>2 DEF Held
  <2>6. \A n \in Machines : Len(ids) + 1 \notin Held(n)
    BY <2>4 DEF HeldInv
  <2>7. \A n \in Machines : Held(n)' \subseteq 1..Len(ids')
    BY <2>4, <2>5 DEF HeldInv
  <2> QED BY <2>5, <2>6, <2>7 DEF HeldInv
<1> QED BY <1>1, <1>2

\* No two machines ever have the same id.
LEMMA HeldInvAlways == Spec => []HeldInv
<1>1. Init => HeldInv
  BY DEF Init, HeldInv, Held, Off
<1> QED BY <1>1, HeldStep, TypeInvAlways, PTL DEF Spec

(***************************************************************************)
(* What the actions do to the machines, without the records.               *)
(***************************************************************************)

\* What belongs to one machine.
Places(m) == <<register[m], config[m], binary[m], unit[m], daemon[m], agent[m],
               erased[m], streak[m], latest[m]>>

\* A machine's own actions change that machine only.
LEMMA OneMachine ==
    ASSUME TypeInv, NEW m \in Machines,
           AdminUpdate(m) \/ Registration(m) \/ Service(m) \/ Loop(m) \/ Agent(m),
           NEW n \in Machines, n # m
    PROVE  Places(n)' = Places(n)
<1> USE DEF Places
<1>0. /\ register \in [Machines -> Register] /\ config \in [Machines -> {Nobody} \cup ClientId]
      /\ binary \in [Machines -> BOOLEAN] /\ unit \in [Machines -> BOOLEAN]
      /\ daemon \in [Machines -> Daemon]
      /\ agent \in [Machines -> {"idle", "updating", "restarting", "doomed", "removing", "removed"}]
      /\ erased \in [Machines -> [why : {"no", "gone", "told", "refused", "uninstall"},
                                  id : {Nobody} \cup ClientId]]
      /\ streak \in [Machines -> Nat] /\ latest \in [Machines -> {Nobody} \cup ClientId]
  BY DEF TypeInv, TypeOK, HistoryOK
<1>1. CASE AdminUpdate(m)
  BY <1>0, <1>1 DEF AdminUpdate, disk, history
<1>2. ASSUME Stop(m) PROVE daemon'[n] = daemon[n] /\ agent'[n] = agent[n] /\ unit'[n] = unit[n]
  BY <1>0, <1>2 DEF Stop
<1>3. CASE Registration(m)
  <2>1. ASSUME NEW t \in Tokens, CliRegister(m, t) \/ Install(m, t) PROVE Places(n)' = Places(n)
    <3>1. PICK keep \in BOOLEAN : CleanUp(m, keep)
      BY <2>1 DEF CliRegister, Install
    <3>2. /\ config'[n] = config[n] /\ binary'[n] = binary[n] /\ daemon'[n] = daemon[n]
          /\ agent'[n] = agent[n] /\ unit'[n] = unit[n]
      BY <1>0, <1>2, <3>1 DEF CleanUp, process
    <3>3. register'[n] = register[n] /\ UNCHANGED <<erased, streak, latest>>
      BY <1>0, <2>1 DEF CliRegister, Install, Send, history
    <3> QED BY <3>2, <3>3
  <2>2. CASE LookUp(m) \/ Commit(m) \/ RegisterFails(m)
    <3>1. UNCHANGED <<config, binary, unit, daemon, agent, erased, streak, latest>>
      BY <2>2 DEF LookUp, Commit, RegisterFails, disk, process, history
    <3>2. register'[n] = register[n]
      BY <1>0, <2>2 DEF LookUp, Commit, RegisterFails
    <3> QED BY <3>1, <3>2
  <2>3. CASE Registered(m)
    BY <1>0, <2>3 DEF Registered, process
  <2> QED BY <1>3, <2>1, <2>2, <2>3 DEF Registration
<1>4. CASE Service(m)
  <2>1. CASE CliStop(m) \/ CliUninstall(m)
    <3>1. config'[n] = config[n] /\ binary'[n] = binary[n] /\ Stop(m)
      BY <1>0, <2>1 DEF CliStop, CliUninstall
    <3>2. UNCHANGED <<register, erased, streak, latest>>
      BY <2>1 DEF CliStop, CliUninstall, history
    <3> QED BY <1>2, <3>1, <3>2
  <2>2. CASE CliStart(m) \/ ManagerStarts(m)
    BY <1>0, <2>2 DEF CliStart, ManagerStarts, disk
  <2>3. CASE Crash(m) \/ Killed(m)
    BY <1>0, <2>3 DEF Crash, Killed, disk, history
  <2> QED BY <1>4, <2>1, <2>2, <2>3 DEF Service
<1>5. ASSUME NEW why, Erase(m, why)
      PROVE  /\ config'[n] = config[n] /\ binary'[n] = binary[n]
             /\ unit'[n] = unit[n] /\ erased'[n] = erased[n]
  BY <1>0, <1>5 DEF Erase
<1>6. ASSUME NEW why, SelfRemove(m, why), UNCHANGED <<register, latest>>, streak'[n] = streak[n]
      PROVE  Places(n)' = Places(n)
  BY <1>0, <1>5, <1>6 DEF SelfRemove
<1>7. CASE Loop(m)
  <2>1. CASE Validate(m) \/ Accept(m) \/ AttemptFails(m) \/ Disconnected(m)
    <3>1. daemon'[n] = daemon[n] /\ streak'[n] = streak[n]
      BY <1>0, <2>1 DEF Validate, Accept, AttemptFails, Disconnected, history
    <3>2. UNCHANGED <<register, config, binary, unit, agent, erased, latest>>
      BY <2>1 DEF Validate, Accept, AttemptFails, Disconnected, disk, history
    <3> QED BY <3>1, <3>2
  <2>2. CASE Gone(m) \/ Deregistered(m)
    BY <1>6, <2>2 DEF Gone, Deregistered
  <2>3. CASE Refused(m)
    <3>1. streak'[n] = streak[n] /\ UNCHANGED <<register, latest>>
      BY <1>0, <2>3 DEF Refused
    <3>2. CASE SelfRemove(m, "refused")
      BY <1>6, <3>1, <3>2
    <3>3. CASE daemon' = [daemon EXCEPT ![m].failures = @ + 1] /\ UNCHANGED <<disk, agent, erased>>
      BY <1>0, <3>1, <3>3 DEF disk
    <3> QED BY <2>3, <3>2, <3>3 DEF Refused
  <2>4. CASE ConfigSaved(m)
    BY <1>0, <2>4 DEF ConfigSaved, process, history
  <2> QED BY <1>7, <2>1, <2>2, <2>3, <2>4 DEF Loop
<1>8. CASE Agent(m)
  <2>1. ASSUME NEW next \in {"doomed", "restarting"}, AgentStop(m, next)
        PROVE  Places(n)' = Places(n)
    <3>1. daemon'[n] = daemon[n] /\ agent'[n] = agent[n]
      BY <1>0, <2>1 DEF AgentStop, StoppedFromInside
    <3> QED BY <1>0, <2>1, <3>1 DEF AgentStop, history
  <2>2. CASE AgentStarts(m) \/ AgentUninstall(m)
    BY <1>0, <2>2 DEF AgentStarts, AgentUninstall, disk, history
  <2>3. CASE AgentErases(m)
    <3>1. daemon'[n] = daemon[n] /\ agent'[n] = agent[n]
      BY <1>0, <2>3 DEF AgentErases
    <3>2. UNCHANGED <<register, streak, latest>>
      BY <2>3 DEF AgentErases
    <3> QED BY <1>5, <2>3, <3>1, <3>2 DEF AgentErases
  <2>4. CASE AgentExits(m) \/ UpdateFails(m)
    BY <1>0, <2>4 DEF AgentExits, UpdateFails, disk, history
  <2>5. CASE UpdateInstalls(m) \/ UpdateBreaks(m)
    BY <1>0, <2>5 DEF UpdateInstalls, UpdateBreaks, history
  <2> QED BY <1>8, <2>1, <2>2, <2>3, <2>4, <2>5 DEF Agent
<1> QED BY <1>1, <1>3, <1>4, <1>7, <1>8

\* A daemon that is not off is a live one.
LEMMA DaemonLives ==
    ASSUME TypeInv, NEW m \in Machines, daemon[m].state # "off"
    PROVE  daemon[m] \in LiveDaemon
<1>1. daemon[m] \in Daemon
  BY DEF TypeInv, TypeOK
<1> QED BY <1>1 DEF LiveDaemon, Daemon, Off, Failures, Sockets

\* What the reconnecting loop does to its daemon, field by field.
LEMMA LoopEffects ==
    ASSUME TypeInv, NEW m \in Machines
    PROVE  /\ Validate(m) =>
                /\ daemon[m].state = "offline" /\ daemon'[m].state = "offline"
                /\ daemon'[m].socket = "checked"
                /\ daemon'[m].id = daemon[m].id /\ daemon'[m].failures = daemon[m].failures
           /\ Accept(m) =>
                /\ daemon[m].state # "off" /\ daemon'[m].state = "online"
                /\ daemon'[m].socket = IF daemon[m].id \in rows /\ deletion[daemon[m].id] # "notified"
                                       THEN "open" ELSE "late"
                /\ daemon'[m].id = daemon[m].id
           /\ AttemptFails(m) \/ Disconnected(m) =>
                /\ daemon[m].state # "off" /\ daemon'[m].state = "offline"
                /\ daemon'[m].socket = "none"
                /\ daemon'[m].id = daemon[m].id /\ daemon'[m].failures = 0
           /\ Refused(m) =>
                /\ daemon[m].state = "offline"
                /\ \/ SelfRemove(m, "refused") /\ TooMany(m)
                   \/ /\ daemon'[m].state = "offline" /\ daemon'[m].socket = "none"
                      /\ daemon'[m].id = daemon[m].id
                      /\ daemon'[m].failures = daemon[m].failures + 1
                      /\ UNCHANGED <<disk, agent, erased>>
<1>0. daemon \in [Machines -> Daemon]
  BY DEF TypeInv, TypeOK
<1>1. ASSUME Validate(m)
      PROVE  /\ daemon[m].state = "offline" /\ daemon'[m].state = "offline"
             /\ daemon'[m].socket = "checked"
             /\ daemon'[m].id = daemon[m].id /\ daemon'[m].failures = daemon[m].failures
  <2>1. daemon[m] \in LiveDaemon
    BY <1>1, DaemonLives DEF Validate, Connecting
  <2> QED BY <1>0, <1>1, <2>1 DEF Validate, Connecting, LiveDaemon
<1>2. ASSUME Accept(m)
      PROVE  /\ daemon[m].state # "off" /\ daemon'[m].state = "online"
             /\ daemon'[m].socket = IF daemon[m].id \in rows /\ deletion[daemon[m].id] # "notified"
                                    THEN "open" ELSE "late"
             /\ daemon'[m].id = daemon[m].id
  <2>1. daemon[m].state # "off"
    BY <1>0, <1>2, DaemonStates DEF Accept
  <2>2. daemon[m] \in LiveDaemon
    BY <2>1, DaemonLives
  <2> QED BY <1>0, <1>2, <2>1, <2>2 DEF Accept, LiveDaemon
<1>3. ASSUME AttemptFails(m) \/ Disconnected(m)
      PROVE  /\ daemon[m].state # "off" /\ daemon'[m].state = "offline"
             /\ daemon'[m].socket = "none"
             /\ daemon'[m].id = daemon[m].id /\ daemon'[m].failures = 0
  <2>1. daemon[m].state # "off"
    BY <1>3 DEF AttemptFails, Disconnected
  <2>2. daemon[m] \in LiveDaemon
    BY <2>1, DaemonLives
  <2>3. CASE AttemptFails(m)
    BY <1>0, <2>1, <2>2, <2>3 DEF AttemptFails, Counted, LiveDaemon
  <2>4. CASE Disconnected(m)
    BY <1>0, <2>1, <2>2, <2>4 DEF Disconnected, Counted, LiveDaemon
  <2> QED BY <1>3, <2>3, <2>4
<1>4. ASSUME Refused(m)
      PROVE  /\ daemon[m].state = "offline"
             /\ \/ SelfRemove(m, "refused") /\ TooMany(m)
                \/ /\ daemon'[m].state = "offline" /\ daemon'[m].socket = "none"
                   /\ daemon'[m].id = daemon[m].id
                   /\ daemon'[m].failures = daemon[m].failures + 1
                   /\ UNCHANGED <<disk, agent, erased>>
  <2>1. daemon[m].state = "offline" /\ daemon[m].socket = "none"
    BY <1>4 DEF Refused, Connecting
  <2>2. daemon[m] \in LiveDaemon
    BY <2>1, DaemonLives
  <2>3. CASE daemon' = [daemon EXCEPT ![m].failures = @ + 1] /\ UNCHANGED <<disk, agent, erased>>
    BY <1>0, <2>1, <2>2, <2>3 DEF LiveDaemon
  <2> QED BY <1>4, <2>1, <2>3 DEF Refused
<1> QED BY <1>1, <1>2, <1>3, <1>4

\* A message that is sent changes nothing but the sockets it is sent to.
LEMMA SentEffects ==
    ASSUME TypeInv, NEW c \in ClientId, NEW message, Sent(c, message), NEW m \in Machines
    PROVE  \/ daemon'[m] = daemon[m] /\ ~ (daemon[m].id = c /\ daemon[m].socket \in {"open", "late"})
           \/ /\ daemon[m].id = c /\ daemon[m].socket \in {"open", "late"}
              /\ daemon[m].state # "off"
              /\ daemon'[m].state = daemon[m].state /\ daemon'[m].id = c
              /\ daemon'[m].failures = daemon[m].failures /\ daemon'[m].socket = message
<1>1. CASE ~ (daemon[m].id = c /\ daemon[m].socket \in {"open", "late"})
  BY <1>1 DEF Sent
<1>2. CASE daemon[m].id = c /\ daemon[m].socket \in {"open", "late"}
  <2>1. daemon[m].state # "off"
    BY <1>2, DaemonStates DEF TypeInv, TypeOK
  <2>2. daemon[m] \in LiveDaemon
    BY <2>1, DaemonLives
  <2>3. daemon'[m] = [daemon[m] EXCEPT !.socket = message]
    BY <1>2 DEF Sent
  <2> QED BY <1>2, <2>1, <2>2, <2>3 DEF LiveDaemon
<1> QED BY <1>1, <1>2

\* Rows and deletions go only for what was asked.
LEMMA CauseGlobals ==
    ASSUME TypeInv, HeldInv, CauseInv, [Next]_vars
    PROVE  /\ asked \subseteq asked'
           /\ \A c \in 1..Len(ids') : c \notin rows' => c \in asked'
           /\ \A c \in ClientId : deletion'[c] # "none" => c \in asked'
<1> USE DEF CauseInv
<1>1. CASE UNCHANGED <<rows, deletion, asked, ids>>
  BY <1>1
<1>2. ASSUME NEW c \in ClientId, AdminDelete(c) \/ Notify(c) \/ Cascade(c)
      PROVE  /\ asked \subseteq asked'
             /\ \A d \in 1..Len(ids') : d \notin rows' => d \in asked'
             /\ \A d \in ClientId : deletion'[d] # "none" => d \in asked'
  <2>1. ids' = ids
    BY <1>2 DEF AdminDelete, Notify, Cascade, history
  <2>2. CASE AdminDelete(c)
    BY <2>1, <2>2 DEF AdminDelete, TypeInv, TypeOK
  <2>3. CASE Notify(c)
    BY <2>1, <2>3 DEF Notify, history, TypeInv, TypeOK
  <2>4. CASE Cascade(c)
    BY <2>1, <2>4 DEF Cascade, Awaited, history, TypeInv, TypeOK
  <2> QED BY <1>2, <2>2, <2>3, <2>4
<1>3. ASSUME NEW m \in Machines, Commit(m)
      PROVE  /\ asked \subseteq asked'
             /\ \A d \in 1..Len(ids') : d \notin rows' => d \in asked'
             /\ \A d \in ClientId : deletion'[d] # "none" => d \in asked'
  <2>1. /\ ids' = Append(ids, register[m].token) /\ rows' = rows \cup {Len(ids) + 1}
        /\ UNCHANGED <<deletion, asked>> /\ register[m].at = "found"
    BY <1>3 DEF Commit
  <2>2. register[m] \in Register /\ ids \in Seq(Tokens)
    BY DEF TypeInv, TypeOK, HistoryOK
  <2>3. Len(ids') = Len(ids) + 1 /\ Len(ids) \in Nat
    BY <2>1, <2>2, RegisterStates
  <2> QED BY <2>1, <2>3
<1>4. ASSUME NEW m \in Machines, AgentUninstall(m)
      PROVE  /\ asked \subseteq asked'
             /\ \A d \in 1..Len(ids') : d \notin rows' => d \in asked'
             /\ \A d \in ClientId : deletion'[d] # "none" => d \in asked'
  BY <1>4 DEF AgentUninstall
<1>5. CASE (\E t \in Tokens : GenerateToken(t) \/ TokenExpires(t)) \/ UNCHANGED vars
  BY <1>1, <1>5 DEF GenerateToken, TokenExpires, vars, server, history
<1>6. ASSUME NEW m \in Machines, AdminUpdate(m) \/ Registration(m) \/ Service(m), ~Commit(m)
      PROVE  UNCHANGED <<rows, deletion, asked, ids>>
  <2>1. CASE AdminUpdate(m)
    BY <2>1 DEF AdminUpdate, server, history
  <2>2. CASE Registration(m)
    BY <1>6, <2>2 DEF Registration, CliRegister, Install, LookUp, Registered, RegisterFails,
                      server, history
  <2>3. CASE Service(m)
    BY <2>3 DEF Service, CliStop, CliUninstall, CliStart, ManagerStarts, Crash, Killed,
                server, history
  <2> QED BY <1>6, <2>1, <2>2, <2>3
<1>7. ASSUME NEW m \in Machines, Loop(m) PROVE UNCHANGED <<rows, deletion, asked, ids>>
  BY <1>7 DEF Loop, Validate, Accept, Gone, Refused, AttemptFails, Disconnected, Deregistered,
              ConfigSaved, server, history
<1>8. ASSUME NEW m \in Machines, Agent(m), ~AgentUninstall(m)
      PROVE  UNCHANGED <<rows, deletion, asked, ids>>
  BY <1>8 DEF Agent, AgentStop, AgentStarts, AgentErases, AgentExits, UpdateFails,
              UpdateInstalls, UpdateBreaks, server, history
<1> QED BY <1>1, <1>2, <1>3, <1>4, <1>5, <1>6, <1>7, <1>8 DEF Next, Admin

\* A stop from outside gives no cause.
LEMMA StopCause ==
    ASSUME TypeInv, NEW m \in Machines, Stop(m), MachineCause(m), asked \subseteq asked',
           config'[m] \in {config[m], Nobody}, erased' = erased, streak' = streak
    PROVE  MachineCause(m)'
<1>0. /\ daemon \in [Machines -> Daemon]
      /\ agent \in [Machines -> {"idle", "updating", "restarting", "doomed", "removing", "removed"}]
  BY DEF TypeInv, TypeOK
<1>1. CASE daemon' = daemon /\ (agent' = agent \/ agent'[m] \in {"idle", "doomed"})
  BY <1>1 DEF MachineCause
<1>2. CASE daemon' = [daemon EXCEPT ![m] = Off("clean")] /\ agent' = [agent EXCEPT ![m] = "idle"]
  BY <1>0, <1>2 DEF MachineCause, Off
<1> QED BY <1>0, <1>1, <1>2, StopLeaves

\* Nor does an end of the process.
LEMMA EndCause ==
    ASSUME TypeInv, NEW m \in Machines, MachineCause(m), asked \subseteq asked',
           daemon'[m] \in {Off("clean"), Off("failed")}, agent'[m] = "idle",
           config'[m] \in {config[m], Nobody}, erased'[m] = erased[m], streak'[m] = streak[m]
    PROVE  MachineCause(m)'
BY DEF MachineCause, Off

\* A removal of the data is a cause of its own.
LEMMA EraseCause ==
    ASSUME TypeInv, NEW m \in Machines, NEW why \in {"gone", "told", "uninstall"}, Erase(m, why),
           MachineCause(m), daemon[m].id \in asked, asked' = asked, streak' = streak,
           \/ daemon'[m] = Off("clean") /\ agent'[m] = "idle"
           \/ daemon'[m] = daemon[m] /\ agent'[m] = "removed" /\ agent[m] = "removing"
    PROVE  MachineCause(m)'
<1>1. erased'[m] = [why |-> why, id |-> daemon[m].id]
  BY DEF Erase, TypeInv, HistoryOK
<1>2. CASE daemon'[m] = Off("clean") /\ agent'[m] = "idle"
  BY <1>1, <1>2 DEF MachineCause, Off
<1>3. CASE daemon'[m] = daemon[m] /\ agent'[m] = "removed" /\ agent[m] = "removing"
  BY <1>1, <1>3 DEF MachineCause
<1> QED BY <1>2, <1>3

\* The loop keeps the causes, and its removals have one.
LEMMA LoopCause ==
    ASSUME TypeInv, HeldInv, CauseInv, NEW m \in Machines, Loop(m)
    PROVE  MachineCause(m)'
<1>0. /\ daemon \in [Machines -> Daemon] /\ config \in [Machines -> {Nobody} \cup ClientId]
      /\ agent \in [Machines -> {"idle", "updating", "restarting", "doomed", "removing", "removed"}]
      /\ streak \in [Machines -> Nat]
      /\ erased \in [Machines -> [why : {"no", "gone", "told", "refused", "uninstall"},
                                  id : {Nobody} \cup ClientId]]
  BY DEF TypeInv, TypeOK, HistoryOK
<1>1. MachineCause(m)
  BY DEF CauseInv
<1>2. CASE Validate(m)
  <2>1. UNCHANGED <<config, agent, asked, erased, streak>>
    BY <1>2 DEF Validate, disk, history
  <2> QED BY <1>1, <1>2, <2>1, LoopEffects DEF MachineCause
<1>3. CASE Accept(m)
  <2>1. UNCHANGED <<config, agent, asked, erased>>
    BY <1>3 DEF Accept, disk
  <2> QED BY <1>1, <1>3, <2>1, LoopEffects DEF MachineCause
<1>4. CASE AttemptFails(m) \/ Disconnected(m)
  <2>1. UNCHANGED <<config, agent, asked, erased>> /\ streak'[m] \in Nat
    BY <1>0, <1>4 DEF AttemptFails, Disconnected, disk, history
  <2>2. /\ daemon[m].state # "off" /\ daemon'[m].state = "offline"
        /\ daemon'[m].socket = "none"
        /\ daemon'[m].id = daemon[m].id /\ daemon'[m].failures = 0
    BY <1>4, LoopEffects
  <2> QED BY <1>1, <2>1, <2>2 DEF MachineCause
<1>5. CASE Gone(m)
  <2>1. daemon[m].id \in asked
    <3>1. daemon[m].id \in ClientId /\ daemon[m].id # Nobody
      BY <1>0, <1>5, DaemonStates DEF Gone, Connecting, ClientId, Nobody
    <3>2. daemon[m].id \in 1..Len(ids)
      BY <3>1 DEF HeldInv, Held
    <3> QED BY <1>5, <3>2 DEF Gone, IsGone, CauseInv
  <2>2. daemon'[m] = Off("clean") /\ agent'[m] = "idle"
    BY <1>0, <1>5 DEF Gone, SelfRemove
  <2> QED BY <1>1, <1>5, <2>1, <2>2, EraseCause DEF Gone, SelfRemove
<1>6. CASE Deregistered(m)
  <2>1. daemon[m].id \in asked
    BY <1>1, <1>6 DEF Deregistered, MachineCause
  <2>2. daemon'[m] = Off("clean") /\ agent'[m] = "idle"
    BY <1>0, <1>6 DEF Deregistered, SelfRemove
  <2> QED BY <1>1, <1>6, <2>1, <2>2, EraseCause DEF Deregistered, SelfRemove
<1>7. CASE Refused(m)
  <2>1. /\ streak'[m] = streak[m] + 1 /\ asked' = asked /\ streak[m] \in Nat
        /\ daemon[m].state = "offline" /\ daemon[m].failures <= streak[m]
    BY <1>0, <1>1, <1>7, LoopEffects DEF Refused, MachineCause
  <2>2. daemon[m].failures \in Nat
    BY <2>1, DaemonLives, ConstantsOK DEF LiveDaemon, Failures
  <2>3. CASE SelfRemove(m, "refused") /\ TooMany(m)
    <3>1. /\ daemon'[m] = Off("clean") /\ agent'[m] = "idle" /\ config'[m] = Nobody
          /\ erased'[m] = [why |-> "refused", id |-> daemon[m].id]
      BY <1>0, <2>3 DEF SelfRemove, Erase
    <3>2. streak'[m] >= MaxAuthFailures
      BY <2>1, <2>2, <2>3, ConstantsOK DEF TooMany
    <3> QED BY <3>1, <3>2 DEF MachineCause, Off
  <2>4. CASE /\ daemon'[m].state = "offline" /\ daemon'[m].socket = "none"
             /\ daemon'[m].id = daemon[m].id
             /\ daemon'[m].failures = daemon[m].failures + 1
             /\ UNCHANGED <<disk, agent, erased>>
    BY <1>1, <2>1, <2>2, <2>4 DEF MachineCause, disk
  <2> QED BY <1>7, <2>3, <2>4, LoopEffects
<1>8. CASE ConfigSaved(m)
  <2>1. UNCHANGED <<daemon, agent, asked, erased, streak>> /\ daemon[m].state = "online"
    BY <1>8 DEF ConfigSaved, process, history
  <2> QED BY <1>1, <2>1 DEF MachineCause
<1> QED BY <1>2, <1>3, <1>4, <1>5, <1>6, <1>7, <1>8 DEF Loop

\* So do the other actions of a machine.
LEMMA MachineActionCause ==
    ASSUME TypeInv, HeldInv, CauseInv, [Next]_vars, NEW m \in Machines,
           AdminUpdate(m) \/ Registration(m) \/ Service(m) \/ Agent(m)
    PROVE  MachineCause(m)'
<1>0. /\ daemon \in [Machines -> Daemon] /\ config \in [Machines -> {Nobody} \cup ClientId]
      /\ agent \in [Machines -> {"idle", "updating", "restarting", "doomed", "removing", "removed"}]
      /\ streak \in [Machines -> Nat]
      /\ erased \in [Machines -> [why : {"no", "gone", "told", "refused", "uninstall"},
                                  id : {Nobody} \cup ClientId]]
  BY DEF TypeInv, TypeOK, HistoryOK
<1>1. MachineCause(m) /\ asked \subseteq asked'
  BY CauseGlobals DEF CauseInv
<1>2. CASE AdminUpdate(m)
  <2>1. UNCHANGED <<config, daemon, asked, erased, streak>> /\ agent'[m] = "updating"
    BY <1>0, <1>2 DEF AdminUpdate, disk, history
  <2> QED BY <1>1, <2>1 DEF MachineCause
<1>3. CASE Registration(m)
  <2>1. ASSUME NEW t \in Tokens, CliRegister(m, t) \/ Install(m, t) PROVE MachineCause(m)'
    <3>1. PICK keep \in BOOLEAN : CleanUp(m, keep)
      BY <2>1 DEF CliRegister, Install
    <3>2. UNCHANGED <<erased, streak>>
      BY <2>1 DEF CliRegister, Install, history
    <3>3. CASE Stop(m) /\ config' = [config EXCEPT ![m] = Nobody]
      BY <1>0, <1>1, <3>2, <3>3, StopCause
    <3>4. CASE UNCHANGED <<config, process>>
      BY <1>1, <3>2, <3>4 DEF MachineCause, process
    <3> QED BY <3>1, <3>3, <3>4 DEF CleanUp
  <2>2. CASE LookUp(m) \/ Commit(m) \/ RegisterFails(m)
    <3>1. UNCHANGED <<config, daemon, agent, erased, streak>>
      BY <2>2 DEF LookUp, Commit, RegisterFails, disk, process, history
    <3> QED BY <1>1, <3>1 DEF MachineCause
  <2>3. CASE Registered(m)
    <3>1. UNCHANGED <<daemon, agent, streak>> /\ erased'[m].why = "no"
      BY <1>0, <2>3 DEF Registered, process
    <3> QED BY <1>1, <3>1 DEF MachineCause
  <2> QED BY <1>3, <2>1, <2>2, <2>3 DEF Registration
<1>4. CASE Service(m)
  <2>1. CASE CliStop(m) \/ CliUninstall(m)
    <3>1. Stop(m) /\ config'[m] \in {config[m], Nobody} /\ UNCHANGED <<erased, streak>>
      BY <1>0, <2>1 DEF CliStop, CliUninstall, history
    <3> QED BY <1>1, <3>1, StopCause
  <2>2. CASE CliStart(m) \/ ManagerStarts(m)
    <3>1. /\ UNCHANGED <<config, agent, erased>> /\ config[m] # Nobody /\ daemon[m].state = "off"
          /\ daemon'[m] = Running(config[m]) /\ streak'[m] = 0
      BY <1>0, <2>2 DEF CliStart, ManagerStarts, disk
    <3> QED BY <1>1, <3>1 DEF MachineCause, Running
  <2>3. CASE Crash(m) \/ Killed(m)
    <3>1. /\ UNCHANGED <<config, erased, streak>>
          /\ daemon'[m] = Off("failed") /\ agent'[m] = "idle"
      BY <1>0, <2>3 DEF Crash, Killed, disk, history
    <3> QED BY <1>1, <3>1, EndCause
  <2> QED BY <1>4, <2>1, <2>2, <2>3 DEF Service
<1>5. CASE Agent(m)
  <2>1. ASSUME NEW next \in {"doomed", "restarting"}, AgentStop(m, next) PROVE MachineCause(m)'
    <3>1. UNCHANGED <<config, erased, streak>> /\ agent[m] = "idle"
      BY <2>1 DEF AgentStop, history
    <3>2. \/ daemon'[m] = Off("clean") /\ agent'[m] = "idle"
          \/ daemon'[m] = daemon[m] /\ agent'[m] \in {"doomed", "restarting"}
      BY <1>0, <2>1 DEF AgentStop, StoppedFromInside
    <3> QED BY <1>1, <3>1, <3>2, EndCause DEF MachineCause
  <2>2. CASE AgentStarts(m) \/ UpdateFails(m) \/ UpdateBreaks(m)
    <3>1. /\ UNCHANGED <<config, daemon, erased, streak>> /\ agent'[m] \in {"doomed", "idle"}
      BY <1>0, <2>2 DEF AgentStarts, UpdateFails, UpdateBreaks, disk, history
    <3> QED BY <1>1, <3>1 DEF MachineCause
  <2>3. CASE AgentUninstall(m)
    <3>1. /\ UNCHANGED <<config, daemon, erased, streak>> /\ daemon[m].state # "off"
          /\ daemon[m].id \in asked'
      BY <1>0, <2>3 DEF AgentUninstall, disk
    <3> QED BY <1>1, <3>1 DEF MachineCause
  <2>4. CASE AgentErases(m)
    <3>1. /\ asked' = asked /\ streak' = streak /\ agent[m] = "removing" /\ Erase(m, "uninstall")
      BY <2>4 DEF AgentErases
    <3>2. \/ daemon'[m] = Off("clean") /\ agent'[m] = "idle"
          \/ daemon'[m] = daemon[m] /\ agent'[m] = "removed"
      BY <1>0, <2>4 DEF AgentErases
    <3>3. daemon[m].id \in asked
      BY <1>1, <3>1 DEF MachineCause
    <3> QED BY <1>1, <3>1, <3>2, <3>3, EraseCause
  <2>5. CASE AgentExits(m)
    <3>1. /\ UNCHANGED <<config, erased, streak>>
          /\ daemon'[m] = Off("clean") /\ agent'[m] = "idle"
      BY <1>0, <2>5 DEF AgentExits, disk, history
    <3> QED BY <1>1, <3>1, EndCause
  <2>6. CASE UpdateInstalls(m)
    <3>1. /\ UNCHANGED <<config, erased, streak>> /\ agent'[m] = "idle"
          /\ daemon'[m] \in {Off("failed"), daemon[m]}
      BY <1>0, <2>6 DEF UpdateInstalls, history
    <3> QED BY <1>1, <3>1, EndCause DEF MachineCause
  <2> QED BY <1>5, <2>1, <2>2, <2>3, <2>4, <2>5, <2>6 DEF Agent
<1> QED BY <1>2, <1>3, <1>4, <1>5

\* The causes are an invariant.
LEMMA CauseStep == TypeInv /\ HeldInv /\ CauseInv /\ [Next]_vars => CauseInv'
<1> SUFFICES ASSUME TypeInv, HeldInv, CauseInv, [Next]_vars
             PROVE  CauseInv'
  OBVIOUS
<1>1. /\ asked \subseteq asked'
      /\ \A c \in 1..Len(ids') : c \notin rows' => c \in asked'
      /\ \A c \in ClientId : deletion'[c] # "none" => c \in asked'
  BY CauseGlobals
<1>2. \A m \in Machines : MachineCause(m)
  BY DEF CauseInv
<1>3. ASSUME NEW n \in Machines, UNCHANGED <<config[n], daemon[n], agent[n], erased[n], streak[n]>>
      PROVE  MachineCause(n)'
  BY <1>1, <1>2, <1>3 DEF MachineCause
<1>4. ASSUME NEW m \in Machines,
             AdminUpdate(m) \/ Registration(m) \/ Service(m) \/ Loop(m) \/ Agent(m)
      PROVE  \A n \in Machines : MachineCause(n)'
  <2>1. MachineCause(m)'
    BY <1>4, LoopCause, MachineActionCause
  <2>2. ASSUME NEW n \in Machines, n # m PROVE MachineCause(n)'
    <3>1. Places(n)' = Places(n)
      BY <1>4, <2>2, OneMachine
    <3> QED BY <1>3, <3>1 DEF Places
  <2> QED BY <2>1, <2>2
<1>5. ASSUME NEW c \in ClientId, AdminDelete(c) \/ Notify(c) \/ Cascade(c), NEW n \in Machines
      PROVE  MachineCause(n)'
  <2>1. UNCHANGED <<config, agent, erased, streak>>
    BY <1>5 DEF AdminDelete, Notify, Cascade, disk, process, history
  <2>2. CASE daemon'[n] = daemon[n]
    BY <1>3, <2>1, <2>2
  <2>3. ASSUME NEW message, Sent(c, message), Notify(c) PROVE MachineCause(n)'
    <3>1. c \in asked
      BY <2>3 DEF Notify, CauseInv
    <3> QED BY <1>1, <1>2, <2>1, <2>2, <2>3, <3>1, SentEffects DEF MachineCause
  <2> QED BY <1>5, <2>2, <2>3 DEF AdminDelete, Notify, Cascade, process
<1>6. CASE (\E t \in Tokens : GenerateToken(t) \/ TokenExpires(t)) \/ UNCHANGED vars
  <2>1. UNCHANGED <<config, daemon, agent, erased, streak>>
    BY <1>6 DEF GenerateToken, TokenExpires, vars, disk, process, history
  <2> QED BY <1>1, <1>3, <2>1 DEF CauseInv
<1> QED BY <1>1, <1>4, <1>5, <1>6 DEF CauseInv, Next, Admin

\* A daemon erases its configuration, its probes and its program only when the
\* deletion of its own client was asked for, by the dashboard or by the command
\* to uninstall, or after MaxAuthFailures refusals in a row.
THEOREM ErasedOnlyForCause == Spec => []ErasedForCause
<1>1. Init => CauseInv
  BY DEF Init, CauseInv, MachineCause, Off
<1>2. TypeInv /\ CauseInv => ErasedForCause
  BY DEF TypeInv, CauseInv, MachineCause, ErasedForCause
<1> QED BY <1>1, <1>2, CauseStep, TypeInvAlways, HeldInvAlways, PTL DEF Spec

\* Connections are opened late after a notification, and rows go after it.
LEMMA ZombieStep == TypeInv /\ HeldInv /\ ZombieInv /\ [Next]_vars => ZombieInv'
<1> SUFFICES ASSUME TypeInv, HeldInv, ZombieInv, [Next]_vars
             PROVE  ZombieInv'
  OBVIOUS
<1>0. /\ daemon \in [Machines -> Daemon]
      /\ agent \in [Machines -> {"idle", "updating", "restarting", "doomed", "removing", "removed"}]
      /\ rows \subseteq ClientId /\ deletion \in [ClientId -> {"none", "asked", "notified"}]
  BY DEF TypeInv, TypeOK
<1>1. \A m \in Machines : MachineZombie(m)
  BY DEF ZombieInv
<1>2. ASSUME NEW n \in Machines, rows \subseteq rows', UNCHANGED deletion, daemon'[n] = daemon[n],
             agent'[n] = agent[n]
      PROVE  MachineZombie(n)'
  BY <1>1, <1>2 DEF MachineZombie
<1>3. ASSUME NEW n \in Machines, daemon'[n] \in {Off("clean"), Off("failed")}
      PROVE  MachineZombie(n)'
  BY <1>3 DEF MachineZombie, Off
<1>4. ASSUME NEW m \in Machines, Stop(m), UNCHANGED <<rows, deletion>>
      PROVE  MachineZombie(m)'
  <2>1. CASE daemon' = [daemon EXCEPT ![m] = Off("clean")]
    BY <1>0, <1>3, <2>1
  <2>2. CASE daemon' = daemon /\ (agent' = agent \/ daemon[m].state \in {"off", "offline"})
    <3>1. daemon[m].state \in {"off", "offline"} => daemon[m].socket # "open"
      BY <1>0, <1>1, DaemonStates DEF MachineZombie
    <3> QED BY <1>1, <1>4, <2>2, <3>1 DEF MachineZombie
  <2> QED BY <1>4, <2>1, <2>2, StopLeaves
<1>5. ASSUME NEW m \in Machines, AdminUpdate(m) \/ Registration(m) \/ Service(m)
      PROVE  MachineZombie(m)' /\ rows \subseteq rows' /\ UNCHANGED deletion
  <2>1. CASE AdminUpdate(m)
    <3>1. UNCHANGED <<rows, deletion, daemon>> /\ agent[m] = "idle"
      BY <2>1 DEF AdminUpdate, server, disk
    <3> QED BY <1>1, <3>1 DEF MachineZombie
  <2>2. ASSUME NEW t \in Tokens, CliRegister(m, t) \/ Install(m, t)
        PROVE  MachineZombie(m)' /\ rows \subseteq rows' /\ UNCHANGED deletion
    <3>1. UNCHANGED <<rows, deletion>> /\ (Stop(m) \/ UNCHANGED process)
      BY <2>2 DEF CliRegister, Install, CleanUp, server
    <3> QED BY <1>2, <1>4, <3>1 DEF process
  <2>3. CASE LookUp(m) \/ Commit(m) \/ Registered(m) \/ RegisterFails(m)
    <3>1. rows \subseteq rows' /\ UNCHANGED <<deletion, daemon, agent>>
      BY <2>3 DEF LookUp, Commit, Registered, RegisterFails, server, process
    <3> QED BY <1>2, <3>1
  <2>4. CASE CliStop(m) \/ CliUninstall(m)
    <3>1. UNCHANGED <<rows, deletion>> /\ Stop(m)
      BY <2>4 DEF CliStop, CliUninstall, server
    <3> QED BY <1>4, <3>1
  <2>5. CASE CliStart(m) \/ ManagerStarts(m)
    <3>1. UNCHANGED <<rows, deletion>> /\ daemon'[m] = Running(config[m])
      BY <1>0, <2>5 DEF CliStart, ManagerStarts, server
    <3> QED BY <3>1 DEF MachineZombie, Running
  <2>6. CASE Crash(m) \/ Killed(m)
    <3>1. UNCHANGED <<rows, deletion>> /\ daemon'[m] = Off("failed")
      BY <1>0, <2>6 DEF Crash, Killed, server
    <3> QED BY <1>3, <3>1
  <2> QED BY <1>5, <2>1, <2>2, <2>3, <2>4, <2>5, <2>6 DEF Registration, Service
<1>6. ASSUME NEW m \in Machines, Loop(m)
      PROVE  MachineZombie(m)' /\ UNCHANGED <<rows, deletion>>
  <2>0. UNCHANGED <<rows, deletion>>
    BY <1>6 DEF Loop, Validate, Accept, Gone, Refused, AttemptFails, Disconnected, Deregistered,
                ConfigSaved, server
  <2>1. CASE Validate(m) \/ AttemptFails(m) \/ Disconnected(m)
    BY <2>0, <2>1, LoopEffects DEF MachineZombie
  <2>2. CASE Accept(m)
    BY <2>0, <2>2, LoopEffects DEF MachineZombie
  <2>3. CASE Gone(m) \/ Deregistered(m)
    <3>1. daemon'[m] = Off("clean")
      BY <1>0, <2>3 DEF Gone, Deregistered, SelfRemove
    <3> QED BY <1>3, <2>0, <3>1
  <2>4. CASE Refused(m)
    <3>1. CASE SelfRemove(m, "refused")
      <4>1. daemon'[m] = Off("clean")
        BY <1>0, <3>1 DEF SelfRemove
      <4> QED BY <1>3, <2>0, <4>1
    <3>2. CASE daemon'[m].state = "offline" /\ daemon'[m].socket = "none"
      BY <2>0, <3>2 DEF MachineZombie
    <3> QED BY <2>4, <3>1, <3>2, LoopEffects
  <2>5. CASE ConfigSaved(m)
    <3>1. UNCHANGED <<daemon, agent>>
      BY <2>5 DEF ConfigSaved, process
    <3> QED BY <1>2, <2>0, <3>1
  <2> QED BY <1>6, <2>1, <2>2, <2>3, <2>4, <2>5 DEF Loop
<1>7. ASSUME NEW m \in Machines, Agent(m), ~AgentUninstall(m)
      PROVE  MachineZombie(m)' /\ UNCHANGED <<rows, deletion>>
  <2>0. UNCHANGED <<rows, deletion>>
    BY <1>7 DEF Agent, AgentStop, AgentStarts, AgentErases, AgentExits, UpdateFails,
                UpdateInstalls, UpdateBreaks, server
  <2>1. CASE daemon'[m] \in {Off("clean"), Off("failed")}
    BY <1>3, <2>0, <2>1
  <2>2. CASE /\ daemon'[m] = daemon[m]
             /\ agent[m] \notin {"removing", "removed"} \/ agent'[m] = "removed"
    BY <1>1, <2>0, <2>2 DEF MachineZombie
  <2>3. daemon'[m] \in {daemon[m], Off("clean"), Off("failed")}
    <3>1. ASSUME NEW next \in {"doomed", "restarting"}, AgentStop(m, next)
          PROVE  daemon'[m] \in {daemon[m], Off("clean"), Off("failed")}
      BY <1>0, <3>1 DEF AgentStop, StoppedFromInside
    <3>2. CASE AgentStarts(m) \/ AgentErases(m) \/ AgentExits(m)
      BY <1>0, <3>2 DEF AgentStarts, AgentErases, AgentExits
    <3>3. CASE UpdateFails(m) \/ UpdateInstalls(m) \/ UpdateBreaks(m)
      BY <1>0, <3>3 DEF UpdateFails, UpdateInstalls, UpdateBreaks
    <3> QED BY <1>7, <3>1, <3>2, <3>3 DEF Agent
  <2>4. \/ agent[m] \notin {"removing", "removed"} \/ agent'[m] = "removed"
        \/ daemon'[m] \in {Off("clean"), Off("failed")}
    BY <1>0, <1>7 DEF Agent, AgentStop, AgentStarts, AgentErases, AgentExits, UpdateFails,
                      UpdateInstalls, UpdateBreaks
  <2> QED BY <2>0, <2>1, <2>2, <2>3, <2>4
<1>8. ASSUME NEW m \in Machines, AgentUninstall(m)
      PROVE  ZombieInv'
  <2>1. /\ UNCHANGED <<daemon, deletion>> /\ rows \ {daemon[m].id} \subseteq rows'
        /\ agent' = [agent EXCEPT ![m] = "removing"] /\ daemon[m].state # "off"
    BY <1>8 DEF AgentUninstall
  <2>2. MachineZombie(m)'
    BY <1>0, <1>1, <2>1 DEF MachineZombie
  <2>3. ASSUME NEW n \in Machines, n # m PROVE MachineZombie(n)'
    <3>1. daemon[m].id # Nobody
      BY <1>0, <2>1, DaemonStates DEF ClientId, Nobody
    <3>2. daemon[n].id # daemon[m].id
      BY <2>3, <3>1 DEF HeldInv, Held
    <3> QED BY <1>0, <1>1, <2>1, <2>3, <3>2 DEF MachineZombie
  <2> QED BY <2>2, <2>3 DEF ZombieInv
<1>9. ASSUME NEW m \in Machines, ~AgentUninstall(m),
             AdminUpdate(m) \/ Registration(m) \/ Service(m) \/ Loop(m) \/ Agent(m)
      PROVE  ZombieInv'
  <2>1. MachineZombie(m)' /\ rows \subseteq rows' /\ UNCHANGED deletion
    BY <1>5, <1>6, <1>7, <1>9
  <2>2. ASSUME NEW n \in Machines, n # m PROVE MachineZombie(n)'
    <3>1. Places(n)' = Places(n)
      BY <1>9, <2>2, OneMachine
    <3> QED BY <1>2, <2>1, <3>1 DEF Places
  <2> QED BY <2>1, <2>2 DEF ZombieInv
<1>10. ASSUME NEW c \in ClientId, AdminDelete(c)
       PROVE  ZombieInv'
  <2>1. UNCHANGED <<rows, daemon, agent>> /\ deletion' = [deletion EXCEPT ![c] = "asked"]
    BY <1>10 DEF AdminDelete, process
  <2> QED BY <1>0, <1>1, <2>1 DEF ZombieInv, MachineZombie
<1>11. ASSUME NEW c \in ClientId, Notify(c)
       PROVE  ZombieInv'
  <2>1. UNCHANGED <<rows, agent>> /\ deletion' = [deletion EXCEPT ![c] = "notified"]
    BY <1>11 DEF Notify
  <2>2. PICK message \in {"told", "late"} : Sent(c, message)
    BY <1>11 DEF Notify
  <2>3. ASSUME NEW n \in Machines PROVE MachineZombie(n)'
    <3>1. CASE daemon'[n] = daemon[n] /\ ~(daemon[n].id = c /\ daemon[n].socket \in {"open", "late"})
      BY <1>0, <1>1, <2>1, <3>1 DEF MachineZombie
    <3>2. CASE /\ daemon[n].socket \in {"open", "late"} /\ daemon[n].state # "off"
               /\ daemon'[n].state = daemon[n].state /\ daemon'[n].socket = message
      BY <1>1, <2>2, <3>2 DEF MachineZombie
    <3> QED BY <2>2, <3>1, <3>2, SentEffects
  <2> QED BY <2>3 DEF ZombieInv
<1>12. ASSUME NEW c \in ClientId, Cascade(c)
       PROVE  ZombieInv'
  <2>1. /\ UNCHANGED <<daemon, agent>> /\ deletion[c] = "notified"
        /\ deletion' = [deletion EXCEPT ![c] = "none"] /\ rows \ {c} \subseteq rows'
    BY <1>12 DEF Cascade, Awaited, process
  <2> QED BY <1>0, <1>1, <2>1 DEF ZombieInv, MachineZombie
<1>13. CASE (\E t \in Tokens : GenerateToken(t) \/ TokenExpires(t)) \/ UNCHANGED vars
  <2>1. UNCHANGED <<rows, deletion, daemon, agent>>
    BY <1>13 DEF GenerateToken, TokenExpires, vars, server, process
  <2> QED BY <1>2, <2>1 DEF ZombieInv
<1> QED BY <1>8, <1>9, <1>10, <1>11, <1>12, <1>13 DEF Next, Admin

\* No daemon stays connected to a client that is deleted without having been
\* told, or having been accepted after the others were told (clients.ts).
THEOREM ZombiesKnow == Spec => []NoSilentZombie
<1>1. Init => ZombieInv
  <2> SUFFICES ASSUME Init, NEW m \in Machines
               PROVE  MachineZombie(m)
    BY DEF ZombieInv
  <2>1. daemon[m].state = "off" /\ daemon[m].socket = "clean"
    BY DEF Init, Off
  <2> QED BY <2>1 DEF MachineZombie
<1>2. ZombieInv => NoSilentZombie
  BY DEF ZombieInv, MachineZombie, NoSilentZombie
<1> QED BY <1>1, <1>2, ZombieStep, TypeInvAlways, HeldInvAlways, PTL DEF Spec

\* Off launchd every stop ends the daemon, so that none outlives its
\* configuration.
LEMMA IdentityStep == TypeInv /\ IdentityInv /\ [Next]_vars => IdentityInv'
<1> SUFFICES ASSUME TypeInv, IdentityInv, [Next]_vars, NEW m \in Machines, m \notin Launchd
             PROVE  MachineIdentity(m)'
  BY DEF IdentityInv
<1>0. /\ daemon \in [Machines -> Daemon] /\ config \in [Machines -> {Nobody} \cup ClientId]
      /\ agent \in [Machines -> {"idle", "updating", "restarting", "doomed", "removing", "removed"}]
      /\ register \in [Machines -> Register] /\ latest \in [Machines -> {Nobody} \cup ClientId]
  BY DEF TypeInv, TypeOK, HistoryOK
<1>1. MachineIdentity(m)
  BY DEF IdentityInv
<1>2. CASE /\ register'[m] = register[m] /\ config'[m] = config[m] /\ latest'[m] = latest[m]
           /\ agent'[m] # "removed"
           /\ daemon'[m].state # "off" => daemon[m].state # "off" /\ daemon'[m].id = daemon[m].id
  BY <1>1, <1>2 DEF MachineIdentity
<1>3. CASE /\ latest'[m] = latest[m] /\ agent'[m] # "removed"
           /\ config'[m] = Nobody /\ daemon'[m].state = "off"
  BY <1>3 DEF MachineIdentity
<1>4. ASSUME Stop(m)
      PROVE  daemon'[m].state = "off" /\ agent'[m] = "idle"
  BY <1>0, <1>4, StopLeaves DEF Off
<1>5. CASE AdminUpdate(m)
  <2>1. UNCHANGED <<register, config, latest, daemon>> /\ agent'[m] = "updating"
    BY <1>0, <1>5 DEF AdminUpdate, disk, history
  <2> QED BY <1>2, <2>1
<1>6. CASE Registration(m)
  <2>1. ASSUME NEW t \in Tokens, CliRegister(m, t) \/ Install(m, t) PROVE MachineIdentity(m)'
    <3>1. PICK keep \in BOOLEAN : CleanUp(m, keep)
      BY <2>1 DEF CliRegister, Install
    <3>2. latest' = latest
      BY <2>1 DEF CliRegister, Install, history
    <3>3. CASE Stop(m) /\ config' = [config EXCEPT ![m] = Nobody]
      BY <1>0, <1>3, <1>4, <3>2, <3>3
    <3>4. CASE config[m] = Nobody /\ UNCHANGED <<config, process>>
      BY <1>1, <1>3, <3>2, <3>4 DEF MachineIdentity, process
    <3> QED BY <3>1, <3>3, <3>4 DEF CleanUp
  <2>2. CASE LookUp(m) \/ Commit(m) \/ RegisterFails(m)
    <3>1. UNCHANGED <<config, daemon, agent, latest>> /\ register[m].at # "idle"
      BY <2>2 DEF LookUp, Commit, RegisterFails, disk, process, history
    <3> QED BY <1>1, <3>1 DEF MachineIdentity
  <2>3. CASE Registered(m)
    <3>1. /\ UNCHANGED <<daemon, agent>> /\ register[m].at # "idle"
          /\ register'[m] = [at |-> "idle"] /\ config'[m] = latest'[m]
      BY <1>0, <2>3 DEF Registered, process
    <3>2. daemon[m].state = "off"
      BY <1>1, <3>1 DEF MachineIdentity
    <3>3. register'[m].at = "idle"
      BY <3>1
    <3> QED BY <1>1, <3>1, <3>2, <3>3 DEF MachineIdentity
  <2> QED BY <1>6, <2>1, <2>2, <2>3 DEF Registration
<1>7. CASE Service(m)
  <2>1. CASE CliStop(m)
    <3>1. UNCHANGED <<register, config, latest>> /\ Stop(m)
      BY <2>1 DEF CliStop, history
    <3> QED BY <1>2, <1>4, <3>1
  <2>2. CASE CliUninstall(m)
    <3>1. UNCHANGED latest /\ Stop(m) /\ config'[m] = Nobody
      BY <1>0, <2>2 DEF CliUninstall, history
    <3> QED BY <1>3, <1>4, <3>1
  <2>3. CASE CliStart(m) \/ ManagerStarts(m)
    <3>1. UNCHANGED <<register, config, agent, latest>> /\ config[m] # Nobody
          /\ daemon'[m] = Running(config[m])
      BY <1>0, <2>3 DEF CliStart, ManagerStarts, disk
    <3> QED BY <1>1, <3>1 DEF MachineIdentity, Running
  <2>4. CASE Crash(m) \/ Killed(m)
    <3>1. /\ UNCHANGED <<register, config, latest>>
          /\ daemon'[m] = Off("failed") /\ agent'[m] = "idle"
      BY <1>0, <2>4 DEF Crash, Killed, disk, history
    <3>2. daemon'[m].state = "off"
      BY <3>1 DEF Off
    <3> QED BY <1>2, <3>1, <3>2
  <2> QED BY <1>7, <2>1, <2>2, <2>3, <2>4 DEF Service
<1>8. ASSUME NEW why, SelfRemove(m, why), UNCHANGED latest PROVE MachineIdentity(m)'
  <2>1. config'[m] = Nobody /\ daemon'[m] = Off("clean") /\ agent'[m] = "idle"
    BY <1>0, <1>8 DEF SelfRemove, Erase
  <2>2. daemon'[m].state = "off"
    BY <2>1 DEF Off
  <2> QED BY <1>3, <1>8, <2>1, <2>2
<1>9. CASE Loop(m)
  <2>1. CASE Validate(m) \/ Accept(m) \/ AttemptFails(m) \/ Disconnected(m)
    <3>1. UNCHANGED <<register, config, agent, latest>>
      BY <2>1 DEF Validate, Accept, AttemptFails, Disconnected, disk, history
    <3>2. daemon[m].state # "off" /\ daemon'[m].id = daemon[m].id
      BY <2>1, LoopEffects
    <3> QED BY <1>1, <1>2, <3>1, <3>2 DEF MachineIdentity
  <2>2. CASE Gone(m) \/ Deregistered(m)
    BY <1>8, <2>2 DEF Gone, Deregistered
  <2>3. CASE Refused(m)
    <3>1. UNCHANGED <<register, latest>>
      BY <2>3 DEF Refused
    <3>2. CASE SelfRemove(m, "refused")
      BY <1>8, <3>1, <3>2
    <3>3. CASE /\ daemon'[m].state = "offline" /\ daemon'[m].id = daemon[m].id
               /\ UNCHANGED <<disk, agent, erased>>
      <4>1. daemon[m].state = "offline"
        BY <2>3, LoopEffects
      <4> QED BY <1>1, <1>2, <3>1, <3>3, <4>1 DEF MachineIdentity, disk
    <3> QED BY <2>3, <3>2, <3>3, LoopEffects
  <2>4. CASE ConfigSaved(m)
    <3>1. /\ UNCHANGED <<register, daemon, agent, latest>> /\ daemon[m].state = "online"
          /\ config'[m] = daemon[m].id
      BY <1>0, <2>4 DEF ConfigSaved, process, history
    <3>2. daemon[m].id # Nobody
      BY <1>0, <3>1, DaemonStates DEF ClientId, Nobody
    <3> QED BY <1>1, <3>1, <3>2 DEF MachineIdentity
  <2> QED BY <1>9, <2>1, <2>2, <2>3, <2>4 DEF Loop
<1>10. CASE Agent(m)
  <2>1. ASSUME NEW next \in {"doomed", "restarting"}, AgentStop(m, next)
        PROVE  MachineIdentity(m)'
    <3>1. UNCHANGED <<register, config, latest>> /\ agent[m] = "idle"
      BY <2>1 DEF AgentStop, history
    <3>2. agent'[m] # "removed" /\ daemon'[m] \in {daemon[m], Off("clean")}
      BY <1>0, <2>1 DEF AgentStop, StoppedFromInside
    <3>3. daemon'[m].state # "off" => daemon'[m] = daemon[m]
      BY <3>2 DEF Off
    <3> QED BY <1>2, <3>1, <3>2, <3>3
  <2>2. CASE AgentStarts(m) \/ AgentUninstall(m) \/ UpdateFails(m) \/ UpdateBreaks(m)
    <3>1. UNCHANGED <<register, config, latest, daemon>> /\ agent'[m] # "removed"
      BY <1>0, <2>2 DEF AgentStarts, AgentUninstall, UpdateFails, UpdateBreaks, disk, history
    <3> QED BY <1>2, <3>1
  <2>3. CASE AgentErases(m)
    <3>1. /\ latest' = latest /\ config'[m] = Nobody
          /\ daemon'[m] = Off("clean") /\ agent'[m] = "idle"
      BY <1>0, <2>3 DEF AgentErases, Erase
    <3>2. daemon'[m].state = "off"
      BY <3>1 DEF Off
    <3> QED BY <1>3, <3>1, <3>2
  <2>4. CASE AgentExits(m)
    BY <1>1, <2>4 DEF AgentExits, MachineIdentity
  <2>5. CASE UpdateInstalls(m)
    <3>1. /\ UNCHANGED <<register, config, latest>> /\ agent'[m] = "idle"
          /\ daemon'[m] \in {daemon[m], Off("failed")}
      BY <1>0, <2>5 DEF UpdateInstalls, history
    <3>2. daemon'[m].state # "off" => daemon'[m] = daemon[m]
      BY <3>1 DEF Off
    <3> QED BY <1>2, <3>1, <3>2
  <2> QED BY <1>10, <2>1, <2>2, <2>3, <2>4, <2>5 DEF Agent
<1>11. ASSUME NEW n \in Machines, n # m,
              AdminUpdate(n) \/ Registration(n) \/ Service(n) \/ Loop(n) \/ Agent(n)
       PROVE  MachineIdentity(m)'
  <2>1. Places(m)' = Places(m)
    BY <1>11, OneMachine
  <2> QED BY <1>1, <2>1 DEF Places, MachineIdentity
<1>12. ASSUME NEW c \in ClientId, AdminDelete(c) \/ Notify(c) \/ Cascade(c)
       PROVE  MachineIdentity(m)'
  <2>1. UNCHANGED <<register, config, agent, latest>>
    BY <1>12 DEF AdminDelete, Notify, Cascade, disk, process, history
  <2>2. daemon'[m].state = daemon[m].state /\ daemon'[m].id = daemon[m].id
    <3>1. CASE daemon' = daemon
      BY <3>1
    <3>2. ASSUME NEW message, Sent(c, message)
          PROVE  daemon'[m].state = daemon[m].state /\ daemon'[m].id = daemon[m].id
      BY <3>2, SentEffects
    <3> QED BY <1>12, <3>1, <3>2 DEF AdminDelete, Notify, Cascade, process
  <2> QED BY <1>1, <2>1, <2>2 DEF MachineIdentity
<1>13. CASE (\E t \in Tokens : GenerateToken(t) \/ TokenExpires(t)) \/ UNCHANGED vars
  <2>1. UNCHANGED <<register, config, daemon, agent, latest>>
    BY <1>13 DEF GenerateToken, TokenExpires, vars, disk, process, history
  <2> QED BY <1>1, <2>1 DEF MachineIdentity
<1> QED BY <1>5, <1>6, <1>7, <1>9, <1>10, <1>11, <1>12, <1>13 DEF Next, Admin

\* Off launchd, the configuration of a machine is the one it registered last,
\* whatever an agent of an earlier registration still does.
THEOREM IdentityIsKept == Spec => []IdentityKept
<1>1. Init => IdentityInv
  BY DEF Init, IdentityInv, MachineIdentity, Off
<1>2. IdentityInv => IdentityKept
  BY DEF IdentityInv, MachineIdentity, IdentityKept
<1> QED BY <1>1, <1>2, IdentityStep, TypeInvAlways, PTL DEF Spec
====
