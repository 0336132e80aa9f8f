------------------------------ MODULE Retention ------------------------------
(***************************************************************************)
(* What the cron of the Worker does to old rows (scheduled in              *)
(* worker/src/index.ts): archiveOldRecords (services/archiver.ts) moves    *)
(* pings and speed tests from D1 to one R2 object per client and day, and  *)
(* applyPerClientRetention prunes, at the same time, what the client's own *)
(* configuration calls old.  Clients are deleted meanwhile.                *)
(***************************************************************************)
EXTENDS Integers, FiniteSets

CONSTANTS
    Clients,
    RunsPerDay,     \* how often a day the cron runs
    Keep,           \* the 30 days archiveOldRecords keeps, in runs of the cron
    RawKeep,        \* config.retention_raw_days of each client, in runs
    BatchSize,      \* DELETE_BATCH_SIZE
    MaxTime,        \* bound on the runs of the cron
    MaxRows,        \* bound on the rows ever written
    Faults          \* what may happen: "d1", "r2", "abort", "delete"

ASSUME ConstantsOK ==
    /\ RunsPerDay \in Nat \ {0}
    /\ Keep \in Nat
    /\ RawKeep \in [Clients -> Nat]
    /\ BatchSize \in Nat \ {0}
    /\ MaxTime \in Nat
    /\ MaxRows \in Nat
    /\ Faults \subseteq {"d1", "r2", "abort", "delete"}

VARIABLES
    now,            \* the clock, in runs of the cron
    started,        \* whether the cron has started at this time
    clients,        \* the clients table
    rows,           \* the rows of the three tables
    written,        \* how many rows were ever written (history)
    archive,        \* the R2 object of each client and day
    moved,          \* the pings and speed tests deleted without their client (history)
    run,            \* archiveOldRecords
    prune           \* applyPerClientRetention: its clients, {} if it is not running

retention == <<now, started, clients, rows, written, archive, moved, run, prune>>

Time == 0..MaxTime
Day == {t \div RunsPerDay : t \in Time}
Archived == {"ping_results", "speed_tests"}
Row == [table : Archived \cup {"client_probe_results"}, client : Clients, at : Time]

\* The object of a client and day, and what is there before one is put.
Object == [archived_at : Time, rows : SUBSET Row]
NoObject == [archived_at |-> 0, rows |-> {}]

\* The client archiveOldRecords is at.
First(todo) == CHOOSE c \in todo : TRUE
Current == First(run.todo)

RetentionTypeOK ==
    /\ now \in Time
    /\ started \in BOOLEAN
    /\ clients \subseteq Clients
    /\ rows \subseteq Row
    /\ written \in 0..MaxRows
    /\ archive \in [Clients \X Day -> Object]
    /\ moved \subseteq [row : Row, at : Time]
    /\ run \in [pc : {"complete", "incomplete", "list", "read", "put", "delete"},
                todo : SUBSET Clients, found : SUBSET Row]
    /\ run.todo # {} <=> run.pc \in {"read", "put", "delete"}
    /\ run.found # {} <=> run.pc \in {"put", "delete"}
    /\ \A r \in run.found : r.client = Current /\ r.table \in Archived /\ r.at < now - Keep
    /\ prune \subseteq Clients

Complete == [pc |-> "complete", todo |-> {}, found |-> {}]
Incomplete == [Complete EXCEPT !.pc = "incomplete"]

RetentionInit ==
    /\ now = 0
    /\ started = FALSE
    /\ clients = Clients
    /\ rows = {}
    /\ written = 0
    /\ archive = [key \in Clients \X Day |-> NoObject]
    /\ moved = {}
    /\ run = Complete
    /\ prune = {}

(***************************************************************************)
(* The rest of the Worker: rows arrive, those of a client's probes late,   *)
(* and a client is deleted with all its rows.                              *)
(***************************************************************************)
Write(r) ==
    /\ r.client \in clients
    /\ r.at <= now /\ (r.table \in Archived => r.at = now)
    /\ written < MaxRows
    /\ rows' = rows \cup {r}
    /\ written' = written + 1
    /\ UNCHANGED <<now, started, clients, archive, moved, run, prune>>

DeleteClient(c) ==
    /\ "delete" \in Faults
    /\ clients' = clients \ {c}
    /\ rows' = {r \in rows : r.client # c}
    /\ UNCHANGED <<now, started, written, archive, moved, run, prune>>

(***************************************************************************)
(* archiveOldRecords: one client after the other; an exception ends it.    *)
(***************************************************************************)
Active == run.pc \notin {"complete", "incomplete"}

\* The cron starts both jobs; each first lists the clients.
Start ==
    /\ ~started
    /\ started' = TRUE
    /\ run' = [Complete EXCEPT !.pc = "list"]
    /\ prune' = clients
    /\ UNCHANGED <<now, clients, rows, written, archive, moved>>

Reading(todo) == IF todo = {} THEN Complete ELSE [pc |-> "read", todo |-> todo, found |-> {}]

List ==
    /\ run.pc = "list"
    /\ run' = Reading(clients)
    /\ UNCHANGED <<now, started, clients, rows, written, archive, moved, prune>>

NextClient == Reading(run.todo \ {Current})

\* The old rows of both tables; nothing more is done when both are empty.
OldIfPings ==                                       \* mutant: nothing when one is empty
    LET old == {r \in rows : r.client = Current /\ r.table \in Archived /\ r.at < now - Keep}
    IN IF {r.table : r \in old} = Archived THEN old ELSE {}
Old == {r \in rows : r.client = Current /\ r.table \in Archived /\ r.at < now - Keep}

Read ==
    /\ run.pc = "read"
    /\ run' = IF Old = {} THEN NextClient ELSE [run EXCEPT !.pc = "put", !.found = Old]
    /\ UNCHANGED <<now, started, clients, rows, written, archive, moved, prune>>

\* The object is named for the client and the day, and replaces the one
\* that had its name.
Put ==
    /\ run.pc = "put"
    /\ archive' = [archive EXCEPT ![<<Current, now \div RunsPerDay>>] =
                       [archived_at |-> now, rows |-> run.found]]
    /\ run' = [run EXCEPT !.pc = "delete"]
    /\ UNCHANGED <<now, started, clients, rows, written, moved, prune>>

\* Rows are deleted while their client stays.
LeaveD1(gone) ==
    /\ rows' = rows \ gone
    /\ moved' = moved \cup
                 {[row |-> r, at |-> now] : r \in {g \in rows \cap gone : g.table \in Archived}}

\* One DELETE of at most BatchSize rows; the pings go first.
IsBatch(batch) ==
    LET pings == {r \in run.found : r.table = "ping_results"}
        first == IF pings = {} THEN run.found ELSE pings
    IN /\ batch \subseteq first
       /\ Cardinality(batch) = IF Cardinality(first) < BatchSize
                               THEN Cardinality(first) ELSE BatchSize

Delete ==
    /\ run.pc = "delete"
    /\ \E batch \in SUBSET run.found :
         /\ IsBatch(batch)
         /\ LeaveD1(batch)
         /\ run' = IF batch = run.found THEN NextClient
                   ELSE [run EXCEPT !.found = @ \ batch]
    /\ UNCHANGED <<now, started, clients, written, archive, prune>>

\* A D1 statement, or the put to R2, fails.
Regardless ==                                       \* mutant: the put is not awaited
    IF run.pc = "put" THEN [run EXCEPT !.pc = "delete"] ELSE Incomplete
Ended == Incomplete

RunFails ==
    /\ Active
    /\ IF run.pc = "put" THEN "r2" \in Faults ELSE "d1" \in Faults
    /\ run' = Ended
    /\ UNCHANGED <<now, started, clients, rows, written, archive, moved, prune>>

(***************************************************************************)
(* applyPerClientRetention: one transaction for all the clients listed.    *)
(* The cutoff is a number, which is compared with INTEGER timestamps as    *)
(* such, but with the TEXT timestamps of pings as a text that comes before *)
(* every date.                                                             *)
(***************************************************************************)
Expired(r) == r.table = "client_probe_results" /\ r.at < now - RawKeep[r.client]

Prune ==
    /\ prune # {}
    /\ prune' = {}
    /\ \/ LeaveD1({r \in rows : r.client \in prune /\ Expired(r)})
       \/ "d1" \in Faults /\ UNCHANGED <<rows, moved>>
    /\ UNCHANGED <<now, started, clients, written, archive, run>>

\* The invocation is ended, and both jobs with it.
Abort ==
    /\ "abort" \in Faults
    /\ Active \/ prune # {}
    /\ run' = Incomplete
    /\ prune' = {}
    /\ UNCHANGED <<now, started, clients, rows, written, archive, moved>>

\* An invocation lives for minutes, the next starts hours later.
NextRun ==
    /\ now < MaxTime
    /\ ~Active /\ prune = {}
    /\ now' = now + 1
    /\ started' = FALSE
    /\ run' = Incomplete
    /\ UNCHANGED <<clients, rows, written, archive, moved, prune>>

Job == Start \/ List \/ Read \/ Put \/ Delete \/ RunFails \/ Prune \/ Abort

RetentionNext ==
    \/ \E r \in Row : Write(r)
    \/ \E c \in clients : DeleteClient(c)
    \/ Job
    \/ NextRun

RetentionSpec == RetentionInit /\ [][RetentionNext]_retention

(***************************************************************************)
(* Properties.                                                             *)
(***************************************************************************)

\* A ping or a speed test leaves D1 only when it is in the R2 object of its client and of
\* the day, or with its client, whichever statement or put fails and whatever else prunes
\* the table; and it stays in that object, unless a later run of the same day puts the
\* object anew, without the rows that have left D1 meanwhile.
ArchiveKept ==
    \A m \in moved :
        LET object == archive[<<m.row.client, m.at \div RunsPerDay>>]
        IN  m.row \in object.rows \/ object.archived_at > m.at

\* A run that was not cut short leaves no old ping or speed test behind,
\* whatever earlier runs left half done.
Swept ==
    run.pc = "complete" => \A r \in rows : r.table \in Archived => r.at >= now - Keep

=============================================================================
