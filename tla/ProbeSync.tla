----------------------------- MODULE ProbeSync ------------------------------
(***************************************************************************)
(* The way of a probe result from the client's SQLite file to the table    *)
(* client_probe_results: the probe task, the channel to the main loop, the *)
(* live stream over the WebSocket, and the drains that POST batches of     *)
(* unsynced rows (client/src/store.rs, sync.rs and websocket.rs, and on    *)
(* the server worker/src/api/sync.ts and the probe_result message).        *)
(***************************************************************************)
EXTENDS Integers, Sequences, FiniteSets

CONSTANTS
    Drains,         \* background drains that may be under way (a bound)
    BatchSize,      \* config.sync.batch_size
    ServerLimit,    \* the 500 records /sync accepts
    ChannelCap,     \* the 256 records of the probe channel
    MaxProbes,      \* bound on probes
    MaxSessions,    \* bound on databases created
    Faults          \* what may happen: "crash", "power", "reset"

ASSUME ConstantsOK ==
    /\ "periodic" \notin Drains /\ "nobody" \notin Drains
    /\ BatchSize \in Nat \ {0}
    /\ ServerLimit \in Nat
    /\ ChannelCap \in Nat \ {0}
    /\ MaxProbes \in Nat
    /\ MaxSessions \in Nat \ {0}
    /\ Faults \subseteq {"crash", "power", "reset"}

VARIABLES
    table,          \* probe_results: the rows of the local store
    nextSeq,        \* the next value of AUTOINCREMENT
    session,        \* session_id in sync_state
    flushed,        \* the store as of the last transaction known to be on disk
    channel,        \* mpsc channel from the probe task to the main loop
    stalled,        \* the row whose tx.send() the probe task is waiting in
    online,         \* the main loop is in connect_and_run's loop
    drain,          \* the calls of sync_all under way
    requests,       \* POST requests the server has not handled
    live,           \* probe_result messages under way
    server,         \* client_probe_results
    probes,         \* the number of probes made so far
    written         \* every row ever written to the store (history)

store == <<table, nextSeq, session, flushed>>
loop == <<channel, stalled, online>>
vars == <<store, loop, drain, requests, live, server, probes, written>>

(***************************************************************************)
(* A probe is numbered by when it was made.  via stands for received_at:   *)
(* it tells apart rows that reached the server on different ways.          *)
(***************************************************************************)
Session == 1..MaxSessions
Number == 1..MaxProbes
Row == [session : Session, seq : Number, probe : Number]
Stored == [session : Session, seq : Number, probe : Number, via : {"live", "sync"}]
LocalRow == [seq : Number, probe : Number, synced : BOOLEAN]
Caller == Drains \cup {"periodic"}
Request == [from : Caller \cup {"nobody"}, rows : SUBSET Row]
NoRow == [session |-> 0, seq |-> 0, probe |-> 0]

Idle == [pc |-> "idle", rows |-> {}]

TypeOK ==
    /\ table \subseteq LocalRow
    /\ nextSeq \in 1..(probes + 1)
    /\ session \in Session
    /\ flushed \in [table : SUBSET LocalRow, nextSeq : 1..(probes + 1)]
    /\ channel \in Seq(Row)
    /\ Len(channel) <= ChannelCap
    /\ stalled \in Row \cup {NoRow}
    /\ online \in BOOLEAN
    /\ drain \in [Caller -> [pc : {"idle", "fetch", "sent", "acked", "refused"},
                             rows : SUBSET Row]]
    /\ requests \subseteq Request
    /\ live \subseteq Row
    /\ server \subseteq Stored
    /\ probes \in 0..MaxProbes
    /\ written \subseteq Row

Init ==
    /\ table = {}
    /\ nextSeq = 1
    /\ session = 1
    /\ flushed = [table |-> {}, nextSeq |-> 1]
    /\ channel = <<>>
    /\ stalled = NoRow
    /\ online = FALSE
    /\ drain = [c \in Caller |-> Idle]
    /\ requests = {}
    /\ live = {}
    /\ server = {}
    /\ probes = 0
    /\ written = {}

(***************************************************************************)
(* The probe task.                                                         *)
(***************************************************************************)

SpaceLeft == Len(channel) <= ChannelCap             \* mutant
Room == Len(channel) < ChannelCap

\* seq_id is AUTOINCREMENT: it never hands out a number again, though the
\* rows that had it are deleted.
RowidReused ==                                      \* mutant: a plain rowid
    CHOOSE n \in 1..nextSeq : /\ \A r \in table : r.seq < n
                              /\ n = 1 \/ \E r \in table : r.seq = n - 1
Autoincrement == nextSeq

\* A probe is inserted, then sent to the main loop; a full channel holds the
\* task, with every probe and cleanup after it.
Probe ==
    /\ stalled = NoRow
    /\ probes < MaxProbes
    /\ LET row == [session |-> session, seq |-> Autoincrement, probe |-> probes + 1]
       IN  /\ table' = table \cup
                        {[seq |-> row.seq, probe |-> row.probe, synced |-> FALSE]}
           /\ written' = written \cup {row}
           /\ \/ /\ Room
                 /\ channel' = Append(channel, row)
                 /\ UNCHANGED stalled
              \/ /\ ~Room
                 /\ stalled' = row
                 /\ UNCHANGED channel
    /\ nextSeq' = nextSeq + 1
    /\ probes' = probes + 1
    /\ UNCHANGED <<session, flushed, online, drain, requests, live, server>>

\* There is room in the channel again.
Unstall ==
    /\ stalled # NoRow
    /\ Room
    /\ channel' = Append(channel, stalled)
    /\ stalled' = NoRow
    /\ UNCHANGED <<store, online, drain, requests, live, server, probes,
                   written>>

\* cleanup_old, for a retention that ends before the row seq.
Disposable(r, seq) == r.seq < seq /\ r.synced

Cleanup ==
    /\ stalled = NoRow
    /\ \E seq \in 2..nextSeq : table' = {r \in table : ~Disposable(r, seq)}
    /\ UNCHANGED <<nextSeq, session, flushed, loop, drain, requests, live,
                   server, probes, written>>

(***************************************************************************)
(* The main loop.  While it awaits the periodic sync_all it does nothing   *)
(* else.                                                                   *)
(***************************************************************************)
Free == online /\ drain["periodic"].pc = "idle"

\* The WebSocket is up: spawn a drain.
Connect(d) ==
    /\ ~online
    /\ drain[d] = Idle
    /\ online' = TRUE
    /\ drain' = [drain EXCEPT ![d].pc = "fetch"]
    /\ UNCHANGED <<store, channel, stalled, requests, live, server, probes,
                   written>>

Disconnect ==
    /\ Free
    /\ online' = FALSE
    /\ UNCHANGED <<store, channel, stalled, drain, requests, live, server,
                   probes, written>>

\* A row is sent as a probe_result message; a failure to send is ignored.
Forward ==
    /\ Free
    /\ channel # <<>>
    /\ channel' = Tail(channel)
    /\ live' \in {live, live \cup {Head(channel)}}
    /\ UNCHANGED <<store, stalled, online, drain, requests, server, probes,
                   written>>

SyncTick ==
    /\ Free
    /\ drain' = [drain EXCEPT !["periodic"].pc = "fetch"]
    /\ UNCHANGED <<store, loop, requests, live, server, probes, written>>

(***************************************************************************)
(* sync_all.                                                               *)
(***************************************************************************)
Unsynced == {r \in table : ~r.synced}

\* get_unsynced: the first BatchSize unsynced rows, with the session.
Batch ==
    {[session |-> session, seq |-> r.seq, probe |-> r.probe] :
        r \in {r \in Unsynced :
                 Cardinality({q \in Unsynced : q.seq < r.seq}) < BatchSize}}

Fetch(c) ==
    /\ drain[c].pc = "fetch"
    /\ \/ /\ Batch = {}
          /\ drain' = [drain EXCEPT ![c] = Idle]
          /\ UNCHANGED requests
       \/ /\ Batch # {}
          /\ drain' = [drain EXCEPT ![c] = [pc |-> "sent", rows |-> Batch]]
          /\ requests' = requests \cup {[from |-> c, rows |-> Batch]}
    /\ UNCHANGED <<store, loop, live, server, probes, written>>

\* mark_synced, for the rows of the batch.
MarkedAll(rows) ==                                  \* mutant: rows added since
    {[r EXCEPT !.synced = TRUE] : r \in table}
Marked(rows) ==
    {IF \E q \in rows : r.seq = q.seq THEN [r EXCEPT !.synced = TRUE] ELSE r :
        r \in table}

\* The batch is acknowledged: mark it, and go on if it was a full one.
Acked(c) ==
    /\ drain[c].pc = "acked"
    /\ table' = Marked(drain[c].rows)
    /\ drain' = [drain EXCEPT ![c] =
                    IF Cardinality(drain[c].rows) < BatchSize
                    THEN Idle ELSE [pc |-> "fetch", rows |-> {}]]
    /\ UNCHANGED <<nextSeq, session, flushed, loop, requests, live, server,
                   probes, written>>

\* What happens to a request whose sender has gone: the server may handle
\* it still.
Orphaned(callers) ==
    {IF q.from \in callers THEN [q EXCEPT !.from = "nobody"] ELSE q : q \in requests}

\* The request or the answer is lost, or the server refuses: sync_all
\* returns an error and leaves the rows unsynced.
SyncFails(c) ==
    /\ drain[c].pc \in {"sent", "acked", "refused"}
    /\ drain' = [drain EXCEPT ![c] = Idle]
    /\ requests' = Orphaned({c})
    /\ UNCHANGED <<store, loop, live, server, probes, written>>

(***************************************************************************)
(* The server.                                                             *)
(***************************************************************************)

\* INSERT ... ON CONFLICT(client_id, session_id, seq_id) DO NOTHING.
Arrived(r, via) == [session |-> r.session, seq |-> r.seq, probe |-> r.probe, via |-> via]
InsertAll(rows, via) == server \cup {Arrived(r, via) : r \in rows}     \* mutant
Insert(rows, via) ==
    server \cup {Arrived(r, via) : r \in {r \in rows :
                    ~\E s \in server : s.session = r.session /\ s.seq = r.seq}}

\* The limit on the size of a batch.
BelowLimit(rows) == Cardinality(rows) < ServerLimit \* mutant
Accepted(rows) == Cardinality(rows) <= ServerLimit

Answer(c, pc) ==
    IF c = "nobody" THEN drain ELSE [drain EXCEPT ![c].pc = pc]

\* POST /:clientId/sync.
ServerSync(q) ==
    /\ q \in requests
    /\ Accepted(q.rows)
    /\ server' = Insert(q.rows, "sync")
    /\ requests' = requests \ {q}
    /\ drain' = Answer(q.from, "acked")
    /\ UNCHANGED <<store, loop, live, probes, written>>

\* Too many records, or D1 fails; the rows of a request are one D1 batch.
ServerRefuses(q) ==
    /\ q \in requests
    /\ requests' = requests \ {q}
    /\ drain' = Answer(q.from, "refused")
    /\ UNCHANGED <<store, loop, live, server, probes, written>>

\* A probe_result message arrives, or is lost with its connection.
LiveArrives(r) ==
    /\ r \in live
    /\ live' = live \ {r}
    /\ server' \in {server, Insert({r}, "live")}
    /\ UNCHANGED <<store, loop, drain, requests, probes, written>>

(***************************************************************************)
(* Faults.                                                                 *)
(***************************************************************************)
Stop(fault) ==
    /\ fault \in Faults
    /\ channel' = <<>>
    /\ stalled' = NoRow
    /\ online' = FALSE
    /\ drain' = [c \in Caller |-> Idle]
    /\ requests' = Orphaned(Caller)
    /\ UNCHANGED <<live, server, probes, written>>

\* The daemon ends, by a signal, an update or a crash, and is started again.
Crash ==
    /\ Stop("crash")
    /\ UNCHANGED <<store>>

\* The store is in WAL mode with synchronous = NORMAL: a transaction is on
\* disk some time after it is committed, and after those before it.
Flush ==
    /\ "power" \in Faults
    /\ flushed' = [table |-> table, nextSeq |-> nextSeq]
    /\ UNCHANGED <<table, nextSeq, session, loop, drain, requests, live, server,
                   probes, written>>

\* The power fails, and the transactions that are not on disk are undone.
PowerLoss ==
    /\ Stop("power")
    /\ table' = flushed.table
    /\ nextSeq' = flushed.nextSeq
    /\ UNCHANGED <<session, flushed>>

\* The database is deleted and created anew, with a new session_id.
FreshSession == session + 1

Reset ==
    /\ session < MaxSessions
    /\ Stop("reset")
    /\ table' = {}
    /\ nextSeq' = 1
    /\ flushed' = [table |-> {}, nextSeq |-> 1]
    /\ session' = FreshSession

SyncAll(c) == Fetch(c) \/ Acked(c) \/ SyncFails(c)

Next ==
    \/ Probe
    \/ Unstall
    \/ Cleanup
    \/ \E d \in Drains : Connect(d)
    \/ Disconnect
    \/ Forward
    \/ SyncTick
    \/ \E c \in Caller : SyncAll(c)
    \/ \E q \in requests : ServerSync(q) \/ ServerRefuses(q)
    \/ \E r \in live : LiveArrives(r)
    \/ Crash
    \/ Flush
    \/ PowerLoss
    \/ Reset

Spec == Init /\ [][Next]_vars

(***************************************************************************)
(* Fairness.  The client keeps trying to connect, its timers and tasks     *)
(* run, and of the requests a caller keeps sending the server answers some *)
(* in time: the network is not cut for good, and the faults end.           *)
(***************************************************************************)
Served(c) == \E q \in requests : q.from = c /\ ServerSync(q)

Refused(c) == drain[c].pc = "refused" /\ SyncFails(c)

FairSpec ==
    /\ Spec
    /\ WF_vars(\E d \in Drains : Connect(d))
    /\ WF_vars(SyncTick)
    /\ \A c \in Caller : /\ WF_vars(Fetch(c)) /\ WF_vars(Refused(c))
                         /\ SF_vars(Served(c)) /\ SF_vars(Acked(c))
    /\ <>[][~(Crash \/ PowerLoss \/ Reset)]_vars

(***************************************************************************)
(* Properties.                                                             *)
(***************************************************************************)
Is(w, r) == w.seq = r.seq /\ w.probe = r.probe

\* No probe is lost between the local store, the stream and the batches: it
\* is kept on the client, unsynced, until the server has it, whatever drains
\* overlap, answers are lost or rows are cleaned up.
NothingLost ==
    \A w \in written : w.session = session =>
        \/ \E r \in Unsynced : Is(w, r)
        \/ \E s \in server : s.session = session /\ Is(w, s)

\* A probe that comes by the stream and by several overlapping or repeated
\* batches is stored once.
StoredOnce ==
    \A s, q \in server : (s.session = q.session /\ s.seq = q.seq) => s = q

\* The whole pipeline implements ProbeLog.
Log == INSTANCE ProbeLog WITH
    stored <- {[session |-> s.session, seq |-> s.seq, probe |-> s.probe] : s \in server}
ImplementsLog == Log!Spec

\* Every probe reaches the server in the end, after crashes too and after
\* power failures that undo no write.  One that does loses what was written,
\* and gives its numbers to later probes: where the server has the old row,
\* the new one is acknowledged and not stored.
EventuallyStored ==
    \A n \in 1..MaxProbes :
        (\E w \in written : w.probe = n)
            ~> \/ \E s \in server : s.probe = n
               \/ nextSeq <= probes

=============================================================================
