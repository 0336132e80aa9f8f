-------------------------- MODULE ProbeSync_proofs ---------------------------
(***************************************************************************)
(* Theorems about ProbeSync, for every value of its constants: the types,  *)
(* that no row is stored twice, that the pipeline implements ProbeLog, and *)
(* that no probe is lost.  The last two assume that no transaction of the  *)
(* store is undone by a power failure.                                     *)
(***************************************************************************)
EXTENDS ProbeSync, TLAPS

NoPowerLoss == "power" \notin Faults

(***************************************************************************)
(* Types.                                                                  *)
(***************************************************************************)

\* Requests keep their rows when their senders go.
LEMMA OrphanedType ==
    ASSUME requests \subseteq Request, NEW C
    PROVE  Orphaned(C) \subseteq Request
<1> SUFFICES ASSUME NEW q \in requests
             PROVE  /\ q \in Request
                    /\ [q EXCEPT !.from = "nobody"] \in Request
  BY DEF Orphaned
<1> QED BY DEF Request

\* A row of the table makes a row of the current session.
LEMMA BatchType ==
    ASSUME TypeOK
    PROVE  Batch \subseteq Row
<1> SUFFICES ASSUME NEW r \in Unsynced
             PROVE  [session |-> session, seq |-> r.seq, probe |-> r.probe] \in Row
  BY DEF Batch
<1>1. r \in LocalRow /\ session \in Session
  BY DEF TypeOK, Unsynced
<1> QED BY <1>1 DEF LocalRow, Row

LEMMA CallerFacts == "nobody" \notin Caller /\ "periodic" \in Caller /\ Drains \subseteq Caller
BY ConstantsOK DEF Caller

LEMMA InsertType ==
    ASSUME TypeOK, NEW rows \in SUBSET Row, NEW via \in {"live", "sync"}
    PROVE  Insert(rows, via) \subseteq Stored
<1>1. \A r \in Row : Arrived(r, via) \in Stored
  BY DEF Arrived, Stored, Row
<1> QED BY <1>1 DEF Insert, TypeOK

LEMMA InitType == Init => TypeOK
<1> SUFFICES ASSUME Init
             PROVE  TypeOK
  OBVIOUS
<1>1. nextSeq \in 1..(probes + 1) /\ probes \in 0..MaxProbes /\ session \in Session
  BY ConstantsOK DEF Init, Session
<1>2. flushed \in [table : SUBSET LocalRow, nextSeq : 1..(probes + 1)]
  BY <1>1 DEF Init
<1>3. channel \in Seq(Row) /\ Len(channel) <= ChannelCap
  BY ConstantsOK DEF Init
<1>4. drain \in [Caller -> [pc : {"idle", "fetch", "sent", "acked", "refused"},
                           rows : SUBSET Row]]
  BY DEF Init, Idle
<1> QED BY <1>1, <1>2, <1>3, <1>4 DEF Init, TypeOK

LEMMA StepType == TypeOK /\ [Next]_vars => TypeOK'
<1> SUFFICES ASSUME TypeOK, [Next]_vars
             PROVE  TypeOK'
  OBVIOUS
<1> USE DEF TypeOK, store, loop
<1>1. CASE Probe
  <2> DEFINE row == [session |-> session, seq |-> nextSeq, probe |-> probes + 1]
  <2>1. row \in Row /\ [seq |-> nextSeq, probe |-> row.probe, synced |-> FALSE] \in LocalRow
    BY <1>1, ConstantsOK DEF Probe, Autoincrement, Row, LocalRow, Number, Session
  <2>2. probes' \in 0..MaxProbes /\ nextSeq' \in 1..(probes' + 1)
    BY <1>1, ConstantsOK DEF Probe, Autoincrement
  <2>3. channel' \in Seq(Row) /\ Len(channel') <= ChannelCap /\ stalled' \in Row \cup {NoRow}
    <3>1. CASE Room /\ channel' = Append(channel, row) /\ UNCHANGED stalled
      <4> HIDE DEF row
      <4> QED BY <2>1, <3>1, ConstantsOK DEF Room
    <3>2. CASE stalled' = row /\ UNCHANGED channel
      BY <2>1, <3>2
    <3> QED BY <1>1, <3>1, <3>2 DEF Probe, Autoincrement
  <2>4. table' \subseteq LocalRow /\ written' \subseteq Row
    BY <1>1, <2>1 DEF Probe, Autoincrement
  <2>5. flushed' \in [table : SUBSET LocalRow, nextSeq : 1..(probes' + 1)]
    BY <1>1, ConstantsOK DEF Probe, Autoincrement
  <2> QED BY <1>1, <2>2, <2>3, <2>4, <2>5 DEF Probe, Autoincrement
<1>2. CASE Unstall
  BY <1>2, ConstantsOK DEF Unstall, Room, Row, NoRow
<1>3. CASE Cleanup
  BY <1>3 DEF Cleanup
<1>4. ASSUME NEW d \in Drains, Connect(d) PROVE TypeOK'
  BY <1>4, CallerFacts DEF Connect
<1>5. CASE Disconnect
  BY <1>5 DEF Disconnect
<1>6. CASE Forward
  <2>1. channel' \in Seq(Row) /\ Len(channel') <= ChannelCap
    BY <1>6, ConstantsOK DEF Forward
  <2>2. Head(channel) \in Row
    BY <1>6 DEF Forward
  <2> QED BY <1>6, <2>1, <2>2 DEF Forward
<1>7. CASE SyncTick
  BY <1>7, CallerFacts DEF SyncTick
<1>8. ASSUME NEW c \in Caller, Fetch(c) PROVE TypeOK'
  <2>1. [from |-> c, rows |-> Batch] \in Request
    BY BatchType DEF Request
  <2>2. requests' \subseteq Request
    BY <1>8, <2>1 DEF Fetch
  <2>3. drain' \in [Caller -> [pc : {"idle", "fetch", "sent", "acked", "refused"},
                               rows : SUBSET Row]]
    BY <1>8, BatchType DEF Fetch, Idle
  <2> QED BY <1>8, <2>2, <2>3 DEF Fetch
<1>9. ASSUME NEW c \in Caller, Acked(c) PROVE TypeOK'
  <2>1. table' \subseteq LocalRow
    <3>1. \A r \in LocalRow : [r EXCEPT !.synced = TRUE] \in LocalRow
      BY DEF LocalRow
    <3> QED BY <1>9, <3>1 DEF Acked, Marked
  <2>2. drain' \in [Caller -> [pc : {"idle", "fetch", "sent", "acked", "refused"},
                               rows : SUBSET Row]]
    <3> DEFINE new == IF Cardinality(drain[c].rows) < BatchSize
                      THEN Idle ELSE [pc |-> "fetch", rows |-> {}]
    <3>1. new \in [pc : {"idle", "fetch", "sent", "acked", "refused"}, rows : SUBSET Row]
      BY DEF Idle
    <3>2. drain' = [drain EXCEPT ![c] = new]
      BY <1>9 DEF Acked
    <3> HIDE DEF new
    <3> QED BY <3>1, <3>2
  <2> QED BY <1>9, <2>1, <2>2 DEF Acked
<1>10. ASSUME NEW c \in Caller, SyncFails(c) PROVE TypeOK'
  <2>1. requests' \subseteq Request
    BY <1>10, OrphanedType DEF SyncFails
  <2>2. drain' \in [Caller -> [pc : {"idle", "fetch", "sent", "acked", "refused"},
                               rows : SUBSET Row]]
    BY <1>10 DEF SyncFails, Idle
  <2> QED BY <1>10, <2>1, <2>2 DEF SyncFails
<1>11. ASSUME NEW q \in requests, ServerSync(q) PROVE TypeOK'
  <2>1. server' \subseteq Stored
    BY <1>11, InsertType DEF ServerSync, Request
  <2>2. drain' \in [Caller -> [pc : {"idle", "fetch", "sent", "acked", "refused"},
                               rows : SUBSET Row]]
    BY <1>11 DEF ServerSync, Answer, Request
  <2> QED BY <1>11, <2>1, <2>2 DEF ServerSync
<1>12. ASSUME NEW q \in requests, ServerRefuses(q) PROVE TypeOK'
  <2>1. drain' \in [Caller -> [pc : {"idle", "fetch", "sent", "acked", "refused"},
                               rows : SUBSET Row]]
    BY <1>12 DEF ServerRefuses, Answer, Request
  <2> QED BY <1>12, <2>1 DEF ServerRefuses
<1>13. ASSUME NEW r \in live, LiveArrives(r) PROVE TypeOK'
  <2>1. server' \subseteq Stored
    BY <1>13, InsertType DEF LiveArrives
  <2> QED BY <1>13, <2>1 DEF LiveArrives
<1>14. ASSUME NEW fault, Stop(fault)
       PROVE  /\ channel' \in Seq(Row) /\ Len(channel') <= ChannelCap
              /\ stalled' \in Row \cup {NoRow} /\ online' \in BOOLEAN
              /\ drain' \in [Caller -> [pc : {"idle", "fetch", "sent", "acked", "refused"},
                                        rows : SUBSET Row]]
              /\ requests' \subseteq Request
              /\ UNCHANGED <<live, server, probes, written>>
  <2>1. requests' \subseteq Request
    BY <1>14, OrphanedType DEF Stop
  <2>2. channel' \in Seq(Row) /\ Len(channel') <= ChannelCap
    BY <1>14, ConstantsOK DEF Stop
  <2> QED BY <1>14, <2>1, <2>2 DEF Stop, Idle
<1>15. CASE Crash
  BY <1>14, <1>15 DEF Crash
<1>16. CASE Flush
  BY <1>16 DEF Flush
<1>17. CASE PowerLoss
  BY <1>14, <1>17 DEF PowerLoss
<1>18. CASE Reset
  <2>1. UNCHANGED <<live, server, probes, written>>
    BY <1>14, <1>18 DEF Reset
  <2>2. session' \in Session /\ nextSeq' \in 1..(probes' + 1) /\ table' = {}
    BY <1>18, <2>1, ConstantsOK DEF Reset, FreshSession, Session
  <2>3. flushed' \in [table : SUBSET LocalRow, nextSeq : 1..(probes' + 1)]
    BY <1>18, <2>1, ConstantsOK DEF Reset
  <2> QED BY <1>14, <1>18, <2>1, <2>2, <2>3 DEF Reset
<1>19. CASE UNCHANGED vars
  BY <1>19 DEF vars
<1> QED
  BY <1>1, <1>2, <1>3, <1>4, <1>5, <1>6, <1>7, <1>8, <1>9, <1>10, <1>11, <1>12,
     <1>13, <1>15, <1>16, <1>17, <1>18, <1>19 DEF Next, SyncAll

\* The state keeps its types, and the channel its bound, whatever fails.
THEOREM TypeCorrect == Spec => []TypeOK
BY InitType, StepType, PTL DEF Spec

(***************************************************************************)
(* No row is stored twice, whatever fails: AUTOINCREMENT numbers the rows  *)
(* of a table apart, so those of a batch have keys of their own, and the   *)
(* server inserts no key it has.                                           *)
(***************************************************************************)
Distinct(t, n) ==
    /\ \A r \in t : r.seq < n
    /\ \A r, q \in t : r.seq = q.seq => r = q

SameKey(r, q) == r.session = q.session /\ r.seq = q.seq
Apart(rows) == \A r, q \in rows : SameKey(r, q) => r = q

OnceInv ==
    /\ TypeOK
    /\ Distinct(table, nextSeq)
    /\ Distinct(flushed.table, flushed.nextSeq)
    /\ \A q \in requests : Apart(q.rows)
    /\ StoredOnce

LEMMA BatchApart ==
    ASSUME Distinct(table, nextSeq)
    PROVE  Apart(Batch)
<1> SUFFICES ASSUME NEW r \in Batch, NEW q \in Batch, SameKey(r, q)
             PROVE  r = q
  BY DEF Apart
<1>1. PICK s \in table : r = [session |-> session, seq |-> s.seq, probe |-> s.probe]
  BY DEF Batch, Unsynced
<1>2. PICK t \in table : q = [session |-> session, seq |-> t.seq, probe |-> t.probe]
  BY DEF Batch, Unsynced
<1>3. s.seq = t.seq
  BY <1>1, <1>2 DEF SameKey
<1> QED BY <1>1, <1>2, <1>3 DEF Distinct

LEMMA InsertOnce ==
    ASSUME TypeOK, StoredOnce, NEW rows \in SUBSET Row, Apart(rows),
           NEW via \in {"live", "sync"}
    PROVE  \A s, q \in Insert(rows, via) :
               (s.session = q.session /\ s.seq = q.seq) => s = q
<1> DEFINE new == {r \in rows : ~\E s \in server : s.session = r.session /\ s.seq = r.seq}
<1>1. Insert(rows, via) = server \cup {Arrived(r, via) : r \in new}
  BY DEF Insert
<1>2. \A r \in new : Arrived(r, via).session = r.session /\ Arrived(r, via).seq = r.seq
  BY DEF Arrived
<1>3. \A r, q \in new : (r.session = q.session /\ r.seq = q.seq) => r = q
  BY DEF Apart, SameKey
<1>4. \A r \in new, s \in server : ~(s.session = r.session /\ s.seq = r.seq)
  OBVIOUS
<1> HIDE DEF new
<1> QED BY <1>1, <1>2, <1>3, <1>4 DEF StoredOnce

LEMMA OrphanedRows ==
    ASSUME NEW C, NEW q \in Orphaned(C), requests \subseteq Request
    PROVE  \E p \in requests : /\ q.rows = p.rows
                               /\ q.from \in {p.from, "nobody"}
                               /\ p.from \in C => q.from = "nobody"
                               /\ p.from \notin C => q = p
<1>1. PICK p \in requests : q = IF p.from \in C THEN [p EXCEPT !.from = "nobody"] ELSE p
  BY DEF Orphaned
<1>2. p \in Request
  OBVIOUS
<1> QED BY <1>1, <1>2 DEF Request

\* mark_synced changes nothing but the marks.
LEMMA MarkedRow ==
    ASSUME table \subseteq LocalRow, NEW rows, NEW r \in Marked(rows)
    PROVE  \E t \in table : /\ r.seq = t.seq /\ r.probe = t.probe
                            /\ r = IF \E q \in rows : t.seq = q.seq
                                   THEN [t EXCEPT !.synced = TRUE] ELSE t
<1>1. PICK t \in table : r = IF \E q \in rows : t.seq = q.seq
                             THEN [t EXCEPT !.synced = TRUE] ELSE t
  BY DEF Marked
<1>2. t \in LocalRow
  OBVIOUS
<1> QED BY <1>1, <1>2 DEF LocalRow

LEMMA MarkedDistinct ==
    ASSUME table \subseteq LocalRow, NEW rows, Distinct(table, nextSeq)
    PROVE  Distinct(Marked(rows), nextSeq)
<1>1. \A r \in Marked(rows) : r.seq < nextSeq
  BY MarkedRow DEF Distinct
<1>2. ASSUME NEW r \in Marked(rows), NEW q \in Marked(rows), r.seq = q.seq
      PROVE  r = q
  <2>1. PICK t \in table : r.seq = t.seq /\ r = IF \E p \in rows : t.seq = p.seq
                                               THEN [t EXCEPT !.synced = TRUE] ELSE t
    BY MarkedRow
  <2>2. PICK u \in table : q.seq = u.seq /\ q = IF \E p \in rows : u.seq = p.seq
                                               THEN [u EXCEPT !.synced = TRUE] ELSE u
    BY MarkedRow
  <2>3. t = u
    BY <1>2, <2>1, <2>2 DEF Distinct
  <2> QED BY <2>1, <2>2, <2>3
<1> QED BY <1>1, <1>2 DEF Distinct

LEMMA InitOnce == Init => OnceInv
BY InitType DEF Init, OnceInv, Distinct, StoredOnce

LEMMA StepOnce == OnceInv /\ [Next]_vars => OnceInv'
<1> SUFFICES ASSUME OnceInv, [Next]_vars
             PROVE  OnceInv'
  OBVIOUS
<1> USE DEF OnceInv, store, loop
<1>0. TypeOK'
  BY StepType
<1>a. ASSUME NEW fault, Stop(fault)
      PROVE  /\ \A q \in requests' : Apart(q.rows)
             /\ server' = server
  BY <1>a, OrphanedRows DEF Stop, TypeOK
<1>1. CASE Probe
  <2>1. Distinct(table', nextSeq')
    <3>1. \A r \in table : r.seq \in Int
      BY DEF TypeOK, LocalRow, Number
    <3>2. nextSeq \in Int /\ nextSeq' = nextSeq + 1
      BY <1>1 DEF Probe, Autoincrement, TypeOK
    <3>3. PICK new : new.seq = nextSeq /\ table' = table \cup {new}
      BY <1>1 DEF Probe, Autoincrement
    <3> QED BY <3>1, <3>2, <3>3 DEF Distinct
  <2> QED BY <1>0, <1>1, <2>1 DEF Probe, Autoincrement, StoredOnce
<1>2. CASE Unstall
  BY <1>0, <1>2 DEF Unstall, StoredOnce
<1>3. CASE Cleanup
  <2>1. Distinct(table', nextSeq')
    BY <1>3 DEF Cleanup, Distinct
  <2> QED BY <1>0, <1>3, <2>1 DEF Cleanup, StoredOnce
<1>4. ASSUME NEW d \in Drains, Connect(d) PROVE OnceInv'
  BY <1>0, <1>4 DEF Connect, StoredOnce
<1>5. CASE Disconnect
  BY <1>0, <1>5 DEF Disconnect, StoredOnce
<1>6. CASE Forward
  BY <1>0, <1>6 DEF Forward, StoredOnce
<1>7. CASE SyncTick
  BY <1>0, <1>7 DEF SyncTick, StoredOnce
<1>8. ASSUME NEW c \in Caller, Fetch(c) PROVE OnceInv'
  <2>1. \A q \in requests' : Apart(q.rows)
    BY <1>8, BatchApart DEF Fetch
  <2> QED BY <1>0, <1>8, <2>1 DEF Fetch, StoredOnce
<1>9. ASSUME NEW c \in Caller, Acked(c) PROVE OnceInv'
  <2>1. Distinct(table', nextSeq')
    BY <1>9, MarkedDistinct DEF Acked, TypeOK
  <2> QED BY <1>0, <1>9, <2>1 DEF Acked, StoredOnce
<1>10. ASSUME NEW c \in Caller, SyncFails(c) PROVE OnceInv'
  <2>1. \A q \in requests' : Apart(q.rows)
    BY <1>10, OrphanedRows DEF SyncFails, TypeOK
  <2> QED BY <1>0, <1>10, <2>1 DEF SyncFails, StoredOnce
<1>11. ASSUME NEW q \in requests, ServerSync(q) PROVE OnceInv'
  <2>1. q.rows \in SUBSET Row
    BY DEF TypeOK, Request
  <2>2. StoredOnce'
    BY <1>11, <2>1, InsertOnce DEF ServerSync, StoredOnce
  <2> QED BY <1>0, <1>11, <2>2 DEF ServerSync
<1>12. ASSUME NEW q \in requests, ServerRefuses(q) PROVE OnceInv'
  BY <1>0, <1>12 DEF ServerRefuses, StoredOnce
<1>13. ASSUME NEW r \in live, LiveArrives(r) PROVE OnceInv'
  <2>1. {r} \in SUBSET Row /\ Apart({r})
    BY DEF TypeOK, Apart
  <2>2. StoredOnce'
    BY <1>13, <2>1, InsertOnce DEF LiveArrives, StoredOnce
  <2> QED BY <1>0, <1>13, <2>2 DEF LiveArrives
<1>14. CASE Crash
  BY <1>0, <1>a, <1>14 DEF Crash, StoredOnce
<1>15. CASE Flush
  BY <1>0, <1>15 DEF Flush, StoredOnce
<1>16. CASE PowerLoss
  BY <1>0, <1>a, <1>16 DEF PowerLoss, StoredOnce
<1>17. CASE Reset
  <2>1. Distinct(table', nextSeq') /\ Distinct(flushed'.table, flushed'.nextSeq)
    BY <1>17 DEF Reset, Distinct
  <2> QED BY <1>0, <1>a, <1>17, <2>1 DEF Reset, StoredOnce
<1>18. CASE UNCHANGED vars
  BY <1>0, <1>18 DEF vars, StoredOnce
<1> QED
  BY <1>1, <1>2, <1>3, <1>4, <1>5, <1>6, <1>7, <1>8, <1>9, <1>10, <1>11, <1>12,
     <1>13, <1>14, <1>15, <1>16, <1>17, <1>18 DEF Next, SyncAll

\* The server stores a row under its key once, however the stream, the
\* overlapping drains, retries, crashes and power failures bring it.
THEOREM NoRowTwice == Spec => []StoredOnce
<1>1. OnceInv => StoredOnce
  BY DEF OnceInv
<1> QED BY InitOnce, StepOnce, <1>1, PTL DEF Spec

(***************************************************************************)
(* Every row on its way was written by the probe task, and written rows    *)
(* have keys of their own: within a session AUTOINCREMENT only grows, and  *)
(* a new database has a new session.  A power failure would undo that.     *)
(***************************************************************************)
RowOf(r) == [session |-> session, seq |-> r.seq, probe |-> r.probe]
Plain(s) == [session |-> s.session, seq |-> s.seq, probe |-> s.probe]

KeysFresh ==
    \A w \in written : w.session <= session /\ (w.session = session => w.seq < nextSeq)

OriginInv ==
    /\ TypeOK
    /\ KeysFresh
    /\ Apart(written)
    /\ \A r \in table : RowOf(r) \in written
    /\ \A i \in 1..Len(channel) : channel[i] \in written
    /\ stalled \in written \cup {NoRow}
    /\ \A q \in requests : q.rows \subseteq written
    /\ \A c \in Caller : drain[c].rows \subseteq written
    /\ live \subseteq written
    /\ \A s \in server : Plain(s) \in written

LEMMA BatchWritten ==
    ASSUME \A r \in table : RowOf(r) \in written
    PROVE  Batch \subseteq written
BY DEF Batch, Unsynced, RowOf

LEMMA PlainArrived ==
    ASSUME NEW r \in Row, NEW via
    PROVE  Plain(Arrived(r, via)) = r
BY DEF Plain, Arrived, Row

LEMMA InsertWritten ==
    ASSUME OriginInv, NEW rows \in SUBSET written, NEW via \in {"live", "sync"}
    PROVE  \A s \in Insert(rows, via) : Plain(s) \in written
<1>1. rows \subseteq Row
  BY DEF OriginInv, TypeOK
<1>2. \A s \in Insert(rows, via) : s \in server \/ \E r \in rows : s = Arrived(r, via)
  BY DEF Insert
<1> QED BY <1>1, <1>2, PlainArrived DEF OriginInv

LEMMA InitOrigin == Init => OriginInv
BY InitType DEF Init, OriginInv, KeysFresh, Apart, Idle

LEMMA StepOrigin ==
    ASSUME NoPowerLoss
    PROVE  OriginInv /\ [Next]_vars => OriginInv'
<1> SUFFICES ASSUME OriginInv, [Next]_vars
             PROVE  OriginInv'
  OBVIOUS
<1> USE DEF OriginInv, store, loop
<1>0. TypeOK'
  BY StepType
<1>a. ASSUME NEW fault, Stop(fault)
      PROVE  /\ \A i \in 1..Len(channel') : channel'[i] \in written'
             /\ stalled' \in written' \cup {NoRow}
             /\ \A q \in requests' : q.rows \subseteq written'
             /\ \A c \in Caller : drain'[c].rows \subseteq written'
             /\ UNCHANGED <<live, server, written>>
  BY <1>a, OrphanedRows DEF Stop, TypeOK, Idle
<1>1. CASE Probe
  <2> DEFINE row == [session |-> session, seq |-> nextSeq, probe |-> probes + 1]
  <2>1. /\ written' = written \cup {row}
        /\ nextSeq' = nextSeq + 1 /\ nextSeq \in Int /\ session' = session
        /\ session \in Int
    BY <1>1 DEF Probe, Autoincrement, TypeOK, Session
  <2>2. \A w \in written : w.seq \in Int /\ w.session \in Int
    BY DEF TypeOK, Row, Number, Session
  <2>3. KeysFresh'
    BY <2>1, <2>2 DEF KeysFresh
  <2>4. Apart(written')
    BY <2>1, <2>2 DEF Apart, SameKey, KeysFresh
  <2>5. ASSUME NEW r \in table' PROVE RowOf(r)' \in written'
    <3>1. CASE r \in table
      BY <2>1, <3>1 DEF RowOf
    <3>2. CASE r = [seq |-> nextSeq, probe |-> row.probe, synced |-> FALSE]
      BY <2>1, <3>2 DEF RowOf
    <3> QED BY <1>1, <2>5, <3>1, <3>2 DEF Probe, Autoincrement
  <2>6. /\ \A i \in 1..Len(channel') : channel'[i] \in written'
        /\ stalled' \in written' \cup {NoRow}
    <3>1. channel \in Seq(Row) /\ row \in written' /\ written \subseteq written'
      BY <2>1 DEF TypeOK
    <3>2. CASE channel' = Append(channel, row) /\ UNCHANGED stalled
      <4> HIDE DEF row
      <4> QED BY <3>1, <3>2
    <3>3. CASE stalled' = row /\ UNCHANGED channel
      <4> HIDE DEF row
      <4> QED BY <3>1, <3>3
    <3> QED BY <1>1, <3>2, <3>3 DEF Probe, Autoincrement
  <2>7. UNCHANGED <<drain, requests, live, server>>
    BY <1>1 DEF Probe, Autoincrement
  <2>8. \A s \in server' : Plain(s)' \in written'
    BY <2>1, <2>7 DEF Plain
  <2> HIDE DEF row
  <2> QED BY <1>0, <2>1, <2>3, <2>4, <2>5, <2>6, <2>7, <2>8
<1>2. CASE Unstall
  <2>1. \A i \in 1..Len(channel') : channel'[i] \in written'
    BY <1>2 DEF Unstall, TypeOK
  <2> QED BY <1>0, <1>2, <2>1 DEF Unstall, KeysFresh, RowOf, Plain
<1>3. CASE Cleanup
  BY <1>0, <1>3 DEF Cleanup, KeysFresh, RowOf, Plain
<1>4. ASSUME NEW d \in Drains, Connect(d) PROVE OriginInv'
  <2>1. \A c \in Caller : drain'[c].rows \subseteq written'
    BY <1>4, CallerFacts DEF Connect, TypeOK
  <2> QED BY <1>0, <1>4, <2>1 DEF Connect, KeysFresh, RowOf, Plain
<1>5. CASE Disconnect
  BY <1>0, <1>5 DEF Disconnect, KeysFresh, RowOf, Plain
<1>6. CASE Forward
  <2>1. \A i \in 1..Len(channel') : channel'[i] \in written'
    BY <1>6 DEF Forward, TypeOK
  <2>2. Head(channel) \in written
    BY <1>6 DEF Forward, TypeOK
  <2> QED BY <1>0, <1>6, <2>1, <2>2 DEF Forward, KeysFresh, RowOf, Plain
<1>7. CASE SyncTick
  <2>1. \A c \in Caller : drain'[c].rows \subseteq written'
    BY <1>7 DEF SyncTick, TypeOK
  <2> QED BY <1>0, <1>7, <2>1 DEF SyncTick, KeysFresh, RowOf, Plain
<1>8. ASSUME NEW c \in Caller, Fetch(c) PROVE OriginInv'
  <2>1. \A q \in requests' : q.rows \subseteq written'
    BY <1>8, BatchWritten DEF Fetch
  <2>2. \A b \in Caller : drain'[b].rows \subseteq written'
    BY <1>8, BatchWritten DEF Fetch, TypeOK, Idle
  <2> QED BY <1>0, <1>8, <2>1, <2>2 DEF Fetch, KeysFresh, RowOf, Plain
<1>9. ASSUME NEW c \in Caller, Acked(c) PROVE OriginInv'
  <2>1. \A r \in table' : RowOf(r)' \in written'
    BY <1>9, MarkedRow DEF Acked, TypeOK, RowOf
  <2>2. \A b \in Caller : drain'[b].rows \subseteq written'
    BY <1>9 DEF Acked, TypeOK, Idle
  <2> QED BY <1>0, <1>9, <2>1, <2>2 DEF Acked, KeysFresh, Plain
<1>10. ASSUME NEW c \in Caller, SyncFails(c) PROVE OriginInv'
  <2>1. \A q \in requests' : q.rows \subseteq written'
    BY <1>10, OrphanedRows DEF SyncFails, TypeOK
  <2>2. \A b \in Caller : drain'[b].rows \subseteq written'
    BY <1>10 DEF SyncFails, TypeOK, Idle
  <2> QED BY <1>0, <1>10, <2>1, <2>2 DEF SyncFails, KeysFresh, RowOf, Plain
<1>11. ASSUME NEW q \in requests, ServerSync(q) PROVE OriginInv'
  <2>1. \A s \in server' : Plain(s) \in written
    BY <1>11, InsertWritten DEF ServerSync
  <2>2. \A c \in Caller : drain'[c].rows \subseteq written'
    BY <1>11 DEF ServerSync, Answer, TypeOK, Request
  <2> QED BY <1>0, <1>11, <2>1, <2>2 DEF ServerSync, KeysFresh, RowOf, Plain
<1>12. ASSUME NEW q \in requests, ServerRefuses(q) PROVE OriginInv'
  <2>1. \A c \in Caller : drain'[c].rows \subseteq written'
    BY <1>12 DEF ServerRefuses, Answer, TypeOK, Request
  <2> QED BY <1>0, <1>12, <2>1 DEF ServerRefuses, KeysFresh, RowOf, Plain
<1>13. ASSUME NEW r \in live, LiveArrives(r) PROVE OriginInv'
  <2>1. {r} \in SUBSET written
    OBVIOUS
  <2>2. \A s \in server' : Plain(s) \in written
    BY <1>13, <2>1, InsertWritten DEF LiveArrives
  <2> QED BY <1>0, <1>13, <2>2 DEF LiveArrives, KeysFresh, RowOf, Plain
<1>14. CASE Crash
  BY <1>0, <1>a, <1>14 DEF Crash, KeysFresh, RowOf, Plain
<1>15. CASE Reset
  <2>1. /\ session' = session + 1 /\ session \in Int /\ table' = {}
        /\ UNCHANGED <<live, server, written>>
    BY <1>a, <1>15 DEF Reset, FreshSession, TypeOK, Session
  <2>2. \A w \in written : w.session \in Int
    BY DEF TypeOK, Row, Session
  <2>3. KeysFresh'
    BY <2>1, <2>2 DEF KeysFresh
  <2> QED BY <1>0, <1>a, <1>15, <2>1, <2>3 DEF Reset, Plain
<1>16. CASE UNCHANGED vars
  BY <1>0, <1>16 DEF vars, KeysFresh, RowOf, Plain
<1>17. ~Flush /\ ~PowerLoss
  BY DEF Flush, PowerLoss, Stop, NoPowerLoss
<1> QED
  BY <1>1, <1>2, <1>3, <1>4, <1>5, <1>6, <1>7, <1>8, <1>9, <1>10, <1>11, <1>12,
     <1>13, <1>14, <1>15, <1>16, <1>17 DEF Next, SyncAll

(***************************************************************************)
(* The refinement.                                                         *)
(***************************************************************************)
StoredRows == {[session |-> s.session, seq |-> s.seq, probe |-> s.probe] : s \in server}

\* What a batch or a message adds to the server is written and new there.
LEMMA InsertStores ==
    ASSUME OriginInv, NEW rows \in SUBSET written, NEW via \in {"live", "sync"},
           server' = Insert(rows, via)
    PROVE  \E new \in SUBSET (written \ StoredRows) : StoredRows' = StoredRows \cup new
<1> DEFINE new == {r \in rows : ~\E s \in server : s.session = r.session /\ s.seq = r.seq}
<1>1. server' = server \cup {Arrived(r, via) : r \in new}
  BY DEF Insert
<1>2. \A r \in new : Plain(Arrived(r, via)) = r
  BY PlainArrived DEF OriginInv, TypeOK
<1>3. \A r \in new : r \in written /\ r \notin StoredRows
  BY DEF StoredRows
<1> HIDE DEF new
<1>4. StoredRows' = StoredRows \cup new
  BY <1>1, <1>2 DEF StoredRows, Plain
<1> QED BY <1>3, <1>4

LEMMA InitLog == Init => Log!Init
BY DEF Init, Log!Init

LEMMA StepLog ==
    ASSUME NoPowerLoss
    PROVE  OriginInv /\ [Next]_vars => [Log!Next]_Log!vars
<1> SUFFICES ASSUME OriginInv, [Next]_vars
             PROVE  \/ Log!Next
                    \/ written' = written /\ StoredRows' = StoredRows
  BY DEF Log!vars, StoredRows
<1>1. CASE Probe
  <2> DEFINE row == [session |-> session, seq |-> nextSeq, probe |-> probes + 1]
  <2>1. row \in Row /\ written' = written \cup {row} /\ server' = server
    BY <1>1, StepType, ConstantsOK
       DEF Probe, Autoincrement, OriginInv, TypeOK, Row, Number, Session
  <2>2. \A w \in written : ~Log!SameKey(row, w)
    <3>1. \A w \in written : w.session = session => w.seq < nextSeq /\ w.seq \in Int
      BY DEF OriginInv, KeysFresh, TypeOK, Row, Number
    <3>2. nextSeq \in Int
      BY DEF OriginInv, TypeOK
    <3> QED BY <3>1, <3>2 DEF Log!SameKey
  <2>3. StoredRows' = StoredRows
    BY <2>1 DEF StoredRows
  <2> HIDE DEF row
  <2> QED BY <2>1, <2>2, <2>3 DEF Log!Next, Log!Write, StoredRows
<1>2. ASSUME NEW q \in requests, ServerSync(q) PROVE Log!Next
  <2>1. q.rows \in SUBSET written /\ server' = Insert(q.rows, "sync") /\ written' = written
    BY <1>2 DEF ServerSync, OriginInv
  <2> QED BY <2>1, InsertStores DEF Log!Next, Log!Store, StoredRows
<1>3. ASSUME NEW r \in live, LiveArrives(r)
      PROVE  Log!Next \/ (written' = written /\ StoredRows' = StoredRows)
  <2>1. {r} \in SUBSET written /\ written' = written
    BY <1>3 DEF LiveArrives, OriginInv
  <2>2. CASE server' = server
    BY <2>1, <2>2 DEF StoredRows
  <2>3. CASE server' = Insert({r}, "live")
    BY <2>1, <2>3, InsertStores DEF Log!Next, Log!Store, StoredRows
  <2> QED BY <1>3, <2>2, <2>3 DEF LiveArrives
<1>4. ASSUME UNCHANGED <<server, written>>
      PROVE  written' = written /\ StoredRows' = StoredRows
  BY <1>4 DEF StoredRows
<1>5. ASSUME NEW fault, Stop(fault) PROVE UNCHANGED <<server, written>>
  BY <1>5 DEF Stop
<1> QED
  BY <1>1, <1>2, <1>3, <1>4, <1>5 DEF Next, SyncAll, Unstall, Cleanup, Connect,
     Disconnect, Forward, SyncTick, Fetch, Acked, SyncFails, ServerRefuses, Crash,
     Flush, PowerLoss, Reset, vars

\* Through every interleaving, crash and reset the pipeline does what ProbeLog
\* promises: the server stores written probes only, each once, for good.
THEOREM PipelineImplementsLog ==
    ASSUME NoPowerLoss
    PROVE  Spec => ImplementsLog
<1>1. Spec => []OriginInv
  BY InitOrigin, StepOrigin, PTL DEF Spec
<1> QED BY <1>1, InitLog, StepLog, PTL DEF Spec, ImplementsLog, Log!Spec

(***************************************************************************)
(* No probe is lost.  A row counts as synced on the client only when a     *)
(* batch with it was acknowledged, and that batch is on the server.        *)
(***************************************************************************)
OnServer(w) == \E s \in server : Plain(s) = w

Asked ==
    \A q \in requests :
        q.from # "nobody" => drain[q.from].pc = "sent" /\ drain[q.from].rows = q.rows

DrainsCurrent == \A c \in Caller : \A r \in drain[c].rows : r.session = session

AckedStored ==
    \A c \in Caller : drain[c].pc = "acked" => \A r \in drain[c].rows : OnServer(r)

SyncedStored == \A r \in table : r.synced => OnServer(RowOf(r))

KeptOrStored ==
    \A w \in written : w.session = session =>
        OnServer(w) \/ \E r \in Unsynced : RowOf(r) = w

DeliveryInv ==
    /\ OriginInv
    /\ Asked
    /\ DrainsCurrent
    /\ AckedStored
    /\ SyncedStored
    /\ KeptOrStored

\* After Insert the server has every row of the batch.
LEMMA InsertAllThere ==
    ASSUME OriginInv, NEW rows \in SUBSET written, NEW via \in {"live", "sync"},
           server' = Insert(rows, via)
    PROVE  /\ \A r \in rows : OnServer(r)'
           /\ \A w : OnServer(w) => OnServer(w)'
<1>1. ASSUME NEW r \in rows PROVE \E s \in server' : Plain(s) = r
  <2>1. r \in Row /\ r \in written
    BY DEF OriginInv, TypeOK
  <2>2. CASE \E s \in server : s.session = r.session /\ s.seq = r.seq
    <3>1. PICK s \in server : s.session = r.session /\ s.seq = r.seq
      BY <2>2
    <3>2. Plain(s) \in written /\ SameKey(Plain(s), r)
      BY <3>1 DEF OriginInv, SameKey, Plain
    <3>3. Plain(s) = r
      BY <2>1, <3>2 DEF OriginInv, Apart
    <3> QED BY <3>1, <3>3 DEF Insert
  <2>3. CASE ~\E s \in server : s.session = r.session /\ s.seq = r.seq
    BY <2>1, <2>3, PlainArrived DEF Insert
  <2> QED BY <2>2, <2>3
<1>2. server \subseteq server'
  BY DEF Insert
<1> QED BY <1>1, <1>2 DEF OnServer, Plain

LEMMA InitDelivery == Init => DeliveryInv
BY InitOrigin DEF Init, DeliveryInv, Asked, DrainsCurrent, AckedStored, SyncedStored,
   KeptOrStored, Idle

LEMMA StepDelivery ==
    ASSUME NoPowerLoss
    PROVE  DeliveryInv /\ [Next]_vars => DeliveryInv'
<1> SUFFICES ASSUME DeliveryInv, [Next]_vars
             PROVE  DeliveryInv'
  OBVIOUS
<1> USE DEF DeliveryInv, store, loop
<1>0. OriginInv' /\ TypeOK
  BY StepOrigin DEF OriginInv
<1>a. ASSUME UNCHANGED <<session, written, server, drain, requests>>
      PROVE  Asked' /\ DrainsCurrent' /\ AckedStored'
  BY <1>a DEF Asked, DrainsCurrent, AckedStored, OnServer, Plain
<1>b. ASSUME UNCHANGED <<session, table, written>>,
             server' = server \/ (\A w : OnServer(w) => OnServer(w)')
      PROVE  SyncedStored' /\ KeptOrStored'
  BY <1>b DEF SyncedStored, KeptOrStored, Unsynced, OnServer, RowOf, Plain
<1>c. ASSUME NEW fault, Stop(fault)
      PROVE  /\ Asked' /\ DrainsCurrent' /\ AckedStored'
             /\ UNCHANGED <<server, written>>
  <2>1. /\ drain' = [c \in Caller |-> Idle] /\ requests' = Orphaned(Caller)
        /\ UNCHANGED <<server, written>>
    BY <1>c DEF Stop
  <2>2. \A q \in requests' : q.from = "nobody"
    BY <2>1, <1>0, OrphanedRows DEF TypeOK, Request
  <2> QED BY <2>1, <2>2 DEF Asked, DrainsCurrent, AckedStored, Idle
<1>1. CASE Probe
  <2>1. PICK row : /\ row = [session |-> session, seq |-> nextSeq, probe |-> probes + 1]
                   /\ written' = written \cup {row}
                   /\ table' = table \cup
                        {[seq |-> row.seq, probe |-> row.probe, synced |-> FALSE]}
    BY <1>1 DEF Probe, Autoincrement
  <2>2. UNCHANGED <<session, server, drain, requests>>
    BY <1>1 DEF Probe, Autoincrement
  <2>3. Asked' /\ DrainsCurrent' /\ AckedStored'
    BY <2>2 DEF Asked, DrainsCurrent, AckedStored, OnServer, Plain
  <2>4. SyncedStored'
    BY <2>1, <2>2 DEF SyncedStored, OnServer, Plain, RowOf
  <2>5. KeptOrStored'
    <3> SUFFICES ASSUME NEW w \in written', w.session = session
                 PROVE  OnServer(w)' \/ \E r \in Unsynced' : RowOf(r)' = w
      BY <2>2 DEF KeptOrStored
    <3>1. CASE w \in written
      BY <2>1, <2>2, <3>1 DEF KeptOrStored, Unsynced, OnServer, Plain, RowOf
    <3>2. CASE w = row
      <4> DEFINE new == [seq |-> row.seq, probe |-> row.probe, synced |-> FALSE]
      <4>1. new \in Unsynced'
        BY <2>1 DEF Unsynced
      <4>2. RowOf(new)' = w
        BY <2>1, <2>2, <3>2 DEF RowOf
      <4> QED BY <4>1, <4>2
    <3> QED BY <2>1, <3>1, <3>2
  <2> QED BY <1>0, <2>3, <2>4, <2>5
<1>2. CASE Unstall
  BY <1>0, <1>2, <1>a, <1>b DEF Unstall
<1>3. CASE Cleanup
  <2>1. Unsynced' = Unsynced /\ table' \subseteq table
    BY <1>3 DEF Cleanup, Unsynced, Disposable
  <2>2. SyncedStored' /\ KeptOrStored'
    BY <1>3, <2>1 DEF Cleanup, SyncedStored, KeptOrStored, OnServer, Plain, RowOf
  <2> QED BY <1>0, <1>3, <1>a, <2>2 DEF Cleanup
<1>4. ASSUME NEW d \in Drains, Connect(d) PROVE DeliveryInv'
  <2>1. Asked' /\ DrainsCurrent' /\ AckedStored'
    BY <1>0, <1>4, CallerFacts
       DEF Connect, Asked, DrainsCurrent, AckedStored, TypeOK, Request, Idle, OnServer, Plain
  <2> QED BY <1>0, <1>4, <1>b, <2>1 DEF Connect
<1>5. CASE Disconnect
  BY <1>0, <1>5, <1>a, <1>b DEF Disconnect
<1>6. CASE Forward
  BY <1>0, <1>6, <1>a, <1>b DEF Forward
<1>7. CASE SyncTick
  <2>1. Asked' /\ DrainsCurrent' /\ AckedStored'
    BY <1>0, <1>7, CallerFacts
       DEF SyncTick, Free, Asked, DrainsCurrent, AckedStored, TypeOK, Request, OnServer, Plain
  <2> QED BY <1>0, <1>7, <1>b, <2>1 DEF SyncTick
<1>8. ASSUME NEW c \in Caller, Fetch(c) PROVE DeliveryInv'
  <2>1. UNCHANGED <<session, server, written, table>>
    BY <1>8 DEF Fetch
  <2>2. \A q \in requests : q.from # c
    BY <1>8, CallerFacts DEF Fetch, Asked
  <2>3. \A r \in Batch : r.session = session
    <3>1. \A r \in Batch : \E t \in Unsynced :
             r = [session |-> session, seq |-> t.seq, probe |-> t.probe]
      BY DEF Batch
    <3> QED BY <3>1
  <2>4. Asked'
    BY <1>0, <1>8, <2>2 DEF Fetch, Asked, TypeOK, Request, Idle
  <2>5. DrainsCurrent'
    BY <1>0, <1>8, <2>1, <2>3 DEF Fetch, DrainsCurrent, TypeOK, Idle
  <2>6. AckedStored'
    BY <1>0, <1>8, <2>1 DEF Fetch, AckedStored, TypeOK, Idle, OnServer, Plain
  <2> QED BY <1>0, <1>b, <2>1, <2>4, <2>5, <2>6
<1>9. ASSUME NEW c \in Caller, Acked(c) PROVE DeliveryInv'
  <2>1. /\ UNCHANGED <<session, server, written, requests>>
        /\ table' = Marked(drain[c].rows) /\ drain[c].pc = "acked"
    BY <1>9 DEF Acked
  <2>2. Asked' /\ DrainsCurrent' /\ AckedStored'
    BY <1>0, <1>9, <2>1
       DEF Acked, Asked, DrainsCurrent, AckedStored, TypeOK, Request, Idle, OnServer, Plain
  <2>3. ASSUME NEW t \in table, NEW q \in drain[c].rows, t.seq = q.seq
        PROVE  OnServer(RowOf(t))
    <3>1. q \in written /\ RowOf(t) \in written
      BY DEF OriginInv
    <3>2. SameKey(q, RowOf(t))
      BY <2>3 DEF DrainsCurrent, SameKey, RowOf
    <3>3. q = RowOf(t)
      BY <3>1, <3>2 DEF OriginInv, Apart
    <3> QED BY <2>1, <3>3 DEF AckedStored
  <2>4. SyncedStored'
    <3> SUFFICES ASSUME NEW r \in table', r.synced
                 PROVE  OnServer(RowOf(r))
      BY <2>1 DEF SyncedStored, OnServer, Plain, RowOf
    <3>1. PICK t \in table : /\ r.seq = t.seq /\ r.probe = t.probe
                             /\ r = IF \E q \in drain[c].rows : t.seq = q.seq
                                    THEN [t EXCEPT !.synced = TRUE] ELSE t
      BY <2>1, <1>0, MarkedRow DEF TypeOK
    <3>2. RowOf(r) = RowOf(t)
      BY <3>1 DEF RowOf
    <3> QED BY <2>3, <3>1, <3>2 DEF SyncedStored
  <2>5. KeptOrStored'
    <3> SUFFICES ASSUME NEW w \in written, w.session = session, ~OnServer(w)
                 PROVE  \E r \in Unsynced' : RowOf(r) = w
      BY <2>1 DEF KeptOrStored, OnServer, Plain, RowOf
    <3>1. PICK t \in Unsynced : RowOf(t) = w
      BY DEF KeptOrStored
    <3>2. ~\E q \in drain[c].rows : t.seq = q.seq
      BY <2>3, <3>1 DEF Unsynced
    <3>3. t \in table'
      BY <2>1, <3>2 DEF Marked, Unsynced
    <3> QED BY <3>1, <3>3 DEF Unsynced
  <2> QED BY <1>0, <2>2, <2>4, <2>5
<1>10. ASSUME NEW c \in Caller, SyncFails(c) PROVE DeliveryInv'
  <2>1. /\ UNCHANGED <<session, server, written, table>>
        /\ drain' = [drain EXCEPT ![c] = Idle] /\ requests' = Orphaned({c})
    BY <1>10 DEF SyncFails
  <2>2. Asked'
    <3> SUFFICES ASSUME NEW q \in requests', q.from # "nobody"
                 PROVE  drain'[q.from].pc = "sent" /\ drain'[q.from].rows = q.rows
      BY DEF Asked
    <3>1. PICK p \in requests : /\ q.rows = p.rows /\ q.from \in {p.from, "nobody"}
                                /\ p.from \in {c} => q.from = "nobody"
      BY <1>0, <2>1, OrphanedRows DEF TypeOK
    <3>2. p.from # c /\ q.from = p.from /\ p.from \in Caller \cup {"nobody"}
      BY <1>0, <3>1 DEF TypeOK, Request
    <3> QED BY <1>0, <2>1, <3>1, <3>2 DEF Asked, TypeOK
  <2>3. DrainsCurrent' /\ AckedStored'
    BY <1>0, <2>1 DEF DrainsCurrent, AckedStored, TypeOK, Idle, OnServer, Plain
  <2> QED BY <1>0, <1>b, <2>1, <2>2, <2>3
<1>11. ASSUME NEW q \in requests, ServerSync(q) PROVE DeliveryInv'
  <2>1. /\ UNCHANGED <<session, table, written>> /\ q.rows \in SUBSET written
        /\ server' = Insert(q.rows, "sync") /\ requests' = requests \ {q}
        /\ drain' = Answer(q.from, "acked")
    BY <1>11 DEF ServerSync, OriginInv
  <2>2. (\A r \in q.rows : OnServer(r)') /\ (\A w : OnServer(w) => OnServer(w)')
    BY <2>1, InsertAllThere
  <2>3. \A p \in requests' : p.from = q.from => p.from = "nobody"
    <3> SUFFICES ASSUME NEW p \in requests, p # q, p.from = q.from, p.from # "nobody"
                 PROVE  FALSE
      BY <2>1
    <3>1. p.rows = q.rows
      BY DEF Asked
    <3> QED BY <1>0, <3>1 DEF TypeOK, Request
  <2>4. Asked' /\ DrainsCurrent'
    BY <1>0, <2>1, <2>3 DEF Asked, DrainsCurrent, Answer, TypeOK, Request
  <2>5. AckedStored'
    <3> SUFFICES ASSUME NEW c \in Caller, drain'[c].pc = "acked", NEW r \in drain'[c].rows
                 PROVE  OnServer(r)'
      BY DEF AckedStored
    <3>1. CASE c = q.from
      BY <1>0, <2>1, <2>2, <3>1, CallerFacts DEF Asked, Answer, TypeOK, Request
    <3>2. CASE c # q.from
      BY <1>0, <2>1, <2>2, <3>2 DEF AckedStored, Answer, TypeOK, Request
    <3> QED BY <3>1, <3>2
  <2> QED BY <1>0, <1>b, <2>1, <2>2, <2>4, <2>5
<1>12. ASSUME NEW q \in requests, ServerRefuses(q) PROVE DeliveryInv'
  <2>1. /\ UNCHANGED <<session, server, written, table>> /\ requests' = requests \ {q}
        /\ drain' = Answer(q.from, "refused")
    BY <1>12 DEF ServerRefuses
  <2>2. \A p \in requests' : p.from = q.from => p.from = "nobody"
    <3> SUFFICES ASSUME NEW p \in requests, p # q, p.from = q.from, p.from # "nobody"
                 PROVE  FALSE
      BY <2>1
    <3>1. p.rows = q.rows
      BY DEF Asked
    <3> QED BY <1>0, <3>1 DEF TypeOK, Request
  <2>3. Asked' /\ DrainsCurrent' /\ AckedStored'
    BY <1>0, <2>1, <2>2
       DEF Asked, DrainsCurrent, AckedStored, Answer, TypeOK, Request, OnServer, Plain
  <2> QED BY <1>0, <1>b, <2>1, <2>3
<1>13. ASSUME NEW r \in live, LiveArrives(r) PROVE DeliveryInv'
  <2>1. UNCHANGED <<session, table, written, drain, requests>> /\ r \in written
    BY <1>13 DEF LiveArrives, OriginInv
  <2>2. \A w : OnServer(w) => OnServer(w)'
    <3>1. CASE server' = server
      BY <3>1 DEF OnServer, Plain
    <3>2. CASE server' = Insert({r}, "live")
      BY <2>1, <3>2, InsertAllThere
    <3> QED BY <1>13, <3>1, <3>2 DEF LiveArrives
  <2>3. Asked' /\ DrainsCurrent' /\ AckedStored'
    BY <2>1, <2>2 DEF Asked, DrainsCurrent, AckedStored
  <2> QED BY <1>0, <1>b, <2>1, <2>2, <2>3
<1>14. CASE Crash
  BY <1>0, <1>b, <1>c, <1>14 DEF Crash
<1>15. CASE Reset
  <2>1. session' = session + 1 /\ session \in Int /\ table' = {}
        /\ UNCHANGED <<server, written>>
    BY <1>0, <1>15, <1>c DEF Reset, FreshSession, TypeOK, Session
  <2>2. \A w \in written : w.session \in Int /\ w.session <= session
    BY <1>0 DEF TypeOK, Row, Session, OriginInv, KeysFresh
  <2>3. SyncedStored' /\ KeptOrStored'
    BY <2>1, <2>2 DEF SyncedStored, KeptOrStored
  <2> QED BY <1>0, <1>c, <1>15, <2>3 DEF Reset
<1>16. CASE UNCHANGED vars
  BY <1>0, <1>a, <1>b, <1>16 DEF vars
<1>17. ~Flush /\ ~PowerLoss
  BY DEF Flush, PowerLoss, Stop, NoPowerLoss
<1> QED
  BY <1>1, <1>2, <1>3, <1>4, <1>5, <1>6, <1>7, <1>8, <1>9, <1>10, <1>11, <1>12,
     <1>13, <1>14, <1>15, <1>16, <1>17 DEF Next, SyncAll

\* Without a power failure no probe is lost: it stays unsynced in the client's
\* store until the server has it, whatever overlaps, fails or restarts.
THEOREM NoProbeLost ==
    ASSUME NoPowerLoss
    PROVE  Spec => []NothingLost
<1>1. DeliveryInv => NothingLost
  BY DEF DeliveryInv, KeptOrStored, NothingLost, OnServer, Plain, RowOf, Is
<1> QED BY InitDelivery, StepDelivery, <1>1, PTL DEF Spec

=============================================================================
