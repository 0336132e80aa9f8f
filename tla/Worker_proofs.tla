---------------------------- MODULE Worker_proofs ----------------------------
(***************************************************************************)
(* Proofs about what the Worker does beside its connections: the archive   *)
(* and the pruning of old rows (Retention), the dashboard it serves        *)
(* (Dashboard), and the calculations of both sides (Reports).              *)
(***************************************************************************)
EXTENDS Retention, Dashboard, SequenceTheorems, FunctionTheorems,
        FiniteSetTheorems, WellFoundedInduction, TLAPS

-----------------------------------------------------------------------------
(* Retention.                                                               *)

\* The client a run works on is one it has still to do.
LEMMA CurrentTodo == ASSUME run.todo # {} PROVE Current \in run.todo
BY DEF Current, First

\* Rows that leave D1 keep the types of the table and of the history.
LEMMA MovedTyped ==
    ASSUME RetentionTypeOK, NEW gone, LeaveD1(gone)
    PROVE  rows' \subseteq Row /\ moved' \subseteq [row : Row, at : Time]
BY DEF RetentionTypeOK, LeaveD1

\* Every variable keeps its type, and what a run has found are old pings and
\* speed tests of the client it works on.
THEOREM RetentionTypeCorrect == RetentionSpec => []RetentionTypeOK
<1> USE ConstantsOK DEF ConstantsOK, Current
<1>1. RetentionInit => RetentionTypeOK
  <2> SUFFICES ASSUME RetentionInit PROVE RetentionTypeOK
    OBVIOUS
  <2>1. now \in Time /\ written \in 0..MaxRows
    BY DEF RetentionInit, Time
  <2>2. archive \in [Clients \X Day -> Object]
    BY <2>1 DEF RetentionInit, NoObject, Object
  <2> QED
    BY <2>1, <2>2 DEF RetentionInit, RetentionTypeOK, Complete
<1>2. RetentionTypeOK /\ [RetentionNext]_retention => RetentionTypeOK'
  <2> SUFFICES ASSUME RetentionTypeOK, [RetentionNext]_retention PROVE RetentionTypeOK'
    OBVIOUS
  <2>1. ASSUME NEW r \in Row, Write(r) PROVE RetentionTypeOK'
    BY <2>1 DEF RetentionTypeOK, Write, Row
  <2>2. ASSUME NEW c \in clients, DeleteClient(c) PROVE RetentionTypeOK'
    BY <2>2 DEF RetentionTypeOK, DeleteClient
  <2>3. CASE Start
    BY <2>3 DEF RetentionTypeOK, Start, Complete
  <2>4. CASE List
    BY <2>4 DEF RetentionTypeOK, List, Reading, Complete
  <2>5. CASE Read
    <3>1. CASE Old = {}
      BY <2>5, <3>1 DEF RetentionTypeOK, Read, NextClient, Reading, Complete
    <3>2. CASE Old # {}
      <4>1. Old \subseteq Row /\ run.todo # {}
        BY <2>5 DEF Old, RetentionTypeOK, Read
      <4>2. Current' = Current
        BY <2>5, <3>2 DEF Current, Read, RetentionTypeOK
      <4> QED
        BY <2>5, <3>2, <4>1, <4>2 DEF RetentionTypeOK, Read, Old
    <3> QED
      BY <3>1, <3>2
  <2>6. CASE Put
    <3>1. run.todo # {} /\ Current \in Clients /\ now \div RunsPerDay \in Day
      BY <2>6, CurrentTodo DEF RetentionTypeOK, Put, Day
    <3> DEFINE object == [archived_at |-> now, rows |-> run.found]
    <3>4. object \in Object
      BY DEF RetentionTypeOK, Object
    <3>2. Current' = Current
      BY <2>6 DEF Current, Put, RetentionTypeOK
    <3>3. archive' \in [Clients \X Day -> Object]
      <4>1. archive' = [archive EXCEPT ![<<Current, now \div RunsPerDay>>] = object]
        BY <2>6 DEF Put
      <4> HIDE DEF object
      <4> QED
        BY <3>1, <3>4, <4>1 DEF RetentionTypeOK
    <3> QED
      BY <2>6, <3>1, <3>2, <3>3 DEF RetentionTypeOK, Put
  <2>7. CASE Delete
    <3>1. PICK batch \in SUBSET run.found :
            /\ LeaveD1(batch)
            /\ run' = IF batch = run.found THEN NextClient
                      ELSE [run EXCEPT !.found = @ \ batch]
      BY <2>7 DEF Delete
    <3>4. rows' \subseteq Row /\ moved' \subseteq [row : Row, at : Time]
      BY <3>1, MovedTyped
    <3>2. CASE batch = run.found
      BY <2>7, <3>1, <3>2, <3>4 DEF RetentionTypeOK, Delete, NextClient, Reading, Complete
    <3>3. CASE batch # run.found
      <4>1. Current' = Current
        BY <2>7, <3>1, <3>3 DEF Current, RetentionTypeOK
      <4> QED
        BY <2>7, <3>1, <3>3, <3>4, <4>1 DEF RetentionTypeOK, Delete
    <3> QED
      BY <3>2, <3>3
  <2>8. CASE RunFails
    BY <2>8 DEF RetentionTypeOK, RunFails, Ended, Incomplete, Complete
  <2>9. CASE Prune
    <3>1. rows' \subseteq Row /\ moved' \subseteq [row : Row, at : Time]
      BY <2>9, MovedTyped DEF Prune, RetentionTypeOK
    <3> QED
      BY <2>9, <3>1 DEF RetentionTypeOK, Prune
  <2>10. CASE Abort
    BY <2>10 DEF RetentionTypeOK, Abort, Incomplete, Complete
  <2>11. CASE NextRun
    <3>1. now' \in Time
      BY <2>11 DEF RetentionTypeOK, NextRun, Time
    <3>2. run' = [pc |-> "incomplete", todo |-> {}, found |-> {}]
      BY <2>11 DEF NextRun, Incomplete, Complete
    <3> QED
      <4>1. UNCHANGED <<clients, rows, written, archive, moved, prune>> /\ started' = FALSE
        BY <2>11 DEF NextRun
      <4>2. run' \in [pc : {"complete", "incomplete", "list", "read", "put", "delete"},
                      todo : SUBSET Clients, found : SUBSET Row]
        BY <3>2
      <4> QED
        BY <3>1, <3>2, <4>1, <4>2 DEF RetentionTypeOK
  <2>12. CASE UNCHANGED retention
    BY <2>12 DEF RetentionTypeOK, retention
  <2> QED
    BY <2>1, <2>2, <2>3, <2>4, <2>5, <2>6, <2>7, <2>8, <2>9, <2>10, <2>11, <2>12
     DEF RetentionNext, Job
<1> QED
  BY <1>1, <1>2, PTL DEF RetentionSpec

(***************************************************************************)
(* ArchiveKept.  A run puts an object before it deletes what is in it, and *)
(* puts none for a client whose rows it has deleted already.               *)
(***************************************************************************)
Key(client, time) == <<client, time \div RunsPerDay>>

\* Between the put and the last DELETE, the object just put has all that is to be deleted.
PutFirst ==
    run.pc = "delete" =>
        /\ archive[Key(Current, now)].archived_at = now
        /\ run.found \subseteq archive[Key(Current, now)].rows

\* Nothing was deleted later than now, nor is an object from a later time; and who is
\* still to be done in this run has lost no rows in it.
MovedBefore ==
    /\ Active => started
    /\ \A m \in moved :
           /\ m.row.table \in Archived
           /\ m.at <= now
           /\ m.at = now => /\ started
                            /\ run.pc # "list"
                            /\ run.pc \in {"read", "put"} => m.row.client \notin run.todo
                            /\ run.pc = "delete" => m.row.client \notin run.todo \ {Current}
    /\ \A key \in DOMAIN archive : archive[key].archived_at <= now

KeptInv == PutFirst /\ MovedBefore /\ ArchiveKept

\* The day of every time up to the bound has an object of each client.
LEMMA KeyIn ==
    ASSUME NEW c \in Clients, NEW t \in Time
    PROVE  Key(c, t) \in Clients \X Day
BY ConstantsOK DEF ConstantsOK, Key, Day

\* What an action does that neither puts nor deletes, in what it does to the job.
LEMMA KeptAside ==
    ASSUME RetentionTypeOK, KeptInv, UNCHANGED <<now, archive, moved>>,
           started => started',
           Active' => started',
           run'.pc = "delete" => run' = run,
           run'.pc = "list" => ~started \/ run' = run,
           run'.pc \in {"read", "put"} =>
               run.pc = "list" \/ (run.pc \in {"read", "put"} /\ run'.todo \subseteq run.todo)
    PROVE  KeptInv'
<1>1. PutFirst'
  BY DEF KeptInv, PutFirst, Current, Key
<1>2. ArchiveKept'
  BY DEF KeptInv, ArchiveKept
<1>3. MovedBefore'
  <2>1. ASSUME NEW m \in moved, m.at = now
        PROVE  /\ started'
               /\ run'.pc # "list"
               /\ run'.pc \in {"read", "put"} => m.row.client \notin run'.todo
               /\ run'.pc = "delete" => m.row.client \notin run'.todo \ {Current'}
    BY <2>1 DEF KeptInv, MovedBefore, Current
  <2> QED
    BY <2>1 DEF KeptInv, MovedBefore
<1> QED
  BY <1>1, <1>2, <1>3 DEF KeptInv

\* The put: who lost rows in this run is not the client whose object is put.
LEMMA KeptPut ==
    ASSUME RetentionTypeOK, KeptInv, Put
    PROVE  KeptInv'
<1> DEFINE key == Key(Current, now)
           object == [archived_at |-> now, rows |-> run.found]
<1>1. /\ UNCHANGED <<now, started, moved>> /\ run.pc = "put"
      /\ archive' = [archive EXCEPT ![key] = object]
      /\ run' = [run EXCEPT !.pc = "delete"]
  BY DEF Put, Key
<1>2. Current \in run.todo /\ Current \in Clients /\ now \in Time
  BY <1>1, CurrentTodo DEF RetentionTypeOK
<1>3. key \in DOMAIN archive
  BY <1>2, KeyIn DEF RetentionTypeOK
<1>4. run'.pc = "delete" /\ run'.todo = run.todo /\ run'.found = run.found
  BY <1>1 DEF RetentionTypeOK
<1>5. Current' = Current
  BY <1>4 DEF Current
<1>6. archive'[key] = object /\ \A k \in DOMAIN archive : k # key => archive'[k] = archive[k]
  BY <1>1, <1>3
<1>7. DOMAIN archive' = DOMAIN archive
  BY <1>1
<1>8. PutFirst'
  BY <1>1, <1>4, <1>5, <1>6 DEF PutFirst, Key
<1>9. MovedBefore'
  <2>1. \A k \in DOMAIN archive' : archive'[k].archived_at <= now
    BY <1>2, <1>6, <1>7 DEF KeptInv, MovedBefore, Time
  <2> QED
    BY <1>1, <1>4, <1>5, <2>1 DEF KeptInv, MovedBefore, Active
<1>10. ArchiveKept'
  <2> SUFFICES ASSUME NEW m \in moved
               PROVE  LET o == archive'[Key(m.row.client, m.at)]
                      IN  m.row \in o.rows \/ o.archived_at > m.at
    BY <1>1 DEF ArchiveKept, Key
  <2>1. m.row.client \in Clients /\ m.at \in Time
    BY DEF RetentionTypeOK, Row
  <2>2. CASE Key(m.row.client, m.at) = key
    <3>1. m.row.client = Current
      BY <2>2 DEF Key
    <3>2. m.at # now /\ m.at <= now
      BY <1>1, <1>2, <3>1 DEF KeptInv, MovedBefore
    <3> QED
      BY <1>2, <1>6, <2>1, <2>2, <3>2 DEF Time
  <2>3. CASE Key(m.row.client, m.at) # key
    BY <1>6, <2>1, <2>3, KeyIn DEF KeptInv, ArchiveKept, Key, RetentionTypeOK
  <2> QED
    BY <2>2, <2>3
<1> QED
  BY <1>8, <1>9, <1>10 DEF KeptInv

\* What is deleted is in the object just put, and is the rows of the client at hand.
LEMMA KeptDelete ==
    ASSUME RetentionTypeOK, KeptInv, Delete
    PROVE  KeptInv'
<1>1. PICK batch \in SUBSET run.found :
        /\ LeaveD1(batch)
        /\ run' = IF batch = run.found THEN NextClient ELSE [run EXCEPT !.found = @ \ batch]
  BY DEF Delete
<1>2. UNCHANGED <<now, started, archive>> /\ run.pc = "delete"
  BY DEF Delete
<1>3. now \in Time /\ Current \in run.todo
  BY <1>2, CurrentTodo DEF RetentionTypeOK
<1>4. \A m \in moved' \ moved : /\ m.at = now /\ m.row \in run.found
                                /\ m.row.client = Current /\ m.row.table \in Archived
  BY <1>1 DEF LeaveD1, RetentionTypeOK
<1>5. started
  BY <1>2 DEF KeptInv, MovedBefore, Active
<1>6. \/ run'.pc = "complete"
      \/ run'.pc = "read" /\ run'.todo = run.todo \ {Current}
      \/ /\ run'.pc = "delete" /\ run'.todo = run.todo /\ Current' = Current
         /\ run'.found \subseteq run.found
  <2>1. CASE batch = run.found
    BY <1>1, <2>1 DEF NextClient, Reading, Complete
  <2>2. CASE batch # run.found
    <3>1. run'.pc = "delete" /\ run'.todo = run.todo /\ run'.found \subseteq run.found
      BY <1>1, <1>2, <2>2 DEF RetentionTypeOK
    <3> QED
      BY <3>1 DEF Current
  <2> QED
    BY <2>1, <2>2
<1>7. PutFirst'
  BY <1>2, <1>6 DEF KeptInv, PutFirst, Key
<1>8. \A m \in moved' : /\ m.row.table \in Archived
                        /\ m.at <= now
                        /\ m.at = now => started /\ m.row.client \notin run.todo \ {Current}
  BY <1>2, <1>3, <1>4, <1>5 DEF KeptInv, MovedBefore, Time
<1>9. MovedBefore'
  BY <1>2, <1>5, <1>6, <1>8 DEF KeptInv, MovedBefore
<1>10. ArchiveKept'
  <2> SUFFICES ASSUME NEW m \in moved'
               PROVE  LET o == archive[Key(m.row.client, m.at)]
                      IN  m.row \in o.rows \/ o.archived_at > m.at
    BY <1>2 DEF ArchiveKept, Key
  <2>1. CASE m \in moved
    BY <2>1 DEF KeptInv, ArchiveKept, Key
  <2>2. CASE m \notin moved
    BY <1>2, <1>4, <2>2 DEF KeptInv, PutFirst
  <2> QED
    BY <2>1, <2>2
<1> QED
  BY <1>7, <1>9, <1>10 DEF KeptInv

\* Whatever fails and whenever, a run has put what it deletes, and puts nothing over it.
LEMMA ArchiveInvariant == RetentionSpec => []KeptInv
<1> USE ConstantsOK DEF ConstantsOK
<1>1. RetentionInit => KeptInv
  <2> SUFFICES ASSUME RetentionInit PROVE KeptInv
    OBVIOUS
  <2>1. run.pc = "complete" /\ moved = {} /\ now = 0
    BY DEF RetentionInit, Complete
  <2>2. \A key \in DOMAIN archive : archive[key].archived_at = 0
    BY DEF RetentionInit, NoObject
  <2> QED
    BY <2>1, <2>2 DEF KeptInv, PutFirst, MovedBefore, ArchiveKept, Active
<1>2. RetentionTypeOK /\ KeptInv /\ [RetentionNext]_retention => KeptInv'
  <2> SUFFICES ASSUME RetentionTypeOK, KeptInv, [RetentionNext]_retention PROVE KeptInv'
    OBVIOUS
  <2>0. Active => started
    BY DEF KeptInv, MovedBefore
  <2>1. ASSUME NEW r \in Row, Write(r) PROVE KeptInv'
    BY <2>0, <2>1, KeptAside DEF Write, Active
  <2>2. ASSUME NEW c \in clients, DeleteClient(c) PROVE KeptInv'
    BY <2>0, <2>2, KeptAside DEF DeleteClient, Active
  <2>3. CASE Start
    <3>1. run'.pc = "list"
      BY <2>3 DEF Start, Complete
    <3> QED
      BY <2>3, <3>1, KeptAside DEF Start
  <2>4. CASE List
    <3>1. run'.pc \in {"complete", "read"}
      BY <2>4 DEF List, Reading, Complete
    <3> QED
      BY <2>0, <2>4, <3>1, KeptAside DEF List, Active
  <2>5. CASE Read
    <3>1. run'.pc = "complete" \/ (run'.pc \in {"read", "put"} /\ run'.todo \subseteq run.todo)
      BY <2>5 DEF Read, NextClient, Reading, Complete, RetentionTypeOK
    <3> QED
      BY <2>0, <2>5, <3>1, KeptAside DEF Read, Active
  <2>6. CASE Put
    BY <2>6, KeptPut
  <2>7. CASE Delete
    BY <2>7, KeptDelete
  <2>8. CASE RunFails \/ Abort
    <3>1. run'.pc = "incomplete" /\ UNCHANGED <<now, archive, moved, started>>
      BY <2>8 DEF RunFails, Abort, Ended, Incomplete, Complete
    <3> QED
      BY <3>1, KeptAside DEF Active
  <2>9. CASE Prune
    <3>1. moved' = moved
      BY <2>9 DEF Prune, LeaveD1, Expired, Archived
    <3> QED
      BY <2>0, <2>9, <3>1, KeptAside DEF Prune, Active
  <2>10. CASE NextRun
    <3>1. run'.pc = "incomplete" /\ UNCHANGED <<archive, moved>> /\ now' = now + 1
      BY <2>10 DEF NextRun, Incomplete, Complete
    <3>2. now \in Nat /\ \A m \in moved : m.at \in Nat
      BY DEF RetentionTypeOK, Time
    <3>3. \A key \in DOMAIN archive : archive[key].archived_at \in Nat
      BY DEF RetentionTypeOK, Object, Time
    <3>4. MovedBefore'
      BY <3>1, <3>2, <3>3 DEF KeptInv, MovedBefore, Active
    <3> QED
      BY <3>1, <3>4 DEF KeptInv, PutFirst, ArchiveKept
  <2>11. CASE UNCHANGED retention
    BY <2>0, <2>11, KeptAside DEF retention, Active
  <2> QED
    BY <2>1, <2>2, <2>3, <2>4, <2>5, <2>6, <2>7, <2>8, <2>9, <2>10, <2>11
    DEF RetentionNext, Job
<1> QED
  BY <1>1, <1>2, RetentionTypeCorrect, PTL DEF RetentionSpec

\* A ping or a speed test that has left D1 is in the R2 object of its client and of that
\* day, unless a later run of the same day has put that object anew.
THEOREM ArchiveIsKept == RetentionSpec => []ArchiveKept
<1>1. KeptInv => ArchiveKept
  BY DEF KeptInv
<1> QED
  BY <1>1, ArchiveInvariant, PTL

\* The run after this one puts its objects under the name of another day.
LastOfDay(time) == (time + 1) \div RunsPerDay # time \div RunsPerDay

\* What the last run of a day moves out of D1 is in the archive for good.
LastRunKept ==
    \A m \in moved : LastOfDay(m.at) => m.row \in archive[Key(m.row.client, m.at)].rows

\* An object was put on the day that it is named for.
OfItsDay ==
    \A c \in Clients, d \in Day :
        archive[<<c, d>>] = NoObject \/ archive[<<c, d>>].archived_at \div RunsPerDay = d

\* Every object was put on the day in its name.
LEMMA ObjectsOfTheirDay == RetentionSpec => []OfItsDay
<1> USE ConstantsOK DEF ConstantsOK
<1>1. RetentionInit => OfItsDay
  BY DEF RetentionInit, OfItsDay
<1>2. RetentionTypeOK /\ OfItsDay /\ [RetentionNext]_retention => OfItsDay'
  <2> SUFFICES ASSUME RetentionTypeOK, OfItsDay, [RetentionNext]_retention PROVE OfItsDay'
    OBVIOUS
  <2>1. CASE Put
    <3> SUFFICES ASSUME NEW c \in Clients, NEW d \in Day
                 PROVE  \/ archive'[<<c, d>>] = NoObject
                        \/ archive'[<<c, d>>].archived_at \div RunsPerDay = d
      BY DEF OfItsDay
    <3> DEFINE object == [archived_at |-> now, rows |-> run.found]
    <3>1. archive' = [archive EXCEPT ![<<Current, now \div RunsPerDay>>] = object]
      BY <2>1 DEF Put
    <3>2. CASE <<c, d>> = <<Current, now \div RunsPerDay>>
      <4>1. archive'[<<c, d>>] = object
        BY <3>1, <3>2 DEF RetentionTypeOK
      <4> QED
        BY <3>2, <4>1
    <3>3. CASE <<c, d>> # <<Current, now \div RunsPerDay>>
      BY <3>1, <3>3 DEF OfItsDay, RetentionTypeOK
    <3> QED
      BY <3>2, <3>3
  <2>2. CASE archive' = archive
    BY <2>2 DEF OfItsDay
  <2> QED
    BY <2>1, <2>2 DEF RetentionNext, Job, Write, DeleteClient, Start, List, Read, Delete,
       RunFails, Prune, Abort, NextRun, retention
<1> QED
  BY <1>1, <1>2, RetentionTypeCorrect, PTL DEF RetentionSpec

\* Later days have later numbers.
LEMMA DaysFollow ==
    ASSUME NEW n \in Nat \ {0}, NEW s \in Nat, NEW t \in Nat, s <= t
    PROVE  s \div n <= t \div n
OBVIOUS

\* Of the runs that share a day and put the same object, the last one loses nothing: every
\* ping and speed test that it moves out of D1 stays in the archive, so that only what the
\* runs before it moved can be lost.
THEOREM LastRunKeepsAll == RetentionSpec => []LastRunKept
<1> USE ConstantsOK DEF ConstantsOK
<1>1. RetentionTypeOK /\ ArchiveKept /\ OfItsDay => LastRunKept
  <2> SUFFICES ASSUME RetentionTypeOK, ArchiveKept, OfItsDay, NEW m \in moved, LastOfDay(m.at)
               PROVE  m.row \in archive[Key(m.row.client, m.at)].rows
    BY DEF LastRunKept
  <2> DEFINE c == m.row.client
             d == m.at \div RunsPerDay
             object == archive[<<c, d>>]
  <2>1. m.at \in Nat /\ m.at \in Time /\ c \in Clients /\ d \in Day
    BY DEF RetentionTypeOK, Time, Row, Day
  <2>2. object.archived_at \in Nat
    BY <2>1 DEF RetentionTypeOK, Object, Time
  <2>3. object.archived_at <= m.at
    <3>1. CASE object = NoObject
      BY <2>1, <3>1 DEF NoObject
    <3>2. CASE object.archived_at \div RunsPerDay = d
      <4>1. SUFFICES ASSUME m.at + 1 <= object.archived_at PROVE FALSE
        BY <2>1, <2>2
      <4> HIDE DEF object
      <4>2. d <= (m.at + 1) \div RunsPerDay
        BY <2>1, DaysFollow
      <4>3. (m.at + 1) \div RunsPerDay <= d
        BY <2>1, <2>2, <3>2, <4>1, DaysFollow
      <4> QED
        BY <2>1, <4>2, <4>3 DEF LastOfDay
    <3> QED
      BY <2>1, <3>1, <3>2 DEF OfItsDay
  <2> QED
    BY <2>1, <2>2, <2>3 DEF ArchiveKept, Key
<1> QED
  BY <1>1, RetentionTypeCorrect, ArchiveIsKept, ObjectsOfTheirDay, PTL

(***************************************************************************)
(* Swept.  While a run goes on, an old ping or speed test belongs to a     *)
(* client the run has still to do, and is among the found ones if the run  *)
(* has come to that client.                                                *)
(***************************************************************************)
Left(r) == r.table \in Archived /\ r.at < now - Keep

SweptSoFar ==
    \A r \in rows :
        /\ r.client \in clients
        /\ Left(r) => /\ run.pc # "complete"
                      /\ run.pc \in {"read", "put", "delete"} => r.client \in run.todo
                      /\ (run.pc \in {"put", "delete"} /\ r.client = Current) => r \in run.found

\* Going on to the next client, or to the end, when the current one has no
\* old rows left.
LEMMA NextClientSwept ==
    ASSUME RetentionTypeOK, SweptSoFar, run.pc \in {"read", "delete"}, run' = NextClient,
           rows' \subseteq rows, clients' = clients, now' = now,
           \A r \in rows' : Left(r) => r.client # Current
    PROVE  SweptSoFar'
<1>1. CASE run.todo \ {Current} = {}
  BY <1>1 DEF SweptSoFar, Left, NextClient, Reading, Complete
<1>2. CASE run.todo \ {Current} # {}
  <2>1. run'.pc = "read" /\ run'.todo = run.todo \ {Current}
    BY <1>2 DEF NextClient, Reading
  <2> QED
    BY <2>1 DEF SweptSoFar, Left
<1> QED
  BY <1>1, <1>2

\* What a run has not deleted of the old rows, it has still to find or to delete.
LEMMA SweptSoFarAlways == RetentionSpec => []SweptSoFar
<1> USE ConstantsOK DEF ConstantsOK
<1>1. RetentionInit => SweptSoFar
  BY DEF RetentionInit, SweptSoFar
<1>2. RetentionTypeOK /\ SweptSoFar /\ [RetentionNext]_retention => SweptSoFar'
  <2> SUFFICES ASSUME RetentionTypeOK, SweptSoFar, [RetentionNext]_retention PROVE SweptSoFar'
    OBVIOUS
  <2> USE DEF Current
  <2>1. ASSUME NEW r \in Row, Write(r) PROVE SweptSoFar'
    <3>1. ~Left(r)'
      BY <2>1 DEF Write, Left, RetentionTypeOK, Time
    <3> QED
      BY <2>1, <3>1 DEF Write, SweptSoFar, Left
  <2>2. ASSUME NEW c \in clients, DeleteClient(c) PROVE SweptSoFar'
    BY <2>2 DEF DeleteClient, SweptSoFar, Left
  <2>3. CASE Start
    BY <2>3 DEF Start, SweptSoFar, Left, Complete
  <2>4. CASE List
    BY <2>4 DEF List, SweptSoFar, Left, Reading, Complete
  <2>5. CASE Read
    <3>1. CASE Old = {}
      <4>1. \A r \in rows : Left(r) => r.client # Current
        BY <3>1 DEF Old, Left
      <4> QED
        BY <2>5, <3>1, <4>1, NextClientSwept DEF Read
    <3>2. CASE Old # {}
      <4>1. run'.todo = run.todo /\ run'.pc = "put" /\ run'.found = Old
        BY <2>5, <3>2 DEF Read, RetentionTypeOK
      <4> QED
        BY <2>5, <4>1 DEF Read, SweptSoFar, Left, Old
    <3> QED
      BY <3>1, <3>2
  <2>6. CASE Put
    <3>1. run'.todo = run.todo /\ run'.pc = "delete" /\ run'.found = run.found
      BY <2>6 DEF Put, RetentionTypeOK
    <3> QED
      BY <2>6, <3>1 DEF Put, SweptSoFar, Left
  <2>7. CASE Delete
    <3>1. PICK batch \in SUBSET run.found :
            /\ rows' = rows \ batch
            /\ run' = IF batch = run.found THEN NextClient
                      ELSE [run EXCEPT !.found = @ \ batch]
      BY <2>7 DEF Delete, LeaveD1
    <3>2. CASE batch = run.found
      <4>1. \A r \in rows' : Left(r) => r.client # Current
        BY <2>7, <3>1, <3>2 DEF Delete, SweptSoFar
      <4> QED
        BY <2>7, <3>1, <3>2, <4>1, NextClientSwept DEF Delete
    <3>3. CASE batch # run.found
      <4>1. run'.todo = run.todo /\ run'.pc = "delete" /\ run'.found = run.found \ batch
        BY <2>7, <3>1, <3>3 DEF RetentionTypeOK, Delete
      <4> QED
        BY <2>7, <3>1, <4>1 DEF Delete, SweptSoFar, Left
    <3> QED
      BY <3>2, <3>3
  <2>8. CASE RunFails \/ Abort \/ NextRun
    <3>1. run'.pc = "incomplete" /\ rows' = rows /\ clients' = clients
      BY <2>8 DEF RunFails, Abort, NextRun, Ended, Incomplete, Complete
    <3> QED
      BY <3>1 DEF SweptSoFar, Left
  <2>9. CASE Prune
    BY <2>9 DEF Prune, LeaveD1, SweptSoFar, Left
  <2>10. CASE UNCHANGED retention
    BY <2>10 DEF retention, SweptSoFar, Left
  <2> QED
    BY <2>1, <2>2, <2>3, <2>4, <2>5, <2>6, <2>7, <2>8, <2>9, <2>10 DEF RetentionNext, Job
<1> QED
  BY <1>1, <1>2, RetentionTypeCorrect, PTL DEF RetentionSpec

\* A run that was not cut short leaves no old ping or speed test behind.
THEOREM CompleteRunSweeps == RetentionSpec => []Swept
<1>1. RetentionTypeOK /\ SweptSoFar => Swept
  BY ConstantsOK DEF ConstantsOK, RetentionTypeOK, SweptSoFar, Swept, Left, Time, Row
<1> QED
  BY <1>1, RetentionTypeCorrect, SweptSoFarAlways, PTL

-----------------------------------------------------------------------------
(* Numbers, counting and sorting.                                           *)

\* A set of numbers has a least one.
LEMMA Least ==
    ASSUME NEW T, T \subseteq Nat, T # {}
    PROVE  \E x \in T : \A y \in T : x <= y
<1> DEFINE Less == {ss \in Nat \X Nat : ss[1] < ss[2]}
<1>1. IsWellFoundedOn(Less, Nat)
  BY NatLessThanWellFounded, Zenon DEF OpToRel
<1>2. PICK x \in T : \A y \in T : ~(<<y, x>> \in Less)
  <2> HIDE DEF Less
  <2> QED
    BY <1>1, WFMin
<1>3. ASSUME NEW y \in T PROVE x <= y
  <2>1. x \in Nat /\ y \in Nat
    OBVIOUS
  <2>2. ~(y < x)
    BY <1>2, <2>1
  <2> QED
    BY <2>1, <2>2
<1> QED
  BY <1>3

\* A bounded set of numbers has a largest one.
LEMMA Largest ==
    ASSUME NEW n \in Nat, NEW T, T \subseteq 0..n, T # {}
    PROVE  \E x \in T : \A y \in T : y <= x
<1> DEFINE Down == {n - x : x \in T}
<1>1. Down \subseteq Nat /\ Down # {}
  OBVIOUS
<1>2. PICK d \in Down : \A e \in Down : d <= e
  <2> HIDE DEF Down
  <2> QED
    BY <1>1, Least
<1>3. PICK x \in T : d = n - x
  OBVIOUS
<1>4. ASSUME NEW y \in T PROVE y <= x
  <2>1. d <= n - y
    BY <1>2
  <2> QED
    BY <1>3, <2>1
<1> QED
  BY <1>4

\* Counting with a function that is one to one.
LEMMA AtMost ==
    ASSUME NEW A, NEW n \in Nat, NEW f, f \in [A -> 1..n],
           \A x, y \in A : f[x] = f[y] => x = y
    PROVE  IsFiniteSet(A) /\ Cardinality(A) <= n
<1>1. f \in Injection(A, 1..n)
  BY Fun_IsInj
<1>2. IsFiniteSet(1..n) /\ Cardinality(1..n) = n
  BY FS_Interval
<1> QED
  BY <1>1, <1>2, FS_Injection

\* A set into which n numbers go without two that meet has at least n elements.
LEMMA AtLeast ==
    ASSUME NEW A, IsFiniteSet(A), NEW n \in Nat, NEW f, f \in [1..n -> A],
           \A x, y \in 1..n : f[x] = f[y] => x = y
    PROVE  n <= Cardinality(A)
<1>1. f \in Injection(1..n, A)
  BY Fun_IsInj
<1>2. Cardinality(1..n) = n
  BY FS_Interval
<1> QED
  BY <1>1, <1>2, FS_Injection

\* Places of a sequence are finitely many, as are those with some property.
LEMMA PlacesFinite ==
    ASSUME NEW n \in Nat, NEW A, A \subseteq 1..n
    PROVE  IsFiniteSet(A) /\ Cardinality(A) \in 0..n
<1>1. IsFiniteSet(1..n) /\ Cardinality(1..n) = n
  BY FS_Interval
<1>2. IsFiniteSet(A) /\ Cardinality(A) <= n
  BY <1>1, FS_Subset
<1>3. Cardinality(A) \in Nat
  BY <1>2, FS_CardinalityType
<1> QED
  BY <1>2, <1>3

\* Every sequence of numbers can be sorted: a place goes where as many come before it
\* as are less, or are as large and stand to its left.
LEMMA SortExists ==
    ASSUME NEW n \in Nat, NEW s \in [1..n -> Nat]
    PROVE  \E p \in Bijection(1..n, 1..n) : InOrder([i \in 1..n |-> s[p[i]]])
<1> DEFINE Before(j) == {i \in 1..n : s[i] < s[j] \/ (s[i] = s[j] /\ i <= j)}
           rank == [j \in 1..n |-> Cardinality(Before(j))]
<1>1. ASSUME NEW j \in 1..n
      PROVE  IsFiniteSet(Before(j)) /\ rank[j] \in 1..n
  <2>1. Before(j) \subseteq 1..n /\ j \in Before(j)
    OBVIOUS
  <2>2. IsFiniteSet(Before(j)) /\ Cardinality(Before(j)) \in 0..n
    <3> HIDE DEF Before
    <3> QED BY <2>1, PlacesFinite
  <2>3. Cardinality(Before(j)) # 0
    <3> HIDE DEF Before
    <3> QED BY <2>1, <2>2, FS_EmptySet
  <2> QED
    BY <2>2, <2>3
<1>2. rank \in [1..n -> 1..n]
  BY <1>1
<1>3. ASSUME NEW i \in 1..n, NEW j \in 1..n, s[i] < s[j] \/ (s[i] = s[j] /\ i < j)
      PROVE  rank[i] < rank[j]
  <2>1. Before(i) \subseteq Before(j) /\ j \in Before(j) /\ j \notin Before(i)
    BY <1>3
  <2>2. IsFiniteSet(Before(j))
    BY <1>1
  <2>3. Cardinality(Before(i)) <= Cardinality(Before(j)) /\ Cardinality(Before(i)) # Cardinality(Before(j))
    <3> HIDE DEF Before
    <3> QED BY <2>1, <2>2, FS_Subset
  <2>4. rank[i] = Cardinality(Before(i)) /\ rank[j] = Cardinality(Before(j))
    OBVIOUS
  <2>5. rank[i] <= rank[j] /\ rank[i] # rank[j]
    BY <2>3, <2>4
  <2> HIDE DEF rank
  <2>6. rank[i] \in Nat /\ rank[j] \in Nat
    BY <1>2
  <2> QED
    BY <2>5, <2>6
<1> HIDE DEF rank, Before
<1>4. ASSUME NEW i \in 1..n, NEW j \in 1..n, rank[i] = rank[j] PROVE i = j
  <2>1. ~(rank[i] < rank[j]) /\ ~(rank[j] < rank[i])
    BY <1>2, <1>4
  <2>2. ~(s[i] < s[j]) /\ ~(s[j] < s[i])
    BY <1>3, <2>1
  <2>3. s[i] = s[j]
    BY <2>2
  <2>4. ~(i < j) /\ ~(j < i)
    BY <1>3, <2>1, <2>3
  <2> QED
    BY <2>4
<1>5. rank \in Injection(1..n, 1..n)
  BY <1>2, <1>4, Fun_IsInj
<1>6. rank \in Surjection(1..n, 1..n)
  BY <1>5, FS_Interval, FS_Injection
<1>7. rank \in Bijection(1..n, 1..n)
  BY <1>5, <1>6 DEF Bijection
<1> DEFINE p == Inverse(rank, 1..n, 1..n)
<1>8. p \in Bijection(1..n, 1..n) /\ \A i \in 1..n : p[rank[i]] = i
  BY <1>7, Fun_BijInverse
<1> HIDE DEF p
<1>9. \A k \in 1..n : p[k] \in 1..n /\ rank[p[k]] = k
  <2> TAKE k \in 1..n
  <2>1. PICK i \in 1..n : rank[i] = k
    BY <1>6 DEF Surjection
  <2> QED
    BY <1>8, <2>1
<1>10. ASSUME NEW k \in 1..n, NEW l \in 1..n, k < l PROVE s[p[k]] <= s[p[l]]
  <2>1. ~(s[p[l]] < s[p[k]])
    BY <1>3, <1>9, <1>10
  <2> QED
    BY <1>9, <2>1
<1> QED
  BY <1>8, <1>10 DEF InOrder

\* Sorting arranges the same values in their order.
LEMMA SortedIs ==
    ASSUME NEW s \in Seq(Nat)
    PROVE  /\ Sorted(s) \in [1..Len(s) -> Nat]
           /\ InOrder(Sorted(s))
           /\ \E p \in Bijection(1..Len(s), 1..Len(s)) : Sorted(s) = [i \in 1..Len(s) |-> s[p[i]]]
<1> DEFINE n == Len(s)
<1>1. n \in Nat /\ DOMAIN s = 1..n /\ s \in [1..n -> Nat]
  BY LenProperties
<1> DEFINE Good(q) == InOrder([i \in DOMAIN s |-> s[q[i]]])
           p == CHOOSE q \in Bijection(DOMAIN s, DOMAIN s) : Good(q)
<1>2. Sorted(s) = [i \in DOMAIN s |-> s[p[i]]]
  BY DEF Sorted
<1> HIDE DEF n
<1>3. p \in Bijection(DOMAIN s, DOMAIN s) /\ Good(p)
  <2>1. \E q \in Bijection(DOMAIN s, DOMAIN s) : Good(q)
    BY <1>1, SortExists
  <2> HIDE DEF Good
  <2> QED
    BY <2>1
<1> HIDE DEF p
<1>4. p \in [1..n -> 1..n]
  BY <1>1, <1>3, Fun_BijectionProperties
<1> QED
  BY <1>1, <1>2, <1>3, <1>4 DEF n

-----------------------------------------------------------------------------
(* The calculations of Reports.                                             *)

\* The places of the values up to v, and of those below it.
UpTo(s, v) == {i \in DOMAIN s : s[i] <= v}
Below(s, v) == {i \in DOMAIN s : s[i] < v}

\* Of the sorted values, the first k are the least ones.
LEMMA Counts ==
    ASSUME NEW s \in Seq(Nat), NEW k \in 1..Len(s)
    PROVE  /\ \E i \in DOMAIN s : s[i] = Sorted(s)[k]
           /\ Cardinality(UpTo(s, Sorted(s)[k])) \in Nat
           /\ Cardinality(UpTo(s, Sorted(s)[k])) >= k
           /\ Cardinality(Below(s, Sorted(s)[k])) \in Nat
           /\ Cardinality(Below(s, Sorted(s)[k])) <= k - 1
<1> DEFINE n == Len(s)
           t == Sorted(s)
           v == t[k]
           atMost == {i \in DOMAIN s : s[i] <= v}
           below == {i \in DOMAIN s : s[i] < v}
<1>1. n \in Nat /\ DOMAIN s = 1..n /\ s \in [1..n -> Nat] /\ k \in 1..n
  BY LenProperties
<1>2. t \in [1..n -> Nat] /\ InOrder(t)
  BY SortedIs
<1>3. PICK p \in Bijection(1..n, 1..n) : t = [i \in 1..n |-> s[p[i]]]
  BY SortedIs
<1> HIDE DEF n, t
<1>4. p \in [1..n -> 1..n] /\ \A i, j \in 1..n : p[i] = p[j] => i = j
  BY <1>3, Fun_BijectionProperties
<1>5. \A i \in 1..n : t[i] = s[p[i]] /\ p[i] \in 1..n
  BY <1>3, <1>4
<1>6. \A i, j \in 1..n : i <= j => t[i] <= t[j]
  BY <1>2 DEF InOrder
<1>7. v \in Nat
  BY <1>1, <1>2
<1>8. s[p[k]] = v /\ p[k] \in DOMAIN s
  BY <1>1, <1>5
<1>9. Cardinality(atMost) >= k /\ Cardinality(atMost) \in Nat
  <2> DEFINE f == [j \in 1..k |-> p[j]]
  <2>1. IsFiniteSet(atMost) /\ Cardinality(atMost) \in 0..n
    BY <1>1, PlacesFinite
  <2>2. \A j \in 1..k : j \in 1..n /\ p[j] \in atMost
    BY <1>1, <1>5, <1>6
  <2> HIDE DEF atMost
  <2>3. f \in [1..k -> atMost] /\ \A x, y \in 1..k : f[x] = f[y] => x = y
    BY <1>4, <2>2
  <2>4. k \in Nat
    BY <1>1
  <2> HIDE DEF f
  <2>5. k <= Cardinality(atMost)
    BY <2>1, <2>3, <2>4, AtLeast
  <2> QED
    BY <1>1, <2>1, <2>5
<1>10. Cardinality(below) <= k - 1 /\ Cardinality(below) \in Nat
  <2> DEFINE f == [i \in below |-> CHOOSE j \in 1..n : p[j] = i]
  <2>1. ASSUME NEW i \in below
        PROVE  f[i] \in 1..(k-1) /\ p[f[i]] = i
    <3>1. i \in 1..n /\ s[i] < v
      BY <1>1
    <3>2. \E j \in 1..n : p[j] = i
      BY <1>3, <3>1 DEF Bijection, Surjection
    <3>3. f[i] \in 1..n /\ p[f[i]] = i
      BY <3>2
    <3>4. t[f[i]] < v
      <4> HIDE DEF f
      <4> QED
        BY <1>5, <3>1, <3>3
    <3>5. f[i] < k
      <4> HIDE DEF f
      <4> QED
        BY <1>1, <1>2, <1>6, <3>3, <3>4
    <3> HIDE DEF f
    <3> QED
      BY <1>1, <3>3, <3>5
  <2>2. IsFiniteSet(below) /\ Cardinality(below) \in 0..n
    BY <1>1, PlacesFinite
  <2>3. f = [i \in below |-> f[i]]
    OBVIOUS
  <2> HIDE DEF f, below
  <2>4. f \in [below -> 1..(k-1)] /\ \A x, y \in below : f[x] = f[y] => x = y
    BY <2>1, <2>3
  <2>5. k - 1 \in Nat
    BY <1>1
  <2>6. Cardinality(below) <= k - 1
    BY <2>4, <2>5, AtMost
  <2> QED
    BY <1>1, <2>2, <2>6
<1> QED
  BY <1>8, <1>9, <1>10 DEF t, UpTo, Below

\* The percentiles of any measurements at all are what they are called.
LEMMA PercentilesHold ==
    ASSUME Asked("rtts") => question.input \in Seq(Nat) \ {<<>>}
    PROVE  PercentilesRight
<1> SUFFICES ASSUME Asked("rtts"), NEW p \in {50, 95, 99}
             PROVE  LET rtts == question.input
                        v == Percentile(rtts, p)
                    IN  /\ \E i \in DOMAIN rtts : rtts[i] = v
                        /\ 100 * Cardinality({i \in DOMAIN rtts : rtts[i] <= v}) >= p * Len(rtts)
                        /\ 100 * Cardinality({i \in DOMAIN rtts : rtts[i] < v}) <= p * Len(rtts)
  BY DEF PercentilesRight
<1> DEFINE rtts == question.input
           n == Len(rtts)
           k == Rank(n, p)
           v == Percentile(rtts, p)
           atMost == Cardinality(UpTo(rtts, v))
           below == Cardinality(Below(rtts, v))
<1>1. rtts \in Seq(Nat) /\ n \in Nat /\ n # 0
  BY LenProperties, EmptySeq
<1>2. k \in 1..n /\ 100 * k >= p * n /\ 100 * (k - 1) <= p * n
  <2> HIDE DEF n
  <2>1. CASE p = 50
    BY <1>1, <2>1 DEF Rank
  <2>2. CASE p = 95
    BY <1>1, <2>2 DEF Rank
  <2>3. CASE p = 99
    BY <1>1, <2>3 DEF Rank
  <2> QED
    BY <2>1, <2>2, <2>3
<1>3. v = Sorted(rtts)[k]
  <2>1. ~(k > n)
    <3> HIDE DEF n, k
    <3> QED BY <1>1, <1>2
  <2> QED
    BY <2>1 DEF Percentile
<1>4. /\ \E i \in DOMAIN rtts : rtts[i] = v
      /\ atMost \in Nat /\ atMost >= k
      /\ below \in Nat /\ below <= k - 1
  <2> HIDE DEF v, k
  <2> QED
    BY <1>1, <1>2, <1>3, Counts
<1> HIDE DEF atMost, below, k, n
<1>5. 100 * atMost >= p * n /\ 100 * below <= p * n
  <2>1. 100 * atMost >= 100 * k /\ 100 * below <= 100 * (k - 1)
    BY <1>1, <1>2, <1>4
  <2>2. p * n \in Int
    BY <1>1
  <2> HIDE <1>4
  <2> QED
    BY <1>1, <1>2, <1>4, <2>1, <2>2
<1> QED
  BY <1>4, <1>5 DEF atMost, below, n, UpTo, Below

\* What is not ok is a timeout, so that the three losses count the same.
LEMMA LossHolds ==
    ASSUME Asked("pings") => question.input \in Seq(Ping)
    PROVE  LossAgrees
<1> SUFFICES ASSUME Asked("pings")
             PROVE  MetricsLoss(question.input) = AnalysisLoss(question.input)
  BY DEF LossAgrees, MetricsLoss, UptimeLoss
<1> DEFINE pings == question.input
           n == Len(pings)
           Of(dirs, status) == {i \in DOMAIN pings : pings[i].direction \in dirs /\ pings[i].status = status}
           ok == Of(Directions, "ok")
           timeouts == Of(Directions, "timeout")
           cfTo == Of({"cf_to_client"}, "ok")
           toCf == Of({"client_to_cf"}, "ok")
<1>1. n \in Nat /\ DOMAIN pings = 1..n /\ \A i \in 1..n : pings[i] \in Ping
  BY LenProperties, ElementOfSeq
<1> HIDE DEF n, pings
<1>2. ok \cup timeouts = 1..n /\ ok \cap timeouts = {}
  BY <1>1 DEF Ping, Directions
<1>3. cfTo \cup toCf = ok /\ cfTo \cap toCf = {}
  BY <1>1 DEF Directions
<1>4. \A A \in {ok, timeouts, cfTo, toCf} : A \subseteq 1..n
  BY <1>1
<1> HIDE DEF ok, timeouts, cfTo, toCf, Of
<1>5. \A A \in {ok, timeouts, cfTo, toCf} : IsFiniteSet(A) /\ Cardinality(A) \in Nat
  BY <1>1, <1>4, PlacesFinite
<1>6. Cardinality(1..n) = n
  BY <1>1, FS_Interval
<1> DEFINE cOk == Cardinality(ok)
           cTimeouts == Cardinality(timeouts)
           cCfTo == Cardinality(cfTo)
           cToCf == Cardinality(toCf)
<1>11. cOk \in Nat /\ cTimeouts \in Nat /\ cCfTo \in Nat /\ cToCf \in Nat
  BY <1>5
<1>7. cOk + cTimeouts = n
  <2>1. Cardinality(ok \cup timeouts) =
            Cardinality(ok) + Cardinality(timeouts) - Cardinality(ok \cap timeouts)
    BY <1>5, FS_Union
  <2>2. Cardinality(ok \cap timeouts) = 0
    BY <1>2, FS_EmptySet
  <2> QED
    <3>1. n = cOk + cTimeouts - 0
      BY <1>2, <1>6, <2>1, <2>2
    <3> HIDE DEF cOk, cTimeouts
    <3> QED
      BY <1>11, <3>1
<1>8. cCfTo + cToCf = cOk
  <2>1. Cardinality(cfTo \cup toCf) =
            Cardinality(cfTo) + Cardinality(toCf) - Cardinality(cfTo \cap toCf)
    BY <1>5, FS_Union
  <2>2. Cardinality(cfTo \cap toCf) = 0
    BY <1>3, FS_EmptySet
  <2> QED
    <3>1. cOk = cCfTo + cToCf - 0
      BY <1>3, <2>1, <2>2
    <3> HIDE DEF cOk, cCfTo, cToCf
    <3> QED
      BY <1>11, <3>1
<1>9. /\ MetricsLoss(pings) = <<n - cOk, n>>
      /\ AnalysisLoss(pings) = <<cTimeouts, cCfTo + cToCf + cTimeouts>>
  BY DEF MetricsLoss, AnalysisLoss, Count, ok, timeouts, cfTo, toCf, Of, n
<1>10. n - cOk = cTimeouts /\ cCfTo + cToCf + cTimeouts = n
  <2> HIDE DEF cOk, cTimeouts, cCfTo, cToCf
  <2> QED
    BY <1>1, <1>7, <1>8, <1>11
<1> QED
  BY <1>9, <1>10 DEF pings

\* The loss is shown as none only when it is less than half a tenth of a percent.
LEMMA HealthyHolds ==
    ASSUME Asked("analysis") => question.input \in Analyses
    PROVE  HealthyTruthful
<1> SUFFICES ASSUME Asked("analysis"), "healthy" \in Findings(question.input)
             PROVE  /\ {"outages", "latency"} \cap Findings(question.input) = {}
                    /\ 2000 * question.input.timeouts <= question.input.ok + question.input.timeouts
  BY DEF HealthyTruthful
<1> DEFINE data == question.input
<1>1. /\ data.ok \in Nat /\ data.timeouts \in Nat /\ data.outages \in Nat
      /\ data.latency \in Nat /\ data.alerts \in Nat /\ data.alerts >= data.latency
  BY DEF Analyses
<1> HIDE DEF data
<1>2. Healthy(data)
  BY DEF Findings, data
<1>3. ~(data.outages > 0) /\ ~(data.latency > 10)
  BY <1>1, <1>2 DEF Healthy
<1>4. {"outages", "latency"} \cap Findings(data) = {}
  BY <1>3 DEF Findings
<1>5. 2000 * data.timeouts <= data.ok + data.timeouts
  <2> DEFINE whole == data.ok + data.timeouts
             x == 2000 * data.timeouts + whole
  <2>1. CASE whole = 0
    BY <1>1, <2>1
  <2>2. CASE whole # 0
    <3>1. x \div (2 * whole) = 0
      BY <1>2, <2>2 DEF Healthy, ShownLoss
    <3>2. x \in Nat /\ 2 * whole \in Nat /\ 2 * whole > 0
      BY <1>1, <2>2
    <3>3. \A a, b \in Nat : b > 0 /\ a \div b = 0 => a < b
      OBVIOUS
    <3>4. x < 2 * whole
      <4> HIDE DEF x, whole
      <4> QED BY <3>1, <3>2, <3>3
    <3> QED
      BY <1>1, <3>4
  <2> QED
    BY <2>1, <2>2
<1> QED
  BY <1>4, <1>5 DEF data

\* The report after a tick is the one whose window has it.
LEMMA DigestsHold ==
    ASSUME Asked("schedule") => question.input \in Schedules
    PROVE  DigestsTile
<1> SUFFICES ASSUME Asked("schedule"), question.input # "off"
             PROVE  LET schedule == question.input
                        due == {t \in 0..84 : Due(schedule, t)}
                    IN  \A t \in Min(due)..(Max(due) - 1) :
                            Cardinality({r \in due : t \in (r - ReportWindow(schedule))..(r - 1)}) = 1
  BY DEF DigestsTile
<1> DEFINE schedule == question.input
           due == {t \in 0..84 : Due(schedule, t)}
           w == ReportWindow(schedule)
<1>1. schedule \in {"6h", "daily", "weekly"}
  BY DEF Schedules
<1>2. /\ w \in {1, 4, 28}
      /\ \A t \in 0..84 : t \in due <=> t % w = 0
  <2>1. CASE schedule = "6h"
    BY <2>1 DEF Due, ReportWindow
  <2>2. CASE schedule = "daily"
    <3>1. \A t \in 0..84 : Hour(t) = 0 <=> t % 4 = 0
      BY DEF Hour
    <3> QED
      BY <2>2, <3>1 DEF Due, ReportWindow
  <2>3. CASE schedule = "weekly"
    <3>1. \A t \in 0..84 : (Hour(t) = 0 /\ Monday(t)) <=> t % 28 = 0
      BY DEF Hour, Monday
    <3> QED
      BY <2>3, <3>1 DEF Due, ReportWindow
  <2> QED
    BY <1>1, <2>1, <2>2, <2>3
<1>3. 0 \in due /\ 84 \in due /\ due \subseteq 0..84
  BY <1>2
<1> HIDE DEF due, w
<1>4. Min(due) = 0 /\ Max(due) = 84
  <2>1. \A t \in due : t \in Int /\ 0 <= t /\ t <= 84
    BY <1>3
  <2>2. Min(due) \in due /\ \A t \in due : Min(due) <= t
    BY <1>3, <2>1 DEF Min
  <2>3. Max(due) \in due /\ \A t \in due : Max(due) >= t
    BY <1>3, <2>1 DEF Max
  <2> QED
    <3> DEFINE low == Min(due)
               high == Max(due)
    <3>1. low \in Int /\ 0 <= low /\ low <= 0
      BY <1>3, <2>1, <2>2
    <3>2. high \in Int /\ high >= 84 /\ high <= 84
      BY <1>3, <2>1, <2>3
    <3> HIDE DEF low, high
    <3>3. low = 0 /\ high = 84
      BY <3>1, <3>2
    <3> QED
      BY <3>3 DEF low, high
<1>5. ASSUME NEW t \in 0..83
      PROVE  Cardinality({r \in due : t \in (r - w)..(r - 1)}) = 1
  <2> DEFINE next == w * (t \div w) + w
  <2>1. /\ next \in 0..84 /\ next % w = 0 /\ t \in (next - w)..(next - 1)
        /\ \A r \in 0..84 : r % w = 0 /\ t \in (r - w)..(r - 1) => r = next
    <3>1. CASE w = 1
      BY <3>1
    <3>2. CASE w = 4
      BY <3>2
    <3>3. CASE w = 28
      BY <3>3
    <3> QED
      BY <1>2, <3>1, <3>2, <3>3
  <2> HIDE DEF next
  <2>2. next \in due /\ \A r \in due : t \in (r - w)..(r - 1) => r = next
    BY <1>2, <1>3, <2>1
  <2>3. {r \in due : t \in (r - w)..(r - 1)} = {next}
    BY <2>1, <2>2
  <2> QED
    BY <2>3, FS_Singleton
<1>6. \A t \in Min(due)..(Max(due) - 1) : Cardinality({r \in due : t \in (r - w)..(r - 1)}) = 1
  <2>1. Min(due)..(Max(due) - 1) = 0..83
    BY <1>4
  <2> QED
    BY <1>5, <2>1
<1> QED
  BY <1>6 DEF due, w

\* g works a sequence out along its places, each from the one before it.
Unfolding(g, n, V, init, step) ==
    /\ g \in [1..n -> V]
    /\ \A k \in 1..n : g[k] = step[k][IF k = 1 THEN init ELSE g[k-1]]

\* What each place takes from the one before it can be worked out along the places.
LEMMA Unfolds ==
    ASSUME NEW n \in Nat, NEW V, NEW init \in V, NEW step \in [1..n -> [V -> V]]
    PROVE  \E g : Unfolding(g, n, V, init, step)
<1> DEFINE Runs(g, m) == g \in [1..m -> V]
                         /\ \A k \in 1..m : g[k] = step[k][IF k = 1 THEN init ELSE g[k-1]]
           T == {m \in 0..n : ~\E g : Runs(g, m)}
<1>1. T = {}
  <2> SUFFICES ASSUME T # {} PROVE FALSE
    OBVIOUS
  <2>1. PICK m \in T : \A j \in T : m <= j
    <3>1. T \subseteq Nat
      OBVIOUS
    <3> HIDE DEF T
    <3> QED BY <3>1, Least
  <2>2. CASE m = 0
    <3> DEFINE g == [k \in 1..0 |-> init]
    <3>1. Runs(g, 0)
      OBVIOUS
    <3> QED BY <2>1, <2>2, <3>1
  <2>3. CASE m # 0
    <3>1. m - 1 \in 0..n /\ m \in 1..n
      BY <2>1, <2>3
    <3>9. m - 1 \notin T
      <4> HIDE DEF T
      <4> QED BY <2>1, <3>1
    <3>2. PICK f : Runs(f, m - 1)
      BY <3>1, <3>9
    <3> DEFINE next == step[m][IF m = 1 THEN init ELSE f[m-1]]
               g == [k \in 1..m |-> IF k = m THEN next ELSE f[k]]
    <3>3. (IF m = 1 THEN init ELSE f[m-1]) \in V
      BY <3>1, <3>2
    <3>4. next \in V
      BY <3>1, <3>3
    <3>5. ASSUME NEW k \in 1..m
          PROVE  g[k] \in V /\ g[k] = step[k][IF k = 1 THEN init ELSE g[k-1]]
      <4>1. CASE k = m
        <5>1. k # 1 => g[k-1] = f[k-1]
          BY <3>1, <4>1
        <5> QED
          BY <3>4, <4>1, <5>1
      <4>2. CASE k # m
        <5>1. k \in 1..(m-1) /\ g[k] = f[k]
          BY <3>1, <4>2
        <5>2. f[k] \in V /\ f[k] = step[k][IF k = 1 THEN init ELSE f[k-1]]
          BY <3>2, <5>1
        <5>3. k # 1 => g[k-1] = f[k-1]
          BY <3>1, <4>2
        <5> QED BY <5>1, <5>2, <5>3
      <4> QED BY <4>1, <4>2
    <3>6. g = [k \in 1..m |-> g[k]]
      OBVIOUS
    <3>7. Runs(g, m)
      <4> HIDE DEF g
      <4> QED BY <3>5, <3>6
    <3> QED BY <2>1, <3>7
  <2> QED BY <2>2, <2>3
<1>2. PICK g : Runs(g, n)
  <2>1. n \in 0..n /\ n \notin T
    <3> HIDE DEF T
    <3> QED BY <1>1
  <2> HIDE DEF Runs
  <2> QED BY <2>1
<1> QED
  BY <1>2 DEF Unfolding

\* The requests of the entry that request i finds or makes begin with this one.
FirstOf(a, i) == i - Entries(a)[i].count + 1

Entry == [count : Nat, start : Nat]

\* Each request makes its entry of the one before.
LEMMA EntriesUnfold ==
    ASSUME NEW a \in Seq(Nat)
    PROVE  /\ Entries(a) \in [1..Len(a) -> Entry]
           /\ \A i \in 1..Len(a) :
                  Entries(a)[i] = Limit(IF i = 1 THEN NoEntry ELSE Entries(a)[i-1], a[i])
<1> DEFINE n == Len(a)
           step == [k \in 1..n |-> [e \in Entry |-> Limit(e, a[k])]]
           Is(e) == e = [i \in DOMAIN a |-> Limit(IF i = 1 THEN NoEntry ELSE e[i-1], a[i])]
<1>1. n \in Nat /\ DOMAIN a = 1..n /\ \A i \in 1..n : a[i] \in Nat
  BY LenProperties, ElementOfSeq
<1> HIDE DEF n
<1>2. ASSUME NEW i \in 1..n, NEW e \in Entry PROVE Limit(e, a[i]) \in Entry
  <2>1. e.count \in Nat /\ e.start \in Nat /\ e = [count |-> e.count, start |-> e.start]
    BY DEF Entry
  <2>2. [e EXCEPT !.count = @ + 1] = [count |-> e.count + 1, start |-> e.start]
    BY <2>1
  <2> QED
    BY <1>1, <2>1, <2>2 DEF Limit, Entry
<1>3. step \in [1..n -> [Entry -> Entry]]
  BY <1>2
<1>4. NoEntry \in Entry
  BY DEF NoEntry, Entry
<1>5. \A i \in 1..n, e \in Entry : step[i][e] = Limit(e, a[i])
  OBVIOUS
<1> HIDE DEF step
<1>14. PICK g : Unfolding(g, n, Entry, NoEntry, step)
  BY <1>1, <1>3, <1>4, Unfolds
<1>6. /\ g \in [1..n -> Entry]
      /\ \A k \in 1..n : g[k] = step[k][IF k = 1 THEN NoEntry ELSE g[k-1]]
  BY <1>14, Zenon DEF Unfolding
<1>7. ASSUME NEW k \in 1..n
      PROVE  g[k] = Limit(IF k = 1 THEN NoEntry ELSE g[k-1], a[k])
  <2>1. (IF k = 1 THEN NoEntry ELSE g[k-1]) \in Entry
    BY <1>1, <1>4, <1>6
  <2> QED
    BY <1>5, <1>6, <2>1
<1>8. Is(g)
  BY <1>1, <1>6, <1>7
<1> DEFINE e == CHOOSE x : Is(x)
<1>9. Is(e)
  <2> HIDE DEF Is
  <2> QED BY <1>8
<1>10. Entries(a) = e
  BY DEF Entries
<1> HIDE DEF e
<1>11. DOMAIN e = 1..n /\ \A k \in 1..n : e[k] = Limit(IF k = 1 THEN NoEntry ELSE e[k-1], a[k])
  BY <1>1, <1>9
<1> DEFINE U == {k \in 1..n : e[k] \notin Entry}
<1>12. U = {}
  <2> SUFFICES ASSUME U # {} PROVE FALSE
    OBVIOUS
  <2>1. PICK m \in U : \A j \in U : m <= j
    <3>1. U \subseteq Nat
      OBVIOUS
    <3> HIDE DEF U
    <3> QED BY <3>1, Least
  <2>2. m \in 1..n /\ (m # 1 => e[m-1] \in Entry)
    BY <1>1, <2>1
  <2>3. (IF m = 1 THEN NoEntry ELSE e[m-1]) \in Entry
    BY <1>4, <2>2
  <2> HIDE DEF U
  <2>4. e[m] \in Entry
    BY <1>2, <1>11, <2>2, <2>3
  <2> QED
    BY <2>1, <2>4 DEF U
<1>13. e \in [1..n -> Entry]
  BY <1>9, <1>11, <1>12
<1> QED
  BY <1>10, <1>11, <1>13 DEF n


\* The requests of an entry follow each other within a window; the next entry begins
\* when it has passed.
LEMMA EntriesAre ==
    ASSUME NEW a \in Seq(Nat), InOrder(a)
    PROVE  /\ \A i \in 1..Len(a) :
                  /\ Entries(a)[i].count \in 1..i /\ FirstOf(a, i) \in 1..i
                  /\ a[i] - a[FirstOf(a, i)] <= Window
                  /\ \A m \in FirstOf(a, i)..i : FirstOf(a, m) = FirstOf(a, i)
           /\ \A i \in 1..Len(a) :
                  FirstOf(a, i) > 1 => a[FirstOf(a, i)] - a[FirstOf(a, FirstOf(a, i) - 1)] > Window
<1> DEFINE n == Len(a)
           e == Entries(a)
           g(i) == FirstOf(a, i)
           Good(i) == /\ e[i].count \in 1..i /\ g(i) \in 1..i
                      /\ e[i].start = a[g(i)]
                      /\ a[i] - a[g(i)] <= Window
                      /\ \A m \in g(i)..i : g(m) = g(i)
<1>1. n \in Nat /\ \A i \in 1..n : a[i] \in Nat
  BY LenProperties, ElementOfSeq
<1>2. /\ e \in [1..n -> Entry]
      /\ \A i \in 1..n : e[i] = Limit(IF i = 1 THEN NoEntry ELSE e[i-1], a[i])
  BY EntriesUnfold
<1>3. \A i : g(i) = i - e[i].count + 1
  BY DEF FirstOf
<1> HIDE DEF n, e, g
<1>4. Window \in Nat
  BY LimiterOK
<1>5. \A i \in 1..n : e[i].count \in Nat /\ e[i].start \in Nat
                      /\ e[i] = [count |-> e[i].count, start |-> e[i].start]
  BY <1>2 DEF Entry
<1>6. n # 0 => e[1] = [count |-> 1, start |-> a[1]]
  BY <1>1, <1>2 DEF Limit, NoEntry
<1>7. ASSUME NEW i \in 1..n, i # 1
      PROVE  \/ /\ e[i-1].count = 0 \/ a[i] - e[i-1].start > Window
                /\ e[i].count = 1 /\ e[i].start = a[i]
             \/ /\ a[i] - e[i-1].start <= Window
                /\ e[i].count = e[i-1].count + 1 /\ e[i].start = e[i-1].start
  <2>1. i - 1 \in 1..n /\ e[i] = Limit(e[i-1], a[i])
    BY <1>1, <1>2, <1>7
  <2>2. PICK b : b = e[i-1] /\ b = [count |-> b.count, start |-> b.start]
                 /\ b.count \in Nat /\ b.start \in Nat
    BY <1>5, <2>1
  <2>3. [b EXCEPT !.count = @ + 1] = [count |-> b.count + 1, start |-> b.start]
    BY <2>2
  <2>4. e[i] = Limit(b, a[i])
    BY <2>1, <2>2
  <2>5. a[i] \in Nat
    BY <1>1
  <2> QED
    BY <1>4, <2>2, <2>3, <2>4, <2>5 DEF Limit, Stale
<1> DEFINE U == {i \in 1..n : ~Good(i)}
<1>8. U = {}
  <2> SUFFICES ASSUME U # {} PROVE FALSE
    OBVIOUS
  <2>1. PICK i \in U : \A j \in U : i <= j
    <3>1. U \subseteq Nat
      OBVIOUS
    <3> HIDE DEF U
    <3> QED BY <3>1, Least
  <2>2. i \in 1..n /\ ~Good(i) /\ i \in Nat
    BY <2>1
  <2>3. CASE i = 1
    <3>1. e[i].count = 1 /\ e[i].start = a[i] /\ n # 0
      BY <1>1, <1>6, <2>2, <2>3
    <3>2. g(i) = 1
      BY <1>3, <2>3, <3>1
    <3>3. a[i] - a[i] = 0
      BY <1>1, <2>2
    <3> QED
      BY <1>4, <2>2, <2>3, <3>1, <3>2, <3>3
  <2>4. CASE i # 1
    <3>1. i - 1 \in 1..n /\ i - 1 \notin U
      <4> HIDE DEF U
      <4> QED BY <1>1, <2>1, <2>2, <2>4
    <3>2. Good(i - 1)
      BY <3>1
    <3>3. CASE e[i].count = 1 /\ e[i].start = a[i]
      <4>1. g(i) = i
        BY <1>3, <2>2, <3>3
      <4>2. a[i] - a[i] = 0
        BY <1>1, <2>2
      <4> QED
        BY <1>4, <2>2, <3>3, <4>1, <4>2
    <3>4. CASE /\ a[i] - e[i-1].start <= Window
               /\ e[i].count = e[i-1].count + 1 /\ e[i].start = e[i-1].start
      <4>1. g(i) = g(i - 1)
        <5>1. PICK c \in Nat : c = e[i-1].count
          BY <1>5, <3>1
        <5>2. g(i) = i - (c + 1) + 1 /\ g(i - 1) = (i - 1) - c + 1
          BY <1>3, <3>4, <5>1
        <5> QED
          BY <2>2, <5>2
      <4>2. e[i].count \in 1..i /\ g(i) \in 1..i /\ e[i].start = a[g(i)]
        BY <2>2, <3>2, <3>4, <4>1
      <4>3. a[i] - a[g(i)] <= Window
        BY <3>4, <4>2
      <4>4. \A m \in g(i)..i : g(m) = g(i)
        <5> TAKE m \in g(i)..i
        <5>1. CASE m = i
          BY <5>1
        <5>2. CASE m # i
          <6>1. m \in g(i-1)..(i-1)
            BY <2>2, <4>1, <4>2, <5>2
          <6> QED
            BY <3>2, <4>1, <6>1
        <5> QED BY <5>1, <5>2
      <4> QED
        BY <2>2, <4>2, <4>3, <4>4
    <3> QED
      BY <1>7, <2>2, <2>4, <3>3, <3>4
  <2> QED BY <2>3, <2>4
<1>9. \A i \in 1..n : Good(i)
  BY <1>8
<1>10. ASSUME NEW i \in 1..n, g(i) > 1
       PROVE  a[g(i)] - a[g(g(i) - 1)] > Window
  <2>1. g(i) \in 1..n /\ g(g(i)) = g(i) /\ g(i) \in Nat /\ g(i) # 1
    BY <1>1, <1>9, <1>10
  <2>2. PICK j \in 1..n : j = g(i) /\ g(j) = j /\ j # 1 /\ j - 1 \in 1..n
    BY <1>1, <1>10, <2>1
  <2>3. e[j].count = 1
    <3>1. PICK c \in Nat : c = e[j].count
      BY <1>5
    <3>2. j = j - c + 1
      BY <1>3, <2>2, <3>1
    <3> QED
      BY <3>1, <3>2
  <2>4. e[j-1].count \in 1..(j-1) /\ e[j-1].start = a[g(j-1)]
    BY <1>9, <2>2
  <2>5. a[j] - e[j-1].start > Window
    BY <1>7, <2>2, <2>3, <2>4
  <2> QED
    BY <2>2, <2>4, <2>5
<1> QED
  BY <1>9, <1>10 DEF n, e, g

\* Requests come in groups: `c' numbers them within theirs and `g' is its first.  A group
\* lasts at most a window, and the next begins when the window has passed.
Grouped(n, window, a, c, g) ==
    /\ a \in [1..n -> Nat] /\ c \in [1..n -> Nat] /\ g \in [1..n -> Nat]
    /\ \A j, k \in 1..n : j <= k => a[j] <= a[k]
    /\ \A j \in 1..n : 1 <= g[j] /\ g[j] <= j /\ g[j] = j - c[j] + 1 /\ a[j] - a[g[j]] <= window
    /\ \A j, m \in 1..n : g[j] <= m /\ m <= j => g[m] = g[j]
    /\ \A j \in 1..n : g[j] > 1 => a[g[j]] - a[g[g[j] - 1]] > window

\* Three groups do not fit into a window.
LEMMA TwoGroups ==
    ASSUME NEW n \in Nat, NEW window \in Nat, NEW a, NEW c, NEW g, Grouped(n, window, a, c, g),
           NEW l \in 1..n, NEW j \in 1..n, NEW k \in 1..n, l <= j, j <= k,
           g[l] # g[j], g[l] # g[k], a[k] - a[l] <= window
    PROVE  g[j] = g[k]
<1> SUFFICES ASSUME g[j] # g[k] PROVE FALSE
  OBVIOUS
<1>1. a \in [1..n -> Nat] /\ c \in [1..n -> Nat] /\ g \in [1..n -> Nat]
  BY DEF Grouped
<1>2. g[k] > j /\ 1 <= g[k] /\ g[k] <= k
  <2>1. 1 <= g[k] /\ g[k] <= k /\ g[k] \in Nat
    BY DEF Grouped
  <2>2. g[k] <= j => g[j] = g[k]
    BY DEF Grouped
  <2> QED
    BY <2>1, <2>2
<1>3. g[j] > l /\ 1 <= g[j] /\ g[j] <= j /\ g[j] \in 1..n
  <2>1. 1 <= g[j] /\ g[j] <= j /\ g[j] \in Nat
    BY DEF Grouped
  <2>2. g[j] <= l => g[l] = g[j]
    BY DEF Grouped
  <2> QED
    BY <2>1, <2>2
<1>4. PICK m \in 1..n : m = g[k] - 1 /\ j <= m
  <2>1. g[k] \in Nat
    BY <1>1
  <2>2. g[k] - 1 \in 1..n /\ j <= g[k] - 1
    BY <1>2, <2>1
  <2> QED
    BY <2>2
<1>5. a[g[k]] - a[g[m]] > window
  <2>1. g[k] > 1
    BY <1>1, <1>2
  <2> QED
    BY <1>4, <2>1 DEF Grouped
<1>6. g[m] \in 1..n /\ g[m] <= m
  <2>1. g[m] \in Nat /\ 1 <= g[m] /\ g[m] <= m
    BY DEF Grouped
  <2> QED
    BY <2>1
<1>7. g[m] >= g[j]
  <2> SUFFICES ASSUME g[m] < g[j] PROVE FALSE
    BY <1>3, <1>6
  <2>1. g[m] <= g[j] /\ g[j] <= m
    BY <1>3, <1>4, <1>6
  <2>3. g[g[j]] = g[j]
    BY <1>3 DEF Grouped
  <2>4. g[g[j]] = g[m]
    BY <1>3, <2>1 DEF Grouped
  <2> QED
    BY <1>3, <1>6, <2>3, <2>4
<1>8. a[l] <= a[g[m]]
  <2>1. l <= g[m]
    BY <1>3, <1>6, <1>7
  <2> QED
    BY <1>6, <2>1 DEF Grouped
<1>9. a[g[k]] <= a[k] /\ g[k] \in 1..n
  <2>1. g[k] \in 1..n /\ g[k] <= k
    BY <1>1, <1>2
  <2> QED
    BY <2>1 DEF Grouped
<1>10. a[l] \in Nat /\ a[g[m]] \in Nat /\ a[g[k]] \in Nat /\ a[k] \in Nat
  BY <1>1, <1>6, <1>9
<1> QED
  BY <1>5, <1>8, <1>9, <1>10

\* A stretch of a window's length meets at most two groups.
LEMMA WindowBound ==
    ASSUME NEW n \in Nat, NEW window \in Nat, NEW limit \in Nat,
           NEW a, NEW c, NEW g, Grouped(n, window, a, c, g),
           NEW t \in Nat, NEW P, P \subseteq 1..n,
           \A j \in P : c[j] <= limit /\ t - window <= a[j] /\ a[j] <= t
    PROVE  Cardinality(P) <= 2 * limit
<1>1. /\ a \in [1..n -> Nat] /\ c \in [1..n -> Nat] /\ g \in [1..n -> Nat]
      /\ \A j \in 1..n : g[j] = j - c[j] + 1 /\ g[j] <= j /\ 1 <= g[j]
  BY DEF Grouped
<1>2. CASE P = {}
  BY <1>2, FS_EmptySet
<1>3. CASE P # {}
  <2>1. PICK l \in P : \A j \in P : l <= j
    <3>1. P \subseteq Nat
      OBVIOUS
    <3> QED BY <1>3, <3>1, Least
  <2> DEFINE f == [j \in P |-> IF g[j] = g[l] THEN c[j] ELSE limit + c[j]]
  <2>2. ASSUME NEW j \in P PROVE c[j] \in 1..limit /\ c[j] \in Nat /\ j \in 1..n /\ j \in Nat
    <3>1. j \in 1..n /\ c[j] \in Nat /\ j - c[j] + 1 <= j
      BY <1>1
    <3> QED
      BY <3>1
  <2>3. ASSUME NEW j \in P PROVE f[j] \in 1..(2 * limit)
    <3>1. CASE g[j] = g[l]
      BY <2>2, <3>1
    <3>2. CASE g[j] # g[l]
      <4>1. PICK d \in 1..limit : f[j] = limit + d
        BY <2>2, <3>2
      <4> QED BY <4>1
    <3> QED BY <3>1, <3>2
  <2>4. ASSUME NEW j \in P, NEW k \in P, j <= k, g[j] # g[l], g[k] # g[l] PROVE g[j] = g[k]
    <3>1. /\ l \in 1..n /\ j \in 1..n /\ k \in 1..n /\ l <= j
          /\ t - window <= a[l] /\ a[k] <= t
      BY <2>1
    <3>2. a[k] - a[l] <= window
      <4>1. a[k] \in Nat /\ a[l] \in Nat
        BY <1>1, <3>1
      <4> QED BY <3>1, <4>1
    <3> QED
      BY <2>4, <3>1, <3>2, TwoGroups
  <2>5. ASSUME NEW j \in P, NEW k \in P, f[j] = f[k] PROVE j = k
    <3>1. g[j] = g[k] /\ c[j] = c[k]
      <4>1. CASE g[j] = g[l] /\ g[k] = g[l]
        BY <2>5, <4>1
      <4>2. CASE g[j] # g[l] /\ g[k] # g[l]
        <5>1. c[j] = c[k]
          <6>1. limit + c[j] = limit + c[k]
            BY <2>5, <4>2
          <6>2. c[j] \in Nat /\ c[k] \in Nat
            BY <2>2
          <6> QED BY <6>1, <6>2
        <5>2. j <= k \/ k <= j
          BY <2>2
        <5> QED BY <2>4, <4>2, <5>1, <5>2
      <4>3. CASE g[j] = g[l] /\ g[k] # g[l]
        <5>1. c[j] = limit + c[k]
          BY <2>5, <4>3
        <5>2. c[j] \in 1..limit /\ c[k] \in 1..limit
          BY <2>2
        <5> QED BY <5>1, <5>2
      <4>4. CASE g[j] # g[l] /\ g[k] = g[l]
        <5>1. limit + c[j] = c[k]
          BY <2>5, <4>4
        <5>2. c[j] \in 1..limit /\ c[k] \in 1..limit
          BY <2>2
        <5> QED BY <5>1, <5>2
      <4> QED BY <4>1, <4>2, <4>3, <4>4
    <3>2. j - c[j] + 1 = k - c[j] + 1
      BY <1>1, <2>2, <3>1
    <3>3. j \in Nat /\ k \in Nat /\ c[j] \in Nat
      BY <2>2
    <3> QED
      BY <3>2, <3>3
  <2>6. f = [j \in P |-> f[j]]
    OBVIOUS
  <2> HIDE DEF f
  <2>7. f \in [P -> 1..(2 * limit)]
    BY <2>3, <2>6
  <2>8. 2 * limit \in Nat
    OBVIOUS
  <2> QED
    BY <2>5, <2>7, <2>8, AtMost
<1> QED
  BY <1>2, <1>3

\* A group that has gone beyond the limit has used it up, all within a window.
LEMMA WindowFull ==
    ASSUME NEW n \in Nat, NEW window \in Nat, NEW limit \in Nat,
           NEW a, NEW c, NEW g, Grouped(n, window, a, c, g),
           NEW i \in 1..n, ~(c[i] <= limit), NEW P, P \subseteq 1..n,
           \A j \in 1..n : c[j] <= limit /\ a[i] - window <= a[j] /\ a[j] <= a[i] => j \in P
    PROVE  Cardinality(P) >= limit
<1>1. a \in [1..n -> Nat] /\ c \in [1..n -> Nat] /\ g \in [1..n -> Nat]
  BY DEF Grouped
<1>2. PICK first \in 1..n : first = g[i] /\ first <= i /\ a[i] - a[first] <= window
  BY <1>1 DEF Grouped
<1>3. first = i - c[i] + 1 /\ c[i] \in Nat /\ c[i] > limit
  BY <1>1, <1>2 DEF Grouped
<1> DEFINE f == [k \in 1..limit |-> first + k - 1]
<1>4. ASSUME NEW k \in 1..limit PROVE first + k - 1 \in P
  <2>1. PICK j : j = first + k - 1
    OBVIOUS
  <2>2. j \in 1..n /\ first <= j /\ j <= i
    <3>1. PICK d \in Nat : d > limit /\ first = i - d + 1
      BY <1>3
    <3> QED BY <2>1, <3>1
  <2>3. g[j] = first /\ g[j] = j - c[j] + 1 /\ c[j] \in Nat
    BY <1>1, <1>2, <2>2 DEF Grouped
  <2>4. c[j] = k
    <3>1. PICK d \in Nat : d = c[j]
      BY <2>3
    <3>2. first = j - d + 1
      BY <2>3, <3>1
    <3> QED BY <2>1, <3>1, <3>2
  <2>5. a[first] <= a[j] /\ a[j] <= a[i]
    BY <2>2 DEF Grouped
  <2>6. a[first] \in Nat /\ a[j] \in Nat /\ a[i] \in Nat
    BY <1>1, <2>2
  <2>7. a[i] - window <= a[j]
    BY <1>2, <2>5, <2>6
  <2> QED
    BY <2>1, <2>2, <2>4, <2>5, <2>7
<1>5. f \in [1..limit -> P]
  BY <1>4
<1>6. \A x, y \in 1..limit : f[x] = f[y] => x = y
  OBVIOUS
<1> HIDE DEF f
<1>7. IsFiniteSet(P) /\ Cardinality(P) \in Nat
  <2>1. IsFiniteSet(P) /\ Cardinality(P) \in 0..n
    BY PlacesFinite
  <2> QED
    BY <2>1
<1>8. limit <= Cardinality(P)
  BY <1>5, <1>6, <1>7, AtLeast
<1> QED
  BY <1>7, <1>8

\* The requests of the rate limiter's entries come in such groups.
LEMMA LimiterHolds ==
    ASSUME Asked("arrivals") => question.input \in Seq(Nat) /\ InOrder(question.input)
    PROVE  LimiterBound
<1> SUFFICES ASSUME Asked("arrivals"), NEW i \in DOMAIN question.input
             PROVE  LET a == question.input
                        ok == Admitted(a)
                        Passed(from, to) == Cardinality({j \in DOMAIN a : ok[j] /\ a[j] \in from..to})
                    IN  /\ Passed(a[i] - Window, a[i]) <= 2 * MaxRequests
                        /\ ~ok[i] => Passed(a[i] - Window, a[i]) >= MaxRequests
  BY DEF LimiterBound
<1> DEFINE a == question.input
           n == Len(a)
           e == Entries(a)
           c == [j \in 1..n |-> e[j].count]
           g == [j \in 1..n |-> FirstOf(a, j)]
           passed == {j \in DOMAIN a : Admitted(a)[j] /\ a[j] \in (a[i] - Window)..a[i]}
<1>1. a \in Seq(Nat) /\ InOrder(a)
  OBVIOUS
<1>2. n \in Nat /\ DOMAIN a = 1..n /\ i \in 1..n /\ a \in [1..n -> Nat]
  BY LenProperties, ElementOfSeq
<1>3. /\ \A j \in 1..n :
             /\ e[j].count \in 1..j /\ FirstOf(a, j) \in 1..j
             /\ a[j] - a[FirstOf(a, j)] <= Window
             /\ \A m \in FirstOf(a, j)..j : FirstOf(a, m) = FirstOf(a, j)
      /\ \A j \in 1..n : FirstOf(a, j) > 1 => a[FirstOf(a, j)] - a[FirstOf(a, FirstOf(a, j) - 1)] > Window
  BY <1>1, EntriesAre
<1>4. \A j : FirstOf(a, j) = j - e[j].count + 1
  BY DEF FirstOf
<1>5. \A j, k \in 1..n : j <= k => a[j] <= a[k]
  <2> TAKE j, k \in 1..n
  <2>1. j < k => a[j] <= a[k]
    BY <1>1, <1>2 DEF InOrder
  <2>2. a[j] \in Nat
    BY <1>2
  <2> HIDE DEF a, n
  <2> QED
    BY <1>2, <2>1, <2>2
<1>6. \A j \in 1..n : Admitted(a)[j] <=> e[j].count <= MaxRequests
  BY <1>2 DEF Admitted
<1>7. Window \in Nat /\ MaxRequests \in Nat
  BY LimiterOK
<1> HIDE DEF a, n, e
<1>8. \A j \in 1..n : c[j] = e[j].count /\ g[j] = FirstOf(a, j)
  OBVIOUS
<1>9. c \in [1..n -> Nat] /\ g \in [1..n -> Nat]
  <2>1. \A j \in 1..n : e[j].count \in Nat /\ FirstOf(a, j) \in Nat
    BY <1>3
  <2> QED
    BY <2>1
<1> HIDE DEF c, g
<1>10. Grouped(n, Window, a, c, g)
  <2>1. \A j \in 1..n : 1 <= g[j] /\ g[j] <= j /\ g[j] \in 1..n /\ g[j] = j - c[j] + 1
                        /\ a[j] - a[g[j]] <= Window
    <3> TAKE j \in 1..n
    <3>1. FirstOf(a, j) \in 1..j /\ a[j] - a[FirstOf(a, j)] <= Window /\ j \in 1..n
      BY <1>3
    <3>2. FirstOf(a, j) \in 1..n /\ 1 <= FirstOf(a, j) /\ FirstOf(a, j) <= j
      BY <1>2, <3>1
    <3>3. g[j] = FirstOf(a, j) /\ c[j] = e[j].count
      BY <1>8
    <3>4. FirstOf(a, j) = j - e[j].count + 1
      BY <1>4
    <3> HIDE <1>4
    <3> QED
      BY <3>1, <3>2, <3>3, <3>4
  <2>2. \A j, m \in 1..n : g[j] <= m /\ m <= j => g[m] = g[j]
    <3> TAKE j, m \in 1..n
    <3>1. g[j] = FirstOf(a, j) /\ g[m] = FirstOf(a, m) /\ g[j] \in 1..n
      BY <1>8, <2>1
    <3> QED
      BY <1>2, <1>3, <3>1
  <2>3. \A j \in 1..n : g[j] > 1 => a[g[j]] - a[g[g[j] - 1]] > Window
    <3> TAKE j \in 1..n
    <3> HAVE g[j] > 1
    <3>1. g[j] = FirstOf(a, j) /\ g[j] - 1 \in 1..n
      BY <1>2, <1>8, <2>1
    <3>2. g[g[j] - 1] = FirstOf(a, g[j] - 1)
      BY <1>8, <3>1
    <3> QED
      BY <1>3, <3>1, <3>2
  <2> QED
    BY <1>2, <1>5, <1>9, <2>1, <2>2, <2>3 DEF Grouped
<1>11. /\ passed \subseteq 1..n
       /\ \A j \in 1..n : j \in passed <=>
              c[j] <= MaxRequests /\ a[i] - Window <= a[j] /\ a[j] <= a[i]
  <2>1. \A j \in 1..n : a[j] \in Int /\ a[i] \in Int
    BY <1>2
  <2>2. passed \subseteq 1..n
    BY <1>2
  <2>3. ASSUME NEW j \in 1..n
        PROVE  j \in passed <=> Admitted(a)[j] /\ a[j] \in (a[i] - Window)..a[i]
    BY <1>2
  <2> HIDE DEF passed
  <2>4. ASSUME NEW j \in 1..n
        PROVE  a[j] \in (a[i] - Window)..a[i] <=> a[i] - Window <= a[j] /\ a[j] <= a[i]
    BY <1>7, <2>1
  <2> QED
    BY <1>6, <1>8, <2>2, <2>3, <2>4
<1> HIDE DEF passed
<1>12. Cardinality(passed) <= 2 * MaxRequests
  <2>1. a[i] \in Nat
    BY <1>2
  <2> QED
    BY <1>2, <1>7, <1>10, <1>11, <2>1, WindowBound
<1>13. ASSUME ~(e[i].count <= MaxRequests) PROVE Cardinality(passed) >= MaxRequests
  <2>1. ~(c[i] <= MaxRequests)
    BY <1>2, <1>8, <1>13
  <2> QED
    BY <1>2, <1>7, <1>10, <1>11, <2>1, WindowFull
<1> QED
  BY <1>2, <1>6, <1>12, <1>13 DEF a, passed

\* Times in order and, for each, the first of its run: no gap in the run is longer than
\* Gap, and the one before it is.
Strung(n, s, f) ==
    /\ s \in [1..n -> Nat] /\ f \in [1..n -> Nat]
    /\ \A i, j \in 1..n : i <= j => s[i] <= s[j]
    /\ \A k \in 1..n : 1 <= f[k] /\ f[k] <= k
    /\ \A k, m \in 1..n : f[k] <= m /\ m < k => s[m+1] - s[m] <= Gap
    /\ \A k \in 1..n : f[k] > 1 => s[f[k]] - s[f[k] - 1] > Gap

\* From a to b there is a longest run of them.
LongestRun(n, s, a, b) ==
    /\ \E i \in 1..n : s[i] = a
    /\ \E i \in 1..n : s[i] = b
    /\ a <= b
    /\ \A i \in 1..n : ~(a - Gap <= s[i] /\ s[i] <= a - 1)
    /\ \A i \in 1..n : ~(b + 1 <= s[i] /\ s[i] <= b + Gap)
    /\ \A i \in 1..n : a <= s[i] /\ s[i] <= b - 1 =>
           \E j \in 1..n : s[i] + 1 <= s[j] /\ s[j] <= s[i] + Gap

\* The last place whose time is up to t.
LEMMA LastUpTo ==
    ASSUME NEW n \in Nat, NEW s \in [1..n -> Nat], NEW t \in Nat, \E i \in 1..n : s[i] <= t
    PROVE  \E k \in 1..n : s[k] <= t /\ \A i \in 1..n : s[i] <= t => i <= k
<1> DEFINE T == {i \in 1..n : s[i] <= t}
<1>1. T \subseteq 0..n /\ T # {}
  OBVIOUS
<1>2. PICK k \in T : \A i \in T : i <= k
  <2> HIDE DEF T
  <2> QED BY <1>1, Largest
<1> QED
  BY <1>2

\* From the first to the last error of a burst is a longest run, with the errors in between.
LEMMA BurstIsRun ==
    ASSUME NEW n \in Nat, NEW s, NEW f, Strung(n, s, f),
           NEW k \in 1..n, k = n \/ s[k+1] - s[k] > Gap
    PROVE  /\ LongestRun(n, s, s[f[k]], s[k])
           /\ \A i \in 1..n : s[f[k]] <= s[i] /\ s[i] <= s[k] <=> f[k] <= i /\ i <= k
<1>1. s \in [1..n -> Nat] /\ Gap \in Nat
  BY BurstOK DEF Strung
<1>2. PICK l \in 1..n : l = f[k] /\ l <= k
  BY DEF Strung
<1>3. \A i, j \in 1..n : i <= j => s[i] <= s[j]
  BY DEF Strung
<1>4. l > 1 => l - 1 \in 1..n /\ s[l] - s[l-1] > Gap
  <2>1. l > 1 => l - 1 \in 1..n
    OBVIOUS
  <2>2. l > 1 => s[l] - s[l-1] > Gap
    BY <1>2 DEF Strung
  <2> QED
    BY <2>1, <2>2
<1>5. ASSUME NEW m \in 1..n, l <= m, m < k PROVE m + 1 \in 1..n /\ s[m+1] - s[m] <= Gap
  <2>1. m + 1 \in 1..n
    BY <1>5
  <2>2. s[m+1] - s[m] <= Gap
    BY <1>2, <1>5 DEF Strung
  <2> QED
    BY <2>1, <2>2
<1>6. ASSUME NEW i \in 1..n, i < l PROVE s[i] < s[l] - Gap
  <2>1. l - 1 \in 1..n /\ s[l] - s[l-1] > Gap /\ i <= l - 1
    BY <1>4, <1>6
  <2>2. s[i] <= s[l-1] /\ s[i] \in Nat /\ s[l-1] \in Nat /\ s[l] \in Nat
    BY <1>1, <1>3, <2>1
  <2> QED
    BY <1>1, <2>1, <2>2
<1>7. ASSUME NEW i \in 1..n, k < i PROVE s[i] > s[k] + Gap
  <2>1. k + 1 \in 1..n /\ k + 1 <= i /\ k # n
    BY <1>7
  <2>2. s[k+1] - s[k] > Gap /\ s[k+1] <= s[i] /\ s[i] \in Nat /\ s[k+1] \in Nat /\ s[k] \in Nat
    BY <1>1, <1>3, <2>1
  <2>3. \A x, y, z, gap \in Nat : y - x > gap /\ y <= z => z > x + gap
    OBVIOUS
  <2> QED
    BY <1>1, <2>2, <2>3
<1>8. ASSUME NEW i \in 1..n
      PROVE  s[l] <= s[i] /\ s[i] <= s[k] <=> l <= i /\ i <= k
  <2>1. s[i] \in Nat /\ s[l] \in Nat /\ s[k] \in Nat
    BY <1>1
  <2>2. CASE i < l
    BY <1>1, <1>6, <2>1, <2>2
  <2>3. CASE k < i
    BY <1>1, <1>7, <2>1, <2>3
  <2>4. CASE l <= i /\ i <= k
    BY <1>3, <2>4
  <2> QED
    BY <2>2, <2>3, <2>4
<1>9. s[l] <= s[k]
  BY <1>2, <1>3
<1>10. ASSUME NEW i \in 1..n, s[l] - Gap <= s[i], s[i] <= s[l] - 1 PROVE FALSE
  <2>1. s[i] \in Nat /\ s[l] \in Nat
    BY <1>1
  <2>2. CASE i < l
    BY <1>1, <1>6, <1>10, <2>1, <2>2
  <2>3. CASE l <= i
    BY <1>3, <1>10, <2>1, <2>3
  <2> QED
    BY <2>2, <2>3
<1>11. ASSUME NEW i \in 1..n, s[k] + 1 <= s[i], s[i] <= s[k] + Gap PROVE FALSE
  <2>1. s[i] \in Nat /\ s[k] \in Nat
    BY <1>1
  <2>2. CASE k < i
    BY <1>1, <1>7, <1>11, <2>1, <2>2
  <2>3. CASE i <= k
    BY <1>3, <1>11, <2>1, <2>3
  <2> QED
    BY <2>2, <2>3
<1>12. ASSUME NEW i \in 1..n, s[l] <= s[i], s[i] <= s[k] - 1
       PROVE  \E j \in 1..n : s[i] + 1 <= s[j] /\ s[j] <= s[i] + Gap
  <2>0. s[i] \in Nat /\ s[k] \in Nat /\ s[l] \in Nat
    BY <1>1
  <2>7. s[i] <= s[i]
    BY <2>0
  <2>1. PICK m \in 1..n : s[m] <= s[i] /\ \A j \in 1..n : s[j] <= s[i] => j <= m
    <3>1. \E j \in 1..n : s[j] <= s[i]
      BY <2>7
    <3> QED BY <1>1, <2>0, <3>1, LastUpTo
  <2>2. l <= m /\ i <= m
    BY <1>12, <2>0, <2>1
  <2>3. m < k
    <3>1. s[m] \in Nat
      BY <1>1
    <3>2. ~(k <= m)
      BY <1>3, <1>12, <2>0, <2>1, <3>1
    <3> QED BY <3>2
  <2>4. PICK j \in 1..n : j = m + 1 /\ s[j] - s[m] <= Gap
    BY <1>5, <2>2, <2>3
  <2>5. s[j] \in Nat /\ s[m] \in Nat
    BY <1>1
  <2>6. ~(s[j] <= s[i])
    BY <2>1, <2>4
  <2>8. \A x, y, z, gap \in Nat : x <= y /\ ~(z <= y) /\ z - x <= gap => y + 1 <= z /\ z <= y + gap
    OBVIOUS
  <2>9. s[i] + 1 <= s[j] /\ s[j] <= s[i] + Gap
    BY <1>1, <2>0, <2>1, <2>4, <2>5, <2>6, <2>8
  <2> QED
    BY <2>9
<1> QED
  BY <1>2, <1>8, <1>9, <1>10, <1>11, <1>12 DEF LongestRun

\* Every longest run ends at the last error of a burst, and starts at its first.
LEMMA RunIsBurst ==
    ASSUME NEW n \in Nat, NEW s, NEW f, Strung(n, s, f),
           NEW a \in Nat, NEW b \in Nat, LongestRun(n, s, a, b)
    PROVE  \E k \in 1..n : (k = n \/ s[k+1] - s[k] > Gap) /\ s[k] = b /\ s[f[k]] = a
<1>1. s \in [1..n -> Nat] /\ Gap \in Nat
  BY BurstOK DEF Strung
<1>2. \A i, j \in 1..n : i <= j => s[i] <= s[j]
  BY DEF Strung
<1>3. PICK ib \in 1..n : s[ib] = b
  BY DEF LongestRun
<1>4. PICK ia \in 1..n : s[ia] = a
  BY DEF LongestRun
<1>5. PICK k \in 1..n : s[k] <= b /\ \A i \in 1..n : s[i] <= b => i <= k
  <2>1. \E i \in 1..n : s[i] <= b
    BY <1>3
  <2> QED BY <1>1, <2>1, LastUpTo
<1>6. s[k] = b
  <2>1. ib <= k /\ s[ib] <= s[k] /\ s[k] \in Nat
    BY <1>1, <1>2, <1>3, <1>5
  <2> QED
    BY <1>3, <1>5, <2>1
<1>7. k = n \/ s[k+1] - s[k] > Gap
  <2> SUFFICES ASSUME k # n PROVE s[k+1] - s[k] > Gap
    OBVIOUS
  <2>1. k + 1 \in 1..n
    OBVIOUS
  <2>2. ~(s[k+1] <= b) /\ s[k+1] \in Nat
    BY <1>1, <1>5, <2>1
  <2>3. ~(b + 1 <= s[k+1] /\ s[k+1] <= b + Gap)
    BY <2>1 DEF LongestRun
  <2> QED
    BY <1>1, <1>6, <2>2, <2>3
<1>8. PICK l \in 1..n : l = f[k] /\ l <= k
  BY DEF Strung
<1>9. s[l] \in Nat /\ s[l] <= b /\ a <= b
  BY <1>1, <1>2, <1>6, <1>8 DEF LongestRun
<1>10. s[l] <= a
  <2> SUFFICES ASSUME a < s[l] PROVE FALSE
    BY <1>9
  <2>1. ia < l
    <3>1. ~(l <= ia)
      BY <1>2, <1>4, <1>9
    <3> QED BY <3>1
  <2>2. PICK m \in 1..n : m = l - 1 /\ ia <= m
    BY <2>1
  <2>3. s[l] - s[m] > Gap
    <3>1. f[k] > 1
      BY <1>8, <2>1
    <3>2. s[f[k]] - s[f[k] - 1] > Gap
      BY <3>1 DEF Strung
    <3> QED BY <1>8, <2>2, <3>2
  <2>4. a <= s[m] /\ s[m] \in Nat
    BY <1>1, <1>2, <1>4, <2>2
  <2>5. s[m] <= b - 1
    BY <1>1, <1>9, <2>3, <2>4
  <2>6. PICK j \in 1..n : s[m] + 1 <= s[j] /\ s[j] <= s[m] + Gap
    BY <2>4, <2>5 DEF LongestRun
  <2>7. s[j] \in Nat
    BY <1>1
  <2>8. m < j
    <3>1. ~(j <= m)
      BY <1>2, <2>4, <2>6, <2>7
    <3> QED BY <3>1
  <2>9. s[l] <= s[j]
    BY <1>2, <2>2, <2>8
  <2>10. \A x, y, z, gap \in Nat : y - x > gap /\ y <= z => ~(z <= x + gap)
    OBVIOUS
  <2> QED
    BY <1>1, <1>9, <2>3, <2>4, <2>6, <2>7, <2>9, <2>10
<1>11. a <= s[l]
  <2> SUFFICES ASSUME s[l] < a PROVE FALSE
    BY <1>9
  <2>1. a - 1 \in Nat /\ s[l] <= a - 1
    BY <1>9
  <2>2. PICK m \in 1..n : s[m] <= a - 1 /\ \A i \in 1..n : s[i] <= a - 1 => i <= m
    <3>1. \E i \in 1..n : s[i] <= a - 1
      BY <2>1
    <3> QED BY <1>1, <2>1, <3>1, LastUpTo
  <2>3. l <= m
    BY <2>1, <2>2
  <2>4. m < ia
    <3>1. s[m] \in Nat
      BY <1>1
    <3>2. ~(ia <= m)
      BY <1>2, <1>4, <2>2, <3>1
    <3> QED BY <3>2
  <2>5. ia <= k
    BY <1>4, <1>5, <1>9
  <2>6. m < k /\ m + 1 \in 1..n
    BY <2>4, <2>5
  <2>11. PICK j \in 1..n : j = m + 1
    BY <2>6
  <2>7. s[j] - s[m] <= Gap
    BY <1>8, <2>3, <2>6, <2>11 DEF Strung
  <2>8. ~(s[j] <= a - 1)
    BY <2>2, <2>11
  <2>9. s[j] <= a /\ s[j] \in Nat /\ s[m] \in Nat
    BY <1>1, <1>2, <1>4, <2>4, <2>11
  <2>10. ~(a - Gap <= s[m] /\ s[m] <= a - 1)
    BY DEF LongestRun
  <2>12. \A x, z, gap \in Nat : x <= a - 1 /\ ~(z <= a - 1) /\ z <= a /\ z - x <= gap => a - gap <= x
    OBVIOUS
  <2>13. s[m] <= a - 1
    BY <2>2
  <2> QED
    BY <1>1, <2>13, <2>7, <2>8, <2>9, <2>10, <2>12
<1> QED
  BY <1>6, <1>7, <1>8, <1>9, <1>10, <1>11

\* How often times within a and b occur.
Inside(s, a, b) == {i \in DOMAIN s : s[i] \in a..b}

\* Sorting moves the times about, and leaves as many of them in each stretch.
LEMMA SortedInside ==
    ASSUME NEW s \in Seq(Nat), NEW a \in Int, NEW b \in Int
    PROVE  /\ Inside(s, a, b) = {} <=> \A k \in 1..Len(s) : ~(a <= Sorted(s)[k] /\ Sorted(s)[k] <= b)
           /\ Cardinality(Inside(s, a, b)) = Cardinality(Inside(Sorted(s), a, b))
<1> DEFINE n == Len(s)
           t == Sorted(s)
<1>1. n \in Nat /\ DOMAIN s = 1..n /\ s \in [1..n -> Nat]
  BY LenProperties
<1>2. t \in [1..n -> Nat]
  BY SortedIs
<1>3. PICK p \in Bijection(1..n, 1..n) : t = [i \in 1..n |-> s[p[i]]]
  BY SortedIs
<1> HIDE DEF n, t
<1>4. p \in [1..n -> 1..n] /\ \A i, j \in 1..n : p[i] = p[j] => i = j
  BY <1>3, Fun_BijectionProperties
<1>5. \A j \in 1..n : \E i \in 1..n : p[i] = j
  BY <1>3 DEF Bijection, Surjection
<1>6. \A i \in 1..n : t[i] = s[p[i]] /\ p[i] \in 1..n
  BY <1>3, <1>4
<1> DEFINE A == Inside(s, a, b)
           B == Inside(t, a, b)
<1>7. /\ A \subseteq 1..n /\ \A i \in 1..n : i \in A <=> s[i] \in a..b
      /\ B \subseteq 1..n /\ \A i \in 1..n : i \in B <=> t[i] \in a..b
  BY <1>1, <1>2 DEF Inside
<1> HIDE DEF A, B
<1>8. A = {} <=> B = {}
  <2>1. ASSUME NEW j \in A PROVE B # {}
    <3>1. PICK i \in 1..n : p[i] = j
      BY <1>5, <1>7
    <3> QED BY <1>6, <1>7, <3>1
  <2>2. ASSUME NEW i \in B PROVE A # {}
    BY <1>6, <1>7
  <2> QED BY <2>1, <2>2
<1>9. A = {} <=> \A k \in 1..n : ~(a <= t[k] /\ t[k] <= b)
  <2>1. \A k \in 1..n : k \in B <=> a <= t[k] /\ t[k] <= b
    <3>1. \A k \in 1..n : t[k] \in Int
      BY <1>2
    <3> QED BY <1>7, <3>1
  <2> QED BY <1>7, <1>8, <2>1
<1>10. Cardinality(A) = Cardinality(B)
  <2> DEFINE f == [i \in B |-> p[i]]
  <2>1. \A i \in B : i \in 1..n /\ p[i] \in A
    BY <1>6, <1>7
  <2>2. f \in [B -> A]
    BY <2>1
  <2>3. f \in Injection(B, A)
    <3>1. \A x, y \in B : f[x] = f[y] => x = y
      BY <1>4, <2>1
    <3> HIDE DEF f
    <3> QED BY <2>2, <3>1, Fun_IsInj
  <2>4. \A j \in A : \E i \in B : f[i] = j
    <3> TAKE j \in A
    <3>1. PICK i \in 1..n : p[i] = j
      BY <1>5, <1>7
    <3>2. i \in B
      BY <1>6, <1>7, <3>1
    <3> QED BY <3>1, <3>2
  <2> HIDE DEF f
  <2>5. f \in Surjection(B, A)
    BY <2>2, <2>4, Fun_IsSurj
  <2>6. f \in Bijection(B, A)
    BY <2>3, <2>5 DEF Bijection
  <2>7. IsFiniteSet(B)
    BY <1>1, <1>7, PlacesFinite
  <2>8. ExistsBijection(B, A)
    BY <2>6 DEF ExistsBijection
  <2> QED BY <2>7, <2>8, FS_Bijection
<1> QED
  BY <1>9, <1>10 DEF A, B, n, t

BurstRecord == [start : Nat, end : Nat, count : Nat]

\* Each error joins the burst of the one before it, or begins one.
LEMMA BurstsUnfold ==
    ASSUME NEW n \in Nat, NEW s \in [1..n -> Nat]
    PROVE  /\ BurstsSoFar(s) \in [1..n -> BurstRecord]
           /\ \A k \in 1..n :
                  /\ BurstsSoFar(s)[k].end = s[k]
                  /\ \/ /\ k > 1 /\ Joins(BurstsSoFar(s)[k-1], s[k])
                        /\ BurstsSoFar(s)[k].start = BurstsSoFar(s)[k-1].start
                        /\ BurstsSoFar(s)[k].count = BurstsSoFar(s)[k-1].count + 1
                     \/ /\ k > 1 => ~Joins(BurstsSoFar(s)[k-1], s[k])
                        /\ BurstsSoFar(s)[k].start = s[k]
                        /\ BurstsSoFar(s)[k].count = 1
<1> DEFINE Next1(k, b) == IF k > 1 /\ Joins(b, s[k])
                          THEN [start |-> b.start, end |-> s[k], count |-> b.count + 1]
                          ELSE [start |-> s[k], end |-> s[k], count |-> 1]
           step == [k \in 1..n |-> [b \in BurstRecord |-> Next1(k, b)]]
           none == [start |-> 0, end |-> 0, count |-> 0]
           Is(g) == g = [k \in DOMAIN s |-> IF k > 1 /\ Joins(g[k-1], s[k])
                                            THEN [start |-> g[k-1].start, end |-> s[k], count |-> g[k-1].count + 1]
                                            ELSE [start |-> s[k], end |-> s[k], count |-> 1]]
<1>1. DOMAIN s = 1..n /\ \A k \in 1..n : s[k] \in Nat
  OBVIOUS
<1>2. ASSUME NEW k \in 1..n, NEW b \in BurstRecord
      PROVE  /\ Next1(k, b) \in BurstRecord
             /\ \/ /\ k > 1 /\ Joins(b, s[k])
                   /\ Next1(k, b).start = b.start /\ Next1(k, b).end = s[k]
                   /\ Next1(k, b).count = b.count + 1
                \/ /\ k > 1 => ~Joins(b, s[k])
                   /\ Next1(k, b) = [start |-> s[k], end |-> s[k], count |-> 1]
  <2>1. PICK x \in Nat, y \in Nat, z \in Nat : b = [start |-> x, end |-> y, count |-> z]
    BY DEF BurstRecord
  <2>3. CASE k > 1 /\ Joins(b, s[k])
    <3>1. Next1(k, b) = [start |-> x, end |-> s[k], count |-> z + 1]
      BY <2>1, <2>3
    <3> HIDE DEF Next1
    <3> QED BY <1>1, <2>1, <2>3, <3>1 DEF BurstRecord
  <2>4. CASE ~(k > 1 /\ Joins(b, s[k]))
    <3>1. Next1(k, b) = [start |-> s[k], end |-> s[k], count |-> 1]
      BY <2>4
    <3> HIDE DEF Next1
    <3> QED BY <1>1, <2>4, <3>1 DEF BurstRecord
  <2> QED BY <2>3, <2>4
<1>3. step \in [1..n -> [BurstRecord -> BurstRecord]]
  <2> HIDE DEF Next1
  <2> QED BY <1>2
<1>4. none \in BurstRecord
  BY DEF BurstRecord
<1>5. \A k \in 1..n, b \in BurstRecord : step[k][b] = Next1(k, b)
  <2> HIDE DEF Next1
  <2> QED OBVIOUS
<1> HIDE DEF step, none
<1>6. PICK g : Unfolding(g, n, BurstRecord, none, step)
  BY <1>3, <1>4, Unfolds
<1>7. /\ g \in [1..n -> BurstRecord]
      /\ \A k \in 1..n : g[k] = step[k][IF k = 1 THEN none ELSE g[k-1]]
  BY <1>6, Zenon DEF Unfolding
<1>8. ASSUME NEW k \in 1..n PROVE g[k] = Next1(k, g[k-1])
  <2>1. CASE k = 1
    <3>1. g[k] = Next1(k, none)
      <4> HIDE DEF Next1
      <4> QED BY <1>4, <1>5, <1>7, <2>1
    <3>2. ~(k > 1)
      BY <2>1
    <3> QED BY <3>1, <3>2
  <2>2. CASE k # 1
    <3>1. g[k-1] \in BurstRecord
      BY <1>7, <2>2
    <3> HIDE DEF Next1
    <3> QED BY <1>5, <1>7, <2>2, <3>1
  <2> QED BY <2>1, <2>2
<1>9. Is(g)
  <2>1. g = [k \in 1..n |-> g[k]]
    BY <1>7
  <2> QED BY <1>1, <1>8, <2>1
<1> DEFINE b == CHOOSE x : Is(x)
<1>10. Is(b)
  <2> HIDE DEF Is
  <2> QED BY <1>9
<1>11. BurstsSoFar(s) = b
  BY DEF BurstsSoFar
<1> HIDE DEF b
<1>12. DOMAIN b = 1..n /\ \A k \in 1..n : b[k] = Next1(k, b[k-1])
  BY <1>1, <1>10
<1>13. b = [k \in 1..n |-> b[k]]
  BY <1>1, <1>10, <1>12
<1> HIDE DEF Is
<1> DEFINE U == {k \in 1..n : b[k] \notin BurstRecord}
<1>14. U = {}
  <2> SUFFICES ASSUME U # {} PROVE FALSE
    OBVIOUS
  <2>1. PICK m \in U : \A j \in U : m <= j
    <3>1. U \subseteq Nat
      OBVIOUS
    <3> HIDE DEF U
    <3> QED BY <3>1, Least
  <2>2. m \in 1..n /\ b[m] \notin BurstRecord
    BY <2>1
  <2>3. CASE m = 1
    <3>1. b[m] = [start |-> s[m], end |-> s[m], count |-> 1]
      BY <1>12, <2>2, <2>3
    <3> QED BY <1>1, <2>2, <3>1 DEF BurstRecord
  <2>4. CASE m # 1
    <3>1. m - 1 \in 1..n /\ m - 1 \notin U
      <4>1. m - 1 \in 1..n /\ ~(m <= m - 1)
        BY <2>2, <2>4
      <4> HIDE DEF U
      <4> QED BY <2>1, <4>1
    <3>2. b[m-1] \in BurstRecord
      BY <3>1
    <3> HIDE DEF Next1
    <3>3. Next1(m, b[m-1]) \in BurstRecord
      BY <1>2, <2>2, <3>2
    <3> QED BY <1>12, <2>2, <3>3
  <2> QED BY <2>3, <2>4
<1>15. \A k \in 1..n : b[k] \in BurstRecord
  BY <1>14
<1>16. b \in [1..n -> BurstRecord]
  BY <1>13, <1>15
<1>17. ASSUME NEW k \in 1..n
       PROVE  \/ /\ k > 1 /\ Joins(b[k-1], s[k])
                 /\ b[k].start = b[k-1].start /\ b[k].end = s[k] /\ b[k].count = b[k-1].count + 1
              \/ /\ k > 1 => ~Joins(b[k-1], s[k])
                 /\ b[k].start = s[k] /\ b[k].end = s[k] /\ b[k].count = 1
  <2>1. CASE k = 1
    <3>1. b[k] = [start |-> s[k], end |-> s[k], count |-> 1]
      BY <1>12, <2>1
    <3>2. ~(k > 1)
      BY <2>1
    <3> QED BY <3>1, <3>2
  <2>2. CASE k # 1
    <3>1. b[k-1] \in BurstRecord
      BY <1>15, <2>2
    <3>2. b[k] = Next1(k, b[k-1])
      BY <1>12
    <3> HIDE DEF Next1
    <3> QED BY <1>2, <3>1, <3>2
  <2> QED BY <2>1, <2>2
<1> QED
  BY <1>11, <1>16, <1>17

\* The place of the first error of the burst that each error is in.
BurstFirst(s) == [k \in DOMAIN s |-> k - BurstsSoFar(s)[k].count + 1]

\* detectErrorBursts strings the errors together, and counts those of each burst.
LEMMA BurstsAre ==
    ASSUME NEW n \in Nat, NEW s \in [1..n -> Nat], InOrder(s)
    PROVE  /\ Strung(n, s, BurstFirst(s))
           /\ \A k \in 1..n :
                  /\ BurstsSoFar(s)[k] \in BurstRecord
                  /\ BurstsSoFar(s)[k].count \in 1..k
                  /\ BurstsSoFar(s)[k].start = s[BurstFirst(s)[k]]
                  /\ BurstsSoFar(s)[k].end = s[k]
<1> DEFINE b == BurstsSoFar(s)
           f == BurstFirst(s)
<1>1. /\ b \in [1..n -> BurstRecord]
      /\ \A k \in 1..n :
             /\ b[k].end = s[k]
             /\ \/ /\ k > 1 /\ Joins(b[k-1], s[k])
                   /\ b[k].start = b[k-1].start
                   /\ b[k].count = b[k-1].count + 1
                \/ /\ k > 1 => ~Joins(b[k-1], s[k])
                   /\ b[k].start = s[k]
                   /\ b[k].count = 1
  BY BurstsUnfold
<1>2. \A k \in 1..n : f[k] = k - b[k].count + 1
  BY DEF BurstFirst
<1>3. f = [k \in 1..n |-> f[k]]
  BY DEF BurstFirst
<1>4. Gap \in Nat
  BY BurstOK
<1>5. \A i, j \in 1..n : i <= j => s[i] <= s[j]
  <2> TAKE i, j \in 1..n
  <2>1. i < j => s[i] <= s[j]
    BY DEF InOrder
  <2> QED BY <2>1
<1> HIDE DEF b, f
<1>6. \A k \in 1..n : b[k] \in BurstRecord /\ b[k].count \in Nat /\ b[k].start \in Nat
  BY <1>1 DEF BurstRecord
<1> DEFINE Good(k) == /\ 1 <= f[k] /\ f[k] <= k /\ f[k] \in 1..n
                      /\ b[k].count \in 1..k
                      /\ b[k].start = s[f[k]]
                      /\ \A m \in 1..n : f[k] <= m /\ m < k => s[m+1] - s[m] <= Gap
                      /\ f[k] > 1 => s[f[k]] - s[f[k] - 1] > Gap
           U == {k \in 1..n : ~Good(k)}
<1>7. U = {}
  <2> SUFFICES ASSUME U # {} PROVE FALSE
    OBVIOUS
  <2>1. PICK k \in U : \A j \in U : k <= j
    <3>1. U \subseteq Nat
      OBVIOUS
    <3> HIDE DEF U
    <3> QED BY <3>1, Least
  <2>2. k \in 1..n /\ ~Good(k)
    BY <2>1
  <2>3. k > 1 => k - 1 \in 1..n /\ Good(k - 1)
    <3> SUFFICES ASSUME k > 1 PROVE k - 1 \in 1..n /\ Good(k - 1)
      OBVIOUS
    <3>1. k - 1 \in 1..n /\ ~(k <= k - 1)
      <4>1. k \in 1..n
        BY <2>2
      <4> QED BY <4>1
    <3>2. k - 1 \notin U
      <4> HIDE DEF U
      <4> QED BY <2>1, <3>1
    <3> QED BY <3>1, <3>2
  <2>4. CASE /\ k > 1 => ~Joins(b[k-1], s[k])
             /\ b[k].start = s[k] /\ b[k].count = 1
    <3>1. f[k] = k
      BY <1>2, <2>2, <2>4
    <3>2. f[k] > 1 => s[k] - s[k-1] > Gap
      <4> SUFFICES ASSUME k > 1 PROVE s[k] - s[k-1] > Gap
        BY <3>1
      <4>1. PICK l \in 1..n : l = k - 1 /\ b[l].end = s[l]
        BY <1>1, <2>3
      <4>2. ~(s[k] - s[l] <= Gap) /\ s[k] \in Nat /\ s[l] \in Nat
        BY <2>2, <2>4, <4>1 DEF Joins
      <4> QED BY <1>4, <4>1, <4>2
    <3> QED BY <2>2, <2>4, <3>1, <3>2
  <2>5. CASE /\ k > 1 /\ Joins(b[k-1], s[k])
             /\ b[k].start = b[k-1].start /\ b[k].count = b[k-1].count + 1
    <3>1. PICK l \in 1..n : l = k - 1 /\ b[l].end = s[l] /\ Good(l)
      BY <1>1, <2>3, <2>5
    <3>2. s[k] - s[l] <= Gap
      BY <2>5, <3>1 DEF Joins
    <3>3. f[k] = f[l]
      <4>1. PICK c \in Nat : c = b[l].count
        BY <1>6
      <4>2. f[k] = k - (c + 1) + 1 /\ f[l] = l - c + 1
        BY <1>2, <2>2, <2>5, <3>1, <4>1
      <4> QED BY <2>2, <3>1, <4>2
    <3>4. /\ 1 <= f[k] /\ f[k] <= k /\ f[k] \in 1..n
          /\ b[k].start = s[f[k]]
          /\ f[k] > 1 => s[f[k]] - s[f[k] - 1] > Gap
      BY <2>2, <2>5, <3>1, <3>3
    <3>5. b[k].count \in 1..k
      <4>1. PICK c \in 1..l : c = b[l].count
        BY <3>1
      <4>2. b[k].count = c + 1
        BY <2>5, <3>1, <4>1
      <4>3. k \in 1..n /\ c + 1 \in 1..k
        BY <2>2, <3>1
      <4> QED BY <4>2, <4>3
    <3>6. ASSUME NEW m \in 1..n, f[k] <= m, m < k PROVE s[m+1] - s[m] <= Gap
      <4>1. CASE m = l
        <5>1. m + 1 = k
          BY <2>2, <3>1, <4>1
        <5> QED BY <3>2, <4>1, <5>1
      <4>2. CASE m # l
        <5>1. f[l] <= m /\ m < l
          BY <2>2, <3>1, <3>3, <3>6, <4>2
        <5> QED BY <3>1, <5>1
      <4> QED BY <4>1, <4>2
    <3> HIDE DEF U
    <3>7. Good(k)
      BY <3>4, <3>5, <3>6
    <3> QED BY <2>2, <3>7
  <2> QED BY <1>1, <2>2, <2>4, <2>5
<1>8. \A k \in 1..n : Good(k)
  BY <1>7
<1>9. f \in [1..n -> Nat]
  <2>1. \A k \in 1..n : f[k] \in Nat
    BY <1>8
  <2> QED BY <1>3, <2>1
<1>10. Strung(n, s, f)
  BY <1>5, <1>8, <1>9 DEF Strung
<1> QED
  BY <1>1, <1>6, <1>8, <1>10 DEF b, f

\* The times from a to b, and the property's words for a longest run of them.
QuietIn(s, a, b) == Inside(s, a, b) = {}
RunIn(s, a, b) ==
    /\ ~QuietIn(s, a, a) /\ ~QuietIn(s, b, b)
    /\ QuietIn(s, a - Gap, a - 1) /\ QuietIn(s, b + 1, b + Gap)
    /\ \A t \in a..(b - 1) : ~QuietIn(s, t, t) => ~QuietIn(s, t + 1, t + Gap)

\* A longest run of the sorted errors is one of the errors in the order they came in.
LEMMA RunMeans ==
    ASSUME NEW e \in Seq(Nat), NEW a \in Nat, NEW b \in Nat, a <= b
    PROVE  LongestRun(Len(e), Sorted(e), a, b) <=> RunIn(e, a, b)
<1> DEFINE n == Len(e)
           s == Sorted(e)
<1>1. \A x, y \in Int : QuietIn(e, x, y) <=> \A k \in 1..n : ~(x <= s[k] /\ s[k] <= y)
  BY SortedInside DEF QuietIn
<1>2. s \in [1..n -> Nat] /\ n \in Nat /\ Gap \in Nat
  BY SortedIs, LenProperties, BurstOK
<1> HIDE DEF n, s
<1>3. \A k \in 1..n : s[k] \in Nat
  BY <1>2
<1>4. \A t \in Nat : ~QuietIn(e, t, t) <=> \E k \in 1..n : s[k] = t
  <2> TAKE t \in Nat
  <2>1. QuietIn(e, t, t) <=> \A k \in 1..n : ~(t <= s[k] /\ s[k] <= t)
    BY <1>1
  <2>2. \A k \in 1..n : (t <= s[k] /\ s[k] <= t) <=> s[k] = t
    BY <1>3
  <2> QED BY <2>1, <2>2
<1>5. QuietIn(e, a - Gap, a - 1) <=> \A i \in 1..n : ~(a - Gap <= s[i] /\ s[i] <= a - 1)
  <2>1. a - Gap \in Int /\ a - 1 \in Int
    BY <1>2
  <2> QED BY <1>1, <2>1
<1>6. QuietIn(e, b + 1, b + Gap) <=> \A i \in 1..n : ~(b + 1 <= s[i] /\ s[i] <= b + Gap)
  <2>1. b + 1 \in Int /\ b + Gap \in Int
    BY <1>2
  <2> QED BY <1>1, <2>1
<1>7. \A t \in Nat : ~QuietIn(e, t + 1, t + Gap) <=> \E j \in 1..n : t + 1 <= s[j] /\ s[j] <= t + Gap
  <2> TAKE t \in Nat
  <2>1. t + 1 \in Int /\ t + Gap \in Int
    BY <1>2
  <2> QED BY <1>1, <2>1
<1>8. (\A t \in a..(b - 1) : ~QuietIn(e, t, t) => ~QuietIn(e, t + 1, t + Gap)) <=>
          \A i \in 1..n : a <= s[i] /\ s[i] <= b - 1 =>
              \E j \in 1..n : s[i] + 1 <= s[j] /\ s[j] <= s[i] + Gap
  <2>1. ASSUME \A t \in a..(b - 1) : ~QuietIn(e, t, t) => ~QuietIn(e, t + 1, t + Gap),
               NEW i \in 1..n, a <= s[i], s[i] <= b - 1
        PROVE  \E j \in 1..n : s[i] + 1 <= s[j] /\ s[j] <= s[i] + Gap
    <3>1. s[i] \in Nat /\ s[i] \in a..(b - 1)
      BY <1>3, <2>1
    <3>2. ~QuietIn(e, s[i], s[i])
      BY <1>4, <3>1
    <3> QED BY <1>7, <2>1, <3>1, <3>2
  <2>2. ASSUME \A i \in 1..n : a <= s[i] /\ s[i] <= b - 1 =>
                   \E j \in 1..n : s[i] + 1 <= s[j] /\ s[j] <= s[i] + Gap,
               NEW t \in a..(b - 1), ~QuietIn(e, t, t)
        PROVE  ~QuietIn(e, t + 1, t + Gap)
    <3>1. t \in Nat /\ a <= t /\ t <= b - 1
      OBVIOUS
    <3>2. PICK i \in 1..n : s[i] = t
      BY <1>4, <2>2, <3>1
    <3>3. \E j \in 1..n : t + 1 <= s[j] /\ s[j] <= t + Gap
      BY <2>2, <3>1, <3>2
    <3> QED BY <1>7, <3>1, <3>3
  <2> QED BY <2>1, <2>2
<1>9. /\ ~QuietIn(e, a, a) <=> \E i \in 1..n : s[i] = a
      /\ ~QuietIn(e, b, b) <=> \E i \in 1..n : s[i] = b
  BY <1>4
<1>10. LongestRun(n, s, a, b) <=> RunIn(e, a, b)
  <2> HIDE <1>1, <1>4, <1>7
  <2> QED BY <1>5, <1>6, <1>8, <1>9 DEF LongestRun, RunIn
<1> QED
  BY <1>10 DEF n, s

\* A burst that is done is a longest run, and has counted its errors.
LEMMA BurstCounts ==
    ASSUME NEW e \in Seq(Nat), NEW n, n = Len(e), NEW s, s = Sorted(e), NEW k \in 1..n,
           k = n \/ s[k+1] - s[k] > Gap
    PROVE  LET b == BurstsSoFar(s)[k]
           IN  /\ b \in [start : Nat, end : Nat, count : 1..n]
               /\ b.start <= b.end /\ LongestRun(n, s, b.start, b.end)
               /\ b.start = s[BurstFirst(s)[k]] /\ b.end = s[k]
               /\ b.count = Cardinality(Inside(e, b.start, b.end))
<1> DEFINE b == BurstsSoFar(s)[k]
           f == BurstFirst(s)
<1>1. n \in Nat /\ s \in [1..n -> Nat] /\ InOrder(s)
  BY SortedIs, LenProperties
<1>2. /\ Strung(n, s, f)
      /\ b \in BurstRecord /\ b.count \in 1..k /\ b.start = s[f[k]] /\ b.end = s[k]
  BY <1>1, BurstsAre
<1>3. f[k] = k - b.count + 1
  BY <1>1 DEF BurstFirst
<1> HIDE DEF b, f
<1>4. /\ LongestRun(n, s, b.start, b.end)
      /\ \A i \in 1..n : b.start <= s[i] /\ s[i] <= b.end <=> f[k] <= i /\ i <= k
  BY <1>1, <1>2, BurstIsRun
<1>5. f[k] \in 1..n /\ f[k] <= k /\ b.start \in Nat /\ b.end \in Nat
  BY <1>1, <1>2 DEF Strung, BurstRecord
<1>6. Inside(s, b.start, b.end) = f[k]..k
  <2>1. \A i \in 1..n : s[i] \in b.start..b.end <=> b.start <= s[i] /\ s[i] <= b.end
    <3>1. \A i \in 1..n : s[i] \in Nat
      BY <1>1
    <3>2. \A x, y, z \in Nat : z \in x..y <=> x <= z /\ z <= y
      OBVIOUS
    <3> QED BY <1>5, <3>1, <3>2
  <2>2. f[k]..k \subseteq 1..n /\ \A i \in 1..n : i \in f[k]..k <=> f[k] <= i /\ i <= k
    <3>1. PICK l \in 1..n : l = f[k]
      BY <1>5
    <3>2. l..k \subseteq 1..n /\ \A i \in 1..n : i \in l..k <=> l <= i /\ i <= k
      BY <1>1
    <3> QED BY <3>1, <3>2
  <2>3. DOMAIN s = 1..n
    BY <1>1
  <2> QED BY <1>4, <2>1, <2>2, <2>3 DEF Inside
<1>7. Cardinality(f[k]..k) = k - f[k] + 1
  <2>1. PICK l \in 1..n : l = f[k] /\ l <= k
    BY <1>5
  <2>2. l \in Int /\ k \in Int /\ ~(l > k)
    BY <1>1, <2>1
  <2>3. Cardinality(l..k) = k - l + 1
    BY <2>2, FS_Interval
  <2> QED BY <2>1, <2>3
<1>8. k - f[k] + 1 = b.count
  <2>1. PICK c \in Nat : c = b.count
    BY <1>2
  <2>2. f[k] = k - c + 1 /\ k \in Nat
    BY <1>1, <1>3, <2>1
  <2> QED BY <2>1, <2>2
<1>9. b.count = Cardinality(Inside(e, b.start, b.end))
  <2>1. Cardinality(Inside(e, b.start, b.end)) = Cardinality(Inside(s, b.start, b.end))
    BY <1>5, SortedInside
  <2> QED BY <1>6, <1>7, <1>8, <2>1
<1>10. b \in [start : Nat, end : Nat, count : 1..n]
  <2>1. b.count \in 1..n
    BY <1>1, <1>2
  <2> QED BY <1>2, <2>1 DEF BurstRecord
<1>11. b.start <= b.end
  BY <1>4 DEF LongestRun
<1> QED
  BY <1>2, <1>4, <1>9, <1>10, <1>11 DEF b, f

\* The bursts are the longest runs: what counts them up is where one ends.
LEMMA BurstsHold ==
    ASSUME Asked("errors") => question.input \in Seq(Nat)
    PROVE  BurstsMaximal
<1> SUFFICES ASSUME Asked("errors")
             PROVE  LET errors == question.input
                        times == {errors[i] : i \in DOMAIN errors}
                    IN  DetectErrorBursts(errors) =
                            {b \in [start : times, end : times, count : Burst..Len(errors)] :
                                /\ b.start <= b.end
                                /\ RunIn(errors, b.start, b.end)
                                /\ b.count = Cardinality(Inside(errors, b.start, b.end))}
  BY Zenon DEF BurstsMaximal, RunIn, QuietIn, Inside
<1> DEFINE e == question.input
           n == Len(e)
           s == Sorted(e)
           times == {e[i] : i \in DOMAIN e}
           f == BurstFirst(s)
           Done(k) == k = n \/ s[k+1] - s[k] > Gap
           Right == {b \in [start : times, end : times, count : Burst..n] :
                        /\ b.start <= b.end
                        /\ RunIn(e, b.start, b.end)
                        /\ b.count = Cardinality(Inside(e, b.start, b.end))}
<1>1. e \in Seq(Nat)
  OBVIOUS
<1>2. n \in Nat /\ DOMAIN e = 1..n /\ e \in [1..n -> Nat]
  BY LenProperties
<1>3. s \in [1..n -> Nat] /\ InOrder(s)
  BY SortedIs
<1>4. PICK p \in Bijection(1..n, 1..n) : s = [i \in 1..n |-> e[p[i]]]
  BY SortedIs
<1>5. Gap \in Nat /\ Burst \in Nat
  BY BurstOK
<1>6. Len(s) = n /\ DOMAIN s = 1..n
  <2> HIDE DEF n, s
  <2> QED BY <1>2, <1>3, LenProperties, SeqDef
<1>7. /\ Strung(n, s, f)
      /\ \A k \in 1..n : BurstsSoFar(s)[k].end = s[k]
  BY <1>2, <1>3, BurstsAre
<1>8. DetectErrorBursts(e) =
          {BurstsSoFar(s)[k] : k \in {i \in 1..n : Done(i) /\ BurstsSoFar(s)[i].count >= Burst}}
  <2>1. \A k \in 1..n : ~Joins(BurstsSoFar(s)[k], s[k+1]) <=> ~(s[k+1] - s[k] <= Gap)
    BY <1>7 DEF Joins
  <2>2. \A k \in 1..n : (k = Len(s) \/ ~Joins(BurstsSoFar(s)[k], s[k+1])) <=> Done(k)
    <3> TAKE k \in 1..n
    <3>1. CASE k = n
      BY <1>6, <3>1
    <3>2. CASE k # n
      <4>1. PICK m \in 1..n : m = k + 1
        BY <1>2, <3>2
      <4>2. s[m] \in Nat /\ s[k] \in Nat
        BY <1>3
      <4>5. \A x, y, gap \in Nat : ~(x - y <= gap) <=> x - y > gap
        OBVIOUS
      <4>3. ~(s[m] - s[k] <= Gap) <=> s[m] - s[k] > Gap
        BY <1>5, <4>2, <4>5
      <4> QED BY <1>6, <2>1, <3>2, <4>1, <4>3
    <3> QED BY <3>1, <3>2
  <2> HIDE DEF Done
  <2> QED BY <1>6, <2>2 DEF DetectErrorBursts
<1>14. n = Len(e) /\ s = Sorted(e) /\ f = BurstFirst(s)
  OBVIOUS
<1> HIDE DEF n, s, f, e
<1>9. \A t \in times : t \in Nat
  BY <1>2
<1>10. \A k \in 1..n : s[k] \in times
  <2> TAKE k \in 1..n
  <2>1. p[k] \in 1..n
    <3>1. p \in [1..n -> 1..n]
      BY <1>4 DEF Bijection, Injection, IsInjective
    <3> QED BY <3>1
  <2> QED BY <1>2, <1>4, <2>1
<1> HIDE DEF times
<1>11. ASSUME NEW k \in 1..n, Done(k), BurstsSoFar(s)[k].count >= Burst
       PROVE  BurstsSoFar(s)[k] \in Right
  <2> DEFINE b == BurstsSoFar(s)[k]
  <2>1. /\ b \in [start : Nat, end : Nat, count : 1..n]
        /\ b.start <= b.end /\ LongestRun(n, s, b.start, b.end)
        /\ b.start = s[f[k]] /\ b.end = s[k]
        /\ b.count = Cardinality(Inside(e, b.start, b.end))
    BY <1>1, <1>11, BurstCounts DEF n, s, f
  <2>2. b.start \in times /\ b.end \in times
    <3>1. f[k] \in 1..n
      BY <1>2, <1>7 DEF Strung
    <3> QED BY <1>10, <2>1, <3>1
  <2>3. b.start \in Nat /\ b.end \in Nat
    BY <2>1
  <2>4. RunIn(e, b.start, b.end)
    BY <1>1, <2>1, <2>3, RunMeans DEF n, s
  <2>5. b \in [start : times, end : times, count : Burst..n]
    <3>1. b.count \in Burst..n
      BY <1>2, <1>5, <1>11, <2>1
    <3> HIDE DEF b
    <3> QED BY <2>1, <2>2, <3>1
  <2> HIDE DEF b
  <2>6. b \in Right
    BY <2>1, <2>4, <2>5
  <2> QED BY <2>6 DEF b
<1>12. ASSUME NEW r \in Right
       PROVE  \E k \in 1..n : Done(k) /\ BurstsSoFar(s)[k].count >= Burst /\ r = BurstsSoFar(s)[k]
  <2>1. /\ r.start \in times /\ r.end \in times /\ r.count \in Burst..n
        /\ r.start <= r.end /\ RunIn(e, r.start, r.end)
        /\ r.count = Cardinality(Inside(e, r.start, r.end))
        /\ r = [start |-> r.start, end |-> r.end, count |-> r.count]
    OBVIOUS
  <2>2. r.start \in Nat /\ r.end \in Nat
    BY <1>9, <2>1
  <2>3. LongestRun(n, s, r.start, r.end)
    BY <1>1, <2>1, <2>2, RunMeans DEF n, s
  <2>4. PICK k \in 1..n : (k = n \/ s[k+1] - s[k] > Gap) /\ s[k] = r.end /\ s[f[k]] = r.start
    <3>1. Strung(n, s, f) /\ n \in Nat
      BY <1>2, <1>7
    <3> QED BY <2>2, <2>3, <3>1, RunIsBurst
  <2> DEFINE b == BurstsSoFar(s)[k]
  <2>5. /\ b \in [start : Nat, end : Nat, count : 1..n]
        /\ b.start = s[f[k]] /\ b.end = s[k]
        /\ b.count = Cardinality(Inside(e, b.start, b.end))
    <3>1. k = n \/ s[k+1] - s[k] > Gap
      BY <2>4
    <3> QED BY <1>1, <1>14, <3>1, BurstCounts
  <2> HIDE DEF b
  <2>6. b.start = r.start /\ b.end = r.end
    BY <2>4, <2>5
  <2>7. b.count = r.count
    BY <2>1, <2>5, <2>6
  <2>8. b = [start |-> b.start, end |-> b.end, count |-> b.count]
    BY <2>5
  <2>9. r = b
    BY <2>1, <2>6, <2>7, <2>8
  <2>10. b.count >= Burst
    BY <1>5, <2>1, <2>7
  <2> QED BY <2>4, <2>9, <2>10 DEF b
<1>13. DetectErrorBursts(e) = Right
  <2> HIDE DEF Done, Right
  <2> QED BY <1>8, <1>11, <1>12
<1> QED
  BY <1>13 DEF e, times, n

-----------------------------------------------------------------------------
(* What is asked for is what the calculation is for, so that each is right. *)

InputOK ==
    /\ Asked("arrivals") => question.input \in Seq(Nat) /\ InOrder(question.input)
    /\ Asked("rtts") => question.input \in Seq(Nat) \ {<<>>}
    /\ Asked("pings") => question.input \in Seq(Ping)
    /\ Asked("errors") => question.input \in Seq(Nat)
    /\ Asked("analysis") => question.input \in Analyses
    /\ Asked("schedule") => question.input \in Schedules

\* An input of bounded length is a sequence of any wider set.
LEMMA SeqsAreSeqs ==
    ASSUME NEW S, NEW T, S \subseteq T, NEW n \in Nat, NEW s \in SeqsUpTo(S, n)
    PROVE  s \in Seq(T)
<1>1. PICK k \in 0..n : s \in [1..k -> S]
  BY DEF SeqsUpTo
<1>2. s \in [1..k -> T] /\ k \in Nat
  BY <1>1
<1> QED
  BY <1>2, SeqDef

\* Nothing is asked for at first, and inputs stay of their kinds.
LEMMA InputInit ==
    ASSUME Init
    PROVE  InputOK
  BY DEF Init, NoQuestion, InputOK, Asked

\* Every question that is asked has an input of its kind.
LEMMA InputStep ==
    ASSUME InputOK, [Next]_vars
    PROVE  InputOK'
<1>1. CASE UNCHANGED question
  BY <1>1 DEF InputOK, Asked
<1>2. CASE Answered
  BY <1>2 DEF Answered, NoQuestion, InputOK, Asked
<1>3. CASE AskAnything
  <2>0. Window \in Nat /\ MaxRequests \in Nat /\ Gap \in Nat /\ MaxInput \in Nat
    BY LimiterOK, BurstOK, InputsOK
  <2>1. ASSUME NEW a \in SeqsUpTo(0..(2 * Window + 1), 2 * MaxRequests + 1), InOrder(a),
               Ask("arrivals", a)
        PROVE  InputOK'
    <3>1. a \in Seq(Nat)
      <4>1. 0..(2 * Window + 1) \subseteq Nat /\ 2 * MaxRequests + 1 \in Nat
        BY <2>0
      <4> QED BY <4>1, SeqsAreSeqs
    <3>2. question' = [kind |-> "arrivals", input |-> a]
      BY <2>1 DEF Ask
    <3> QED BY <2>1, <3>1, <3>2 DEF InputOK, Asked, InOrder
  <2>2. ASSUME NEW rtts \in SeqsUpTo(1..3, MaxInput) \ {<<>>}, Ask("rtts", rtts)
        PROVE  InputOK'
    <3>1. rtts \in Seq(Nat) \ {<<>>}
      <4>1. 1..3 \subseteq Nat
        OBVIOUS
      <4> QED BY <2>0, <4>1, SeqsAreSeqs
    <3>2. question' = [kind |-> "rtts", input |-> rtts]
      BY <2>2 DEF Ask
    <3> QED BY <3>1, <3>2 DEF InputOK, Asked
  <2>3. ASSUME NEW pings \in SeqsUpTo(Ping, MaxInput), Ask("pings", pings)
        PROVE  InputOK'
    <3>1. pings \in Seq(Ping)
      BY <2>0, SeqsAreSeqs
    <3>2. question' = [kind |-> "pings", input |-> pings]
      BY <2>3 DEF Ask
    <3> QED BY <3>1, <3>2 DEF InputOK, Asked
  <2>4. ASSUME NEW errors \in SeqsUpTo(0..(2 * Gap + 1), MaxInput), Ask("errors", errors)
        PROVE  InputOK'
    <3>1. errors \in Seq(Nat)
      <4>1. 0..(2 * Gap + 1) \subseteq Nat
        BY <2>0
      <4> QED BY <2>0, <4>1, SeqsAreSeqs
    <3>2. question' = [kind |-> "errors", input |-> errors]
      BY <2>4 DEF Ask
    <3> QED BY <3>1, <3>2 DEF InputOK, Asked
  <2>5. ASSUME NEW data \in Analyses, Ask("analysis", data)
        PROVE  InputOK'
    BY <2>5 DEF Ask, InputOK, Asked
  <2>6. ASSUME NEW schedule \in Schedules, Ask("schedule", schedule)
        PROVE  InputOK'
    BY <2>6 DEF Ask, InputOK, Asked
  <2> QED
    BY <1>3, <2>1, <2>2, <2>3, <2>4, <2>5, <2>6 DEF AskAnything
<1>4. UNCHANGED question \/ Answered \/ AskAnything
  <2>1. CASE Calculate
    BY <2>1 DEF Calculate
  <2>2. CASE UNCHANGED vars
    BY <2>2 DEF vars
  <2>3. CASE Open
    BY <2>3 DEF Open
  <2>4. CASE MeAnswered
    BY <2>4 DEF MeAnswered
  <2>5. CASE MeFails
    BY <2>5 DEF MeFails
  <2>6. CASE SignIn
    BY <2>6 DEF SignIn
  <2>7. CASE SessionEnds
    BY <2>7 DEF SessionEnds, browser
  <2>8. CASE SignOut
    BY <2>8 DEF SignOut
  <2>9. CASE Poll
    BY <2>9 DEF Poll
  <2>10. CASE StartTest
    BY <2>10 DEF StartTest
  <2>11. CASE TestStarted
    BY <2>11 DEF TestStarted
  <2>12. CASE TestRefused
    BY <2>12 DEF TestRefused
  <2>13. CASE TestStored
    BY <2>13 DEF TestStored, browser
  <2>14. CASE Enter
    BY <2>14 DEF Enter
  <2>15. CASE Leave
    BY <2>15 DEF Leave
  <2>16. CASE RefreshAnalysis
    BY <2>16 DEF RefreshAnalysis
  <2>17. CASE \E q \in requests : Answer(q)
    BY <2>17 DEF Answer
  <2>18. CASE \E q \in requests : AnswerLost(q)
    BY <2>18 DEF AnswerLost
  <2>19. CASE \E id \in Timers : Tick(id)
    BY <2>19 DEF Tick
  <2>20. CASE \E r \in Ranges : SelectRange(r)
    BY <2>20 DEF SelectRange
  <2>21. CASE \E tab \in {"overview", "analysis"} : SelectTab(tab)
    BY <2>21 DEF SelectTab
  <2>22. CASE \E i \in 1..InFlight : AnalysisAnswered(i)
    BY <2>22 DEF AnalysisAnswered
  <2>23. CASE \E i \in 1..InFlight : AnalysisFails(i)
    BY <2>23 DEF AnalysisFails
  <2> QED
    BY <2>1, <2>2, <2>3, <2>4, <2>5, <2>6, <2>7, <2>8, <2>9, <2>10, <2>11, <2>12,
       <2>13, <2>14, <2>15, <2>16, <2>17, <2>18, <2>19, <2>20, <2>21, <2>22, <2>23 DEF Next
<1> QED
  BY <1>1, <1>2, <1>3, <1>4

\* The rate limiter of /api (rate-limit.ts) keeps its promise in every stretch of time.
THEOREM LimiterIsBounded == Spec => []LimiterBound
<1>1. Init => InputOK
  BY InputInit
<1>2. InputOK /\ [Next]_vars => InputOK'
  BY InputStep
<1>3. InputOK => LimiterBound
  BY LimiterHolds DEF InputOK
<1> QED
  BY <1>1, <1>2, <1>3, PTL DEF Spec

\* Percentiles, loss, error bursts, findings and the windows of the digests are right.
THEOREM CalculationsAreRight == Spec => []CalculationsRight
<1>1. Init => InputOK
  BY InputInit
<1>2. InputOK /\ [Next]_vars => InputOK'
  BY InputStep
<1>3. InputOK => CalculationsRight
  BY PercentilesHold, LossHolds, BurstsHold, HealthyHolds, DigestsHold DEF InputOK, CalculationsRight
<1> QED
  BY <1>1, <1>2, <1>3, PTL DEF Spec

-----------------------------------------------------------------------------
(* The browser: types.                                                      *)

Page == [range : Ranges \cup {None}, count : 0..(MaxTests + Older), running : BOOLEAN,
         base : 0..(MaxTests + Older), post : 0..MaxPosts, poll : Timers \cup {0},
         timers : SUBSET [id : Timers, attempts : 0..Attempts]]
Analysis == [tab : {"overview", "analysis"}, asked : Seq(Ranges),
             shown : Ranges \cup {None}, muddled : BOOLEAN]

\* A page just entered has no intervals, and no analysis.
LEMMA FreshIs ==
    Fresh \in Page /\ Fresh.timers = {} /\ Fresh.post = 0
  BY DashboardOK DEF DashboardOK, Fresh, Page, Ranges, None

\* Without an analysis the overview is selected.
LEMMA NoAnalysisIs ==
    NoAnalysis \in Analysis /\ NoAnalysis.tab = "overview"
  BY DEF NoAnalysis, Analysis, None

\* What stopPolling and an answer do to the page.
LEMMA StoppedIs ==
    ASSUME NEW p \in Page
    PROVE  /\ Stopped(p) \in Page
           /\ Stopped(p).timers = {t \in p.timers : t.id # p.poll}
           /\ Stopped(p).running = FALSE /\ Stopped(p).post = p.post
<1>1. PICK b : b = {t \in p.timers : t.id # p.poll}
  OBVIOUS
<1>2. Stopped(p) = [p EXCEPT !.timers = b, !.poll = 0, !.running = FALSE, !.base = 0]
  BY <1>1 DEF Stopped
<1>3. b \in SUBSET [id : Timers, attempts : 0..Attempts]
  BY <1>1 DEF Page
<1>4. 0 \in 0..(MaxTests + Older) /\ 0 \in Timers \cup {0}
  BY DashboardOK DEF DashboardOK
<1>5. PICK q : q = Stopped(p)
  OBVIOUS
<1>6. q \in Page /\ q.timers = b /\ q.running = FALSE /\ q.post = p.post
  BY <1>2, <1>3, <1>4, <1>5 DEF Page
<1> QED
  BY <1>1, <1>5, <1>6

\* An answer that is shown leaves the intervals as they are.
LEMMA ShownIs ==
    ASSUME NEW p \in Page, NEW q \in Request
    PROVE  /\ Shown(p, q) \in Page
           /\ Shown(p, q).timers = p.timers /\ Shown(p, q).poll = p.poll
           /\ Shown(p, q).running = p.running /\ Shown(p, q).post = p.post
<1>1. PICK r : r = Shown(p, q)
  OBVIOUS
<1>2. q.range \in Ranges \cup {None} /\ q.count \in 0..(MaxTests + Older)
  BY DEF Request
<1>3. r = [p EXCEPT !.range = q.range, !.count = q.count]
  BY <1>1 DEF Shown
<1>4. /\ r \in Page
      /\ r.timers = p.timers /\ r.poll = p.poll /\ r.running = p.running /\ r.post = p.post
  BY <1>2, <1>3 DEF Page
<1> QED
  BY <1>1, <1>4

\* A poll is a request.
LEMMA AskedIs ==
    ASSUME TypeOK, NEW r \in Ranges
    PROVE  AskedFor(r) \in Request
<1>1. Stored(r) \in 0..(MaxTests + Older) /\ 0 \in 0..(MaxTests + Older)
  BY DashboardOK DEF DashboardOK, TypeOK, Stored
<1> QED
  BY <1>1 DEF AskedFor, Request, Ranges, TypeOK

\* Fetching asks last for the range, and clears the mark when nothing else is asked for.
LEMMA FetchedIs ==
    ASSUME NEW a \in Analysis, NEW r \in Ranges
    PROVE  /\ Fetched(a, r) \in Analysis
           /\ Fetched(a, r).tab = a.tab /\ Fetched(a, r).shown = a.shown
           /\ Fetched(a, r).asked = Append(a.asked, r)
           /\ Fetched(a, r).muddled = (a.asked # <<>> /\ a.muddled)
<1>1. PICK f : f = Fetched(a, r)
  OBVIOUS
<1>2. PICK l : l = Append(a.asked, r)
  OBVIOUS
<1>3. PICK m \in BOOLEAN : m = (a.asked # <<>> /\ a.muddled)
  OBVIOUS
<1>4. f = [a EXCEPT !.asked = l, !.muddled = m]
  BY <1>1, <1>2, <1>3 DEF Fetched
<1>5. l \in Seq(Ranges)
  BY <1>2, AppendProperties DEF Analysis
<1>6. f \in Analysis /\ f.tab = a.tab /\ f.shown = a.shown /\ f.asked = l /\ f.muddled = m
  BY <1>4, <1>5 DEF Analysis
<1> QED
  BY <1>1, <1>2, <1>3, <1>6

\* A sequence without one of its elements ends as before, unless the last is taken.
LEMMA Removed ==
    ASSUME NEW S, NEW s \in Seq(S), NEW i \in DOMAIN s
    PROVE  /\ RemoveAt(s, i) \in Seq(S)
           /\ Len(RemoveAt(s, i)) = Len(s) - 1
           /\ i # Len(s) => RemoveAt(s, i) # <<>>
                            /\ RemoveAt(s, i)[Len(RemoveAt(s, i))] = s[Len(s)]
           /\ RemoveAt(s, i) = <<>> => Len(s) = 1 /\ i = 1
<1> DEFINE n == Len(s)
           head == SubSeq(s, 1, i - 1)
           tail == SubSeq(s, i + 1, n)
<1>1. n \in Nat /\ i \in 1..n /\ i \in Nat /\ DOMAIN s = 1..n /\ \A j \in 1..n : s[j] \in S
  BY LenProperties, ElementOfSeq
<1>2. head \in Seq(S) /\ Len(head) = i - 1
  <2>1. \A j \in 1..(i - 1) : s[j] \in S
    BY <1>1
  <2>2. Len(head) = IF 1 <= i - 1 THEN i - 1 - 1 + 1 ELSE 0
    BY <1>1, <2>1, SubSeqProperties
  <2>3. head \in Seq(S)
    BY <1>1, <2>1, SubSeqProperties
  <2> HIDE DEF n, head
  <2> QED BY <1>1, <2>2, <2>3
<1>3. tail \in Seq(S) /\ Len(tail) = n - i /\ \A j \in 1..(n - i) : tail[j] = s[i + j]
  <2>1. \A j \in (i + 1)..n : s[j] \in S
    BY <1>1
  <2>2. /\ tail \in Seq(S)
        /\ Len(tail) = IF i + 1 <= n THEN n - (i + 1) + 1 ELSE 0
        /\ \A j \in 1..(n - (i + 1) + 1) : tail[j] = s[(i + 1) + j - 1]
    BY <1>1, <2>1, SubSeqProperties
  <2> HIDE DEF n, tail
  <2>3. n - (i + 1) + 1 = n - i /\ \A j \in 1..(n - i) : (i + 1) + j - 1 = i + j
    BY <1>1
  <2> QED BY <1>1, <2>2, <2>3
<1> DEFINE rest == head \o tail
<1>4. RemoveAt(s, i) = rest
  BY DEF RemoveAt
<1>5. /\ rest \in Seq(S)
      /\ Len(rest) = Len(head) + Len(tail)
      /\ \A j \in 1..(Len(head) + Len(tail)) :
             rest[j] = IF j <= Len(head) THEN head[j] ELSE tail[j - Len(head)]
  <2> HIDE DEF head, tail
  <2> QED BY <1>2, <1>3, ConcatProperties
<1> HIDE DEF n, head, tail, rest
<1>6. Len(rest) = n - 1 /\ n - 1 \in Nat
  BY <1>1, <1>2, <1>3, <1>5
<1>7. ASSUME i # n PROVE rest # <<>> /\ rest[n - 1] = s[n]
  <2>1. n - 1 >= 1 /\ n - 1 \in 1..(Len(head) + Len(tail)) /\ ~(n - 1 <= Len(head))
        /\ n - 1 - Len(head) = n - i /\ n - i \in 1..(n - i) /\ i + (n - i) = n
    BY <1>1, <1>2, <1>3, <1>7
  <2>2. rest[n - 1] = tail[n - i]
    BY <1>5, <2>1
  <2>3. tail[n - i] = s[n]
    BY <1>3, <2>1
  <2>4. Len(rest) # 0
    BY <1>6, <2>1
  <2> QED BY <2>2, <2>3, <2>4, EmptySeq
<1>8. rest = <<>> => n = 1 /\ i = 1
  <2> SUFFICES ASSUME rest = <<>> PROVE n = 1 /\ i = 1
    OBVIOUS
  <2>1. Len(rest) = 0
    BY EmptySeq
  <2> QED BY <1>1, <1>6, <2>1
<1> QED
  BY <1>4, <1>5, <1>6, <1>7, <1>8 DEF n

\* The interval of a speed test that the server takes.
LEMMA StartedIs ==
    ASSUME page \in Page, TestStarted
    PROVE  /\ page' \in Page /\ page'.post = page.post - 1
           /\ page'.running = page.running
           /\ page'.poll \in Timers
           /\ page'.timers = page.timers \cup {[id |-> page'.poll, attempts |-> 0]}
<1> DEFINE free == {id \in Timers : \A t \in page.timers : t.id # id}
           id == CHOOSE i \in free : \A j \in free : i <= j
<1>1. free # {}
  BY DEF TestStarted
<1>2. id \in free
  <2>1. free \subseteq Nat
    BY DashboardOK DEF DashboardOK
  <2> HIDE DEF free
  <2>2. \E i \in free : \A j \in free : i <= j
    BY <1>1, <2>1, Least
  <2> QED BY <2>2
<1>3. PICK b : b = page.timers \cup {[id |-> id, attempts |-> 0]}
  OBVIOUS
<1>4. page' = [page EXCEPT !.post = @ - 1, !.poll = id, !.timers = b]
  BY <1>3 DEF TestStarted
<1>5. id \in Timers
  BY <1>2
<1> HIDE DEF id, free
<1>6. b \in SUBSET [id : Timers, attempts : 0..Attempts]
  <2>1. 0 \in 0..Attempts
    BY DashboardOK DEF DashboardOK
  <2> QED BY <1>3, <1>5, <2>1 DEF Page
<1>8. PICK k : k = page.post - 1
  OBVIOUS
<1>9. k \in 0..MaxPosts
  BY <1>8, DashboardOK DEF DashboardOK, TestStarted, Page
<1>10. page' = [page EXCEPT !.post = k, !.poll = id, !.timers = b]
  BY <1>4, <1>8
<1>7. /\ page' \in Page /\ page'.post = page.post - 1 /\ page'.running = page.running
      /\ page'.poll = id /\ page'.timers = b
  BY <1>5, <1>6, <1>8, <1>9, <1>10 DEF Page
<1> QED
  BY <1>3, <1>5, <1>7

\* An interval that fires counts, and the last attempt stops what pollRef holds.
LEMMA TickIs ==
    ASSUME page \in Page, NEW id \in Timers, Tick(id)
    PROVE  /\ page' \in Page
           /\ \E t \in page.timers, n \in 0..Attempts, p \in Page :
                  /\ t.id = id
                  /\ n = Counted(t.attempts)
                  /\ p.timers = (page.timers \ {t}) \cup {[id |-> id, attempts |-> n]}
                  /\ p.poll = page.poll /\ p.running = page.running /\ p.post = page.post
                  /\ page' = IF n >= Attempts THEN Stopped(p) ELSE p
                  /\ overtaken' = (overtaken \/ (n >= Attempts /\ page.post > 0))
<1>1. PICK t \in page.timers :
          /\ t.id = id
          /\ LET n == Counted(t.attempts)
                 counted == [page EXCEPT !.timers =
                                (@ \ {t}) \cup {[id |-> id, attempts |-> n]}]
             IN  /\ page' = IF Exhausted(n) THEN Stopped(counted) ELSE counted
                 /\ overtaken' = (overtaken \/ (Exhausted(n) /\ page.post > 0))
  BY DEF Tick
<1>2. t.attempts \in 0..Attempts /\ Attempts \in Nat
  BY DashboardOK DEF DashboardOK, Page
<1>3. PICK n \in 0..Attempts : n = Counted(t.attempts)
  BY <1>2 DEF Counted
<1>4. PICK b : b = (page.timers \ {t}) \cup {[id |-> id, attempts |-> n]}
  OBVIOUS
<1>5. b \in SUBSET [id : Timers, attempts : 0..Attempts]
  BY <1>4 DEF Page
<1>6. PICK p : p = [page EXCEPT !.timers = b]
  OBVIOUS
<1>7. p \in Page /\ p.timers = b /\ p.poll = page.poll /\ p.running = page.running /\ p.post = page.post
  BY <1>5, <1>6 DEF Page
<1>8. /\ page' = IF n >= Attempts THEN Stopped(p) ELSE p
      /\ overtaken' = (overtaken \/ (n >= Attempts /\ page.post > 0))
  BY <1>1, <1>3, <1>4, <1>6 DEF Exhausted
<1>9. page' \in Page
  BY <1>7, <1>8, StoppedIs
<1> QED
  BY <1>1, <1>3, <1>4, <1>7, <1>8, <1>9

\* Selecting the analysis asks for the range.
LEMMA TabIs ==
    ASSUME analysis \in Analysis, range \in Ranges, NEW tab \in {"overview", "analysis"}, SelectTab(tab)
    PROVE  /\ analysis' \in Analysis /\ analysis'.tab = tab
           /\ tab = "analysis" => analysis'.asked = Append(analysis.asked, range)
<1>1. PICK a : a = [analysis EXCEPT !.tab = tab]
  OBVIOUS
<1>2. a \in Analysis /\ a.tab = tab /\ a.asked = analysis.asked
  BY <1>1 DEF Analysis
<1>3. CASE tab = "analysis"
  <2>1. analysis' = Fetched(a, range)
    BY <1>1, <1>3 DEF SelectTab
  <2> QED BY <1>2, <2>1, FetchedIs
<1>4. CASE tab # "analysis"
  <2>1. analysis' = [analysis EXCEPT !.tab = tab, !.shown = None]
    BY <1>4 DEF SelectTab
  <2> QED BY <1>4, <2>1 DEF Analysis
<1> QED
  BY <1>3, <1>4

\* What an answer of the analysis, and a failure, leave.
LEMMA AnsweredIs ==
    ASSUME analysis \in Analysis, NEW i, AnalysisAnswered(i)
    PROVE  /\ analysis' \in Analysis /\ i \in DOMAIN analysis.asked
           /\ analysis'.tab = analysis.tab
           /\ analysis'.asked = RemoveAt(analysis.asked, i) /\ analysis'.shown = analysis.asked[i]
           /\ analysis'.muddled = (analysis.muddled \/ i # 1)
<1>1. i \in DOMAIN analysis.asked /\ analysis.asked \in Seq(Ranges)
  BY DEF AnalysisAnswered, Analysis
<1>2. PICK l : l = RemoveAt(analysis.asked, i)
  OBVIOUS
<1>3. PICK r : r = analysis.asked[i]
  OBVIOUS
<1>4. PICK m \in BOOLEAN : m = (analysis.muddled \/ i # 1)
  BY DEF Analysis
<1>5. analysis' = [analysis EXCEPT !.asked = l, !.shown = r, !.muddled = m]
  BY <1>2, <1>3, <1>4 DEF AnalysisAnswered
<1>6. l \in Seq(Ranges) /\ r \in Ranges \cup {None}
  BY <1>1, <1>2, <1>3, Removed, ElementOfSeq, LenProperties
<1>7. /\ analysis' \in Analysis /\ analysis'.tab = analysis.tab
      /\ analysis'.asked = l /\ analysis'.shown = r /\ analysis'.muddled = m
  BY <1>5, <1>6 DEF Analysis
<1> QED
  BY <1>1, <1>2, <1>3, <1>4, <1>7

\* A failure drops one request, and is a muddle if it was the newest.
LEMMA FailedIs ==
    ASSUME analysis \in Analysis, NEW i, AnalysisFails(i)
    PROVE  /\ analysis' \in Analysis /\ i \in DOMAIN analysis.asked
           /\ analysis'.tab = analysis.tab
           /\ analysis'.asked = RemoveAt(analysis.asked, i) /\ analysis'.shown = analysis.shown
           /\ analysis'.muddled = (analysis.muddled \/ i = Len(analysis.asked))
<1>1. i \in DOMAIN analysis.asked /\ analysis.asked \in Seq(Ranges)
  BY DEF AnalysisFails, Analysis
<1>2. PICK l : l = RemoveAt(analysis.asked, i)
  OBVIOUS
<1>4. PICK m \in BOOLEAN : m = (analysis.muddled \/ i = Len(analysis.asked))
  BY DEF Analysis
<1>5. analysis' = [analysis EXCEPT !.asked = l, !.muddled = m]
  BY <1>2, <1>4 DEF AnalysisFails
<1>6. l \in Seq(Ranges)
  BY <1>1, <1>2, Removed
<1>7. /\ analysis' \in Analysis /\ analysis'.tab = analysis.tab
      /\ analysis'.asked = l /\ analysis'.shown = analysis.shown /\ analysis'.muddled = m
  BY <1>5, <1>6 DEF Analysis
<1> QED
  BY <1>1, <1>2, <1>4, <1>7

\* The parts of the type invariant.
Small ==
    /\ path \in {"closed", "/login", "/", "/client"}
    /\ session \in BOOLEAN
    /\ authed \in {"unknown", "yes", "no"}
    /\ me \in {"none", "ok", "refused"}
    /\ watch \in {"metrics", "analysis"}
    /\ range \in Ranges
    /\ tests \in 0..MaxTests
    /\ overtaken \in BOOLEAN

\* The type invariant, with the parts that are proved apart.
LEMMA TypeParts ==
    /\ TypeOK <=> Small /\ requests \subseteq Request /\ page \in Page /\ analysis \in Analysis
    /\ TypeOK' <=> Small' /\ requests' \subseteq Request /\ page' \in Page /\ analysis' \in Analysis
  BY DEF TypeOK, Small, Page, Analysis

\* The dashboard starts with its types.
LEMMA TypeInit ==
    ASSUME Init
    PROVE  TypeOK
<1>3. 0 \in 0..MaxTests
  BY DashboardOK DEF DashboardOK
<1>1. Small
  BY <1>3 DEF Init, Small, Ranges
<1>2. requests \subseteq Request /\ page \in Page /\ analysis \in Analysis
  BY FreshIs, NoAnalysisIs DEF Init
<1> QED
  BY <1>1, <1>2, TypeParts

\* A document that is loaded is well formed.
LEMMA LoadIs ==
    ASSUME TypeOK, NEW to \in {"/login", "/"}, Load(to), session' \in BOOLEAN, tests' = tests
    PROVE  TypeOK'
<1>1. Small'
  BY DEF TypeOK, Load, Small, Ranges
<1>2. requests' \subseteq Request /\ page' \in Page /\ analysis' \in Analysis
  BY FreshIs, NoAnalysisIs DEF Load
<1> QED
  BY <1>1, <1>2, TypeParts

\* Only who is at the client's page is routed there.
LEMMA RoutedIs ==
    ASSUME NEW at \in {"closed", "/login", "/", "/client"}, NEW who \in {"unknown", "yes", "no"}
    PROVE  /\ Routed(at, who) \in {"closed", "/login", "/", "/client"}
           /\ Routed(at, who) = "/client" => at = "/client"
  BY DEF Routed

\* Every step of the dashboard keeps the types.
LEMMA TypeStep ==
    ASSUME TypeOK, [Next]_vars
    PROVE  TypeOK'
<1>0. /\ Small /\ requests \subseteq Request /\ page \in Page /\ analysis \in Analysis
      /\ MaxTests \in Nat /\ Older \in Nat
      /\ Timers \subseteq Nat \ {0} /\ Attempts \in Nat \ {0}
  BY TypeParts, DashboardOK DEF DashboardOK
<1>s. path \in {"closed", "/login", "/", "/client"} /\ range \in Ranges
  BY <1>0 DEF Small
<1>p. ASSUME page' \in Page, UNCHANGED <<path, session, authed, me, watch, range, requests, analysis, tests>>,
             overtaken' \in BOOLEAN
      PROVE  TypeOK'
  <2>1. Small'
    BY <1>0, <1>p DEF Small
  <2> QED BY <1>0, <1>p, <2>1, TypeParts
<1>a. ASSUME analysis' \in Analysis, range' \in Ranges, requests' \subseteq Request,
             UNCHANGED <<path, session, authed, me, watch, page, tests, overtaken>>
      PROVE  TypeOK'
  <2>1. Small'
    BY <1>0, <1>a DEF Small
  <2> QED BY <1>0, <1>a, <2>1, TypeParts
<1>o. ASSUME Small', UNCHANGED <<page, analysis>>, requests' \subseteq Request
      PROVE  TypeOK'
  BY <1>0, <1>o, TypeParts
<1>1. CASE UNCHANGED vars \/ Calculate
  <2>1. UNCHANGED <<browser, session, tests>>
    BY <1>1 DEF vars, Calculate
  <2> QED BY <1>0, <2>1, TypeParts DEF browser, Small
<1>2. CASE Open
  <2>1. PICK to \in {"/login", "/"} : Load(to)
    BY <1>2 DEF Open
  <2>2. session' = session /\ tests' = tests /\ session \in BOOLEAN
    BY <1>0, <1>2 DEF Open, Small
  <2> QED BY <2>1, <2>2, LoadIs
<1>3. CASE MeAnswered
  <2>1. session' = session /\ tests' = tests /\ session \in BOOLEAN
    BY <1>0, <1>3 DEF MeAnswered, Small
  <2>2. CASE Unauthorized
    BY <2>1, <2>2, LoadIs DEF Unauthorized
  <2>3. CASE ~Unauthorized
    <3>1. /\ authed' \in {"yes", "no"} /\ path' = Routed(path, authed') /\ me' = "none"
          /\ UNCHANGED <<watch, range, requests, page, analysis, overtaken>>
      BY <1>3, <2>3 DEF MeAnswered
    <3>2. Small'
      BY <1>0, <1>s, <2>1, <3>1, RoutedIs DEF Small
    <3> QED BY <1>0, <1>o, <3>1, <3>2
  <2> QED BY <2>2, <2>3
<1>4. CASE MeFails
  <2>1. Small'
    BY <1>0, <1>s, <1>4, RoutedIs DEF MeFails, Small
  <2> QED BY <1>0, <1>o, <1>4, <2>1 DEF MeFails
<1>5. CASE SignIn
  <2>1. Small'
    BY <1>0, <1>s, <1>5, RoutedIs DEF SignIn, Small
  <2> QED BY <1>0, <1>o, <1>5, <2>1 DEF SignIn
<1>6. CASE SessionEnds
  <2>1. Small'
    BY <1>0, <1>6 DEF SessionEnds, browser, Small
  <2> QED BY <1>0, <1>o, <1>6, <2>1 DEF SessionEnds, browser
<1>7. CASE SignOut
  <2>1. Small'
    BY <1>0, <1>7 DEF SignOut, Small, Ranges
  <2>2. requests' \subseteq Request /\ page' \in Page /\ analysis' \in Analysis
    BY <1>7, FreshIs, NoAnalysisIs DEF SignOut
  <2> QED BY <2>1, <2>2, TypeParts
<1>8. CASE Poll
  <2>1. Small'
    BY <1>0, <1>8 DEF Poll, Small
  <2>2. requests' \subseteq Request
    BY <1>0, <1>s, <1>8, AskedIs DEF Poll, Refresh
  <2> QED BY <1>o, <1>8, <2>1, <2>2 DEF Poll
<1>9. CASE \E q \in requests : Answer(q)
  <2>1. PICK q \in requests : Answer(q)
    BY <1>9
  <2>2. session' = session /\ tests' = tests /\ session \in BOOLEAN
    BY <1>0, <2>1 DEF Answer, Small
  <2>3. CASE Unauthorized
    BY <2>2, <2>3, LoadIs DEF Unauthorized
  <2>4. CASE ~Unauthorized
    <3>1. /\ requests' = requests \ {q}
          /\ page' = IF Metrics THEN Settled(Shown(page, q)) ELSE page
          /\ overtaken' = (overtaken \/ (Metrics /\ page.post > 0 /\ HasResult(Shown(page, q))))
          /\ UNCHANGED <<path, authed, me, watch, range, analysis>>
      BY <2>1, <2>4 DEF Answer
    <3>2. page' \in Page
      <4>1. Shown(page, q) \in Page
        BY <1>0, <2>1, ShownIs
      <4>2. Settled(Shown(page, q)) \in Page
        BY <4>1, StoppedIs DEF Settled
      <4> QED BY <1>0, <3>1, <4>2
    <3>3. Small'
      BY <1>0, <2>2, <3>1 DEF Small
    <3> QED BY <1>0, <3>1, <3>2, <3>3, TypeParts
  <2> QED BY <2>3, <2>4
<1>10. CASE \E q \in requests : AnswerLost(q)
  <2>1. Small'
    BY <1>0, <1>10 DEF AnswerLost, Small
  <2> QED BY <1>0, <1>o, <1>10, <2>1 DEF AnswerLost
<1>11. CASE StartTest
  <2>1. page.count \in 0..(MaxTests + Older)
    BY <1>0 DEF Page
  <2>2. PICK k : k = page.post + 1
    OBVIOUS
  <2>3. page' = [page EXCEPT !.base = page.count, !.running = TRUE, !.post = k]
    BY <1>11, <2>2 DEF StartTest
  <2>4. k \in 0..MaxPosts
    BY <1>0, <1>11, <2>2, DashboardOK DEF DashboardOK, StartTest, Page
  <2>5. page' \in Page
    BY <1>0, <2>1, <2>3, <2>4 DEF Page
  <2> QED BY <1>0, <1>p, <1>11, <2>5 DEF StartTest, Small
<1>12. CASE TestStarted
  <2>1. page' \in Page
    BY <1>0, <1>12, StartedIs
  <2> QED BY <1>0, <1>p, <1>12, <2>1 DEF TestStarted, Small
<1>13. CASE TestRefused
  <2>1. PICK k : k = page.post - 1
    OBVIOUS
  <2>2. page' = [page EXCEPT !.post = k, !.running = FALSE, !.base = 0]
    BY <1>13, <2>1 DEF TestRefused
  <2>4. 0 \in 0..(MaxTests + Older) /\ k \in 0..MaxPosts
    BY <1>0, <1>13, <2>1, DashboardOK DEF DashboardOK, TestRefused, Page
  <2>3. page' \in Page
    BY <1>0, <2>2, <2>4 DEF Page
  <2> QED BY <1>0, <1>p, <1>13, <2>3 DEF TestRefused, Small
<1>14. CASE TestStored
  <2>1. Small'
    BY <1>0, <1>14 DEF TestStored, browser, Small
  <2> QED BY <1>0, <1>o, <1>14, <2>1 DEF TestStored, browser
<1>15. CASE \E id \in Timers : Tick(id)
  <2>1. PICK id \in Timers : Tick(id)
    BY <1>15
  <2>2. page' \in Page
    BY <1>0, <2>1, TickIs
  <2>3. requests' \subseteq Request
    BY <1>0, <1>s, <2>1, AskedIs DEF Tick, Refresh
  <2>4. /\ overtaken' \in BOOLEAN
        /\ UNCHANGED <<path, session, authed, me, watch, range, analysis, tests>>
    BY <1>0, <2>1 DEF Tick, Small
  <2>5. Small'
    BY <1>0, <2>4 DEF Small
  <2> QED BY <1>0, <2>2, <2>3, <2>4, <2>5, TypeParts
<1>16. CASE Enter
  <2>1. Small'
    BY <1>0, <1>16 DEF Enter, Small
  <2>2. requests' \subseteq Request /\ page' \in Page /\ analysis' \in Analysis
    BY <1>0, <1>16, FreshIs DEF Enter
  <2> QED BY <2>1, <2>2, TypeParts
<1>17. CASE Leave
  <2>1. Small'
    BY <1>0, <1>17 DEF Leave, Small, Ranges
  <2>2. requests' \subseteq Request /\ page' \in Page /\ analysis' \in Analysis
    BY <1>0, <1>17, StoppedIs, NoAnalysisIs DEF Leave
  <2> QED BY <2>1, <2>2, TypeParts
<1>18. CASE \E r \in Ranges : SelectRange(r)
  <2>1. PICK r \in Ranges : SelectRange(r)
    BY <1>18
  <2>2. analysis' \in Analysis
    BY <1>0, <2>1, FetchedIs DEF SelectRange, Reselected
  <2>3. range' \in Ranges /\ requests' \subseteq Request
    BY <1>0, <2>1, AskedIs DEF SelectRange, Refresh
  <2> QED BY <1>a, <2>1, <2>2, <2>3 DEF SelectRange
<1>19. CASE \E tab \in {"overview", "analysis"} : SelectTab(tab)
  <2>1. PICK tab \in {"overview", "analysis"} : SelectTab(tab)
    BY <1>19
  <2>2. analysis' \in Analysis
    BY <1>0, <1>s, <2>1, TabIs
  <2> QED BY <1>0, <1>s, <1>a, <2>1, <2>2 DEF SelectTab
<1>20. CASE RefreshAnalysis
  <2>1. analysis' \in Analysis
    BY <1>0, <1>s, <1>20, FetchedIs DEF RefreshAnalysis
  <2> QED BY <1>0, <1>s, <1>a, <1>20, <2>1 DEF RefreshAnalysis
<1>21. CASE \E i \in 1..InFlight : AnalysisAnswered(i)
  <2>1. PICK i \in 1..InFlight : AnalysisAnswered(i)
    BY <1>21
  <2>2. analysis' \in Analysis
    BY <1>0, <2>1, AnsweredIs
  <2> QED BY <1>0, <1>s, <1>a, <2>1, <2>2 DEF AnalysisAnswered
<1>22. CASE \E i \in 1..InFlight : AnalysisFails(i)
  <2>1. PICK i \in 1..InFlight : AnalysisFails(i)
    BY <1>22
  <2>2. analysis' \in Analysis
    BY <1>0, <2>1, FailedIs
  <2> QED BY <1>0, <1>s, <1>a, <2>1, <2>2 DEF AnalysisFails
<1> QED
  BY <1>1, <1>2, <1>3, <1>4, <1>5, <1>6, <1>7, <1>8, <1>9, <1>10, <1>11, <1>12, <1>13,
     <1>14, <1>15, <1>16, <1>17, <1>18, <1>19, <1>20, <1>21, <1>22 DEF Next

\* Every variable of the dashboard keeps its type.  (Attempts are counted up to the last,
\* so that nothing is said here of how long an interval runs.)
THEOREM DashboardTypeCorrect == Spec => []TypeOK
<1>1. Init => TypeOK
  BY TypeInit
<1>2. TypeOK /\ [Next]_vars => TypeOK'
  BY TypeStep
<1> QED
  BY <1>1, <1>2, PTL DEF Spec

-----------------------------------------------------------------------------
(* The intervals of the page.                                               *)

\* Unless a result was taken early: pollRef has the one interval that runs, none runs
\* while the POST is in flight, and none on a page that waits for no result.
PollInv ==
    ~overtaken =>
        /\ \A t \in page.timers : t.id = page.poll /\ t.attempts < Attempts
        /\ page.post > 0 => page.post = 1 /\ page.timers = {}
        /\ path = "/client" /\ ~page.running => page.timers = {} /\ page.post = 0

\* A page without intervals keeps it, as does one that keeps what it has.
LEMMA PollFresh ==
    ASSUME page'.timers = {}, page'.post = 0
    PROVE  PollInv'
  BY DEF PollInv

\* Elsewhere the page stays as it is.
LEMMA PollKept ==
    ASSUME PollInv, page' = page, overtaken' = overtaken, path' = "/client" => path = "/client"
    PROVE  PollInv'
  BY DEF PollInv

\* Stopping leaves no interval, if pollRef has the one that runs.
LEMMA PollStopped ==
    ASSUME NEW p \in Page, \A t \in p.timers : t.id = p.poll, page' = Stopped(p),
           ~overtaken' => p.post \in {0, 1},
           path' = "/client" /\ ~overtaken' => p.post = 0
    PROVE  PollInv'
<1>1. page'.timers = {} /\ page'.post = p.post
  BY StoppedIs
<1> QED
  BY <1>1 DEF PollInv

\* Every step keeps at most one interval, the one pollRef has.
LEMMA PollStep ==
    ASSUME TypeOK, PollInv, [Next]_vars
    PROVE  PollInv'
<1>0. /\ page \in Page /\ requests \subseteq Request
      /\ path \in {"closed", "/login", "/", "/client"} /\ authed \in {"unknown", "yes", "no"}
      /\ Attempts \in Nat \ {0} /\ overtaken \in BOOLEAN
  BY TypeParts, DashboardOK DEF DashboardOK, Small
<1>p. page.post \in Nat
  BY <1>0 DEF Page
<1>f. page' = Fresh => PollInv'
  BY FreshIs, PollFresh
<1>1. CASE UNCHANGED vars \/ Calculate \/ SessionEnds \/ TestStored \/ Poll \/ RefreshAnalysis
  <2>1. page' = page /\ overtaken' = overtaken /\ path' = path
    BY <1>1 DEF vars, browser, Calculate, SessionEnds, TestStored, Poll, RefreshAnalysis
  <2> QED BY <2>1, PollKept
<1>2. CASE \/ \E q \in requests : AnswerLost(q)
           \/ \E r \in Ranges : SelectRange(r)
           \/ \E tab \in {"overview", "analysis"} : SelectTab(tab)
           \/ \E i \in 1..InFlight : AnalysisAnswered(i) \/ AnalysisFails(i)
  <2>1. page' = page /\ overtaken' = overtaken /\ path' = path
    <3>1. CASE \E q \in requests : AnswerLost(q)
      BY <3>1 DEF AnswerLost
    <3>2. CASE \E r \in Ranges : SelectRange(r)
      BY <3>2 DEF SelectRange
    <3>3. CASE \E tab \in {"overview", "analysis"} : SelectTab(tab)
      BY <3>3 DEF SelectTab
    <3>4. CASE \E i \in 1..InFlight : AnalysisAnswered(i) \/ AnalysisFails(i)
      BY <3>4 DEF AnalysisAnswered, AnalysisFails
    <3> QED BY <1>2, <3>1, <3>2, <3>3, <3>4
  <2> QED BY <2>1, PollKept
<1>3. CASE Open \/ SignOut \/ Enter
  <2>1. page' = Fresh
    BY <1>3 DEF Open, Load, SignOut, Enter
  <2> QED BY <1>f, <2>1
<1>4. CASE MeAnswered
  <2>1. CASE Unauthorized
    BY <1>f, <2>1 DEF Unauthorized, Load
  <2>2. CASE ~Unauthorized
    <3>1. /\ authed' \in {"yes", "no"} /\ path' = Routed(path, authed')
          /\ page' = page /\ overtaken' = overtaken
      BY <1>4, <2>2 DEF MeAnswered
    <3>2. path' = "/client" => path = "/client"
      BY <1>0, <3>1, RoutedIs
    <3> QED BY <3>1, <3>2, PollKept
  <2> QED BY <2>1, <2>2
<1>5. CASE MeFails \/ SignIn
  <2>1. page' = page /\ overtaken' = overtaken /\ (path' = Routed(path, "no") \/ path' = Routed(path, "yes"))
    BY <1>5 DEF MeFails, SignIn
  <2>2. path' = "/client" => path = "/client"
    BY <1>0, <2>1, RoutedIs
  <2> QED BY <2>1, <2>2, PollKept
<1>6. CASE \E q \in requests : Answer(q)
  <2>1. PICK q \in requests : Answer(q)
    BY <1>6
  <2>2. CASE Unauthorized
    BY <1>f, <2>2 DEF Unauthorized, Load
  <2>3. CASE ~Unauthorized
    <3>1. PICK p : p = Shown(page, q)
      OBVIOUS
    <3>2. /\ page' = IF Metrics THEN Settled(p) ELSE page
          /\ overtaken' = (overtaken \/ (Metrics /\ page.post > 0 /\ HasResult(p)))
          /\ path' = path
      BY <2>1, <2>3, <3>1 DEF Answer
    <3>3. /\ p \in Page
          /\ p.timers = page.timers /\ p.poll = page.poll
          /\ p.running = page.running /\ p.post = page.post
      BY <1>0, <2>1, <3>1, ShownIs
    <3>4. CASE Metrics /\ HasResult(p)
      <4>1. page' = Stopped(p) /\ overtaken' = (overtaken \/ page.post > 0)
        BY <3>2, <3>4 DEF Settled
      <4>2. CASE overtaken'
        BY <4>2 DEF PollInv
      <4>3. CASE ~overtaken'
        <5>1. ~overtaken /\ ~(page.post > 0)
          BY <4>1, <4>3
        <5>2. p.post = 0
          BY <1>p, <3>3, <5>1
        <5>3. \A t \in p.timers : t.id = p.poll
          BY <3>3, <5>1 DEF PollInv
        <5> QED BY <3>3, <4>1, <5>2, <5>3, PollStopped
      <4> QED BY <4>2, <4>3
    <3>5. CASE ~(Metrics /\ HasResult(p))
      <4>1. page' \in {p, page} /\ overtaken' = overtaken
        BY <1>0, <3>2, <3>5 DEF Settled
      <4> QED BY <3>2, <3>3, <4>1 DEF PollInv
    <3> QED BY <3>4, <3>5
  <2> QED BY <2>2, <2>3
<1>7. CASE StartTest
  <2>1. /\ page' = [page EXCEPT !.base = page.count, !.running = TRUE, !.post = @ + 1]
        /\ path = "/client" /\ ~page.running /\ overtaken' = overtaken
    BY <1>7 DEF StartTest, Metrics, OnPage
  <2>2. page'.timers = page.timers /\ page'.running = TRUE /\ page'.post = page.post + 1
    BY <1>0, <2>1 DEF Page
  <2> QED BY <2>1, <2>2 DEF PollInv
<1>8. CASE TestStarted
  <2>1. /\ page'.post = page.post - 1 /\ page'.running = page.running
        /\ page'.timers = page.timers \cup {[id |-> page'.poll, attempts |-> 0]}
    BY <1>0, <1>8, StartedIs
  <2>2. page.post > 0 /\ path' = path /\ overtaken' = overtaken
    BY <1>8 DEF TestStarted
  <2>3. ASSUME ~overtaken'
        PROVE  /\ page'.timers = {[id |-> page'.poll, attempts |-> 0]} /\ page'.post = 0
               /\ path = "/client" => page.running
    BY <2>1, <2>2, <2>3 DEF PollInv
  <2>4. ASSUME ~overtaken', NEW t \in page'.timers
        PROVE  t.id = page'.poll /\ t.attempts < Attempts
    <3>1. t = [id |-> page'.poll, attempts |-> 0]
      BY <2>3, <2>4
    <3>2. 0 < Attempts
      BY <1>0
    <3> QED BY <3>1, <3>2
  <2> QED BY <2>1, <2>2, <2>3, <2>4 DEF PollInv
<1>9. CASE TestRefused
  <2>1. /\ page' = [page EXCEPT !.post = @ - 1, !.running = FALSE, !.base = 0]
        /\ page.post > 0 /\ path' = path /\ overtaken' = overtaken
    BY <1>9 DEF TestRefused
  <2>2. page'.timers = page.timers /\ page'.post = page.post - 1
    BY <1>0, <2>1 DEF Page
  <2> QED BY <2>1, <2>2 DEF PollInv
<1>10. CASE \E id \in Timers : Tick(id)
  <2>1. PICK id \in Timers : Tick(id)
    BY <1>10
  <2>2. PICK t \in page.timers, n \in 0..Attempts, p \in Page :
            /\ t.id = id
            /\ p.timers = (page.timers \ {t}) \cup {[id |-> id, attempts |-> n]}
            /\ p.poll = page.poll /\ p.running = page.running /\ p.post = page.post
            /\ page' = IF n >= Attempts THEN Stopped(p) ELSE p
            /\ overtaken' = (overtaken \/ (n >= Attempts /\ page.post > 0))
    BY <1>0, <2>1, TickIs
  <2>3. path' = path
    BY <2>1 DEF Tick
  <2>4. CASE overtaken'
    BY <2>4 DEF PollInv
  <2>5. CASE ~overtaken'
    <3>1. ~overtaken /\ \A x \in page.timers : x.id = page.poll /\ x.attempts < Attempts
      BY <2>2, <2>5 DEF PollInv
    <3>2. \A x \in p.timers : x.id = p.poll
      BY <2>2, <3>1
    <3>3. CASE n >= Attempts
      <4>1. page' = Stopped(p)
        BY <2>2, <3>3
      <4>5. ~(page.post > 0)
        BY <2>2, <2>5, <3>3
      <4>2. page.post = 0
        BY <1>p, <4>5
      <4> QED BY <2>2, <3>2, <4>1, <4>2, PollStopped
    <3>4. CASE ~(n >= Attempts)
      <4>1. page' = p /\ n < Attempts
        BY <1>0, <2>2, <3>4
      <4>2. \A x \in p.timers : x.attempts < Attempts
        BY <2>2, <3>1, <4>1
      <4>3. page.timers # {} /\ page.post = 0 /\ (path = "/client" => page.running)
        BY <1>0, <2>2, <3>1 DEF PollInv, Page
      <4> QED BY <2>2, <2>3, <3>2, <4>1, <4>2, <4>3 DEF PollInv
    <3> QED BY <3>3, <3>4
  <2> QED BY <2>4, <2>5
<1>11. CASE Leave
  <2>1. page' = Stopped(page) /\ path' = "/" /\ overtaken' = overtaken
    BY <1>11 DEF Leave
  <2>2. CASE overtaken'
    BY <2>2 DEF PollInv
  <2>3. CASE ~overtaken'
    <3>1. page.post \in {0, 1}
      BY <1>0, <2>1, <2>3 DEF PollInv, Page
    <3> QED BY <1>0, <2>1, <2>3, <3>1, PollStopped DEF PollInv
  <2> QED BY <2>2, <2>3
<1> QED
  BY <1>1, <1>2, <1>3, <1>4, <1>5, <1>6, <1>7, <1>8, <1>9, <1>10, <1>11 DEF Next

\* The polling of handleSpeedTest and stopPolling (ClientDetail.tsx) ends, whatever
\* answers when and wherever the user goes.
THEOREM PollingIsBounded == Spec => []PollBounded
<1>1. Init => TypeOK /\ PollInv
  <2>1. Init => page.timers = {} /\ page.post = 0
    BY FreshIs DEF Init
  <2>2. Init => PollInv
    BY <2>1 DEF PollInv
  <2> QED BY <2>2, TypeInit
<1>2. TypeOK /\ PollInv /\ [Next]_vars => TypeOK' /\ PollInv'
  BY TypeStep, PollStep
<1>3. TypeOK /\ PollInv => PollBounded
  BY DEF PollInv, PollBounded
<1> QED
  BY <1>1, <1>2, <1>3, PTL DEF Spec

-----------------------------------------------------------------------------
(* The analysis of the page.                                                *)

\* Only the page of the client that shows it has an analysis, and the newest answer,
\* or else the newest request, is for the selected range.
FitInv ==
    /\ path = "/client" => me = "none"
    /\ ~(path = "/client" /\ watch = "analysis") => analysis = NoAnalysis
    /\ analysis.tab = "analysis" /\ ~analysis.muddled =>
           IF analysis.asked = <<>> THEN analysis.shown = range
           ELSE analysis.asked[Len(analysis.asked)] = range

\* Without an analysis there is nothing that could not fit.
LEMMA FitNone ==
    ASSUME analysis' = NoAnalysis, path' = "/client" => me' = "none"
    PROVE  FitInv'
  BY NoAnalysisIs DEF FitInv

\* What does not touch the analysis keeps it fitting.
LEMMA FitKept ==
    ASSUME FitInv, UNCHANGED <<path, watch, analysis, range, me>>
    PROVE  FitInv'
  BY DEF FitInv

\* What is fetched is asked for last.
LEMMA FitFetched ==
    ASSUME analysis \in Analysis, analysis' \in Analysis, range' \in Ranges,
           path = "/client", path' = path, me' = me, watch = "analysis", watch' = watch, FitInv,
           analysis'.tab = "analysis" => analysis'.asked = Append(analysis.asked, range')
    PROVE  FitInv'
<1>1. Append(analysis.asked, range') # <<>>
      /\ Append(analysis.asked, range')[Len(Append(analysis.asked, range'))] = range'
  BY AppendProperties DEF Analysis
<1> QED
  BY <1>1 DEF FitInv

\* Every step leaves the newest request or answer that of the selected range.
LEMMA FitStep ==
    ASSUME TypeOK, FitInv, [Next]_vars
    PROVE  FitInv'
<1>0. /\ analysis \in Analysis /\ range \in Ranges
      /\ path \in {"closed", "/login", "/", "/client"} /\ authed \in {"unknown", "yes", "no"}
  BY TypeParts DEF Small
<1>1. CASE UNCHANGED vars \/ Calculate \/ SessionEnds \/ TestStored \/ Poll
           \/ StartTest \/ TestStarted \/ TestRefused
  <2>1. UNCHANGED <<path, watch, analysis, range, me>>
    BY <1>1 DEF vars, browser, Calculate, SessionEnds, TestStored, Poll, StartTest, TestStarted, TestRefused
  <2> QED BY <2>1, FitKept
<1>2. CASE (\E q \in requests : AnswerLost(q)) \/ \E id \in Timers : Tick(id)
  <2>1. UNCHANGED <<path, watch, analysis, range, me>>
    BY <1>2 DEF AnswerLost, Tick
  <2> QED BY <2>1, FitKept
<1>3. CASE Open \/ SignOut \/ Leave
  <2>1. analysis' = NoAnalysis /\ path' # "/client"
    BY <1>3 DEF Open, Load, SignOut, Leave
  <2> QED BY <2>1, FitNone
<1>4. CASE MeAnswered \/ MeFails
  <2>1. me # "none" /\ path # "/client"
    BY <1>4 DEF MeAnswered, MeFails, FitInv
  <2>2. CASE Unauthorized
    <3>1. analysis' = NoAnalysis /\ path' # "/client"
      BY <2>2 DEF Unauthorized, Load
    <3> QED BY <3>1, FitNone
  <2>3. CASE ~Unauthorized
    <3>1. /\ path' = Routed(path, authed') /\ authed' \in {"yes", "no"}
          /\ UNCHANGED <<watch, analysis, range>>
      BY <1>4, <2>3 DEF MeAnswered, MeFails
    <3>2. path' # "/client"
      BY <1>0, <2>1, <3>1, RoutedIs
    <3> QED BY <2>1, <3>1, <3>2, FitNone DEF FitInv
  <2> QED BY <2>2, <2>3
<1>5. CASE SignIn
  <2>1. path # "/client" /\ path' = Routed(path, "yes") /\ UNCHANGED <<analysis>>
    BY <1>5 DEF SignIn
  <2>2. path' # "/client"
    BY <1>0, <2>1, RoutedIs
  <2> QED BY <2>1, <2>2, FitNone DEF FitInv
<1>6. CASE \E q \in requests : Answer(q)
  <2>1. PICK q \in requests : Answer(q)
    BY <1>6
  <2>2. CASE Unauthorized
    <3>1. analysis' = NoAnalysis /\ path' # "/client"
      BY <2>2 DEF Unauthorized, Load
    <3> QED BY <3>1, FitNone
  <2>3. CASE ~Unauthorized
    <3>1. UNCHANGED <<path, watch, analysis, range, me>>
      BY <2>1, <2>3 DEF Answer
    <3> QED BY <3>1, FitKept
  <2> QED BY <2>2, <2>3
<1>7. CASE Enter
  <2>1. path = "/" /\ analysis' = analysis /\ me = "none" /\ me' = me
    BY <1>7 DEF Enter
  <2> QED BY <2>1, FitNone DEF FitInv
<1>8. CASE \E r \in Ranges : SelectRange(r)
  <2>1. PICK r \in Ranges : SelectRange(r)
    BY <1>8
  <2>2. /\ path = "/client" /\ range' = r
        /\ analysis' = IF watch = "analysis" THEN Reselected(analysis, r) ELSE analysis
        /\ path' = path /\ me' = me /\ watch' = watch
    BY <2>1 DEF SelectRange, OnPage
  <2>3. CASE watch = "analysis" /\ analysis.tab = "analysis"
    <3>1. analysis' = Fetched(analysis, r)
      BY <2>2, <2>3 DEF Reselected
    <3>2. analysis' \in Analysis /\ analysis'.asked = Append(analysis.asked, range')
      BY <1>0, <2>2, <3>1, FetchedIs
    <3> QED BY <1>0, <2>2, <2>3, <3>2, FitFetched
  <2>4. CASE ~(watch = "analysis" /\ analysis.tab = "analysis")
    <3>1. analysis' = analysis
      BY <2>2, <2>4 DEF Reselected
    <3>2. analysis.tab # "analysis"
      BY <2>2, <2>4, NoAnalysisIs DEF FitInv
    <3> QED BY <2>2, <3>1, <3>2 DEF FitInv
  <2> QED BY <2>3, <2>4
<1>9. CASE \E tab \in {"overview", "analysis"} : SelectTab(tab)
  <2>1. PICK tab \in {"overview", "analysis"} : SelectTab(tab)
    BY <1>9
  <2>2. /\ path = "/client" /\ watch = "analysis" /\ range' = range
        /\ path' = path /\ me' = me /\ watch' = watch
    BY <2>1 DEF SelectTab, Analysing, OnPage
  <2>3. /\ analysis' \in Analysis
        /\ analysis'.tab = "analysis" => analysis'.asked = Append(analysis.asked, range')
    BY <1>0, <2>1, <2>2, TabIs
  <2> QED BY <1>0, <2>2, <2>3, FitFetched
<1>10. CASE RefreshAnalysis
  <2>1. /\ path = "/client" /\ watch = "analysis" /\ range' = range
        /\ path' = path /\ me' = me /\ watch' = watch
        /\ analysis' = Fetched(analysis, range)
    BY <1>10 DEF RefreshAnalysis, Analysing, OnPage
  <2>2. analysis' \in Analysis /\ analysis'.asked = Append(analysis.asked, range')
    BY <1>0, <2>1, FetchedIs
  <2> QED BY <1>0, <2>1, <2>2, FitFetched
<1>11. CASE \E i \in 1..InFlight : AnalysisAnswered(i)
  <2>1. PICK i \in 1..InFlight : AnalysisAnswered(i)
    BY <1>11
  <2>2. /\ path = "/client" /\ watch = "analysis" /\ range' = range
        /\ path' = path /\ me' = me /\ watch' = watch
    BY <2>1 DEF AnalysisAnswered, Analysing, OnPage
  <2>3. PICK a \in Seq(Ranges) : a = analysis.asked
    BY <1>0 DEF Analysis
  <2>4. /\ i \in DOMAIN a /\ analysis'.tab = analysis.tab
        /\ analysis'.asked = RemoveAt(a, i) /\ analysis'.shown = a[i]
        /\ analysis'.muddled = (analysis.muddled \/ i # 1)
    BY <1>0, <2>1, <2>3, AnsweredIs
  <2>5. ASSUME analysis'.tab = "analysis", ~analysis'.muddled
        PROVE  IF RemoveAt(a, i) = <<>> THEN a[i] = range
               ELSE RemoveAt(a, i)[Len(RemoveAt(a, i))] = range
    <3>1. i = 1 /\ analysis.tab = "analysis" /\ ~analysis.muddled
      BY <2>4, <2>5
    <3>2. a # <<>> /\ a[Len(a)] = range
      <4>1. a # <<>>
        BY <2>4
      <4> QED BY <2>3, <3>1, <4>1 DEF FitInv
    <3>3. /\ i # Len(a) => RemoveAt(a, i)[Len(RemoveAt(a, i))] = a[Len(a)] /\ RemoveAt(a, i) # <<>>
          /\ Len(RemoveAt(a, i)) = Len(a) - 1 /\ RemoveAt(a, i) \in Seq(Ranges)
      BY <2>4, Removed
    <3>4. i = Len(a) => RemoveAt(a, i) = <<>>
      <4> SUFFICES ASSUME i = Len(a) PROVE RemoveAt(a, i) = <<>>
        OBVIOUS
      <4>1. Len(RemoveAt(a, i)) = 0
        BY <3>1, <3>3
      <4> QED BY <3>3, <4>1, EmptySeq
    <3> QED BY <3>2, <3>3, <3>4
  <2> QED BY <2>2, <2>4, <2>5 DEF FitInv
<1>12. CASE \E i \in 1..InFlight : AnalysisFails(i)
  <2>1. PICK i \in 1..InFlight : AnalysisFails(i)
    BY <1>12
  <2>2. /\ path = "/client" /\ watch = "analysis" /\ range' = range
        /\ path' = path /\ me' = me /\ watch' = watch
    BY <2>1 DEF AnalysisFails, Analysing, OnPage
  <2>3. PICK a \in Seq(Ranges) : a = analysis.asked
    BY <1>0 DEF Analysis
  <2>4. /\ i \in DOMAIN a /\ analysis'.tab = analysis.tab
        /\ analysis'.asked = RemoveAt(a, i)
        /\ analysis'.muddled = (analysis.muddled \/ i = Len(a))
    BY <1>0, <2>1, <2>3, FailedIs
  <2>5. ASSUME analysis'.tab = "analysis", ~analysis'.muddled
        PROVE  RemoveAt(a, i) # <<>> /\ RemoveAt(a, i)[Len(RemoveAt(a, i))] = range
    <3>1. i # Len(a) /\ analysis.tab = "analysis" /\ ~analysis.muddled
      BY <2>4, <2>5
    <3>2. a[Len(a)] = range
      <4>1. a # <<>>
        BY <2>4
      <4> QED BY <2>3, <3>1, <4>1 DEF FitInv
    <3> QED BY <2>4, <3>1, <3>2, Removed
  <2> QED BY <2>2, <2>4, <2>5 DEF FitInv
<1> QED
  BY <1>1, <1>2, <1>3, <1>4, <1>5, <1>6, <1>7, <1>8, <1>9, <1>10, <1>11, <1>12 DEF Next

\* The analysis of useAnalysis and FullAnalysisReport fits the range it stands under.
THEOREM ReportsFit == Spec => []ReportFits
<1>1. Init => TypeOK /\ FitInv
  BY TypeInit, NoAnalysisIs DEF Init, FitInv
<1>2. TypeOK /\ FitInv /\ [Next]_vars => TypeOK' /\ FitInv'
  BY TypeStep, FitStep
<1>3. FitInv => ReportFits
  BY DEF FitInv, ReportFits
<1> QED
  BY <1>1, <1>2, <1>3, PTL DEF Spec
=============================================================================
