------------------------------ MODULE ProbeLog ------------------------------
(***************************************************************************)
(* What the probe pipeline promises (design of the client as the source of *)
(* truth, section 3): every probe written on the client has an identity of *)
(* its own, and the server stores written probes only, each at most once,  *)
(* and never changes or forgets one it has stored.                         *)
(***************************************************************************)
CONSTANT Row        \* records with fields session, seq and probe

VARIABLES
    written,        \* the rows written on the client
    stored          \* the rows the server has

vars == <<written, stored>>

SameKey(r, q) == r.session = q.session /\ r.seq = q.seq

Init ==
    /\ written = {}
    /\ stored = {}

Write ==
    /\ \E r \in Row :
         /\ \A q \in written : ~SameKey(r, q)
         /\ written' = written \cup {r}
    /\ UNCHANGED stored

Store ==
    /\ \E rows \in SUBSET (written \ stored) :
         stored' = stored \cup rows
    /\ UNCHANGED written

Next == Write \/ Store

Spec == Init /\ [][Next]_vars
=============================================================================
