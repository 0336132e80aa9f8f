-------------------------- MODULE MCClientMonitor --------------------------
(***************************************************************************)
(* ClientMonitor for TLC.  The sockets are interchangeable: each is one    *)
(* connection attempt, and no property names one.                          *)
(***************************************************************************)
EXTENDS ClientMonitor, TLC

Symmetry == Permutations(Sessions)
=============================================================================
