---------------------------- MODULE MCRetention ----------------------------
(***************************************************************************)
(* Retention for TLC: what a client's configuration keeps of its raw rows  *)
(* is less than the archive does.                                          *)
(***************************************************************************)
EXTENDS Retention

RawKeepMC == [c \in Clients |-> 0]
=============================================================================
