---------------------------- MODULE MCHostTimer ----------------------------
(* Model values for HostTimer. *)
EXTENDS HostTimer

CONSTANTS t1, t2, i1, i2
=============================================================================
