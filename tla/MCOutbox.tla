------------------------------- MODULE MCOutbox -------------------------------
(***************************************************************************)
(* A small instance of ServiceEventOutbox for TLC: two relay workers and   *)
(* three events, without a fault.                                          *)
(***************************************************************************)
EXTENDS ServiceEventOutbox

CONSTANTS r1, r2, e1, e2, e3
===============================================================================
