------------------------------- MODULE MCMeter -------------------------------
(* Two gateways and one turn.                                              *)
EXTENDS Meter
=============================================================================
