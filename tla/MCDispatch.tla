---------------------------- MODULE MCDispatch -----------------------------
(***************************************************************************)
(* Instances of Dispatch for TLC: one dispatcher, triggers that all        *)
(* listen for every type.                                                  *)
(***************************************************************************)
EXTENDS Dispatch
CONSTANT d
AllListen == [t \in Triggers |-> Types]
=============================================================================
