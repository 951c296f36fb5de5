------------------------------ MODULE MCFleet ------------------------------
(***************************************************************************)
(* One unit under every fault, and two units that compete for the width,   *)
(* the bus and the reaping goroutine while units crash.                   *)
(***************************************************************************)
EXTENDS Fleet

CONSTANTS u1, u2

OneUnit == [units |-> {u1}, faults |-> Faults]
TwoUnits == [units |-> {u1, u2}, faults |-> {"crash"}]
MCMixes == {OneUnit, TwoUnits}

(* Nothing goes wrong but that the operator stops the mission.             *)
StopMixes == {[units |-> {u1}, faults |-> {"operator"}]}
=============================================================================
