----------------------------- MODULE MCMission -----------------------------
(***************************************************************************)
(* The instance of Mission for TLC.  Binding and planning race with        *)
(* finishing where no clock runs; heartbeats, sweeps and intent refreshes  *)
(* race with finishing where it does.                                      *)
(***************************************************************************)
EXTENDS Mission

MCMixes == {{"finish", "bind"}, {"finish", "plan"},
            {"finish", "beat", "sweep", "intent"}}
=============================================================================
