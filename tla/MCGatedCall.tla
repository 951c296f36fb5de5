---------------------------- MODULE MCGatedCall ----------------------------
(***************************************************************************)
(* Instances of GatedCall for TLC: h hosts the call, r is another process  *)
(* with a resume hook, c one without (a CLI that only answers).            *)
(***************************************************************************)
EXTENDS GatedCall
CONSTANTS h, r, c
=============================================================================
