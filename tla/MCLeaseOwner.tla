----------------------------- MODULE MCLeaseOwner -----------------------------
(* LeaseOwner for TLC.                                                     *)
EXTENDS LeaseOwner, TLC

Symmetric == Permutations(Procs)
=============================================================================
