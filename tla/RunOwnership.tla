---------------------------- MODULE RunOwnership ----------------------------
(***************************************************************************)
(* What the ask, the checkpoint and the resume promise together, seen from *)
(* outside: the ask gets one verdict, the run behind it is in one pair of  *)
(* hands at a time, and whoever takes it up again does so under the        *)
(* verdict.  GatedCall implements this specification.                      *)
(***************************************************************************)
EXTENDS Naturals

VARIABLES verdict,  \* "none" until the ask is decided
          driver,   \* who holds the run: "host", "free", "resume", "over"
          ran       \* times the gated tool ran

ownershipVars == <<verdict, driver, ran>>

Init == verdict = "none" /\ driver = "host" /\ ran = 0

(* The ask is answered, expires or is abandoned: once.                     *)
Decide ==
  /\ verdict = "none" /\ verdict' \in {"allow", "deny"}
  /\ UNCHANGED <<driver, ran>>

(* The host lets the run go without having run the tool.                   *)
Release ==
  /\ driver = "host" /\ ran = 0 /\ driver' = "free"
  /\ UNCHANGED <<verdict, ran>>

(* A free run is taken up, never before its ask is decided.                *)
TakeUp ==
  /\ driver = "free" /\ verdict # "none" /\ driver' = "resume"
  /\ UNCHANGED <<verdict, ran>>

(* The driver fails or dies and the run is free again, or it is over.      *)
Drop ==
  /\ driver = "resume" /\ driver' \in {"free", "over"}
  /\ UNCHANGED <<verdict, ran>>

(* A run nobody holds is given up with its mission.                        *)
GiveUp ==
  /\ driver = "free" /\ verdict # "none" /\ driver' = "over"
  /\ UNCHANGED <<verdict, ran>>

(* The tool runs in the hands of the driver; a resume needs the allow.     *)
RunTool ==
  /\ \/ driver = "host" /\ ran = 0
     \/ driver = "resume" /\ verdict = "allow"
  /\ ran' = ran + 1
  /\ UNCHANGED <<verdict, driver>>

Next == Decide \/ Release \/ TakeUp \/ Drop \/ GiveUp \/ RunTool

Spec == Init /\ [][Next]_ownershipVars
=============================================================================
