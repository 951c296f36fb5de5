------------------------------ MODULE GatedCall ------------------------------
(***************************************************************************)
(* The life of ONE gated tool call, across the processes that share the    *)
(* store: the host raises a durable ask (a hitl_approvals row) and either  *)
(* blocks on it or suspends the run into a chain_checkpoints row; any      *)
(* process may answer, expire or abandon the ask; a process with a resume  *)
(* hook continues the suspended run under a claim that goes stale unless   *)
(* it is heartbeated.                                                      *)
(*                                                                         *)
(* Steps are cut where the code talks to the store: every read and every   *)
(* compare-and-swap is a step of its own, and everything a process keeps   *)
(* in memory (its waiter, its verdict, its resumer) dies with a crash.     *)
(*                                                                         *)
(* Verdicts are "allow" and "deny".  Time is the ask's window (open, then  *)
(* closed) and the age of a claim (fresh, then stale): wall-clock values   *)
(* are compared with one another nowhere else.                             *)
(***************************************************************************)
EXTENDS Naturals

CONSTANTS Procs,      \* processes sharing the store
          Host,       \* the process the gated call runs in
          Hooked,     \* processes wired with a resume hook and an engine
          CardSays,   \* verdicts the host's local card may deliver
          MaxFaults   \* bound: crashes and failed store writes

Verdicts == {"allow", "deny"}

(* Named assumption on the constants: the host is one of the processes.    *)
ASSUME GatedCallConstants ==
  /\ Host \in Procs
  /\ Hooked \subseteq Procs
  /\ CardSays \subseteq Verdicts
  /\ MaxFaults \in Nat

VARIABLES
  row,          \* the hitl_approvals row: its State, "none" before it exists
  onTimeout,    \* the row's OnTimeout action, fixed by the policy rule
  window,       \* "open", "closed" once ExpiresAt is past, "never" if indefinite
  gate,         \* where the host's gateOnApproval / Prompt stands
  held,         \* the verdict the host's wait returned, "none" before
  ctx,          \* the host's turn context: "live" or "done"
  waiter,       \* pending[askID] in the host: "none", "parked", or the answer
  cpState,      \* the chain_checkpoints row: "none", "saved", "deleted"
  claim,        \* its claimed_at: "none", "fresh", "stale"
  gateRes,      \* the gate result in its payload: "none", "recorded"
  mission,      \* the mission behind the ask: "open" or "terminal"
  resp,         \* per process: a resolve / sweep / StopMission in flight
  rpc,          \* per process: a ResumeFromCheckpoint in flight
  rv,           \* per process: the verdict that resume read
  execs,        \* times the inner tool was executed
  unrecorded,   \* executions by a resume whose gate result was never stored
  completions,  \* resumed runs that reached their end
  undeleted,    \* completed resumes that left their checkpoint behind
  faults        \* crashes and failed writes so far

rowVars  == <<row, onTimeout, window>>
hostVars == <<gate, held, ctx, waiter>>
cpVars   == <<cpState, claim, gateRes>>
resVars  == <<rpc, rv>>
cntVars  == <<execs, unrecorded, completions, undeleted>>
vars == <<row, onTimeout, window, gate, held, ctx, waiter, cpState, claim,
          gateRes, mission, resp, rpc, rv, execs, unrecorded, completions,
          undeleted, faults>>

RowStates == {"none", "pending", "approved", "denied", "expired"}
Resolved  == row \in {"approved", "denied", "expired"}

(* ApprovalVerdict / verdictFromApproval: an expired row carries the       *)
(* verdict of its on_timeout action.                                       *)
RowVerdict == IF row = "approved" THEN "allow"
              ELSE IF row = "expired" THEN onTimeout ELSE "deny"

GateStates == {"start", "parked", "detaching", "adhoc", "waiting", "closing",
               "executing", "leaving", "suspending", "suspended", "gone",
               "done", "refused", "failed"}
GateEnded  == {"gone", "done", "refused", "failed"}
RespStates == {"idle", "checked", "resolved", "stopping", "abandoned", "purging"}
RunStates  == {"idle", "begin", "answered", "claim", "claimed", "executing",
               "executed", "completing", "deleting"}

(* A resume that won the claim and has not returned: its heartbeat runs.   *)
Holding == {"claimed", "executing", "executed", "completing", "deleting"}

HasWaiter(p) == p = Host /\ waiter # "none"

StateOf(v) == IF v = "allow" THEN "approved" ELSE "denied"

(* The store's conditional writes.  UPDATE ... WHERE state = 'pending'.     *)
ResolveHITLApproval(s) == row = "pending" /\ row' = s

(* ... WHERE claimed_at IS NULL OR claimed_at < staleBefore.               *)
Claimable == cpState = "saved" /\ claim # "fresh"

(* DELETE of the row, if there still is one.                               *)
DeleteChainCheckpoint ==
  cpState' = IF cpState = "saved" THEN "deleted" ELSE cpState

Fault == faults < MaxFaults /\ faults' = faults + 1

Init ==
  /\ row = "none" /\ onTimeout \in Verdicts /\ window \in {"open", "never"}
  /\ gate \in {"start", "detaching"} /\ held = "none" /\ ctx = "live"
  /\ waiter = "none"
  /\ cpState = "none" /\ claim = "none" /\ gateRes = "none"
  /\ mission = "open"
  /\ resp = [p \in Procs |-> "idle"]
  /\ rpc = [p \in Procs |-> "idle"]
  /\ rv = [p \in Procs |-> "none"]
  /\ execs = 0 /\ unrecorded = 0 /\ completions = 0 /\ undeleted = 0
  /\ faults = 0

-----------------------------------------------------------------------------
(* The environment.                                                        *)

(* The turn is cancelled or the process begins to leave.                   *)
CancelTurn ==
  /\ ctx = "live" /\ ctx' = "done"
  /\ UNCHANGED <<rowVars, gate, held, waiter, cpVars, mission, resp, resVars,
                 cntVars, faults>>

(* The ask's ExpiresAt passes.                                             *)
WindowCloses ==
  /\ row # "none" /\ window = "open" /\ window' = "closed"
  /\ UNCHANGED <<row, onTimeout, hostVars, cpVars, mission, resp, resVars,
                 cntVars, faults>>

(* The mission is finished by somebody other than StopMission.             *)
MissionEnds ==
  /\ mission = "open" /\ mission' = "terminal"
  /\ UNCHANGED <<rowVars, hostVars, cpVars, resp, resVars, cntVars, faults>>

(* resumeClaimStaleness passes without a touch: no live resume heartbeats  *)
(* the claim.                                                              *)
ClaimGoesStale ==
  /\ cpState = "saved" /\ claim = "fresh"
  /\ \A p \in Procs : rpc[p] \notin Holding
  /\ claim' = "stale"
  /\ UNCHANGED <<rowVars, hostVars, cpState, gateRes, mission, resp, resVars,
                 cntVars, faults>>

(* A process dies: its waiter, its half-done resolves and its resume go    *)
(* with it, the store stays.  The process may be started again.            *)
Crash(p) ==
  /\ Fault
  /\ resp' = [resp EXCEPT ![p] = "idle"]
  /\ rpc' = [rpc EXCEPT ![p] = "idle"]
  /\ rv' = [rv EXCEPT ![p] = "none"]
  /\ unrecorded' = IF rpc[p] = "executed" THEN unrecorded + 1 ELSE unrecorded
  /\ undeleted' = IF rpc[p] = "deleting" THEN undeleted + 1 ELSE undeleted
  /\ IF p = Host
     THEN /\ gate' = IF gate \in GateEnded THEN gate
                     ELSE IF gate = "suspended" THEN "gone" ELSE "failed"
          /\ waiter' = "none" /\ held' = "none"
     ELSE UNCHANGED <<gate, waiter, held>>
  /\ UNCHANGED <<rowVars, ctx, cpVars, mission, execs, completions>>

-----------------------------------------------------------------------------
(* The host: HITLWrapper.gateOnApproval and waitForVerdict.                *)

(* parkWaiter: registered before the row exists.                           *)
ParkWaiter ==
  /\ gate = "start" /\ gate' = "parked" /\ waiter' = "parked"
  /\ UNCHANGED <<rowVars, held, ctx, cpVars, mission, resp, resVars, cntVars,
                 faults>>

(* RecordPendingApproval: the attached call starts its wait, the detached  *)
(* one returns ApprovalPendingError at once.                               *)
RecordPendingApproval ==
  /\ gate \in {"parked", "detaching"} /\ row = "none" /\ ctx = "live"
  /\ row' = "pending"
  /\ gate' = IF gate = "parked" THEN "waiting" ELSE "suspending"
  /\ UNCHANGED <<onTimeout, window, held, ctx, waiter, cpVars, mission, resp,
                 resVars, cntVars, faults>>

(* The row could not be written (the turn is over, or the store fails):    *)
(* the waiter is released and the card alone decides, on an ask nobody     *)
(* else can see.                                                           *)
RecordFails ==
  /\ gate \in {"parked", "detaching"}
  /\ Fault \/ (ctx = "done" /\ UNCHANGED faults)
  /\ gate' = "adhoc" /\ waiter' = "none"
  /\ UNCHANGED <<rowVars, held, ctx, cpVars, mission, resp, resVars, cntVars>>

(* The select of waitForVerdict returns verdict v for a durable ask.       *)
Answered(v) ==
  /\ gate = "waiting" /\ gate' = "closing" /\ held' = v
  /\ UNCHANGED <<rowVars, ctx, waiter, cpVars, mission, resp, resVars,
                 cntVars, faults>>

CardAnswers == \E v \in CardSays : Answered(v)

WaiterWoken == waiter \in Verdicts /\ Answered(waiter)

(* Mutant: the poll takes every terminal row but a denied one as a yes.    *)
PollFindsVerdict_expiredAllows ==
  ctx = "live" /\ Resolved /\ Answered(IF row = "denied" THEN "deny" ELSE "allow")

(* A poll reads the row under the turn's own context.                      *)
PollFindsVerdict == ctx = "live" /\ Resolved /\ Answered(RowVerdict)

(* The wait's own timer: on_timeout stands in for the verdict.             *)
WaitElapses == ctx = "live" /\ window = "closed" /\ Answered(onTimeout)

WaitCancelled ==
  /\ gate = "waiting" /\ ctx = "done" /\ gate' = "leaving"
  /\ UNCHANGED <<rowVars, held, ctx, waiter, cpVars, mission, resp, resVars,
                 cntVars, faults>>

(* closeRowInline, then either the denial message or the inner tool.  A    *)
(* row that is already resolved is left as it is, and so is one the done   *)
(* context cannot reach; the call goes on with the verdict it holds.  The  *)
(* resolve also fills the call's own waiter, which nobody reads any more.  *)
CloseRowInline ==
  /\ gate = "closing"
  /\ row' = IF row = "pending" /\ ctx = "live" THEN StateOf(held) ELSE row
  /\ gate' = IF held = "allow" THEN "executing" ELSE "refused"
  /\ waiter' = IF held # "allow" THEN "none"
               ELSE IF row = "pending" /\ ctx = "live" /\ waiter = "parked"
               THEN held ELSE waiter
  /\ UNCHANGED <<onTimeout, window, held, ctx, cpVars, mission, resp, resVars,
                 cntVars, faults>>

(* inner.Exec in place; the deferred release unregisters the waiter.       *)
HostExecutes ==
  /\ gate = "executing" /\ gate' = "done" /\ waiter' = "none"
  /\ execs' = execs + 1
  /\ UNCHANGED <<rowVars, held, ctx, cpVars, mission, resp, resVars,
                 unrecorded, completions, undeleted, faults>>

(* The ask that has no row: answered by the card or timed out into its     *)
(* on_timeout verdict, else the call fails.                                *)
AdhocEnds ==
  /\ gate = "adhoc"
  /\ \/ \E v \in CardSays \cup (IF window = "never" THEN {} ELSE {onTimeout}) :
          held' = v /\ gate' = IF v = "allow" THEN "executing" ELSE "refused"
     \/ gate' = "failed" /\ held' = held
  /\ UNCHANGED <<rowVars, ctx, waiter, cpVars, mission, resp, resVars,
                 cntVars, faults>>

(* verdictLeaving: the deferred release drops the waiter; a call that      *)
(* cannot suspend fails, any other hands its run to the checkpoint.        *)
ReleaseWaiter ==
  /\ gate = "leaving" /\ waiter' = "none"
  /\ gate' \in {"suspending", "failed"}
  /\ UNCHANGED <<rowVars, held, ctx, cpVars, mission, resp, resVars, cntVars,
                 faults>>

(* suspendRun + SaveCheckpoint, on a context detached from the turn's.     *)
SaveCheckpoint ==
  /\ gate = "suspending" /\ gate' = "suspended" /\ cpState' = "saved"
  /\ UNCHANGED <<rowVars, held, ctx, waiter, claim, gateRes, mission, resp,
                 resVars, cntVars, faults>>

SaveFails ==
  /\ gate = "suspending" /\ Fault /\ gate' = "failed"
  /\ UNCHANGED <<rowVars, held, ctx, waiter, cpVars, mission, resp, resVars,
                 cntVars>>

(* Prompt's resumeIfAlreadyAnswered, which reads under the turn's context: *)
(* a done context reads nothing and resumes nothing.                       *)
ResumeIfAlreadyAnswered ==
  /\ gate = "suspended" /\ gate' = "gone"
  /\ IF ctx = "live" /\ Resolved
     THEN rpc[Host] = "idle" /\ rpc' = [rpc EXCEPT ![Host] = "begin"]
     ELSE UNCHANGED rpc
  /\ UNCHANGED <<rowVars, held, ctx, waiter, cpVars, mission, resp, rv,
                 cntVars, faults>>

-----------------------------------------------------------------------------
(* Whoever decides the ask: hitlservice.resolveRecorded, SweepExpired,     *)
(* AbandonMissionAsks under StopMission.                                   *)

(* requireResumerForVerdict: a process with neither the waiter nor a hook  *)
(* refuses an ask that has a checkpoint.                                   *)
RespondCheck(p) ==
  /\ resp[p] = "idle" /\ row # "none"
  /\ HasWaiter(p) \/ p \in Hooked \/ cpState # "saved"
  /\ resp' = [resp EXCEPT ![p] = "checked"]
  /\ UNCHANGED <<rowVars, hostVars, cpVars, mission, resVars, cntVars, faults>>

(* A verdict that finds the row resolved returns                           *)
(* ErrApprovalAlreadyResolved.                                             *)
RespondCAS(p) ==
  /\ resp[p] = "checked"
  /\ \/ /\ \E v \in Verdicts : ResolveHITLApproval(StateOf(v))
        /\ resp' = [resp EXCEPT ![p] = "resolved"]
     \/ /\ row # "pending"
        /\ resp' = [resp EXCEPT ![p] = "idle"] /\ UNCHANGED row
  /\ UNCHANGED <<onTimeout, window, hostVars, cpVars, mission, resVars,
                 cntVars, faults>>

SweepExpired(p) ==
  /\ resp[p] = "idle" /\ window = "closed"
  /\ ResolveHITLApproval("expired")
  /\ resp' = [resp EXCEPT ![p] = "resolved"]
  /\ UNCHANGED <<onTimeout, window, hostVars, cpVars, mission, resVars,
                 cntVars, faults>>

(* The waiter's channel holds one answer; a second is dropped.             *)
Wake(p) == waiter' = IF HasWaiter(p) /\ waiter = "parked" THEN RowVerdict
                     ELSE waiter

(* After the row is written: wake this process's waiter, or else run the   *)
(* resume hook, or else nothing.                                           *)
Deliver(p) ==
  /\ resp[p] = "resolved" /\ resp' = [resp EXCEPT ![p] = "idle"]
  /\ Wake(p)
  /\ IF ~HasWaiter(p) /\ p \in Hooked
     THEN rpc[p] = "idle" /\ rpc' = [rpc EXCEPT ![p] = "begin"]
     ELSE UNCHANGED rpc
  /\ UNCHANGED <<rowVars, gate, held, ctx, cpVars, mission, rv, cntVars,
                 faults>>

(* StopMission: finish the mission (one already abandoned is taken as its  *)
(* own success), deny its pending ask, wake the waiter but run no hook,    *)
(* delete the checkpoint of the ask it denied.                             *)
StopMission(p) ==
  /\ resp[p] = "idle" /\ mission' = "terminal"
  /\ resp' = [resp EXCEPT ![p] = "stopping"]
  /\ UNCHANGED <<rowVars, hostVars, cpVars, resVars, cntVars, faults>>

AbandonAsk(p) ==
  /\ resp[p] = "stopping"
  /\ \/ /\ ResolveHITLApproval("denied")
        /\ resp' = [resp EXCEPT ![p] = "abandoned"]
     \/ /\ row # "pending" /\ UNCHANGED row
        /\ resp' = [resp EXCEPT ![p] = "idle"]
  /\ UNCHANGED <<onTimeout, window, hostVars, cpVars, mission, resVars,
                 cntVars, faults>>

AbandonWakes(p) ==
  /\ resp[p] = "abandoned" /\ resp' = [resp EXCEPT ![p] = "purging"]
  /\ Wake(p)
  /\ UNCHANGED <<rowVars, gate, held, ctx, cpVars, mission, resVars, cntVars,
                 faults>>

PurgeCheckpoint(p) ==
  /\ resp[p] = "purging" /\ resp' = [resp EXCEPT ![p] = "idle"]
  /\ DeleteChainCheckpoint
  /\ UNCHANGED <<rowVars, hostVars, claim, gateRes, mission, resVars, cntVars,
                 faults>>

-----------------------------------------------------------------------------
(* ResumeFromCheckpoint in process p, started by the hook, by the host's   *)
(* inline check or by the stranded sweep.                                  *)

RunUnchanged == UNCHANGED <<rowVars, hostVars, mission, resp>>

RunMoves(p, pc) == rpc' = [rpc EXCEPT ![p] = pc]

RunEnds(p) == /\ rpc' = [rpc EXCEPT ![p] = "idle"]
              /\ rv' = [rv EXCEPT ![p] = "none"]

(* Mutant: the sweep lists only checkpoints nobody ever claimed.           *)
SweepStranded_neverClaimed(p) ==
  /\ p \in Hooked /\ rpc[p] = "idle"
  /\ cpState = "saved" /\ claim = "none" /\ Resolved
  /\ RunMoves(p, "begin")
  /\ RunUnchanged /\ UNCHANGED <<cpVars, rv, cntVars, faults>>

(* SweepStrandedCheckpoints: a checkpoint nobody holds whose ask is        *)
(* answered.                                                               *)
SweepStranded(p) ==
  /\ p \in Hooked /\ rpc[p] = "idle"
  /\ Claimable /\ Resolved
  /\ RunMoves(p, "begin")
  /\ RunUnchanged /\ UNCHANGED <<cpVars, rv, cntVars, faults>>

(* The row is read; a pending one is ErrApprovalUnanswered.                *)
ReadVerdict(p) ==
  /\ rpc[p] = "begin"
  /\ IF Resolved
     THEN RunMoves(p, "answered") /\ rv' = [rv EXCEPT ![p] = RowVerdict]
     ELSE RunEnds(p)
  /\ RunUnchanged /\ UNCHANGED <<cpVars, cntVars, faults>>

(* A terminal mission's checkpoint is deleted, not resumed.                *)
CheckMission(p) ==
  /\ rpc[p] = "answered"
  /\ IF mission = "terminal"
     THEN RunEnds(p) /\ DeleteChainCheckpoint
     ELSE RunMoves(p, "claim") /\ UNCHANGED <<rv, cpState>>
  /\ RunUnchanged /\ UNCHANGED <<claim, gateRes, cntVars, faults>>

(* A store error before the claim, the failed delete of a dead checkpoint  *)
(* included: the resume returns it and has changed nothing.                *)
ResumeGivesUp(p) ==
  /\ rpc[p] \in {"begin", "answered", "claim"} /\ Fault /\ RunEnds(p)
  /\ RunUnchanged /\ UNCHANGED <<cpVars, cntVars>>

(* Mutant: the claim does not look at claimed_at.                          *)
ClaimCheckpoint_blind(p) ==
  /\ rpc[p] = "claim"
  /\ IF cpState = "saved"
     THEN RunMoves(p, "claimed") /\ claim' = "fresh" /\ UNCHANGED rv
     ELSE RunEnds(p) /\ UNCHANGED claim
  /\ RunUnchanged /\ UNCHANGED <<cpState, gateRes, cntVars, faults>>

(* ClaimChainCheckpoint: one resumer wins, everyone else observes          *)
(* ErrNoCheckpoint.                                                        *)
ClaimCheckpoint(p) ==
  /\ rpc[p] = "claim"
  /\ IF Claimable
     THEN RunMoves(p, "claimed") /\ claim' = "fresh" /\ UNCHANGED rv
     ELSE RunEnds(p) /\ UNCHANGED claim
  /\ RunUnchanged /\ UNCHANGED <<cpState, gateRes, cntVars, faults>>

(* Mutant: the recorded gate result is not consulted.                      *)
LoadCheckpoint_noReplay(p) ==
  /\ rpc[p] = "claimed"
  /\ IF cpState = "saved"
     THEN /\ RunMoves(p, IF rv[p] = "allow" THEN "executing" ELSE "completing")
          /\ UNCHANGED rv
     ELSE RunEnds(p)
  /\ RunUnchanged /\ UNCHANGED <<cpVars, cntVars, faults>>

(* Mutant: the injected verdict is not consulted.                          *)
LoadCheckpoint_ignoresDenial(p) ==
  /\ rpc[p] = "claimed"
  /\ IF cpState = "saved"
     THEN /\ RunMoves(p, IF gateRes = "none" THEN "executing" ELSE "completing")
          /\ UNCHANGED rv
     ELSE RunEnds(p)
  /\ RunUnchanged /\ UNCHANGED <<cpVars, cntVars, faults>>

(* The claimed row is loaded and decoded.  An allowed call executes unless *)
(* its gate result is recorded; a denied or a recorded one only replays.   *)
LoadCheckpoint(p) ==
  /\ rpc[p] = "claimed"
  /\ IF cpState = "saved"
     THEN /\ RunMoves(p, IF rv[p] = "allow" /\ gateRes = "none"
                         THEN "executing" ELSE "completing")
          /\ UNCHANGED rv
     ELSE RunEnds(p)
  /\ RunUnchanged /\ UNCHANGED <<cpVars, cntVars, faults>>

(* inner.Exec under the injected verdict.                                  *)
ResumeExecutes(p) ==
  /\ rpc[p] = "executing" /\ RunMoves(p, "executed")
  /\ execs' = execs + 1
  /\ RunUnchanged
  /\ UNCHANGED <<cpVars, rv, unrecorded, completions, undeleted, faults>>

(* The tool reports an error: nothing is recorded and the run goes on.     *)
ToolErrs(p) ==
  /\ rpc[p] = "executing" /\ Fault /\ RunMoves(p, "completing")
  /\ RunUnchanged /\ UNCHANGED <<cpVars, rv, cntVars>>

(* UpdateChainCheckpointPayload with the gate result; no row to update is  *)
(* an error, and so is a failed write: ErrGateRecordFailed ends the run.   *)
RecordGateResult(p) ==
  /\ rpc[p] = "executed"
  /\ IF cpState = "saved"
     THEN /\ gateRes' = "recorded" /\ RunMoves(p, "completing")
          /\ UNCHANGED <<rv, unrecorded>>
     ELSE /\ RunEnds(p) /\ unrecorded' = unrecorded + 1
          /\ UNCHANGED gateRes
  /\ RunUnchanged
  /\ UNCHANGED <<cpState, claim, execs, completions, undeleted, faults>>

RecordGateFails(p) ==
  /\ rpc[p] = "executed" /\ Fault /\ RunEnds(p)
  /\ unrecorded' = unrecorded + 1
  /\ RunUnchanged /\ UNCHANGED <<cpVars, execs, completions, undeleted>>

(* The rest of the chain returns: finished (or suspended again under a new *)
(* ask, which has a row and a checkpoint of its own).                      *)
RunCompletes(p) ==
  /\ rpc[p] = "completing" /\ RunMoves(p, "deleting")
  /\ completions' = completions + 1
  /\ RunUnchanged
  /\ UNCHANGED <<cpVars, rv, execs, unrecorded, undeleted, faults>>

(* Mutant: a failed resume deletes its checkpoint.                         *)
RunFails_deletes(p) ==
  /\ rpc[p] \in {"claimed", "completing"} /\ Fault /\ RunEnds(p)
  /\ cpState' = "deleted"
  /\ RunUnchanged /\ UNCHANGED <<claim, gateRes, cntVars>>

(* The load fails to decode or the run fails: the checkpoint is annotated  *)
(* and kept, its claim left as it is.                                      *)
RunFails(p) ==
  /\ rpc[p] \in {"claimed", "completing"} /\ Fault /\ RunEnds(p)
  /\ RunUnchanged /\ UNCHANGED <<cpVars, cntVars>>

DeleteCheckpoint(p) ==
  /\ rpc[p] = "deleting" /\ RunEnds(p) /\ DeleteChainCheckpoint
  /\ RunUnchanged /\ UNCHANGED <<claim, gateRes, cntVars, faults>>

DeleteFails(p) ==
  /\ rpc[p] = "deleting" /\ cpState = "saved" /\ Fault /\ RunEnds(p)
  /\ undeleted' = undeleted + 1
  /\ RunUnchanged /\ UNCHANGED <<cpVars, execs, unrecorded, completions>>

-----------------------------------------------------------------------------
HostNext ==
  \/ ParkWaiter \/ RecordPendingApproval \/ CardAnswers \/ WaiterWoken
  \/ PollFindsVerdict \/ WaitElapses \/ WaitCancelled \/ CloseRowInline
  \/ HostExecutes \/ AdhocEnds \/ ReleaseWaiter \/ SaveCheckpoint
  \/ ResumeIfAlreadyAnswered

(* The steps a process takes on its own once it has begun something.       *)
FollowThrough(p) ==
  \/ RespondCAS(p) \/ Deliver(p)
  \/ AbandonAsk(p) \/ AbandonWakes(p) \/ PurgeCheckpoint(p)

RunNext(p) ==
  \/ ReadVerdict(p) \/ CheckMission(p) \/ ClaimCheckpoint(p)
  \/ LoadCheckpoint(p) \/ ResumeExecutes(p) \/ RecordGateResult(p)
  \/ RunCompletes(p) \/ DeleteCheckpoint(p)

(* What people and clocks decide to do.                                    *)
Begin(p) == RespondCheck(p) \/ SweepExpired(p) \/ StopMission(p)

Faulty ==
  \/ RecordFails \/ SaveFails
  \/ \E p \in Procs : \/ Crash(p) \/ ToolErrs(p) \/ RecordGateFails(p)
                       \/ ResumeGivesUp(p) \/ RunFails(p) \/ DeleteFails(p)

Next ==
  \/ HostNext
  \/ CancelTurn \/ WindowCloses \/ MissionEnds \/ ClaimGoesStale
  \/ \E p \in Procs : \/ Begin(p) \/ FollowThrough(p) \/ RunNext(p)
                       \/ SweepStranded(p)
  \/ Faulty

Spec == Init /\ [][Next]_vars

(* A holder that is still running misses its heartbeats for a whole        *)
(* resumeClaimStaleness (it is paused, or every touch fails: the error is  *)
(* dropped), so its claim looks abandoned.                                 *)
HeartbeatsMissed ==
  /\ cpState = "saved" /\ claim = "fresh" /\ Fault
  /\ \E p \in Procs : rpc[p] \in Holding
  /\ claim' = "stale"
  /\ UNCHANGED <<rowVars, hostVars, cpState, gateRes, mission, resp, resVars,
                 cntVars>>

(* TouchChainCheckpointClaim: UPDATE ... WHERE claimed_at IS NOT NULL, of  *)
(* whoever's claim there is.                                               *)
TouchClaim(p) ==
  /\ rpc[p] \in Holding /\ cpState = "saved" /\ claim = "stale"
  /\ claim' = "fresh"
  /\ UNCHANGED <<rowVars, hostVars, cpState, gateRes, mission, resp, resVars,
                 cntVars, faults>>

(* The protocol when heartbeats may be missed and the operator comes back  *)
(* to `approvals list', which sweeps.                                      *)
StalledNext == Next \/ HeartbeatsMissed \/ \E p \in Procs : TouchClaim(p)

(* Fairness: a process that has begun something goes on (goroutines run,   *)
(* store calls return), an untouched claim does age.                       *)
Progress ==
  /\ WF_vars(HostNext) /\ WF_vars(ClaimGoesStale)
  /\ \A p \in Procs : WF_vars(FollowThrough(p)) /\ WF_vars(RunNext(p))

SweptSpec ==
  /\ Init /\ [][StalledNext]_vars /\ Progress
  /\ \A p \in Hooked : WF_vars(SweepStranded(p))

-----------------------------------------------------------------------------
(* The values the rows and the processes' locals take.                     *)
TypeOK ==
  /\ row \in RowStates /\ onTimeout \in Verdicts
  /\ window \in {"open", "closed", "never"}
  /\ gate \in GateStates /\ held \in Verdicts \cup {"none"}
  /\ ctx \in {"live", "done"}
  /\ waiter \in {"none", "parked"} \cup Verdicts
  /\ cpState \in {"none", "saved", "deleted"}
  /\ claim \in {"none", "fresh", "stale"} /\ gateRes \in {"none", "recorded"}
  /\ mission \in {"open", "terminal"}
  /\ resp \in [Procs -> RespStates] /\ rpc \in [Procs -> RunStates]
  /\ rv \in [Procs -> Verdicts \cup {"none"}]
  /\ execs \in Nat /\ unrecorded \in Nat
  /\ completions \in Nat /\ undeleted \in Nat /\ faults \in 0..MaxFaults

(* At most one resume drives the run at any time, and none while the       *)
(* call that raised the ask can still run the tool in its own process.     *)
(* This is what ClaimChainCheckpoint and its heartbeat are for.            *)
OneDriver ==
  /\ \A p, q \in Procs : rpc[p] \in Holding /\ rpc[q] \in Holding => p = q
  /\ gate \notin {"suspended", "gone"} => \A p \in Procs : rpc[p] \notin Holding

(* The gated tool runs once, plus once for every execution whose gate      *)
(* result could not be stored before its process died or its write failed: *)
(* retries, sweeps and re-claims replay instead (GateResultStore).         *)
ToolAtMostOnce == execs <= 1 + unrecorded

(* The suspended run reaches its end once, plus once for every completed   *)
(* resume that could not delete its checkpoint.                            *)
RunAtMostOnce == completions <= 1 + undeleted

(* A resume executes the tool only while the durable row says allow: no    *)
(* verdict is read before it is final, whoever wrote it.                   *)
ResumeObeysRow ==
  \A p \in Procs : rpc[p] \in {"executing", "executed"} =>
                    Resolved /\ RowVerdict = "allow"

(* A run its process released is never lost: its checkpoint stays until    *)
(* some resume has finished it or its mission is over, through crashes,    *)
(* failed runs and failed writes.                                          *)
NoRunLost ==
  gate \in {"suspended", "gone"} =>
    cpState = "saved" \/ completions > 0 \/ mission = "terminal"

(* A verdict is recorded exactly once: ResolveHITLApproval never rewrites  *)
(* a row that left pending, whoever races whom.                            *)
VerdictIsFinal == [][Resolved => UNCHANGED <<row, onTimeout>>]_vars

(* With no local card and a rule that denies on timeout, a call blocked on *)
(* its ask runs the tool only under the row's own verdict: the waiter and  *)
(* the poll never report a verdict the row does not carry.                 *)
RemoteVerdictObeyed ==
  CardSays = {} /\ onTimeout = "deny" /\ gate = "executing" /\ row # "none" =>
    Resolved /\ RowVerdict = "allow"

(* An answered ask with a checkpoint is carried to its end, given that     *)
(* somebody keeps sweeping: no interleaving, crash or failed resume leaves *)
(* a checkpoint that the stranded sweep can never revive.                  *)
AnsweredIsResumed ==
  (cpState = "saved" /\ Resolved) ~> (cpState = "deleted")

(* Who holds the run: its host until the checkpoint is saved, then the     *)
(* resume that holds the claim, nobody, or nobody ever again.              *)
Driver == IF cpState = "none" THEN "host"
          ELSE IF \E p \in Procs : rpc[p] \in Holding THEN "resume"
          ELSE IF cpState = "saved" THEN "free" ELSE "over"

Ownership == INSTANCE RunOwnership
               WITH verdict <- IF Resolved THEN RowVerdict ELSE "none",
                    driver <- Driver, ran <- execs

(* The whole protocol, with its crashes, sweeps and failed writes, keeps   *)
(* the promise of RunOwnership: one verdict, one driver at a time, and no  *)
(* take-up or tool run without the decision it depends on.                 *)
ImplementsOwnership == Ownership!Spec

=============================================================================
