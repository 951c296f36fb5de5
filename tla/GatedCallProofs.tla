-------------------------- MODULE GatedCallProofs --------------------------
(***************************************************************************)
(* The safety of GatedCall for any set of processes, any set of hooked     *)
(* ones, any card and any number of faults.                                *)
(*                                                                         *)
(* The inductive invariant has five parts beside the types.  ClaimInv says *)
(* who may drive the run: at most one resume holds the claim, the claim it *)
(* holds is fresh as long as the checkpoint exists, and a checkpoint       *)
(* exists only once the host has let go.  VerdictInv says what a resume    *)
(* has read, AnswerInv the same of the call that is blocked in its host,   *)
(* ToolInv and RunInv count executions and completions.                    *)
(***************************************************************************)
EXTENDS GatedCall, TLAPS

USE DEF ResolveHITLApproval, Claimable, DeleteChainCheckpoint

ClaimInv ==
  /\ \A p, q \in Procs : rpc[p] \in Holding /\ rpc[q] \in Holding => p = q
  /\ \A p \in Procs : rpc[p] \in Holding =>
       cpState # "none" /\ (cpState = "saved" => claim = "fresh")
  /\ cpState # "none" <=> gate \in {"suspended", "gone"}

VerdictInv ==
  /\ \A p \in Procs : rpc[p] \in {"answered", "claim"} \cup Holding =>
       Resolved /\ rv[p] = RowVerdict
  /\ \A p \in Procs : rpc[p] \in {"executing", "executed"} => rv[p] = "allow"
  /\ \A p \in Procs : resp[p] \in {"abandoned", "purging"} => Resolved

(* An answer in the waiter's channel is the row's.  Where neither a card   *)
(* nor the clock can allow, so is the verdict the call goes on with.       *)
AnswerInv ==
  /\ waiter \in Verdicts => Resolved /\ waiter = RowVerdict
  /\ \A p \in Procs : resp[p] = "resolved" => Resolved
  /\ gate \in {"start", "parked", "detaching", "adhoc"} => row = "none"
  /\ CardSays = {} /\ onTimeout = "deny" =>
       /\ gate = "closing" /\ held = "allow" => Resolved /\ RowVerdict = "allow"
       /\ gate = "executing" /\ row # "none" => Resolved /\ RowVerdict = "allow"

ToolInv ==
  /\ gate \notin {"suspended", "gone", "done"} => execs = 0
  /\ execs <= 1 + unrecorded
  /\ \A p \in Procs : rpc[p] \in {"executing", "executed"} => gateRes = "none"
  /\ cpState # "none" /\ gateRes = "none" /\ (\A p \in Procs : rpc[p] # "executed")
       => execs <= unrecorded

RunInv ==
  /\ completions <= 1 + undeleted
  /\ \A p \in Procs : rpc[p] \in Holding \ {"deleting"} => completions <= undeleted
  /\ cpState # "deleted" /\ (\A p \in Procs : rpc[p] # "deleting")
       => completions <= undeleted
  /\ \A p \in Procs : rpc[p] = "deleting" => completions > 0
  /\ cpState = "deleted" => completions > 0 \/ mission = "terminal"
  /\ \A p \in Procs : resp[p] \in {"stopping", "abandoned", "purging"} =>
       mission = "terminal"

IInv == TypeOK /\ ClaimInv /\ VerdictInv /\ AnswerInv /\ ToolInv /\ RunInv
-----------------------------------------------------------------------------
(* Every variable of GatedCall keeps its type in every step.               *)
LEMMA TypeStep == TypeOK /\ [Next]_vars => TypeOK'
<1> SUFFICES ASSUME TypeOK, [Next]_vars PROVE TypeOK'
  OBVIOUS
<1> USE DEF TypeOK, Verdicts, RowStates, GateStates, GateEnded, RespStates,
            RunStates, rowVars, hostVars, cpVars, resVars, cntVars
<1>1. CASE HostNext
  BY <1>1, GatedCallConstants DEF GatedCallConstants, HostNext, ParkWaiter, RecordPendingApproval, CardAnswers,
     WaiterWoken, PollFindsVerdict, WaitElapses, WaitCancelled, Answered,
     CloseRowInline, HostExecutes, AdhocEnds, ReleaseWaiter, SaveCheckpoint,
     ResumeIfAlreadyAnswered, StateOf, RowVerdict, Resolved
<1>2. CASE CancelTurn \/ WindowCloses \/ MissionEnds \/ ClaimGoesStale
  BY <1>2, Zenon DEF CancelTurn, WindowCloses, MissionEnds, ClaimGoesStale
<1>3. ASSUME NEW p \in Procs, Begin(p) PROVE TypeOK'
  BY <1>3, Zenon DEF Begin, RespondCheck, SweepExpired, StopMission
<1>4. ASSUME NEW p \in Procs, FollowThrough(p) PROVE TypeOK'
  BY <1>4, Zenon DEF FollowThrough, RespondCAS, Deliver, AbandonAsk, AbandonWakes,
     PurgeCheckpoint, Wake, StateOf, RowVerdict
<1>5. ASSUME NEW p \in Procs, RunNext(p) \/ SweepStranded(p) PROVE TypeOK'
  BY <1>5 DEF RunNext, ReadVerdict, CheckMission, ClaimCheckpoint,
     LoadCheckpoint, ResumeExecutes, RecordGateResult, RunCompletes,
     DeleteCheckpoint, SweepStranded, RunMoves, RunEnds, RunUnchanged, RowVerdict
<1>6. CASE Faulty
  BY <1>6, GatedCallConstants DEF GatedCallConstants, Faulty, RecordFails,
     SaveFails, Crash, ToolErrs, RecordGateFails, ResumeGivesUp, RunFails, DeleteFails, Fault,
     RunMoves, RunEnds, RunUnchanged
<1>7. CASE UNCHANGED vars
  BY <1>7 DEF vars
<1> QED
  BY <1>1, <1>2, <1>3, <1>4, <1>5, <1>6, <1>7, Zenon DEF Next

(* The claim excludes: no step lets a second resume in, ages a held claim  *)
(* or saves a checkpoint while the host still drives the call.             *)
LEMMA ClaimStep == TypeOK /\ ClaimInv /\ [Next]_vars => ClaimInv'
<1> SUFFICES ASSUME TypeOK, ClaimInv, [Next]_vars PROVE ClaimInv'
  OBVIOUS
<1> USE DEF TypeOK, ClaimInv, Holding, rowVars, hostVars, cpVars, resVars
<1>1. CASE HostNext
  BY <1>1 DEF HostNext, ParkWaiter, RecordPendingApproval, CardAnswers,
     WaiterWoken, PollFindsVerdict, WaitElapses, WaitCancelled, Answered,
     CloseRowInline, HostExecutes, AdhocEnds, ReleaseWaiter, SaveCheckpoint,
     ResumeIfAlreadyAnswered
<1>2. CASE CancelTurn \/ WindowCloses \/ MissionEnds \/ ClaimGoesStale
  BY <1>2, Zenon DEF CancelTurn, WindowCloses, MissionEnds, ClaimGoesStale
<1>3. ASSUME NEW p \in Procs, Begin(p) PROVE ClaimInv'
  BY <1>3, Zenon DEF Begin, RespondCheck, SweepExpired, StopMission
<1>4. ASSUME NEW p \in Procs, FollowThrough(p) PROVE ClaimInv'
  BY <1>4 DEF FollowThrough, RespondCAS, Deliver, AbandonAsk, AbandonWakes,
     PurgeCheckpoint
<1>5. ASSUME NEW p \in Procs, RunNext(p) \/ SweepStranded(p) PROVE ClaimInv'
  BY <1>5 DEF RunNext, ReadVerdict, CheckMission, ClaimCheckpoint,
     LoadCheckpoint, ResumeExecutes, RecordGateResult, RunCompletes,
     DeleteCheckpoint, SweepStranded, RunMoves, RunEnds, RunUnchanged
<1>6. CASE Faulty
  BY <1>6 DEF Faulty, RecordFails, SaveFails, Crash, ToolErrs,
     RecordGateFails, ResumeGivesUp, RunFails, DeleteFails, RunMoves, RunEnds, RunUnchanged,
     GateEnded
<1>7. CASE UNCHANGED vars
  BY <1>7, Zenon DEF vars
<1> QED
  BY <1>1, <1>2, <1>3, <1>4, <1>5, <1>6, <1>7, Zenon DEF Next

(* A resume keeps the verdict it read, and the row it read it from no      *)
(* longer changes.                                                         *)
LEMMA VerdictStep == TypeOK /\ VerdictInv /\ [Next]_vars => VerdictInv'
<1> SUFFICES ASSUME TypeOK, VerdictInv, [Next]_vars PROVE VerdictInv'
  OBVIOUS
<1> USE DEF TypeOK, VerdictInv, Holding, Resolved, RowVerdict, Verdicts,
            rowVars, hostVars, cpVars, resVars
<1>1. CASE HostNext
  BY <1>1, Zenon DEF HostNext, ParkWaiter, RecordPendingApproval, CardAnswers,
     WaiterWoken, PollFindsVerdict, WaitElapses, WaitCancelled, Answered,
     CloseRowInline, HostExecutes, AdhocEnds, ReleaseWaiter, SaveCheckpoint,
     ResumeIfAlreadyAnswered, StateOf
<1>2. CASE CancelTurn \/ WindowCloses \/ MissionEnds \/ ClaimGoesStale
  BY <1>2, Zenon DEF CancelTurn, WindowCloses, MissionEnds, ClaimGoesStale
<1>3. ASSUME NEW p \in Procs, Begin(p) PROVE VerdictInv'
  BY <1>3 DEF Begin, RespondCheck, SweepExpired, StopMission
<1>4. ASSUME NEW p \in Procs, FollowThrough(p) PROVE VerdictInv'
  BY <1>4 DEF FollowThrough, RespondCAS, Deliver, AbandonAsk, AbandonWakes,
     PurgeCheckpoint, StateOf
<1>5. ASSUME NEW p \in Procs, RunNext(p) \/ SweepStranded(p) PROVE VerdictInv'
  BY <1>5 DEF RunNext, ReadVerdict, CheckMission, ClaimCheckpoint,
     LoadCheckpoint, ResumeExecutes, RecordGateResult, RunCompletes,
     DeleteCheckpoint, SweepStranded, RunMoves, RunEnds, RunUnchanged
<1>6. CASE Faulty
  BY <1>6 DEF Faulty, RecordFails, SaveFails, Crash, ToolErrs,
     RecordGateFails, ResumeGivesUp, RunFails, DeleteFails, RunMoves, RunEnds, RunUnchanged,
     GateEnded
<1>7. CASE UNCHANGED vars
  BY <1>7, Zenon DEF vars
<1> QED
  BY <1>1, <1>2, <1>3, <1>4, <1>5, <1>6, <1>7, Zenon DEF Next

(* The waiter and the poll hand the host the row's own verdict, and the    *)
(* host holds on to it while it closes the row.                            *)
LEMMA AnswerStep == TypeOK /\ VerdictInv /\ AnswerInv /\ [Next]_vars => AnswerInv'
<1> SUFFICES ASSUME TypeOK, VerdictInv, AnswerInv, [Next]_vars PROVE AnswerInv'
  OBVIOUS
<1> USE DEF TypeOK, AnswerInv, Resolved, RowVerdict, Verdicts, rowVars, hostVars,
            cpVars, resVars
<1>1. CASE ParkWaiter \/ RecordPendingApproval \/ WaitCancelled \/ HostExecutes \/ ReleaseWaiter
  BY <1>1, Zenon DEF ParkWaiter, RecordPendingApproval, WaitCancelled, HostExecutes, ReleaseWaiter
<1>2. CASE CardAnswers \/ WaiterWoken \/ PollFindsVerdict \/ WaitElapses
  BY <1>2, Zenon DEF CardAnswers, WaiterWoken, PollFindsVerdict, WaitElapses, Answered
<1>3. CASE CloseRowInline
  BY <1>3, Zenon DEF CloseRowInline, StateOf
<1>4. CASE AdhocEnds \/ SaveCheckpoint \/ ResumeIfAlreadyAnswered
  BY <1>4, Zenon DEF AdhocEnds, SaveCheckpoint, ResumeIfAlreadyAnswered
<1>5. CASE CancelTurn \/ WindowCloses \/ MissionEnds \/ ClaimGoesStale
  BY <1>5 DEF CancelTurn, WindowCloses, MissionEnds, ClaimGoesStale
<1>6. ASSUME NEW p \in Procs, Begin(p) PROVE AnswerInv'
  BY <1>6 DEF Begin, RespondCheck, SweepExpired, StopMission
<1>7. ASSUME NEW p \in Procs, FollowThrough(p) PROVE AnswerInv'
  BY <1>7 DEF FollowThrough, RespondCAS, Deliver, AbandonAsk, AbandonWakes,
     PurgeCheckpoint, Wake, StateOf, VerdictInv
<1>8. ASSUME NEW p \in Procs, RunNext(p) \/ SweepStranded(p) PROVE AnswerInv'
  BY <1>8 DEF RunNext, ReadVerdict, CheckMission, ClaimCheckpoint,
     LoadCheckpoint, ResumeExecutes, RecordGateResult, RunCompletes,
     DeleteCheckpoint, SweepStranded, RunUnchanged
<1>9. CASE Faulty
  BY <1>9 DEF Faulty, RecordFails, SaveFails, Crash, ToolErrs, RecordGateFails,
     ResumeGivesUp, RunFails, DeleteFails, RunUnchanged, GateEnded
<1>10. CASE UNCHANGED vars
  BY <1>10, Zenon DEF vars
<1> QED
  BY <1>1, <1>2, <1>3, <1>4, <1>5, <1>6, <1>7, <1>8, <1>9, <1>10, Zenon DEF Next, HostNext

(* Executions are counted: before an execution there are no more of them   *)
(* than lost records, and only one resume can be about to execute.         *)
LEMMA ToolStep == TypeOK /\ ClaimInv /\ ToolInv /\ [Next]_vars => ToolInv'
<1> SUFFICES ASSUME TypeOK, ClaimInv, ToolInv, [Next]_vars PROVE ToolInv'
  OBVIOUS
<1> USE DEF TypeOK, ClaimInv, ToolInv, Holding, rowVars, hostVars, cpVars,
            resVars, cntVars
<1>1. CASE HostNext
  BY <1>1 DEF HostNext, ParkWaiter, RecordPendingApproval, CardAnswers,
     WaiterWoken, PollFindsVerdict, WaitElapses, WaitCancelled, Answered,
     CloseRowInline, HostExecutes, AdhocEnds, ReleaseWaiter, SaveCheckpoint,
     ResumeIfAlreadyAnswered
<1>2. CASE CancelTurn \/ WindowCloses \/ MissionEnds \/ ClaimGoesStale
  BY <1>2, Zenon DEF CancelTurn, WindowCloses, MissionEnds, ClaimGoesStale
<1>3. ASSUME NEW p \in Procs, Begin(p) PROVE ToolInv'
  BY <1>3, Zenon DEF Begin, RespondCheck, SweepExpired, StopMission
<1>4. ASSUME NEW p \in Procs, FollowThrough(p) PROVE ToolInv'
  BY <1>4 DEF FollowThrough, RespondCAS, Deliver, AbandonAsk, AbandonWakes,
     PurgeCheckpoint
<1>5. ASSUME NEW p \in Procs, RunNext(p) \/ SweepStranded(p) PROVE ToolInv'
  BY <1>5 DEF RunNext, ReadVerdict, CheckMission, ClaimCheckpoint,
     LoadCheckpoint, ResumeExecutes, RecordGateResult, RunCompletes,
     DeleteCheckpoint, SweepStranded, RunMoves, RunEnds, RunUnchanged
<1>6. CASE Faulty
  BY <1>6 DEF Faulty, RecordFails, SaveFails, Crash, ToolErrs,
     RecordGateFails, ResumeGivesUp, RunFails, DeleteFails, RunMoves, RunEnds, RunUnchanged,
     GateEnded
<1>7. CASE UNCHANGED vars
  BY <1>7, Zenon DEF vars
<1> QED
  BY <1>1, <1>2, <1>3, <1>4, <1>5, <1>6, <1>7, Zenon DEF Next

(* Completions are counted the same way, and a checkpoint is deleted only  *)
(* after a completion or for a finished mission.                           *)
LEMMA RunStep == TypeOK /\ ClaimInv /\ RunInv /\ [Next]_vars => RunInv'
<1> SUFFICES ASSUME TypeOK, ClaimInv, RunInv, [Next]_vars PROVE RunInv'
  OBVIOUS
<1> USE DEF TypeOK, ClaimInv, RunInv, Holding, rowVars, hostVars, cpVars,
            resVars, cntVars
<1>1. CASE HostNext
  BY <1>1 DEF HostNext, ParkWaiter, RecordPendingApproval, CardAnswers,
     WaiterWoken, PollFindsVerdict, WaitElapses, WaitCancelled, Answered,
     CloseRowInline, HostExecutes, AdhocEnds, ReleaseWaiter, SaveCheckpoint,
     ResumeIfAlreadyAnswered
<1>2. CASE CancelTurn \/ WindowCloses \/ MissionEnds \/ ClaimGoesStale
  BY <1>2, Zenon DEF CancelTurn, WindowCloses, MissionEnds, ClaimGoesStale
<1>3. ASSUME NEW p \in Procs, Begin(p) PROVE RunInv'
  BY <1>3 DEF Begin, RespondCheck, SweepExpired, StopMission
<1>4. ASSUME NEW p \in Procs, FollowThrough(p) PROVE RunInv'
  BY <1>4 DEF FollowThrough, RespondCAS, Deliver, AbandonAsk, AbandonWakes,
     PurgeCheckpoint
<1>5. ASSUME NEW p \in Procs, RunNext(p) \/ SweepStranded(p) PROVE RunInv'
  BY <1>5 DEF RunNext, ReadVerdict, CheckMission, ClaimCheckpoint,
     LoadCheckpoint, ResumeExecutes, RecordGateResult, RunCompletes,
     DeleteCheckpoint, SweepStranded, RunMoves, RunEnds, RunUnchanged
<1>6. CASE Faulty
  BY <1>6 DEF Faulty, RecordFails, SaveFails, Crash, ToolErrs,
     RecordGateFails, ResumeGivesUp, RunFails, DeleteFails, RunMoves, RunEnds, RunUnchanged,
     GateEnded
<1>7. CASE UNCHANGED vars
  BY <1>7, Zenon DEF vars
<1> QED
  BY <1>1, <1>2, <1>3, <1>4, <1>5, <1>6, <1>7, Zenon DEF Next

-----------------------------------------------------------------------------
(* The initial states satisfy the inductive invariant.                     *)
LEMMA InitIInv == Init => IInv
BY GatedCallConstants DEF GatedCallConstants, Init, IInv, TypeOK, ClaimInv,
   VerdictInv, AnswerInv, ToolInv, RunInv, Holding, Verdicts, RowStates, GateStates,
   RespStates, RunStates

(* The inductive invariant holds in every reachable state.                 *)
THEOREM Inductive == Spec => []IInv
<1>1. IInv /\ [Next]_vars => IInv'
  BY TypeStep, ClaimStep, VerdictStep, AnswerStep, ToolStep, RunStep, Zenon DEF IInv
<1> QED
  BY InitIInv, <1>1, PTL DEF Spec

(* Every variable keeps its type, for any processes and any faults.        *)
THEOREM TypeCorrect == Spec => []TypeOK
BY Inductive, PTL DEF IInv

(* ClaimChainCheckpoint and its heartbeat admit one driver at a time, and  *)
(* never a resume beside the call that is still blocked in its host.       *)
THEOREM ClaimExcludes == Spec => []OneDriver
<1>1. IInv => OneDriver
  BY Zenon DEF IInv, ClaimInv, OneDriver
<1> QED
  BY Inductive, <1>1, PTL

(* The gated tool runs at most once more than gate results were lost.      *)
THEOREM ToolOnce == Spec => []ToolAtMostOnce
<1>1. IInv => ToolAtMostOnce
  BY Zenon DEF IInv, ToolInv, ToolAtMostOnce
<1> QED
  BY Inductive, <1>1, PTL

(* The suspended run completes at most once more than completed resumes    *)
(* failed to delete their checkpoint.                                      *)
THEOREM RunOnce == Spec => []RunAtMostOnce
<1>1. IInv => RunAtMostOnce
  BY Zenon DEF IInv, RunInv, RunAtMostOnce
<1> QED
  BY Inductive, <1>1, PTL

(* No resume runs the tool unless the durable row says allow.              *)
THEOREM ResumeUnderVerdict == Spec => []ResumeObeysRow
<1>1. IInv => ResumeObeysRow
  BY Zenon DEF IInv, VerdictInv, ResumeObeysRow, Holding
<1> QED
  BY Inductive, <1>1, PTL

(* A call blocked on its ask, with no card to answer it and a rule that    *)
(* denies on timeout, runs the tool only under the row's own verdict:      *)
(* whatever raced whom, the wait returned what the row says.               *)
THEOREM HostUnderVerdict == Spec => []RemoteVerdictObeyed
<1>1. IInv => RemoteVerdictObeyed
  BY Zenon DEF IInv, AnswerInv, RemoteVerdictObeyed
<1> QED
  BY Inductive, <1>1, PTL

(* A released run keeps its checkpoint until it is completed or its        *)
(* mission is over.                                                        *)
THEOREM RunNotLost == Spec => []NoRunLost
<1>1. IInv => NoRunLost
  BY Zenon DEF IInv, TypeOK, ClaimInv, RunInv, NoRunLost
<1> QED
  BY Inductive, <1>1, PTL

(* Whoever resolves the row first wins for good.                           *)
THEOREM VerdictOnce == Spec => VerdictIsFinal
<1>1. [Next]_vars => [Resolved => UNCHANGED <<row, onTimeout>>]_vars
  <2> SUFFICES ASSUME Next, Resolved PROVE UNCHANGED <<row, onTimeout>>
    OBVIOUS
  <2> USE DEF Resolved, rowVars
  <2>1. CASE HostNext
    BY <2>1, Zenon DEF HostNext, ParkWaiter, RecordPendingApproval, CardAnswers,
       WaiterWoken, PollFindsVerdict, WaitElapses, WaitCancelled, Answered,
       CloseRowInline, HostExecutes, AdhocEnds, ReleaseWaiter, SaveCheckpoint,
       ResumeIfAlreadyAnswered
  <2>2. CASE CancelTurn \/ WindowCloses \/ MissionEnds \/ ClaimGoesStale
    BY <2>2, Zenon DEF CancelTurn, WindowCloses, MissionEnds, ClaimGoesStale
  <2>3. ASSUME NEW p \in Procs, Begin(p) \/ FollowThrough(p)
        PROVE  UNCHANGED <<row, onTimeout>>
    BY <2>3, Zenon DEF Begin, RespondCheck, SweepExpired, StopMission, FollowThrough,
       RespondCAS, Deliver, AbandonAsk, AbandonWakes, PurgeCheckpoint
  <2>4. ASSUME NEW p \in Procs, RunNext(p) \/ SweepStranded(p)
        PROVE  UNCHANGED <<row, onTimeout>>
    BY <2>4, Zenon DEF RunNext, ReadVerdict, CheckMission, ClaimCheckpoint,
       LoadCheckpoint, ResumeExecutes, RecordGateResult, RunCompletes,
       DeleteCheckpoint, SweepStranded, RunUnchanged
  <2>5. CASE Faulty
    BY <2>5, Zenon DEF Faulty, RecordFails, SaveFails, Crash, ToolErrs,
       RecordGateFails, ResumeGivesUp, RunFails, DeleteFails, RunUnchanged
  <2> QED
    BY <2>1, <2>2, <2>3, <2>4, <2>5, Zenon DEF Next
<1> QED
  BY <1>1, PTL DEF Spec, VerdictIsFinal

-----------------------------------------------------------------------------
(* The refinement.  Most steps leave everything RunOwnership speaks of     *)
(* alone; the others are one of its actions.                               *)
Quiet ==
  /\ UNCHANGED <<row, onTimeout, cpState, execs>>
  /\ \A q \in Procs : rpc'[q] \in Holding <=> rpc[q] \in Holding

(* A step that touches neither the verdict nor who holds the run is a      *)
(* stuttering step of RunOwnership.                                        *)
LEMMA QuietStutters == Quiet => UNCHANGED Ownership!ownershipVars
BY Zenon DEF Quiet, Driver, Resolved, RowVerdict, Ownership!ownershipVars

(* Resolving the pending row is Decide.                                    *)
LEMMA ResolvingDecides ==
  ASSUME TypeOK, row = "pending", row' \in {"approved", "denied", "expired"},
         UNCHANGED <<onTimeout, cpState, execs, rpc>>
  PROVE  Ownership!Decide
<1>1. UNCHANGED <<Driver, execs>>
  BY Zenon DEF Driver
<1>2. ~Resolved /\ Resolved' /\ RowVerdict' \in {"allow", "deny"}
  BY Zenon DEF TypeOK, Verdicts, Resolved, RowVerdict
<1> QED
  BY <1>1, <1>2, Zenon DEF Ownership!Decide

(* A resume that returns drops the run: its checkpoint is free or gone.    *)
LEMMA ReturningDrops ==
  ASSUME TypeOK, ClaimInv, NEW p \in Procs, rpc[p] \in Holding, RunEnds(p),
         UNCHANGED <<row, onTimeout, execs>>,
         cpState' \in {cpState, "deleted"}
  PROVE  Ownership!Drop
<1>1. Driver = "resume"
  BY Zenon DEF ClaimInv, Driver
<1>2. \A q \in Procs : rpc'[q] \notin Holding
  BY Zenon DEF TypeOK, ClaimInv, RunEnds, Holding
<1>3. cpState' \in {"saved", "deleted"}
  BY Zenon DEF TypeOK, ClaimInv
<1>4. Driver' \in {"free", "over"}
  BY <1>2, <1>3, Zenon DEF Driver
<1>5. UNCHANGED <<Resolved, RowVerdict, execs>>
  BY Zenon DEF Resolved, RowVerdict
<1> QED
  BY <1>1, <1>4, <1>5, Zenon DEF Ownership!Drop

(* Deleting the checkpoint of a decided ask gives the run up if nobody     *)
(* holds it, and is not seen otherwise.                                    *)
LEMMA DeletingGivesUp ==
  ASSUME TypeOK, Resolved, DeleteChainCheckpoint,
         UNCHANGED <<row, onTimeout, execs>>,
         \A q \in Procs : rpc'[q] \in Holding <=> rpc[q] \in Holding
  PROVE  Ownership!Next \/ UNCHANGED Ownership!ownershipVars
<1>1. CASE cpState' = cpState
  BY <1>1, QuietStutters, Zenon DEF Quiet
<1>2. CASE cpState = "saved" /\ cpState' = "deleted"
  <2>1. UNCHANGED <<Resolved, RowVerdict, execs>>
    BY Zenon DEF Resolved, RowVerdict
  <2>2. CASE \E q \in Procs : rpc[q] \in Holding
    BY <1>2, <2>1, <2>2, Zenon DEF Driver, Ownership!ownershipVars
  <2>3. CASE ~ \E q \in Procs : rpc[q] \in Holding
    <3>1. Driver = "free" /\ Driver' = "over"
      BY <1>2, <2>3, Zenon DEF Driver
    <3>2. RowVerdict # "none"
      BY Zenon DEF TypeOK, Verdicts, RowVerdict
    <3> QED
      BY <2>1, <3>1, <3>2, Zenon DEF Ownership!Next, Ownership!GiveUp
  <2> QED BY <2>2, <2>3, Zenon
<1> QED BY <1>1, <1>2, Zenon

(* Every step of the host is a step of RunOwnership or leaves the verdict, *)
(* the driver and the count of tool runs as they are.                      *)
LEMMA HostOwnership ==
  ASSUME IInv, HostNext
  PROVE  Ownership!Next \/ UNCHANGED Ownership!ownershipVars
<1> USE DEF rowVars, hostVars, cpVars, resVars, cntVars
<1>1. CASE ParkWaiter \/ WaitCancelled \/ AdhocEnds \/ ReleaseWaiter
  BY <1>1, QuietStutters, Zenon DEF Quiet, ParkWaiter, WaitCancelled, AdhocEnds, ReleaseWaiter
<1>2. CASE CardAnswers \/ WaiterWoken \/ PollFindsVerdict \/ WaitElapses
  BY <1>2, QuietStutters, Zenon DEF Quiet, CardAnswers, WaiterWoken, PollFindsVerdict,
     WaitElapses, Answered
<1>3. CASE RecordPendingApproval
  BY <1>3, Zenon DEF RecordPendingApproval, Resolved, Driver, Ownership!ownershipVars
<1>4. CASE CloseRowInline
  <2>1. CASE row' = row
    BY <1>4, <2>1, QuietStutters, Zenon DEF Quiet, CloseRowInline
  <2>2. CASE row' # row
    BY <1>4, <2>2, ResolvingDecides, Zenon DEF CloseRowInline, StateOf, IInv, Ownership!Next
  <2> QED BY <2>1, <2>2, Zenon
<1>5. CASE HostExecutes
  <2>1. gate = "executing" /\ execs = 0 /\ Driver = "host"
    BY <1>5, Zenon DEF HostExecutes, IInv, TypeOK, ClaimInv, ToolInv, Driver
  <2>2. execs' = execs + 1 /\ UNCHANGED <<Resolved, RowVerdict, Driver>>
    BY <1>5, Zenon DEF HostExecutes, Resolved, RowVerdict, Driver
  <2> QED
    BY <2>1, <2>2, Zenon DEF Ownership!Next, Ownership!RunTool
<1>6. CASE SaveCheckpoint
  <2>1. Driver = "host" /\ execs = 0 /\ cpState' = "saved"
    BY <1>6, Zenon DEF SaveCheckpoint, IInv, TypeOK, ClaimInv, ToolInv, Driver
  <2>2. \A q \in Procs : rpc'[q] \notin Holding
    BY <1>6, Zenon DEF SaveCheckpoint, IInv, TypeOK, ClaimInv
  <2>3. Driver' = "free"
    BY <2>1, <2>2, Zenon DEF Driver
  <2>4. UNCHANGED <<Resolved, RowVerdict, execs>>
    BY <1>6, Zenon DEF SaveCheckpoint, Resolved, RowVerdict
  <2> QED
    BY <2>1, <2>3, <2>4, Zenon DEF Ownership!Next, Ownership!Release
<1>7. CASE ResumeIfAlreadyAnswered
  BY <1>7, QuietStutters, Zenon DEF Quiet, ResumeIfAlreadyAnswered, IInv, TypeOK, Holding
<1> QED
  BY <1>1, <1>2, <1>3, <1>4, <1>5, <1>6, <1>7, Zenon DEF HostNext

(* The same for a process that answers, expires, stops or delivers.        *)
LEMMA ResponderOwnership ==
  ASSUME IInv, NEW p \in Procs, Begin(p) \/ FollowThrough(p)
  PROVE  Ownership!Next \/ UNCHANGED Ownership!ownershipVars
<1> USE DEF rowVars, hostVars, cpVars, resVars, cntVars, IInv
<1>1. CASE RespondCheck(p) \/ StopMission(p)
  BY <1>1, QuietStutters, Zenon DEF Quiet, RespondCheck, StopMission
<1>2. CASE SweepExpired(p)
  BY <1>2, ResolvingDecides, Zenon DEF SweepExpired, Ownership!Next
<1>3. CASE RespondCAS(p) \/ AbandonAsk(p)
  <2>1. CASE row' = row
    BY <1>3, <2>1, QuietStutters, Zenon DEF Quiet, RespondCAS, AbandonAsk
  <2>2. CASE row' # row
    BY <1>3, <2>2, ResolvingDecides, Zenon DEF RespondCAS, AbandonAsk, StateOf, Ownership!Next
  <2> QED BY <2>1, <2>2, Zenon
<1>4. CASE Deliver(p)
  BY <1>4, QuietStutters, Zenon DEF Quiet, Deliver, TypeOK, Holding
<1>5. CASE AbandonWakes(p)
  BY <1>5, QuietStutters, Zenon DEF Quiet, AbandonWakes
<1>6. CASE PurgeCheckpoint(p)
  <2>1. Resolved
    BY <1>6, Zenon DEF PurgeCheckpoint, VerdictInv
  <2>2. DeleteChainCheckpoint /\ UNCHANGED <<row, onTimeout, execs, rpc>>
    BY <1>6, Zenon DEF PurgeCheckpoint
  <2> HIDE DEF DeleteChainCheckpoint
  <2> QED
    BY <2>1, <2>2, DeletingGivesUp, Zenon
<1> QED
  BY <1>1, <1>2, <1>3, <1>4, <1>5, <1>6, Zenon DEF Begin, FollowThrough

(* The same for a process that resumes.                                    *)
LEMMA ResumeOwnership ==
  ASSUME IInv, NEW p \in Procs, RunNext(p) \/ SweepStranded(p)
  PROVE  Ownership!Next \/ UNCHANGED Ownership!ownershipVars
<1> USE DEF rowVars, hostVars, cpVars, resVars, cntVars, IInv, RunUnchanged
<1>1. CASE ReadVerdict(p) \/ SweepStranded(p)
  BY <1>1, QuietStutters DEF Quiet, ReadVerdict, SweepStranded, RunMoves, RunEnds,
     TypeOK, Holding
<1>2. CASE CheckMission(p)
  <2>1. \A q \in Procs : rpc'[q] \in Holding <=> rpc[q] \in Holding
    BY <1>2, Zenon DEF CheckMission, RunMoves, RunEnds, TypeOK, Holding
  <2>2. Resolved
    BY <1>2, Zenon DEF CheckMission, VerdictInv
  <2>3. CASE mission = "terminal"
    <3>1. DeleteChainCheckpoint /\ UNCHANGED <<row, onTimeout, execs>>
      BY <1>2, <2>3, Zenon DEF CheckMission
    <3> HIDE DEF DeleteChainCheckpoint
    <3> QED
      BY <2>1, <2>2, <3>1, DeletingGivesUp, Zenon
  <2>4. CASE mission # "terminal"
    BY <1>2, <2>1, <2>4, QuietStutters, Zenon DEF Quiet, CheckMission
  <2> QED BY <2>3, <2>4, Zenon
<1>3. CASE ClaimCheckpoint(p)
  <2>1. CASE Claimable
    <3>1. Driver = "free"
      BY <2>1, Zenon DEF ClaimInv, Driver
    <3>2. rpc'[p] \in Holding /\ cpState' = "saved"
      BY <1>3, <2>1, Zenon DEF ClaimCheckpoint, RunMoves, TypeOK, Holding
    <3>3. Driver' = "resume"
      BY <3>2, Zenon DEF Driver
    <3>4. Resolved /\ RowVerdict # "none"
      BY <1>3, Zenon DEF ClaimCheckpoint, VerdictInv, TypeOK, Verdicts, RowVerdict
    <3>5. UNCHANGED <<Resolved, RowVerdict, execs>>
      BY <1>3, Zenon DEF ClaimCheckpoint, Resolved, RowVerdict
    <3> QED
      BY <3>1, <3>3, <3>4, <3>5, Zenon DEF Ownership!Next, Ownership!TakeUp
  <2>2. CASE ~Claimable
    BY <1>3, <2>2, QuietStutters, Zenon DEF Quiet, ClaimCheckpoint, RunEnds, TypeOK, Holding
  <2> QED BY <2>1, <2>2, Zenon
<1>4. CASE LoadCheckpoint(p)
  <2>1. CASE cpState = "saved"
    BY <1>4, <2>1, QuietStutters, Zenon DEF Quiet, LoadCheckpoint, RunMoves, TypeOK, Holding
  <2>2. CASE cpState # "saved"
    BY <1>4, <2>2, ReturningDrops, Zenon DEF LoadCheckpoint, Holding, Ownership!Next
  <2> QED BY <2>1, <2>2, Zenon
<1>5. CASE ResumeExecutes(p)
  <2>1. Driver = "resume"
    BY <1>5, Zenon DEF ResumeExecutes, ClaimInv, Driver, Holding
  <2>2. \A q \in Procs : rpc'[q] \in Holding <=> rpc[q] \in Holding
    BY <1>5, Zenon DEF ResumeExecutes, RunMoves, TypeOK, Holding
  <2>3. Driver' = Driver
    BY <1>5, <2>2, Zenon DEF ResumeExecutes, Driver
  <2>4. Resolved /\ RowVerdict = "allow"
    <3>1. rpc[p] = "executing"
      BY <1>5, Zenon DEF ResumeExecutes
    <3> QED
      BY <3>1, Zenon DEF VerdictInv, Holding
  <2>5. execs' = execs + 1 /\ UNCHANGED <<Resolved, RowVerdict>>
    BY <1>5, Zenon DEF ResumeExecutes, Resolved, RowVerdict
  <2> QED
    BY <2>1, <2>3, <2>4, <2>5, Zenon DEF Ownership!Next, Ownership!RunTool
<1>6. CASE RecordGateResult(p)
  <2>1. CASE cpState = "saved"
    BY <1>6, <2>1, QuietStutters, Zenon DEF Quiet, RecordGateResult, RunMoves, TypeOK, Holding
  <2>2. CASE cpState # "saved"
    BY <1>6, <2>2, ReturningDrops, Zenon DEF RecordGateResult, Holding, Ownership!Next
  <2> QED BY <2>1, <2>2, Zenon
<1>7. CASE RunCompletes(p)
  BY <1>7, QuietStutters, Zenon DEF Quiet, RunCompletes, RunMoves, TypeOK, Holding
<1>8. CASE DeleteCheckpoint(p)
  BY <1>8, ReturningDrops, Zenon DEF DeleteCheckpoint, Holding, Ownership!Next
<1> QED
  BY <1>1, <1>2, <1>3, <1>4, <1>5, <1>6, <1>7, <1>8, Zenon DEF RunNext

(* The same for a crash and for every write that fails.                    *)
LEMMA FaultOwnership ==
  ASSUME IInv, Faulty
  PROVE  Ownership!Next \/ UNCHANGED Ownership!ownershipVars
<1> USE DEF rowVars, hostVars, cpVars, resVars, cntVars, IInv, RunUnchanged
<1>1. CASE RecordFails \/ SaveFails
  BY <1>1, QuietStutters, Zenon DEF Quiet, RecordFails, SaveFails
<1>2. ASSUME NEW p \in Procs, Crash(p)
      PROVE  Ownership!Next \/ UNCHANGED Ownership!ownershipVars
  <2>1. RunEnds(p) /\ UNCHANGED <<row, onTimeout, execs, cpState>>
    BY <1>2, Zenon DEF Crash, RunEnds
  <2>2. CASE rpc[p] \in Holding
    BY <2>1, <2>2, ReturningDrops, Zenon DEF Ownership!Next
  <2>3. CASE rpc[p] \notin Holding
    BY <2>1, <2>3, QuietStutters, Zenon DEF Quiet, RunEnds, TypeOK, Holding
  <2> QED BY <2>2, <2>3, Zenon
<1>3. ASSUME NEW p \in Procs, ToolErrs(p) \/ ResumeGivesUp(p)
      PROVE  Ownership!Next \/ UNCHANGED Ownership!ownershipVars
  BY <1>3, QuietStutters, Zenon DEF Quiet, ToolErrs, ResumeGivesUp, RunMoves, RunEnds,
     TypeOK, Holding
<1>4. ASSUME NEW p \in Procs, RecordGateFails(p) \/ RunFails(p) \/ DeleteFails(p)
      PROVE  Ownership!Next \/ UNCHANGED Ownership!ownershipVars
  <2>1. /\ RunEnds(p) /\ rpc[p] \in Holding
        /\ UNCHANGED <<row, onTimeout, execs, cpState>>
    BY <1>4, Zenon DEF RecordGateFails, RunFails, DeleteFails, Holding
  <2> QED
    BY <2>1, ReturningDrops, Zenon DEF Ownership!Next
<1> QED
  BY <1>1, <1>2, <1>3, <1>4, Zenon DEF Faulty

(* Every step of the protocol is a step of RunOwnership or a stutter.      *)
LEMMA OwnershipStep ==
  IInv /\ [Next]_vars => [Ownership!Next]_(Ownership!ownershipVars)
<1> SUFFICES ASSUME IInv, [Next]_vars
             PROVE  Ownership!Next \/ UNCHANGED Ownership!ownershipVars
  BY Zenon DEF Ownership!ownershipVars
<1>1. CASE CancelTurn \/ WindowCloses \/ MissionEnds \/ ClaimGoesStale
  BY <1>1, QuietStutters, Zenon DEF Quiet, CancelTurn, WindowCloses, MissionEnds,
     ClaimGoesStale, rowVars, hostVars, cpVars, resVars, cntVars
<1>2. CASE UNCHANGED vars
  BY <1>2, QuietStutters, Zenon DEF Quiet, vars
<1> QED
  BY <1>1, <1>2, HostOwnership, ResponderOwnership, ResumeOwnership,
     FaultOwnership, Zenon DEF Next

(* The durable ask, its checkpoint and its resumes implement RunOwnership. *)
THEOREM OwnershipKept == Spec => ImplementsOwnership
<1>1. Init => Ownership!Init
  BY Zenon DEF Init, Ownership!Init, Resolved, Driver
<1> QED
  BY Inductive, OwnershipStep, <1>1, PTL
  DEF Spec, ImplementsOwnership, Ownership!Spec
=============================================================================
