------------------------------- MODULE Mission -------------------------------
(***************************************************************************)
(* One mission row (missionservice), written by several processes at once: *)
(* units, operators, fleets and sweepers.  Every writer reads the row,     *)
(* judges it and writes it back with UpdateKVIfUnchanged, re-judging when  *)
(* it lost the race; only the chat session's intent refresh writes what it *)
(* read unconditionally.                                                   *)
(*                                                                         *)
(* A thread runs one call at a time.  The plan is one entry, its text and  *)
(* whether it is completed; `stamp' stands for updatedAt, which makes      *)
(* every written value a new one.                                          *)
(***************************************************************************)
EXTENDS Integers

CONSTANTS Threads,      \* callers of the service
          Mixes,        \* bound: the sets of calls considered together
          Outcomes,     \* terminal statuses a Finish may ask for
          Insts,        \* instance ids a Bind may carry
          Texts,        \* texts of the plan entry
          Floor,        \* StaleHeartbeatAfter, in ticks
          LongWindow,   \* expires_at - created_at of a long ask
          CasAttempts,  \* casAttempts
          MaxNow,       \* bound: the clock
          MaxStamp      \* bound: row writes after which only sweeps begin

Terminal == {"landed", "derailed", "stuck", "abandoned"}
AllOps == {"finish", "bind", "beat", "plan", "sweep", "intent"}
NoPlan == [text |-> "none", done |-> "no"]
Plans == [text : Texts, done : {"yes", "no"}] \cup {NoPlan}
Args == Outcomes \cup Insts \cup {"none"}

(* Named assumption on the constants.                                      *)
ASSUME MissionConstants ==
  /\ Mixes \subseteq SUBSET AllOps
  /\ Outcomes \subseteq Terminal
  /\ Floor \in Nat /\ LongWindow \in Nat /\ CasAttempts \in Nat
  /\ MaxNow \in Nat /\ MaxStamp \in Nat

VARIABLES
  ops,      \* the calls made in this behaviour: one of Mixes, for good
  row,      \* the mission's KV value; status "absent" once deleted
  pc,       \* per thread: "idle", "read", "bound", "write", "publish"
  op, arg,  \* per thread: the call it is in, its outcome or instance
  draft,    \* per thread: the plan a SetPlan carries
  snap,     \* per thread: the snapshot its write is conditional on
  at,       \* per thread: the `now' of a sweep or a heartbeat
  tries,    \* per thread: lost compare-and-swaps of this call
  now,      \* the clock
  ask,      \* the mission's pending ask: "none", "short", "long", "never"
  acked,    \* outcomes some Finish returned without error
  planned,  \* SetPlan calls that wrote the row
  events,   \* StatusChanged events published
  report,   \* "reclaimed" once the sweep's blocker report is filed
  blind     \* "yes" once an intent refresh wrote the row unconditionally

callVars == <<pc, op, arg, draft, snap, at, tries>>
missionVars == <<ops, row, pc, op, arg, draft, snap, at, tries, now, ask, acked, planned,
                 events, report, blind>>
fixed == <<ops, blind>>

Rows == [status : Terminal \cup {"open", "absent"},
         reason : {"none", "caller", "swept"},
         inst : Insts \cup {"none"}, beat : Nat, rev : Nat, plan : Plans,
         stamp : Nat]

(* Create: every mission starts open and unbound.                          *)
Created == [status |-> "open", reason |-> "none", inst |-> "none", beat |-> 0,
            rev |-> 0, plan |-> NoPlan, stamp |-> 0]

MissionInit ==
  /\ ops \in Mixes /\ row = Created
  /\ pc = [w \in Threads |-> "idle"] /\ op = [w \in Threads |-> "none"]
  /\ arg = [w \in Threads |-> "none"] /\ draft = [w \in Threads |-> NoPlan]
  /\ snap = [w \in Threads |-> Created]
  /\ at = [w \in Threads |-> 0] /\ tries = [w \in Threads |-> 0]
  /\ now = 0 /\ ask = "none"
  /\ acked = {} /\ planned = 0 /\ events = 0 /\ report = "none" /\ blind = "no"

isTerminal(m) == m.status \in Terminal

(* isStale over lastLiveness, at time t.                                   *)
isStale(m, t) == m.status = "open" /\ t - m.beat > Floor

(* validateCompletedImmutable: a snapshot may drop a completed entry but   *)
(* not rewrite its text.                                                   *)
KeepsCompleted(old, new) ==
  old.done = "yes" /\ new.text # "none" => new.text = old.text

-----------------------------------------------------------------------------
(* Bound: time and asks are followed where a call reads them.              *)
Timed == ops \cap {"beat", "sweep"} # {}

MissionTick ==
  /\ now < MaxNow /\ Timed /\ now' = now + 1
  /\ UNCHANGED <<row, callVars, ask, acked, planned, events, report, fixed>>

(* The unit files an ask and somebody resolves it (hitlservice): neither   *)
(* touches the mission row.                                                *)
FileAsk ==
  /\ ask = "none" /\ Timed /\ ask' \in {"short", "long", "never"}
  /\ UNCHANGED <<row, callVars, now, acked, planned, events, report, fixed>>

CloseAsk ==
  /\ ask # "none" /\ ask' = "none"
  /\ UNCHANGED <<row, callVars, now, acked, planned, events, report, fixed>>

Delete ==
  /\ row' = [row EXCEPT !.status = "absent"]
  /\ UNCHANGED <<callVars, now, ask, acked, planned, events, report, fixed>>

(* A call begins.  A sweep is a call about this row only when the listed   *)
(* copy was stale.                                                         *)
Call(w, o, a, d) ==
  /\ pc[w] = "idle" /\ o \in ops
  /\ a \in (IF o = "finish" THEN Outcomes ELSE IF o = "bind" THEN Insts ELSE {"none"})
  /\ d \in (IF o = "plan" THEN Plans ELSE {NoPlan})
  /\ IF o = "sweep" THEN isStale(row, now) ELSE row.stamp < MaxStamp
  /\ pc' = [pc EXCEPT ![w] = "read"]
  /\ op' = [op EXCEPT ![w] = o] /\ arg' = [arg EXCEPT ![w] = a]
  /\ draft' = [draft EXCEPT ![w] = d]
  /\ at' = [at EXCEPT ![w] = now] /\ tries' = [tries EXCEPT ![w] = 0]
  /\ UNCHANGED <<row, snap, now, ask, acked, planned, events, report, fixed>>

(* The call returns; its locals die with it.                               *)
Return(w) ==
  /\ pc' = [pc EXCEPT ![w] = "idle"] /\ op' = [op EXCEPT ![w] = "none"]
  /\ arg' = [arg EXCEPT ![w] = "none"] /\ draft' = [draft EXCEPT ![w] = NoPlan]
  /\ snap' = [snap EXCEPT ![w] = Created]
  /\ at' = [at EXCEPT ![w] = 0] /\ tries' = [tries EXCEPT ![w] = 0]

(* Does the row just read let the call go on to its write?                 *)
Admits(w, m) ==
  /\ m.status # "absent"
  /\ op[w] \in {"finish", "beat"} => ~isTerminal(m)
  /\ op[w] = "bind" => m.inst = "none"
  /\ op[w] = "plan" => KeepsCompleted(m.plan, draft[w])
  /\ op[w] = "sweep" => isStale(m, at[w])

(* Mutant: Finish takes any finished row as its own success.               *)
Read_anyOutcomeIsMine(w) ==
  /\ pc[w] = "read"
  /\ IF Admits(w, row)
     THEN /\ pc' = [pc EXCEPT ![w] = IF op[w] = "sweep" THEN "bound" ELSE "write"]
          /\ snap' = [snap EXCEPT ![w] = row]
          /\ UNCHANGED <<op, arg, draft, at, tries, acked>>
     ELSE /\ Return(w)
          /\ acked' = IF op[w] = "finish" THEN acked \cup {arg[w]} ELSE acked
  /\ UNCHANGED <<row, now, ask, planned, events, report, fixed>>

(* getWithSnapshot and the judgement on what it returned.  A Finish that   *)
(* finds its own outcome already there returns it as a success; a          *)
(* Heartbeat takes its time here, before it writes.                        *)
Read(w) ==
  /\ pc[w] = "read"
  /\ IF Admits(w, row)
     THEN /\ pc' = [pc EXCEPT ![w] = IF op[w] = "sweep" THEN "bound" ELSE "write"]
          /\ snap' = [snap EXCEPT ![w] = row]
          /\ at' = [at EXCEPT ![w] = IF op[w] = "beat" THEN now ELSE @]
          /\ UNCHANGED <<op, arg, draft, tries, acked>>
     ELSE /\ Return(w)
          /\ acked' = IF op[w] = "finish" /\ arg[w] = row.status
                      THEN acked \cup {arg[w]} ELSE acked
  /\ UNCHANGED <<row, now, ask, planned, events, report, fixed>>

(* parkBound: the floor, widened to the window of a pending ask; an ask    *)
(* without a deadline explains any silence.                                *)
ParkBound == IF ask = "long" /\ LongWindow > Floor THEN LongWindow ELSE Floor

(* Mutant: any open ask excuses any silence.                               *)
JudgeBound_anyAskExcuses(w) ==
  /\ pc[w] = "bound"
  /\ IF ask = "none" /\ at[w] - snap[w].beat > Floor
     THEN /\ pc' = [pc EXCEPT ![w] = "write"]
          /\ UNCHANGED <<op, arg, draft, snap, at, tries>>
     ELSE Return(w)
  /\ UNCHANGED <<row, now, ask, acked, planned, events, report, fixed>>

(* Mutant: the blocker report is filed before the reclaim is durable.      *)
JudgeBound_reportsFirst(w) ==
  /\ pc[w] = "bound"
  /\ IF ask # "never" /\ at[w] - snap[w].beat > Floor
     THEN /\ pc' = [pc EXCEPT ![w] = "write"] /\ report' = "reclaimed"
          /\ UNCHANGED <<op, arg, draft, snap, at, tries>>
     ELSE Return(w) /\ UNCHANGED report
  /\ UNCHANGED <<row, now, ask, acked, planned, events, fixed>>

JudgeBound(w) ==
  /\ pc[w] = "bound"
  /\ IF ask # "never" /\ at[w] - snap[w].beat > ParkBound
     THEN /\ pc' = [pc EXCEPT ![w] = "write"]
          /\ UNCHANGED <<op, arg, draft, snap, at, tries>>
     ELSE Return(w)
  /\ UNCHANGED <<row, now, ask, acked, planned, events, report, fixed>>

(* What each call makes of the row it read.                                *)
Finished(m, s) == [m EXCEPT !.status = s, !.reason = "caller"]
Bound(m, i) == [m EXCEPT !.inst = i]
Beaten(m, t) == [m EXCEPT !.beat = t]
Planned(m, d) == [m EXCEPT !.plan = d, !.rev = @ + 1]
Reclaimed(m) == [m EXCEPT !.status = "abandoned", !.reason = "swept"]

Changed(w) ==
  CASE op[w] = "finish" -> Finished(snap[w], arg[w])
    [] op[w] = "bind"   -> Bound(snap[w], arg[w])
    [] op[w] = "beat"   -> Beaten(snap[w], at[w])
    [] op[w] = "plan"   -> Planned(snap[w], draft[w])
    [] op[w] = "sweep"  -> Reclaimed(snap[w])
    [] OTHER            -> snap[w]

(* The value the call writes; the intent text is not part of the model.    *)
NewRow(w) == [Changed(w) EXCEPT !.stamp = row.stamp + 1]

(* The write landed: Finish and the sweep still have an event to publish.  *)
Landed(w) ==
  /\ row' = NewRow(w)
  /\ acked' = IF op[w] = "finish" THEN acked \cup {arg[w]} ELSE acked
  /\ planned' = IF op[w] = "plan" THEN planned + 1 ELSE planned
  /\ blind' = IF op[w] = "intent" THEN "yes" ELSE blind
  /\ IF op[w] \in {"finish", "sweep"}
     THEN /\ pc' = [pc EXCEPT ![w] = "publish"]
          /\ UNCHANGED <<op, arg, draft, snap, at, tries>>
     ELSE Return(w)
  /\ UNCHANGED <<ops, now, ask, events, report>>

(* Mutant: UpdateKV instead of UpdateKVIfUnchanged.                        *)
WriteIfUnchanged_blind(w) ==
  /\ pc[w] = "write" /\ op[w] # "intent"
  /\ Landed(w)

(* putIfUnchanged: UPDATE ... WHERE value = snapshot.                      *)
WriteIfUnchanged(w) ==
  /\ pc[w] = "write" /\ op[w] # "intent"
  /\ row = snap[w]
  /\ Landed(w)

(* Mutant: a lost write takes a new snapshot and does not judge it again.  *)
WriteLost_noRejudge(w) ==
  /\ pc[w] = "write" /\ op[w] # "intent"
  /\ row # snap[w]
  /\ snap' = [snap EXCEPT ![w] = row]
  /\ UNCHANGED <<pc, op, arg, draft, at, tries>>
  /\ UNCHANGED <<row, now, ask, acked, planned, events, report, fixed>>

(* The row moved: the sweep leaves it to whoever moved it, the others read *)
(* and judge again until their attempts run out.                           *)
WriteLost(w) ==
  /\ pc[w] = "write" /\ op[w] # "intent"
  /\ row # snap[w]
  /\ IF op[w] # "sweep" /\ tries[w] + 1 < CasAttempts
     THEN /\ pc' = [pc EXCEPT ![w] = "read"]
          /\ tries' = [tries EXCEPT ![w] = @ + 1]
          /\ UNCHANGED <<op, arg, draft, snap, at>>
     ELSE Return(w)
  /\ UNCHANGED <<row, now, ask, acked, planned, events, report, fixed>>

(* ensureSessionMission of a session whose mission exists: Missions.Get,   *)
(* then Missions.Update of the copy.  Its Create, for a session without a  *)
(* mission, is where the life that this module follows begins (Created).   *)
WriteIntent(w) ==
  /\ pc[w] = "write" /\ op[w] = "intent"
  /\ IF row.status = "absent"
     THEN Return(w) /\ UNCHANGED <<row, now, ask, acked, planned, events, report, fixed>>
     ELSE Landed(w)

(* Best effort: a failed publish is only logged.                           *)
publishStatusChanged == events' \in {events, events + 1}

(* A deleted mission or a failed write leaves the blocker report unfiled.  *)
fileAbandonedReport ==
  report' \in IF row.status = "absent" THEN {report} ELSE {report, "reclaimed"}

(* After the write that ended the mission, outside any transaction.        *)
Publish(w) ==
  /\ pc[w] = "publish"
  /\ publishStatusChanged
  /\ IF op[w] = "sweep" THEN fileAbandonedReport ELSE UNCHANGED report
  /\ Return(w)
  /\ UNCHANGED <<row, now, ask, acked, planned, fixed>>

Step(w) == \/ Read(w) \/ JudgeBound(w) \/ WriteIfUnchanged(w) \/ WriteLost(w)
           \/ WriteIntent(w) \/ Publish(w)

MissionNext ==
  \/ MissionTick \/ FileAsk \/ CloseAsk \/ Delete
  \/ \E w \in Threads : \/ Step(w)
                        \/ \E o \in AllOps, a \in Args, d \in Plans : Call(w, o, a, d)

MissionSpec == MissionInit /\ [][MissionNext]_missionVars

(* A service call that began goes on, the clock goes on, and somebody      *)
(* comes by who sweeps (`mission list', `mission show', `doctor', a host   *)
(* booting).                                                               *)
FairSpec ==
  /\ MissionSpec /\ WF_missionVars(MissionTick)
  /\ \A w \in Threads : WF_missionVars(Step(w)) /\ WF_missionVars(Call(w, "sweep", "none", NoPlan))

-----------------------------------------------------------------------------
(* The values the row and the callers' locals take.                        *)
MissionTypeOK ==
  /\ ops \in SUBSET AllOps /\ blind \in {"no", "yes"}
  /\ row \in Rows /\ pc \in [Threads -> {"idle", "read", "bound", "write", "publish"}]
  /\ op \in [Threads -> AllOps \cup {"none"}] /\ arg \in [Threads -> Args]
  /\ draft \in [Threads -> Plans] /\ snap \in [Threads -> Rows]
  /\ at \in [Threads -> Nat] /\ tries \in [Threads -> Nat] /\ now \in Nat
  /\ ask \in {"none", "short", "long", "never"} /\ acked \subseteq Outcomes
  /\ planned \in Nat /\ events \in Nat /\ report \in {"none", "reclaimed"}

(* The properties below hold until an intent refresh writes back the copy  *)
(* it read (blind): what the refresh overwrites is lost, and with it what  *)
(* any of them says of the row.                                            *)

(* "A terminal mission never moves again": no conditional writer takes a   *)
(* finished row to another status, however stale the copy it judged.       *)
TerminalStays ==
  [][blind' = "no" /\ isTerminal(row) => row'.status \in {row.status, "absent"}]_missionVars

(* "Whichever writer got there first owns the outcome": an outcome that a  *)
(* Finish reported as done is the outcome the row keeps.                   *)
AckedOutcomeStands ==
  blind = "no" /\ row.status # "absent" => \A s \in acked : row.status = s

(* No plan revision is lost or counted twice: the row's revision is the    *)
(* number of SetPlan calls that succeeded.                                 *)
RevisionsCounted == blind = "no" => row.rev = planned

(* A mission is bound to one instance for good, whoever races to bind it.  *)
BoundOnce == [][blind' = "no" /\ row.inst # "none" => row'.inst = row.inst]_missionVars

(* The text of completed work survives every snapshot that still carries   *)
(* its entry, also when the snapshot was judged against an older plan.     *)
CompletedKept == [][blind' = "no" => KeepsCompleted(row.plan, row'.plan)]_missionVars

(* The sweep reclaims nothing but a row that is open and has been silent   *)
(* for longer than the floor at the moment it is written: a heartbeat that *)
(* lands first wins.                                                       *)
ReclaimedWasSilent ==
  [][blind' = "no" /\ row'.reason = "swept" /\ row.reason # "swept"
       => isStale(row, now)]_missionVars

(* The liveness a mission shows never goes back: no Heartbeat overwrites a *)
(* later one, though each takes its time before it writes.                 *)
BeatForward == [][blind' = "no" => row'.beat >= row.beat]_missionVars

(* A mission's end is told once and truly: it is announced at most once,   *)
(* and one that finished under the race never carries the sweep's          *)
(* "reclaimed" blocker report.                                             *)
ToldOnceAndTruly ==
  blind = "no" => /\ events <= 1
                  /\ report = "reclaimed" => row.reason = "swept"

(* A mission that stays silent and holds no ask without a deadline does    *)
(* not stay open, intent refreshes or not: sooner or later it is           *)
(* reclaimed, finished or heard from.                                      *)
SilentIsReclaimed ==
  (/\ now = MaxNow /\ row.status = "open"
   /\ now - row.beat > Floor /\ now - row.beat > LongWindow)
    ~> (row.status # "open" \/ now - row.beat <= LongWindow \/ ask = "never")
=============================================================================
