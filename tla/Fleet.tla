------------------------------- MODULE Fleet -------------------------------
(***************************************************************************)
(* The in-process fleet (services/fleetservice over kernel/agentinstance): *)
(* a dispatch is admitted under the width cap, spawns a unit, opens a      *)
(* session, writes and binds its mission, and leaves a goroutine behind    *)
(* that drives the unit for at most two turns.  Beside it run the unit     *)
(* itself, the operator, the instance's watchdog, the one goroutine that   *)
(* reaps units whose mission has come to rest, and the host's shutdown.    *)
(* A step is what runs under one lock or writes one row.  WithRestart is   *)
(* set by no production host and is left out.                              *)
(***************************************************************************)
EXTENDS Naturals, Sequences, FiniteSets

CONSTANTS
    Units,          \* dispatches: a unit, its mission and its instance
    NoUnit,
    MaxParallel,    \* fleet-max-parallel (0: unlimited)
    Mixes           \* what may happen in one behaviour (see MixTypes)

Faults == {"call", "crash", "loss", "operator", "shutdown"}
MixTypes == [units : SUBSET Units, faults : SUBSET Faults]

ASSUME WidthAssumption == MaxParallel \in Nat
ASSUME UnitsAssumption == IsFiniteSet(Units) /\ NoUnit \notin Units
ASSUME MixesAssumption == Mixes \subseteq MixTypes

VARIABLES
    mix,            \* the dispatches and the faults of this behaviour
    lock,           \* the unit whose dispatch holds the admission lock
    dp,             \* unit -> where its dispatch, then its drive, is
    st,             \* unit -> the state of its instance
    reg,            \* unit -> "yes" while the manager's map has it
    halt,           \* unit -> progress of the instance's stop
    proc,           \* unit -> its subprocess
    ms,             \* unit -> its mission: "none", "open" or "rest"
    bound,          \* unit -> "yes" once the mission names the instance
    said,           \* unit -> "yes" once the mission shows a report or plan
    note,           \* history: why the drive may leave a silent mission
    tools,          \* unit -> its mission-tool server
    ev,             \* unit -> what became of its status event
    bus,            \* status events on their way to the subscriber
    td,             \* the reaping goroutine: <<>>, or its unit and step
    host            \* "up", "deaf" (unsubscribed), "closing" or "closed"

instance == <<st, reg, halt, proc>>
mission == <<ms, bound, said>>
wire == <<bus, td>>
vars == <<mix, lock, dp, instance, mission, note, tools, ev, wire, host>>

Open == {u \in Units : reg[u] = "yes" /\ st[u] = "running"}
May(fault) == fault \in mix.faults

Init ==
    /\ mix \in Mixes
    /\ lock = NoUnit
    /\ dp = [u \in Units |-> IF u \in mix.units THEN "idle" ELSE "over"]
    /\ st = [u \in Units |-> "none"]
    /\ reg = [u \in Units |-> "no"]
    /\ halt = [u \in Units |-> "no"]
    /\ proc = [u \in Units |-> "none"]
    /\ ms = [u \in Units |-> "none"]
    /\ bound = [u \in Units |-> "no"]
    /\ said = [u \in Units |-> "no"]
    /\ note = [u \in Units |-> "none"]
    /\ tools = [u \in Units |-> "none"]
    /\ ev = [u \in Units |-> "none"]
    /\ bus = <<>>
    /\ td = <<>>
    /\ host = "up"

Goes(u, from, to) == dp[u] = from /\ dp' = [dp EXCEPT ![u] = to]

(* Manager.Stop: whoever takes the instance out of the map stops it, every *)
(* other caller returns at once.                                           *)
Unmap(doomed) ==
    LET hit == {u \in doomed : reg[u] = "yes"}
    IN  /\ reg' = [u \in Units |-> IF u \in hit THEN "gone" ELSE reg[u]]
        /\ halt' = [u \in Units |-> IF u \in hit THEN "unmapped" ELSE halt[u]]

(* A store write that fails after the mission exists is only remembered.   *)
Breaks(u) == May("call") /\ note' = [note EXCEPT ![u] = "broke"]

(* Mutant: the mission is finished without an event.                       *)
FinishQuiet(u) ==
    /\ ms' = [ms EXCEPT ![u] = IF @ = "open" THEN "rest" ELSE @]
    /\ UNCHANGED ev

(* Finish moves an open mission to rest, once; the event is published only *)
(* after the row is written.                                               *)
Finish(u) ==
    /\ ms' = [ms EXCEPT ![u] = IF @ = "open" THEN "rest" ELSE @]
    /\ ev' = [ev EXCEPT ![u] = IF ms[u] = "open" THEN "due" ELSE @]

CloseTools(u) == tools' = [tools EXCEPT ![u] = "closed"]
-----------------------------------------------------------------------------
(* Dispatch.                                                               *)

(* Refused at the cap, or because the fleet could not be listed.           *)
Refuse(u) ==
    /\ lock = NoUnit
    /\ (MaxParallel > 0 /\ Cardinality(Open) >= MaxParallel) \/ May("call")
    /\ Goes(u, "idle", "over")
    /\ UNCHANGED <<mix, lock, instance, mission, note, tools, ev, wire, host>>

(* Mutant: the admission lock is not held across the start.                *)
AdmitUnlocked(u) ==
    /\ MaxParallel = 0 \/ Cardinality(Open) < MaxParallel
    /\ Goes(u, "idle", "spawn")
    /\ tools' = [tools EXCEPT ![u] = IF host = "up" THEN "open" ELSE "closed"]
    /\ UNCHANGED <<mix, lock, instance, mission, note, ev, wire, host>>

(* admitUnit under the lock, with the tool server opened just before it    *)
(* (it lives no longer than the host's lifetime).                          *)
Admit(u) ==
    /\ lock = NoUnit
    /\ MaxParallel = 0 \/ Cardinality(Open) < MaxParallel
    /\ Goes(u, "idle", "spawn")
    /\ lock' = u
    /\ tools' = [tools EXCEPT ![u] = IF host = "up" THEN "open" ELSE "closed"]
    /\ UNCHANGED <<mix, instance, mission, note, ev, wire, host>>

(* start: the subprocess is connected, or the dispatch is over.            *)
Spawn(u) ==
    /\ Goes(u, "spawn", "register")
    /\ proc' = [proc EXCEPT ![u] = "up"]
    /\ st' = [st EXCEPT ![u] = "running"]
    /\ UNCHANGED <<mix, lock, reg, halt, mission, note, tools, ev, wire, host>>

SpawnFails(u) ==
    /\ May("call")
    /\ Goes(u, "spawn", "over")
    /\ st' = [st EXCEPT ![u] = "error"]
    /\ lock' = IF lock = u THEN NoUnit ELSE lock
    /\ CloseTools(u)
    /\ UNCHANGED <<mix, reg, halt, proc, mission, note, ev, wire, host>>

(* bringUp: into the map, unless the manager was closed meanwhile.         *)
Register(u) ==
    /\ host \in {"up", "deaf"}
    /\ Goes(u, "register", "session")
    /\ reg' = [reg EXCEPT ![u] = "yes"]
    /\ lock' = IF lock = u THEN NoUnit ELSE lock
    /\ UNCHANGED <<mix, st, halt, proc, mission, note, tools, ev, wire, host>>

(* ... in which case the fresh instance is stopped right away.             *)
RegisterRefused(u) ==
    /\ host \in {"closing", "closed"}
    /\ Goes(u, "register", "over")
    /\ halt' = [halt EXCEPT ![u] = "unmapped"]
    /\ lock' = IF lock = u THEN NoUnit ELSE lock
    /\ CloseTools(u)
    /\ UNCHANGED <<mix, st, reg, proc, mission, note, ev, wire, host>>

OpenSession(u) ==
    /\ reg[u] = "yes" /\ proc[u] = "up"
    /\ Goes(u, "session", "create")
    /\ UNCHANGED <<mix, lock, instance, mission, note, tools, ev, wire, host>>

Create(u) ==
    /\ Goes(u, "create", "bind")
    /\ ms' = [ms EXCEPT ![u] = "open"]
    /\ UNCHANGED <<mix, lock, instance, bound, said, note, tools, ev, wire, host>>

(* Bind does not look at the mission's status.                             *)
Bind(u) ==
    /\ Goes(u, "bind", "prompt1")
    /\ bound' = [bound EXCEPT ![u] = "yes"]
    /\ UNCHANGED <<mix, lock, instance, ms, said, note, tools, ev, wire, host>>

(* One of the three calls fails: session/new does so for certain when the  *)
(* instance or its subprocess is gone.                                     *)
CallFails(u) ==
    /\ dp[u] \in {"session", "create", "bind"}
    /\ May("call") \/ (dp[u] = "session" /\ (reg[u] # "yes" \/ proc[u] = "down"))
    /\ dp' = [dp EXCEPT ![u] = "drop"]
    /\ UNCHANGED <<mix, lock, instance, mission, note, tools, ev, wire, host>>

(* Mutant: the failed dispatch leaves its instance running.                *)
DropLeaks(u) ==
    /\ Goes(u, "drop", "over")
    /\ CloseTools(u)
    /\ UNCHANGED <<mix, lock, instance, mission, note, ev, wire, host>>

Drop(u) ==
    /\ Goes(u, "drop", "over")
    /\ Unmap({u})
    /\ CloseTools(u)
    /\ UNCHANGED <<mix, lock, st, proc, mission, note, ev, wire, host>>
-----------------------------------------------------------------------------
(* driveUnattendedMission, in a goroutine of its own.                      *)

(* Manager.Prompt: an instance that has left the map is an error.          *)
Prompt(u) ==
    /\ \/ Goes(u, "prompt1", IF reg[u] = "yes" THEN "turn1" ELSE "failed")
       \/ Goes(u, "prompt2", IF reg[u] = "yes" THEN "turn2" ELSE "failed")
    /\ UNCHANGED <<mix, lock, instance, mission, note, tools, ev, wire, host>>

InTurn(u) == dp[u] \in {"turn1", "turn2"}

TurnEnds(u) ==
    /\ InTurn(u)
    /\ proc[u] = "up"
    /\ dp' = [dp EXCEPT ![u] = IF @ = "turn1" THEN "judge1" ELSE "judge2"]
    /\ UNCHANGED <<mix, lock, instance, mission, note, tools, ev, wire, host>>

(* The operator's session/cancel: the drive leaves the mission to them.    *)
TurnCancelled(u) ==
    /\ InTurn(u)
    /\ May("operator")
    /\ proc[u] = "up"
    /\ dp' = [dp EXCEPT ![u] = "ending"]
    /\ note' = [note EXCEPT ![u] = "cancelled"]
    /\ UNCHANGED <<mix, lock, instance, mission, tools, ev, wire, host>>

TurnFails(u) ==
    /\ InTurn(u)
    /\ May("call") \/ proc[u] = "down"
    /\ dp' = [dp EXCEPT ![u] = "failed"]
    /\ UNCHANGED <<mix, lock, instance, mission, note, tools, ev, wire, host>>

(* missionReached: at rest, a plan or a report; a read that fails shows    *)
(* nothing.                                                                *)
Reached(u) == ms[u] # "open" \/ said[u] = "yes"
Looks(u, reached) == reached = Reached(u) \/ (May("call") /\ ~reached)

(* Mutant: the second silent turn ends the drive.                          *)
JudgeGivesUp(u) ==
    /\ \/ /\ Looks(u, TRUE)
          /\ Goes(u, "judge1", "ending") \/ Goes(u, "judge2", "ending")
       \/ /\ Looks(u, FALSE)
          /\ \/ Goes(u, "judge1", "prompt2") \/ Goes(u, "judge1", "stuck")
             \/ Goes(u, "judge2", "ending") \/ Goes(u, "judge2", "stuck")
    /\ UNCHANGED <<mix, lock, instance, mission, note, tools, ev, wire, host>>

(* After a turn: done if the unit reached outside; otherwise the token or  *)
(* turn budget may be spent, the unit is nudged once, or a blocker filed.  *)
Judge(u) ==
    /\ \/ /\ Looks(u, TRUE)
          /\ Goes(u, "judge1", "ending") \/ Goes(u, "judge2", "ending")
       \/ /\ Looks(u, FALSE)
          /\ \/ Goes(u, "judge1", "prompt2") \/ Goes(u, "judge1", "stuck")
             \/ Goes(u, "judge2", "file") \/ Goes(u, "judge2", "stuck")
    /\ UNCHANGED <<mix, lock, instance, mission, note, tools, ev, wire, host>>

(* finishComputeStuck: the mission is finished, the unit is left to the    *)
(* reaping goroutine.                                                      *)
FinishStuck(u) ==
    /\ Goes(u, "stuck", "ending")
    /\ \/ Finish(u) /\ UNCHANGED note
       \/ Breaks(u) /\ UNCHANGED <<ms, ev>>
    /\ UNCHANGED <<mix, lock, instance, bound, said, tools, wire, host>>

FileBlocker(u) ==
    /\ Goes(u, "file", "ending")
    /\ \/ said' = [said EXCEPT ![u] = "yes"] /\ UNCHANGED note
       \/ Breaks(u) /\ UNCHANGED said
    /\ UNCHANGED <<mix, lock, instance, ms, bound, tools, ev, wire, host>>

(* failTurn: a mission at rest needs no blocker ...                        *)
FailedAtRest(u) ==
    /\ ms[u] # "open"
    /\ Goes(u, "failed", "reap")
    /\ UNCHANGED <<mix, lock, instance, mission, note, tools, ev, wire, host>>

(* ... an open one gets a blocker and then its verdict.                    *)
FailedReports(u) ==
    /\ ms[u] = "open" \/ May("call")
    /\ Goes(u, "failed", "derail")
    /\ \/ said' = [said EXCEPT ![u] = "yes"] /\ UNCHANGED note
       \/ Breaks(u) /\ UNCHANGED said
    /\ UNCHANGED <<mix, lock, instance, ms, bound, tools, ev, wire, host>>

(* Mutant: the blocker is thought to be enough.                            *)
DerailSkips(u) ==
    /\ Goes(u, "derail", "reap")
    /\ UNCHANGED <<mix, lock, instance, mission, note, tools, ev, wire, host>>

Derail(u) ==
    /\ Goes(u, "derail", "reap")
    /\ \/ Finish(u) /\ UNCHANGED note
       \/ Breaks(u) /\ UNCHANGED <<ms, ev>>
    /\ UNCHANGED <<mix, lock, instance, bound, said, tools, wire, host>>

Reap(u) ==
    /\ Goes(u, "reap", "ending")
    /\ Unmap({u})
    /\ UNCHANGED <<mix, lock, st, proc, mission, note, tools, ev, wire, host>>

(* The drive's deferred look: tools of a mission at rest are closed.       *)
Conclude(u) ==
    /\ Goes(u, "ending", "over")
    /\ \/ tools' = [tools EXCEPT ![u] = IF ms[u] = "rest" THEN "closed" ELSE @]
       \/ May("call") /\ UNCHANGED tools
    /\ UNCHANGED <<mix, lock, instance, mission, note, ev, wire, host>>
-----------------------------------------------------------------------------
(* The unit, in its turn, and the operator, at any time.                   *)

UnitReports(u) ==
    /\ InTurn(u) /\ proc[u] = "up"
    /\ said[u] = "no"
    /\ said' = [said EXCEPT ![u] = "yes"]
    /\ UNCHANGED <<mix, lock, dp, instance, ms, bound, note, tools, ev, wire, host>>

UnitFinishes(u) ==
    /\ InTurn(u) /\ proc[u] = "up"
    /\ ms[u] = "open"
    /\ Finish(u)
    /\ UNCHANGED <<mix, lock, dp, instance, bound, said, note, tools, wire, host>>

(* StopMission, from any process (a sweep of missions left behind writes   *)
(* and announces the same).                                                *)
StopMission(u) ==
    /\ May("operator")
    /\ ms[u] = "open"
    /\ Finish(u)
    /\ UNCHANGED <<mix, lock, dp, instance, bound, said, note, tools, wire, host>>

(* Stop of the instance.                                                   *)
StopInstance(u) ==
    /\ May("operator")
    /\ reg[u] = "yes"
    /\ Unmap({u})
    /\ UNCHANGED <<mix, lock, dp, st, proc, mission, note, tools, ev, wire, host>>
-----------------------------------------------------------------------------
(* Instances.                                                              *)

(* inst.stop: closed and Stopped under the lock, then the subprocess is    *)
(* closed, killed after the grace period.                                  *)
Shut(u) ==
    /\ halt[u] = "unmapped"
    /\ halt' = [halt EXCEPT ![u] = "shut"]
    /\ st' = [st EXCEPT ![u] = "stopped"]
    /\ UNCHANGED <<mix, lock, dp, reg, proc, mission, note, tools, ev, wire, host>>

CloseProcess(u) ==
    /\ halt[u] = "shut"
    /\ halt' = [halt EXCEPT ![u] = "dead"]
    /\ proc' = [proc EXCEPT ![u] = "down"]
    /\ UNCHANGED <<mix, lock, dp, st, reg, mission, note, tools, ev, wire, host>>

Crash(u) ==
    /\ May("crash")
    /\ proc[u] = "up"
    /\ proc' = [proc EXCEPT ![u] = "down"]
    /\ UNCHANGED <<mix, lock, dp, st, reg, halt, mission, note, tools, ev, wire, host>>


(* The watchdog: a death nobody asked for is an error.                     *)
WatchDog(u) ==
    /\ proc[u] = "down"
    /\ st[u] = "running"
    /\ st' = [st EXCEPT ![u] = "error"]
    /\ UNCHANGED <<mix, lock, dp, reg, halt, proc, mission, note, tools, ev, wire, host>>

(* The root context ends every subprocess, however late it was spawned.    *)
RootKills(u) ==
    /\ host = "closed"
    /\ proc[u] = "up"
    /\ proc' = [proc EXCEPT ![u] = "down"]
    /\ UNCHANGED <<mix, lock, dp, st, reg, halt, mission, note, tools, ev, wire, host>>
-----------------------------------------------------------------------------
(* Status events and the goroutine that reaps (runStatusTeardown).         *)

(* Publish inserts the event for the host that has subscribed.             *)
Publish(u) ==
    /\ ev[u] = "due"
    /\ IF host = "up"
       THEN bus' = Append(bus, u) /\ ev' = [ev EXCEPT ![u] = "queued"]
       ELSE bus' = bus /\ ev' = [ev EXCEPT ![u] = "lost"]
    /\ UNCHANGED <<mix, lock, dp, instance, mission, note, tools, td, host>>

(* The publisher fails or dies between the write and the event, or the bus *)
(* drops it (NATS, or a full subscriber in memory).                        *)
LoseEvent(u) ==
    /\ May("loss")
    /\ ev[u] = "due"
    /\ ev' = [ev EXCEPT ![u] = "lost"]
    /\ UNCHANGED <<mix, lock, dp, instance, mission, note, tools, wire, host>>

(* Mutant: the tools of the mission are left open.                         *)
TakeKeepsTools ==
    /\ td = <<>> /\ bus # <<>>
    /\ td' = <<Head(bus), "read">>
    /\ bus' = Tail(bus)
    /\ UNCHANGED <<mix, lock, dp, instance, mission, note, tools, ev, host>>

Take ==
    /\ td = <<>> /\ bus # <<>>
    /\ td' = <<Head(bus), "read">>
    /\ bus' = Tail(bus)
    /\ CloseTools(Head(bus))
    /\ UNCHANGED <<mix, lock, dp, instance, mission, note, ev, host>>

(* The row names the instance, which is stopped ...                        *)
StopBound ==
    /\ td # <<>> /\ td[2] = "read"
    /\ bound[td[1]] = "yes"
    /\ Unmap({td[1]})
    /\ td' = <<td[1], "stop">>
    /\ ev' = [ev EXCEPT ![td[1]] = "handled"]
    /\ UNCHANGED <<mix, lock, dp, st, proc, mission, note, tools, bus, host>>

(* ... or does not name it yet, or cannot be read: nothing is done.        *)
SkipEvent ==
    /\ td # <<>> /\ td[2] = "read"
    /\ \/ bound[td[1]] = "no" /\ ev' = [ev EXCEPT ![td[1]] = "early"]
       \/ May("call") /\ ev' = [ev EXCEPT ![td[1]] = "lost"]
    /\ td' = <<>>
    /\ UNCHANGED <<mix, lock, dp, instance, mission, note, tools, bus, host>>

(* Stop returns once the instance it took is dead.                         *)
Reaped ==
    /\ td # <<>> /\ td[2] = "stop"
    /\ halt[td[1]] \notin {"unmapped", "shut"}
    /\ td' = <<>>
    /\ UNCHANGED <<mix, lock, dp, instance, mission, note, tools, ev, bus, host>>
-----------------------------------------------------------------------------
(* The host's teardown: the lifetime ends, the subscription ends, the      *)
(* manager is closed and, at last, its root context is cancelled.          *)

(* The subscription drains for a bounded time, what is left then is lost.  *)
Unsubscribe ==
    /\ May("shutdown")
    /\ host = "up"
    /\ host' = "deaf"
    /\ tools' = [u \in Units |-> IF tools[u] = "open" THEN "closed" ELSE tools[u]]
    /\ \E k \in 0..Len(bus) :
         /\ bus' = SubSeq(bus, 1, k)
         /\ ev' = [u \in Units |-> IF \E i \in k + 1..Len(bus) : bus[i] = u
                                   THEN "lost" ELSE ev[u]]
    /\ UNCHANGED <<mix, lock, dp, instance, mission, note, td>>

CloseManager ==
    /\ host = "deaf"
    /\ host' = "closing"
    /\ Unmap(Units)
    /\ UNCHANGED <<mix, lock, dp, st, proc, mission, note, tools, ev, wire>>

CancelRoot ==
    /\ host = "closing"
    /\ \A u \in Units : reg[u] = "gone" => halt[u] = "dead"
    /\ host' = "closed"
    /\ UNCHANGED <<mix, lock, dp, instance, mission, note, tools, ev, wire>>
-----------------------------------------------------------------------------
DispatchStep(u) ==
    \/ Admit(u) \/ Spawn(u) \/ SpawnFails(u) \/ Register(u) \/ RegisterRefused(u)
    \/ OpenSession(u) \/ Create(u) \/ Bind(u) \/ CallFails(u) \/ Drop(u)

DriveStep(u) ==
    \/ Prompt(u) \/ Judge(u) \/ FinishStuck(u) \/ FileBlocker(u)
    \/ FailedAtRest(u) \/ FailedReports(u) \/ Derail(u) \/ Reap(u) \/ Conclude(u)

InstanceStep(u) == Shut(u) \/ CloseProcess(u) \/ WatchDog(u) \/ RootKills(u)

Environment(u) ==
    \/ Refuse(u) \/ TurnEnds(u) \/ TurnCancelled(u)
    \/ UnitReports(u) \/ UnitFinishes(u)
    \/ StopMission(u) \/ StopInstance(u) \/ Crash(u) \/ LoseEvent(u)

HostStep == Unsubscribe \/ CloseManager \/ CancelRoot

Next ==
    \/ \E u \in Units : DispatchStep(u) \/ DriveStep(u) \/ TurnFails(u)
                        \/ InstanceStep(u) \/ Publish(u) \/ Environment(u)
    \/ Take \/ StopBound \/ SkipEvent \/ Reaped
    \/ HostStep

Spec == Init /\ [][Next]_vars

(* Every goroutine that can take a step takes one.  Nobody has to dispatch *)
(* or to shut the host down, and a turn may last for ever unless the       *)
(* connection under it is gone.                                            *)
LiveSpec ==
    /\ Spec
    /\ \A u \in Units :
         /\ WF_vars(DispatchStep(u) /\ dp[u] # "idle")
         /\ WF_vars(DriveStep(u))
         /\ WF_vars(TurnFails(u) /\ proc[u] = "down")
         /\ WF_vars(InstanceStep(u))
         /\ WF_vars(Publish(u))
    /\ WF_vars(Take \/ StopBound \/ SkipEvent \/ Reaped)
    /\ WF_vars(CloseManager \/ CancelRoot)
-----------------------------------------------------------------------------
(* Every variable has its type.                                            *)
TypeOK ==
    /\ mix \in Mixes
    /\ lock \in Units \cup {NoUnit}
    /\ dp \in [Units -> {"idle", "spawn", "register", "session", "create", "bind",
                         "drop", "prompt1", "turn1", "judge1", "prompt2", "turn2",
                         "judge2", "stuck", "file", "failed",
                         "derail", "reap", "ending", "over"}]
    /\ st \in [Units -> {"none", "running", "error", "stopped"}]
    /\ reg \in [Units -> {"no", "yes", "gone"}]
    /\ halt \in [Units -> {"no", "unmapped", "shut", "dead"}]
    /\ proc \in [Units -> {"none", "up", "down"}]
    /\ ms \in [Units -> {"none", "open", "rest"}]
    /\ bound \in [Units -> {"no", "yes"}]
    /\ said \in [Units -> {"no", "yes"}]
    /\ note \in [Units -> {"none", "broke", "cancelled"}]
    /\ tools \in [Units -> {"none", "open", "closed"}]
    /\ ev \in [Units -> {"none", "due", "queued", "lost", "early", "handled"}]
    /\ bus \in Seq(Units)
    /\ td \in {<<>>} \cup (Units \X {"read", "stop"})
    /\ host \in {"up", "deaf", "closing", "closed"}

(* The fleet is never wider than its cap: two dispatches cannot both pass  *)
(* the check (fleetservice.go Dispatch, the lock around admitUnit and      *)
(* StartResolved).                                                         *)
WidthCapped == MaxParallel > 0 => Cardinality(Open) <= MaxParallel

(* When the drive of a bound mission is over, the operator has something   *)
(* to see: the mission is at rest, or shows a report or a plan, unless the *)
(* operator cancelled the turn or the store refused the write              *)
(* (fleetservice.go driveUnattendedMission, failTurn).                     *)
NeverSilent ==
    \A u \in Units :
        (dp[u] = "over" /\ bound[u] = "yes" /\ note[u] = "none") => Reached(u)

(* A failed turn leaves its mission at rest by the time the drive is over, *)
(* since nothing else will ever prompt the unit: no mission is open with   *)
(* its drive gone and its subprocess stopped by that drive (failTurn).     *)
FailedComesToRest ==
    \A u \in Units :
        (dp[u] = "failed") ~> (dp[u] = "over" /\ (ms[u] = "rest" \/ note[u] = "broke"))

(* A subprocess that nobody can reach any more dies: its instance has left *)
(* the map, or its dispatch was given up before the mission named it       *)
(* (fleetservice.go Dispatch, agentinstance bringUp and Close).            *)
NoOrphan ==
    \A u \in Units :
        (proc[u] = "up" /\ dp[u] \in {"drop", "over"} /\ (reg[u] # "yes" \/ bound[u] = "no"))
            ~> (proc[u] = "down")

(* A unit whose mission has come to rest is reaped, unless the status      *)
(* event was lost or was handled before the mission named its instance     *)
(* (stop.go runStatusTeardown).                                            *)
AtRestReaped ==
    \A u \in Units :
        (ms[u] = "rest") ~> (proc[u] = "down" \/ ev[u] \in {"lost", "early"})

(* The same without the second exception, as stop.go's comment on          *)
(* StopMission has it: "the subprocess itself is reaped separately by the  *)
(* host's StatusChanged subscriber."                                       *)
StoppedIsReaped ==
    \A u \in Units : (ms[u] = "rest") ~> (proc[u] = "down" \/ ev[u] = "lost")

(* The tool server of a mission at rest is closed, by the drive or by the  *)
(* reaping goroutine, whichever comes after the end (fleetservice.go's     *)
(* deferred closeTools, stop.go closeMissionTools).                        *)
ToolsClosed ==
    \A u \in Units : (ms[u] = "rest") ~> (tools[u] # "open" \/ ev[u] = "lost")
=============================================================================
