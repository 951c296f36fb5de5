-------------------------------- MODULE Meter --------------------------------
(***************************************************************************)
(* The gateway's usage meter: several gateway processes share one usage    *)
(* table and elect its writer with a lease (Lease).                        *)
(*                                                                         *)
(* keep renews the lease while it is held and contends for it otherwise.   *)
(* A served turn is charged once its process has read its own role: the    *)
(* writer commits the charge, any other process publishes the turn, and    *)
(* every other process's consumer reads its role again when it drains it.  *)
(* Reading the role and committing the charge are separate steps.          *)
(***************************************************************************)
EXTENDS Lease

CONSTANT Turns   \* the served turns to charge

VARIABLES
    keep,      \* where each meterWriter's keep loop is
    previous,  \* acquire's previous handle, still to be released
    up,        \* processes whose context is not done
    stage,     \* what became of each turn at the process that served it
    inbox,     \* turns delivered to a consumer and not drained yet
    writing,   \* <<process, turn>>: role read as writer, not committed yet
    counted    \* how many times a turn was charged

meterVars == <<keep, previous, up, stage, inbox, writing, counted>>
allMeterVars == <<leaseVars, meterVars>>
turnVars == <<stage, inbox, writing, counted>>

MeterInit ==
    /\ Init
    /\ keep = [p \in Procs |-> "new"]
    /\ previous = [p \in Procs |-> NoRec]
    /\ up = Procs
    /\ stage = [t \in Turns |-> "new"]
    /\ inbox = [p \in Procs |-> {}]
    /\ writing = {}
    /\ counted = [t \in Turns |-> 0]

holdsAnyHandle(p) == handle[p].id # NoId

(* meterWriter.holds: the handle against the local clock.  Lease.Expired   *)
(* waits for the handle's mutex while a Renew runs.                        *)
holds(p) == handle[p].id # NoId /\ ~expired(handle[p], now)
RoleReadable(p) == op[p] # "renew"

(* The process serves turns and drains the bus: it has contended once.     *)
Started(p) == p \in up /\ keep[p] \notin {"new", "start"}

-----------------------------------------------------------------------------
(* The keep loop                                                           *)

(* meterWriter.Start: contend once, before the consumer subscribes.        *)
Start(p) ==
    /\ p \in up
    /\ keep[p] = "new"
    /\ AcquireContext(p)
    /\ keep' = [keep EXCEPT ![p] = "start"]
    /\ UNCHANGED <<previous, up, turnVars>>

(* A tick of keep's ticker.                                                *)
KeepTick(p) ==
    /\ p \in up
    /\ keep[p] = "wait"
    /\ IF holds(p)
         THEN RenewContext(p) /\ keep' = [keep EXCEPT ![p] = "renew"]
         ELSE AcquireContext(p) /\ keep' = [keep EXCEPT ![p] = "acquire"]
    /\ previous' = [previous EXCEPT ![p] = IF holds(p) THEN NoRec ELSE handle[p]]
    /\ UNCHANGED <<up, turnVars>>

(* keep has looked at the result of its call, which is gone by then.       *)
Looked(p) ==
    /\ ret' = [ret EXCEPT ![p] = "none"]
    /\ UNCHANGED <<now, lock, file, pc, op, cand, faults>>

(* renew returned: on an error, drop discards the handle.                  *)
KeepRenewReturns(p) ==
    /\ keep[p] = "renew"
    /\ pc[p] = "idle"
    /\ IF ret[p] = "ok" THEN UNCHANGED <<handle, proven>> ELSE Forget(p)
    /\ keep' = [keep EXCEPT ![p] = "wait"]
    /\ Looked(p)
    /\ UNCHANGED <<previous, up, turnVars>>

(* acquire returned: on success the previous handle is released.           *)
AcquireReturns(p) ==
    /\ keep[p] \in {"start", "acquire"}
    /\ pc[p] = "idle"
    /\ \/ /\ ret[p] = "ok" /\ previous[p].id # NoId
          /\ Call(p, "release", previous[p])
          /\ keep' = [keep EXCEPT ![p] = "release"]
          /\ UNCHANGED <<handle, proven>>
       \/ /\ ret[p] # "ok" \/ previous[p].id = NoId
          /\ keep' = [keep EXCEPT ![p] = "wait"]
          /\ Looked(p) /\ UNCHANGED <<handle, proven>>
    /\ previous' = [previous EXCEPT ![p] = NoRec]
    /\ UNCHANGED <<up, turnVars>>

ReleaseReturns(p) ==
    /\ keep[p] = "release"
    /\ pc[p] = "idle"
    /\ keep' = [keep EXCEPT ![p] = "wait"]
    /\ Looked(p)
    /\ UNCHANGED <<handle, proven, previous, up, turnVars>>

(* The context is done: release gives the role up.                         *)
Stop(p) ==
    /\ p \in up
    /\ keep[p] = "wait"
    /\ up' = up \ {p}
    /\ \/ handle[p].id # NoId /\ ReleaseContext(p)
       \/ handle[p].id = NoId /\ UNCHANGED leaseVars
    /\ keep' = [keep EXCEPT ![p] = "stopped"]
    /\ inbox' = [inbox EXCEPT ![p] = {}]
    /\ UNCHANGED <<previous, stage, writing, counted>>

-----------------------------------------------------------------------------
(* Charging turns                                                          *)

(* chargeTurn at the process that served the turn: the role is read once.  *)
ChargeTurn(p, t) ==
    /\ Started(p)
    /\ RoleReadable(p)
    /\ stage[t] = "new"
    /\ \/ /\ holds(p)
          /\ stage' = [stage EXCEPT ![t] = "written"]
          /\ writing' = writing \cup {<<p, t>>}
          /\ UNCHANGED inbox
       \/ /\ ~holds(p)
          /\ stage' = [stage EXCEPT ![t] = "published"]
          /\ inbox' = [q \in Procs |-> IF q # p /\ Started(q) THEN inbox[q] \cup {t} ELSE inbox[q]]
          /\ UNCHANGED writing
    /\ UNCHANGED <<leaseVars, keep, previous, up, counted>>

(* StartUsageConsumer's loop: a follower drains the turn and drops it.     *)
Consume(p, t) ==
    /\ t \in inbox[p]
    /\ RoleReadable(p)
    /\ inbox' = [inbox EXCEPT ![p] = @ \ {t}]
    /\ writing' = IF holds(p) THEN writing \cup {<<p, t>>} ELSE writing
    /\ UNCHANGED <<leaseVars, keep, previous, up, stage, counted>>

(* UsageStore.RecordUsage: one transaction.                                *)
RecordUsage(p, t) ==
    /\ <<p, t>> \in writing
    /\ writing' = writing \ {<<p, t>>}
    /\ counted' = [counted EXCEPT ![t] = @ + 1]
    /\ UNCHANGED <<leaseVars, keep, previous, up, stage, inbox>>

-----------------------------------------------------------------------------
(* The process dies, and is started again.                                 *)
MeterDie(p) ==
    /\ Crash(p)
    /\ keep' = [keep EXCEPT ![p] = IF p \in up THEN "new" ELSE "stopped"]
    /\ previous' = [previous EXCEPT ![p] = NoRec]
    /\ inbox' = [inbox EXCEPT ![p] = {}]
    /\ writing' = {w \in writing : w[1] # p}
    /\ UNCHANGED <<up, stage, counted>>

(* Time passes; not between a Renew that returned and the drop after it.   *)
MeterTick ==
    /\ \A p \in Procs : ~(keep[p] = "renew" /\ pc[p] = "idle")
    /\ Tick
    /\ UNCHANGED meterVars

(* A new ID is also none of a handle still to be released.                 *)
Kept == {previous[q].id : q \in Procs}

MeterStep(p) == (Step(p, Kept) \/ CallFails(p)) /\ UNCHANGED meterVars

MeterNext ==
    \/ \E p \in Procs :
          \/ Start(p) \/ KeepTick(p) \/ KeepRenewReturns(p) \/ AcquireReturns(p) \/ ReleaseReturns(p)
          \/ Stop(p) \/ MeterStep(p) \/ MeterDie(p)
          \/ \E t \in Turns : ChargeTurn(p, t) \/ Consume(p, t) \/ RecordUsage(p, t)
    \/ MeterTick

MeterSpec == MeterInit /\ [][MeterNext]_allMeterVars

(* Every gateway's keep goroutine goes on with its call, its ticker ticks, *)
(* and time passes; nothing has to stop.                                   *)
MeterFairness ==
    /\ \A p \in Procs :
        WF_allMeterVars(\/ Start(p) \/ KeepTick(p) \/ (Step(p, Kept) /\ UNCHANGED meterVars)
                        \/ KeepRenewReturns(p) \/ AcquireReturns(p) \/ ReleaseReturns(p))
    /\ WF_allMeterVars(MeterTick)

MeterLiveSpec == MeterSpec /\ MeterFairness

-----------------------------------------------------------------------------
(* Properties                                                              *)

(* keep is about to drop a handle whose Renew failed.                      *)
Dropping(p) == keep[p] = "renew" /\ pc[p] = "idle" /\ ret[p] # "ok"

(* The meter has one writer: two processes never both read their role as   *)
(* writer (holds), whatever writes of the lease file fail.  Only between   *)
(* a Renew that failed and the drop after it may the handle, whose         *)
(* RenewedAt moved before the write, still say that the role is held.  And *)
(* a turn that its own process writes is never sent to another as well.    *)
OneWriter ==
    /\ Only({"io"}) => \A p, q \in Procs :
          /\ RoleReadable(p) /\ ~Dropping(p) /\ holds(p)
          /\ RoleReadable(q) /\ ~Dropping(q) /\ holds(q)
          => p = q
    /\ \A t \in Turns : stage[t] = "written" =>
          counted[t] <= 1 /\ \A p \in Procs : t \notin inbox[p]

(* A follower keeps asking, so the role moves when the holder stops: while *)
(* some process runs, a lapsed or missing lease is taken by a process.     *)
RoleMoves ==
    (file.id = NoId \/ expired(file, now)) ~> (up = {} \/ \E p \in Procs : holds(p))
=============================================================================
