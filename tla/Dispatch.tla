------------------------------ MODULE Dispatch ------------------------------
(***************************************************************************)
(* The durable event log and the triggers that fire on it.                 *)
(*                                                                         *)
(* Events are appended to one table per day, under numbers (NIDs) from one *)
(* sequence.  A dispatcher reads the tables one after the other from its   *)
(* cursor on and handles every event in order; a process that appends an   *)
(* event may also handle it itself, in a goroutine.  Both claim each       *)
(* (trigger, event) pair in event_firings before they run the trigger's    *)
(* chain, and a claim that is not finished goes stale.  A chain appends    *)
(* events of its own.                                                      *)
(*                                                                         *)
(* Time is the day, and the age of a claim (running, then stale).          *)
(***************************************************************************)
EXTENDS Naturals, FiniteSets, Sequences

CONSTANTS Dispatchers,  \* `events dispatch' processes, one consumer name
          NumTriggers,  \* triggers, numbered in declaration order
          Types,        \* event types
          Listens,      \* trigger -> the types its pattern matches
          MaxHop,       \* Deps.MaxHop
          Batch,        \* Deps.Batch
          MaxEvents,    \* bound: events in the log
          MaxPublished, \* bound: events from outside every chain
          MaxDay,       \* bound: days that pass
          Faults,       \* what may happen meanwhile, of FaultKinds
          MaxFaults     \* bound: how often

Triggers == 1 .. NumTriggers
NIDs     == 1 .. MaxEvents
Days     == 1 .. MaxDay

FaultKinds ==
    {"midnight",                   \* the day changes
     "crash",                      \* its process dies
     "claim", "finish", "cursor",  \* the store refuses this write
     "interrupt",                  \* the operator presses Ctrl-C
     "slow",                       \* a chain outlasts StaleEventFiringClaim
     "suspend",                    \* a chain suspends on an ask and is resumed
     "stray"}                      \* a chain starts what does not know the hop

ASSUME DispatchConstants ==
    /\ Dispatchers \cap NIDs = {}
    /\ NumTriggers \in Nat /\ MaxHop \in Nat /\ Batch \in Nat \ {0}
    /\ MaxEvents \in Nat /\ MaxPublished \in Nat /\ MaxDay \in Nat \ {0} /\ MaxFaults \in Nat
    /\ Listens \in [Triggers -> SUBSET Types]
    /\ Faults \subseteq FaultKinds

VARIABLES
    today,      \* the current day
    parts,      \* registered partitions (event_partitions)
    log,        \* events by NID: type, day, hop, and depth, the generations behind it
    firing,     \* event_firings: per event and trigger its status
    dbCursor,   \* event_cursors: the consumer's last settled NID
    disp,       \* per dispatcher: its loop
    job,        \* per dispatcher, and per event for the appender's goroutine: handle()
    strays,     \* events whose chains set something going that does not know the hop
    ran,        \* per event and trigger: times its chain was started
    died,       \* per event and trigger: claims whose outcome was never recorded
    faults      \* how many faults so far, and which kinds were seen

vars == <<today, parts, log, firing, dbCursor, disp, job, strays, ran, died, faults>>
ghosts == <<ran, died>>

Workers  == Dispatchers \cup NIDs
Statuses == {"none", "running", "stale", "done", "refused"}  \* done: ok or error
Settled  == {"done", "refused"}
Appended == 1 .. Len(log)

IdleJob == [pc |-> "idle", ev |-> 0, left |-> {}, outcome |-> "done"]
Off     == [pc |-> "off", ctx |-> "live", cursor |-> 0, parts |-> {}, batch |-> {}, full |-> FALSE]

Init ==
    /\ today = 1 /\ parts = {} /\ log = <<>>
    /\ firing = [n \in NIDs |-> [t \in Triggers |-> "none"]]
    /\ dbCursor = 0
    /\ disp = [d \in Dispatchers |-> Off]
    /\ job = [w \in Workers |-> IdleJob]
    /\ strays = {}
    /\ ran = [n \in NIDs |-> [t \in Triggers |-> 0]]
    /\ died = [n \in NIDs |-> [t \in Triggers |-> 0]]
    /\ faults = [n |-> 0, seen |-> {}]

Fault(kind) ==
    /\ kind \in Faults /\ faults.n < MaxFaults
    /\ faults' = [n |-> faults.n + 1, seen |-> faults.seen \cup {kind}]

Unseen(kinds) == faults.seen \cap kinds = {}

-----------------------------------------------------------------------------
(* The log.                                                                *)

(* Before the first event it would only give the first day another number. *)
Midnight ==
    /\ log # <<>> /\ today < MaxDay /\ today' = today + 1 /\ Fault("midnight")
    /\ UNCHANGED <<parts, log, firing, dbCursor, disp, job, strays, ghosts>>

(* An appender has stamped its event and creates the day's table.          *)
EnsureEventPartitionExists ==
    /\ today \notin parts /\ parts' = parts \cup {today}
    /\ UNCHANGED <<today, log, firing, dbCursor, disp, job, strays, ghosts, faults>>

(* PruneEventPartitionsBefore drops the tables of earlier days.            *)
PruneEventPartitionsBefore ==
    /\ \E p \in parts : p < today /\ parts' = parts \ {p}
    /\ UNCHANGED <<today, log, firing, dbCursor, disp, job, strays, ghosts, faults>>

Matching(type) == {t \in Triggers : type \in Listens[t]}

NewJob(n, type) == [pc |-> "claim", ev |-> n, left |-> Matching(type), outcome |-> "done"]

(* AppendEvent: one transaction takes the next NID and inserts the row     *)
(* into the table of the day the event was stamped with, today or, around  *)
(* midnight, yesterday.  Then fireTrigger, if this process has a Handler.  *)
AppendEvent(type, hop, depth, hooked) ==
    LET n == Len(log) + 1 IN
    /\ n \in NIDs
    /\ \E day \in parts \cap {today - 1, today} :
         log' = Append(log, [type |-> type, day |-> day, hop |-> hop, depth |-> depth])
    /\ job' = IF hooked THEN [job EXCEPT ![n] = NewJob(n, type)] ELSE job

(* Somebody outside every chain appends an event.                          *)
Publish ==
    /\ Cardinality({n \in Appended : log[n].depth = 0}) < MaxPublished
    /\ \E type \in Types, hooked \in BOOLEAN : AppendEvent(type, 0, 0, hooked)
    /\ UNCHANGED <<today, parts, firing, dbCursor, disp, strays, ghosts, faults>>

-----------------------------------------------------------------------------
(* handle(): for every matching trigger in turn, claim, run, finish.       *)

Least(S)  == CHOOSE x \in S : \A y \in S : x <= y
Trig(w)   == Least(job[w].left)
Status(w) == firing[job[w].ev][Trig(w)]
Record(w, status) == firing' = [firing EXCEPT ![job[w].ev][Trig(w)] = status]
Count(f, w) == [f EXCEPT ![job[w].ev][Trig(w)] = @ + 1]

(* This trigger is done with; the next one is claimed.                     *)
NextTrigger(w) == job' = [job EXCEPT ![w].left = @ \ {Trig(w)}, ![w].pc = "claim", ![w].outcome = "done"]

Cancelled(w) == w \in Dispatchers /\ disp[w].ctx = "done"

Claims(w) == job[w].pc = "claim" /\ job[w].left # {}

(* Mutant: a running row is taken over whatever its age.                   *)
BeginFiring_steals(w) ==
    /\ Claims(w) /\ ~Cancelled(w)
    /\ IF Status(w) \in {"none", "stale", "running"}
       THEN Record(w, "running") /\ job' = [job EXCEPT ![w].pc = "run"]
       ELSE NextTrigger(w) /\ UNCHANGED firing
    /\ UNCHANGED <<today, parts, log, dbCursor, disp, strays, ghosts, faults>>

(* Mutant: the takeover does not look at the status.                       *)
BeginFiring_again(w) ==
    /\ Claims(w) /\ ~Cancelled(w)
    /\ IF Status(w) # "running"
       THEN Record(w, "running") /\ job' = [job EXCEPT ![w].pc = "run"]
       ELSE NextTrigger(w) /\ UNCHANGED firing
    /\ UNCHANGED <<today, parts, log, dbCursor, disp, strays, ghosts, faults>>

(* INSERT ... ON CONFLICT DO NOTHING, else the takeover of a stale row.    *)
BeginFiring(w) ==
    /\ Claims(w) /\ ~Cancelled(w)
    /\ IF Status(w) \in {"none", "stale"}
       THEN Record(w, "running") /\ job' = [job EXCEPT ![w].pc = "run"]
       ELSE NextTrigger(w) /\ UNCHANGED firing
    /\ UNCHANGED <<today, parts, log, dbCursor, disp, strays, ghosts, faults>>

(* The claim cannot be written: the context is cancelled or the store      *)
(* fails.  It is reported and the loop goes on.                            *)
ClaimFails(w) ==
    /\ Claims(w) /\ NextTrigger(w)
    /\ (Cancelled(w) /\ UNCHANGED faults) \/ Fault("claim")
    /\ UNCHANGED <<today, parts, log, firing, dbCursor, disp, strays, ghosts>>

Ends(w, outcome) == job' = [job EXCEPT ![w].pc = "finish", ![w].outcome = outcome]

(* An event past the hop budget is refused.                                *)
Refuse(w) ==
    /\ job[w].pc = "run" /\ log[job[w].ev].hop > MaxHop
    /\ Ends(w, "refused")
    /\ UNCHANGED <<today, parts, log, firing, dbCursor, disp, strays, ghosts, faults>>

(* Mutant: the hop is not looked at.                                       *)
RunChain_anyHop(w) ==
    /\ job[w].pc = "run"
    /\ job' = [job EXCEPT ![w].pc = "chain"] /\ ran' = Count(ran, w)
    /\ UNCHANGED <<today, parts, log, firing, dbCursor, disp, strays, died, faults>>

RunChain(w) ==
    /\ job[w].pc = "run" /\ log[job[w].ev].hop <= MaxHop
    /\ job' = [job EXCEPT ![w].pc = "chain"] /\ ran' = Count(ran, w)
    /\ UNCHANGED <<today, parts, log, firing, dbCursor, disp, strays, died, faults>>

(* A chain fired for event n appends an event in its own context, which    *)
(* carries the hop (WithEventHop), or a unit of kind chain that it started *)
(* does, spawned with the hop in its environment.  The unit outlives the   *)
(* chain, so that the chain must have been started and may have returned.  *)
ChainAppends(n) ==
    /\ n \in Appended /\ \E t \in Triggers : ran[n][t] > 0
    /\ \E type \in Types, hooked \in BOOLEAN : AppendEvent(type, log[n].hop + 1, log[n].depth + 1, hooked)
    /\ UNCHANGED <<today, parts, firing, dbCursor, disp, strays, ghosts, faults>>

(* The chain starts what is not given the hop: an external unit with the   *)
(* mission tools served to it, a child process of a shell or MCP tool.     *)
ChainStrays(w) ==
    /\ job[w].pc = "chain" /\ Fault("stray")
    /\ strays' = strays \cup {job[w].ev}
    /\ UNCHANGED <<today, parts, log, firing, dbCursor, disp, job, ghosts>>

(* The chain returns, or suspends on an ask, which Prompt returns as no    *)
(* error: it goes on in the process that answers the ask, whose context    *)
(* carries no hop.                                                         *)
ChainReturns(w) ==
    /\ job[w].pc = "chain"
    /\ Ends(w, "done")
    /\ \/ UNCHANGED <<strays, faults>>
       \/ Fault("suspend") /\ strays' = strays \cup {job[w].ev}
    /\ UNCHANGED <<today, parts, log, firing, dbCursor, disp, ghosts>>

(* What a chain of event n set going without the hop appends an event, at  *)
(* any later time.                                                         *)
StrayAppends(n) ==
    /\ n \in strays
    /\ \E type \in Types, hooked \in BOOLEAN : AppendEvent(type, 0, log[n].depth + 1, hooked)
    /\ UNCHANGED <<today, parts, firing, dbCursor, disp, strays, ghosts, faults>>

(* UPDATE ... WHERE the row is this pair's, on a context nobody cancels.   *)
FinishFiring(w) ==
    /\ job[w].pc = "finish"
    /\ Record(w, job[w].outcome) /\ NextTrigger(w)
    /\ UNCHANGED <<today, parts, log, dbCursor, disp, strays, ghosts, faults>>

FinishFails(w) ==
    /\ job[w].pc = "finish" /\ Fault("finish")
    /\ NextTrigger(w) /\ died' = Count(died, w)
    /\ UNCHANGED <<today, parts, log, firing, dbCursor, disp, strays, ran>>

(* The appender's goroutine has been through all its triggers.             *)
GoroutineEnds(n) ==
    /\ job[n].pc = "claim" /\ job[n].left = {}
    /\ job' = [job EXCEPT ![n] = IdleJob]
    /\ UNCHANGED <<today, parts, log, firing, dbCursor, disp, strays, ghosts, faults>>

Holds(w, n, t) == job[w].pc \in {"run", "chain", "finish"} /\ job[w].ev = n /\ Trig(w) = t

(* StaleEventFiringClaim passes.                                           *)
ClaimGoesStale(n, t) ==
    /\ firing[n][t] = "running"
    /\ IF \E w \in Workers : Holds(w, n, t) THEN Fault("slow") ELSE UNCHANGED faults
    /\ firing' = [firing EXCEPT ![n][t] = "stale"]
    /\ UNCHANGED <<today, parts, log, dbCursor, disp, job, strays, ghosts>>

-----------------------------------------------------------------------------
(* The dispatcher's loop.                                                  *)

(* Run loads the cursor and subscribes; the first drain begins.            *)
Start(d) ==
    /\ disp[d].pc = "off"
    /\ disp' = [disp EXCEPT ![d] = [Off EXCEPT !.pc = "list", !.cursor = dbCursor]]
    /\ UNCHANGED <<today, parts, log, firing, dbCursor, job, strays, ghosts, faults>>

(* ListEventsSince asks for the registered partitions ...                  *)
ListEventPartitions(d) ==
    /\ disp[d].pc = "list" /\ disp[d].ctx = "live"
    /\ disp' = [disp EXCEPT ![d].pc = "read", ![d].parts = parts, ![d].batch = {}]
    /\ UNCHANGED <<today, parts, log, firing, dbCursor, job, strays, ghosts, faults>>

First(S, k) == {n \in S : Cardinality({m \in S : m < n}) < k}

(* Mutant: the cursor is taken for the next event to read.                 *)
ReadPartition_from(d) ==
    /\ disp[d].pc = "read" /\ disp[d].ctx = "live" /\ disp[d].parts # {}
    /\ LET p    == Least(disp[d].parts)
           rows == {n \in Appended : log[n].day = p /\ n > disp[d].cursor + 1} IN
       disp' = IF p \in parts
               THEN [disp EXCEPT ![d].parts = @ \ {p}, ![d].batch = @ \cup First(rows, Batch)]
               ELSE [disp EXCEPT ![d] = [@ EXCEPT !.pc = "wait", !.parts = {}, !.batch = {}]]
    /\ UNCHANGED <<today, parts, log, firing, dbCursor, job, strays, ghosts, faults>>

(* ... and reads them in period order, each in a query of its own.  A      *)
(* table that is gone fails the read; the next tick tries again.           *)
ReadPartition(d) ==
    /\ disp[d].pc = "read" /\ disp[d].ctx = "live" /\ disp[d].parts # {}
    /\ LET p    == Least(disp[d].parts)
           rows == {n \in Appended : log[n].day = p /\ n > disp[d].cursor} IN
       disp' = IF p \in parts
               THEN [disp EXCEPT ![d].parts = @ \ {p}, ![d].batch = @ \cup First(rows, Batch)]
               ELSE [disp EXCEPT ![d] = [@ EXCEPT !.pc = "wait", !.parts = {}, !.batch = {}]]
    /\ UNCHANGED <<today, parts, log, firing, dbCursor, job, strays, ghosts, faults>>

(* The rows are sorted and cut to one batch.                               *)
SortEvents(d) ==
    /\ disp[d].pc = "read" /\ disp[d].parts = {}
    /\ LET batch == First(disp[d].batch, Batch) IN
       disp' = [disp EXCEPT ![d].pc = IF batch = {} THEN "wait" ELSE "pick",
                            ![d].batch = batch,
                            ![d].full = (Cardinality(batch) = Batch)]
    /\ UNCHANGED <<today, parts, log, firing, dbCursor, job, strays, ghosts, faults>>

(* Mutant: the cursor is stored before the event is handled.               *)
PickEvent_settles(d) ==
    /\ disp[d].pc = "pick" /\ disp[d].ctx = "live"
    /\ LET n == Least(disp[d].batch) IN
       /\ job' = [job EXCEPT ![d] = NewJob(n, log[n].type)]
       /\ dbCursor' = n
    /\ disp' = [disp EXCEPT ![d].pc = "handle"]
    /\ UNCHANGED <<today, parts, log, firing, strays, ghosts, faults>>

(* drain takes the batch's next event, and handle its matching triggers.   *)
PickEvent(d) ==
    /\ disp[d].pc = "pick" /\ disp[d].ctx = "live"
    /\ LET n == Least(disp[d].batch) IN
       job' = [job EXCEPT ![d] = NewJob(n, log[n].type)]
    /\ disp' = [disp EXCEPT ![d].pc = "handle"]
    /\ UNCHANGED <<today, parts, log, firing, dbCursor, strays, ghosts, faults>>

(* handle has returned: the cursor moves on, in memory and in the store    *)
(* (a failed write is reported only).                                      *)
SetCursor(d) ==
    LET n    == job[d].ev
        rest == disp[d].batch \ {n} IN
    /\ disp[d].pc = "handle" /\ job[d].pc = "claim" /\ job[d].left = {}
    /\ job' = [job EXCEPT ![d] = IdleJob]
    /\ disp' = [disp EXCEPT ![d].cursor = n, ![d].batch = rest,
                            ![d].pc = IF rest # {} THEN "pick" ELSE IF disp[d].full THEN "list" ELSE "wait"]
    /\ (dbCursor' = n /\ UNCHANGED faults) \/ (Fault("cursor") /\ UNCHANGED dbCursor)
    /\ UNCHANGED <<today, parts, log, firing, strays, ghosts>>

(* The poll tick or a bus delivery.                                        *)
Tick(d) ==
    /\ disp[d].pc = "wait" /\ disp[d].ctx = "live"
    /\ disp' = [disp EXCEPT ![d].pc = "list"]
    /\ UNCHANGED <<today, parts, log, firing, dbCursor, job, strays, ghosts, faults>>

Interrupt(d) ==
    /\ disp[d].pc # "off" /\ disp[d].ctx = "live" /\ Fault("interrupt")
    /\ disp' = [disp EXCEPT ![d].ctx = "done"]
    /\ UNCHANGED <<today, parts, log, firing, dbCursor, job, strays, ghosts>>

(* A cancelled context fails the reads, and Run returns.                   *)
Stop(d) ==
    /\ disp[d].ctx = "done" /\ disp[d].pc \in {"list", "read", "pick", "wait"}
    /\ disp' = [disp EXCEPT ![d] = Off]
    /\ UNCHANGED <<today, parts, log, firing, dbCursor, job, strays, ghosts, faults>>

(* The process of worker w dies, or its teardown does not wait for it.     *)
Crash(w) ==
    /\ Fault("crash") /\ (job[w].pc # "idle" \/ (w \in Dispatchers /\ disp[w].pc # "off"))
    /\ died' = IF job[w].pc \in {"run", "chain", "finish"} THEN Count(died, w) ELSE died
    /\ job' = [job EXCEPT ![w] = IdleJob]
    /\ disp' = IF w \in Dispatchers THEN [disp EXCEPT ![w] = Off] ELSE disp
    /\ UNCHANGED <<today, parts, log, firing, dbCursor, strays, ran>>

-----------------------------------------------------------------------------
Handle(w) ==
    \/ BeginFiring(w) \/ (Cancelled(w) /\ ClaimFails(w)) \/ Refuse(w) \/ RunChain(w)
    \/ ChainReturns(w) \/ FinishFiring(w)

Loop(d) ==
    \/ ListEventPartitions(d) \/ ReadPartition(d) \/ SortEvents(d) \/ PickEvent(d)
    \/ SetCursor(d) \/ Tick(d) \/ Stop(d)

Next ==
    \/ Midnight \/ EnsureEventPartitionExists \/ PruneEventPartitionsBefore \/ Publish
    \/ \E w \in Workers :
         Handle(w) \/ ChainStrays(w) \/ ClaimFails(w) \/ FinishFails(w) \/ Crash(w)
    \/ \E n \in NIDs : GoroutineEnds(n) \/ ChainAppends(n) \/ StrayAppends(n)
    \/ \E n \in NIDs, t \in Triggers : ClaimGoesStale(n, t)
    \/ \E d \in Dispatchers : Start(d) \/ Loop(d) \/ Interrupt(d)

Spec == Init /\ [][Next]_vars

(* Processes go on with what they began, chains return, and a dispatcher   *)
(* that stopped is started again.  No claim has to age.                    *)
LiveSpec ==
    /\ Spec
    /\ \A n \in NIDs : WF_vars(Handle(n) \/ GoroutineEnds(n))
    /\ \A d \in Dispatchers : WF_vars(Handle(d) \/ Start(d) \/ Loop(d))

-----------------------------------------------------------------------------
Jobs == [pc : {"idle", "claim", "run", "chain", "finish"}, ev : 0 .. MaxEvents,
         left : SUBSET Triggers, outcome : Settled]
Loops == [pc : {"off", "list", "read", "pick", "handle", "wait"}, ctx : {"live", "done"},
          cursor : 0 .. MaxEvents, parts : SUBSET Days, batch : SUBSET NIDs, full : BOOLEAN]

FaultLog == [n : 0 .. MaxFaults, seen : SUBSET Faults]

(* The values of the tables and of every worker's locals.                  *)
DispatchTypeOK ==
    /\ today \in Days /\ parts \subseteq Days
    /\ log \in Seq([type : Types, day : Days, hop : Nat, depth : Nat]) /\ Len(log) <= MaxEvents
    /\ firing \in [NIDs -> [Triggers -> Statuses]]
    /\ dbCursor \in 0 .. MaxEvents
    /\ disp \in [Dispatchers -> Loops] /\ job \in [Workers -> Jobs]
    /\ strays \subseteq NIDs
    /\ ran \in [NIDs -> [Triggers -> Nat]] /\ died \in [NIDs -> [Triggers -> Nat]]
    /\ faults \in FaultLog

(* A trigger's chain runs once for an event, plus once for every claim     *)
(* whose outcome was never recorded, unless a chain outlasted its claim:   *)
(* dispatchers, goroutines and restarts share BeginFiring's claim.         *)
FiresOnce ==
    Unseen({"slow"}) => \A n \in NIDs, t \in Triggers : ran[n][t] <= 1 + died[n][t]

(* A recorded outcome is final: FinishFiring, which looks at nothing, is   *)
(* only ever called by the holder of the claim.                            *)
OutcomeFinal ==
    [][Unseen({"slow"})' =>
         \A n \in NIDs, t \in Triggers :
           firing[n][t] \in Settled => firing'[n][t] = firing[n][t]]_vars

(* Triggers that feed themselves die out, through the chains' own appends  *)
(* and through the units of kind chain they start, however late these      *)
(* append: no event is more than the hop budget and one generation away    *)
(* from an event nobody's chain caused.  A resumed chain, an external      *)
(* unit, the mission tools and a tool's child process forget the hop.      *)
HopBudget ==
    Unseen({"suspend", "stray"}) => \A n \in Appended : log[n].depth <= MaxHop + 1

(* Every event up to the cursor that is still in the log has been claimed  *)
(* for every trigger that listens for it.                                  *)
CursorTruthful ==
    \A n \in Appended :
      n <= dbCursor /\ log[n].day \in parts =>
        \A t \in Matching(log[n].type) : firing[n][t] # "none"

(* The cursor tells the truth through crashes, failed cursor writes and    *)
(* restarts, while every claim can be written and the log is in one table. *)
NothingSkipped == Unseen({"claim", "interrupt", "midnight"}) => CursorTruthful

(* Every event that stays in the log reaches an outcome for every trigger  *)
(* that listens for it, while processes live, claims and outcomes can be   *)
(* written and the log is in one table.                                    *)
EventuallySettled ==
    \A n \in NIDs, t \in Triggers :
      (n \in Appended /\ t \in Matching(log[n].type)) ~>
        \/ firing[n][t] \in Settled
        \/ ~Unseen({"crash", "claim", "finish", "interrupt", "midnight"})
=============================================================================
