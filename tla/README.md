# Verification of contenox

TLA+ models of the protocols contenox runs over its shared store, its lease
files and its in-process registries, model-checked with TLC on small instances
and, for the safety part, proved with TLAPS for every value of the constants.

The modules are translated from the Go sources under `src/`. `PROJECT.json`
lists every component, run, mutant, mapped definition, finding, hazard and
theorem; this file explains them. Where a component that is not modelled is a
whole package, its `sources` name the package's principal files.

## 1. The system

contenox runs AI agents as *task chains*. A chain step may call a tool; a policy
may demand that a person approves the call first. Several processes work on one
SQL store at once: a serving host, command-line invocations, editor sessions,
detached units of a fleet, model gateways. They share no memory and no lock.
What keeps them from treading on each other is a handful of conditional SQL
updates and a lease file; inside a process it is a few mutexes around registries
of turns and instances. What makes all this hard to test is everything that can
happen between two of those steps.

### 1.1 Inventory

| Part | Source | State | Operations | Model |
|---|---|---|---|---|
| Durable approvals | `internal/services/hitlservice`, `store/runtimetypes/hitl_approvals.go` | one row per ask; a map of in-process waiters | record, respond, sweep expired, abandon with mission, poll | `GatedCall` |
| Approval gate | `internal/services/localtools/hitl.go` | the blocked call: waiter, card, verdict in hand | park, wait, close the row, execute, leave and suspend | `GatedCall` |
| Suspension and resume | `internal/services/agentservice/{agent,resume,resume_sweep}.go`, `store/runtimetypes/checkpoints.go` | one checkpoint row per suspended run | save, claim, touch, record gate result, delete, sweep stranded | `GatedCall` |
| Mission records | `internal/services/missionservice/missionservice.go`, `store/runtimetypes/kv.go` | one KV value per mission | finish, bind, heartbeat, set plan, delete, update | `Mission` |
| Mission sweep | `internal/services/missionservice/sweep.go` | (the same row, and pending asks) | judge silence, reclaim, announce, file a report | `Mission` |
| Session intent | `internal/surfaces/acpsvc/session.go` (`ensureSessionMission`) | (the same row) | read, write back | `Mission` |
| Fleet | `internal/services/fleetservice` | admission lock, drives, tool servers | dispatch, admit, drive two turns, fail, stop, shut down | `Fleet` |
| Agent instances | `internal/kernel/agentinstance`, `libacp/acpexec` | map of instances, their state, their subprocess | start, prompt, watch, stop, close | `Fleet` |
| Message bus | `libbus/sqlite.go` | event rows, a subscriber's cursor | publish, stream, unsubscribe | `Fleet` (status events) |
| Mission stop | `internal/services/fleetservice/stop.go` | (the rows above) | finish, deny asks, delete checkpoints, reap the unit | `GatedCall`, `Fleet` |
| Turns of the native agent | `internal/kernel/nativeturn`, `surfaces/acpsvc/native_turn.go` | turn per session, viewers, journal, grace timer | start, join, detach, emit, cancel, reap, close | `NativeTurn` |
| Circuit breaker | `libroutine/routine.go` | state, failure count, last failure, test slot | allow, mark, force | `Routine` |
| Gateway, model selection | `internal/surfaces/gateway`, `internal/models/llmrepo` | a breaker per backend | admit, walk the candidates, stream, record | `Failover` |
| File lease | `liblease/lease.go` | lease file, lock directory | acquire, renew, release | `Lease` |
| Daemon owner | `internal/modeld/owner` | role, renew loop | join, renew, give up, leave | `LeaseOwner` |
| Gateway meter | `internal/surfaces/gateway/{meter_lease,bus}.go`, `proxyusage` | writer role, turns on the bus | elect, charge, publish, drain | `Meter` |
| Event log and triggers | `eventlog`, `eventtrigger`, `libevents` | day tables, cursor, claims of firings | append, list, claim, run, settle, prune | `Dispatch` |
| Chain executor | `internal/kernel/taskengine` | the chain's variables | run a task, branch, suspend | suspend point only |
| Reports, inbox, presence, files, providers, tools, terminal UI, CLI, codecs | see `PROJECT.json` | mostly request-local | I/O and conversion | not modelled (section 8) |

### 1.2 How the parts meet

```
 tool call --gate--> ask row  <--answer/expire/abandon-- any process
     |  blocked           |
     |                    +--wake waiter, or run the resume hook
     v leaves
 checkpoint row <--claim/heartbeat/record/delete-- a resume in any hooked process
     ^                                             ^
     +--- SweepStrandedCheckpoints ----------------+
 mission row <--finish/bind/beat/plan/sweep/stop-- units, operators, sweepers
     |  status event
     v
 reaping goroutine of the host --> instance map --> unit's subprocess
     ^                                   ^
     +---- dispatch (admission lock), drive of two turns, shutdown

 lease file + lock directory <-- owner of the model daemon | writer of the meter
 event tables --list--> dispatcher --claim--> event_firings <--claim-- appender
 client turn --admit--> breakers <--record-- walk over the backends
```

### 1.3 What makes it hard

* A verdict can arrive by three routes (card, waiter, poll), and the wait has a
  timer of its own; the durable row is written by a fourth actor.
* A resume executes a tool with side effects and can die before or after
  recording that it did. Claims expire by age; a heartbeat keeps them young.
* Mission writers judge a row they have read and write it later.
* A dispatch is six fallible steps, each of which leaves something to undo; the
  mission it writes can be stopped before it is complete.
* A drive is the only thing that will ever notice that its unit died or never
  said anything.
* Viewers of a turn leave and come back while its timer, its end, a cancel and
  the shutdown each want to remove it.
* The lock directory of the lease carries no owner, and its age is all that
  tells a dead process from a slow one.
* A breaker that lets one probe through must hear from it again.
* Event numbers are assigned in one order and become visible in another.

Each of these is a hazard in `PROJECT.json`, at the line where it bites, with
the properties that would catch it.

## 2. Modules

| Module | Models | Size of one step |
|---|---|---|
| `Routine` | one breaker, several concurrent callers | one critical section of the mutex |
| `GatedCall` | one gated tool call, from the gate to the end of its run | one store call, or one step of a select |
| `RunOwnership` | the abstract promise of `GatedCall` | one visible change |
| `Mission` | one mission row and its concurrent writers | one read, one judgement, one write, one publish |
| `Lease` | one lease file and its lock directory | one file-system call |
| `LeaseOwner` (extends `Lease`) | the owner's renew loop and self-fence | the same, and one turn of the loop |
| `Meter` (extends `Lease`) | election of the meter's writer, charging of turns | the same, and one read of the role or one commit |
| `Failover` | turns of the gateway over breakers and backends | one look at a breaker, one answer, one record |
| `Dispatch` | event log, dispatchers, appenders' goroutines, claims | one statement, one table read, one chain step |
| `NativeTurn` | registry of turns with their viewers | one critical section of the registry's or a turn's lock |
| `Fleet` | dispatch, drive, instances, status events, shutdown | one critical section, one row written, one call |
| `MissionFailoverProofs` (of `Routine`, `Failover` and `Mission`) | theorems | |
| `LeaseProofs`, and on top of it `LeaseOwnerProofs` and `MeterProofs` | theorems | |
| `GatedCallProofs`, `DispatchProofs`, `NativeTurnProofs`, `FleetProofs` | theorems | |
| `MC...` | TLC instances | |

Next to some definitions stand deliberately wrong variants of them (a dropped
guard, a missing `WHERE`, a swapped order), marked as mutants or named after
what they get wrong. They belong to no specification; `PROJECT.json` pairs each
with a property that must fail when it takes the definition's place, which shows
that the property is sensitive to that code.

Several properties begin with a condition on what has happened so far
(`Only({"io"})`, `Unseen({"slow"})`, `blind = "no"`, a note, a traffic). The
faults themselves are always in the model; the condition says which of them the
code withstands, and section 4 says what the others do.

### 2.1 Routine

State: `state`, `failureCount`, `lastFailureAt`, `inTest` are the fields of
`Routine`; `running` says how `Allow` admitted each caller. `Execute` is
`Allow`, then the operation outside the mutex, then `MarkSuccess` or
`MarkFailure`; so a call admitted while Closed may report after the circuit
opened, half-opened or was forced. `ForceOpen` and `ForceClose` may happen at
any time.

### 2.2 GatedCall

One ask, at most one checkpoint, any number of processes; `Host` runs the call,
`Hooked` are the processes with a resume hook.

* Store: `row`, `onTimeout`, `window` (the `hitl_approvals` row), `cpState`,
  `claim`, `gateRes` (the `chain_checkpoints` row and its payload), `mission`.
  The conditional updates are `ResolveHITLApproval`, `Claimable` and
  `DeleteChainCheckpoint`.
* The host: `gate` is where `gateOnApproval` / `waitForVerdict` / `Prompt`
  stands, `held` the verdict it got, `ctx` the turn's context, `waiter` its
  entry in the pending map.
* Deciders: `resp[p]` follows `resolveRecorded` (capability check, CAS,
  delivery), `SweepExpired` and `StopMission` (finish, deny, wake, purge).
* Resumes: `rpc[p]`, `rv[p]` follow `ResumeFromCheckpoint` (read the verdict,
  check the mission, claim, load, execute, record the gate result, run on,
  delete), started by the hook, the inline check or the stranded sweep.
* Counters `execs`, `unrecorded`, `completions`, `undeleted` are history
  variables; no guard reads them.
* `Crash(p)` loses everything in memory. The `...Fails` actions, `ToolErrs` and
  `ResumeGivesUp` are the error returns of store calls and of the tool.
  `MaxFaults` bounds them together.
* `StalledNext` adds a holder that misses its heartbeats and goes on beside the
  one that took its claim, and whose next touch refreshes whatever claim there
  is. `Spec` is the protocol without it.

`RunOwnership` says what `Spec` promises: the ask gets one verdict, the run is
in one pair of hands, is taken up only once decided, and a resume runs the tool
only under an allow. `GatedCall` maps to it by
`verdict <- RowVerdict once resolved`, `driver <- Driver`, `ran <- execs`.

### 2.3 Mission

One row; `Threads` each run one call at a time (`op`, `arg`, `draft`). Every
call reads the row (`Read`, with the judgement `Admits`), and writes with
`WriteIfUnchanged`; a lost write (`WriteLost`) re-reads and re-judges up to
`CasAttempts`, except the sweep, which lets the row go. `JudgeBound` is the
sweep's `parkBound`, read between judgement and write. `Publish` is the event
and the report after the write, outside any transaction, each allowed to fail.
`WriteIntent` is `ensureSessionMission`: it writes what it read,
unconditionally; `blind` remembers that it did. The module follows one life of
a row, from `Create` on: that a session's first prompt creates its mission is how
a life begins, not a step of it. `stamp` stands for `UpdatedAt`:
it makes every written value new, which is what a compare-and-swap on the whole
value relies on. Which kinds of call a behaviour has is one of `Mixes`.

### 2.4 Lease, LeaseOwner, Meter

`Lease`: `lock` is the lock directory (who made it, and its modification time),
`file` the lease record, and `pc`, `op`, `cand`, `handle` where each process is
in `Acquire`, `Renew` or `Release`, whose every file-system call is a step that
can fail: on the lease file (`StoreFails`, `ReadFails`), on the way into the
section (`LockFails`: `Mkdir`, `Stat` and the removal of a stale directory, whose
error nobody looks at) and on the way out (`UnlockFails`: the deferred `Remove`,
whose error nobody looks at either, so that the call returns as usual and the
directory stays behind as it does after a death). A directory older than `StaleAfter` is removed by whoever meets it, in
two steps, `Stat` and `Remove`: what is removed is whatever is there by then.
`proven` is history: the time of the handle's last successful write. Faults are
crashes, failing calls ("io"), unlocks that leave the directory ("unlock"),
challengers that cannot read the file, and processes that overstay `StaleAfter`
in the section.

`LeaseOwner` runs `Join` and the renew loop over it: the timer, the attempt, the
retry delay, the margin before `validUntil` at which the owner gives up. Time
passes only while everybody waits, so that a process that can act does.

`Meter` runs the gateway's `keep` loop over the same lease: contend, renew, drop
the handle on an error, release the previous one. A turn is charged by its own
process if that reads its role as writer, and published otherwise; consumers
read their role again when they drain it. Reading and committing are two steps.

### 2.5 Failover

`breaker[b]` is the `Routine` of a backend in the gateway's pool, `turn[t]` a
request: admission (`quarantined`), the walk over the candidates with its look
at each breaker, the backend's answer, the early stream, what the health tracker
captured, and what the handler records at the end. The six routes differ in
which of these they do, and the model follows each. The order of the walk is any
order: the policy that orders candidates is an input. `traffic`, chosen at the
start, says which routes are used and how a backend may fail.

### 2.6 Dispatch

`log` is the sequence of events with the day table each is in, `parts` the
registered partitions, `firing` the claims, `dbCursor` the consumer's cursor.
`disp[d]` is a dispatcher's loop (list the partitions, read them one by one,
pick, handle, store the cursor, wait), `job[w]` the handling of one event, by a
dispatcher or by the goroutine of the process that appended it. A chain appends
events of its own, at the next hop (`ChainAppends`): the hop is in its own context
and in the environment of the units of kind chain it starts. It may also start
something that is not given the hop (`ChainStrays`: an external agent, the mission
tools served to it, a child of a shell or MCP tool) or suspend; from then on
events may come at hop 0 (`StrayAppends`). `depth`, `ran` and `died` are history:
generations behind an event, runs of a pair, claims whose outcome was never
recorded.

### 2.7 NativeTurn

`sessions` is the registry's map, and each turn has its goroutine (`run`), its
context, its attached viewers in order, its grace timer, its journal (the ring
buffer, index arithmetic included) and the progress of its `teardown`, whose
three steps take different locks. Viewers start a turn or look one up, attach
(which replays the journal), watch, and detach. `got` is what a viewer was
handed. The reaper, the hard deadline, `Cancel` and `Close` may come at any time;
once a turn's context is done, also by its end, the reaper may find that the
window after the hard deadline has passed.

### 2.8 Fleet

`dp[u]` follows one `Dispatch` and then its drive. The dispatch takes the
admission lock, counts the open units (`Open` is `openUnits`), spawns, registers
the instance in the manager's map (or is refused because the manager closed),
opens the session, writes the mission, binds it and hands over; any call may
fail, and `Drop` is the common error return. The drive prompts, judges what the
mission shows, nudges once, files the blocker, finishes an exhausted mission as
stuck, or goes through `failTurn`: report, derail, stop the instance.

An instance is `reg` (in the map), `st` (its state), `halt` (the steps of
`Stop`, owned by whoever took it out of the map) and `proc` (the subprocess).
A mission is reduced to `ms`, `bound` and `said`: `Mission` has the rest.
`ev[u]` is the fate of its status event, `bus` the events that the host's
subscription has yet to hand over, `td` the reaping goroutine. The host shuts
down in the order of `BuildInProcess`: the lifetime context (which closes the
tool servers), the subscription with its bounded drain, the manager, the root
context. `mix` fixes which units are dispatched and what may go wrong: store and
agent calls that fail, crashes of the unit, lost events, the operator, the
shutdown.

## 3. Runs

Passing runs:

| Run | Instance | Shows |
|---|---|---|
| `routine` | 3 callers, threshold 2 | a Closed circuit is below its threshold under late results and forced transitions |
| `gated_call` | host, second resumer, a process without hook; both card answers; 1 fault | one driver, tool and run at most once, no lost run, and `RunOwnership` is implemented: one verdict, which every resume obeys |
| `gated_call_remote` | host and one resumer, no card; 1 fault, or a holder that misses its heartbeats; fair | a blocked call obeys the row; an answered checkpoint is carried to its end |
| `mission` | 2 callers, three mixes of calls; 2 outcomes, 2 instances, 2 texts; fair | until an intent refresh overwrites the row: first outcome, completed work and every revision stand, only a silent open mission is reclaimed, its end is told once and truly; and a silent mission does not stay open |
| `owner` | 2 daemons, default proportions; 2 faults | one holder and takeover only after expiry, while nothing worse than failing calls happens; an owner that stops serving in time, also after one worse fault |
| `meter` | 2 gateways, 1 turn; 1 fault; fair | one writer; a turn is not both written and sent; the role moves when its holder is gone |
| `failover` | 2 requests, 2 backends of which one fails; all routes; fair | while one backend works no turn is refused for want of a backend (it may still fail for reasons of its own); a breaker lets a turn through again |
| `dispatch` | 1 dispatcher, appenders' goroutines, 3 events, 2 days; 1 fault; fair | one run per recorded claim, final outcomes, hop budget where the hop is passed on, no event passed over, every event settled |
| `native_turn` | 1 session, 2 turns, 2 viewers, journal of 2; fair | a live turn is findable, its stream is exact, its timer does not go off while somebody watches, and nothing and nobody is left behind |
| `fleet` | width 1; one unit under every fault, two units under crashes; fair | the cap, no silent end, a failed turn brings its mission to rest, no orphaned subprocess or tool server |

Runs that find a violation, one per finding of section 4.1:
`failover_probe_leak`, `fleet_early_stop`.

The type invariants are not in the runs: they are theorems (section 5). The
action properties `VerdictIsFinal` and `ResumeObeysRow` (GatedCall), `BoundOnce`
and `BeatForward` (Mission) are theorems only, too.

### 3.1 Bounds, and why they are enough

* `GatedCall`: three processes give every role a body of its own (the host, a
  competitor for the claim, one that can only answer); the liveness run has two,
  both hooked. One fault suffices for each failure point in turn; the counters
  in the properties (`execs <= 1 + unrecorded`) are what a second fault would
  exercise, and the theorems cover any `MaxFaults`.
* `Mission`: two writers show every lost race. `CasAttempts = 2` (the code: 5)
  gives one retry and one exhaustion. `MaxStamp` stops new calls other than
  sweeps after that many writes; `MaxNow` is one tick beyond the longest window,
  `Floor = 1` and `LongWindow = 2` keep the order of the two windows. Binding and
  planning have mixes of their own because they do not look at the clock.
* `Routine`: three callers, one more than can differ in how they were admitted.
* `LeaseOwner`: the proportions of the defaults (TTL 12, interval 4, margin 3,
  stale lock 2), a clock that reaches past the second takeover, and two faults,
  since a dead process and one failed call are what it takes to be late.
  Processes are interchangeable (symmetry; the run has no liveness property).
* `Meter`: TTL 1 and a clock of 3 allow a takeover and a return; one turn, since
  turns do not interact. A failed unlock is left to `LeaseOwner`: what it leaves
  behind is what a death in the section leaves.
* `Failover`: two requests, two backends of which one is flaky; the threshold is
  2 so that one failure is not yet enough, the cooldown one tick.
* `Dispatch`: three events, of which one comes from outside and the others from
  chains, a batch of one so that a full batch is followed by another read, two
  days (the second begins after the first event), one fault of any kind. The theorems cover several dispatchers and
  triggers.
* `NativeTurn`: one session with two turns (a late teardown meets a successor),
  two viewers, three events a turn through a journal of two, so that the ring
  wraps and has an order inside.
* `Fleet`: width 1. One unit meets every fault at once; two units, of which one
  waits for the other's place, meet crashes. The theorems cover any number of
  units, any width and all faults together.

Deadlock checking is off where the system really may stop: a call that ended, a
row whose writers are done, a registry that was closed, a clock at its bound.
It is on for `Routine` and `Failover`.

### 3.2 Fairness

Crashes, faults, people and clients that hang up are never fair.

* `SweptSpec` (GatedCall): a process that has begun something goes on, because
  goroutines run and store calls return, and an untouched claim ages; a hooked
  process keeps running `SweepStrandedCheckpoints`, which `approvals list` does.
* `FairSpec` (Mission): a call that began goes on, the clock goes on, and
  somebody comes by who sweeps (`mission list`, `mission show`, `doctor`, a host
  booting).
* `MeterLiveSpec`: the `keep` goroutine of each gateway goes on with its call and
  its ticker ticks; time passes.
* `LiveSpec` (Failover): time passes, clients keep coming, a backend that was
  asked answers or fails in the end (requests have timeouts).
* `LiveSpec` (Dispatch): processes go on with what they began, chains return, a
  dispatcher that stopped is started again. No claim has to age.
* `LiveSpec` (NativeTurn): goroutines run, an armed timer goes off, a viewer
  leaves a turn that is done, a chain whose context is done returns. Nobody has
  to cancel, sweep, drop a connection or close the registry.
* `LiveSpec` (Fleet): a dispatch that began and a drive go on, the prompt of a
  dead subprocess fails (its pipe closes), `Stop`, the watchdog and the reaping
  goroutine run, a shutdown that began is carried through. A unit need not end
  its turn, and the bus need not deliver what it lost.

## 4. Where code and documents differ

### 4.1 Findings with a run

1. `failover_probe_leak`: a chat let through as the half-open probe that ends in
   an error which is not backend-terminal reports nothing
   (`llmrepo/failover.go:91`); the breaker keeps waiting for that probe and
   refuses every later turn, where `gateway/service.go:697` promises "a retry
   window".
2. `fleet_early_stop`: a mission stopped after `Create` and before `Bind` is
   announced while its row names no instance. The subscriber skips the event
   (`fleetservice/stop.go:54`), `Bind` does not look at the status
   (`missionservice.go:445`), and the unit runs on, holding its place in the
   fleet, although `stop.go:19` says that the host's subscriber reaps it.

### 4.2 Behaviours the properties except

These were met while modelling. Each is a schedule of the model; the property
next to it is stated so as to except it, and says by its condition what does
hold.

| Where | What happens | Against | Property that excepts it |
|---|---|---|---|
| `localtools/hitl.go:379` | the local card approves after another process denied the row; the tool runs | `hitl.go:408` "The durable row is the authority" | `RemoteVerdictObeyed` (no card) |
| `hitlservice.go:624` | capability check and CAS are two calls: a process with neither waiter nor hook spends the verdict of a checkpoint saved in between | `hitlservice.go:622` | `NoRunLost`, `AnsweredIsResumed` say what survives |
| `agentservice/resume.go:131` | a verdict that reaches the waiter of a leaving call skips the hook, and the inline check reads under the cancelled context: the run waits for a sweep | `agent.go:208` "Closes the row-vs-checkpoint race" | `AnsweredIsResumed` (somebody sweeps) |
| `resume.go:357` | a run whose checkpoint could not be deleted is run to its end again | `resume.go:358` "noise, not loss" | `RunAtMostOnce` (counts them) |
| `resume.go:302` | a holder that misses its heartbeats runs on beside its successor; the tool runs twice | `resume.go:289`, `resume_exactlyonce_test.go:206` | `OneDriver`, `ToolAtMostOnce` (under `Spec`, without `HeartbeatsMissed`) |
| `resume.go:186` | a mission that finishes between the check and the claim is driven on | `resume.go:32` | none |
| `acpsvc/session.go:1366` | the intent refresh writes back the copy it read and can reopen a mission finished in between | `docs/guide/missions.md` "A terminal mission never moves again." | `TerminalStays` and the others with `blind` |
| `missionservice/sweep.go:77` | an ask without a deadline, filed between the sweep's bound check and its write, does not protect the mission | `docs/guide/missions.md:159` | none |
| `liblease/lease.go:166` | after a death two challengers remove the stale directory in turn, the second removes the first's new one, and both return as owner | `lease_test.go:196` | `HolderExclusive`, `SelfFenced` (`Only({"io"})`) |
| `lease.go:160` | an unlock that fails is not noticed: the directory stays, everybody waits until it is stale, and then the same happens | `lease_test.go:196` | the same, and `FencedInTime` (one fault) |
| `lease.go:228` | `Renew` moves `RenewedAt` before the write and keeps it when the write fails | `lease.go:261` | `OneWriter` (until the drop), `proven` in the others |
| `lease.go:110` | any error reading the file is taken for a stale lease | `owner.go:195` | `SelfFenced`, `TakeoverOnlyExpired` |
| `modeld/owner/owner.go:212` | an attempt blocked on a dead process's lock directory returns after the lease ended | `owner.go:194` | `FencedInTime` (one fault, default proportions) |
| `gateway/bus.go:313` | a turn published while nobody holds the lease is drained and dropped by everyone | `meter_lease_test.go:79` | `OneWriter` (who writes, not that somebody does) |
| `gateway/openai.go:296` | a success is recorded under the endpoint, not the backend: the breaker hears nothing | `circuit.go:47` | `Recovers` (`ProbesReturn`) |
| `llmrepo/failover.go:181` | streams ask a backend in its cooldown | `llmrepo.go:33` | none |
| `gateway/service.go:662` | of two refusals in a turn only the last is recorded: a walk that probes two failing backends leaves one breaker waiting for its probe | `mesh_e2e_test.go:306` | `Recovers` (`ProbesReturn`: one backend fails) |
| `failover.go:91` | a rate limit takes no backend out of service | `circuit.go:55` | `Recovers` |
| `failover.go:112` | a chat that loses the race for the probe fails without having asked anybody | `service.go:695` | `ServedWhileOneWorks` (one backend works) |
| `gateway/service.go:519` | clients that hang up on embeddings take a working backend out of service | `mesh_e2e_test.go:301` | `ServedWhileOneWorks` (`Patient`) |
| `eventtrigger/dispatcher.go:222` | Ctrl-C between pick and claim: the claim fails, the cursor passes the event | `libevents/cursors.go:27` | `NothingSkipped` |
| `dispatcher.go:225` | the claim of a dead appender is taken for a firing that happened; nobody is left to take it over | `eventlog/trigger.go:14` | `EventuallySettled` |
| `libevents/firings.go:121` | a chain that outlasts its claim is run twice | `contenoxcli/events_cmd.go:66` | `FiresOnce`, `OutcomeFinal` |
| `agentservice/resume.go:211` | a resumed chain forgets the hop it was fired at: it appends at hop 0 | `events_cmd.go:69` | `HopBudget` |
| `agentinstance/manager.go:310`, `fleetservice/build.go:175` | external agents, the mission tools served to a unit and children of shell and MCP tools are not given the hop (`eventlog.SpawnEnv` has no caller outside its tests): they append at hop 0, and a trigger loop through them does not die out | `docs/guide/events.md:193` "A fired chain stamps hop + 1 on every event it appends" | `HopBudget` |
| `nativeturn/turn.go` `teardown` | a viewer that attaches after the grace timer went off and before the teardown reached the registry loses the turn all the same | `turn.go:18` "a reattach returns it to running" | `SparesWatched` (the instant the timer goes off) |
| `libevents` `ListEventsSince` | across midnight a reader settles a later event of yesterday's table and passes an earlier one of today's | `cursors.go:27` | `NothingSkipped` |

## 5. Proofs

All theorems are safety properties, for any set of processes, threads, callers,
units (finite), turns, events or triggers and any bound, given the named
assumptions on the constants in the modules. Each rests on an inductive
invariant; the property alone rarely is one, and what had to be added is the
argument.

**MissionFailoverProofs, the breaker.** `RoutineSafety`: types, and `ClosedBelowThreshold`. The
conjunction is inductive: `failureCount` is bounded only because a Closed
circuit is below the threshold, and that only because every path to Closed
resets the count.
`AwaitedTestIsRunning`: a breaker that waits for its half-open test waits for a
caller that is really running it.

**GatedCallProofs.** `IInv == TypeOK /\ ClaimInv /\ VerdictInv /\ AnswerInv /\
ToolInv /\ RunInv`.

* `ClaimInv`: at most one resume holds the run; while one does, a saved
  checkpoint has a fresh claim; a checkpoint exists exactly when the host let
  go. `OneDriver` alone is not inductive: a claim may be taken exactly when it
  is not fresh, so exclusion needs "held implies fresh".
* `VerdictInv`: a resume past its read holds the verdict of a resolved row.
* `AnswerInv`: an answer in the waiter's channel is the row's, and so is the
  verdict a call goes on with, where neither a card nor the clock can allow.
* `ToolInv`: while no gate result is recorded and nobody is between executing
  and recording, there were no more executions than lost records.
* `RunInv`: the same for completions and undeleted checkpoints; a deleted
  checkpoint was completed or its mission is over.

From it: `TypeCorrect`, `ClaimExcludes` (OneDriver), `ToolOnce`, `RunOnce`,
`ResumeUnderVerdict`, `HostUnderVerdict` (RemoteVerdictObeyed), `RunNotLost`;
and from the steps themselves `VerdictOnce`.
`OwnershipKept` is the refinement: a `Quiet` step is a stutter, resolving is
`Decide`, a returning holder is `Drop`, deleting a free checkpoint is `GiveUp`,
with one lemma per group of actions.

**MissionFailoverProofs, the mission row.** `MissionInv == MissionTypeOK /\
JudgedInv` and, as long as no intent
refresh has overwritten the row (`blind = "no"`), `OutcomeInv /\ BeatInv /\
EventInv`.

* `JudgedInv`: a pending write was admitted on its own snapshot. With the CAS
  (`row = snap`) this carries the judgement to the row it is written over, and
  it is what every action property follows from.
* `OutcomeInv`, `BeatInv`, `EventInv`: acknowledged outcomes, revision count,
  heartbeats not in the future, at most one publisher and one event.

From it: `FirstWriterOwnsOutcome`, `NoRevisionLost`, `EndToldOnceAndTruly`,
`TerminalForGood`, `BindingForGood`, `CompletedWorkKept`, `ReclaimOnlySilent`,
`LivenessForward`, `MissionTypes`.

**LeaseProofs.** `SingleHolder`, `TakeoverAfterExpiry`, `TypeCorrect`. Until a
process dies or overstays in the section, fails to unlock or cannot read the
file, the lock
directory is never stale, so one process at most is in the section (`Locked`);
what it read there stays true until it leaves (`Seen`); IDs are never shared
(`Distinct`); so a process whose lease has not lapsed finds its own record in
the file (`Current`), and two of them would share an ID. Failing calls
are covered, the unlock's excepted: `Current` is about what was written, not what the handle says.

**LeaseOwnerProofs.** The owner, for an interval of at most the TTL: `OwnerFenced`
(SelfFenced) and `OneOwner`. `Fenced` says of every owner that the file holds
its record, that its timer fires before `validUntil`, and that a renewal under
way began now: nobody waits for a directory that a live process holds.
`OwnerGivesUpAfterOneFault` is `FencedInTime`, provided `Interval + StaleAfter <
TTL` (10, 5 and 30 seconds by default). Its invariant `FaultInv` looks at the
first fault. As long as the directory belongs to a process in the section
(`Attended`), time passes only between calls, and every call starts before the
lease lapses (`Timely`). A death in the section, or a failed unlock, leaves a directory
that nobody attends (`Abandoned`); as no renewal failed before, every timer fires an
interval after the last write (`Prompt`), and the wait for the directory to grow
stale still ends in time. Without the condition, or after a second fault, it
need not. `OwnerGivesUpInTime` needs no condition: with I/O errors only, however
many, the owner stops in time.

**MeterProofs.** `SingleWriter` (OneWriter). To `Clean` it adds that no other process
has the ID of a handle that `keep` still has to release (`PreviousOK`), that a
handle's time is that of its last successful write except around a failing Renew
(`ProvenOK`), and where the charge of a turn is on its way (`TurnsOK`).

**MissionFailoverProofs, the gateway.** `AlwaysServed` and `FailoverTypes`, while nobody hangs up on
an embedding. No failure is ever recorded against a backend that works, so its
breaker stays Closed, and until it has been asked it is still among the
candidates of every walk. The invariant follows a request through its steps to
say which captured failures belong to which backend. `ProbeNeverLost` is the
safety half of `Recovers`, under the same condition: while a breaker waits for
its probe, some turn in flight carries it and will report on that backend
(`Awaited`). A step that changes the breakers either reports on one of them,
which ends its wait, or leaves them alone; the proof follows the probe from
`Allow` through the walk, the answer and the tracker to the report (`HeldInv`).

**DispatchProofs.** `TypesHold`; `FiringOnce` and `OutcomesFinal` while no chain
outlasts its claim; `HopsBounded` while no chain suspends or starts something that is not given the
hop. A running row has one
worker that holds it, so the unconditional update of `FinishFiring` is safe, and
the runs of a pair are the recorded ones plus those that died (`Rows`). For the
hops, an event's depth is at most one more than that of the event being handled.
`CursorSkipsNothing` (NothingSkipped), while every claim can be written, nobody
interrupts a dispatcher and the log is in one table: rows never go back to
"none", and a batch is the first events after the loop's cursor, none left out
(`NoGap`), which is a fact about the cardinalities in `First`. Hence every cursor,
stored or in a loop, has only claimed events behind it (`CursorInv`), also one
that a restarted dispatcher reads again and one that several dispatchers store
in any order.

**NativeTurnProofs.** `AlwaysFindable`, `TimerSparesWatched`,
`WatchersAreServed`, `JournalBounded`, `ViewersSeeTheStream` (StreamExact). `IInv` ties a registration to its turn
(`RegistryInv`), a viewer to the turn it holds (`HoldersInv`), an armed timer to
a running turn without viewers (`TimerInv`), and a watching viewer to its place
in the fan-out (`FanOutInv`). A turn is findable because `teardown` cancels its
context before it unregisters it, and unregisters nothing but the turn itself.
The stream is exact because a viewer has one place in one fan-out (`PlacesInv`)
and because the ring holds the last events in order, whatever its start and its
size (`KeepsLatest`): what is replayed on attach ends where the live events go
on. `NoTurnForgotten` is the safety half of `UnwatchedEnds` and
`FinishedReaped`: a started turn that is not being torn down is about to be
launched, is watched, has its grace timer armed or ends by itself, and a turn
whose teardown is over is registered nowhere (`CareInv`, `GoneInv`).

**FleetProofs.** `FleetWidthCapped`, `DriveNeverSilent`, `LockGuardsStart`,
`FleetTypes`. The cap is not inductive: an instance that is running is counted
only once it is in the map. `LockInv` says that only the holder of the admission
lock is in between, `RoomInv` that while it is held one place is free.
`DriveInv` follows the drive: past `file` or `derail` the mission shows
something, or a store write failed, and what a mission shows is never taken
back.
Three theorems are the safety halves of the liveness properties.
`NoSubprocessOrphaned` (for `NoOrphan`): a subprocess that is up is being
brought up, is in the map with somebody at work on it or a mission that names
it, or is being stopped; its invariant `ProcInv` adds what the steps of the
dispatch and of `Unmap` leave behind. `RestIsAccountedFor` (for `AtRestReaped`
and `ToolsClosed`): the event of a mission at rest is due, on the wire, lost,
early or handled, and in the last two cases the tools are closed and, if
handled, the instance is out of the map for good. It needs that only missions at
rest are on the wire (`WireRests`), that a mission exists from `Create` on
(`StageInv`), and that nothing at rest goes back (`RestStays`).
`FailedReapsAtRest` (for `FailedComesToRest`): a drive whose turn failed stops
the unit only with the mission at rest or the store's refusal noted.

**Only model-checked.** Liveness (`AnsweredIsResumed`, `SilentIsReclaimed`,
`RoleMoves`, `Recovers`, `EventuallySettled`, `UnwatchedEnds`, `FinishedReaped`,
`Unblocks`, `FailedComesToRest`, `NoOrphan`, `AtRestReaped`, `ToolsClosed`),
because fairness and ENABLED are outside what the provers handle: for seven of
them a theorem proves that nothing is ever in a state that nobody attends to,
and that the attendants act is left to TLC; and the
statements refuted in section 4, which have counterexamples instead. Every
safety property of a passing run is stated by a theorem.

## 6. Assumptions of the models

* In `GatedCall` under `Spec`, a claim ages only while no live resume holds it,
  which is what the code's heartbeat is for. `OneDriver` and what rests on it
  (`ToolAtMostOnce`, `RunAtMostOnce`, the refinement) hold under this assumption;
  the liveness run does without it.
* A process runs one resume of this checkpoint at a time. A hook or inline check
  that finds its process busy waits.
* Only the first entry of a gated call is modelled. A task retry that re-enters
  the gate and adopts an existing row is not.
* A chain that suspends again does so under a new ask with rows of its own; a
  crash between saving that checkpoint and deleting the old one appears as an
  undeleted checkpoint.
* One clock per model: skew between processes is not modelled.
* A mission's plan has one entry; its texts, and the intent, matter only as far
  as equality.
* A store write is atomic and durable once it returns; so is a rename of the
  lease file.
* Lease IDs are never reused (they are random in the code).
* Candidates of a walk come in any order, and what a backend does is a choice;
  whether a client hangs up, too.
* A dispatcher handles one event at a time, as the code does; the rows of
  different pairs of trigger and event do not interact.
* In `Fleet` a unit crashes at most once and is not started again: no host
  switches the restart of instances on. Each mission has one instance.
* Viewers of `NativeTurn` have fresh identities, as `newNativeTurnViewer` gives them.

## 7. Plan

Done: `Routine`, `GatedCall` with `RunOwnership`, `Mission`, `Lease`,
`LeaseOwner`, `Meter`, `Failover`, `Dispatch`, `NativeTurn`, `Fleet`, their runs
and the proofs of their safety properties.

Next, in this order:

1. `Reports`: `reportrouter` and `operatorinbox`, composed with the events of
   `Fleet` (each report is delivered somewhere).
2. `RequestApproval` in `GatedCall` (the blocking ask whose expired row is read
   differently from the poll's), quorum, reassignment, re-entry by a task retry.
3. `Group`: the loops of `libroutine` (one loop per key, no lost trigger).
4. Slots and residency of the model daemon (`internal/modeld`), composed with
   `LeaseOwner`.

## 8. Not modelled, and why

* Model providers, wire codecs, `libacp` framing: conversions of data without
  shared state.
* Tool bodies (files, shell, Go, JavaScript, jq, git): sequential work on their
  arguments; the gate around them is modelled.
* Chain execution beyond the suspend point: its control flow is driven by model
  output.
* Terminal interface and command line: rendering and flag parsing over the
  modelled services.
* Native inference bindings: C++ outside the Go sources.
* Policy evaluation, the ordering of candidates by the routing policy: pure
  decisions, inputs of `GatedCall` and `Failover`.
* Authentication, budgets and quotas of the gateway: local to a request.
* The in-memory and NATS bus: in the modelled callers they differ from the
  SQLite one only in that they may drop an event, which `Fleet` allows.
* Restart of crashed instances (`agentinstance`): switched on nowhere.
* Cryptography, licensing, logging, operating-system confinement.

By lines, this is most of the repository: what is modelled is the part where
several actors write the same state.

## 9. Running it

```
tlc -workers 2 -config MCFleet.cfg MCFleet    # any run: cfg and module from PROJECT.json
tlapm FleetProofs.tla                         # likewise the other seven
```
