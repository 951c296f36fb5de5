----------------------------- MODULE NativeTurn -----------------------------
(***************************************************************************)
(* The registry that keeps a chat turn running while its viewers come and  *)
(* go (kernel/nativeturn), as the connections of acpsvc use it.  A viewer  *)
(* starts a turn or joins the one in flight, watches it and detaches when  *)
(* the turn is done or its connection drops.  The last viewer to leave     *)
(* starts a grace timer, and whoever finds that a turn must go (timer,     *)
(* cancel, reaper, shutdown, the last viewer of a finished turn) calls     *)
(* teardown, whose steps interleave with everything else.  Every step is   *)
(* what runs under one lock, the registry's or the turn's.                 *)
(***************************************************************************)
EXTENDS Naturals, Sequences

CONSTANTS
    Sessions,       \* ACP session ids
    Turns,          \* the turn objects the registry may allocate
    Viewers,        \* viewers; each attaches at most once (a fresh id each)
    NoTurn,
    JournalSize,
    MaxEvents       \* bound: events a turn emits

ASSUME JournalAssumption == JournalSize \in Nat \ {0}
ASSUME EventsAssumption == MaxEvents \in Nat
ASSUME NoTurnAssumption == NoTurn \notin Turns

VARIABLES
    closed,         \* the registry: "no", "closing", "yes" (root cancelled)
    sessions,       \* session -> its registered turn, or NoTurn
    sid,            \* turn -> session
    run,            \* turn -> where its goroutine is
    ctx,            \* turn -> "live" or "done": the turn's context
    order,          \* turn -> attached viewers, in order of arrival
    grace,          \* turn -> "none", "armed" or "fired": its grace timer
    seq,            \* turn -> events emitted
    journal,        \* turn -> ring buffer of the latest events
    reap,           \* turn -> progress of its teardown
    pc,             \* viewer -> where it is
    at,             \* viewer -> the turn it found
    got             \* viewer -> events delivered to it, in order

registry == <<closed, sessions>>
turn == <<sid, run, ctx, order, grace, seq, journal>>
viewer == <<pc, at, got>>
vars == <<registry, turn, reap, viewer>>

Reaps == {"no", "due", "remove", "untimer", "done"}
Runs == {"free", "registered", "running", "ending", "endingAlone", "over"}

NoEvents == [buf |-> [i \in 0..JournalSize - 1 |-> 0], start |-> 0, count |-> 0]

(* Mutant: a full ring keeps its oldest events.                            *)
JournaledOldest(j, e) ==
    IF j.count < JournalSize
    THEN [j EXCEPT !.buf[(j.start + j.count) % JournalSize] = e, !.count = @ + 1]
    ELSE j

(* journal.append: the oldest event gives way when the ring is full.       *)
Journaled(j, e) ==
    IF j.count < JournalSize
    THEN [j EXCEPT !.buf[(j.start + j.count) % JournalSize] = e, !.count = @ + 1]
    ELSE [j EXCEPT !.buf[j.start] = e, !.start = (@ + 1) % JournalSize]

Snapshot(j) == [i \in 1..j.count |-> j.buf[(j.start + i - 1) % JournalSize]]

Finished(t) == run[t] \in {"ending", "endingAlone", "over"}
Registered == {sessions[s] : s \in Sessions} \ {NoTurn}

Init ==
    /\ closed = "no"
    /\ sessions = [s \in Sessions |-> NoTurn]
    /\ sid \in [Turns -> Sessions]
    /\ run = [t \in Turns |-> "free"]
    /\ ctx = [t \in Turns |-> "live"]
    /\ order = [t \in Turns |-> <<>>]
    /\ grace = [t \in Turns |-> "none"]
    /\ seq = [t \in Turns |-> 0]
    /\ journal = [t \in Turns |-> NoEvents]
    /\ reap = [t \in Turns |-> "no"]
    /\ pc = [v \in Viewers |-> "idle"]
    /\ at = [v \in Viewers |-> NoTurn]
    /\ got = [v \in Viewers |-> <<>>]

Moves(v, from, to) == pc[v] = from /\ pc' = [pc EXCEPT ![v] = to]

(* Somebody decides to call teardown.  The calls of one turn are serialised *)
(* by the swap of its reaping flag: the first tears the turn down, every   *)
(* other returns at once and changes nothing.                              *)
Condemn(doomed) ==
    reap' = [t \in Turns |-> IF t \in doomed /\ reap[t] = "no" THEN "due" ELSE reap[t]]
-----------------------------------------------------------------------------
(* Viewers.                                                                *)

StartRefused(v) ==
    /\ closed # "no"
    /\ Moves(v, "idle", "gone")
    /\ UNCHANGED <<registry, turn, reap, at, got>>

(* Start on a session whose turn is in flight: the turn is joined, but     *)
(* only after the registry's lock has been given up.                       *)
StartJoins(v, s) ==
    /\ closed = "no"
    /\ sessions[s] # NoTurn
    /\ ~Finished(sessions[s])
    /\ Moves(v, "idle", "joining")
    /\ at' = [at EXCEPT ![v] = sessions[s]]
    /\ UNCHANGED <<registry, turn, reap, got>>

Fresh(s) == CHOOSE t \in Turns : run[t] = "free" /\ sid[t] = s

(* Start otherwise: a fresh turn replaces what the session had.            *)
StartsTurn(v, s, t) ==
    /\ closed = "no"
    /\ sessions[s] # NoTurn => Finished(sessions[s])
    /\ run[t] = "free" /\ sid[t] = s
    /\ t = Fresh(s)
    /\ Moves(v, "idle", "first")
    /\ at' = [at EXCEPT ![v] = t]
    /\ sessions' = [sessions EXCEPT ![s] = t]
    /\ run' = [run EXCEPT ![t] = "registered"]
    /\ UNCHANGED <<closed, sid, ctx, order, grace, seq, journal,
                   reap, got>>

(* Mutant: the timer is left running.                                      *)
AttachKeepsTimer(v, t) ==
    /\ order' = [order EXCEPT ![t] = Append(@, v)]
    /\ UNCHANGED grace
    /\ got' = [got EXCEPT ![v] = Snapshot(journal[t])]

(* attach: the viewer joins the fan-out, the grace timer is stopped (a     *)
(* timer that has fired cannot be) and the journal is replayed.            *)
Attach(v, t) ==
    /\ order' = [order EXCEPT ![t] = Append(@, v)]
    /\ grace' = [grace EXCEPT ![t] = "none"]
    /\ got' = [got EXCEPT ![v] = Snapshot(journal[t])]

(* The viewer that started the turn attaches, then launches it.            *)
AttachFirst(v) ==
    /\ Moves(v, "first", "watching")
    /\ Attach(v, at[v])
    /\ run' = [run EXCEPT ![at[v]] = "running"]
    /\ UNCHANGED <<registry, sid, ctx, seq, journal, reap, at>>

(* AttachIfRunning: look the turn up, ask whether it has finished, attach; *)
(* each under its own lock.                                                *)
LookUp(v, s) ==
    /\ Moves(v, "idle", IF sessions[s] = NoTurn THEN "gone" ELSE "looked")
    /\ at' = [at EXCEPT ![v] = sessions[s]]
    /\ UNCHANGED <<registry, turn, reap, got>>

LookFinished(v) ==
    /\ Moves(v, "looked", IF Finished(at[v]) THEN "gone" ELSE "joining")
    /\ at' = [at EXCEPT ![v] = IF Finished(@) THEN NoTurn ELSE @]
    /\ UNCHANGED <<registry, turn, reap, got>>

Join(v) ==
    /\ Moves(v, "joining", "watching")
    /\ Attach(v, at[v])
    /\ UNCHANGED <<registry, sid, run, ctx, seq, journal, reap, at>>

(* The order of the fan-out with v's place taken out.                      *)
Without(s, v) ==
    LET i == CHOOSE k \in 1..Len(s) : s[k] = v
    IN  [k \in 1..Len(s) - 1 |-> IF k < i THEN s[k] ELSE s[k + 1]]

Alone(v) == Without(order[at[v]], v) = <<>>

(* detach: the viewer leaves the fan-out, the grace timer is armed or the  *)
(* turn is torn down.                                                      *)
Leave(v, arms, reaps) ==
    LET t == at[v]
    IN  /\ Moves(v, "watching", "gone")
        /\ at' = [at EXCEPT ![v] = NoTurn]
        /\ got' = [got EXCEPT ![v] = <<>>]
        /\ order' = [order EXCEPT ![t] = Without(@, v)]
        /\ grace' = [grace EXCEPT ![t] = IF arms THEN "armed" ELSE @]
        /\ Condemn(IF reaps THEN {t} ELSE {})
        /\ UNCHANGED <<registry, sid, run, ctx, seq, journal>>

(* Mutants: the last viewer arms no timer, or leaves a finished turn.      *)
DetachUntimed(v) == Leave(v, FALSE, Alone(v) /\ Finished(at[v]))
DetachOnly(v) == Leave(v, Alone(v) /\ ~Finished(at[v]), FALSE)

(* A viewer detaches when the turn is done or its connection drops.        *)
Detach(v) == Leave(v, Alone(v) /\ ~Finished(at[v]), Alone(v) /\ Finished(at[v]))
-----------------------------------------------------------------------------
(* The turn's goroutine.                                                   *)

Emit(t) ==
    /\ run[t] = "running"
    /\ seq[t] < MaxEvents
    /\ seq' = [seq EXCEPT ![t] = @ + 1]
    /\ journal' = [journal EXCEPT ![t] = Journaled(@, seq[t] + 1)]
    /\ got' = [v \in Viewers |->
                 IF \E i \in 1..Len(order[t]) : order[t][i] = v
                 THEN Append(got[v], seq[t] + 1)
                 ELSE got[v]]
    /\ UNCHANGED <<registry, sid, run, ctx, order, grace, reap, pc, at>>

(* The chain returns; markFinished notes under the lock whether anybody is *)
(* watching and stops the grace timer ...                                  *)
FnReturns(t) ==
    /\ run[t] = "running"
    /\ run' = [run EXCEPT ![t] = IF order[t] = <<>> THEN "endingAlone" ELSE "ending"]
    /\ grace' = [grace EXCEPT ![t] = "none"]
    /\ UNCHANGED <<registry, sid, ctx, order, seq, journal, reap, viewer>>

(* ... and, after it, releases the context and reaps an unwatched turn.    *)
MarkFinished(t) ==
    /\ run[t] \in {"ending", "endingAlone"}
    /\ run' = [run EXCEPT ![t] = "over"]
    /\ ctx' = [ctx EXCEPT ![t] = "done"]
    /\ Condemn(IF run[t] = "endingAlone" THEN {t} ELSE {})
    /\ UNCHANGED <<registry, sid, order, grace, seq, journal, viewer>>

(* The hard deadline of the turn's context.                                *)
Deadline(t) ==
    /\ run[t] # "free"
    /\ ctx[t] = "live"
    /\ ctx' = [ctx EXCEPT ![t] = "done"]
    /\ UNCHANGED <<registry, sid, run, order, grace, seq, journal, reap, viewer>>
-----------------------------------------------------------------------------
(* Whoever decides that a turn must go.                                    *)

TimerFires(t) ==
    /\ grace[t] = "armed"
    /\ grace' = [grace EXCEPT ![t] = "fired"]
    /\ Condemn({t})
    /\ UNCHANGED <<registry, sid, run, ctx, order, seq, journal, viewer>>

(* session/cancel and the operator's stop, through the registry ...        *)
Cancel(s) ==
    /\ sessions[s] # NoTurn
    /\ Condemn({sessions[s]})
    /\ UNCHANGED <<registry, turn, viewer>>

(* ... or through a viewer's handle, whatever became of the registration.  *)
CancelHandle(v) ==
    /\ pc[v] = "watching"
    /\ Condemn({at[v]})
    /\ UNCHANGED <<registry, turn, viewer>>

(* ReapIdle looks at every turn it has listed.  A turn that has left the   *)
(* registry since was torn down, unless it had finished and was replaced.  *)
(* Whether a window that is open has passed is the clock's choice, and so  *)
(* is, once the context is done, the window after the hard deadline: that  *)
(* of a finished turn passes while it is still watched, too.               *)
ReapIdle(t) ==
    /\ run[t] # "free"
    /\ \/ Finished(t) /\ order[t] = <<>>
       \/ ~Finished(t) /\ order[t] = <<>> /\ grace[t] # "none"
       \/ ctx[t] = "done"
    /\ Condemn({t})
    /\ UNCHANGED <<registry, turn, viewer>>

(* Close empties the registry, tears down what it held (in any order) and  *)
(* cancels the root context.                                               *)
CloseDrains ==
    /\ closed = "no"
    /\ closed' = "closing"
    /\ sessions' = [s \in Sessions |-> NoTurn]
    /\ Condemn(Registered)
    /\ UNCHANGED <<turn, viewer>>

CloseRoot ==
    /\ closed = "closing"
    /\ \A t \in Turns : reap[t] # "due"
    /\ closed' = "yes"
    /\ ctx' = [t \in Turns |-> IF run[t] = "free" THEN ctx[t] ELSE "done"]
    /\ UNCHANGED <<sessions, sid, run, order, grace, seq, journal,
                   reap, viewer>>
-----------------------------------------------------------------------------
(* teardown: cancel the turn's context, then unregister the turn, then     *)
(* stop the timer.                                                         *)

(* Mutant: a turn that still runs is not cancelled.                        *)
TearCancelIdle(t) ==
    /\ reap[t] = "due"
    /\ reap' = [reap EXCEPT ![t] = "remove"]
    /\ ctx' = [ctx EXCEPT ![t] = IF Finished(t) THEN "done" ELSE @]
    /\ UNCHANGED <<registry, sid, run, order, grace, seq, journal, viewer>>

TearCancel(t) ==
    /\ reap[t] = "due"
    /\ reap' = [reap EXCEPT ![t] = "remove"]
    /\ ctx' = [ctx EXCEPT ![t] = "done"]
    /\ UNCHANGED <<registry, sid, run, order, grace, seq, journal, viewer>>

(* Mutant: the session is cleared whichever turn it has.                   *)
TearRemoveAny(t) ==
    /\ reap[t] = "remove"
    /\ reap' = [reap EXCEPT ![t] = "untimer"]
    /\ sessions' = [sessions EXCEPT ![sid[t]] = NoTurn]
    /\ UNCHANGED <<closed, turn, viewer>>

(* removeSession: only if the session still has this turn.                 *)
TearRemove(t) ==
    /\ reap[t] = "remove"
    /\ reap' = [reap EXCEPT ![t] = "untimer"]
    /\ sessions' = [sessions EXCEPT ![sid[t]] = IF @ = t THEN NoTurn ELSE @]
    /\ UNCHANGED <<closed, turn, viewer>>

TearUntimer(t) ==
    /\ reap[t] = "untimer"
    /\ reap' = [reap EXCEPT ![t] = "done"]
    /\ grace' = [grace EXCEPT ![t] = "none"]
    /\ UNCHANGED <<registry, sid, run, ctx, order, seq, journal, viewer>>
-----------------------------------------------------------------------------
ViewerStep(v) ==
    \/ StartRefused(v)
    \/ \E s \in Sessions : StartJoins(v, s) \/ LookUp(v, s)
    \/ \E s \in Sessions, t \in Turns : StartsTurn(v, s, t)
    \/ AttachFirst(v) \/ LookFinished(v) \/ Join(v) \/ Detach(v)
    \/ CancelHandle(v)

TurnStep(t) ==
    \/ Emit(t) \/ FnReturns(t) \/ MarkFinished(t) \/ Deadline(t)
    \/ TimerFires(t) \/ ReapIdle(t)
    \/ TearCancel(t) \/ TearRemove(t) \/ TearUntimer(t)

Next ==
    \/ \E v \in Viewers : ViewerStep(v)
    \/ \E t \in Turns : TurnStep(t)
    \/ \E s \in Sessions : Cancel(s)
    \/ CloseDrains \/ CloseRoot

Spec == Init /\ [][Next]_vars

(* Goroutines run, an armed timer goes off, a viewer leaves a turn that is *)
(* done, and a chain whose context is done returns.  Nobody has to cancel, *)
(* to sweep, to drop a connection, to reach the hard deadline or to close. *)
LiveSpec ==
    /\ Spec
    /\ \A v \in Viewers :
         WF_vars(AttachFirst(v) \/ LookFinished(v) \/ Join(v)
                 \/ (Detach(v) /\ Finished(at[v])))
    /\ \A t \in Turns :
         /\ WF_vars(TimerFires(t))
         /\ WF_vars((FnReturns(t) /\ ctx[t] = "done") \/ MarkFinished(t))
         /\ WF_vars(TearCancel(t) \/ TearRemove(t) \/ TearUntimer(t))
-----------------------------------------------------------------------------
(* Every variable has its type; the ring buffer never holds more than its  *)
(* capacity and stays within it (journal.go).                              *)
TypeOK ==
    /\ closed \in {"no", "closing", "yes"}
    /\ sessions \in [Sessions -> Turns \cup {NoTurn}]
    /\ sid \in [Turns -> Sessions]
    /\ run \in [Turns -> Runs]
    /\ ctx \in [Turns -> {"live", "done"}]
    /\ order \in [Turns -> Seq(Viewers)]
    /\ grace \in [Turns -> {"none", "armed", "fired"}]
    /\ seq \in [Turns -> 0..MaxEvents]
    /\ journal \in [Turns -> [buf : [0..JournalSize - 1 -> 0..MaxEvents],
                              start : 0..JournalSize - 1, count : 0..JournalSize]]
    /\ reap \in [Turns -> Reaps]
    /\ pc \in [Viewers -> {"idle", "looked", "joining", "first", "watching", "gone"}]
    /\ at \in [Viewers -> Turns \cup {NoTurn}]
    /\ got \in [Viewers -> Seq(0..MaxEvents)]

(* A turn in flight whose context is live can be found under its session   *)
(* until the registry is closed: a client that reconnects reaches it and   *)
(* session/cancel stops it.  In particular the late teardown of an earlier *)
(* turn of the session takes nothing away (registry.go removeSession), and *)
(* two turns of a session are never live at once.                          *)
Findable ==
    \A t \in Turns :
        (run[t] \in {"registered", "running"} /\ ctx[t] = "live" /\ closed = "no")
            => sessions[sid[t]] = t

(* A viewer that is attached has been delivered the latest events, each    *)
(* exactly once and in order, up to the very last one: the replayed        *)
(* backlog (all that the journal keeps) joins the live events without gap  *)
(* or repetition (turn.go emit and attach).                                *)
StreamExact ==
    \A v \in Viewers : pc[v] = "watching" =>
        LET n == Len(got[v])
            s == seq[at[v]]
        IN  /\ n <= s
            /\ n >= JournalSize \/ n = s
            /\ got[v] = [i \in 1..n |-> s - n + i]

(* The grace timer goes off only while nobody is watching the turn: a      *)
(* reattach inside the window stops it (config.go GraceWindow).  One that  *)
(* comes between the timer and the teardown it begins comes too late.      *)
SparesWatched ==
    [][\A t \in Turns : TimerFires(t) => order[t] = <<>> /\ ~Finished(t)]_vars

(* A running turn that nobody watches ends, or is watched again: the grace *)
(* window bounds it without help from the reaper (turn.go detach).         *)
UnwatchedEnds ==
    \A t \in Turns :
        (run[t] = "running" /\ order[t] = <<>>) ~> (Finished(t) \/ order[t] # <<>>)

(* A finished turn that everybody has left does not stay registered,       *)
(* whether the last viewer left before or after the end (turn.go detach    *)
(* and markFinished decide it between them, under the turn's lock).        *)
FinishedReaped ==
    \A t \in Turns :
        (Finished(t) /\ order[t] = <<>>) ~> (sessions[sid[t]] # t)

(* A viewer of a turn that is being torn down (by session/cancel, by the   *)
(* grace timer or by Close) is released: the turn's chain ends and so does *)
(* the wait for it (registry.go Cancel and Close).                         *)
Unblocks ==
    \A v \in Viewers :
        (pc[v] = "watching" /\ reap[at[v]] # "no") ~> (pc[v] = "gone")
=============================================================================
