-------------------------- MODULE NativeTurnProofs --------------------------
(***************************************************************************)
(* For any number of sessions, turns and viewers: a turn in flight can be  *)
(* found under its session, the grace timer never goes off on a turn that  *)
(* somebody watches, and a viewer is delivered the latest events, each     *)
(* once and in order.  The first rests on the order of teardown (the       *)
(* context is cancelled before the registration is removed) and on the     *)
(* comparison in removeSession; the second on every attach stopping the    *)
(* timer and on a viewer being in the fan-out until it detaches; the third *)
(* on a viewer having one place in one fan-out, and on the ring being what *)
(* it stands for: the last JournalSize events (KeepsLatest).               *)
(***************************************************************************)
EXTENDS NativeTurn, SequenceTheorems, TLAPS

(* The types the arguments need.                                           *)
TypeInv ==
    /\ closed \in {"no", "closing", "yes"}
    /\ sessions \in [Sessions -> Turns \cup {NoTurn}]
    /\ sid \in [Turns -> Sessions]
    /\ run \in [Turns -> Runs]
    /\ ctx \in [Turns -> {"live", "done"}]
    /\ order \in [Turns -> Seq(Viewers)]
    /\ grace \in [Turns -> {"none", "armed", "fired"}]
    /\ reap \in [Turns -> Reaps]
    /\ pc \in [Viewers -> {"idle", "looked", "joining", "first", "watching", "gone"}]
    /\ at \in [Viewers -> Turns \cup {NoTurn}]

(* A registered turn is under its own session and was started; a turn past *)
(* the first step of its teardown has its context cancelled.               *)
RegistryInv ==
    /\ \A s \in Sessions : sessions[s] # NoTurn =>
         sid[sessions[s]] = s /\ run[sessions[s]] # "free"
    /\ \A t \in Turns : reap[t] \in {"remove", "untimer", "done"} => ctx[t] = "done"

(* A viewer that found a turn holds one that was started, and the viewer   *)
(* that started a turn is the only one about to launch it.                 *)
HoldersInv ==
    /\ \A v \in Viewers : pc[v] \in {"looked", "joining", "first", "watching"} =>
         at[v] \in Turns /\ run[at[v]] # "free"
    /\ \A v \in Viewers : pc[v] = "first" => run[at[v]] = "registered"
    /\ \A v, w \in Viewers : (pc[v] = "first" /\ pc[w] = "first" /\ at[v] = at[w]) => v = w

(* An armed timer is the timer of a running turn that nobody watches.      *)
TimerInv ==
    \A t \in Turns : grace[t] = "armed" => order[t] = <<>> /\ ~Finished(t)

(* A watching viewer has a place in the fan-out of its turn.               *)
InFanOut(v) == \E i \in 1..Len(order[at[v]]) : order[at[v]][i] = v
FanOutInv == \A v \in Viewers : pc[v] = "watching" => InFanOut(v)

IInv == TypeInv /\ RegistryInv /\ HoldersInv /\ TimerInv /\ FanOutInv /\ Findable

-----------------------------------------------------------------------------
(* Taking the place of v out of an order leaves a sequence of viewers in   *)
(* which everybody else still has a place (turn.go detach).                *)
LEMMA WithoutKeeps ==
    ASSUME NEW s \in Seq(Viewers), NEW v \in Viewers,
           \E k \in 1..Len(s) : s[k] = v
    PROVE  /\ Without(s, v) \in Seq(Viewers)
           /\ \A w \in Viewers \ {v} :
                (\E k \in 1..Len(s) : s[k] = w)
                  => \E k \in 1..Len(Without(s, v)) : Without(s, v)[k] = w
  <1>. DEFINE i == CHOOSE k \in 1..Len(s) : s[k] = v
              r == [k \in 1..Len(s) - 1 |-> IF k < i THEN s[k] ELSE s[k + 1]]
  <1>1. i \in 1..Len(s) /\ s[i] = v
    OBVIOUS
  <1>2. Without(s, v) = r
    BY Zenon DEF Without
  <1>. HIDE DEF i
  <1>3. Len(s) \in Nat /\ Len(s) - 1 \in Nat
    BY <1>1
  <1>4. r \in Seq(Viewers) /\ Len(r) = Len(s) - 1
    BY <1>1, <1>3
  <1>5. ASSUME NEW w \in Viewers \ {v}, NEW k \in 1..Len(s), s[k] = w
        PROVE  \E j \in 1..Len(r) : r[j] = w
    <2>1. k # i
      BY <1>1, <1>5, Zenon
    <2>2. CASE k < i
      <3>1. k \in 1..Len(s) - 1
        BY <2>2, <1>1, <1>3
      <3>2. r[k] = w
        BY <3>1, <2>2, <1>5, Zenon
      <3>. QED BY <3>1, <3>2, <1>4, Zenon
    <2>3. CASE k > i
      <3>1. k - 1 \in 1..Len(s) - 1 /\ ~(k - 1 < i)
        BY <2>3, <1>1, <1>3
      <3>2. r[k - 1] = s[(k - 1) + 1]
        BY <3>1, Zenon
      <3>3. r[k - 1] = w
        BY <3>2, <1>5
      <3>. QED BY <3>1, <3>3, <1>4, Zenon
    <2>4. k < i \/ k > i
      BY <1>1, <1>3, <2>1
    <2>. HIDE DEF r
    <2>. QED BY <2>2, <2>3, <2>4, Zenon
  <1>. HIDE DEF r
  <1>. QED BY <1>2, <1>4, <1>5, Zenon

(* The initial state satisfies the invariant.                              *)
LEMMA InitHolds == Init => IInv
  <1>. SUFFICES ASSUME Init PROVE IInv
    OBVIOUS
  <1>1. TypeInv
    BY DEF Init, TypeInv, Runs, Reaps
  <1>2. RegistryInv /\ HoldersInv /\ TimerInv /\ FanOutInv /\ Findable
    BY Zenon DEF Init, RegistryInv, HoldersInv, TimerInv, FanOutInv, Findable, Finished
  <1>. QED BY <1>1, <1>2, Zenon DEF IInv

(* Deciding against turns changes no more than a teardown's progress, and  *)
(* that only from "no" to "due".                                           *)
LEMMA CondemnKeeps ==
    ASSUME TypeInv, RegistryInv, NEW D, Condemn(D)
    PROVE  /\ reap' \in [Turns -> Reaps]
           /\ \A t \in Turns : reap'[t] \in {"remove", "untimer", "done"} => ctx[t] = "done"
  BY Zenon DEF TypeInv, RegistryInv, Condemn, Reaps

(* What an attach does to the fan-out (turn.go attach).                    *)
LEMMA AttachKeeps ==
    ASSUME TypeInv, HoldersInv, TimerInv, FanOutInv,
           NEW v \in Viewers, pc[v] \in {"first", "joining"},
           Attach(v, at[v]), pc' = [pc EXCEPT ![v] = "watching"], UNCHANGED at
    PROVE  /\ order' \in [Turns -> Seq(Viewers)]
           /\ grace' \in [Turns -> {"none", "armed", "fired"}]
           /\ FanOutInv'
           /\ \A t \in Turns : grace'[t] = "armed" => t # at[v] /\ order'[t] = <<>> /\ ~Finished(t)
  <1>1. at[v] \in Turns /\ order[at[v]] \in Seq(Viewers)
    BY Zenon DEF TypeInv, HoldersInv
  <1>2. order' = [order EXCEPT ![at[v]] = Append(order[at[v]], v)]
    BY <1>1, Zenon DEF Attach
  <1>3. order' \in [Turns -> Seq(Viewers)] /\ grace' \in [Turns -> {"none", "armed", "fired"}]
    BY <1>1, <1>2 DEF TypeInv, Attach
  <1>4. ASSUME NEW w \in Viewers, pc'[w] = "watching" PROVE InFanOut(w)'
    <2>1. CASE w = v
      <3>1. order'[at[v]] = Append(order[at[v]], v)
        BY <1>1, <1>2, Zenon DEF TypeInv
      <3>2. Len(order[at[v]]) + 1 \in 1..Len(order'[at[v]])
            /\ order'[at[v]][Len(order[at[v]]) + 1] = v
        BY <3>1, <1>1
      <3>. QED BY <2>1, <3>2, Zenon DEF InFanOut
    <2>2. CASE w # v
      <3>1. pc[w] = "watching" /\ InFanOut(w) /\ at[w] \in Turns
        BY <2>2, <1>4, Zenon DEF TypeInv, FanOutInv, HoldersInv
      <3>2. PICK i \in 1..Len(order[at[w]]) : order[at[w]][i] = w
        BY <3>1, Zenon DEF InFanOut
      <3>3. i \in 1..Len(order'[at[w]]) /\ order'[at[w]][i] = w
        BY <3>1, <3>2, <1>1, <1>2 DEF TypeInv
      <3>. QED BY <3>3, Zenon DEF InFanOut
    <2>. QED BY <2>1, <2>2, Zenon
  <1>5. \A t \in Turns : grace'[t] = "armed" => t # at[v] /\ order'[t] = <<>> /\ ~Finished(t)
    BY <1>1, <1>2, Zenon DEF TypeInv, TimerInv, Attach
  <1>. QED BY <1>3, <1>4, <1>5, Zenon DEF FanOutInv
-----------------------------------------------------------------------------
(* A step of a viewer keeps the invariant.                                 *)
LEMMA ViewerKeeps ==
    ASSUME IInv, NEW v \in Viewers, ViewerStep(v)
    PROVE  IInv'
  <1>. USE NoTurnAssumption
  <1>a. TypeInv /\ RegistryInv /\ HoldersInv /\ TimerInv /\ FanOutInv /\ Findable
    BY Zenon DEF IInv
  <1>1. CASE StartRefused(v)
    BY <1>1, <1>a DEF StartRefused, Moves, registry, turn, IInv, TypeInv, RegistryInv,
       HoldersInv, TimerInv, FanOutInv, InFanOut, Findable, Finished
  <1>2. ASSUME NEW s \in Sessions, StartJoins(v, s) PROVE IInv'
    BY <1>2, <1>a DEF StartJoins, Moves, registry, turn, IInv, TypeInv, RegistryInv,
       HoldersInv, TimerInv, FanOutInv, InFanOut, Findable, Finished
  <1>3. ASSUME NEW s \in Sessions, LookUp(v, s) PROVE IInv'
    BY <1>3, <1>a DEF LookUp, Moves, registry, turn, IInv, TypeInv, RegistryInv,
       HoldersInv, TimerInv, FanOutInv, InFanOut, Findable, Finished
  <1>4. ASSUME NEW s \in Sessions, NEW t \in Turns, StartsTurn(v, s, t) PROVE IInv'
    <2>1. /\ pc[v] = "idle" /\ pc' = [pc EXCEPT ![v] = "first"]
          /\ at' = [at EXCEPT ![v] = t] /\ run[t] = "free" /\ sid[t] = s
          /\ sessions' = [sessions EXCEPT ![s] = t]
          /\ run' = [run EXCEPT ![t] = "registered"]
          /\ sessions[s] # NoTurn => Finished(sessions[s])
          /\ UNCHANGED <<closed, sid, ctx, order, grace, reap>>
      BY <1>4, Zenon DEF StartsTurn, Moves
    <2>2. TypeInv' /\ RegistryInv' /\ TimerInv'
      BY <2>1, <1>a DEF TypeInv, RegistryInv, TimerInv, Finished, Runs
    <2>3. HoldersInv'
      BY <2>1, <1>a DEF TypeInv, HoldersInv
    <2>4. FanOutInv'
      BY <2>1, <1>a DEF TypeInv, FanOutInv, InFanOut
    <2>5. Findable'
      BY <2>1, <1>a DEF TypeInv, Findable, Finished
    <2>. QED BY <2>2, <2>3, <2>4, <2>5, Zenon DEF IInv
  <1>5. CASE AttachFirst(v)
    <2>1. /\ pc[v] = "first" /\ pc' = [pc EXCEPT ![v] = "watching"]
          /\ Attach(v, at[v]) /\ run' = [run EXCEPT ![at[v]] = "running"]
          /\ UNCHANGED <<closed, sessions, sid, ctx, reap, at>>
      BY <1>5, Zenon DEF AttachFirst, Moves, registry
    <2>2. /\ order' \in [Turns -> Seq(Viewers)]
          /\ grace' \in [Turns -> {"none", "armed", "fired"}]
          /\ FanOutInv'
          /\ \A t \in Turns : grace'[t] = "armed" => t # at[v] /\ order'[t] = <<>> /\ ~Finished(t)
      BY <2>1, <1>a, AttachKeeps, Zenon
    <2>3. TypeInv' /\ RegistryInv' /\ TimerInv'
      BY <2>1, <2>2, <1>a DEF TypeInv, RegistryInv, HoldersInv, TimerInv, Finished, Runs
    <2>4. HoldersInv'
      BY <2>1, <1>a DEF TypeInv, HoldersInv
    <2>5. Findable'
      BY <2>1, <1>a, Zenon DEF TypeInv, Findable, HoldersInv
    <2>. QED BY <2>2, <2>3, <2>4, <2>5, Zenon DEF IInv
  <1>6. CASE LookFinished(v)
    BY <1>6, <1>a DEF LookFinished, Moves, registry, turn, IInv, TypeInv, RegistryInv,
       HoldersInv, TimerInv, FanOutInv, InFanOut, Findable, Finished
  <1>7. CASE Join(v)
    <2>1. /\ pc[v] = "joining" /\ pc' = [pc EXCEPT ![v] = "watching"]
          /\ Attach(v, at[v])
          /\ UNCHANGED <<closed, sessions, sid, run, ctx, reap, at>>
      BY <1>7, Zenon DEF Join, Moves, registry
    <2>2. /\ order' \in [Turns -> Seq(Viewers)]
          /\ grace' \in [Turns -> {"none", "armed", "fired"}]
          /\ FanOutInv'
          /\ \A t \in Turns : grace'[t] = "armed" => t # at[v] /\ order'[t] = <<>> /\ ~Finished(t)
      BY <2>1, <1>a, AttachKeeps, Zenon
    <2>3. TypeInv' /\ RegistryInv' /\ TimerInv'
      BY <2>1, <2>2, <1>a, Zenon DEF TypeInv, RegistryInv, HoldersInv, TimerInv, Finished, Runs
    <2>4. HoldersInv' /\ Findable'
      BY <2>1, <1>a DEF TypeInv, HoldersInv, Findable
    <2>. QED BY <2>2, <2>3, <2>4, Zenon DEF IInv
  <1>8. CASE Detach(v)
    <2>. DEFINE t == at[v]
    <2>1. /\ pc[v] = "watching" /\ pc' = [pc EXCEPT ![v] = "gone"]
          /\ at' = [at EXCEPT ![v] = NoTurn]
          /\ order' = [order EXCEPT ![t] = Without(order[t], v)]
          /\ grace' = [grace EXCEPT ![t] = IF Without(order[t], v) = <<>> /\ ~Finished(t)
                                          THEN "armed" ELSE grace[t]]
          /\ UNCHANGED <<closed, sessions, sid, run, ctx>>
      BY <1>8, <1>a, Zenon DEF Detach, Leave, Alone, Moves, registry, TypeInv, HoldersInv
    <2>2. \E D : Condemn(D)
      BY <1>8, Zenon DEF Detach, Leave
    <2>3. /\ reap' \in [Turns -> Reaps]
          /\ \A u \in Turns : reap'[u] \in {"remove", "untimer", "done"} => ctx[u] = "done"
      BY <2>2, <1>a, CondemnKeeps, Zenon
    <2>4. t \in Turns /\ order[t] \in Seq(Viewers) /\ \E k \in 1..Len(order[t]) : order[t][k] = v
      BY <2>1, <1>a, Zenon DEF TypeInv, HoldersInv, FanOutInv, InFanOut
    <2>5. /\ Without(order[t], v) \in Seq(Viewers)
          /\ \A w \in Viewers \ {v} :
               (\E k \in 1..Len(order[t]) : order[t][k] = w)
                 => \E k \in 1..Len(Without(order[t], v)) : Without(order[t], v)[k] = w
      BY <2>4, WithoutKeeps, Zenon
    <2>6. order[t] # <<>>
      BY <2>4
    <2>. HIDE DEF t
    <2>7. TypeInv'
      BY <2>1, <2>3, <2>4, <2>5, <1>a, Zenon DEF TypeInv
    <2>8. RegistryInv'
      BY <2>1, <2>3, <1>a, Zenon DEF RegistryInv
    <2>9. TimerInv'
      BY <2>1, <2>4, <2>6, <1>a, Zenon DEF TypeInv, TimerInv, Finished
    <2>10. HoldersInv' /\ Findable'
      BY <2>1, <1>a DEF TypeInv, HoldersInv, Findable
    <2>11. ASSUME NEW w \in Viewers, pc'[w] = "watching" PROVE InFanOut(w)'
      <3>1. w # v /\ pc[w] = "watching" /\ at'[w] = at[w] /\ at[w] \in Turns
        BY <2>1, <2>11, <1>a, Zenon DEF TypeInv, HoldersInv
      <3>2. \E k \in 1..Len(order[at[w]]) : order[at[w]][k] = w
        BY <3>1, <1>a, Zenon DEF FanOutInv, InFanOut
      <3>3. CASE at[w] = t
        BY <3>1, <3>2, <3>3, <2>1, <2>4, <2>5, <1>a DEF TypeInv, InFanOut
      <3>4. CASE at[w] # t
        BY <3>1, <3>2, <3>4, <2>1, <2>4, <1>a, Zenon DEF TypeInv, InFanOut
      <3>. QED BY <3>3, <3>4, Zenon
    <2>. QED BY <2>7, <2>8, <2>9, <2>10, <2>11, Zenon DEF IInv, FanOutInv
  <1>9. CASE CancelHandle(v)
    BY <1>9, <1>a, CondemnKeeps DEF CancelHandle, registry, turn, viewer, IInv, TypeInv,
       RegistryInv, HoldersInv, TimerInv, FanOutInv, InFanOut, Findable, Finished
  <1>. QED BY <1>1, <1>2, <1>3, <1>4, <1>5, <1>6, <1>7, <1>8, <1>9, Zenon DEF ViewerStep
(* A step of a turn's goroutine, of its timer or of its teardown keeps the *)
(* invariant.                                                              *)
LEMMA TurnKeeps ==
    ASSUME IInv, NEW t \in Turns, TurnStep(t)
    PROVE  IInv'
  <1>. USE NoTurnAssumption
  <1>a. TypeInv /\ RegistryInv /\ HoldersInv /\ TimerInv /\ FanOutInv /\ Findable
    BY Zenon DEF IInv
  <1>1. CASE Emit(t)
    BY <1>1, <1>a DEF Emit, registry, IInv, TypeInv, RegistryInv,
       HoldersInv, TimerInv, FanOutInv, InFanOut, Findable, Finished
  <1>2. CASE FnReturns(t)
    <2>1. TypeInv' /\ RegistryInv' /\ TimerInv'
      BY <1>2, <1>a DEF FnReturns, registry, viewer, TypeInv, RegistryInv, TimerInv,
         Finished, Runs
    <2>2. HoldersInv' /\ FanOutInv' /\ Findable'
      BY <1>2, <1>a DEF FnReturns, registry, viewer, TypeInv, HoldersInv, FanOutInv,
         InFanOut, Findable
    <2>. QED BY <2>1, <2>2, Zenon DEF IInv
  <1>3. CASE MarkFinished(t)
    <2>0. \E D : Condemn(D)
      BY <1>3, Zenon DEF MarkFinished
    <2>1. /\ reap' \in [Turns -> Reaps]
          /\ \A u \in Turns : reap'[u] \in {"remove", "untimer", "done"} => ctx[u] = "done"
      BY <2>0, <1>a, CondemnKeeps, Zenon
    <2>2. TypeInv' /\ RegistryInv' /\ TimerInv'
      BY <1>3, <2>1, <1>a DEF MarkFinished, registry, viewer, TypeInv, RegistryInv, TimerInv,
         Finished, Runs
    <2>3. HoldersInv' /\ FanOutInv' /\ Findable'
      BY <1>3, <1>a DEF MarkFinished, registry, viewer, TypeInv, HoldersInv, FanOutInv,
         InFanOut, Findable
    <2>. QED BY <2>2, <2>3, Zenon DEF IInv
  <1>4. CASE Deadline(t)
    BY <1>4, <1>a DEF Deadline, registry, viewer, IInv, TypeInv, RegistryInv,
       HoldersInv, TimerInv, FanOutInv, InFanOut, Findable, Finished
  <1>5. CASE TimerFires(t)
    <2>1. \E D : Condemn(D)
      BY <1>5, Zenon DEF TimerFires
    <2>2. /\ reap' \in [Turns -> Reaps]
          /\ \A u \in Turns : reap'[u] \in {"remove", "untimer", "done"} => ctx[u] = "done"
      BY <2>1, <1>a, CondemnKeeps, Zenon
    <2>. QED
      BY <1>5, <2>2, <1>a DEF TimerFires, registry, viewer, IInv, TypeInv, RegistryInv,
         HoldersInv, TimerInv, FanOutInv, InFanOut, Findable, Finished
  <1>6. CASE ReapIdle(t)
    <2>1. \E D : Condemn(D)
      BY <1>6, Zenon DEF ReapIdle
    <2>2. /\ reap' \in [Turns -> Reaps]
          /\ \A u \in Turns : reap'[u] \in {"remove", "untimer", "done"} => ctx[u] = "done"
      BY <2>1, <1>a, CondemnKeeps, Zenon
    <2>. QED
      BY <1>6, <2>2, <1>a DEF ReapIdle, registry, turn, viewer, IInv, TypeInv, RegistryInv,
         HoldersInv, TimerInv, FanOutInv, InFanOut, Findable, Finished
  <1>7. CASE TearCancel(t)
    BY <1>7, <1>a DEF TearCancel, registry, viewer, IInv, TypeInv, RegistryInv,
       HoldersInv, TimerInv, FanOutInv, InFanOut, Findable, Finished, Reaps
  <1>8. CASE TearRemove(t)
    <2>1. /\ reap[t] = "remove" /\ reap' = [reap EXCEPT ![t] = "untimer"]
          /\ sessions' = [sessions EXCEPT ![sid[t]] = IF sessions[sid[t]] = t
                                                      THEN NoTurn ELSE sessions[sid[t]]]
          /\ UNCHANGED <<closed, turn, viewer>>
      BY <1>8, <1>a, Zenon DEF TearRemove, TypeInv
    <2>2. TypeInv' /\ RegistryInv'
      BY <2>1, <1>a DEF turn, viewer, TypeInv, RegistryInv, Reaps
    <2>3. HoldersInv' /\ TimerInv' /\ FanOutInv'
      BY <2>1, <1>a, Zenon DEF turn, viewer, HoldersInv, TimerInv, FanOutInv, InFanOut, Finished
    <2>4. Findable'
      BY <2>1, <1>a DEF turn, viewer, TypeInv, RegistryInv, Findable
    <2>. QED BY <2>2, <2>3, <2>4, Zenon DEF IInv
  <1>9. CASE TearUntimer(t)
    BY <1>9, <1>a DEF TearUntimer, registry, viewer, IInv, TypeInv, RegistryInv,
       HoldersInv, TimerInv, FanOutInv, InFanOut, Findable, Finished, Reaps
  <1>. QED BY <1>1, <1>2, <1>3, <1>4, <1>5, <1>6, <1>7, <1>8, <1>9, Zenon DEF TurnStep

(* Every step keeps the invariant.                                         *)
LEMMA StepKeeps == IInv /\ [Next]_vars => IInv'
  <1>. SUFFICES ASSUME IInv, [Next]_vars PROVE IInv'
    OBVIOUS
  <1>. USE NoTurnAssumption
  <1>a. TypeInv /\ RegistryInv /\ HoldersInv /\ TimerInv /\ FanOutInv /\ Findable
    BY Zenon DEF IInv
  <1>1. ASSUME NEW v \in Viewers, ViewerStep(v) PROVE IInv'
    BY <1>1, ViewerKeeps, Zenon
  <1>2. ASSUME NEW t \in Turns, TurnStep(t) PROVE IInv'
    BY <1>2, TurnKeeps, Zenon
  <1>3. ASSUME NEW s \in Sessions, Cancel(s) PROVE IInv'
    <2>1. \E D : Condemn(D)
      BY <1>3, Zenon DEF Cancel
    <2>2. /\ reap' \in [Turns -> Reaps]
          /\ \A u \in Turns : reap'[u] \in {"remove", "untimer", "done"} => ctx[u] = "done"
      BY <2>1, <1>a, CondemnKeeps, Zenon
    <2>. QED
      BY <1>3, <2>2, <1>a DEF Cancel, registry, turn, viewer, IInv, TypeInv, RegistryInv,
         HoldersInv, TimerInv, FanOutInv, InFanOut, Findable, Finished
  <1>4. CASE CloseDrains
    <2>1. \E D : Condemn(D)
      BY <1>4, Zenon DEF CloseDrains
    <2>2. /\ reap' \in [Turns -> Reaps]
          /\ \A u \in Turns : reap'[u] \in {"remove", "untimer", "done"} => ctx[u] = "done"
      BY <2>1, <1>a, CondemnKeeps, Zenon
    <2>. QED
      BY <1>4, <2>2, <1>a DEF CloseDrains, turn, viewer, IInv, TypeInv, RegistryInv,
         HoldersInv, TimerInv, FanOutInv, InFanOut, Findable, Finished
  <1>5. CASE CloseRoot
    BY <1>5, <1>a DEF CloseRoot, viewer, IInv, TypeInv, RegistryInv,
       HoldersInv, TimerInv, FanOutInv, InFanOut, Findable, Finished
  <1>6. CASE UNCHANGED vars
    BY <1>6, <1>a DEF vars, registry, turn, viewer, IInv, TypeInv, RegistryInv,
       HoldersInv, TimerInv, FanOutInv, InFanOut, Findable, Finished
  <1>. QED BY <1>1, <1>2, <1>3, <1>4, <1>5, <1>6, Zenon DEF Next

(* The invariant holds always.                                             *)
LEMMA Always == Spec => []IInv
  BY InitHolds, StepKeeps, PTL DEF Spec

-----------------------------------------------------------------------------
(* For any number of sessions, turns and viewers: a turn in flight whose   *)
(* context is live can be found under its session until the registry is    *)
(* closed (registry.go Start, removeSession and Close).                    *)
THEOREM AlwaysFindable == Spec => []Findable
  <1>1. IInv => Findable
    BY Zenon DEF IInv
  <1>. QED BY <1>1, Always, PTL

(* The grace timer goes off only on a running turn that nobody watches     *)
(* (turn.go attach, detach and markFinished).                              *)
THEOREM TimerSparesWatched == Spec => SparesWatched
  <1>1. IInv => (\A t \in Turns : TimerFires(t) => order[t] = <<>> /\ ~Finished(t))
    BY Zenon DEF IInv, TimerInv, TimerFires
  <1>. QED BY <1>1, Always, PTL DEF SparesWatched

(* A viewer that watches a turn has a place in its fan-out, so that every  *)
(* event of the turn is handed to it (turn.go attach, detach and emit).    *)
THEOREM WatchersAreServed == Spec => []FanOutInv
  <1>1. IInv => FanOutInv
    BY Zenon DEF IInv
  <1>. QED BY <1>1, Always, PTL

-----------------------------------------------------------------------------
(* The types of the events and of the journal that keeps the latest.       *)
Rings == [buf : [0..JournalSize - 1 -> 0..MaxEvents],
          start : 0..JournalSize - 1, count : 0..JournalSize]

EventTypes ==
    /\ seq \in [Turns -> 0..MaxEvents]
    /\ journal \in [Turns -> Rings]
    /\ got \in [Viewers -> Seq(0..MaxEvents)]

LEMMA InRing ==
    ASSUME NEW i \in Nat
    PROVE  i % JournalSize \in 0..JournalSize - 1
  BY JournalAssumption DEF JournalAssumption

(* The ring takes an event and is a ring (journal.append).                 *)
LEMMA RingKept ==
    ASSUME NEW j \in Rings, NEW e \in 0..MaxEvents
    PROVE  Journaled(j, e) \in Rings
  <1>. DEFINE k == (j.start + j.count) % JournalSize
              n == (j.start + 1) % JournalSize
  <1>1. j.start + j.count \in Nat /\ j.start + 1 \in Nat
    BY JournalAssumption DEF Rings, JournalAssumption
  <1>2. k \in 0..JournalSize - 1 /\ n \in 0..JournalSize - 1
    BY <1>1, InRing, Zenon
  <1>3. CASE j.count < JournalSize
    <2>1. Journaled(j, e) = [buf |-> [j.buf EXCEPT ![k] = e], start |-> j.start,
                             count |-> j.count + 1]
      BY <1>3, Zenon DEF Journaled, Rings
    <2>2. j.count + 1 \in 0..JournalSize
      BY <1>3, JournalAssumption DEF Rings, JournalAssumption
    <2>. HIDE DEF k
    <2>. QED BY <1>2, <2>1, <2>2 DEF Rings
  <1>4. CASE ~(j.count < JournalSize)
    <2>1. Journaled(j, e) = [buf |-> [j.buf EXCEPT ![j.start] = e], start |-> n,
                             count |-> j.count]
      BY <1>4, Zenon DEF Journaled, Rings
    <2>. HIDE DEF n
    <2>. QED BY <1>2, <2>1 DEF Rings
  <1>. QED BY <1>3, <1>4, Zenon

(* What is replayed to a viewer are events (journal.snapshot).             *)
LEMMA ReplaysEvents ==
    ASSUME NEW j \in Rings
    PROVE  Snapshot(j) \in Seq(0..MaxEvents)
  <1>1. ASSUME NEW i \in 1..j.count PROVE j.buf[(j.start + i - 1) % JournalSize] \in 0..MaxEvents
    <2>1. j.start + i - 1 \in Nat
      BY JournalAssumption DEF Rings, JournalAssumption
    <2>2. (j.start + i - 1) % JournalSize \in 0..JournalSize - 1
      BY <2>1, InRing, Zenon
    <2>. QED BY <2>2, Zenon DEF Rings
  <1>2. j.count \in Nat
    BY JournalAssumption DEF Rings, JournalAssumption
  <1>3. Snapshot(j) \in [1..j.count -> 0..MaxEvents]
    BY <1>1, Zenon DEF Snapshot
  <1>. QED BY <1>2, <1>3, SeqDef, Zenon

LEMMA EventsKept == TypeInv /\ HoldersInv /\ EventTypes /\ [Next]_vars => EventTypes'
  <1>. SUFFICES ASSUME TypeInv, HoldersInv, EventTypes, [Next]_vars PROVE EventTypes'
    OBVIOUS
  <1>. USE DEF registry, turn, viewer
  <1>1. ASSUME NEW t \in Turns, Emit(t) PROVE EventTypes'
    <2>1. seq[t] + 1 \in 0..MaxEvents /\ journal[t] \in Rings
      BY <1>1, EventsAssumption DEF Emit, EventTypes, EventsAssumption
    <2>2. Journaled(journal[t], seq[t] + 1) \in Rings
      BY <2>1, RingKept, Zenon
    <2>3. \A v \in Viewers : Append(got[v], seq[t] + 1) \in Seq(0..MaxEvents)
      BY <2>1, AppendProperties, Zenon DEF EventTypes
    <2>. QED BY <1>1, <2>1, <2>2, <2>3, Zenon DEF Emit, EventTypes
  <1>2. ASSUME NEW v \in Viewers, AttachFirst(v) \/ Join(v) PROVE EventTypes'
    <2>1. at[v] \in Turns
      BY <1>2, Zenon DEF AttachFirst, Join, Moves, TypeInv, HoldersInv
    <2>2. Snapshot(journal[at[v]]) \in Seq(0..MaxEvents)
      BY <2>1, ReplaysEvents, Zenon DEF EventTypes
    <2>. QED BY <1>2, <2>2, Zenon DEF AttachFirst, Join, Attach, EventTypes
  <1>3. ASSUME NEW v \in Viewers, Detach(v) PROVE EventTypes'
    BY <1>3 DEF Detach, Leave, EventTypes
  <1>4. ASSUME NEW v \in Viewers, ViewerStep(v),
               ~(AttachFirst(v) \/ Join(v) \/ Detach(v))
        PROVE  UNCHANGED <<seq, journal, got>>
    BY <1>4, Zenon DEF ViewerStep, StartRefused, StartJoins, LookUp, StartsTurn, LookFinished,
       CancelHandle
  <1>5. ASSUME NEW t \in Turns, TurnStep(t), ~Emit(t) PROVE UNCHANGED <<seq, journal, got>>
    BY <1>5, Zenon DEF TurnStep, FnReturns, MarkFinished, Deadline, TimerFires, ReapIdle,
       TearCancel, TearRemove, TearUntimer
  <1>6. ASSUME NEW s \in Sessions, Cancel(s) PROVE UNCHANGED <<seq, journal, got>>
    BY <1>6, Zenon DEF Cancel
  <1>7. CASE CloseDrains \/ CloseRoot \/ UNCHANGED vars
    BY <1>7, Zenon DEF CloseDrains, CloseRoot, vars, EventTypes
  <1>8. UNCHANGED <<seq, journal, got>> => EventTypes'
    BY Zenon DEF EventTypes
  <1>. QED BY <1>1, <1>2, <1>3, <1>4, <1>5, <1>6, <1>7, <1>8, Zenon DEF Next

(* Every variable keeps its type; the journal, whatever its capacity,      *)
(* never outgrows it (journal.go append).                                  *)
THEOREM JournalBounded == Spec => []TypeOK
  <1>1. Init => EventTypes
    BY JournalAssumption, EventsAssumption
    DEF Init, EventTypes, Rings, NoEvents, JournalAssumption, EventsAssumption
  <1>2. TypeInv /\ EventTypes => TypeOK
    BY Zenon DEF TypeInv, EventTypes, Rings, TypeOK
  <1>3. IInv => TypeInv /\ HoldersInv
    BY Zenon DEF IInv
  <1>. QED BY <1>1, <1>2, <1>3, EventsKept, Always, PTL DEF Spec

-----------------------------------------------------------------------------
(* What a viewer is delivered.  The ring keeps the latest events in order  *)
(* (KeepsLatest), a viewer has one place, in the fan-out of the turn it    *)
(* watches and in no other (PlacesInv), so the events that follow the      *)
(* replay reach it one by one.                                             *)

(* Where the ring keeps the i-th of the events it holds.                   *)
Slot(j, i) ==
    IF j.start + i - 1 < JournalSize THEN j.start + i - 1 ELSE j.start + i - 1 - JournalSize

KeepsLatest(j, n) ==
    /\ j.count = IF n < JournalSize THEN n ELSE JournalSize
    /\ j.count < JournalSize => j.start = 0
    /\ \A i \in 1..j.count : j.buf[Slot(j, i)] = n - j.count + i

(* The latest Len(g) of s events, all that a viewer can be replayed.       *)
Exact(g, s) ==
    /\ Len(g) <= s
    /\ Len(g) >= JournalSize \/ Len(g) = s
    /\ g = [i \in 1..Len(g) |-> s - Len(g) + i]

PlacesInv ==
    \A t \in Turns : \A i \in 1..Len(order[t]) :
        /\ pc[order[t][i]] = "watching" /\ at[order[t][i]] = t
        /\ \A k \in 1..Len(order[t]) : order[t][i] = order[t][k] => i = k

StreamInv ==
    /\ \A t \in Turns : KeepsLatest(journal[t], seq[t])
    /\ \A v \in Viewers : pc[v] = "watching" => Exact(got[v], seq[at[v]])

LEMMA ModSmall == ASSUME NEW x \in Nat, x < JournalSize PROVE x % JournalSize = x
  BY JournalAssumption DEF JournalAssumption

LEMMA ModOnce ==
    ASSUME NEW x \in Nat, JournalSize <= x, x < JournalSize + JournalSize
    PROVE  x % JournalSize = x - JournalSize
  BY JournalAssumption DEF JournalAssumption

LEMMA SlotIsMod ==
    ASSUME NEW j \in Rings, NEW i \in 1..JournalSize
    PROVE  Slot(j, i) = (j.start + i - 1) % JournalSize /\ Slot(j, i) \in 0..JournalSize - 1
  <1>1. j.start \in 0..JournalSize - 1 /\ JournalSize \in Nat \ {0}
    BY JournalAssumption, Zenon DEF Rings, JournalAssumption
  <1>2. j.start + i - 1 \in Nat /\ j.start + i - 1 < JournalSize + JournalSize
    BY <1>1
  <1>3. CASE j.start + i - 1 < JournalSize
    <2>1. (j.start + i - 1) % JournalSize = j.start + i - 1
      BY <1>2, <1>3, ModSmall, Zenon
    <2>. QED BY <1>1, <1>2, <1>3, <2>1 DEF Slot
  <1>4. CASE ~(j.start + i - 1 < JournalSize)
    <2>1. (j.start + i - 1) % JournalSize = j.start + i - 1 - JournalSize
      BY <1>1, <1>2, <1>4, ModOnce
    <2>. QED BY <1>1, <1>2, <1>4, <2>1 DEF Slot
  <1>. QED BY <1>3, <1>4, Zenon

(* journal.append keeps the latest events, in order.                       *)
LEMMA JournaledLatest ==
    ASSUME NEW j \in Rings, NEW n \in Nat, KeepsLatest(j, n)
    PROVE  KeepsLatest(Journaled(j, n + 1), n + 1)
  <1>0. /\ JournalSize \in Nat \ {0} /\ j.start \in 0..JournalSize - 1 /\ j.count \in 0..JournalSize
        /\ DOMAIN j.buf = 0..JournalSize - 1
    BY JournalAssumption, Zenon DEF Rings, JournalAssumption
  <1>1. CASE j.count < JournalSize
    <2>1. j.start = 0 /\ n = j.count
      BY <1>0, <1>1 DEF KeepsLatest
    <2>2. (j.start + j.count) % JournalSize = j.count
      BY <1>0, <1>1, <2>1, ModSmall
    <2>. DEFINE r == [buf |-> [j.buf EXCEPT ![j.count] = n + 1], start |-> j.start, count |-> j.count + 1]
    <2>3. Journaled(j, n + 1) = r
      BY <1>1, <2>2, Zenon DEF Journaled, Rings
    <2>4. ASSUME NEW i \in 1..r.count PROVE r.buf[Slot(r, i)] = (n + 1) - r.count + i
      <3>1. Slot(r, i) = i - 1 /\ i - 1 \in 0..JournalSize - 1
        BY <1>0, <1>1, <2>1 DEF Slot
      <3>2. CASE i = j.count + 1
        <4>1. Slot(r, i) = j.count /\ r.buf[j.count] = n + 1
          BY <1>0, <1>1, <3>1, <3>2
        <4>. QED BY <1>0, <2>1, <3>2, <4>1
      <3>3. CASE i # j.count + 1
        <4>1. i \in 1..j.count /\ i - 1 # j.count /\ Slot(j, i) = i - 1
          BY <1>0, <1>1, <2>1, <3>3 DEF Slot
        <4>2. j.buf[i - 1] = n - j.count + i
          BY <4>1, Zenon DEF KeepsLatest
        <4>. QED BY <1>0, <2>1, <3>1, <4>1, <4>2
      <3>. QED BY <3>2, <3>3, Zenon
    <2>5. r.count = IF n + 1 < JournalSize THEN n + 1 ELSE JournalSize
      BY <1>0, <1>1, <2>1
    <2>6. r.start = 0
      BY <2>1, Zenon
    <2>. HIDE DEF r
    <2>7. KeepsLatest(r, n + 1)
      BY <2>4, <2>5, <2>6, Zenon DEF KeepsLatest
    <2>. QED BY <2>3, <2>7, Zenon
  <1>2. CASE ~(j.count < JournalSize)
    <2>1. j.count = JournalSize /\ n >= JournalSize
      BY <1>0, <1>2 DEF KeepsLatest
    <2>. DEFINE next == (j.start + 1) % JournalSize
                r == [buf |-> [j.buf EXCEPT ![j.start] = n + 1], start |-> next, count |-> j.count]
    <2>2. Journaled(j, n + 1) = r
      BY <1>2, Zenon DEF Journaled, Rings
    <2>3. next = IF j.start + 1 < JournalSize THEN j.start + 1 ELSE 0
      <3>1. CASE j.start + 1 < JournalSize
        BY <1>0, <3>1, ModSmall
      <3>2. CASE ~(j.start + 1 < JournalSize)
        <4>1. j.start + 1 = JournalSize /\ j.start + 1 \in Nat
          BY <1>0, <3>2
        <4>2. next = j.start + 1 - JournalSize
          BY <1>0, <4>1, ModOnce
        <4>. QED BY <1>0, <3>2, <4>1, <4>2
      <3>. QED BY <3>1, <3>2, Zenon
    <2>. HIDE DEF next
    <2>4. ASSUME NEW i \in 1..r.count PROVE r.buf[Slot(r, i)] = (n + 1) - r.count + i
      <3>0. i \in 1..JournalSize /\ i \in Nat /\ n \in Nat
        BY <1>0, <2>1
      <3>1. CASE i = JournalSize
        <4>1. Slot(r, i) = j.start
          BY <1>0, <2>3, <3>1 DEF Slot
        <4>. QED BY <1>0, <2>1, <3>1, <4>1
      <3>2. CASE i # JournalSize
        <4>0. r.start = next /\ i + 1 \in 1..j.count
          BY <1>0, <2>1, <3>0, <3>2
        <4>1. Slot(r, i) = Slot(j, i + 1) /\ Slot(r, i) # j.start /\ Slot(r, i) \in 0..JournalSize - 1
          <5>. HIDE DEF r
          <5>1. CASE j.start + 1 < JournalSize
            <6>1. r.start = j.start + 1
              BY <2>3, <4>0, <5>1, Zenon
            <6>2. r.start + i - 1 = j.start + i /\ j.start + (i + 1) - 1 = j.start + i
              BY <1>0, <3>0, <6>1
            <6>3. Slot(r, i) = IF j.start + i < JournalSize THEN j.start + i ELSE j.start + i - JournalSize
              BY <1>0, <3>0, <6>1, <6>2 DEF Slot
            <6>4. Slot(r, i) = Slot(j, i + 1)
              BY <1>0, <3>0, <6>2, <6>3 DEF Slot
            <6>. QED BY <1>0, <3>0, <3>2, <6>3, <6>4
          <5>2. CASE ~(j.start + 1 < JournalSize)
            <6>1. r.start = 0 /\ j.start = JournalSize - 1
              BY <1>0, <2>3, <4>0, <5>2
            <6>. QED BY <1>0, <3>0, <3>2, <6>1 DEF Slot
          <5>. QED BY <5>1, <5>2, Zenon
        <4>2. j.buf[Slot(j, i + 1)] = n - j.count + (i + 1)
          BY <4>0, Zenon DEF KeepsLatest
        <4>. QED BY <1>0, <2>1, <3>0, <4>1, <4>2
      <3>. QED BY <3>1, <3>2, Zenon
    <2>5. r.count = IF n + 1 < JournalSize THEN n + 1 ELSE JournalSize
      BY <1>0, <2>1
    <2>6. ~(r.count < JournalSize)
      BY <1>0, <2>1
    <2>. HIDE DEF r
    <2>7. KeepsLatest(r, n + 1)
      BY <2>4, <2>5, <2>6, Zenon DEF KeepsLatest
    <2>. QED BY <2>2, <2>7, Zenon
  <1>. QED BY <1>1, <1>2, Zenon

LEMMA ExactIs ==
    ASSUME NEW g, NEW n, NEW s, Len(g) = n, n <= s, n >= JournalSize \/ n = s,
           g = [i \in 1..n |-> s - n + i]
    PROVE  Exact(g, s)
  BY Zenon DEF Exact

(* The replay is exact ...                                                 *)
LEMMA SnapshotExact ==
    ASSUME NEW j \in Rings, NEW n \in Nat, KeepsLatest(j, n)
    PROVE  Exact(Snapshot(j), n)
  <1>0. JournalSize \in Nat \ {0} /\ j.count \in 0..JournalSize
    BY JournalAssumption, Zenon DEF Rings, JournalAssumption
  <1>1. Snapshot(j) \in Seq(0..MaxEvents) /\ Len(Snapshot(j)) = j.count
    BY <1>0, ReplaysEvents DEF Snapshot
  <1>2. ASSUME NEW i \in 1..j.count PROVE j.buf[(j.start + i - 1) % JournalSize] = n - j.count + i
    <2>1. Slot(j, i) = (j.start + i - 1) % JournalSize
      BY <1>0, SlotIsMod
    <2>. QED BY <2>1, Zenon DEF KeepsLatest
  <1>3. Snapshot(j) = [i \in 1..j.count |-> n - j.count + i]
    BY <1>2, Zenon DEF Snapshot
  <1>4. j.count <= n /\ (j.count >= JournalSize \/ j.count = n)
    BY <1>0 DEF KeepsLatest
  <1>. QED BY <1>1, <1>3, <1>4, ExactIs, Zenon

(* ... and stays so with every event handed on.                            *)
LEMMA AppendExact ==
    ASSUME NEW g \in Seq(0..MaxEvents), NEW s \in Nat, Exact(g, s)
    PROVE  Exact(Append(g, s + 1), s + 1)
  <1>. DEFINE n == Len(g)
  <1>a. n <= s /\ (n >= JournalSize \/ n = s) /\ g = [i \in 1..n |-> s - n + i]
    BY Zenon DEF Exact
  <1>b. n \in Nat
    BY LenProperties, Zenon
  <1>c. g \in Seq(Nat)
    <2>1. 0..MaxEvents \subseteq Nat
      BY EventsAssumption DEF EventsAssumption
    <2>. QED BY <2>1, SeqMonotonic, Zenon
  <1>. HIDE DEF n
  <1>0. n \in Nat /\ n <= s /\ JournalSize \in Nat /\ (n >= JournalSize \/ n = s)
    BY <1>a, <1>b, JournalAssumption, Zenon DEF JournalAssumption
  <1>1. \A i \in 1..n : g[i] = s - n + i
    BY <1>a, Zenon
  <1>. DEFINE h == [i \in 1..n + 1 |-> (s + 1) - (n + 1) + i]
  <1>2. /\ Append(g, s + 1) \in Seq(Nat) /\ Len(Append(g, s + 1)) = n + 1
        /\ \A i \in 1..n : Append(g, s + 1)[i] = g[i]
        /\ Append(g, s + 1)[n + 1] = s + 1
    BY <1>c, AppendProperties DEF n
  <1>3. h \in Seq(Nat) /\ Len(h) = n + 1
    BY <1>0
  <1>4. ASSUME NEW i \in 1..n + 1 PROVE Append(g, s + 1)[i] = h[i]
    <2>1. CASE i = n + 1
      BY <1>0, <1>2, <2>1
    <2>2. CASE i # n + 1
      <3>1. i \in 1..n
        BY <1>0, <2>2
      <3>. QED BY <1>0, <1>1, <1>2, <3>1
    <2>. QED BY <2>1, <2>2, Zenon
  <1>5. Append(g, s + 1) = h
    <2>. HIDE DEF h
    <2>. QED BY <1>2, <1>3, <1>4, SeqEqual, Zenon
  <1>6. n + 1 <= s + 1 /\ (n + 1 >= JournalSize \/ n + 1 = s + 1)
    BY <1>0
  <1>. QED BY <1>2, <1>5, <1>6, ExactIs, Zenon

(* A viewer that leaves takes its only place with it.                      *)
LEMMA WithoutPlaces ==
    ASSUME NEW s \in Seq(Viewers), NEW v \in Viewers,
           \E k \in 1..Len(s) : s[k] = v,
           \A i, k \in 1..Len(s) : s[i] = s[k] => i = k
    PROVE  /\ \A k \in 1..Len(Without(s, v)) :
                 Without(s, v)[k] # v /\ \E m \in 1..Len(s) : s[m] = Without(s, v)[k]
           /\ \A i, k \in 1..Len(Without(s, v)) : Without(s, v)[i] = Without(s, v)[k] => i = k
  <1>. DEFINE i0 == CHOOSE k \in 1..Len(s) : s[k] = v
              r == [k \in 1..Len(s) - 1 |-> IF k < i0 THEN s[k] ELSE s[k + 1]]
              m(k) == IF k < i0 THEN k ELSE k + 1
  <1>1. i0 \in 1..Len(s) /\ s[i0] = v
    OBVIOUS
  <1>2. Without(s, v) = r
    BY Zenon DEF Without
  <1>. HIDE DEF i0
  <1>3. Len(s) \in Nat /\ Len(s) - 1 \in Nat
    BY <1>1
  <1>4. Len(r) = Len(s) - 1
    BY <1>1, <1>3
  <1>5. ASSUME NEW k \in 1..Len(s) - 1 PROVE m(k) \in 1..Len(s) /\ m(k) # i0 /\ r[k] = s[m(k)]
    BY <1>1, <1>3
  <1>6. ASSUME NEW i \in 1..Len(s) - 1, NEW k \in 1..Len(s) - 1, m(i) = m(k) PROVE i = k
    BY <1>1, <1>3, <1>6
  <1>. HIDE DEF r, m
  <1>7. ASSUME NEW k \in 1..Len(r) PROVE r[k] # v /\ \E n \in 1..Len(s) : s[n] = r[k]
    <2>1. k \in 1..Len(s) - 1
      BY <1>4, Zenon
    <2>2. m(k) \in 1..Len(s) /\ m(k) # i0 /\ r[k] = s[m(k)]
      BY <1>5, <2>1, Zenon
    <2>. QED BY <1>1, <2>2, Zenon
  <1>8. ASSUME NEW i \in 1..Len(r), NEW k \in 1..Len(r), r[i] = r[k] PROVE i = k
    <2>1. i \in 1..Len(s) - 1 /\ k \in 1..Len(s) - 1
      BY <1>4, Zenon
    <2>2. m(i) \in 1..Len(s) /\ m(k) \in 1..Len(s) /\ s[m(i)] = s[m(k)]
      BY <1>5, <1>8, <2>1, Zenon
    <2>3. m(i) = m(k)
      BY <2>2, Zenon
    <2>. QED BY <1>6, <2>1, <2>3, Zenon
  <1>. QED BY <1>2, <1>7, <1>8, Zenon

LEMMA PlacesStay ==
    ASSUME TypeInv, PlacesInv, order' = order,
           \A w \in Viewers : pc[w] = "watching" => pc'[w] = "watching" /\ at'[w] = at[w]
    PROVE  PlacesInv'
  <1>. SUFFICES ASSUME NEW t \in Turns, NEW i \in 1..Len(order[t])
                PROVE  /\ pc'[order[t][i]] = "watching" /\ at'[order[t][i]] = t
                       /\ \A k \in 1..Len(order[t]) : order[t][i] = order[t][k] => i = k
    BY DEF PlacesInv
  <1>1. order[t] \in Seq(Viewers)
    BY Zenon DEF TypeInv
  <1>2. order[t][i] \in Viewers
    BY <1>1, ElementOfSeq, Zenon
  <1>. QED BY <1>2, Zenon DEF PlacesInv

LEMMA PlacesAttach ==
    ASSUME TypeInv, HoldersInv, PlacesInv, NEW v \in Viewers, pc[v] \in {"first", "joining"},
           order' = [order EXCEPT ![at[v]] = Append(order[at[v]], v)],
           pc' = [pc EXCEPT ![v] = "watching"], at' = at
    PROVE  PlacesInv'
  <1>. DEFINE a == at[v]
              s == order[a]
  <1>1. a \in Turns /\ s \in Seq(Viewers) /\ order' = [order EXCEPT ![a] = Append(s, v)]
    BY Zenon DEF TypeInv, HoldersInv
  <1>2. ASSUME NEW t \in Turns, NEW i \in 1..Len(order[t])
        PROVE  /\ order[t][i] \in Viewers /\ order[t][i] # v
               /\ pc'[order[t][i]] = "watching" /\ at'[order[t][i]] = t
    <2>1. order[t] \in Seq(Viewers)
      BY Zenon DEF TypeInv
    <2>2. order[t][i] \in Viewers
      BY <2>1, ElementOfSeq, Zenon
    <2>3. pc[order[t][i]] = "watching" /\ at[order[t][i]] = t
      BY Zenon DEF PlacesInv
    <2>. QED BY <2>2, <2>3 DEF TypeInv
  <1>3. at'[v] = a /\ pc'[v] = "watching"
    BY Zenon DEF TypeInv
  <1>. HIDE DEF a
  <1>4. ASSUME NEW t \in Turns, t # a PROVE order'[t] = order[t]
    BY <1>1, <1>4 DEF TypeInv
  <1>5. order'[a] = Append(s, v)
    BY <1>1, Zenon DEF TypeInv
  <1>. HIDE DEF s
  <1>6. /\ Len(Append(s, v)) = Len(s) + 1 /\ Len(s) \in Nat
        /\ \A i \in 1..Len(s) : Append(s, v)[i] = s[i]
        /\ Append(s, v)[Len(s) + 1] = v
    BY <1>1, AppendProperties, LenProperties
  <1>7. \A i \in 1..Len(s) : s[i] # v /\ pc'[s[i]] = "watching" /\ at'[s[i]] = a
    BY <1>1, <1>2 DEF s
  <1>8. \A i, k \in 1..Len(s) : s[i] = s[k] => i = k
    BY <1>1, Zenon DEF s, PlacesInv
  <1>9. ASSUME NEW i \in 1..Len(s) + 1
        PROVE  /\ pc'[Append(s, v)[i]] = "watching" /\ at'[Append(s, v)[i]] = a
               /\ \A k \in 1..Len(s) + 1 : Append(s, v)[i] = Append(s, v)[k] => i = k
    <2>1. CASE i = Len(s) + 1
      BY <1>3, <1>6, <1>7, <2>1
    <2>2. CASE i # Len(s) + 1
      <3>1. i \in 1..Len(s)
        BY <1>6, <2>2
      <3>2. \A k \in 1..Len(s) + 1 : Append(s, v)[i] = Append(s, v)[k] => i = k
        BY <1>6, <1>7, <1>8, <3>1
      <3>. QED BY <1>6, <1>7, <3>1, <3>2, Zenon
    <2>. QED BY <2>1, <2>2, Zenon
  <1>10. ASSUME NEW t \in Turns, NEW i \in 1..Len(order'[t])
         PROVE  /\ pc'[order'[t][i]] = "watching" /\ at'[order'[t][i]] = t
                /\ \A k \in 1..Len(order'[t]) : order'[t][i] = order'[t][k] => i = k
    <2>1. CASE t = a
      <3>1. order'[t] = Append(s, v)
        BY <1>5, <2>1, Zenon
      <3>2. i \in 1..Len(s) + 1
        BY <1>6, <3>1, Zenon
      <3>3. /\ pc'[Append(s, v)[i]] = "watching" /\ at'[Append(s, v)[i]] = t
            /\ \A k \in 1..Len(s) + 1 : Append(s, v)[i] = Append(s, v)[k] => i = k
        BY <1>9, <2>1, <3>2, Zenon
      <3>4. \A k \in 1..Len(Append(s, v)) : Append(s, v)[i] = Append(s, v)[k] => i = k
        BY <1>6, <3>3, Zenon
      <3>. QED BY <3>1, <3>3, <3>4, Zenon
    <2>2. CASE t # a
      <3>1. order'[t] = order[t]
        BY <1>4, <2>2, Zenon
      <3>2. \A k \in 1..Len(order[t]) : order[t][i] = order[t][k] => i = k
        BY <3>1, Zenon DEF PlacesInv
      <3>3. i \in 1..Len(order[t])
        BY <3>1, Zenon
      <3>4. pc'[order[t][i]] = "watching" /\ at'[order[t][i]] = t
        BY <1>2, <3>3
      <3>. QED BY <3>1, <3>2, <3>4, Zenon
    <2>. QED BY <2>1, <2>2, Zenon
  <1>. QED BY <1>10, Zenon DEF PlacesInv

LEMMA PlacesDetach ==
    ASSUME TypeInv, HoldersInv, FanOutInv, PlacesInv, NEW v \in Viewers, pc[v] = "watching",
           order' = [order EXCEPT ![at[v]] = Without(order[at[v]], v)],
           pc' = [pc EXCEPT ![v] = "gone"], at' = [at EXCEPT ![v] = NoTurn]
    PROVE  PlacesInv'
  <1>. DEFINE a == at[v]
              s == order[a]
              r == Without(s, v)
  <1>1. a \in Turns /\ s \in Seq(Viewers) /\ order' = [order EXCEPT ![a] = r]
    BY Zenon DEF TypeInv, HoldersInv
  <1>2. \E k \in 1..Len(s) : s[k] = v
    BY Zenon DEF FanOutInv, InFanOut
  <1>3. \A i, k \in 1..Len(s) : s[i] = s[k] => i = k
    BY <1>1, Zenon DEF PlacesInv
  <1>4. /\ \A k \in 1..Len(r) : r[k] # v /\ \E m \in 1..Len(s) : s[m] = r[k]
        /\ \A i, k \in 1..Len(r) : r[i] = r[k] => i = k
    BY <1>1, <1>2, <1>3, WithoutPlaces, Zenon
  <1>5. \A w \in Viewers : w # v => pc'[w] = pc[w] /\ at'[w] = at[w]
    BY Zenon DEF TypeInv
  <1>6. ASSUME NEW t \in Turns, NEW i \in 1..Len(order[t])
        PROVE  order[t][i] \in Viewers /\ pc[order[t][i]] = "watching" /\ at[order[t][i]] = t
    <2>1. order[t] \in Seq(Viewers)
      BY Zenon DEF TypeInv
    <2>2. order[t][i] \in Viewers
      BY <2>1, ElementOfSeq, Zenon
    <2>. QED BY <2>2, Zenon DEF PlacesInv
  <1>. HIDE DEF r
  <1>7. ASSUME NEW t \in Turns, NEW i \in 1..Len(order'[t])
        PROVE  /\ pc'[order'[t][i]] = "watching" /\ at'[order'[t][i]] = t
               /\ \A k \in 1..Len(order'[t]) : order'[t][i] = order'[t][k] => i = k
    <2>1. CASE t = a
      <3>1. order'[t] = r
        BY <1>1, <2>1, Zenon DEF TypeInv
      <3>2. PICK m \in 1..Len(s) : s[m] = r[i]
        BY <1>4, <3>1, Zenon
      <3>3. r[i] \in Viewers /\ r[i] # v /\ pc[r[i]] = "watching" /\ at[r[i]] = a
        <4>1. i \in 1..Len(r)
          BY <3>1, Zenon
        <4>2. r[i] # v
          BY <1>4, <4>1, Zenon
        <4>3. s[m] \in Viewers /\ pc[s[m]] = "watching" /\ at[s[m]] = a
          BY <1>1, <1>6, Zenon
        <4>. QED BY <3>2, <4>2, <4>3, Zenon
      <3>4. \A k \in 1..Len(r) : r[i] = r[k] => i = k
        BY <1>4, <3>1, Zenon
      <3>. QED BY <1>5, <2>1, <3>1, <3>3, <3>4, Zenon
    <2>2. CASE t # a
      <3>1. order'[t] = order[t]
        BY <1>1, <2>2, Zenon DEF TypeInv
      <3>2. order[t][i] \in Viewers /\ pc[order[t][i]] = "watching" /\ at[order[t][i]] = t
        BY <1>6, <3>1, Zenon
      <3>3. order[t][i] # v
        BY <2>2, <3>2, Zenon
      <3>4. \A k \in 1..Len(order[t]) : order[t][i] = order[t][k] => i = k
        BY <3>1, Zenon DEF PlacesInv
      <3>. QED BY <1>5, <3>1, <3>2, <3>3, <3>4, Zenon
    <2>. QED BY <2>1, <2>2, Zenon
  <1>. QED BY <1>7, Zenon DEF PlacesInv

LEMMA PlacesKept == IInv /\ PlacesInv /\ [Next]_vars => PlacesInv'
  <1>. SUFFICES ASSUME IInv, PlacesInv, [Next]_vars PROVE PlacesInv'
    OBVIOUS
  <1>. USE DEF registry, turn, viewer
  <1>a. TypeInv /\ HoldersInv /\ FanOutInv
    BY Zenon DEF IInv
  <1>1. ASSUME NEW v \in Viewers, AttachFirst(v) \/ Join(v) PROVE PlacesInv'
    <2>1. at[v] \in Turns
      BY <1>a, <1>1, Zenon DEF AttachFirst, Join, Moves, TypeInv, HoldersInv
    <2>2. /\ pc[v] \in {"first", "joining"} /\ pc' = [pc EXCEPT ![v] = "watching"] /\ at' = at
          /\ order' = [order EXCEPT ![at[v]] = Append(order[at[v]], v)]
      BY <1>1, <2>1, Zenon DEF AttachFirst, Join, Moves, Attach
    <2>. QED BY <1>a, <2>2, PlacesAttach, Zenon
  <1>2. ASSUME NEW v \in Viewers, Detach(v) PROVE PlacesInv'
    <2>1. /\ pc[v] = "watching" /\ pc' = [pc EXCEPT ![v] = "gone"] /\ at' = [at EXCEPT ![v] = NoTurn]
          /\ order' = [order EXCEPT ![at[v]] = Without(order[at[v]], v)]
      BY <1>2, Zenon DEF Detach, Leave, Moves
    <2>. QED BY <1>a, <2>1, PlacesDetach, Zenon
  <1>3. ASSUME NEW v \in Viewers, ViewerStep(v), ~(AttachFirst(v) \/ Join(v) \/ Detach(v))
        PROVE  PlacesInv'
    <2>1. /\ order' = order
          /\ \A w \in Viewers : pc[w] = "watching" => pc'[w] = "watching" /\ at'[w] = at[w]
      BY <1>a, <1>3 DEF ViewerStep, StartRefused, StartJoins, LookUp, StartsTurn, LookFinished,
         CancelHandle, Moves, TypeInv
    <2>. QED BY <1>a, <2>1, PlacesStay, Zenon
  <1>4. ASSUME NEW t \in Turns, TurnStep(t) PROVE UNCHANGED <<order, pc, at>>
    BY <1>4, Zenon DEF TurnStep, Emit, FnReturns, MarkFinished, Deadline, TimerFires, ReapIdle,
       TearCancel, TearRemove, TearUntimer
  <1>5. ASSUME NEW s \in Sessions, Cancel(s) PROVE UNCHANGED <<order, pc, at>>
    BY <1>5, Zenon DEF Cancel
  <1>6. CASE CloseDrains \/ CloseRoot \/ UNCHANGED vars
    BY <1>6, Zenon DEF CloseDrains, CloseRoot, vars, PlacesInv
  <1>7. UNCHANGED <<order, pc, at>> => PlacesInv'
    BY Zenon DEF PlacesInv
  <1>. QED BY <1>1, <1>2, <1>3, <1>4, <1>5, <1>6, <1>7, Zenon DEF Next

(* An event is journaled and handed to whoever has a place: each of those  *)
(* that watch the turn, and nobody else.                                   *)
LEMMA EmitExact ==
    ASSUME TypeInv, HoldersInv, FanOutInv, PlacesInv, EventTypes, StreamInv, NEW t \in Turns, Emit(t)
    PROVE  StreamInv'
  <1>0. seq[t] \in Nat /\ journal[t] \in Rings /\ \A v \in Viewers : got[v] \in Seq(0..MaxEvents)
    BY EventsAssumption DEF EventsAssumption, EventTypes
  <1>1. /\ \A u \in Turns : seq'[u] = IF u = t THEN seq[t] + 1 ELSE seq[u]
        /\ \A u \in Turns : journal'[u] = IF u = t THEN Journaled(journal[t], seq[t] + 1) ELSE journal[u]
        /\ pc' = pc /\ at' = at
    BY Zenon DEF Emit, EventTypes
  <1>2. \A v \in Viewers : got'[v] = IF \E i \in 1..Len(order[t]) : order[t][i] = v
                                    THEN Append(got[v], seq[t] + 1) ELSE got[v]
    BY Zenon DEF Emit
  <1>3. ASSUME NEW u \in Turns PROVE KeepsLatest(journal'[u], seq'[u])
    <2>1. KeepsLatest(journal[u], seq[u])
      BY Zenon DEF StreamInv
    <2>2. CASE u = t
      <3>1. KeepsLatest(Journaled(journal[t], seq[t] + 1), seq[t] + 1)
        BY <1>0, <2>1, <2>2, JournaledLatest, Zenon
      <3>. QED BY <1>1, <2>2, <3>1, Zenon
    <2>3. CASE u # t
      BY <1>1, <2>1, <2>3, Zenon
    <2>. QED BY <2>2, <2>3, Zenon
  <1>4. ASSUME NEW v \in Viewers, pc[v] = "watching" PROVE Exact(got'[v], seq'[at[v]])
    <2>0. at[v] \in Turns /\ Exact(got[v], seq[at[v]])
      BY <1>4, Zenon DEF HoldersInv, StreamInv
    <2>1. CASE at[v] = t
      <3>1. \E i \in 1..Len(order[t]) : order[t][i] = v
        BY <1>4, <2>1, Zenon DEF FanOutInv, InFanOut
      <3>2. got'[v] = Append(got[v], seq[t] + 1) /\ seq'[at[v]] = seq[t] + 1
        BY <1>1, <1>2, <2>1, <3>1, Zenon
      <3>3. Exact(Append(got[v], seq[t] + 1), seq[t] + 1)
        BY <1>0, <2>0, <2>1, AppendExact, Zenon
      <3>. QED BY <3>2, <3>3, Zenon
    <2>2. CASE at[v] # t
      <3>1. ~ \E i \in 1..Len(order[t]) : order[t][i] = v
        BY <2>2 DEF PlacesInv
      <3>2. got'[v] = got[v] /\ seq'[at[v]] = seq[at[v]]
        BY <1>1, <1>2, <2>0, <2>2, <3>1, Zenon
      <3>. QED BY <2>0, <3>2, Zenon
    <2>. QED BY <2>1, <2>2, Zenon
  <1>. QED BY <1>1, <1>3, <1>4, Zenon DEF StreamInv

LEMMA StreamKept == IInv /\ PlacesInv /\ EventTypes /\ StreamInv /\ [Next]_vars => StreamInv'
  <1>. SUFFICES ASSUME IInv, PlacesInv, EventTypes, StreamInv, [Next]_vars PROVE StreamInv'
    OBVIOUS
  <1>. USE DEF registry, turn, viewer
  <1>a. TypeInv /\ HoldersInv /\ FanOutInv
    BY Zenon DEF IInv
  <1>b. CASE /\ UNCHANGED <<seq, journal>>
             /\ \A v \in Viewers : pc'[v] = "watching" =>
                  pc[v] = "watching" /\ at'[v] = at[v] /\ got'[v] = got[v]
    BY <1>b, Zenon DEF StreamInv
  <1>1. ASSUME NEW t \in Turns, Emit(t) PROVE StreamInv'
    BY <1>a, <1>1, EmitExact, Zenon
  <1>2. ASSUME NEW v \in Viewers, AttachFirst(v) \/ Join(v) PROVE StreamInv'
    <2>1. at[v] \in Turns
      BY <1>a, <1>2, Zenon DEF AttachFirst, Join, Moves, TypeInv, HoldersInv
    <2>2. /\ UNCHANGED <<seq, journal, at>>
          /\ \A w \in Viewers : w # v => pc'[w] = pc[w] /\ got'[w] = got[w]
          /\ got'[v] = Snapshot(journal[at[v]])
      BY <1>a, <1>2, ZenonT(30) DEF AttachFirst, Join, Moves, Attach, TypeInv, EventTypes
    <2>3. seq[at[v]] \in Nat /\ journal[at[v]] \in Rings /\ KeepsLatest(journal[at[v]], seq[at[v]])
      BY <2>1, EventsAssumption DEF EventsAssumption, EventTypes, StreamInv
    <2>4. Exact(got'[v], seq'[at'[v]])
      BY <2>2, <2>3, SnapshotExact, Zenon
    <2>. QED BY <2>2, <2>4, Zenon DEF StreamInv
  <1>3. ASSUME NEW v \in Viewers, Detach(v) PROVE StreamInv'
    <2>1. /\ UNCHANGED <<seq, journal>> /\ pc'[v] = "gone"
          /\ \A w \in Viewers : w # v => pc'[w] = pc[w] /\ got'[w] = got[w] /\ at'[w] = at[w]
      BY <1>a, <1>3, Zenon DEF Detach, Leave, Moves, TypeInv, EventTypes
    <2>. QED BY <1>b, <2>1, Zenon
  <1>4. ASSUME NEW v \in Viewers, ViewerStep(v), ~(AttachFirst(v) \/ Join(v) \/ Detach(v))
        PROVE  StreamInv'
    <2>1. UNCHANGED <<seq, journal, got>>
      BY <1>4, Zenon DEF ViewerStep, StartRefused, StartJoins, LookUp, StartsTurn, LookFinished, CancelHandle
    <2>2. \A w \in Viewers : pc'[w] = "watching" => pc[w] = "watching" /\ at'[w] = at[w]
      BY <1>a, <1>4 DEF ViewerStep, StartRefused, StartJoins, LookUp, StartsTurn, LookFinished,
         CancelHandle, Moves, TypeInv
    <2>. QED BY <1>b, <2>1, <2>2, Zenon
  <1>5. ASSUME NEW t \in Turns, TurnStep(t), ~Emit(t) PROVE UNCHANGED <<seq, journal, got, pc, at>>
    BY <1>5, Zenon DEF TurnStep, FnReturns, MarkFinished, Deadline, TimerFires, ReapIdle,
       TearCancel, TearRemove, TearUntimer
  <1>6. ASSUME NEW s \in Sessions, Cancel(s) PROVE UNCHANGED <<seq, journal, got, pc, at>>
    BY <1>6, Zenon DEF Cancel
  <1>7. CASE CloseDrains \/ CloseRoot \/ UNCHANGED vars
    BY <1>7, Zenon DEF CloseDrains, CloseRoot, vars, StreamInv
  <1>8. UNCHANGED <<seq, journal, got, pc, at>> => StreamInv'
    BY Zenon DEF StreamInv
  <1>. QED BY <1>1, <1>2, <1>3, <1>4, <1>5, <1>6, <1>7, <1>8, Zenon DEF Next

(* For any journal and any number of viewers that come and go: whoever     *)
(* watches a turn has been delivered its latest events exactly once and in *)
(* order, the replayed backlog and the live events together (journal.go    *)
(* append and snapshot, turn.go emit, attach and detach).                  *)
THEOREM ViewersSeeTheStream == Spec => []StreamExact
  <1>1. Init => EventTypes /\ PlacesInv /\ StreamInv
    <2>. SUFFICES ASSUME Init PROVE EventTypes /\ PlacesInv /\ StreamInv
      OBVIOUS
    <2>1. EventTypes
      BY JournalAssumption, EventsAssumption
      DEF Init, EventTypes, Rings, NoEvents, JournalAssumption, EventsAssumption
    <2>2. PlacesInv
      BY DEF Init, PlacesInv
    <2>3. \A t \in Turns : KeepsLatest(journal[t], seq[t])
      BY JournalAssumption DEF Init, NoEvents, KeepsLatest, JournalAssumption
    <2>. QED BY <2>1, <2>2, <2>3, Zenon DEF Init, StreamInv
  <1>2. StreamInv => StreamExact
    BY Zenon DEF StreamInv, StreamExact, Exact
  <1>3. IInv => TypeInv /\ HoldersInv
    BY Zenon DEF IInv
  <1>. QED BY <1>1, <1>2, <1>3, EventsKept, PlacesKept, StreamKept, Always, PTL DEF Spec

-----------------------------------------------------------------------------
(* Nobody is forgotten.  A started turn that is not being torn down is     *)
(* about to be launched, is watched, runs on its grace timer, or ended     *)
(* unwatched and is about to tear itself down; a turn whose teardown is    *)
(* past removeSession is registered nowhere.                               *)
Cared(t) ==
    \/ run[t] = "registered" /\ \E v \in Viewers : pc[v] = "first" /\ at[v] = t
    \/ \E v \in Viewers : pc[v] = "watching" /\ at[v] = t
    \/ run[t] = "running" /\ grace[t] = "armed"
    \/ run[t] = "endingAlone"

NobodyForgotten ==
    \A t \in Turns :
        /\ run[t] # "free" /\ reap[t] = "no" => Cared(t)
        /\ reap[t] \in {"untimer", "done"} => sessions[sid[t]] # t

(* The invariant speaks of the fan-out in place of the viewers, and adds   *)
(* that nothing was decided about a turn before it was started.            *)
Watched(t) ==
    \/ order[t] # <<>>
    \/ run[t] = "running" /\ grace[t] = "armed"
    \/ run[t] = "endingAlone"

FreshInv == \A t \in Turns : run[t] = "free" => reap[t] = "no" /\ grace[t] = "none"
LaunchInv ==
    \A t \in Turns : run[t] = "registered" => \E v \in Viewers : pc[v] = "first" /\ at[v] = t
CareInv ==
    \A t \in Turns : run[t] \notin {"free", "registered"} /\ reap[t] = "no" => Watched(t)
GoneInv == \A t \in Turns : reap[t] \in {"untimer", "done"} => sessions[sid[t]] # t

(* Teardown is decided on started turns only, and never undecided.         *)
LEMMA CondemnMoves ==
    ASSUME TypeInv, NEW D, Condemn(D)
    PROVE  \A t \in Turns :
             /\ reap'[t] = "no" => reap[t] = "no" /\ t \notin D
             /\ reap[t] = "no" /\ t \notin D => reap'[t] = "no"
             /\ reap'[t] \in {"untimer", "done"} => reap'[t] = reap[t]
  <1> SUFFICES ASSUME NEW t \in Turns
      PROVE  /\ reap'[t] = "no" => reap[t] = "no" /\ t \notin D
             /\ reap[t] = "no" /\ t \notin D => reap'[t] = "no"
             /\ reap'[t] \in {"untimer", "done"} => reap'[t] = reap[t]
    OBVIOUS
  <1>1. reap'[t] = IF t \in D /\ reap[t] = "no" THEN "due" ELSE reap[t]
    BY Zenon DEF Condemn
  <1> QED BY <1>1, Zenon

LEMMA FreshKept == IInv /\ FreshInv /\ [Next]_vars => FreshInv'
  <1> SUFFICES ASSUME IInv, FreshInv, [Next]_vars, NEW t \in Turns, run'[t] = "free"
               PROVE  reap'[t] = "no" /\ grace'[t] = "none"
    BY Zenon DEF FreshInv
  <1>a. TypeInv /\ RegistryInv /\ HoldersInv
    BY Zenon DEF IInv
  <1>0. /\ run \in [Turns -> Runs] /\ reap \in [Turns -> Reaps]
        /\ grace \in [Turns -> {"none", "armed", "fired"}]
        /\ sessions \in [Sessions -> Turns \cup {NoTurn}]
    BY <1>a, Zenon DEF TypeInv
  <1>1. run[t] = "free" => reap[t] = "no" /\ grace[t] = "none"
    BY Zenon DEF FreshInv
  <1>2. ASSUME NEW D, Condemn(D), t \notin D, run[t] = "free" PROVE reap'[t] = "no"
    BY <1>a, <1>1, <1>2, CondemnMoves, Zenon
  <1>3. ASSUME NEW v \in Viewers, ViewerStep(v) PROVE reap'[t] = "no" /\ grace'[t] = "none"
    <2>1. CASE StartRefused(v) \/ LookFinished(v) \/ \E s \in Sessions : StartJoins(v, s) \/ LookUp(v, s)
      BY <1>1, <2>1, Zenon DEF StartRefused, LookFinished, StartJoins, LookUp, turn
    <2>2. ASSUME NEW s \in Sessions, NEW u \in Turns, StartsTurn(v, s, u)
          PROVE  reap'[t] = "no" /\ grace'[t] = "none"
      <3>1. run' = [run EXCEPT ![u] = "registered"] /\ reap' = reap /\ grace' = grace
        BY <2>2, Zenon DEF StartsTurn
      <3>2. t # u
        BY <1>0, <3>1, Zenon
      <3> QED BY <1>0, <1>1, <3>1, <3>2, Zenon
    <2>3. CASE AttachFirst(v) \/ Join(v)
      <3>1. at[v] \in Turns /\ run[at[v]] # "free" /\ pc[v] \in {"first", "joining"}
        BY <1>a, <2>3, Zenon DEF AttachFirst, Join, Moves, HoldersInv
      <3>2. grace' = [grace EXCEPT ![at[v]] = "none"] /\ reap' = reap
        BY <2>3, Zenon DEF AttachFirst, Join, Attach
      <3>3. run[t] = "free"
        <4>1. CASE AttachFirst(v)
          <5>1. run' = [run EXCEPT ![at[v]] = "running"]
            BY <4>1, Zenon DEF AttachFirst
          <5> QED BY <1>0, <5>1, Zenon
        <4>2. CASE Join(v)
          BY <4>2, Zenon DEF Join
        <4> QED BY <2>3, <4>1, <4>2, Zenon
      <3> QED BY <1>0, <1>1, <3>2, <3>3, Zenon
    <2>4. CASE Detach(v)
      <3>1. pc[v] = "watching" /\ run' = run
        BY <2>4, Zenon DEF Detach, Leave, Moves
      <3>2. at[v] \in Turns /\ run[at[v]] # "free"
        BY <1>a, <3>1, Zenon DEF HoldersInv
      <3>3. t # at[v]
        BY <3>1, <3>2, Zenon
      <3>4. PICK x : grace' = [grace EXCEPT ![at[v]] = x]
        BY <2>4, Zenon DEF Detach, Leave
      <3>5. PICK D : Condemn(D) /\ t \notin D
        BY <2>4, <3>3 DEF Detach, Leave
      <3> QED BY <1>0, <1>1, <1>2, <3>1, <3>3, <3>4, <3>5, Zenon
    <2>5. CASE CancelHandle(v)
      <3>1. pc[v] = "watching" /\ run' = run /\ grace' = grace /\ Condemn({at[v]})
        BY <2>5, Zenon DEF CancelHandle, turn
      <3>2. at[v] \in Turns /\ run[at[v]] # "free"
        BY <1>a, <3>1, Zenon DEF HoldersInv
      <3>3. t \notin {at[v]}
        BY <3>1, <3>2, Zenon
      <3> QED BY <1>1, <1>2, <3>1, <3>3, Zenon
    <2> QED BY <1>3, <2>1, <2>2, <2>3, <2>4, <2>5, Zenon DEF ViewerStep
  <1>4. ASSUME NEW u \in Turns, TurnStep(u) PROVE reap'[t] = "no" /\ grace'[t] = "none"
    <2>1. CASE Emit(u) \/ Deadline(u)
      BY <1>1, <2>1, Zenon DEF Emit, Deadline
    <2>2. CASE FnReturns(u)
      <3>1. /\ run' = [run EXCEPT ![u] = IF order[u] = <<>> THEN "endingAlone" ELSE "ending"]
            /\ grace' = [grace EXCEPT ![u] = "none"] /\ reap' = reap
        BY <2>2, Zenon DEF FnReturns
      <3>2. run[t] = "free"
        BY <1>0, <3>1, Zenon
      <3> QED BY <1>0, <1>1, <3>1, <3>2, Zenon
    <2>3. CASE MarkFinished(u)
      <3>1. run' = [run EXCEPT ![u] = "over"] /\ grace' = grace
        BY <2>3, Zenon DEF MarkFinished
      <3>2. t # u /\ run[t] = "free"
        BY <1>0, <3>1, Zenon
      <3>3. PICK D : Condemn(D) /\ t \notin D
        BY <2>3, <3>2 DEF MarkFinished
      <3> QED BY <1>1, <1>2, <3>1, <3>2, <3>3, Zenon
    <2>4. CASE TimerFires(u)
      <3>1. run' = run /\ grace[u] = "armed" /\ grace' = [grace EXCEPT ![u] = "fired"] /\ Condemn({u})
        BY <2>4, Zenon DEF TimerFires
      <3>2. t \notin {u}
        BY <1>1, <3>1, Zenon
      <3> QED BY <1>0, <1>1, <1>2, <3>1, <3>2, Zenon
    <2>5. CASE ReapIdle(u)
      <3>1. run' = run /\ grace' = grace /\ run[u] # "free" /\ Condemn({u})
        BY <2>5, Zenon DEF ReapIdle, turn
      <3>2. t \notin {u}
        BY <3>1, Zenon
      <3> QED BY <1>1, <1>2, <3>1, <3>2, Zenon
    <2>6. CASE TearCancel(u) \/ TearRemove(u) \/ TearUntimer(u)
      <3>1. run' = run /\ reap[u] # "no" /\ \E x : reap' = [reap EXCEPT ![u] = x]
        BY <2>6, Zenon DEF TearCancel, TearRemove, TearUntimer, turn
      <3>2. grace' = grace \/ grace' = [grace EXCEPT ![u] = "none"]
        BY <2>6, Zenon DEF TearCancel, TearRemove, TearUntimer, turn
      <3>3. t # u
        BY <1>1, <3>1, Zenon
      <3> QED BY <1>0, <1>1, <3>1, <3>2, <3>3, Zenon
    <2> QED BY <1>4, <2>1, <2>2, <2>3, <2>4, <2>5, <2>6, Zenon DEF TurnStep
  <1>5. ASSUME NEW s \in Sessions, Cancel(s) PROVE reap'[t] = "no" /\ grace'[t] = "none"
    <2>1. run' = run /\ grace' = grace /\ Condemn({sessions[s]}) /\ sessions[s] # NoTurn
      BY <1>5, Zenon DEF Cancel, turn
    <2>2. t \notin {sessions[s]}
      BY <1>a, <2>1, Zenon DEF RegistryInv
    <2> QED BY <1>1, <1>2, <2>1, <2>2, Zenon
  <1>6. CASE CloseDrains
    <2>1. run' = run /\ grace' = grace /\ Condemn(Registered)
      BY <1>6, Zenon DEF CloseDrains, turn
    <2>2. t \notin Registered
      BY <1>a, <2>1, Zenon DEF RegistryInv, Registered
    <2> QED BY <1>1, <1>2, <2>1, <2>2, Zenon
  <1>7. CASE CloseRoot \/ UNCHANGED vars
    BY <1>1, <1>7, Zenon DEF CloseRoot, vars, turn
  <1> QED BY <1>3, <1>4, <1>5, <1>6, <1>7, Zenon DEF Next

(* The viewer that registered a turn is there until it launches it.        *)
LEMMA LaunchKept == IInv /\ LaunchInv /\ [Next]_vars => LaunchInv'
  <1> SUFFICES ASSUME IInv, LaunchInv, [Next]_vars, NEW t \in Turns, run'[t] = "registered"
               PROVE  \E w \in Viewers : pc'[w] = "first" /\ at'[w] = t
    BY Zenon DEF LaunchInv
  <1>0. /\ run \in [Turns -> Runs] /\ at \in [Viewers -> Turns \cup {NoTurn}]
        /\ pc \in [Viewers -> {"idle", "looked", "joining", "first", "watching", "gone"}]
    BY Zenon DEF IInv, TypeInv
  <1>1. run[t] = "registered" => \E w \in Viewers : pc[w] = "first" /\ at[w] = t
    BY Zenon DEF LaunchInv
  <1>2. ASSUME run[t] = "registered", NEW v \in Viewers, pc[v] # "first",
               \E x : pc' = [pc EXCEPT ![v] = x], \E x : at' = [at EXCEPT ![v] = x]
        PROVE  \E w \in Viewers : pc'[w] = "first" /\ at'[w] = t
    <2>1. PICK w \in Viewers : pc[w] = "first" /\ at[w] = t
      BY <1>1, <1>2, Zenon
    <2>2. w # v
      BY <1>2, <2>1, Zenon
    <2>3. pc'[w] = pc[w] /\ at'[w] = at[w]
      BY <1>0, <1>2, <2>2, Zenon
    <2> QED BY <2>1, <2>3, Zenon
  <1>3. ASSUME UNCHANGED <<pc, at>>, run[t] = "registered"
        PROVE  \E w \in Viewers : pc'[w] = "first" /\ at'[w] = t
    BY <1>1, <1>3, Zenon
  <1>4. ASSUME NEW v \in Viewers, ViewerStep(v)
        PROVE  \E w \in Viewers : pc'[w] = "first" /\ at'[w] = t
    <2>1. CASE StartRefused(v) \/ LookFinished(v) \/ Join(v)
               \/ \E s \in Sessions : StartJoins(v, s) \/ LookUp(v, s)
      <3>1. run' = run /\ pc[v] # "first" /\ \E x : pc' = [pc EXCEPT ![v] = x]
        BY <2>1, Zenon DEF StartRefused, LookFinished, Join, StartJoins, LookUp, Moves, turn
      <3>2. at' = at \/ \E x : at' = [at EXCEPT ![v] = x]
        BY <2>1, Zenon DEF StartRefused, LookFinished, Join, StartJoins, LookUp
      <3>3. at = [at EXCEPT ![v] = at[v]]
        BY <1>0, Zenon
      <3> QED BY <1>2, <3>1, <3>2, <3>3, Zenon
    <2>2. ASSUME NEW s \in Sessions, NEW u \in Turns, StartsTurn(v, s, u)
          PROVE  \E w \in Viewers : pc'[w] = "first" /\ at'[w] = t
      <3>1. /\ run' = [run EXCEPT ![u] = "registered"] /\ pc[v] = "idle"
            /\ pc' = [pc EXCEPT ![v] = "first"] /\ at' = [at EXCEPT ![v] = u]
        BY <2>2, Zenon DEF StartsTurn, Moves
      <3>2. CASE t = u
        BY <1>0, <3>1, <3>2, Zenon
      <3>3. CASE t # u
        <4>1. run[t] = "registered"
          BY <1>0, <3>1, <3>3, Zenon
        <4>2. pc[v] # "first"
          BY <3>1, Zenon
        <4> QED BY <1>2, <3>1, <4>1, <4>2, Zenon
      <3> QED BY <3>2, <3>3, Zenon
    <2>3. CASE AttachFirst(v)
      <3>1. /\ run' = [run EXCEPT ![at[v]] = "running"] /\ at' = at
            /\ pc' = [pc EXCEPT ![v] = "watching"]
        BY <2>3, Zenon DEF AttachFirst, Moves
      <3>2. run[t] = "registered" /\ t # at[v]
        BY <1>0, <3>1, Zenon
      <3>3. PICK w \in Viewers : pc[w] = "first" /\ at[w] = t
        BY <1>1, <3>2, Zenon
      <3>4. w # v
        BY <3>2, <3>3, Zenon
      <3> QED BY <1>0, <3>1, <3>3, <3>4, Zenon
    <2>4. CASE Detach(v)
      <3>1. /\ run' = run /\ pc[v] = "watching" /\ pc' = [pc EXCEPT ![v] = "gone"]
            /\ at' = [at EXCEPT ![v] = NoTurn]
        BY <2>4, Zenon DEF Detach, Leave, Moves
      <3>2. pc[v] # "first"
        BY <3>1, Zenon
      <3> QED BY <1>2, <3>1, <3>2, Zenon
    <2>5. CASE CancelHandle(v)
      BY <1>3, <2>5, Zenon DEF CancelHandle, turn, viewer
    <2> QED BY <1>4, <2>1, <2>2, <2>3, <2>4, <2>5, Zenon DEF ViewerStep
  <1>5. ASSUME NEW u \in Turns, TurnStep(u) PROVE UNCHANGED <<pc, at>> /\ run[t] = "registered"
    <2>1. CASE FnReturns(u) \/ MarkFinished(u)
      <3>1. UNCHANGED <<pc, at>> /\ \E x \in {"ending", "endingAlone", "over"} : run' = [run EXCEPT ![u] = x]
        BY <2>1, Zenon DEF FnReturns, MarkFinished, viewer
      <3> QED BY <1>0, <3>1, Zenon
    <2>2. CASE ~(FnReturns(u) \/ MarkFinished(u))
      <3>1. UNCHANGED <<pc, at, run>>
        BY <1>5, <2>2, Zenon DEF TurnStep, Emit, Deadline, TimerFires, ReapIdle, TearCancel, TearRemove,
           TearUntimer, turn, viewer
      <3> QED BY <3>1, Zenon
    <2> QED BY <2>1, <2>2, Zenon
  <1>6. ASSUME NEW s \in Sessions, Cancel(s) PROVE UNCHANGED <<pc, at>> /\ run[t] = "registered"
    BY <1>6, Zenon DEF Cancel, turn, viewer
  <1>7. CASE CloseDrains \/ CloseRoot \/ UNCHANGED vars
    BY <1>3, <1>7, Zenon DEF CloseDrains, CloseRoot, vars, turn, viewer
  <1> QED BY <1>3, <1>4, <1>5, <1>6, <1>7, Zenon DEF Next

(* A torn-down turn is registered nowhere: only a fresh turn is ever       *)
(* registered (registry.go Start and removeSession).                       *)
LEMMA GoneKept == IInv /\ FreshInv /\ GoneInv /\ [Next]_vars => GoneInv'
  <1> SUFFICES ASSUME IInv, FreshInv, GoneInv, [Next]_vars, NEW t \in Turns,
                      reap'[t] \in {"untimer", "done"}
               PROVE  sessions'[sid'[t]] # t
    BY Zenon DEF GoneInv
  <1>0. /\ TypeInv /\ t # NoTurn /\ reap \in [Turns -> Reaps] /\ sid[t] \in Sessions
        /\ sessions \in [Sessions -> Turns \cup {NoTurn}]
    BY NoTurnAssumption, Zenon DEF IInv, TypeInv, NoTurnAssumption
  <1>1. reap[t] \in {"untimer", "done"} => sessions[sid[t]] # t
    BY Zenon DEF GoneInv
  <1>2. ASSUME NEW D, Condemn(D) PROVE reap[t] \in {"untimer", "done"}
    BY <1>0, <1>2, CondemnMoves, Zenon
  <1>3. ASSUME NEW v \in Viewers, ViewerStep(v) PROVE sessions'[sid'[t]] # t
    <2>1. ASSUME NEW s \in Sessions, NEW u \in Turns, StartsTurn(v, s, u)
          PROVE  sessions'[sid'[t]] # t
      <3>1. /\ reap' = reap /\ sid' = sid /\ sessions' = [sessions EXCEPT ![s] = u]
            /\ run[u] = "free"
        BY <2>1, Zenon DEF StartsTurn
      <3>2. reap[u] = "no"
        BY <3>1, Zenon DEF FreshInv
      <3>3. t # u
        BY <3>1, <3>2, Zenon
      <3> QED BY <1>0, <1>1, <3>1, <3>3, Zenon
    <2>2. CASE Detach(v) \/ CancelHandle(v)
      <3>1. sessions' = sessions /\ sid' = sid /\ \E D : Condemn(D)
        BY <2>2, Zenon DEF Detach, Leave, CancelHandle, registry, turn
      <3> QED BY <1>1, <1>2, <3>1, Zenon
    <2>3. CASE StartRefused(v) \/ LookFinished(v) \/ Join(v) \/ AttachFirst(v)
               \/ \E s \in Sessions : StartJoins(v, s) \/ LookUp(v, s)
      <3>1. sessions' = sessions /\ sid' = sid /\ reap' = reap
        BY <2>3, Zenon DEF StartRefused, LookFinished, Join, AttachFirst, StartJoins, LookUp, registry, turn
      <3> QED BY <1>1, <3>1, Zenon
    <2> QED BY <1>3, <2>1, <2>2, <2>3, Zenon DEF ViewerStep
  <1>4. ASSUME NEW u \in Turns, TurnStep(u) PROVE sessions'[sid'[t]] # t
    <2>1. CASE Emit(u) \/ FnReturns(u) \/ Deadline(u)
      <3>1. sessions' = sessions /\ sid' = sid /\ reap' = reap
        BY <2>1, Zenon DEF Emit, FnReturns, Deadline, registry
      <3> QED BY <1>1, <3>1, Zenon
    <2>2. CASE MarkFinished(u) \/ TimerFires(u) \/ ReapIdle(u)
      <3>1. sessions' = sessions /\ sid' = sid /\ \E D : Condemn(D)
        BY <2>2, Zenon DEF MarkFinished, TimerFires, ReapIdle, registry, turn
      <3> QED BY <1>1, <1>2, <3>1, Zenon
    <2>3. CASE TearCancel(u)
      <3>1. sessions' = sessions /\ sid' = sid /\ reap' = [reap EXCEPT ![u] = "remove"]
        BY <2>3, Zenon DEF TearCancel, registry
      <3>2. reap[t] \in {"untimer", "done"}
        BY <1>0, <3>1, Zenon
      <3> QED BY <1>1, <3>1, <3>2, Zenon
    <2>4. CASE TearRemove(u)
      <3>1. /\ sid' = sid /\ reap' = [reap EXCEPT ![u] = "untimer"]
            /\ sessions' = [sessions EXCEPT ![sid[u]] = IF sessions[sid[u]] = u THEN NoTurn ELSE sessions[sid[u]]]
        BY <2>4, Zenon DEF TearRemove, turn
      <3>2. CASE t = u
        BY <1>0, <3>1, <3>2, Zenon
      <3>3. CASE t # u
        <4>1. sessions[sid[t]] # t
          BY <1>0, <1>1, <3>1, <3>3, Zenon
        <4> QED BY <1>0, <3>1, <4>1, Zenon
      <3> QED BY <3>2, <3>3, Zenon
    <2>5. CASE TearUntimer(u)
      <3>1. /\ sessions' = sessions /\ sid' = sid /\ reap[u] = "untimer"
            /\ reap' = [reap EXCEPT ![u] = "done"]
        BY <2>5, Zenon DEF TearUntimer, registry
      <3>2. reap[t] \in {"untimer", "done"}
        BY <1>0, <3>1, Zenon
      <3> QED BY <1>1, <3>1, <3>2, Zenon
    <2> QED BY <1>4, <2>1, <2>2, <2>3, <2>4, <2>5, Zenon DEF TurnStep
  <1>5. ASSUME NEW s \in Sessions, Cancel(s) PROVE sessions'[sid'[t]] # t
    <2>1. sessions' = sessions /\ sid' = sid /\ \E D : Condemn(D)
      BY <1>5, Zenon DEF Cancel, registry, turn
    <2> QED BY <1>1, <1>2, <2>1, Zenon
  <1>6. CASE CloseDrains
    <2>1. sid' = sid /\ sessions' = [s \in Sessions |-> NoTurn]
      BY <1>6, Zenon DEF CloseDrains, turn
    <2> QED BY <1>0, <2>1, Zenon
  <1>7. CASE CloseRoot \/ UNCHANGED vars
    <2>1. sessions' = sessions /\ sid' = sid /\ reap' = reap
      BY <1>7, Zenon DEF CloseRoot, vars, registry, turn
    <2> QED BY <1>1, <2>1, Zenon
  <1> QED BY <1>3, <1>4, <1>5, <1>6, <1>7, Zenon DEF Next

(* Whoever leaves a turn, ends it or stops its timer passes the care of it *)
(* on or tears it down (turn.go attach, detach and markFinished).          *)
LEMMA CareKept == IInv /\ CareInv /\ [Next]_vars => CareInv'
  <1> SUFFICES ASSUME IInv, CareInv, [Next]_vars, NEW t \in Turns,
                      run'[t] \notin {"free", "registered"}, reap'[t] = "no"
               PROVE  Watched(t)'
    BY Zenon DEF CareInv
  <1>0. /\ TypeInv /\ HoldersInv
        /\ run \in [Turns -> Runs] /\ reap \in [Turns -> Reaps]
        /\ grace \in [Turns -> {"none", "armed", "fired"}]
        /\ order \in [Turns -> Seq(Viewers)]
    BY Zenon DEF IInv, TypeInv
  <1>1. run[t] \notin {"free", "registered"} /\ reap[t] = "no" => Watched(t)
    BY Zenon DEF CareInv
  <1>2. ASSUME NEW D, Condemn(D) PROVE reap[t] = "no" /\ t \notin D
    BY <1>0, <1>2, CondemnMoves, Zenon
  <1>3. ASSUME run'[t] = run[t], order'[t] = order[t], grace'[t] = grace[t], reap[t] = "no"
        PROVE  Watched(t)'
    BY <1>1, <1>3, Zenon DEF Watched
  <1>4. ASSUME NEW v \in Viewers, ViewerStep(v) PROVE Watched(t)'
    <2>1. CASE StartRefused(v) \/ LookFinished(v) \/ \E s \in Sessions : StartJoins(v, s) \/ LookUp(v, s)
      <3>1. run' = run /\ order' = order /\ grace' = grace /\ reap' = reap
        BY <2>1, Zenon DEF StartRefused, LookFinished, StartJoins, LookUp, turn
      <3> QED BY <1>3, <3>1, Zenon
    <2>2. ASSUME NEW s \in Sessions, NEW u \in Turns, StartsTurn(v, s, u) PROVE Watched(t)'
      <3>1. /\ run' = [run EXCEPT ![u] = "registered"]
            /\ order' = order /\ grace' = grace /\ reap' = reap
        BY <2>2, Zenon DEF StartsTurn
      <3>2. t # u
        BY <1>0, <3>1, Zenon
      <3>3. run'[t] = run[t]
        BY <1>0, <3>1, <3>2, Zenon
      <3> QED BY <1>3, <3>1, <3>3, Zenon
    <2>3. CASE AttachFirst(v) \/ Join(v)
      <3>1. /\ at[v] \in Turns
            /\ order' = [order EXCEPT ![at[v]] = Append(order[at[v]], v)]
            /\ grace' = [grace EXCEPT ![at[v]] = "none"] /\ reap' = reap
            /\ run' = run \/ run' = [run EXCEPT ![at[v]] = "running"]
        <4>1. pc[v] \in {"first", "joining"}
          BY <2>3, Zenon DEF AttachFirst, Join, Moves
        <4>2. at[v] \in Turns
          BY <1>0, <4>1, Zenon DEF HoldersInv
        <4> QED BY <2>3, <4>2, Zenon DEF AttachFirst, Join, Attach
      <3>2. CASE t = at[v]
        <4>1. order[t] \in Seq(Viewers) /\ order'[t] = Append(order[t], v)
          BY <1>0, <3>1, <3>2, Zenon
        <4>2. order'[t] # <<>>
          BY <4>1, AppendProperties
        <4> QED BY <4>2, Zenon DEF Watched
      <3>3. CASE t # at[v]
        <4>1. order'[t] = order[t] /\ grace'[t] = grace[t] /\ run'[t] = run[t]
          BY <1>0, <3>1, <3>3, Zenon
        <4> QED BY <1>3, <3>1, <4>1, Zenon
      <3> QED BY <3>2, <3>3, Zenon
    <2>4. CASE Detach(v)
      <3>1. at[v] \in Turns /\ run' = run
        <4>1. pc[v] = "watching" /\ run' = run
          BY <2>4, Zenon DEF Detach, Leave, Moves
        <4> QED BY <1>0, <4>1, Zenon DEF HoldersInv
      <3>2. order' = [order EXCEPT ![at[v]] = Without(order[at[v]], v)]
        BY <2>4, <3>1, Zenon DEF Detach, Leave
      <3>3. PICK D : Condemn(D) /\ (Alone(v) /\ Finished(at[v]) => at[v] \in D)
        BY <2>4, Zenon DEF Detach, Leave
      <3>4. reap[t] = "no" /\ t \notin D
        BY <1>2, <3>3, Zenon
      <3>5. grace' = [grace EXCEPT ![at[v]] = IF Alone(v) /\ ~Finished(at[v]) THEN "armed" ELSE grace[at[v]]]
        BY <2>4, <3>1, Zenon DEF Detach, Leave
      <3>6. CASE t = at[v] /\ Alone(v)
        <4>1. ~Finished(t)
          BY <3>3, <3>4, <3>6, Zenon
        <4>2. grace'[t] = "armed"
          BY <1>0, <3>5, <3>6, <4>1, Zenon
        <4>3. run'[t] = "running"
          BY <1>0, <3>1, <4>1, Zenon DEF Finished, Runs
        <4> QED BY <4>2, <4>3, Zenon DEF Watched
      <3>7. CASE t = at[v] /\ ~Alone(v)
        <4>1. order'[t] # <<>>
          BY <1>0, <3>2, <3>7, Zenon DEF Alone
        <4> QED BY <4>1, Zenon DEF Watched
      <3>8. CASE t # at[v]
        <4>1. order'[t] = order[t] /\ grace'[t] = grace[t] /\ run'[t] = run[t]
          BY <1>0, <3>1, <3>2, <3>5, <3>8, Zenon
        <4> QED BY <1>3, <3>4, <4>1, Zenon
      <3> QED BY <3>6, <3>7, <3>8, Zenon
    <2>5. CASE CancelHandle(v)
      <3>1. run' = run /\ order' = order /\ grace' = grace /\ Condemn({at[v]})
        BY <2>5, Zenon DEF CancelHandle, turn
      <3> QED BY <1>2, <1>3, <3>1, Zenon
    <2> QED BY <1>4, <2>1, <2>2, <2>3, <2>4, <2>5, Zenon DEF ViewerStep
  <1>5. ASSUME NEW u \in Turns, TurnStep(u) PROVE Watched(t)'
    <2>1. CASE Emit(u) \/ Deadline(u)
      <3>1. run' = run /\ order' = order /\ grace' = grace /\ reap' = reap
        BY <2>1, Zenon DEF Emit, Deadline
      <3> QED BY <1>3, <3>1, Zenon
    <2>2. CASE FnReturns(u)
      <3>1. /\ run' = [run EXCEPT ![u] = IF order[u] = <<>> THEN "endingAlone" ELSE "ending"]
            /\ grace' = [grace EXCEPT ![u] = "none"] /\ reap' = reap /\ order' = order
        BY <2>2, Zenon DEF FnReturns
      <3>2. CASE t = u
        <4>1. order[t] = <<>> => run'[t] = "endingAlone"
          BY <1>0, <3>1, <3>2, Zenon
        <4> QED BY <3>1, <4>1, Zenon DEF Watched
      <3>3. CASE t # u
        <4>1. run'[t] = run[t] /\ grace'[t] = grace[t]
          BY <1>0, <3>1, <3>3, Zenon
        <4> QED BY <1>3, <3>1, <4>1, Zenon
      <3> QED BY <3>2, <3>3, Zenon
    <2>3. CASE MarkFinished(u)
      <3>1. /\ run[u] \in {"ending", "endingAlone"} /\ run' = [run EXCEPT ![u] = "over"]
            /\ order' = order /\ grace' = grace
            /\ Condemn(IF run[u] = "endingAlone" THEN {u} ELSE {})
        BY <2>3, Zenon DEF MarkFinished
      <3>2. reap[t] = "no" /\ (run[u] = "endingAlone" => t # u)
        BY <1>2, <3>1, Zenon
      <3>3. CASE t = u
        <4>1. run[t] = "ending"
          BY <3>1, <3>2, <3>3, Zenon
        <4>2. Watched(t)
          BY <1>1, <3>2, <4>1, Zenon
        <4>3. order[t] # <<>>
          BY <4>1, <4>2, Zenon DEF Watched
        <4> QED BY <3>1, <4>3, Zenon DEF Watched
      <3>4. CASE t # u
        <4>1. run'[t] = run[t]
          BY <1>0, <3>1, <3>4, Zenon
        <4> QED BY <1>3, <3>1, <3>2, <4>1, Zenon
      <3> QED BY <3>3, <3>4, Zenon
    <2>4. CASE TimerFires(u)
      <3>1. run' = run /\ order' = order /\ grace' = [grace EXCEPT ![u] = "fired"] /\ Condemn({u})
        BY <2>4, Zenon DEF TimerFires
      <3>2. reap[t] = "no" /\ t # u
        BY <1>2, <3>1, Zenon
      <3>3. grace'[t] = grace[t]
        BY <1>0, <3>1, <3>2, Zenon
      <3> QED BY <1>3, <3>1, <3>2, <3>3, Zenon
    <2>5. CASE ReapIdle(u)
      <3>1. run' = run /\ order' = order /\ grace' = grace /\ Condemn({u})
        BY <2>5, Zenon DEF ReapIdle, turn
      <3> QED BY <1>2, <1>3, <3>1, Zenon
    <2>6. CASE TearCancel(u) \/ TearRemove(u) \/ TearUntimer(u)
      <3>1. /\ run' = run /\ order' = order
            /\ \E x \in {"remove", "untimer", "done"} : reap' = [reap EXCEPT ![u] = x]
            /\ grace' = grace \/ grace' = [grace EXCEPT ![u] = "none"]
        BY <2>6, Zenon DEF TearCancel, TearRemove, TearUntimer, turn
      <3>2. t # u /\ reap[t] = "no"
        BY <1>0, <3>1, Zenon
      <3>3. grace'[t] = grace[t]
        BY <1>0, <3>1, <3>2, Zenon
      <3> QED BY <1>3, <3>1, <3>2, <3>3, Zenon
    <2> QED BY <1>5, <2>1, <2>2, <2>3, <2>4, <2>5, <2>6, Zenon DEF TurnStep
  <1>6. ASSUME NEW s \in Sessions, Cancel(s) PROVE Watched(t)'
    <2>1. run' = run /\ order' = order /\ grace' = grace /\ \E D : Condemn(D)
      BY <1>6, Zenon DEF Cancel, turn
    <2> QED BY <1>2, <1>3, <2>1, Zenon
  <1>7. CASE CloseDrains
    <2>1. run' = run /\ order' = order /\ grace' = grace /\ \E D : Condemn(D)
      BY <1>7, Zenon DEF CloseDrains, turn
    <2> QED BY <1>2, <1>3, <2>1, Zenon
  <1>8. CASE CloseRoot \/ UNCHANGED vars
    <2>1. run' = run /\ order' = order /\ grace' = grace /\ reap' = reap
      BY <1>8, Zenon DEF CloseRoot, vars, turn
    <2> QED BY <1>3, <2>1, Zenon
  <1> QED BY <1>4, <1>5, <1>6, <1>7, <1>8, Zenon DEF Next

(* For any number of sessions, turns and viewers: no started turn is left  *)
(* to nobody (turn.go detach and markFinished decide it between them), and *)
(* none that was torn down can be found again (registry.go removeSession). *)
(* This is what UnwatchedEnds and FinishedReaped rest on: a turn that      *)
(* nobody watches always has a timer or a teardown at work on it.          *)
THEOREM NoTurnForgotten == Spec => []NobodyForgotten
  <1>1. Init => PlacesInv /\ FreshInv /\ LaunchInv /\ CareInv /\ GoneInv
    <2> SUFFICES ASSUME Init PROVE PlacesInv /\ FreshInv /\ LaunchInv /\ CareInv /\ GoneInv
      OBVIOUS
    <2>1. \A t \in Turns : /\ run[t] = "free" /\ reap[t] = "no" /\ grace[t] = "none"
                           /\ order[t] = <<>>
      BY Zenon DEF Init
    <2>2. PlacesInv
      BY <2>1 DEF PlacesInv
    <2> QED BY <2>1, <2>2, Zenon DEF FreshInv, LaunchInv, CareInv, GoneInv
  <1>2. IInv /\ PlacesInv /\ LaunchInv /\ CareInv /\ GoneInv => NobodyForgotten
    <2> SUFFICES ASSUME IInv, PlacesInv, LaunchInv, CareInv, GoneInv, NEW t \in Turns
                 PROVE  /\ run[t] # "free" /\ reap[t] = "no" => Cared(t)
                        /\ reap[t] \in {"untimer", "done"} => sessions[sid[t]] # t
      BY Zenon DEF NobodyForgotten
    <2>1. ASSUME run[t] # "free", reap[t] = "no" PROVE Cared(t)
      <3>1. CASE run[t] = "registered"
        BY <3>1, Zenon DEF LaunchInv, Cared
      <3>2. CASE run[t] # "registered" /\ order[t] # <<>>
        <4>1. order[t] \in Seq(Viewers)
          BY Zenon DEF IInv, TypeInv
        <4>2. 1 \in 1..Len(order[t]) /\ order[t][1] \in Viewers
          BY <3>2, <4>1
        <4>3. pc[order[t][1]] = "watching" /\ at[order[t][1]] = t
          BY <4>2, Zenon DEF PlacesInv
        <4> QED BY <4>2, <4>3, Zenon DEF Cared
      <3>3. CASE run[t] # "registered" /\ order[t] = <<>>
        BY <2>1, <3>3, Zenon DEF CareInv, Watched, Cared
      <3> QED BY <3>1, <3>2, <3>3, Zenon
    <2> QED BY <2>1, Zenon DEF GoneInv
  <1> QED BY <1>1, <1>2, PlacesKept, FreshKept, LaunchKept, CareKept, GoneKept, Always, PTL DEF Spec
=============================================================================
