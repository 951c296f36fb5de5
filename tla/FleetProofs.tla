---------------------------- MODULE FleetProofs ----------------------------
(***************************************************************************)
(* For any number of units, any cap and any mix of faults: the fleet is    *)
(* never wider than its cap, and a drive that is over leaves no mission    *)
(* silent.  The first needs the admission lock: while it is held, one      *)
(* place below the cap is free.  The second follows the drive's steps and  *)
(* that what a mission shows is never taken back.  The last part proves    *)
(* what the liveness properties rest on: no subprocess is ever out of      *)
(* everybody's hands, and no mission at rest is forgotten except by a lost *)
(* event.                                                                  *)
(***************************************************************************)
EXTENDS Fleet, FiniteSetTheorems, SequenceTheorems, TLAPS

(* The types the arguments need.                                           *)
TypeInv ==
    /\ lock \in Units \cup {NoUnit}
    /\ dp \in [Units -> {"idle", "spawn", "register", "session", "create", "bind",
                         "drop", "prompt1", "turn1", "judge1", "prompt2", "turn2",
                         "judge2", "stuck", "file", "failed", "derail", "reap",
                         "ending", "over"}]
    /\ st \in [Units -> {"none", "running", "error", "stopped"}]
    /\ reg \in [Units -> {"no", "yes", "gone"}]
    /\ ms \in [Units -> {"none", "open", "rest"}]
    /\ bound \in [Units -> {"no", "yes"}]
    /\ said \in [Units -> {"no", "yes"}]
    /\ note \in [Units -> {"none", "broke", "cancelled"}]

(* The dispatch between admission and registration holds the lock, and its *)
(* instance is not yet in the map.                                         *)
LockInv ==
    /\ \A u \in Units : dp[u] \in {"spawn", "register"} => lock = u
    /\ \A u \in Units : dp[u] \in {"idle", "spawn", "register"} => reg[u] = "no"

(* While the lock is held there is room for its holder.                    *)
RoomInv ==
    MaxParallel > 0 =>
        /\ Cardinality(Open) <= MaxParallel
        /\ lock # NoUnit => Cardinality(Open) < MaxParallel

(* What the steps after a turn know of the mission they leave behind.      *)
DriveInv ==
    \A u \in Units :
        /\ dp[u] \in {"idle", "spawn", "register", "session", "create", "bind", "drop"}
             => bound[u] = "no"
        /\ (dp[u] = "derail" /\ note[u] = "none") => said[u] = "yes"
        /\ (dp[u] \in {"reap", "ending"} /\ note[u] = "none") => Reached(u)
        /\ (dp[u] = "over" /\ bound[u] = "yes" /\ note[u] = "none") => Reached(u)

IInv == TypeInv /\ LockInv /\ RoomInv /\ DriveInv
-----------------------------------------------------------------------------
(* The units that are open are finitely many.                              *)
LEMMA OpenFinite == IsFiniteSet(Open) /\ Cardinality(Open) \in Nat
  <1>1. Open \subseteq Units
    BY Zenon DEF Open
  <1>2. IsFiniteSet(Open)
    BY <1>1, UnitsAssumption, FS_Subset, Zenon DEF UnitsAssumption
  <1>. QED BY <1>2, FS_CardinalityType, Zenon

(* A step that opens no unit and takes no lock keeps the room.             *)
LEMMA RoomKept ==
    ASSUME RoomInv, Open' \subseteq Open, lock' = lock \/ lock' = NoUnit
    PROVE  RoomInv'
  <1>1. Cardinality(Open') <= Cardinality(Open) /\ Cardinality(Open') \in Nat
    BY OpenFinite, FS_Subset, FS_CardinalityType, Zenon
  <1>. QED BY <1>1, OpenFinite, WidthAssumption DEF RoomInv, WidthAssumption

(* Stopping instances opens none.                                          *)
LEMMA UnmapKeeps ==
    ASSUME TypeInv, NEW D, Unmap(D)
    PROVE  /\ reg' \in [Units -> {"no", "yes", "gone"}]
           /\ \A u \in Units : reg'[u] = "yes" => reg[u] = "yes"
           /\ \A u \in Units : reg[u] = "no" => reg'[u] = "no"
  BY Zenon DEF TypeInv, Unmap
-----------------------------------------------------------------------------
(* Every step keeps the types.                                             *)
LEMMA TypesKept == TypeInv /\ [Next]_vars => TypeInv'
  <1>. SUFFICES ASSUME TypeInv, [Next]_vars PROVE TypeInv'
    OBVIOUS
  <1>. USE DEF TypeInv, Goes, instance, mission, wire, Finish, Breaks, CloseTools, InTurn
  <1>1. ASSUME NEW u \in Units, DispatchStep(u) PROVE TypeInv'
    BY <1>1, UnmapKeeps DEF DispatchStep, Admit, Spawn, SpawnFails, Register, RegisterRefused,
       OpenSession, Create, Bind, CallFails, Drop
  <1>2. ASSUME NEW u \in Units, DriveStep(u) PROVE TypeInv'
    <2>1. CASE Prompt(u)
      BY <2>1, Zenon DEF Prompt
    <2>2. CASE Judge(u)
      BY <2>2, ZenonT(30) DEF Judge
    <2>3. CASE FinishStuck(u)
      BY <2>3, Zenon DEF FinishStuck
    <2>4. CASE FileBlocker(u)
      BY <2>4, Zenon DEF FileBlocker
    <2>5. CASE FailedAtRest(u)
      BY <2>5, Zenon DEF FailedAtRest
    <2>6. CASE FailedReports(u)
      BY <2>6, Zenon DEF FailedReports
    <2>7. CASE Derail(u)
      BY <2>7, Zenon DEF Derail
    <2>8. CASE Conclude(u)
      BY <2>8, Zenon DEF Conclude
    <2>9. CASE Reap(u)
      BY <2>9, UnmapKeeps, Zenon DEF Reap
    <2>. QED BY <1>2, <2>1, <2>2, <2>3, <2>4, <2>5, <2>6, <2>7, <2>8, <2>9, Zenon DEF DriveStep
  <1>3. ASSUME NEW u \in Units, TurnFails(u) \/ InstanceStep(u) \/ Publish(u) PROVE TypeInv'
    BY <1>3 DEF TurnFails, InstanceStep, Shut, CloseProcess, WatchDog, RootKills, Publish
  <1>4. ASSUME NEW u \in Units, Environment(u) PROVE TypeInv'
    BY <1>4, UnmapKeeps DEF Environment, Refuse, TurnEnds, TurnCancelled, UnitReports,
       UnitFinishes, StopMission, StopInstance, Crash, LoseEvent
  <1>5. CASE Take \/ StopBound \/ SkipEvent \/ Reaped
    BY <1>5, UnmapKeeps DEF Take, StopBound, SkipEvent, Reaped
  <1>6. CASE HostStep
    BY <1>6, UnmapKeeps DEF HostStep, Unsubscribe, CloseManager, CancelRoot
  <1>7. CASE UNCHANGED vars
    BY <1>7, Zenon DEF vars
  <1>. QED BY <1>1, <1>2, <1>3, <1>4, <1>5, <1>6, <1>7, Zenon DEF Next

(* Every step keeps the lock's discipline and the room it guards.          *)
LEMMA LockKept == TypeInv /\ LockInv /\ RoomInv /\ [Next]_vars => LockInv' /\ RoomInv'
  <1>. SUFFICES ASSUME TypeInv, LockInv, RoomInv, [Next]_vars PROVE LockInv' /\ RoomInv'
    OBVIOUS
  <1>. USE UnitsAssumption DEF UnitsAssumption, instance, wire, mission, Goes, CloseTools, InTurn
  <1>a. ASSUME lock' = lock, UNCHANGED <<st, reg>>,
               \A u \in Units : dp'[u] \in {"idle", "spawn", "register"} => dp'[u] = dp[u]
        PROVE  LockInv' /\ RoomInv'
    <2>1. LockInv'
      BY <1>a, Zenon DEF LockInv
    <2>2. Open' \subseteq Open
      BY <1>a, Zenon DEF Open
    <2>. QED BY <2>1, <2>2, <1>a, RoomKept, Zenon
  <1>b. ASSUME lock' = lock, NEW D, Unmap(D), UNCHANGED st,
               \A u \in Units : dp'[u] \in {"idle", "spawn", "register"} => dp'[u] = dp[u]
        PROVE  LockInv' /\ RoomInv'
    <2>0. /\ \A u \in Units : reg'[u] = "yes" => reg[u] = "yes"
          /\ \A u \in Units : reg[u] = "no" => reg'[u] = "no"
      BY <1>b, UnmapKeeps, Zenon
    <2>1. LockInv'
      BY <1>b, <2>0, Zenon DEF LockInv
    <2>2. Open' \subseteq Open
      BY <1>b, <2>0, Zenon DEF Open
    <2>. QED BY <2>1, <2>2, <1>b, RoomKept, Zenon
  <1>1. ASSUME NEW u \in Units, DispatchStep(u) PROVE LockInv' /\ RoomInv'
    <2>1. CASE Admit(u)
      <3>1. /\ lock = NoUnit /\ lock' = u /\ dp[u] = "idle"
            /\ dp' = [dp EXCEPT ![u] = "spawn"] /\ UNCHANGED <<st, reg>>
            /\ MaxParallel = 0 \/ Cardinality(Open) < MaxParallel
        BY <2>1, Zenon DEF Admit
      <3>2. LockInv'
        BY <3>1 DEF TypeInv, LockInv
      <3>3. Open' = Open
        BY <3>1, Zenon DEF Open
      <3>. QED BY <3>1, <3>2, <3>3 DEF RoomInv
    <2>2. CASE Spawn(u)
      <3>1. LockInv'
        BY <2>2, Zenon DEF Spawn, TypeInv, LockInv
      <3>2. Open' \subseteq Open
        BY <2>2, Zenon DEF Spawn, TypeInv, LockInv, Open
      <3>. QED BY <2>2, <3>1, <3>2, RoomKept, Zenon DEF Spawn
    <2>3. CASE SpawnFails(u)
      <3>1. LockInv'
        BY <2>3 DEF SpawnFails, TypeInv, LockInv
      <3>2. Open' \subseteq Open
        BY <2>3, Zenon DEF SpawnFails, TypeInv, Open
      <3>3. lock' = lock \/ lock' = NoUnit
        BY <2>3, Zenon DEF SpawnFails
      <3>. QED BY <3>1, <3>2, <3>3, RoomKept, Zenon
    <2>4. CASE Register(u)
      <3>1. /\ dp[u] = "register" /\ dp' = [dp EXCEPT ![u] = "session"]
            /\ lock = u /\ lock' = NoUnit /\ reg' = [reg EXCEPT ![u] = "yes"] /\ st' = st
        BY <2>4, Zenon DEF Register, LockInv
      <3>2. LockInv'
        BY <3>1 DEF TypeInv, LockInv
      <3>3. Open' \subseteq Open \cup {u}
        BY <3>1, Zenon DEF TypeInv, Open
      <3>4. IsFiniteSet(Open \cup {u}) /\ Cardinality(Open \cup {u}) <= Cardinality(Open) + 1
            /\ Cardinality(Open \cup {u}) \in Nat
        <4>1. IsFiniteSet(Open \cup {u})
          BY OpenFinite, FS_AddElement, Zenon
        <4>2. Cardinality(Open \cup {u}) = IF u \in Open THEN Cardinality(Open)
                                                         ELSE Cardinality(Open) + 1
          BY OpenFinite, FS_AddElement, Zenon
        <4>. QED BY <4>1, <4>2, OpenFinite
      <3>5. Cardinality(Open') <= Cardinality(Open \cup {u}) /\ Cardinality(Open') \in Nat
        BY <3>3, <3>4, FS_Subset, FS_CardinalityType, Zenon
      <3>. QED BY <3>1, <3>2, <3>4, <3>5, OpenFinite, WidthAssumption DEF RoomInv, WidthAssumption
    <2>5. CASE RegisterRefused(u)
      <3>1. LockInv'
        BY <2>5, Zenon DEF RegisterRefused, TypeInv, LockInv
      <3>2. Open' \subseteq Open
        BY <2>5, Zenon DEF RegisterRefused, Open
      <3>3. lock' = lock \/ lock' = NoUnit
        BY <2>5, Zenon DEF RegisterRefused
      <3>. QED BY <3>1, <3>2, <3>3, RoomKept, Zenon
    <2>6. CASE OpenSession(u) \/ Create(u) \/ Bind(u) \/ CallFails(u)
      BY <2>6, <1>a DEF OpenSession, Create, Bind, CallFails, TypeInv
    <2>7. CASE Drop(u)
      BY <2>7, <1>b, Zenon DEF Drop, TypeInv
    <2>. QED BY <1>1, <2>1, <2>2, <2>3, <2>4, <2>5, <2>6, <2>7, Zenon DEF DispatchStep
  <1>2. ASSUME NEW u \in Units, DriveStep(u) PROVE LockInv' /\ RoomInv'
    <2>1. CASE Reap(u)
      BY <2>1, <1>b, Zenon DEF Reap, TypeInv
    <2>2. CASE Prompt(u)
      BY <2>2, <1>a DEF Prompt, TypeInv
    <2>3. CASE Judge(u)
      <3>1. lock' = lock /\ UNCHANGED <<st, reg>>
            /\ \E b \in {"ending", "prompt2", "stuck", "file"} : dp' = [dp EXCEPT ![u] = b]
        BY <2>3, Zenon DEF Judge
      <3>. QED BY <3>1, <1>a, Zenon DEF TypeInv
    <2>4. CASE FinishStuck(u)
      BY <2>4, <1>a, Zenon DEF FinishStuck, TypeInv
    <2>5. CASE FileBlocker(u)
      BY <2>5, <1>a, Zenon DEF FileBlocker, TypeInv
    <2>6. CASE FailedAtRest(u)
      BY <2>6, <1>a, Zenon DEF FailedAtRest, TypeInv
    <2>7. CASE FailedReports(u)
      BY <2>7, <1>a, Zenon DEF FailedReports, TypeInv
    <2>8. CASE Derail(u)
      BY <2>8, <1>a, Zenon DEF Derail, TypeInv
    <2>9. CASE Conclude(u)
      BY <2>9, <1>a, Zenon DEF Conclude, TypeInv
    <2>. QED BY <1>2, <2>1, <2>2, <2>3, <2>4, <2>5, <2>6, <2>7, <2>8, <2>9, Zenon DEF DriveStep
  <1>3. ASSUME NEW u \in Units, TurnFails(u) \/ Publish(u) PROVE LockInv' /\ RoomInv'
    BY <1>3, <1>a DEF TurnFails, Publish, TypeInv
  <1>4. ASSUME NEW u \in Units, InstanceStep(u) PROVE LockInv' /\ RoomInv'
    <2>1. lock' = lock /\ dp' = dp /\ reg' = reg /\ \A w \in Units : st'[w] = "running" => st[w] = "running"
      BY <1>4 DEF InstanceStep, Shut, CloseProcess, WatchDog, RootKills, TypeInv
    <2>2. LockInv'
      BY <2>1, Zenon DEF LockInv
    <2>3. Open' \subseteq Open
      BY <2>1, Zenon DEF Open
    <2>. QED BY <2>1, <2>2, <2>3, RoomKept, Zenon
  <1>5. ASSUME NEW u \in Units, Environment(u) PROVE LockInv' /\ RoomInv'
    <2>1. CASE StopInstance(u)
      BY <2>1, <1>b, Zenon DEF StopInstance
    <2>2. CASE ~StopInstance(u)
      BY <1>5, <2>2, <1>a DEF Environment, Refuse, TurnEnds, TurnCancelled, UnitReports,
         UnitFinishes, StopMission, Crash, LoseEvent, TypeInv
    <2>. QED BY <2>1, <2>2, Zenon
  <1>6. CASE Take \/ SkipEvent \/ Reaped \/ Unsubscribe \/ CancelRoot \/ UNCHANGED vars
    BY <1>6, <1>a, Zenon DEF Take, SkipEvent, Reaped, Unsubscribe, CancelRoot, vars
  <1>7. CASE StopBound \/ CloseManager
    BY <1>7, <1>b, Zenon DEF StopBound, CloseManager
  <1>. QED BY <1>1, <1>2, <1>3, <1>4, <1>5, <1>6, <1>7, Zenon DEF Next, HostStep

(* Every step keeps what the drive knows.                                  *)
LEMMA DriveKept == TypeInv /\ DriveInv /\ [Next]_vars => DriveInv'
  <1>. SUFFICES ASSUME TypeInv, DriveInv, [Next]_vars PROVE DriveInv'
    OBVIOUS
  <1>. USE DEF instance, wire, mission, Goes, CloseTools, InTurn
  <1>a. ASSUME UNCHANGED <<dp, bound, note>>,
               \A u \in Units : said[u] = "yes" => said'[u] = "yes",
               \A u \in Units : ms[u] # "open" => ms'[u] # "open"
        PROVE  DriveInv'
    BY <1>a, Zenon DEF DriveInv, Reached
  <1>1. ASSUME NEW u \in Units, DispatchStep(u) PROVE DriveInv'
    <2>1. CASE Create(u)
      BY <2>1 DEF Create, TypeInv, DriveInv, Reached
    <2>2. CASE Bind(u)
      BY <2>2 DEF Bind, TypeInv, DriveInv, Reached
    <2>3. CASE ~Create(u) /\ ~Bind(u)
      <3>1. UNCHANGED <<ms, bound, said, note>>
        BY <1>1, <2>3, Zenon DEF DispatchStep, Admit, Spawn, SpawnFails, Register, RegisterRefused,
           OpenSession, CallFails, Drop
      <3>2. /\ dp[u] \in {"idle", "spawn", "register", "session", "create", "bind", "drop"}
            /\ \E b \in {"spawn", "register", "session", "create", "drop", "over"} :
                 dp' = [dp EXCEPT ![u] = b]
        BY <1>1, <2>3, Zenon DEF DispatchStep, Admit, Spawn, SpawnFails, Register, RegisterRefused,
           OpenSession, CallFails, Drop
      <3>. QED BY <3>1, <3>2 DEF TypeInv, DriveInv, Reached
    <2>. QED BY <2>1, <2>2, <2>3, Zenon
  <1>2. ASSUME NEW u \in Units, DriveStep(u) PROVE DriveInv'
    <2>1. CASE Prompt(u)
      BY <2>1 DEF Prompt, TypeInv, DriveInv, Reached
    <2>2. CASE Judge(u)
      <3>1. /\ UNCHANGED <<ms, bound, said, note>>
            /\ dp[u] \in {"judge1", "judge2"}
            /\ \/ dp' = [dp EXCEPT ![u] = "ending"] /\ Reached(u)
               \/ \E b \in {"prompt2", "stuck", "file"} : dp' = [dp EXCEPT ![u] = b]
        BY <2>2, Zenon DEF Judge, Looks
      <3>. QED BY <3>1 DEF TypeInv, DriveInv, Reached
    <2>3. CASE FinishStuck(u)
      BY <2>3 DEF FinishStuck, Finish, Breaks, TypeInv, DriveInv, Reached
    <2>4. CASE FileBlocker(u)
      BY <2>4 DEF FileBlocker, Breaks, TypeInv, DriveInv, Reached
    <2>5. CASE FailedAtRest(u)
      BY <2>5 DEF FailedAtRest, TypeInv, DriveInv, Reached
    <2>6. CASE FailedReports(u)
      BY <2>6 DEF FailedReports, Breaks, TypeInv, DriveInv, Reached
    <2>7. CASE Derail(u)
      BY <2>7 DEF Derail, Finish, Breaks, TypeInv, DriveInv, Reached
    <2>8. CASE Reap(u)
      BY <2>8 DEF Reap, TypeInv, DriveInv, Reached
    <2>9. CASE Conclude(u)
      BY <2>9 DEF Conclude, TypeInv, DriveInv, Reached
    <2>. QED BY <1>2, <2>1, <2>2, <2>3, <2>4, <2>5, <2>6, <2>7, <2>8, <2>9, Zenon DEF DriveStep
  <1>3. ASSUME NEW u \in Units, TurnFails(u) PROVE DriveInv'
    BY <1>3 DEF TurnFails, TypeInv, DriveInv, Reached
  <1>4. ASSUME NEW u \in Units, InstanceStep(u) \/ Publish(u) PROVE DriveInv'
    BY <1>4, <1>a, Zenon DEF InstanceStep, Shut, CloseProcess, WatchDog, RootKills, Publish
  <1>5. ASSUME NEW u \in Units, Environment(u) PROVE DriveInv'
    <2>1. CASE Refuse(u)
      BY <2>1 DEF Refuse, TypeInv, DriveInv, Reached
    <2>2. CASE TurnEnds(u)
      BY <2>2 DEF TurnEnds, TypeInv, DriveInv, Reached
    <2>3. CASE TurnCancelled(u)
      BY <2>3 DEF TurnCancelled, TypeInv, DriveInv, Reached
    <2>4. CASE UnitReports(u) \/ UnitFinishes(u) \/ StopMission(u) \/ StopInstance(u)
               \/ Crash(u) \/ LoseEvent(u)
      BY <2>4, <1>a DEF UnitReports, UnitFinishes, StopMission, StopInstance, Crash, LoseEvent,
         Finish, TypeInv
    <2>. QED BY <1>5, <2>1, <2>2, <2>3, <2>4, Zenon DEF Environment
  <1>6. CASE Take \/ StopBound \/ SkipEvent \/ Reaped \/ HostStep \/ UNCHANGED vars
    BY <1>6, <1>a, Zenon DEF Take, StopBound, SkipEvent, Reaped, HostStep, Unsubscribe, CloseManager,
       CancelRoot, vars
  <1>. QED BY <1>1, <1>2, <1>3, <1>4, <1>5, <1>6, Zenon DEF Next

(* The invariant holds at the start and is kept.                           *)
LEMMA Always == Spec => []IInv
  <1>1. Init => IInv
    <2>. SUFFICES ASSUME Init PROVE IInv
      OBVIOUS
    <2>1. TypeInv /\ LockInv /\ DriveInv
      BY UnitsAssumption, Zenon DEF Init, TypeInv, LockInv, DriveInv, Reached, UnitsAssumption
    <2>2. Open = {}
      BY Zenon DEF Init, Open
    <2>3. Cardinality(Open) = 0
      BY <2>2, FS_EmptySet, Zenon
    <2>4. RoomInv
      BY <2>3, WidthAssumption DEF RoomInv, WidthAssumption
    <2>. QED BY <2>1, <2>4, Zenon DEF IInv
  <1>2. IInv /\ [Next]_vars => IInv'
    BY TypesKept, LockKept, DriveKept, Zenon DEF IInv
  <1>. QED BY <1>1, <1>2, PTL DEF Spec
-----------------------------------------------------------------------------
(* For any number of dispatches and any cap, the units that are open never *)
(* outnumber the cap (fleetservice.go Dispatch, admission.go admitUnit).   *)
THEOREM FleetWidthCapped == Spec => []WidthCapped
  <1>1. IInv => WidthCapped
    BY Zenon DEF IInv, RoomInv, WidthCapped
  <1>. QED BY <1>1, Always, PTL

(* For any number of units and faults, a drive that is over leaves a       *)
(* mission at rest or one that shows something, unless the operator        *)
(* cancelled the turn or a store write failed (driveUnattendedMission).    *)
THEOREM DriveNeverSilent == Spec => []NeverSilent
  <1>1. IInv => NeverSilent
    BY Zenon DEF IInv, DriveInv, NeverSilent
  <1>. QED BY <1>1, Always, PTL

(* Only the dispatch that holds the admission lock has an instance that is *)
(* running and not yet in the map (agentinstance bringUp).                 *)
THEOREM LockGuardsStart == Spec => []LockInv
  <1>1. IInv => LockInv
    BY Zenon DEF IInv
  <1>. QED BY <1>1, Always, PTL

-----------------------------------------------------------------------------
(* The types of the variables that the invariant above does not read.      *)
WireTypes ==
    /\ mix \in Mixes
    /\ halt \in [Units -> {"no", "unmapped", "shut", "dead"}]
    /\ proc \in [Units -> {"none", "up", "down"}]
    /\ tools \in [Units -> {"none", "open", "closed"}]
    /\ ev \in [Units -> {"none", "due", "queued", "lost", "early", "handled"}]
    /\ bus \in Seq(Units)
    /\ td \in {<<>>} \cup (Units \X {"read", "stop"})
    /\ host \in {"up", "deaf", "closing", "closed"}

(* What a subscription hands over while it drains is a prefix.             *)
LEMMA PrefixIsBus ==
    ASSUME NEW s \in Seq(Units), NEW k \in 0..Len(s)
    PROVE  SubSeq(s, 1, k) \in Seq(Units)
  BY SubSeqProperties

LEMMA WireKept == TypeInv /\ WireTypes /\ [Next]_vars => WireTypes'
  <1>. SUFFICES ASSUME TypeInv, WireTypes, [Next]_vars PROVE WireTypes'
    OBVIOUS
  <1>. USE DEF WireTypes, Goes, instance, mission, wire, Finish, CloseTools, Unmap
  <1>1. ASSUME NEW u \in Units, DispatchStep(u) PROVE WireTypes'
    BY <1>1 DEF DispatchStep, Admit, Spawn, SpawnFails, Register, RegisterRefused,
       OpenSession, Create, Bind, CallFails, Drop
  <1>2. ASSUME NEW u \in Units, DriveStep(u) PROVE WireTypes'
    <2>1. CASE Prompt(u) \/ Judge(u)
      BY <2>1, Zenon DEF Prompt, Judge
    <2>2. CASE FinishStuck(u) \/ Derail(u)
      BY <2>2 DEF FinishStuck, Derail
    <2>3. CASE FileBlocker(u) \/ FailedAtRest(u) \/ FailedReports(u)
      BY <2>3, Zenon DEF FileBlocker, FailedAtRest, FailedReports
    <2>4. CASE Reap(u) \/ Conclude(u)
      BY <2>4 DEF Reap, Conclude
    <2>. QED BY <1>2, <2>1, <2>2, <2>3, <2>4, Zenon DEF DriveStep
  <1>3. ASSUME NEW u \in Units, TurnFails(u) \/ InstanceStep(u) PROVE WireTypes'
    BY <1>3 DEF TurnFails, InstanceStep, Shut, CloseProcess, WatchDog, RootKills
  <1>4. ASSUME NEW u \in Units, Publish(u) PROVE WireTypes'
    BY <1>4 DEF Publish
  <1>5. ASSUME NEW u \in Units, Environment(u) PROVE WireTypes'
    BY <1>5 DEF Environment, Refuse, TurnEnds, TurnCancelled, UnitReports,
       UnitFinishes, StopMission, StopInstance, Crash, LoseEvent
  <1>6. CASE Take \/ StopBound \/ SkipEvent \/ Reaped
    <2>1. CASE Take
      <3>1. Head(bus) \in Units /\ Tail(bus) \in Seq(Units)
        BY <2>1, HeadTailProperties, Zenon DEF Take
      <3>. QED BY <2>1, <3>1, Zenon DEF Take
    <2>2. CASE StopBound
      BY <2>2, Zenon DEF StopBound
    <2>3. CASE SkipEvent
      BY <2>3, Zenon DEF SkipEvent
    <2>4. CASE Reaped
      BY <2>4, Zenon DEF Reaped
    <2>. QED BY <1>6, <2>1, <2>2, <2>3, <2>4, Zenon
  <1>7. CASE Unsubscribe
    BY <1>7, PrefixIsBus DEF Unsubscribe
  <1>8. CASE CloseManager \/ CancelRoot \/ UNCHANGED vars
    BY <1>8 DEF CloseManager, CancelRoot, vars
  <1>. QED BY <1>1, <1>2, <1>3, <1>4, <1>5, <1>6, <1>7, <1>8, Zenon DEF Next, HostStep

(* Every variable keeps its type, whatever faults happen.                  *)
THEOREM FleetTypes == Spec => []TypeOK
  <1>1. Init => TypeInv /\ WireTypes
    BY UnitsAssumption DEF Init, TypeInv, WireTypes, UnitsAssumption
  <1>2. TypeInv /\ WireTypes /\ [Next]_vars => (TypeInv /\ WireTypes)'
    BY TypesKept, WireKept, Zenon
  <1>3. TypeInv /\ WireTypes => TypeOK
    BY Zenon DEF TypeInv, WireTypes, TypeOK
  <1>. QED BY <1>1, <1>2, <1>3, PTL DEF Spec
-----------------------------------------------------------------------------
(* The steps of a mission's drive.                                         *)
Drives == {"prompt1", "turn1", "judge1", "prompt2", "turn2", "judge2", "stuck", "file",
           "failed", "derail", "reap", "ending"}

(* A subprocess that is up is being brought up by its dispatch, is in the  *)
(* map with a dispatch or a drive at work on it or a mission that names    *)
(* it, or is being stopped by whoever took it out of the map.              *)
InHand(u) ==
    proc[u] = "up" =>
        \/ dp[u] = "register"
        \/ reg[u] = "yes" /\ (dp[u] # "over" \/ bound[u] = "yes")
        \/ halt[u] \in {"unmapped", "shut"}

(* No subprocess is out of everybody's hands (agentinstance manager.go     *)
(* bringUp, Stop and Close, fleetservice.go Dispatch).                     *)
NoneOrphaned == \A u \in Units : InHand(u)

(* With what the steps of the dispatch and of the stop have behind them.   *)
Handled(u) ==
    /\ InHand(u)
    /\ halt[u] = "dead" => proc[u] # "up"
    /\ reg[u] = "gone" => halt[u] # "no"
    /\ dp[u] \in {"idle", "spawn"} => proc[u] = "none"
    /\ dp[u] \in {"idle", "spawn", "register"} => halt[u] = "no"
    /\ dp[u] \in Drives \cup {"session", "create", "bind", "drop"} => reg[u] # "no"
    /\ dp[u] \in Drives => bound[u] = "yes"

ProcInv == \A u \in Units : Handled(u)

LEMMA OthersStay ==
    ASSUME TypeInv, WireTypes, NEW u \in Units, NEW x \in Units, x # u,
           DispatchStep(u) \/ DriveStep(u) \/ TurnFails(u) \/ InstanceStep(u)
             \/ Publish(u) \/ Environment(u)
    PROVE  /\ dp'[x] = dp[x] /\ reg'[x] = reg[x] /\ halt'[x] = halt[x] /\ proc'[x] = proc[x]
           /\ ms'[x] = ms[x] /\ bound'[x] = bound[x] /\ note'[x] = note[x]
           /\ tools'[x] = tools[x] /\ ev'[x] = ev[x]
  <1>0. /\ x \in DOMAIN dp /\ x \in DOMAIN reg /\ x \in DOMAIN halt /\ x \in DOMAIN proc
        /\ x \in DOMAIN ms /\ x \in DOMAIN bound /\ x \in DOMAIN note
        /\ x \in DOMAIN tools /\ x \in DOMAIN ev
    BY DEF TypeInv, WireTypes
  <1>1. ASSUME Unmap({u}) PROVE reg'[x] = reg[x] /\ halt'[x] = halt[x]
    BY <1>1, Zenon DEF Unmap
  <1>2. CASE DispatchStep(u)
    BY <1>0, <1>1, <1>2, Zenon DEF DispatchStep, Admit, Spawn, SpawnFails, Register, RegisterRefused,
       OpenSession, Create, Bind, CallFails, Drop, Goes, CloseTools, instance, mission
  <1>3. CASE Prompt(u) \/ Judge(u) \/ FinishStuck(u) \/ FileBlocker(u)
    BY <1>0, <1>3, Zenon DEF Prompt, Judge, FinishStuck, FileBlocker, Finish, Breaks, Goes, instance, mission
  <1>4. CASE FailedAtRest(u) \/ FailedReports(u) \/ Derail(u) \/ Reap(u) \/ Conclude(u)
    BY <1>0, <1>1, <1>4, Zenon DEF FailedAtRest, FailedReports, Derail, Reap, Conclude, Finish,
       Breaks, Goes, instance, mission
  <1>5. CASE TurnFails(u) \/ InstanceStep(u) \/ Publish(u)
    BY <1>0, <1>5, Zenon DEF TurnFails, InstanceStep, Shut, CloseProcess, WatchDog, RootKills, Publish,
       instance, mission
  <1>6. CASE Environment(u)
    BY <1>0, <1>1, <1>6, Zenon DEF Environment, Refuse, TurnEnds, TurnCancelled, UnitReports,
       UnitFinishes, StopMission, StopInstance, Crash, LoseEvent, Finish, Goes, instance, mission
  <1> QED BY <1>2, <1>3, <1>4, <1>5, <1>6, Zenon DEF DriveStep

(* Whoever takes an instance out of the map has it in hand.                *)
LEMMA UnmapHands ==
    ASSUME NEW x \in Units, Handled(x), NEW D, Unmap(D), dp'[x] = dp[x], proc'[x] = proc[x],
           bound'[x] = bound[x], dp[x] \in {"idle", "spawn", "register"} => reg[x] = "no"
    PROVE  Handled(x)'
  <1>1. \/ reg'[x] = reg[x] /\ halt'[x] = halt[x]
        \/ reg[x] = "yes" /\ reg'[x] = "gone" /\ halt'[x] = "unmapped"
    BY Zenon DEF Unmap
  <1> QED BY <1>1, Zenon DEF Handled, InHand

(* Every step leaves every subprocess in hand.                             *)
LEMMA ProcKept == TypeInv /\ WireTypes /\ LockInv /\ ProcInv /\ [Next]_vars => ProcInv'
  <1> SUFFICES ASSUME TypeInv, WireTypes, LockInv, ProcInv, [Next]_vars, NEW x \in Units
               PROVE  Handled(x)'
    BY Zenon DEF ProcInv
  <1>0. Handled(x) /\ (dp[x] \in {"idle", "spawn", "register"} => reg[x] = "no")
    BY Zenon DEF ProcInv, LockInv
  <1>t. /\ x \in DOMAIN dp /\ x \in DOMAIN reg /\ x \in DOMAIN halt /\ x \in DOMAIN proc
        /\ x \in DOMAIN bound
    BY DEF TypeInv, WireTypes
  <1>1. ASSUME dp'[x] = dp[x], reg'[x] = reg[x], halt'[x] = halt[x], proc'[x] = proc[x],
               bound'[x] = bound[x]
        PROVE  Handled(x)'
    BY <1>0, <1>1, Zenon DEF Handled, InHand
  <1>2. ASSUME NEW u \in Units, x # u,
               DispatchStep(u) \/ DriveStep(u) \/ TurnFails(u) \/ InstanceStep(u)
                 \/ Publish(u) \/ Environment(u)
        PROVE  Handled(x)'
    <2>1. /\ dp'[x] = dp[x] /\ reg'[x] = reg[x] /\ halt'[x] = halt[x] /\ proc'[x] = proc[x]
          /\ bound'[x] = bound[x]
      BY <1>2, OthersStay, Zenon
    <2> QED BY <1>1, <2>1, Zenon
  <1>3. CASE DispatchStep(x)
    <2>1. CASE Admit(x)
      <3>1. dp[x] = "idle" /\ dp'[x] = "spawn" /\ UNCHANGED <<reg, halt, proc, bound>>
        BY <1>t, <2>1, Zenon DEF Admit, Goes, instance, mission
      <3> QED BY <1>0, <3>1, Zenon DEF Handled, InHand, Drives
    <2>2. CASE Spawn(x)
      <3>1. /\ dp[x] = "spawn" /\ dp'[x] = "register" /\ proc'[x] = "up"
            /\ UNCHANGED <<reg, halt, bound>>
        BY <1>t, <2>2, Zenon DEF Spawn, Goes, mission
      <3> QED BY <1>0, <3>1, Zenon DEF Handled, InHand, Drives
    <2>3. CASE SpawnFails(x)
      <3>1. dp[x] = "spawn" /\ dp'[x] = "over" /\ UNCHANGED <<reg, halt, proc, bound>>
        BY <1>t, <2>3, Zenon DEF SpawnFails, Goes, mission
      <3> QED BY <1>0, <3>1, Zenon DEF Handled, InHand, Drives
    <2>4. CASE Register(x)
      <3>1. /\ dp[x] = "register" /\ dp'[x] = "session" /\ reg'[x] = "yes"
            /\ UNCHANGED <<halt, proc, bound>>
        BY <1>t, <2>4, Zenon DEF Register, Goes, mission
      <3> QED BY <1>0, <3>1, Zenon DEF Handled, InHand, Drives
    <2>5. CASE RegisterRefused(x)
      <3>1. /\ dp[x] = "register" /\ dp'[x] = "over" /\ halt'[x] = "unmapped"
            /\ UNCHANGED <<reg, proc, bound>>
        BY <1>t, <2>5, Zenon DEF RegisterRefused, Goes, mission
      <3> QED BY <1>0, <3>1, Zenon DEF Handled, InHand, Drives
    <2>6. CASE OpenSession(x) \/ Create(x) \/ CallFails(x)
      <3>1. /\ dp[x] \in {"session", "create", "bind"} /\ dp'[x] \in {"create", "bind", "drop"}
            /\ UNCHANGED <<reg, halt, proc, bound>>
        BY <1>t, <2>6, Zenon DEF OpenSession, Create, CallFails, Goes, instance, mission
      <3> QED BY <1>0, <3>1, Zenon DEF Handled, InHand, Drives
    <2>7. CASE Bind(x)
      <3>1. /\ dp[x] = "bind" /\ dp'[x] = "prompt1" /\ bound'[x] = "yes"
            /\ UNCHANGED <<reg, halt, proc>>
        BY <1>t, <2>7, Zenon DEF Bind, Goes, instance
      <3> QED BY <1>0, <3>1, Zenon DEF Handled, InHand, Drives
    <2>8. CASE Drop(x)
      <3>1. dp[x] = "drop" /\ dp'[x] = "over" /\ UNCHANGED <<proc, bound>> /\ Unmap({x})
        BY <1>t, <2>8, Zenon DEF Drop, Goes, mission
      <3>2. \/ reg[x] = "yes" /\ reg'[x] = "gone" /\ halt'[x] = "unmapped"
            \/ reg[x] # "yes" /\ reg'[x] = reg[x] /\ halt'[x] = halt[x]
        BY <3>1, Zenon DEF Unmap
      <3>3. reg[x] \in {"no", "yes", "gone"} /\ halt[x] \in {"no", "unmapped", "shut", "dead"}
        BY Zenon DEF TypeInv, WireTypes
      <3> QED BY <1>0, <3>1, <3>2, <3>3, Zenon DEF Handled, InHand, Drives
    <2> QED BY <1>3, <2>1, <2>2, <2>3, <2>4, <2>5, <2>6, <2>7, <2>8, Zenon DEF DispatchStep
  <1>4. CASE (DriveStep(x) /\ ~Reap(x) /\ ~Conclude(x)) \/ TurnFails(x) \/ TurnEnds(x) \/ TurnCancelled(x)
    <2>1. UNCHANGED <<reg, halt, proc, bound>>
      BY <1>4, Zenon DEF DriveStep, Prompt, Judge, FinishStuck, FileBlocker, FailedAtRest, FailedReports,
         Derail, TurnFails, TurnEnds, TurnCancelled, instance, mission
    <2>2. dp[x] \in Drives /\ \E d \in Drives : dp' = [dp EXCEPT ![x] = d]
      <3>1. CASE Prompt(x) \/ Judge(x)
        BY <3>1, ZenonT(30) DEF Prompt, Judge, Goes, Drives
      <3>2. CASE FinishStuck(x) \/ FileBlocker(x) \/ FailedAtRest(x) \/ FailedReports(x) \/ Derail(x)
        BY <3>2, Zenon DEF FinishStuck, FileBlocker, FailedAtRest, FailedReports, Derail, Goes, Drives
      <3>3. CASE TurnFails(x) \/ TurnEnds(x) \/ TurnCancelled(x)
        BY <3>3, Zenon DEF TurnFails, TurnEnds, TurnCancelled, InTurn, Drives
      <3> QED BY <1>4, <3>1, <3>2, <3>3, Zenon DEF DriveStep
    <2>3. dp'[x] \in Drives
      BY <1>t, <2>2, Zenon
    <2> QED BY <1>0, <2>1, <2>2, <2>3, Zenon DEF Handled, InHand, Drives
  <1>5. CASE Reap(x) \/ Conclude(x)
    <2>1. CASE Reap(x)
      <3>1. dp[x] = "reap" /\ dp'[x] = "ending" /\ UNCHANGED <<proc, bound>> /\ Unmap({x})
        BY <1>t, <2>1, Zenon DEF Reap, Goes, mission
      <3>2. \/ reg'[x] = reg[x] /\ halt'[x] = halt[x]
            \/ reg'[x] = "gone" /\ halt'[x] = "unmapped"
        BY <3>1, Zenon DEF Unmap
      <3> QED BY <1>0, <3>1, <3>2, Zenon DEF Handled, InHand, Drives
    <2>2. CASE Conclude(x)
      <3>1. dp[x] = "ending" /\ dp'[x] = "over" /\ UNCHANGED <<reg, halt, proc, bound>>
        BY <1>t, <2>2, Zenon DEF Conclude, Goes, instance, mission
      <3> QED BY <1>0, <3>1, Zenon DEF Handled, InHand, Drives
    <2> QED BY <1>5, <2>1, <2>2, Zenon
  <1>6. CASE InstanceStep(x) \/ Crash(x)
    <2>1. dp' = dp /\ reg' = reg /\ bound' = bound
      BY <1>6, Zenon DEF InstanceStep, Shut, CloseProcess, WatchDog, RootKills, Crash, mission
    <2>2. \/ halt[x] = "unmapped" /\ halt'[x] = "shut" /\ proc' = proc
          \/ proc'[x] = "down" /\ proc[x] # "none" /\ (halt'[x] = halt[x] \/ (halt[x] = "shut" /\ halt'[x] = "dead"))
          \/ halt[x] = "shut" /\ halt'[x] = "dead" /\ proc'[x] = "down"
          \/ halt' = halt /\ proc' = proc
      BY <1>t, <1>6, Zenon DEF InstanceStep, Shut, CloseProcess, WatchDog, RootKills, Crash
    <2> QED BY <1>0, <2>1, <2>2, Zenon DEF Handled, InHand, Drives
  <1>7. CASE Refuse(x)
    <2>1. dp[x] = "idle" /\ dp'[x] = "over" /\ UNCHANGED <<reg, halt, proc, bound>>
      BY <1>t, <1>7, Zenon DEF Refuse, Goes, instance, mission
    <2> QED BY <1>0, <2>1, Zenon DEF Handled, InHand, Drives
  <1>8. CASE UnitReports(x) \/ UnitFinishes(x) \/ StopMission(x) \/ LoseEvent(x) \/ Publish(x)
    <2>1. UNCHANGED <<dp, reg, halt, proc, bound>>
      BY <1>8, Zenon DEF UnitReports, UnitFinishes, StopMission, LoseEvent, Publish, instance, mission
    <2> QED BY <1>1, <2>1, Zenon
  <1>9. CASE StopInstance(x) \/ StopBound \/ CloseManager
    <2>1. UNCHANGED <<dp, proc, bound>> /\ \E D : Unmap(D)
      BY <1>9, Zenon DEF StopInstance, StopBound, CloseManager, mission
    <2> QED BY <1>0, <2>1, UnmapHands, Zenon
  <1>10. CASE Take \/ SkipEvent \/ Reaped \/ Unsubscribe \/ CancelRoot \/ UNCHANGED vars
    <2>1. UNCHANGED <<dp, reg, halt, proc, bound>>
      BY <1>10, Zenon DEF Take, SkipEvent, Reaped, Unsubscribe, CancelRoot, vars, instance, mission
    <2> QED BY <1>1, <2>1, Zenon
  <1>11. ASSUME Environment(x) PROVE Handled(x)'
    BY <1>4, <1>6, <1>7, <1>8, <1>9, <1>11, Zenon DEF Environment
  <1>12. ASSUME NEW u \in Units,
                DispatchStep(u) \/ DriveStep(u) \/ TurnFails(u) \/ InstanceStep(u)
                  \/ Publish(u) \/ Environment(u)
         PROVE  Handled(x)'
    BY <1>2, <1>3, <1>4, <1>5, <1>6, <1>8, <1>11, <1>12, Zenon
  <1> QED BY <1>9, <1>10, <1>12, Zenon DEF Next, HostStep
-----------------------------------------------------------------------------
(* What becomes of a mission at rest.                                      *)
Before == {"idle", "spawn", "register", "session", "create"}

(* The mission exists from Create on, only a mission at rest is announced, *)
(* and a failed turn reaches its reaping with the mission at rest.         *)
Stage(u) ==
    /\ dp[u] \in Before => ms[u] = "none"
    /\ dp[u] \in Drives \cup {"bind"} => ms[u] # "none"
    /\ ms[u] # "rest" => ev[u] = "none"
    /\ dp[u] = "reap" => ms[u] = "rest" \/ note[u] = "broke"

(* The event of a mission at rest is still to be published, is lost, is on *)
(* its way, came before the bind or was handled.                           *)
Told(u) ==
    ms[u] = "rest" =>
        \/ ev[u] \in {"due", "lost"}
        \/ ev[u] = "queued" /\ (td = <<u, "read">> \/ \E i \in 1..Len(bus) : bus[i] = u)
        \/ ev[u] = "early" /\ tools[u] = "closed"
        \/ ev[u] = "handled" /\ tools[u] = "closed" /\ reg[u] # "yes"

(* Only missions at rest are on the wire; the one being handled has its    *)
(* tools closed.                                                           *)
WireRests ==
    /\ \A i \in 1..Len(bus) : ms[bus[i]] = "rest"
    /\ td # <<>> => ms[td[1]] = "rest" /\ tools[td[1]] = "closed"

StageInv == \A u \in Units : Stage(u)
ToldInv == \A u \in Units : Told(u)

(* A mission at rest whose event was handled has no instance in the map,   *)
(* its tools closed and its subprocess stopped or being stopped; one whose *)
(* event came before the bind has its tools closed; every other event is   *)
(* still to come or was lost.                                              *)
RestAccounted ==
    \A u \in Units :
        /\ Told(u)
        /\ (ms[u] = "rest" /\ ev[u] = "handled" /\ proc[u] = "up")
             => halt[u] \in {"unmapped", "shut"}

(* The drive of a failed turn stops the unit only with the mission at rest *)
(* or the store's refusal noted.                                           *)
ReapsAtRest == \A u \in Units : dp[u] = "reap" => ms[u] = "rest" \/ note[u] = "broke"

LEMMA StageKept == TypeInv /\ WireTypes /\ WireRests /\ StageInv /\ [Next]_vars => StageInv'
  <1> SUFFICES ASSUME TypeInv, WireTypes, WireRests, StageInv, [Next]_vars, NEW x \in Units
               PROVE  Stage(x)'
    BY Zenon DEF StageInv
  <1>0. Stage(x)
    BY Zenon DEF StageInv
  <1>t. /\ x \in DOMAIN dp /\ x \in DOMAIN ms /\ x \in DOMAIN ev /\ x \in DOMAIN note
        /\ ms[x] \in {"none", "open", "rest"}
    BY DEF TypeInv, WireTypes
  <1>1. ASSUME dp'[x] = dp[x], ms'[x] = ms[x], ev'[x] = ev[x], note'[x] = note[x]
        PROVE  Stage(x)'
    BY <1>0, <1>1, Zenon DEF Stage
  <1>2. ASSUME NEW u \in Units, x # u,
               DispatchStep(u) \/ DriveStep(u) \/ TurnFails(u) \/ InstanceStep(u)
                 \/ Publish(u) \/ Environment(u)
        PROVE  Stage(x)'
    <2>1. dp'[x] = dp[x] /\ ms'[x] = ms[x] /\ ev'[x] = ev[x] /\ note'[x] = note[x]
      BY <1>2, OthersStay, Zenon
    <2> QED BY <1>1, <2>1, Zenon
  <1>f. ASSUME Finish(x)
        PROVE  \/ ms[x] = "open" /\ ms'[x] = "rest" /\ ev'[x] = "due"
               \/ ms[x] # "open" /\ ms'[x] = ms[x] /\ ev'[x] = ev[x]
    BY <1>t, <1>f, Zenon DEF Finish
  <1>3. CASE DispatchStep(x)
    <2>1. CASE Admit(x) \/ Spawn(x) \/ Register(x) \/ OpenSession(x)
      <3>1. dp[x] \in Before /\ dp'[x] \in Before /\ UNCHANGED <<ms, ev, note>>
        BY <1>t, <2>1, Zenon DEF Admit, Spawn, Register, OpenSession, Goes, mission, Before
      <3> QED BY <1>0, <3>1, Zenon DEF Stage, Before, Drives
    <2>2. CASE SpawnFails(x) \/ RegisterRefused(x) \/ CallFails(x) \/ Drop(x)
      <3>1. dp'[x] \in {"drop", "over"} /\ UNCHANGED <<ms, ev, note>>
        BY <1>t, <2>2, Zenon DEF SpawnFails, RegisterRefused, CallFails, Drop, Goes, mission
      <3> QED BY <1>0, <3>1, Zenon DEF Stage, Before, Drives
    <2>3. CASE Create(x)
      <3>1. /\ dp[x] = "create" /\ dp'[x] = "bind" /\ ms'[x] = "open"
            /\ UNCHANGED <<ev, note>>
        BY <1>t, <2>3, Zenon DEF Create, Goes
      <3> QED BY <1>0, <3>1, Zenon DEF Stage, Before, Drives
    <2>4. CASE Bind(x)
      <3>1. dp[x] = "bind" /\ dp'[x] = "prompt1" /\ UNCHANGED <<ms, ev, note>>
        BY <1>t, <2>4, Zenon DEF Bind, Goes
      <3> QED BY <1>0, <3>1, Zenon DEF Stage, Before, Drives
    <2> QED BY <1>3, <2>1, <2>2, <2>3, <2>4, Zenon DEF DispatchStep
  <1>4. CASE DriveStep(x) \/ TurnFails(x) \/ TurnEnds(x) \/ TurnCancelled(x)
    <2>1. CASE Prompt(x) \/ Judge(x) \/ TurnFails(x) \/ TurnEnds(x)
      <3>1. UNCHANGED <<ms, ev, note>>
        BY <2>1, Zenon DEF Prompt, Judge, TurnFails, TurnEnds, mission
      <3>2. dp[x] \in Drives /\ \E d \in Drives \ {"reap"} : dp' = [dp EXCEPT ![x] = d]
        BY <2>1, Zenon DEF Prompt, Judge, TurnFails, TurnEnds, InTurn, Goes, Drives
      <3>3. dp'[x] \in Drives \ {"reap"}
        BY <1>t, <3>2, Zenon
      <3> QED BY <1>0, <3>1, <3>2, <3>3, Zenon DEF Stage, Before, Drives
    <2>2. CASE TurnCancelled(x) \/ FileBlocker(x) \/ FailedReports(x)
      <3>1. /\ dp[x] \in Drives /\ dp'[x] \in {"ending", "derail"} /\ UNCHANGED <<ms, ev>>
        BY <1>t, <2>2, Zenon DEF TurnCancelled, FileBlocker, FailedReports, InTurn, Goes, mission, Drives
      <3> QED BY <1>0, <3>1, Zenon DEF Stage, Before, Drives
    <2>3. CASE FinishStuck(x)
      <3>1. /\ dp[x] = "stuck" /\ dp'[x] = "ending"
            /\ Finish(x) \/ UNCHANGED <<ms, ev>>
        BY <1>t, <2>3, Zenon DEF FinishStuck, Goes
      <3> QED BY <1>0, <1>f, <3>1, Zenon DEF Stage, Before, Drives
    <2>4. CASE FailedAtRest(x)
      <3>1. /\ dp[x] = "failed" /\ dp'[x] = "reap" /\ ms[x] # "open"
            /\ UNCHANGED <<ms, ev, note>>
        BY <1>t, <2>4, Zenon DEF FailedAtRest, Goes, mission
      <3> QED BY <1>0, <1>t, <3>1, Zenon DEF Stage, Before, Drives
    <2>5. CASE Derail(x)
      <3>1. /\ dp[x] = "derail" /\ dp'[x] = "reap"
            /\ Finish(x) \/ (UNCHANGED <<ms, ev>> /\ note'[x] = "broke")
        BY <1>t, <2>5, Zenon DEF Derail, Breaks, Goes
      <3> QED BY <1>0, <1>t, <1>f, <3>1, Zenon DEF Stage, Before, Drives
    <2>6. CASE Reap(x) \/ Conclude(x)
      <3>1. /\ dp[x] \in Drives /\ dp'[x] \in {"ending", "over"} /\ UNCHANGED <<ms, ev>>
        BY <1>t, <2>6, Zenon DEF Reap, Conclude, Goes, mission, Drives
      <3> QED BY <1>0, <3>1, Zenon DEF Stage, Before, Drives
    <2> QED BY <1>4, <2>1, <2>2, <2>3, <2>4, <2>5, <2>6, Zenon DEF DriveStep
  <1>5. CASE InstanceStep(x) \/ Crash(x) \/ StopInstance(x) \/ UnitReports(x)
    <2>1. UNCHANGED <<dp, ms, ev, note>>
      BY <1>5, Zenon DEF InstanceStep, Shut, CloseProcess, WatchDog, RootKills, Crash,
         StopInstance, UnitReports, mission
    <2> QED BY <1>1, <2>1, Zenon
  <1>6. CASE Refuse(x)
    <2>1. dp'[x] = "over" /\ UNCHANGED <<ms, ev, note>>
      BY <1>t, <1>6, Zenon DEF Refuse, Goes, mission
    <2> QED BY <1>0, <2>1, Zenon DEF Stage, Before, Drives
  <1>7. CASE UnitFinishes(x) \/ StopMission(x)
    <2>1. Finish(x) /\ ms[x] = "open" /\ UNCHANGED <<dp, note>>
      BY <1>7, Zenon DEF UnitFinishes, StopMission
    <2> QED BY <1>0, <1>f, <2>1, Zenon DEF Stage, Before, Drives
  <1>8. CASE Publish(x) \/ LoseEvent(x)
    <2>1. ev[x] = "due" /\ UNCHANGED <<dp, ms, note>>
      BY <1>8, Zenon DEF Publish, LoseEvent, mission
    <2> QED BY <1>0, <2>1, Zenon DEF Stage
  <1>9. CASE Take \/ Reaped \/ CloseManager \/ CancelRoot \/ UNCHANGED vars
    <2>1. UNCHANGED <<dp, ms, ev, note>>
      BY <1>9, Zenon DEF Take, Reaped, CloseManager, CancelRoot, vars, mission
    <2> QED BY <1>1, <2>1, Zenon
  <1>10. CASE StopBound \/ SkipEvent
    <2>1. UNCHANGED <<dp, ms, note>> /\ td # <<>> /\ (ev'[x] = ev[x] \/ x = td[1])
      BY <1>t, <1>10, Zenon DEF StopBound, SkipEvent, mission
    <2>2. ev'[x] = ev[x] \/ ms[x] = "rest"
      BY <2>1, Zenon DEF WireRests
    <2> QED BY <1>0, <2>1, <2>2, Zenon DEF Stage
  <1>11. CASE Unsubscribe
    <2>1. UNCHANGED <<dp, ms, note>>
      BY <1>11, Zenon DEF Unsubscribe, mission
    <2>2. PICK k \in 0..Len(bus) :
            ev' = [u \in Units |-> IF \E i \in k + 1..Len(bus) : bus[i] = u
                                   THEN "lost" ELSE ev[u]]
      BY <1>11, Zenon DEF Unsubscribe
    <2>3. ev'[x] = ev[x] \/ \E i \in k + 1..Len(bus) : bus[i] = x
      BY <2>2, Zenon
    <2>4. ASSUME NEW i \in k + 1..Len(bus) PROVE i \in 1..Len(bus)
      BY <2>4, LenProperties DEF WireTypes
    <2>5. ev'[x] = ev[x] \/ ms[x] = "rest"
      BY <2>3, <2>4, Zenon DEF WireRests
    <2> QED BY <1>0, <2>1, <2>5, Zenon DEF Stage
  <1>12. ASSUME Environment(x) PROVE Stage(x)'
    BY <1>4, <1>5, <1>6, <1>7, <1>8, <1>12, Zenon DEF Environment
  <1>13. ASSUME NEW u \in Units,
                DispatchStep(u) \/ DriveStep(u) \/ TurnFails(u) \/ InstanceStep(u)
                  \/ Publish(u) \/ Environment(u)
         PROVE  Stage(x)'
    BY <1>2, <1>3, <1>4, <1>5, <1>8, <1>12, <1>13, Zenon
  <1> QED BY <1>9, <1>10, <1>11, <1>13, Zenon DEF Next, HostStep

(* A mission at rest stays at rest, its tools are not opened again and its *)
(* instance does not come back into the map.                               *)
LEMMA RestStays ==
    ASSUME TypeInv, WireTypes, StageInv, [Next]_vars, NEW x \in Units, ms[x] = "rest"
    PROVE  /\ ms'[x] = "rest"
           /\ tools[x] = "closed" => tools'[x] = "closed"
           /\ reg[x] # "yes" => reg'[x] # "yes"
  <1>0. Stage(x)
    BY Zenon DEF StageInv
  <1>s. dp[x] \notin Before
    BY <1>0, Zenon DEF Stage, Before
  <1>t. x \in DOMAIN ms /\ x \in DOMAIN tools /\ x \in DOMAIN reg
    BY DEF TypeInv, WireTypes
  <1>u. ASSUME NEW D, Unmap(D) PROVE reg'[x] = reg[x] \/ reg'[x] = "gone"
    BY <1>u, Zenon DEF Unmap
  <1>g. "gone" # "yes"
    OBVIOUS
  <1>c. ASSUME NEW u \in Units, CloseTools(u) PROVE tools[x] = "closed" => tools'[x] = "closed"
    BY <1>c, <1>t, Zenon DEF CloseTools
  <1>1. ASSUME NEW u \in Units, x # u,
               DispatchStep(u) \/ DriveStep(u) \/ TurnFails(u) \/ InstanceStep(u)
                 \/ Publish(u) \/ Environment(u)
        PROVE  ms'[x] = ms[x] /\ tools'[x] = tools[x] /\ reg'[x] = reg[x]
    BY <1>1, OthersStay, Zenon
  <1>2. CASE DispatchStep(x)
    <2>1. ~Admit(x) /\ ~Spawn(x) /\ ~SpawnFails(x) /\ ~Register(x) /\ ~RegisterRefused(x)
          /\ ~OpenSession(x) /\ ~Create(x)
      BY <1>s, Zenon DEF Admit, Spawn, SpawnFails, Register, RegisterRefused, OpenSession, Create,
         Goes, Before
    <2>2. Bind(x) \/ CallFails(x) \/ Drop(x)
      BY <1>2, <2>1, Zenon DEF DispatchStep
    <2>3. CASE Bind(x) \/ CallFails(x)
      BY <2>3, Zenon DEF Bind, CallFails, instance, mission
    <2>4. CASE Drop(x)
      BY <2>4, <1>u, <1>g, <1>c, Zenon DEF Drop, mission
    <2> QED BY <2>2, <2>3, <2>4, Zenon
  <1>f. ASSUME Finish(x) PROVE ms'[x] = "rest"
    BY <1>f, <1>t, Zenon DEF Finish
  <1>3. CASE DriveStep(x)
    <2>1. CASE Reap(x)
      BY <2>1, <1>u, <1>g, Zenon DEF Reap, mission
    <2>2. CASE Conclude(x)
      BY <2>2, <1>t, Zenon DEF Conclude, instance, mission
    <2>3. CASE FinishStuck(x) \/ Derail(x)
      BY <2>3, <1>f, Zenon DEF FinishStuck, Derail, instance
    <2>4. CASE Prompt(x) \/ Judge(x) \/ FileBlocker(x) \/ FailedAtRest(x) \/ FailedReports(x)
      BY <2>4, Zenon DEF Prompt, Judge, FileBlocker, FailedAtRest, FailedReports, instance, mission
    <2> QED BY <1>3, <2>1, <2>2, <2>3, <2>4, Zenon DEF DriveStep
  <1>4. CASE TurnFails(x) \/ InstanceStep(x) \/ Publish(x)
    BY <1>4, Zenon DEF TurnFails, InstanceStep, Shut, CloseProcess, WatchDog, RootKills, Publish,
       instance, mission
  <1>5. CASE Environment(x)
    <2>1. CASE UnitFinishes(x) \/ StopMission(x)
      BY <2>1, <1>f, Zenon DEF UnitFinishes, StopMission, instance
    <2>2. CASE StopInstance(x)
      BY <2>2, <1>u, <1>g, Zenon DEF StopInstance, mission
    <2>3. CASE Refuse(x) \/ TurnEnds(x) \/ TurnCancelled(x) \/ UnitReports(x) \/ Crash(x)
               \/ LoseEvent(x)
      BY <2>3, Zenon DEF Refuse, TurnEnds, TurnCancelled, UnitReports, Crash, LoseEvent,
         instance, mission
    <2> QED BY <1>5, <2>1, <2>2, <2>3, Zenon DEF Environment
  <1>6. CASE Take
    BY <1>6, <1>t, Zenon DEF Take, CloseTools, instance, mission
  <1>7. CASE StopBound \/ CloseManager
    BY <1>7, <1>u, <1>g, Zenon DEF StopBound, CloseManager, mission
  <1>8. CASE SkipEvent \/ Reaped \/ CancelRoot \/ UNCHANGED vars
    BY <1>8, Zenon DEF SkipEvent, Reaped, CancelRoot, vars, instance, mission
  <1>9. CASE Unsubscribe
    BY <1>9, Zenon DEF Unsubscribe, instance, mission
  <1> QED BY <1>1, <1>2, <1>3, <1>4, <1>5, <1>6, <1>7, <1>8, <1>9, Zenon DEF Next, HostStep

(* How the wire moves: it grows by an announced mission, loses its head to *)
(* the reaping goroutine or is cut at shutdown.                            *)
LEMMA WireMoves ==
    ASSUME [Next]_vars
    PROVE  \/ UNCHANGED <<bus, td>>
           \/ \E u \in Units : Publish(u)
           \/ Take \/ StopBound \/ SkipEvent \/ Reaped \/ Unsubscribe
  <1>1. ASSUME NEW u \in Units, DispatchStep(u) PROVE UNCHANGED <<bus, td>>
    BY <1>1, Zenon DEF DispatchStep, Admit, Spawn, SpawnFails, Register, RegisterRefused,
       OpenSession, Create, Bind, CallFails, Drop, wire
  <1>2. ASSUME NEW u \in Units, DriveStep(u) PROVE UNCHANGED <<bus, td>>
    BY <1>2, Zenon DEF DriveStep, Prompt, Judge, FinishStuck, FileBlocker, FailedAtRest,
       FailedReports, Derail, Reap, Conclude, wire
  <1>3. ASSUME NEW u \in Units, TurnFails(u) \/ InstanceStep(u) \/ Environment(u)
        PROVE  UNCHANGED <<bus, td>>
    BY <1>3, Zenon DEF TurnFails, InstanceStep, Shut, CloseProcess, WatchDog, RootKills,
       Environment, Refuse, TurnEnds, TurnCancelled, UnitReports, UnitFinishes, StopMission,
       StopInstance, Crash, LoseEvent, wire
  <1>4. CASE CloseManager \/ CancelRoot \/ UNCHANGED vars
    BY <1>4, Zenon DEF CloseManager, CancelRoot, vars, wire
  <1> QED BY <1>1, <1>2, <1>3, <1>4, Zenon DEF Next, HostStep

LEMMA WireRestsKept ==
    TypeInv /\ WireTypes /\ StageInv /\ WireRests /\ [Next]_vars => WireRests'
  <1> SUFFICES ASSUME TypeInv, WireTypes, StageInv, WireRests, [Next]_vars
               PROVE  WireRests'
    OBVIOUS
  <1>b. bus \in Seq(Units) /\ \A i \in 1..Len(bus) : bus[i] \in Units
    BY DEF WireTypes
  <1>d. td # <<>> => td[1] \in Units
    BY Zenon DEF WireTypes
  <1>r. \A i \in 1..Len(bus) : ms'[bus[i]] = "rest"
    BY <1>b, RestStays, Zenon DEF WireRests
  <1>h. td # <<>> => ms'[td[1]] = "rest" /\ tools'[td[1]] = "closed"
    BY <1>d, RestStays, Zenon DEF WireRests
  <1>1. CASE UNCHANGED <<bus, td>>
    BY <1>1, <1>r, <1>h, Zenon DEF WireRests
  <1>2. ASSUME NEW u \in Units, Publish(u) PROVE WireRests'
    <2>1. ms[u] = "rest"
      <3>1. Stage(u) /\ ev[u] = "due"
        BY <1>2, Zenon DEF StageInv, Publish
      <3> QED BY <3>1, Zenon DEF Stage
    <2>2. ms'[u] = "rest"
      BY <2>1, RestStays, Zenon
    <2>3. td' = td /\ (bus' = bus \/ bus' = Append(bus, u))
      BY <1>2, Zenon DEF Publish
    <2>4. \A i \in 1..Len(bus') : ms'[bus'[i]] = "rest"
      <3>1. CASE bus' = bus
        BY <3>1, <1>r, Zenon
      <3>2. CASE bus' = Append(bus, u)
        <4>1. ASSUME NEW i \in 1..Len(bus') PROVE bus'[i] = u \/ (i \in 1..Len(bus) /\ bus'[i] = bus[i])
          BY <3>2, <4>1, <1>b, AppendProperties
        <4> QED BY <4>1, <1>r, <2>2, Zenon
      <3> QED BY <2>3, <3>1, <3>2, Zenon
    <2> QED BY <2>3, <2>4, <1>h, Zenon DEF WireRests
  <1>3. CASE Take
    <2>1. td' = <<Head(bus), "read">> /\ bus' = Tail(bus) /\ bus # <<>> /\ CloseTools(Head(bus))
      BY <1>3, Zenon DEF Take
    <2>2. Head(bus) = bus[1] /\ 1 \in 1..Len(bus) /\ td'[1] = Head(bus)
      BY <2>1, <1>b
    <2>3. tools'[Head(bus)] = "closed"
      BY <2>1, <2>2, <1>b, Zenon DEF CloseTools, WireTypes
    <2>4. ASSUME NEW i \in 1..Len(bus') PROVE i + 1 \in 1..Len(bus) /\ bus'[i] = bus[i + 1]
      BY <2>1, <2>4, <1>b, HeadTailProperties
    <2>5. \A i \in 1..Len(bus') : ms'[bus'[i]] = "rest"
      BY <2>4, <1>r, Zenon
    <2>6. ms'[td'[1]] = "rest" /\ tools'[td'[1]] = "closed"
      BY <2>2, <2>3, <1>r, Zenon
    <2> QED BY <2>5, <2>6, Zenon DEF WireRests
  <1>4. CASE StopBound
    <2>1. td # <<>> /\ bus' = bus /\ td' = <<td[1], "stop">>
      BY <1>4, Zenon DEF StopBound
    <2>2. td'[1] = td[1]
      BY <2>1, Zenon
    <2> QED BY <2>1, <2>2, <1>r, <1>h, Zenon DEF WireRests
  <1>5. CASE SkipEvent \/ Reaped
    <2>1. bus' = bus /\ td' = <<>>
      BY <1>5, Zenon DEF SkipEvent, Reaped
    <2> QED BY <2>1, <1>r, Zenon DEF WireRests
  <1>6. CASE Unsubscribe
    <2>1. td' = td /\ \E k \in 0..Len(bus) : bus' = SubSeq(bus, 1, k)
      BY <1>6, Zenon DEF Unsubscribe
    <2>2. PICK k \in 0..Len(bus) : bus' = SubSeq(bus, 1, k)
      BY <2>1, Zenon
    <2>3. ASSUME NEW i \in 1..Len(bus') PROVE i \in 1..Len(bus) /\ bus'[i] = bus[i]
      BY <2>2, <2>3, <1>b, SubSeqProperties
    <2>4. \A i \in 1..Len(bus') : ms'[bus'[i]] = "rest"
      BY <2>3, <1>r, Zenon
    <2> QED BY <2>1, <2>4, <1>h, Zenon DEF WireRests
  <1> QED BY <1>1, <1>2, <1>3, <1>4, <1>5, <1>6, WireMoves, Zenon

(* What a step does to the event of a mission that is at rest already.     *)
LEMMA EventMoves ==
    ASSUME TypeInv, WireTypes, StageInv, [Next]_vars, NEW x \in Units, ms[x] = "rest"
    PROVE  \/ ev'[x] = ev[x] \/ ev'[x] = "lost"
           \/ Publish(x)
           \/ (StopBound \/ SkipEvent) /\ td[1] = x
  <1>t. x \in DOMAIN ev
    BY Zenon DEF WireTypes
  <1>r. ms[x] # "open"
    OBVIOUS
  <1>1. ASSUME NEW u \in Units, x # u,
               DispatchStep(u) \/ DriveStep(u) \/ TurnFails(u) \/ InstanceStep(u)
                 \/ Publish(u) \/ Environment(u)
        PROVE  ev'[x] = ev[x]
    BY <1>1, OthersStay, Zenon
  <1>f. ASSUME Finish(x) PROVE ev'[x] = ev[x]
    BY <1>f, <1>t, <1>r, Zenon DEF Finish
  <1>2. CASE DispatchStep(x)
    BY <1>2, Zenon DEF DispatchStep, Admit, Spawn, SpawnFails, Register, RegisterRefused,
       OpenSession, Create, Bind, CallFails, Drop
  <1>3. CASE DriveStep(x)
    BY <1>3, <1>f, Zenon DEF DriveStep, Prompt, Judge, FinishStuck, FileBlocker, FailedAtRest,
       FailedReports, Derail, Reap, Conclude
  <1>4. CASE TurnFails(x) \/ InstanceStep(x)
    BY <1>4, Zenon DEF TurnFails, InstanceStep, Shut, CloseProcess, WatchDog, RootKills
  <1>5. CASE Environment(x)
    BY <1>5, <1>f, <1>t, Zenon DEF Environment, Refuse, TurnEnds, TurnCancelled, UnitReports,
       UnitFinishes, StopMission, StopInstance, Crash, LoseEvent
  <1>6. CASE Take \/ Reaped \/ CloseManager \/ CancelRoot \/ UNCHANGED vars
    BY <1>6, Zenon DEF Take, Reaped, CloseManager, CancelRoot, vars
  <1>7. CASE StopBound \/ SkipEvent
    BY <1>7, <1>t, Zenon DEF StopBound, SkipEvent
  <1>8. CASE Unsubscribe
    BY <1>8, Zenon DEF Unsubscribe
  <1> QED BY <1>1, <1>2, <1>3, <1>4, <1>5, <1>6, <1>7, <1>8, Zenon DEF Next, HostStep

(* A mission that comes to rest in this step has its event to publish.     *)
LEMMA RestIsDue ==
    ASSUME TypeInv, WireTypes, [Next]_vars, NEW x \in Units, ms[x] # "rest", ms'[x] = "rest"
    PROVE  ev'[x] = "due"
  <1>t. x \in DOMAIN ev /\ x \in DOMAIN ms
    BY DEF TypeInv, WireTypes
  <1>f. ASSUME Finish(x) PROVE ev'[x] = "due"
    BY <1>f, <1>t, Zenon DEF Finish
  <1>1. ASSUME NEW u \in Units, x # u,
               DispatchStep(u) \/ DriveStep(u) \/ TurnFails(u) \/ InstanceStep(u)
                 \/ Publish(u) \/ Environment(u)
        PROVE  FALSE
    BY <1>1, OthersStay, Zenon
  <1>2. CASE DispatchStep(x)
    <2>1. CASE Create(x)
      <3>1. ms'[x] = "open"
        BY <2>1, <1>t, Zenon DEF Create
      <3> QED BY <3>1, Zenon
    <2>2. CASE ~Create(x)
      BY <1>2, <2>2, Zenon DEF DispatchStep, Admit, Spawn, SpawnFails, Register, RegisterRefused,
         OpenSession, Bind, CallFails, Drop, mission
    <2> QED BY <2>1, <2>2, Zenon
  <1>3. CASE DriveStep(x)
    BY <1>3, <1>f, Zenon DEF DriveStep, Prompt, Judge, FinishStuck, FileBlocker, FailedAtRest,
       FailedReports, Derail, Reap, Conclude, mission
  <1>4. CASE TurnFails(x) \/ InstanceStep(x) \/ Publish(x)
    BY <1>4, Zenon DEF TurnFails, InstanceStep, Shut, CloseProcess, WatchDog, RootKills, Publish, mission
  <1>5. CASE Environment(x)
    BY <1>5, <1>f, Zenon DEF Environment, Refuse, TurnEnds, TurnCancelled, UnitReports,
       UnitFinishes, StopMission, StopInstance, Crash, LoseEvent, mission
  <1>6. CASE Take \/ Reaped \/ StopBound \/ SkipEvent \/ HostStep \/ UNCHANGED vars
    BY <1>6, Zenon DEF Take, Reaped, StopBound, SkipEvent, HostStep, Unsubscribe, CloseManager,
       CancelRoot, vars, mission
  <1> QED BY <1>1, <1>2, <1>3, <1>4, <1>5, <1>6, Zenon DEF Next

(* An event under way stays under way until the goroutine handles it, or   *)
(* the subscription's end loses it.                                        *)
LEMMA QueuedStays ==
    ASSUME TypeInv, WireTypes, StageInv, [Next]_vars, NEW x \in Units, ms[x] = "rest",
           ev[x] = "queued", ev'[x] = "queued",
           td = <<x, "read">> \/ \E i \in 1..Len(bus) : bus[i] = x
    PROVE  td' = <<x, "read">> \/ \E i \in 1..Len(bus') : bus'[i] = x
  <1>b. bus \in Seq(Units) /\ x \in DOMAIN ev
    BY Zenon DEF WireTypes
  <1>n. "read" # "stop"
    OBVIOUS
  <1>1. CASE UNCHANGED <<bus, td>>
    BY <1>1, Zenon
  <1>2. ASSUME NEW u \in Units, Publish(u)
        PROVE  td' = <<x, "read">> \/ \E i \in 1..Len(bus') : bus'[i] = x
    <2>1. td' = td /\ (bus' = bus \/ bus' = Append(bus, u))
      BY <1>2, Zenon DEF Publish
    <2>2. ASSUME bus' = Append(bus, u), NEW i \in 1..Len(bus)
          PROVE  i \in 1..Len(bus') /\ bus'[i] = bus[i]
      BY <2>2, <1>b, AppendProperties
    <2> QED BY <2>1, <2>2, Zenon
  <1>3. CASE Take
    <2>1. td = <<>> /\ td' = <<Head(bus), "read">> /\ bus' = Tail(bus) /\ bus # <<>>
      BY <1>3, Zenon DEF Take
    <2>2. td # <<x, "read">>
      BY <2>1, Zenon
    <2>3. PICK i \in 1..Len(bus) : bus[i] = x
      BY <2>2, Zenon
    <2>4. CASE i = 1
      <3>1. Head(bus) = x
        BY <2>3, <2>4, <1>b
      <3> QED BY <2>1, <3>1, Zenon
    <2>5. CASE i # 1
      <3>1. i - 1 \in 1..Len(bus') /\ bus'[i - 1] = x
        BY <2>1, <2>3, <2>5, <1>b, HeadTailProperties
      <3> QED BY <3>1, Zenon
    <2> QED BY <2>4, <2>5, Zenon
  <1>4. CASE StopBound
    <2>1. bus' = bus /\ ev' = [ev EXCEPT ![td[1]] = "handled"]
      BY <1>4, Zenon DEF StopBound
    <2>2. td # <<x, "read">>
      <3>1. td[1] # x
        BY <2>1, <1>b, Zenon
      <3> QED BY <3>1
    <2> QED BY <2>1, <2>2, Zenon
  <1>5. CASE SkipEvent
    <2>1. bus' = bus /\ \E e \in {"early", "lost"} : ev' = [ev EXCEPT ![td[1]] = e]
      BY <1>5, Zenon DEF SkipEvent
    <2>2. td # <<x, "read">>
      <3>1. td[1] # x
        BY <2>1, <1>b, Zenon
      <3> QED BY <3>1
    <2> QED BY <2>1, <2>2, Zenon
  <1>6. CASE Reaped
    <2>1. bus' = bus /\ td[2] = "stop"
      BY <1>6, Zenon DEF Reaped
    <2>2. td # <<x, "read">>
      BY <2>1
    <2> QED BY <2>1, <2>2, Zenon
  <1>7. CASE Unsubscribe
    <2>1. td' = td
      BY <1>7, Zenon DEF Unsubscribe
    <2>2. PICK k \in 0..Len(bus) :
            /\ bus' = SubSeq(bus, 1, k)
            /\ ev' = [u \in Units |-> IF \E i \in k + 1..Len(bus) : bus[i] = u
                                      THEN "lost" ELSE ev[u]]
      BY <1>7, Zenon DEF Unsubscribe
    <2>3. ~ \E i \in k + 1..Len(bus) : bus[i] = x
      <3>1. CASE \E i \in k + 1..Len(bus) : bus[i] = x
        <4>1. ev'[x] = "lost"
          BY <2>2, <3>1, Zenon
        <4> QED BY <4>1, Zenon
      <3> QED BY <3>1, Zenon
    <2>4. ASSUME NEW i \in 1..Len(bus), bus[i] = x
          PROVE  i \in 1..Len(bus') /\ bus'[i] = x
      <3>1. i \notin k + 1..Len(bus)
        BY <2>3, <2>4, Zenon
      <3>2. i \in 1..k /\ k \in Nat /\ k <= Len(bus)
        BY <3>1, <1>b, LenProperties
      <3>3. Len(bus') = k /\ bus'[i] = bus[i]
        BY <2>2, <3>2, <1>b, SubSeqProperties
      <3> QED BY <2>4, <3>2, <3>3, Zenon
    <2> QED BY <2>1, <2>4, Zenon
  <1> QED BY <1>1, <1>2, <1>3, <1>4, <1>5, <1>6, <1>7, WireMoves, Zenon

LEMMA ToldKept ==
    TypeInv /\ WireTypes /\ StageInv /\ WireRests /\ ToldInv /\ [Next]_vars => ToldInv'
  <1> SUFFICES ASSUME TypeInv, WireTypes, StageInv, WireRests, ToldInv, [Next]_vars,
                      NEW x \in Units, ms'[x] = "rest"
               PROVE  Told(x)'
    BY Zenon DEF ToldInv, Told
  <1>t. x \in DOMAIN ev
    BY Zenon DEF WireTypes
  <1>1. CASE ms[x] # "rest"
    <2>1. ev'[x] = "due"
      BY <1>1, RestIsDue, Zenon
    <2> QED BY <2>1, Zenon DEF Told
  <1>2. CASE ms[x] = "rest"
    <2>0. Told(x)
      BY Zenon DEF ToldInv
    <2>1. /\ tools[x] = "closed" => tools'[x] = "closed"
          /\ reg[x] # "yes" => reg'[x] # "yes"
      BY <1>2, RestStays, Zenon
    <2>2. CASE ev'[x] = "lost"
      BY <2>2, Zenon DEF Told
    <2>3. CASE ev'[x] = ev[x]
      <3>1. CASE ev[x] \in {"due", "lost"}
        BY <2>3, <3>1, Zenon DEF Told
      <3>2. CASE ev[x] = "queued" /\ (td = <<x, "read">> \/ \E i \in 1..Len(bus) : bus[i] = x)
        <4>1. ev[x] = "queued" /\ ev'[x] = "queued"
          BY <2>3, <3>2, Zenon
        <4>2. td' = <<x, "read">> \/ \E i \in 1..Len(bus') : bus'[i] = x
          BY <1>2, <3>2, <4>1, QueuedStays, Zenon
        <4> QED BY <4>1, <4>2, Zenon DEF Told
      <3>3. CASE ev[x] = "early" /\ tools[x] = "closed"
        BY <2>1, <2>3, <3>3, Zenon DEF Told
      <3>4. CASE ev[x] = "handled" /\ tools[x] = "closed" /\ reg[x] # "yes"
        BY <2>1, <2>3, <3>4, Zenon DEF Told
      <3> QED BY <1>2, <2>0, <3>1, <3>2, <3>3, <3>4, Zenon DEF Told
    <2>4. CASE Publish(x)
      <3>1. CASE host = "up"
        <4>1. bus' = Append(bus, x) /\ ev'[x] = "queued"
          BY <1>t, <2>4, <3>1, Zenon DEF Publish
        <4>2. Len(bus) + 1 \in 1..Len(bus') /\ bus'[Len(bus) + 1] = x
          BY <4>1, AppendProperties, LenProperties DEF WireTypes
        <4> QED BY <4>1, <4>2, Zenon DEF Told
      <3>2. CASE host # "up"
        BY <1>t, <2>4, <3>2, Zenon DEF Publish, Told
      <3> QED BY <3>1, <3>2, Zenon
    <2>5. CASE StopBound /\ td[1] = x
      <3>1. td # <<>> /\ tools' = tools /\ ev'[x] = "handled" /\ Unmap({x})
        BY <1>t, <2>5, Zenon DEF StopBound
      <3>2. reg'[x] # "yes"
        <4>1. \/ reg'[x] = "gone"
              \/ reg[x] # "yes" /\ reg'[x] = reg[x]
          BY <3>1, Zenon DEF Unmap
        <4> QED BY <4>1, Zenon
      <3>3. tools'[x] = "closed"
        BY <2>5, <3>1, Zenon DEF WireRests
      <3> QED BY <3>1, <3>2, <3>3, Zenon DEF Told
    <2>6. CASE SkipEvent /\ td[1] = x
      <3>1. td # <<>> /\ tools' = tools /\ (ev'[x] = "early" \/ ev'[x] = "lost")
        BY <1>t, <2>6, Zenon DEF SkipEvent
      <3>2. tools'[x] = "closed"
        BY <2>6, <3>1, Zenon DEF WireRests
      <3> QED BY <3>1, <3>2, Zenon DEF Told
    <2> QED BY <1>2, <2>2, <2>3, <2>4, <2>5, <2>6, EventMoves, Zenon
  <1> QED BY <1>1, <1>2, Zenon

(* What the theorems on missions at rest share.                            *)
LEMMA RestAlways == Spec => [](TypeInv /\ WireTypes /\ ProcInv /\ StageInv /\ WireRests /\ ToldInv)
  <1>1. Init => TypeInv /\ WireTypes /\ ProcInv /\ StageInv /\ WireRests /\ ToldInv
    <2> SUFFICES ASSUME Init
                 PROVE  TypeInv /\ WireTypes /\ ProcInv /\ StageInv /\ WireRests /\ ToldInv
      OBVIOUS
    <2>1. TypeInv /\ WireTypes
      BY UnitsAssumption DEF Init, TypeInv, WireTypes, UnitsAssumption
    <2>2. ASSUME NEW u \in Units PROVE Handled(u) /\ Stage(u) /\ Told(u)
      BY Zenon DEF Init, Handled, InHand, Drives, Stage, Before, Told
    <2>3. WireRests
      BY DEF Init, WireRests
    <2> QED BY <2>1, <2>2, <2>3, Zenon DEF ProcInv, StageInv, ToldInv
  <1>2. IInv => LockInv
    BY Zenon DEF IInv
  <1> QED BY <1>1, <1>2, TypesKept, WireKept, ProcKept, StageKept, WireRestsKept, ToldKept,
             Always, PTL DEF Spec

(* For any number of units, any cap and any mix of faults: a subprocess    *)
(* that is up is always in the hands of its dispatch, of the map or of a   *)
(* stop in progress (fleetservice.go Dispatch, agentinstance manager.go    *)
(* bringUp, Stop and Close): the safety half of NoOrphan.                  *)
THEOREM NoSubprocessOrphaned == Spec => []NoneOrphaned
  <1>1. ProcInv => NoneOrphaned
    BY Zenon DEF ProcInv, Handled, NoneOrphaned
  <1> QED BY <1>1, RestAlways, PTL

(* For any number of units, any cap and any mix of faults: the event of a  *)
(* mission at rest is still due, on its way, lost, or was taken, and then  *)
(* its tools are closed and, unless it came before the bind, its instance  *)
(* is out of the map for good and its subprocess in the hands of a stop    *)
(* (runStatusTeardown and Publish): the safety half of AtRestReaped and    *)
(* ToolsClosed.                                                            *)
THEOREM RestIsAccountedFor == Spec => []RestAccounted
  <1>1. ProcInv /\ StageInv /\ ToldInv => RestAccounted
    <2> SUFFICES ASSUME ProcInv, StageInv, ToldInv, NEW u \in Units
                 PROVE  /\ Told(u)
                        /\ (ms[u] = "rest" /\ ev[u] = "handled" /\ proc[u] = "up")
                             => halt[u] \in {"unmapped", "shut"}
      BY Zenon DEF RestAccounted
    <2>1. Told(u) /\ Stage(u) /\ InHand(u)
      BY Zenon DEF ProcInv, StageInv, ToldInv, Handled
    <2> QED BY <2>1, Zenon DEF Told, Stage, InHand, Before
  <1> QED BY <1>1, RestAlways, PTL

(* For any number of units, any cap and any mix of faults: a drive whose   *)
(* turn failed stops its unit only once the mission is at rest or the      *)
(* store has refused the verdict (fleetservice.go failTurn): the safety    *)
(* half of FailedComesToRest.                                              *)
THEOREM FailedReapsAtRest == Spec => []ReapsAtRest
  <1>1. StageInv => ReapsAtRest
    BY Zenon DEF StageInv, Stage, ReapsAtRest
  <1> QED BY <1>1, RestAlways, PTL
=============================================================================
