---------------------------- MODULE MeterProofs -----------------------------
(***************************************************************************)
(* The usage table has one writer, for any number of processes and turns,  *)
(* until something worse than an I/O error happens: a process keeps its    *)
(* lease in hand while it writes, and a turn's charges are either written  *)
(* by its own process or on their way to the others (MeterIInv).           *)
(***************************************************************************)
EXTENDS Meter, LeaseProofs

(* Seconds for a leaf that names no prover.                                *)
USE SMTT(20), ZenonT(30)

(* A turn's charges: committed by its own process, or on their way to the  *)
(* others, never both.                                                     *)
TurnOK(t) ==
    /\ counted[t] \in Nat
    /\ stage[t] = "new" => counted[t] = 0 /\ \A p \in Procs : t \notin inbox[p] /\ <<p, t>> \notin writing
    /\ stage[t] = "written" =>
         /\ \A p \in Procs : t \notin inbox[p]
         /\ counted[t] <= 1
         /\ \A p \in Procs : <<p, t>> \in writing => counted[t] = 0
         /\ \A p, q \in Procs : <<p, t>> \in writing /\ <<q, t>> \in writing => p = q

TurnsOK == \A t \in Turns : TurnOK(t)

MeterTypes ==
    /\ TypeOK
    /\ keep \in [Procs -> {"new", "start", "wait", "renew", "acquire", "release", "stopped"}]
    /\ previous \in [Procs -> Record]
    /\ stage \in [Turns -> {"new", "written", "published"}]
    /\ inbox \in [Procs -> SUBSET Turns]
    /\ writing \in SUBSET (Procs \X Turns)
    /\ counted \in [Turns -> Nat]

(* A call in progress is one that keep waits for, and no handle but its    *)
(* own has the ID of a handle still to be released.                        *)
KeepOK ==
    \A p \in Procs :
        /\ pc[p] = "idle" <=> op[p] = "none"
        /\ op[p] = "renew" => keep[p] = "renew"
        /\ op[p] = "acquire" => keep[p] \in {"start", "acquire"}
        /\ keep[p] \in {"new", "wait"} => pc[p] = "idle"
        /\ keep[p] = "acquire" => op[p] \in {"none", "acquire"}
        /\ previous[p].id # NoId => keep[p] = "acquire"

PreviousOK ==
    /\ \A p \in Procs : previous[p].renewed <= now
    /\ \A p, q \in Procs : previous[p].id = handle[q].id => p = q \/ previous[p].id = NoId
    /\ \A p, q \in Procs : previous[p].id = cand[q].id => previous[p].id = NoId
    /\ \A p, q \in Procs : previous[p].id = previous[q].id => p = q \/ previous[p].id = NoId
    /\ \A p \in Procs : pc[p] = "idle" /\ ret[p] = "ok" /\ previous[p].id = handle[p].id => previous[p].id = NoId

(* The handle's time is that of the last successful write, except while a  *)
(* Renew runs and until keep drops a handle whose Renew failed.            *)
ProvenOK ==
    \A p \in Procs :
        handle[p].id # NoId /\ op[p] # "renew" /\ ~Dropping(p) => handle[p].renewed = proven[p]

MeterClean == Clean /\ PreviousOK /\ ProvenOK

MeterIInv == MeterTypes /\ KeepOK /\ TurnsOK /\ (Only({"io"}) => MeterClean)

(* A step of the lease does not move keep, so a call ends where it began.  *)
LEMMA StepKeeps ==
    ASSUME TypeOK, KeepOK, NEW q \in Procs, NEW known, Step(q, known) \/ CallFails(q), UNCHANGED meterVars
    PROVE  KeepOK'
  <1> USE DEF TypeOK, KeepOK, meterVars
  <1>1. CASE MkdirLock(q) \/ StatStale(q) \/ RemoveStaleLock(q)
        BY <1>1, Zenon DEF MkdirLock, StatStale, RemoveStaleLock, FirstStep
  <1>2. CASE StampRecord(q, known) \/ TryCreate(q) \/ ReadHolder(q) \/ WriteTakeover(q) \/ ReadBack(q)
        BY <1>2, Zenon DEF StampRecord, TryCreate, ReadHolder, WriteTakeover, ReadBack, Goto, Finish
  <1>3. CASE RenewRead(q) \/ RenewCheck(q) \/ RenewWrite(q) \/ ReleaseRead(q) \/ ReleaseRemove(q)
        BY <1>3, Zenon DEF RenewRead, RenewCheck, RenewWrite, ReleaseRead, ReleaseRemove, Goto, Finish
  <1>4. CASE Leave(q) \/ LockTimeout(q)
        BY <1>4, Zenon DEF Leave, LockTimeout, Return
  <1>5. CASE StoreFails(q)
        BY <1>5, Zenon DEF StoreFails, Finish, Section
  <1>6. CASE LockFails(q)
        BY <1>6, Zenon DEF LockFails, Return, Goto
  <1> QED BY <1>1, <1>2, <1>3, <1>4, <1>5, <1>6, Zenon DEF Step, Progress, Unlock, CallFails, UnlockFails

LEMMA KeepKept == ASSUME MeterTypes, KeepOK, [MeterNext]_allMeterVars PROVE KeepOK'
  <1> USE DEF TypeOK, KeepOK, MeterTypes
  <1>1. CASE UNCHANGED allMeterVars
        BY <1>1, Zenon DEF allMeterVars, leaseVars, meterVars
  <1>2. ASSUME NEW q \in Procs, Start(q) PROVE KeepOK'
        BY <1>2, Zenon DEF Start, AcquireContext, Call
  <1>3. ASSUME NEW q \in Procs, KeepTick(q) PROVE KeepOK'
    <2>1. CASE holds(q)
          BY <1>3, <2>1 DEF KeepTick, RenewContext, Call, NoRec
    <2>2. CASE ~holds(q)
          BY <1>3, <2>2 DEF KeepTick, AcquireContext, Call, NoRec
    <2> QED BY <2>1, <2>2, Zenon
  <1>4. ASSUME NEW q \in Procs, KeepRenewReturns(q) PROVE KeepOK'
        BY <1>4, Zenon DEF KeepRenewReturns, Looked
  <1>5. ASSUME NEW q \in Procs, AcquireReturns(q) PROVE KeepOK'
        BY <1>5 DEF AcquireReturns, Call, NoRec, Looked
  <1>6. ASSUME NEW q \in Procs, ReleaseReturns(q) PROVE KeepOK'
        BY <1>6, Zenon DEF ReleaseReturns, Looked
  <1>7. ASSUME NEW q \in Procs, Stop(q) PROVE KeepOK'
        BY <1>7 DEF Stop, ReleaseContext, Call, leaseVars
  <1>8. ASSUME NEW q \in Procs, MeterStep(q) PROVE KeepOK'
        BY <1>8, StepKeeps, Zenon DEF MeterStep
  <1>9. ASSUME NEW q \in Procs, MeterDie(q) PROVE KeepOK'
        BY <1>9, Zenon DEF MeterDie, Crash, Return, NoRec
  <1>10. ASSUME NEW q \in Procs, NEW t \in Turns, ChargeTurn(q, t) \/ Consume(q, t) \/ RecordUsage(q, t)
         PROVE  KeepOK'
         BY <1>10, Zenon DEF ChargeTurn, Consume, RecordUsage, leaseVars
  <1>11. CASE MeterTick
         BY <1>11, Zenon DEF MeterTick, Tick, meterVars
  <1> QED BY <1>1, <1>2, <1>3, <1>4, <1>5, <1>6, <1>7, <1>8, <1>9, <1>10, <1>11, Zenon DEF MeterNext

LEMMA MeterTypesKept == ASSUME MeterTypes, [MeterNext]_allMeterVars PROVE MeterTypes'
  <1> USE DEF MeterTypes
  <1>r. NoRec \in Record
        BY Zenon DEF Record, NoRec, NoId
  <1>f. ASSUME NEW q \in Procs, Forget(q) PROVE handle' \in [Procs -> Record] /\ proven' \in [Procs -> Nat]
        BY <1>r, <1>f, Zenon DEF Forget, TypeOK
  <1>l. ASSUME NEW q \in Procs, Looked(q), handle' \in [Procs -> Record], proven' \in [Procs -> Nat]
        PROVE  TypeOK'
        BY <1>l, Zenon DEF Looked, TypeOK, Results
  <1>1. CASE UNCHANGED allMeterVars
        BY <1>1, Zenon DEF allMeterVars, leaseVars, meterVars, TypeOK
  <1>2. ASSUME NEW q \in Procs, Start(q) PROVE MeterTypes'
    <2>1. TypeOK'
          BY <1>2, CallTypes, Zenon DEF Start
    <2> QED BY <1>2, <2>1, Zenon DEF Start, turnVars
  <1>3. ASSUME NEW q \in Procs, KeepTick(q) PROVE MeterTypes'
    <2>1. TypeOK'
          BY <1>3, CallTypes, Zenon DEF KeepTick
    <2>2. handle[q] \in Record
          BY Zenon DEF TypeOK
    <2>3. previous' \in [Procs -> Record]
          BY <1>3, <1>r, <2>2, Zenon DEF KeepTick
    <2>4. keep' \in [Procs -> {"new", "start", "wait", "renew", "acquire", "release", "stopped"}]
          BY <1>3, Zenon DEF KeepTick
    <2> QED BY <1>3, <2>1, <2>3, <2>4, Zenon DEF KeepTick, turnVars
  <1>4. ASSUME NEW q \in Procs, KeepRenewReturns(q) PROVE MeterTypes'
    <2>1. handle' \in [Procs -> Record] /\ proven' \in [Procs -> Nat]
          BY <1>4, <1>f, Zenon DEF KeepRenewReturns, TypeOK
    <2>2. TypeOK'
          BY <1>4, <1>l, <2>1, Zenon DEF KeepRenewReturns
    <2> QED BY <1>4, <2>2, Zenon DEF KeepRenewReturns, turnVars
  <1>5. ASSUME NEW q \in Procs, AcquireReturns(q) PROVE MeterTypes'
    <2>1. TypeOK'
      <3>1. CASE Looked(q) /\ UNCHANGED <<handle, proven>>
            BY <1>l, <3>1, Zenon DEF TypeOK
      <3>2. CASE Call(q, "release", previous[q]) /\ UNCHANGED <<handle, proven>>
        <4>1. cand' \in [Procs -> Record]
              BY <3>2, Zenon DEF Call, TypeOK
        <4> QED BY <3>2, <4>1, Zenon DEF Call, TypeOK, Steps, Ops, Results
      <3> QED BY <1>5, <3>1, <3>2, Zenon DEF AcquireReturns
    <2>2. previous' \in [Procs -> Record]
          BY <1>5, <1>r, Zenon DEF AcquireReturns
    <2> QED BY <1>5, <2>1, <2>2, Zenon DEF AcquireReturns, turnVars
  <1>6. ASSUME NEW q \in Procs, ReleaseReturns(q) PROVE MeterTypes'
    <2>1. TypeOK'
          BY <1>6, <1>l, Zenon DEF ReleaseReturns, TypeOK
    <2> QED BY <1>6, <2>1, Zenon DEF ReleaseReturns, turnVars
  <1>7. ASSUME NEW q \in Procs, Stop(q) PROVE MeterTypes'
    <2>1. TypeOK'
      <3>1. CASE UNCHANGED leaseVars
            BY <3>1, Zenon DEF leaseVars, TypeOK
      <3> QED BY <1>7, <3>1, CallTypes, Zenon DEF Stop
    <2> QED BY <1>7, <2>1, Zenon DEF Stop
  <1>8. ASSUME NEW q \in Procs, MeterStep(q) PROVE MeterTypes'
    <2>1. TypeOK'
          BY <1>8, StepTypes, FaultTypes, Zenon DEF MeterStep, Fault
    <2> QED BY <1>8, <2>1, Zenon DEF MeterStep, meterVars
  <1>9. ASSUME NEW q \in Procs, MeterDie(q) PROVE MeterTypes'
    <2>1. TypeOK'
          BY <1>9, FaultTypes, Zenon DEF MeterDie, Fault
    <2> QED BY <1>9, <1>r, <2>1, Zenon DEF MeterDie
  <1>10. ASSUME NEW q \in Procs, NEW t \in Turns, ChargeTurn(q, t) \/ Consume(q, t) \/ RecordUsage(q, t)
         PROVE  MeterTypes'
    <2>1. TypeOK' /\ keep' = keep /\ previous' = previous
          BY <1>10, Zenon DEF ChargeTurn, Consume, RecordUsage, leaseVars, TypeOK
    <2>2. CASE ChargeTurn(q, t)
          BY <2>1, <2>2 DEF ChargeTurn
    <2>3. CASE Consume(q, t)
          BY <2>1, <2>3 DEF Consume
    <2>4. CASE RecordUsage(q, t)
          BY <2>1, <2>4 DEF RecordUsage
    <2> QED BY <1>10, <2>2, <2>3, <2>4, Zenon
  <1>11. CASE MeterTick
    <2>1. TypeOK'
          BY <1>11, NextTypes, Zenon DEF MeterTick, Next
    <2> QED BY <1>11, <2>1, Zenon DEF MeterTick, meterVars
  <1> QED BY <1>1, <1>2, <1>3, <1>4, <1>5, <1>6, <1>7, <1>8, <1>9, <1>10, <1>11, Zenon DEF MeterNext

(* Charging moves a turn along one of two ways; a death or a stop can only *)
(* lose charges.                                                           *)
LEMMA TurnsKept == ASSUME MeterTypes, TurnsOK, [MeterNext]_allMeterVars PROVE TurnsOK'
  <1> USE DEF TurnOK
  <1>0. \A t \in Turns : stage[t] \in {"new", "written", "published"}
        BY Zenon DEF MeterTypes
  <1>1. CASE UNCHANGED turnVars
        BY <1>1, Zenon DEF turnVars, TurnsOK
  <1>2. CASE /\ UNCHANGED <<stage, counted>>
             /\ writing' \subseteq writing
             /\ \A p \in Procs : inbox'[p] \subseteq inbox[p]
        BY <1>2, Zenon DEF TurnsOK
  <1>3. ASSUME NEW q \in Procs, Stop(q) \/ MeterDie(q) PROVE TurnsOK'
    <2>1. UNCHANGED <<stage, counted>> /\ writing' \subseteq writing
          BY <1>3, Zenon DEF Stop, MeterDie
    <2>2. \A p \in Procs : inbox'[p] \subseteq inbox[p]
          BY <1>3, Zenon DEF Stop, MeterDie, MeterTypes
    <2> QED BY <1>2, <2>1, <2>2, Zenon
  <1>4. ASSUME NEW q \in Procs, NEW t \in Turns, ChargeTurn(q, t) PROVE TurnsOK'
    <2>1. stage[t] = "new" /\ counted' = counted
          BY <1>4, Zenon DEF ChargeTurn
    <2>2. CASE holds(q)
      <3>1. stage' = [stage EXCEPT ![t] = "written"] /\ writing' = writing \cup {<<q, t>>} /\ inbox' = inbox
            BY <1>4, <2>2, Zenon DEF ChargeTurn
      <3>2. \A u \in Turns : stage'[u] = IF u = t THEN "written" ELSE stage[u]
            BY <3>1, Zenon DEF MeterTypes
      <3>3. \A p \in Procs, u \in Turns : <<p, u>> \in writing' <=> <<p, u>> \in writing \/ (p = q /\ u = t)
            BY <3>1, Zenon
      <3>4. /\ counted[t] = 0
            /\ \A p \in Procs : t \notin inbox[p] /\ <<p, t>> \notin writing
            BY <2>1, Zenon DEF TurnsOK, TurnOK
      <3>6. ASSUME NEW u \in Turns PROVE TurnOK(u)'
        <4>1. CASE u = t
          <5>1. stage'[u] # "new" /\ counted'[u] = 0 /\ inbox' = inbox
                BY <2>1, <3>1, <3>2, <3>4, <4>1
          <5>2. \A p \in Procs : <<p, u>> \in writing' => p = q
                BY <3>3, <3>4, <4>1, Zenon
          <5>3. counted'[u] \in Nat /\ counted'[u] <= 1
                BY <5>1
          <5>4. \A p \in Procs : u \notin inbox'[p]
                BY <3>4, <4>1, <5>1, Zenon
          <5> QED BY <5>1, <5>2, <5>3, <5>4, Zenon DEF TurnOK
        <4>2. CASE u # t
          <5>1. stage'[u] = stage[u] /\ counted'[u] = counted[u] /\ inbox' = inbox
                BY <2>1, <3>1, <3>2, <4>2, Zenon
          <5>2. \A p \in Procs : <<p, u>> \in writing' <=> <<p, u>> \in writing
                BY <3>3, <4>2, Zenon
          <5>3. TurnOK(u)
                BY Zenon DEF TurnsOK
          <5> QED BY <5>1, <5>2, <5>3, Zenon DEF TurnOK
        <4> QED BY <4>1, <4>2, Zenon
      <3> QED BY <3>6, Zenon DEF TurnsOK
    <2>3. CASE ~holds(q)
      <3>1. /\ stage' = [stage EXCEPT ![t] = "published"] /\ writing' = writing
            /\ \A p \in Procs : inbox'[p] \subseteq inbox[p] \cup {t}
            BY <1>4, <2>3, Zenon DEF ChargeTurn
      <3> QED BY <1>0, <2>1, <3>1, Zenon DEF TurnsOK, MeterTypes
    <2> QED BY <2>2, <2>3, Zenon
  <1>5. ASSUME NEW q \in Procs, NEW t \in Turns, Consume(q, t) PROVE TurnsOK'
    <2>1. stage[t] = "published"
          BY <1>0, <1>5, Zenon DEF Consume, TurnsOK
    <2>2. /\ UNCHANGED <<stage, counted>> /\ writing' \subseteq writing \cup {<<q, t>>}
          /\ \A p \in Procs : inbox'[p] \subseteq inbox[p]
          BY <1>5, Zenon DEF Consume, MeterTypes
    <2> QED BY <2>1, <2>2, Zenon DEF TurnsOK
  <1>6. ASSUME NEW q \in Procs, NEW t \in Turns, RecordUsage(q, t) PROVE TurnsOK'
    <2>1. /\ <<q, t>> \in writing /\ writing' = writing \ {<<q, t>>} /\ UNCHANGED <<stage, inbox>>
          /\ counted' = [counted EXCEPT ![t] = counted[t] + 1]
          BY <1>6, Zenon DEF RecordUsage
    <2>2. stage[t] # "new" /\ (stage[t] = "written" => counted[t] = 0)
          BY <2>1, Zenon DEF TurnsOK
    <2>3. \A u \in Turns : counted'[u] = IF u = t THEN counted[u] + 1 ELSE counted[u]
          BY <2>1, Zenon DEF MeterTypes
    <2> QED BY <2>1, <2>2, <2>3 DEF TurnsOK
  <1>7. ASSUME NEW q \in Procs,
               \/ Start(q) \/ KeepTick(q) \/ KeepRenewReturns(q) \/ AcquireReturns(q) \/ ReleaseReturns(q)
               \/ MeterStep(q)
        PROVE  UNCHANGED turnVars
        BY <1>7, Zenon DEF Start, KeepTick, KeepRenewReturns, AcquireReturns, ReleaseReturns, MeterStep, meterVars,
                    turnVars
  <1>8. CASE MeterTick \/ UNCHANGED allMeterVars
        BY <1>1, <1>8, Zenon DEF MeterTick, allMeterVars, meterVars, turnVars
  <1> QED BY <1>1, <1>3, <1>4, <1>5, <1>6, <1>7, <1>8, Zenon DEF MeterNext

(* keep's two further steps on the lease: it drops a handle while no call  *)
(* runs, and it releases the handle that a new one replaced.               *)
LEMMA DropClean ==
    ASSUME TypeOK, TypeOK', Clean, NEW p \in Procs, pc[p] = "idle", op[p] = "none", Forget(p),
           Looked(p)
    PROVE  Clean'
  <1> USE LeaseConstants DEF LeaseConstants, Clean, Forget, Looked, NoRec, NoId, TypeOK, Record
  <1>1. Locked'
        BY Zenon DEF Locked, InSection, Section
  <1>2. Distinct'
        BY Zenon DEF Distinct
  <1>3. Dated'
        BY DEF Dated
  <1>4. Seen'
        BY DEF Seen, expired
  <1>5. Current'
        BY Zenon DEF Current, Holds, expired
  <1> QED BY <1>1, <1>2, <1>3, <1>4, <1>5, Zenon DEF Clean

LEMMA LookedClean ==
    ASSUME TypeOK, Clean, NEW p \in Procs, pc[p] = "idle", Looked(p), UNCHANGED <<handle, proven>>
    PROVE  Clean'
  <1> USE DEF Clean, Looked, TypeOK
  <1>1. Locked' /\ Distinct' /\ Dated' /\ Current'
        BY Zenon DEF Locked, InSection, Distinct, Dated, Current, Holds, expired
  <1>2. Seen'
        BY DEF Seen, expired
  <1> QED BY <1>1, <1>2, Zenon DEF Clean

LEMMA ReleasePreviousClean ==
    ASSUME TypeOK, TypeOK', Clean, PreviousOK, NEW p \in Procs, previous[p] \in Record,
           ret[p] = "ok", previous[p].id # NoId, Call(p, "release", previous[p]), UNCHANGED <<handle, proven>>
    PROVE  Clean'
  <1> USE LeaseConstants DEF LeaseConstants, Clean, Call, NoRec, NoId, TypeOK, Record
  <1>1. Locked'
        BY Zenon DEF Locked, InSection, Section
  <1>2. Distinct'
    <2>1. \A q \in Procs : previous[p].id # cand[q].id /\ previous[p].id # handle[q].id
          BY Zenon DEF PreviousOK
    <2>2. \A q \in Procs : cand'[q] = IF q = p THEN previous[p] ELSE cand[q]
          OBVIOUS
    <2> QED BY <2>1, <2>2 DEF Distinct
  <1>3. Dated'
        BY Zenon DEF Dated, PreviousOK
  <1>4. Seen'
        BY DEF Seen, expired
  <1>5. Current'
        BY Zenon DEF Current, Holds, expired
  <1> QED BY <1>1, <1>2, <1>3, <1>4, <1>5, Zenon DEF Clean

LEMMA MeterSeenGrows == ASSUME [MeterNext]_allMeterVars, Only({"io"})' PROVE Only({"io"})
  <1>1. ASSUME NEW q \in Procs, NEW known, Step(q, known) PROVE faults' = faults
        BY <1>1, Zenon DEF Step, Progress, MkdirLock, StatStale, RemoveStaleLock, LockTimeout, StampRecord, TryCreate,
                    ReadHolder, WriteTakeover, ReadBack, RenewRead, RenewCheck, RenewWrite, ReleaseRead,
                    ReleaseRemove, Unlock
  <1>2. ASSUME NEW q \in Procs, MeterStep(q) PROVE faults' = faults \/ \E kind : Happens(kind)
        BY <1>1, <1>2, Zenon DEF MeterStep, CallFails, StoreFails, LockFails, UnlockFails
  <1>3. ASSUME NEW q \in Procs, Start(q) \/ KeepTick(q) \/ KeepRenewReturns(q) \/ AcquireReturns(q)
               \/ ReleaseReturns(q) \/ Stop(q)
        PROVE  faults' = faults
        BY <1>3, Zenon DEF Start, KeepTick, KeepRenewReturns, AcquireReturns, ReleaseReturns, Stop,
             AcquireContext,
                    RenewContext, ReleaseContext, Call, Looked, leaseVars
  <1>4. ASSUME NEW q \in Procs, NEW t \in Turns, ChargeTurn(q, t) \/ Consume(q, t) \/ RecordUsage(q, t)
        PROVE  faults' = faults
        BY <1>4, Zenon DEF ChargeTurn, Consume, RecordUsage, leaseVars
  <1>5. ASSUME NEW q \in Procs, MeterDie(q) PROVE \E kind : Happens(kind)
        BY <1>5, Zenon DEF MeterDie, Crash
  <1>6. CASE MeterTick \/ UNCHANGED allMeterVars
        BY <1>6, Zenon DEF MeterTick, Tick, allMeterVars, leaseVars, Only
  <1>7. faults' = faults \/ \E kind : Happens(kind)
        BY <1>2, <1>3, <1>4, <1>5, <1>6, Zenon DEF MeterNext, MeterTick, Tick, allMeterVars, leaseVars
  <1> QED BY <1>7 DEF Only, Happens

LEMMA LeaseKept ==
    ASSUME MeterTypes, MeterTypes', KeepOK, MeterClean, [MeterNext]_allMeterVars, Only({"io"})' PROVE Clean'
  <1>0. TypeOK /\ TypeOK' /\ Clean /\ PreviousOK
        BY Zenon DEF MeterTypes, MeterClean
  <1>1. ASSUME NEW q \in Procs, Start(q) \/ KeepTick(q) PROVE Clean'
        BY <1>0, <1>1, CallClean, Zenon DEF Start, KeepTick
  <1>2. ASSUME NEW q \in Procs, KeepRenewReturns(q) PROVE Clean'
    <2>1. CASE Forget(q)
      <3>1. op[q] = "none"
            BY <1>2, Zenon DEF KeepRenewReturns, KeepOK
      <3> QED BY <1>0, <1>2, <2>1, <3>1, DropClean, Zenon DEF KeepRenewReturns
    <2>2. CASE UNCHANGED <<handle, proven>>
          BY <1>0, <1>2, <2>2, LookedClean, Zenon DEF KeepRenewReturns
    <2> QED BY <1>2, <2>1, <2>2, Zenon DEF KeepRenewReturns
  <1>3. ASSUME NEW q \in Procs, AcquireReturns(q) PROVE Clean'
    <2>1. CASE Looked(q) /\ UNCHANGED <<handle, proven>>
          BY <1>0, <1>3, <2>1, LookedClean, Zenon DEF AcquireReturns
    <2>2. CASE /\ ret[q] = "ok" /\ previous[q].id # NoId /\ Call(q, "release", previous[q])
               /\ UNCHANGED <<handle, proven>>
          BY <1>0, <2>2, ReleasePreviousClean, Zenon DEF MeterTypes
    <2> QED BY <1>3, <2>1, <2>2, Zenon DEF AcquireReturns
  <1>4. ASSUME NEW q \in Procs, ReleaseReturns(q) \/ Stop(q) PROVE Clean'
        BY <1>0, <1>4, CallClean, IdleClean, LookedClean, Zenon DEF ReleaseReturns, Stop
  <1>5. ASSUME NEW q \in Procs, MeterStep(q) PROVE Clean'
    <2>1. ~UnlockFails(q)
          BY DEF UnlockFails, Happens, Only
    <2> QED BY <1>0, <1>5, <2>1, StepClean, StoreFailsClean, LockFailsClean, Zenon DEF MeterStep, CallFails
  <1>6. ASSUME NEW q \in Procs, MeterDie(q) PROVE FALSE
        BY <1>6, Zenon DEF MeterDie, Crash, Happens, Only
  <1>7. ASSUME NEW q \in Procs, NEW t \in Turns, ChargeTurn(q, t) \/ Consume(q, t) \/ RecordUsage(q, t)
        PROVE  Clean'
        BY <1>0, <1>7, IdleClean, Zenon DEF ChargeTurn, Consume, RecordUsage
  <1>8. CASE MeterTick
        BY <1>0, <1>8, TickClean, Zenon DEF MeterTick
  <1>9. CASE UNCHANGED allMeterVars
        BY <1>0, <1>9, IdleClean, Zenon DEF allMeterVars
  <1> QED BY <1>1, <1>2, <1>3, <1>4, <1>5, <1>6, <1>7, <1>8, <1>9, Zenon DEF MeterNext

LEMMA PreviousStands ==
    ASSUME PreviousOK, previous' = previous, now' = now,
           \A p, q \in Procs : previous[p].id = handle'[q].id => p = q \/ previous[p].id = NoId,
           \A p, q \in Procs : previous[p].id = cand'[q].id => previous[p].id = NoId,
           \A p \in Procs : pc'[p] = "idle" /\ ret'[p] = "ok" /\ previous[p].id = handle'[p].id
                              => previous[p].id = NoId
    PROVE  PreviousOK'
  BY Zenon DEF PreviousOK

(* Renew moves a handle's time, never its ID.                              *)
LEMMA RenewKeepsIds ==
    ASSUME TypeOK, NEW q \in Procs, RenewCheck(q)
    PROVE  \A p \in Procs : handle'[p].id = handle[p].id
  BY DEF TypeOK, Record, RenewCheck

(* A new ID is none of a handle still to be released, and a handle becomes *)
(* the record of the call that returns.                                    *)
LEMMA StepPrevious ==
    ASSUME MeterTypes, KeepOK, PreviousOK, NEW q \in Procs, MeterStep(q) PROVE PreviousOK'
  <1> USE DEF MeterTypes, TypeOK, Record
  <1>0. previous' = previous
        BY Zenon DEF MeterStep, meterVars
  <1>1. CASE /\ now' = now /\ cand' = cand /\ \A p \in Procs : handle'[p].id = handle[p].id
             /\ \A p \in Procs : pc'[p] = "idle" => pc[p] = "idle" /\ ret'[p] = ret[p]
    <2>1. \A p, r \in Procs : previous[p].id = handle'[r].id => p = r \/ previous[p].id = NoId
          BY <1>1 DEF PreviousOK
    <2>2. \A p, r \in Procs : previous[p].id = cand'[r].id => previous[p].id = NoId
          BY <1>1, Zenon DEF PreviousOK
    <2>3. \A p \in Procs : pc'[p] = "idle" /\ ret'[p] = "ok" /\ previous[p].id = handle'[p].id
                             => previous[p].id = NoId
          BY <1>1, Zenon DEF PreviousOK
    <2> QED BY <1>0, <1>1, <2>1, <2>2, <2>3, PreviousStands, Zenon
  <1>2. CASE MkdirLock(q) \/ StatStale(q) \/ RemoveStaleLock(q) \/ TryCreate(q) \/ ReadHolder(q)
    <2>1. /\ now' = now /\ cand' = cand /\ handle' = handle
          /\ \A p \in Procs : pc'[p] = "idle" => pc[p] = "idle" /\ ret'[p] = ret[p]
          BY <1>2 DEF MkdirLock, StatStale, RemoveStaleLock, TryCreate, ReadHolder, FirstStep, Goto, Finish
    <2> QED BY <1>1, <2>1, Zenon
  <1>3. CASE WriteTakeover(q) \/ ReadBack(q) \/ RenewRead(q) \/ RenewWrite(q) \/ ReleaseRead(q)
             \/ ReleaseRemove(q) \/ StoreFails(q)
    <2>1. /\ now' = now /\ cand' = cand /\ handle' = handle
          /\ \A p \in Procs : pc'[p] = "idle" => pc[p] = "idle" /\ ret'[p] = ret[p]
          BY <1>3, ZenonT(30) DEF WriteTakeover, ReadBack, RenewRead, RenewWrite, ReleaseRead,
               ReleaseRemove, StoreFails,
                      Goto, Finish
    <2> QED BY <1>1, <2>1, Zenon
  <1>4. CASE RenewCheck(q)
    <2>1. /\ now' = now /\ cand' = cand
          /\ \A p \in Procs : pc'[p] = "idle" => pc[p] = "idle" /\ ret'[p] = ret[p]
          BY <1>4, Zenon DEF RenewCheck, Goto, Finish
    <2>2. \A p \in Procs : handle'[p].id = handle[p].id
          BY <1>4, RenewKeepsIds, Zenon
    <2> QED BY <1>1, <2>1, <2>2, Zenon
  <1>5. CASE StampRecord(q, Kept)
    <2>1. /\ now' = now /\ handle' = handle
          /\ \A p \in Procs : pc'[p] = "idle" => pc[p] = "idle" /\ ret'[p] = ret[p]
          BY <1>5, ZenonT(30) DEF StampRecord, Goto
    <2>2. \A p \in Procs : previous[p].id # cand'[q].id
          BY <1>5 DEF StampRecord, FreshIds, Kept
    <2>3. \A p \in Procs : p # q => cand'[p] = cand[p]
          BY <1>5, Zenon DEF StampRecord
    <2>4. \A p, r \in Procs : previous[p].id = cand'[r].id => previous[p].id = NoId
          BY <2>2, <2>3, ZenonT(30) DEF PreviousOK
    <2>5. \A p \in Procs : pc'[p] = "idle" /\ ret'[p] = "ok" /\ previous[p].id = handle'[p].id
                             => previous[p].id = NoId
          BY <2>1, Zenon DEF PreviousOK
    <2>6. \A p, r \in Procs : previous[p].id = handle'[r].id => p = r \/ previous[p].id = NoId
          BY <2>1, Zenon DEF PreviousOK
    <2> QED BY <1>0, <2>1, <2>4, <2>5, <2>6, PreviousStands, Zenon
  <1>6. CASE LockTimeout(q) \/ (LockFails(q) /\ Return(q, "error"))
    <2>0. PICK why : why # "ok" /\ Return(q, why) /\ now' = now /\ handle' = handle
          BY <1>6, Zenon DEF LockTimeout, LockFails
    <2>1. /\ now' = now /\ handle' = handle /\ \A p \in Procs : p # q => cand'[p] = cand[p]
          /\ \A p \in Procs : pc'[p] = "idle" /\ ret'[p] = "ok" => pc[p] = "idle" /\ ret[p] = "ok"
          BY <2>0, Zenon DEF Return
    <2>2. cand'[q].id = NoId
          BY <2>0, Zenon DEF Return, NoRec
    <2>3. \A p, r \in Procs : previous[p].id = cand'[r].id => previous[p].id = NoId
          BY <2>1, <2>2, ZenonT(30) DEF PreviousOK
    <2>4. \A p \in Procs : pc'[p] = "idle" /\ ret'[p] = "ok" /\ previous[p].id = handle'[p].id
                             => previous[p].id = NoId
          BY <2>1, Zenon DEF PreviousOK
    <2>5. \A p, r \in Procs : previous[p].id = handle'[r].id => p = r \/ previous[p].id = NoId
          BY <2>1, Zenon DEF PreviousOK
    <2> QED BY <1>0, <2>1, <2>3, <2>4, <2>5, PreviousStands, Zenon
  <1>7. CASE Leave(q)
    <2>1. /\ now' = now /\ \A p \in Procs : p # q =>
               cand'[p] = cand[p] /\ pc'[p] = pc[p] /\ ret'[p] = ret[p] /\ handle'[p] = handle[p]
          BY <1>7, Zenon DEF Leave, Return, Forget
    <2>2. cand'[q].id = NoId /\ ret'[q] = ret[q]
          BY <1>7, Zenon DEF Leave, Return, NoRec
    <2>3. handle'[q].id \in {cand[q].id, handle[q].id, NoId}
          BY <1>7 DEF Leave, Forget, NoRec
    <2>4. previous[q].id # NoId => op[q] = "acquire"
          BY <1>7, Zenon DEF Leave, KeepOK
    <2>5. ret[q] = "ok" /\ op[q] = "acquire" => handle'[q].id = cand[q].id
          BY <1>7, Zenon DEF Leave
    <2>6. \A p \in Procs : previous[p].id = handle'[q].id => p = q \/ previous[p].id = NoId
          BY <2>3, Zenon DEF PreviousOK
    <2>7. previous[q].id = handle'[q].id /\ ret'[q] = "ok" => previous[q].id = NoId
          BY <2>2, <2>4, <2>5, Zenon DEF PreviousOK
    <2>8. \A p, r \in Procs : previous[p].id = cand'[r].id => previous[p].id = NoId
          BY <2>1, <2>2, ZenonT(30) DEF PreviousOK
    <2>9. \A p \in Procs : pc'[p] = "idle" /\ ret'[p] = "ok" /\ previous[p].id = handle'[p].id
                             => previous[p].id = NoId
          BY <2>1, <2>7, Zenon DEF PreviousOK
    <2>10. \A p, r \in Procs : previous[p].id = handle'[r].id => p = r \/ previous[p].id = NoId
      <3> TAKE p, r \in Procs
      <3>1. CASE r = q
            BY <2>6, <3>1, Zenon
      <3>2. CASE r # q
            BY <2>1, <3>2 DEF PreviousOK
      <3> QED BY <3>1, <3>2, Zenon
    <2> QED BY <1>0, <2>1, <2>8, <2>9, <2>10, PreviousStands, Zenon
  <1>8. CASE LockFails(q) /\ Goto(q, "lock") /\ UNCHANGED cand
    <2>1. /\ now' = now /\ cand' = cand /\ handle' = handle
          /\ \A p \in Procs : pc'[p] = "idle" => pc[p] = "idle" /\ ret'[p] = ret[p]
          BY <1>8, ZenonT(30) DEF LockFails, Goto
    <2> QED BY <1>1, <2>1, Zenon
  <1>9. LockFails(q) => Return(q, "error") \/ (Goto(q, "lock") /\ UNCHANGED cand)
        BY Zenon DEF LockFails
  <1> QED BY <1>2, <1>3, <1>4, <1>5, <1>6, <1>7, <1>8, <1>9, Zenon
          DEF MeterStep, Step, Progress, Unlock, CallFails, UnlockFails

LEMMA PreviousKept ==
    ASSUME MeterTypes, KeepOK, MeterClean, [MeterNext]_allMeterVars, Only({"io"})' PROVE PreviousOK'
  <1>0. Distinct /\ Dated /\ PreviousOK /\ NoRec.id = NoId /\ NoRec.renewed = 0 /\ now \in Nat
        BY DEF MeterClean, Clean, NoRec, MeterTypes, TypeOK
  <1>1. CASE UNCHANGED <<now, cand, handle, pc, ret, previous>>
        BY <1>0, <1>1, PreviousStands, ZenonT(30) DEF PreviousOK
  <1>2. ASSUME NEW q \in Procs, Start(q) PROVE PreviousOK'
    <2>1. /\ previous' = previous /\ now' = now /\ handle' = handle
          /\ \A p \in Procs : pc'[p] = "idle" => pc[p] = "idle" /\ ret'[p] = ret[p]
          BY <1>2, Zenon DEF Start, AcquireContext, Call, MeterTypes, TypeOK
    <2>2. \A r \in Procs : cand'[r].id = cand[r].id \/ cand'[r].id = NoId
          BY <1>0, <1>2, Zenon DEF Start, AcquireContext, Call, MeterTypes, TypeOK
    <2>3. \A p, r \in Procs : previous[p].id = cand'[r].id => previous[p].id = NoId
          BY <1>0, <2>2, Zenon DEF PreviousOK
    <2>4. \A p \in Procs : pc'[p] = "idle" /\ ret'[p] = "ok" /\ previous[p].id = handle'[p].id
                             => previous[p].id = NoId
          BY <1>0, <2>1, Zenon DEF PreviousOK
    <2> QED BY <1>0, <2>1, <2>3, <2>4, PreviousStands, ZenonT(30) DEF PreviousOK
  <1>3. ASSUME NEW q \in Procs, KeepTick(q) PROVE PreviousOK'
    <2>1. /\ now' = now /\ handle' = handle /\ pc'[q] = "lock"
          /\ \A p \in Procs : p # q => previous'[p] = previous[p] /\ pc'[p] = pc[p] /\ ret'[p] = ret[p]
          BY <1>3, ZenonT(30) DEF KeepTick, AcquireContext, RenewContext, Call, MeterTypes, TypeOK
    <2>2. \A r \in Procs : cand'[r].id = cand[r].id \/ cand'[r].id = NoId
          BY <1>0, <1>3, Zenon DEF KeepTick, AcquireContext, RenewContext, Call, MeterTypes, TypeOK
    <2>3. previous'[q] = NoRec \/ previous'[q] = handle[q]
          BY <1>3, Zenon DEF KeepTick, MeterTypes, TypeOK
    <2>4. previous'[q].renewed <= now /\ \A p \in Procs : p # q => previous'[p].renewed <= now
          BY <1>0, <2>1, <2>3 DEF PreviousOK, Dated
    <2>5. \A p \in Procs : previous'[q].id = handle[p].id => p = q \/ previous'[q].id = NoId
          BY <1>0, <2>3, Zenon DEF Distinct
    <2>6. \A p \in Procs : previous'[q].id = cand'[p].id => previous'[q].id = NoId
          BY <1>0, <2>2, <2>3, ZenonT(30) DEF Distinct
    <2>7. \A p \in Procs : p # q /\ previous'[q].id = previous[p].id => previous'[q].id = NoId
          BY <1>0, <2>3, Zenon DEF PreviousOK
    <2>8. \A p, r \in Procs : p # q /\ previous[p].id = cand'[r].id => previous[p].id = NoId
          BY <1>0, <2>2, Zenon DEF PreviousOK
    <2>9. \A p, r \in Procs : previous'[p].id = handle[r].id => p = r \/ previous'[p].id = NoId
          BY <1>0, <2>1, <2>5 DEF PreviousOK
    <2>10. \A p, r \in Procs : previous'[p].id = cand'[r].id => previous'[p].id = NoId
          BY <2>1, <2>6, <2>8, Zenon
    <2>11. \A p, r \in Procs : previous'[p].id = previous'[r].id => p = r \/ previous'[p].id = NoId
          BY <1>0, <2>1, <2>7 DEF PreviousOK
    <2>12. \A p \in Procs : pc'[p] = "idle" /\ ret'[p] = "ok" /\ previous'[p].id = handle[p].id
                              => previous'[p].id = NoId
          BY <1>0, <2>1, Zenon DEF PreviousOK
    <2>13. \A p \in Procs : previous'[p].renewed <= now'
          BY <2>1, <2>4, Zenon
    <2> QED BY <2>1, <2>9, <2>10, <2>11, <2>12, <2>13, Zenon DEF PreviousOK
  <1>4. ASSUME NEW q \in Procs, KeepRenewReturns(q) PROVE PreviousOK'
    <2>1. /\ UNCHANGED <<previous, now, cand, pc>>
          /\ \A p \in Procs : ret'[p] = ret[p] \/ ret'[p] = "none"
          BY <1>4, Zenon DEF KeepRenewReturns, Looked, MeterTypes, TypeOK
    <2>2. \A r \in Procs : handle'[r].id = handle[r].id \/ handle'[r].id = NoId
          BY <1>0, <1>4, Zenon DEF KeepRenewReturns, Forget, MeterTypes, TypeOK
    <2>3. \A p, r \in Procs : previous[p].id = handle'[r].id => p = r \/ previous[p].id = NoId
          BY <1>0, <2>2, ZenonT(30) DEF PreviousOK
    <2>4. \A p \in Procs : pc'[p] = "idle" /\ ret'[p] = "ok" /\ previous[p].id = handle'[p].id
                             => previous[p].id = NoId
          BY <1>0, <2>1, <2>2, ZenonT(30) DEF PreviousOK
    <2> QED BY <1>0, <2>1, <2>3, <2>4, PreviousStands, Zenon DEF PreviousOK
  <1>5. ASSUME NEW q \in Procs, AcquireReturns(q) PROVE PreviousOK'
    <2>1. /\ now' = now /\ handle' = handle /\ previous'[q].id = NoId /\ previous'[q].renewed = 0
          /\ \A p \in Procs : p # q => previous'[p] = previous[p] /\ pc'[p] = pc[p] /\ ret'[p] = ret[p]
          BY <1>0, <1>5, Zenon DEF AcquireReturns, Call, Looked, MeterTypes, TypeOK
    <2>2. \A p \in Procs : cand'[p] = cand[p] \/ (p = q /\ cand'[p] = previous[q])
          BY <1>5, Zenon DEF AcquireReturns, Call, Looked, MeterTypes, TypeOK
    <2>3. \A p, r \in Procs : p # q /\ previous[p].id = cand'[r].id => previous[p].id = NoId
          BY <1>0, <2>2, Zenon DEF PreviousOK
    <2>4. \A p, r \in Procs : previous'[p].id = handle'[r].id => p = r \/ previous'[p].id = NoId
          BY <1>0, <2>1 DEF PreviousOK
    <2>5. \A p, r \in Procs : previous'[p].id = cand'[r].id => previous'[p].id = NoId
          BY <2>1, <2>3, ZenonT(30)
    <2>6. \A p, r \in Procs : previous'[p].id = previous'[r].id => p = r \/ previous'[p].id = NoId
          BY <1>0, <2>1 DEF PreviousOK
    <2>7. \A p \in Procs : pc'[p] = "idle" /\ ret'[p] = "ok" /\ previous'[p].id = handle'[p].id
                             => previous'[p].id = NoId
          BY <1>0, <2>1, Zenon DEF PreviousOK
    <2>8. \A p \in Procs : previous'[p].renewed <= now'
          BY <1>0, <2>1 DEF PreviousOK
    <2> QED BY <2>4, <2>5, <2>6, <2>7, <2>8, ZenonT(30) DEF PreviousOK
  <1>6. ASSUME NEW q \in Procs, Stop(q) PROVE PreviousOK'
    <2>1. CASE UNCHANGED leaseVars
          BY <1>1, <1>6, <2>1, Zenon DEF Stop, leaseVars, MeterTypes, TypeOK
    <2>2. CASE ReleaseContext(q)
      <3>1. /\ previous' = previous /\ now' = now
            /\ \A p \in Procs : pc'[p] = "idle" => pc[p] = "idle" /\ ret'[p] = ret[p]
            BY <1>6, <2>2, Zenon DEF Stop, ReleaseContext, Call, MeterTypes, TypeOK
      <3>2. \A r \in Procs : handle'[r].id = handle[r].id \/ handle'[r].id = NoId
            BY <1>0, <2>2, Zenon DEF ReleaseContext, Forget, MeterTypes, TypeOK
      <3>3. \A r \in Procs : cand'[r] = cand[r] \/ (r = q /\ cand'[r] = handle[q])
            BY <2>2, Zenon DEF ReleaseContext, Call, MeterTypes, TypeOK
      <3>4. previous[q].id = NoId
            BY <1>6, Zenon DEF Stop, KeepOK, MeterTypes, TypeOK
      <3>5. \A p, r \in Procs : previous[p].id = cand'[r].id => previous[p].id = NoId
            BY <1>0, <3>3, <3>4, ZenonT(30) DEF PreviousOK
      <3>6. \A p, r \in Procs : previous[p].id = handle'[r].id => p = r \/ previous[p].id = NoId
            BY <1>0, <3>2, Zenon DEF PreviousOK
      <3>7. \A p \in Procs : pc'[p] = "idle" /\ ret'[p] = "ok" /\ previous[p].id = handle'[p].id
                               => previous[p].id = NoId
            BY <1>0, <3>1, <3>2, Zenon DEF PreviousOK
      <3> QED BY <1>0, <3>1, <3>5, <3>6, <3>7, PreviousStands, Zenon
    <2> QED BY <1>6, <2>1, <2>2, Zenon DEF Stop, MeterTypes, TypeOK
  <1>7. ASSUME NEW q \in Procs, MeterStep(q) PROVE PreviousOK'
        BY <1>0, <1>7, StepPrevious, Zenon
  <1>8. ASSUME NEW q \in Procs, MeterDie(q) PROVE FALSE
        BY <1>8, Zenon DEF MeterDie, Crash, Happens, Only
  <1>9. ASSUME NEW q \in Procs, NEW t \in Turns, ChargeTurn(q, t) \/ Consume(q, t) \/ RecordUsage(q, t)
        PROVE  PreviousOK'
        BY <1>1, <1>9, Zenon DEF ChargeTurn, Consume, RecordUsage, leaseVars, MeterTypes, TypeOK
  <1>10. ASSUME NEW q \in Procs, ReleaseReturns(q) PROVE PreviousOK'
    <2>1. /\ UNCHANGED <<previous, now, cand, pc, handle>>
          /\ \A p \in Procs : ret'[p] = ret[p] \/ ret'[p] = "none"
          BY <1>10, Zenon DEF ReleaseReturns, Looked, MeterTypes, TypeOK
    <2>2. \A p \in Procs : pc'[p] = "idle" /\ ret'[p] = "ok" /\ previous[p].id = handle'[p].id
                             => previous[p].id = NoId
          BY <1>0, <2>1, ZenonT(30) DEF PreviousOK
    <2> QED BY <1>0, <2>1, <2>2, PreviousStands, Zenon DEF PreviousOK
  <1>11. CASE MeterTick
    <2>1. UNCHANGED <<cand, handle, pc, ret, previous>> /\ now' = now + 1
          BY <1>11, Zenon DEF MeterTick, Tick, meterVars
    <2>2. \A p \in Procs : previous[p].renewed \in Nat /\ previous[p].renewed <= now
          BY <1>0, Zenon DEF MeterTypes, Record, PreviousOK
    <2>3. \A p \in Procs : previous'[p].renewed <= now'
          BY <1>0, <2>1, <2>2
    <2> QED BY <1>0, <2>1, <2>3, Zenon DEF PreviousOK
  <1>12. CASE UNCHANGED allMeterVars
        BY <1>1, <1>12, Zenon DEF allMeterVars, leaseVars, meterVars
  <1> QED BY <1>2, <1>3, <1>4, <1>5, <1>6, <1>7, <1>8, <1>9, <1>10, <1>11, <1>12, Zenon DEF MeterNext

LEMMA ProvenKept ==
    ASSUME MeterTypes, KeepOK, MeterClean, [MeterNext]_allMeterVars, Only({"io"})' PROVE ProvenOK'
  <1>0. Seen /\ ProvenOK /\ NoRec.id = NoId
        BY Zenon DEF MeterClean, Clean, NoRec
  <1>1. CASE /\ UNCHANGED <<handle, proven>>
             /\ \A p \in Procs : op'[p] # "renew" /\ ~Dropping(p)' => op[p] # "renew" /\ ~Dropping(p)
        BY <1>0, <1>1, Zenon DEF ProvenOK
  <1>2. ASSUME NEW q \in Procs, Start(q) \/ KeepTick(q) \/ AcquireReturns(q) \/ ReleaseReturns(q)
        PROVE  ProvenOK'
    <2>1. UNCHANGED <<handle, proven>>
          BY <1>2, Zenon DEF Start, KeepTick, AcquireReturns, ReleaseReturns, AcquireContext, RenewContext,
               MeterTypes, TypeOK
    <2>2. keep[q] # "renew"
          BY <1>2, Zenon DEF Start, KeepTick, AcquireReturns, ReleaseReturns, MeterTypes, TypeOK
    <2>3. op[q] # "renew"
          BY <2>2, Zenon DEF KeepOK
    <2>4. \A p \in Procs : p # q => op'[p] = op[p] /\ keep'[p] = keep[p] /\ pc'[p] = pc[p] /\ ret'[p] = ret[p]
          BY <1>2 DEF Start, KeepTick, AcquireReturns, ReleaseReturns, AcquireContext, RenewContext,
               Call, Looked, MeterTypes, TypeOK
    <2> QED BY <1>1, <2>1, <2>2, <2>3, <2>4, Zenon DEF Dropping
  <1>3. ASSUME NEW q \in Procs, KeepRenewReturns(q) PROVE ProvenOK'
    <2>1. \A p \in Procs : p # q =>
             op'[p] = op[p] /\ keep'[p] = keep[p] /\ pc'[p] = pc[p] /\ ret'[p] = ret[p]
             /\ handle'[p] = handle[p] /\ proven'[p] = proven[p]
          BY <1>3, Zenon DEF KeepRenewReturns, Looked, Forget, MeterTypes, TypeOK
    <2>2. op[q] # "renew"
          BY <1>3, Zenon DEF KeepRenewReturns, KeepOK, MeterTypes, TypeOK
    <2>3. CASE ret[q] = "ok"
      <3>1. handle' = handle /\ proven' = proven /\ ~Dropping(q)
            BY <1>3, <2>3, Zenon DEF KeepRenewReturns, Dropping, MeterTypes, TypeOK
      <3> QED BY <1>0, <2>1, <2>2, <3>1, ZenonT(30) DEF ProvenOK, Dropping
    <2>4. CASE ret[q] # "ok"
      <3>1. handle'[q].id = NoId
            BY <1>0, <1>3, <2>4, Zenon DEF KeepRenewReturns, Forget, MeterTypes, TypeOK
      <3> QED BY <1>0, <2>1, <3>1, ZenonT(30) DEF ProvenOK, Dropping
    <2> QED BY <2>3, <2>4, Zenon
  <1>4. ASSUME NEW q \in Procs, Stop(q) PROVE ProvenOK'
    <2>1. keep[q] # "renew" /\ op[q] # "renew"
          BY <1>4, Zenon DEF Stop, KeepOK, MeterTypes, TypeOK
    <2>2. \A p \in Procs : p # q =>
             op'[p] = op[p] /\ keep'[p] = keep[p] /\ pc'[p] = pc[p] /\ ret'[p] = ret[p]
             /\ handle'[p] = handle[p] /\ proven'[p] = proven[p]
          BY <1>4, Zenon DEF Stop, ReleaseContext, Call, Forget, leaseVars, MeterTypes, TypeOK
    <2>3. handle'[q].id = NoId \/ (handle'[q] = handle[q] /\ proven'[q] = proven[q])
          BY <1>0, <1>4, Zenon DEF Stop, ReleaseContext, Forget, leaseVars, MeterTypes, TypeOK
    <2> QED BY <1>0, <2>1, <2>2, <2>3, ZenonT(30) DEF ProvenOK, Dropping
  <1>5. ASSUME NEW q \in Procs, MeterStep(q) PROVE ProvenOK'
    <2>0. keep' = keep
          BY <1>5, Zenon DEF MeterStep, meterVars
    <2>1. CASE /\ UNCHANGED <<handle, proven, op>>
               /\ pc[q] # "idle" /\ \A p \in Procs : p # q => pc'[p] = pc[p] /\ ret'[p] = ret[p]
          BY <1>1, <2>0, <2>1, Zenon DEF Dropping
    <2>2. CASE MkdirLock(q) \/ StatStale(q) \/ RemoveStaleLock(q) \/ StampRecord(q, Kept) \/ TryCreate(q)
               \/ ReadHolder(q) \/ WriteTakeover(q) \/ ReadBack(q)
          BY <2>1, <2>2, Zenon DEF MkdirLock, StatStale, RemoveStaleLock, StampRecord, TryCreate,
               ReadHolder, WriteTakeover,
                            ReadBack, Goto, Finish, MeterTypes, TypeOK
    <2>3. CASE RenewRead(q) \/ RenewWrite(q) \/ ReleaseRead(q) \/ ReleaseRemove(q) \/ StoreFails(q)
          BY <2>1, <2>3, ZenonT(30) DEF RenewRead, RenewWrite, ReleaseRead, ReleaseRemove, StoreFails,
               Section, Goto, Finish, MeterTypes, TypeOK
    <2>4. CASE RenewCheck(q)
      <3>1. op'[q] = "renew"
            BY <1>0, <2>4, Zenon DEF RenewCheck, Seen, MeterTypes, TypeOK
      <3>2. \A p \in Procs : p # q => op'[p] = op[p] /\ pc'[p] = pc[p] /\ ret'[p] = ret[p]
                                       /\ handle'[p] = handle[p] /\ proven'[p] = proven[p]
            BY <2>4, Zenon DEF RenewCheck, Goto, Finish, MeterTypes, TypeOK
      <3> QED BY <1>0, <2>0, <3>1, <3>2, ZenonT(30) DEF ProvenOK, Dropping
    <2>5. CASE Leave(q) \/ LockTimeout(q) \/ (LockFails(q) /\ Return(q, "error"))
      <3>1. \A p \in Procs : p # q => op'[p] = op[p] /\ pc'[p] = pc[p] /\ ret'[p] = ret[p]
                                       /\ handle'[p] = handle[p] /\ proven'[p] = proven[p]
            BY <2>5, Zenon DEF Leave, LockTimeout, LockFails, Return, Forget, MeterTypes, TypeOK
      <3>2. pc[q] # "idle" /\ pc'[q] = "idle"
            BY <2>5, Zenon DEF Leave, LockTimeout, LockFails, Return, MeterTypes, TypeOK
      <3>3. \/ handle'[q].id = NoId \/ handle'[q].renewed = proven'[q]
            \/ handle'[q] = handle[q] /\ proven'[q] = proven[q] /\ (op[q] = "renew" => ret'[q] # "ok")
            BY <1>0, <2>5 DEF Leave, LockTimeout, LockFails, Return, Forget, MeterTypes, TypeOK
      <3>4. op[q] = "renew" /\ ret'[q] # "ok" => Dropping(q)'
            BY <2>0, <3>2, ZenonT(30) DEF KeepOK, Dropping
      <3>5. handle'[q].id # NoId /\ op'[q] # "renew" /\ ~Dropping(q)' => handle'[q].renewed = proven'[q]
            BY <1>0, <3>2, <3>3, <3>4, Zenon DEF ProvenOK, Dropping
      <3> QED BY <1>0, <2>0, <3>1, <3>5, Zenon DEF ProvenOK, Dropping
    <2>6. CASE LockFails(q) /\ Goto(q, "lock") /\ UNCHANGED op
          BY <2>1, <2>6, ZenonT(30) DEF LockFails, Goto, MeterTypes, TypeOK
    <2>7. LockFails(q) => Return(q, "error") \/ (Goto(q, "lock") /\ UNCHANGED op)
          BY Zenon DEF LockFails
    <2> QED BY <1>5, <2>2, <2>3, <2>4, <2>5, <2>6, <2>7, Zenon
            DEF MeterStep, Step, Progress, Unlock, CallFails, UnlockFails
  <1>6. ASSUME NEW q \in Procs, MeterDie(q) PROVE FALSE
        BY <1>6, Zenon DEF MeterDie, Crash, Happens, Only
  <1>7. ASSUME NEW q \in Procs, NEW t \in Turns, ChargeTurn(q, t) \/ Consume(q, t) \/ RecordUsage(q, t)
        PROVE  UNCHANGED <<handle, proven, op, keep, pc, ret>>
        BY <1>7, Zenon DEF ChargeTurn, Consume, RecordUsage, leaseVars, MeterTypes, TypeOK
  <1>8. CASE MeterTick \/ UNCHANGED allMeterVars
        BY <1>1, <1>8, Zenon DEF MeterTick, Tick, allMeterVars, leaseVars, meterVars, Dropping
  <1>9. CASE UNCHANGED <<handle, proven, op, keep, pc, ret>>
        BY <1>1, <1>9, Zenon DEF Dropping
  <1> QED BY <1>2, <1>3, <1>4, <1>5, <1>6, <1>7, <1>8, <1>9, Zenon DEF MeterNext

LEMMA MeterInductive == MeterIInv /\ [MeterNext]_allMeterVars => MeterIInv'
  <1> SUFFICES ASSUME MeterIInv, [MeterNext]_allMeterVars PROVE MeterIInv'
      OBVIOUS
  <1>1. MeterTypes' /\ KeepOK' /\ TurnsOK'
        BY MeterTypesKept, KeepKept, TurnsKept, Zenon DEF MeterIInv
  <1>2. ASSUME Only({"io"})' PROVE MeterClean'
    <2>1. MeterTypes /\ KeepOK /\ MeterClean
          BY <1>2, MeterSeenGrows, Zenon DEF MeterIInv
    <2> QED BY <1>1, <1>2, <2>1, LeaseKept, PreviousKept, ProvenKept, Zenon DEF MeterClean
  <1> QED BY <1>1, <1>2, Zenon DEF MeterIInv

LEMMA MeterStarts == MeterInit => MeterIInv
  <1> SUFFICES ASSUME MeterInit PROVE MeterIInv
      OBVIOUS
  <1>1. TypeOK /\ Clean
        BY InitIInv, Zenon DEF MeterInit, IInv, Init, Only
  <1>2. NoRec.id = NoId /\ NoRec.renewed = 0 /\ NoRec \in Record
        BY Zenon DEF NoRec, NoId, Record
  <1>3. MeterTypes
        BY <1>1, <1>2, Zenon DEF MeterInit, MeterTypes
  <1>4. KeepOK
        BY <1>2, Zenon DEF MeterInit, Init, KeepOK
  <1>5. TurnsOK
        BY Zenon DEF MeterInit, TurnsOK, TurnOK
  <1>6. PreviousOK /\ ProvenOK
        BY <1>2 DEF MeterInit, Init, PreviousOK, ProvenOK
  <1> QED BY <1>1, <1>3, <1>4, <1>5, <1>6, Zenon DEF MeterIInv, MeterClean

LEMMA MeterIInvOneWriter == MeterIInv => OneWriter
  <1> SUFFICES ASSUME MeterIInv PROVE OneWriter
      OBVIOUS
  <1>1. ASSUME Only({"io"}), NEW p \in Procs, RoleReadable(p), ~Dropping(p), holds(p)
        PROVE  handle[p].id # NoId /\ file.id = handle[p].id
    <2>1. handle[p].id # NoId /\ handle[p].renewed = proven[p]
          BY <1>1, Zenon DEF MeterIInv, MeterClean, ProvenOK, RoleReadable, holds
    <2>2. Holds(p)
      <3>1. now \in Nat /\ handle[p].renewed \in Nat /\ TTL \in Nat
            BY LeaseConstants DEF LeaseConstants, MeterIInv, MeterTypes, TypeOK, Record
      <3> QED BY <1>1, <2>1, <3>1 DEF holds, expired, Holds
    <2> QED BY <1>1, <2>1, <2>2, ZenonT(30) DEF MeterIInv, MeterClean, Clean, Current
  <1>2. ASSUME Only({"io"}), NEW p \in Procs, NEW q \in Procs, RoleReadable(p), ~Dropping(p), holds(p),
               RoleReadable(q), ~Dropping(q), holds(q)
        PROVE  p = q
    <2>1. handle[p].id # NoId /\ handle[p].id = handle[q].id
          BY <1>1, <1>2, Zenon
    <2> QED BY <1>2, <2>1, Zenon DEF MeterIInv, MeterClean, Clean, Distinct
  <1>3. \A t \in Turns : stage[t] = "written" => counted[t] <= 1 /\ \A p \in Procs : t \notin inbox[p]
        BY Zenon DEF MeterIInv, TurnsOK, TurnOK
  <1> QED BY <1>2, <1>3, Zenon DEF OneWriter

(* The usage meter has at most one writer, for any number of processes and *)
(* turns and any TTL: while nothing worse than failed calls on the lease   *)
(* file and on the lock directory happened (an unlock that leaves the      *)
(* directory is worse), two processes never both read their role as writer *)
(* (meterWriter.holds), and a turn that its own process writes is written  *)
(* at most once and is never drained by another (chargeTurn).              *)
THEOREM SingleWriter == MeterSpec => []OneWriter
  <1>1. MeterSpec => []MeterIInv
        BY MeterStarts, MeterInductive, PTL DEF MeterSpec
  <1> QED BY <1>1, MeterIInvOneWriter, PTL

=============================================================================
