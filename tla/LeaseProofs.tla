----------------------------- MODULE LeaseProofs -----------------------------
(***************************************************************************)
(* One holder, and takeover only after expiry, for any number of processes *)
(* and any TTL, until a process dies or overstays StaleAfter in the        *)
(* section, leaves its lock directory behind, or a challenger fails to     *)
(* read the file.  Every other call may fail anywhere.                     *)
(*                                                                         *)
(* The argument: the lock directory is then never stale, so at most one    *)
(* process is in the section (Locked).  What a process in the section has  *)
(* read stays true until it leaves (Seen).  IDs are never shared           *)
(* (Distinct), so a process whose lease has not lapsed finds its own       *)
(* record in the file (Current), and two of them would share an ID.        *)
(***************************************************************************)
EXTENDS Lease, TLAPS

(* Seconds for a leaf that names no prover.                                *)
USE SMTT(20), ZenonT(30)

Locked ==
    /\ \A p \in Procs : InSection(p) => lock.by = p
    /\ lock.by # NoProc => InSection(lock.by) /\ now <= lock.at + StaleAfter
    /\ \A p \in Procs : pc[p] # "removeStale"

Distinct ==
    /\ \A p, q \in Procs : handle[p].id = handle[q].id => p = q \/ handle[p].id = NoId
    /\ \A p, q \in Procs : cand[p].id = cand[q].id => p = q \/ cand[p].id = NoId
    /\ \A p, q \in Procs : cand[p].id = handle[q].id => cand[p].id = NoId

Dated ==
    \A p \in Procs :
        /\ cand[p].renewed <= now
        /\ proven[p] <= handle[p].renewed
        /\ handle[p].renewed <= now

(* What a process in the section knows.                                    *)
Seen ==
    \A p \in Procs :
        /\ op[p] = "renew" => handle[p].id # NoId
        /\ op[p] = "release" => cand[p].id # NoId
        /\ pc[p] \in {"create", "read", "write", "readback"} => cand[p].id # NoId
        /\ pc[p] \in {"stamp", "create", "read", "write", "readback"} => op[p] = "acquire"
        /\ pc[p] \in {"renewRead", "renewCheck", "renewWrite"} => op[p] = "renew"
        /\ pc[p] \in {"releaseRead", "releaseRemove"} => op[p] = "release"
        /\ pc[p] = "lock" => op[p] # "none"
        /\ pc[p] \in {"renewCheck", "renewWrite"} => file.id = handle[p].id
        /\ pc[p] = "releaseRemove" => file.id = cand[p].id
        /\ pc[p] = "write" => file.id = NoId \/ expired(file, cand[p].renewed)
        /\ pc[p] = "readback" => file = cand[p]
        /\ pc[p] = "unlock" /\ ret[p] = "ok" /\ op[p] = "acquire" => file = cand[p]
        /\ pc[p] = "unlock" /\ ret[p] = "ok" /\ op[p] = "renew" => file = handle[p]
        /\ pc[p] = "unlock" /\ ret[p] = "ok" /\ op[p] = "acquire" => cand[p].id # NoId

Current ==
    \A p \in Procs : Holds(p) => file.id = handle[p].id /\ proven[p] <= file.renewed

Clean == Locked /\ Distinct /\ Dated /\ Seen /\ Current

IInv == TypeOK /\ (Only({"io"}) => Clean)

-----------------------------------------------------------------------------
LEMMA InitIInv == Init => IInv
  <1> SUFFICES ASSUME Init PROVE IInv
      OBVIOUS
  <1> USE LeaseConstants DEF LeaseConstants, Init, NoRec, NoLock, NoId
  <1>1. TypeOK
        BY DEF TypeOK, Record, Steps, Section, Ops, Results
  <1>2. Locked /\ Distinct /\ Dated /\ Seen
        BY DEF Locked, Distinct, Dated, Seen, InSection, Section
  <1>3. Current
        BY Zenon DEF Current, Holds
  <1> QED BY <1>1, <1>2, <1>3, Zenon DEF IInv, Clean

-----------------------------------------------------------------------------
(* The steps keep the types, whatever faults happen.                       *)
LEMMA CallTypes ==
    ASSUME TypeOK, NEW p \in Procs, AcquireContext(p) \/ RenewContext(p) \/ ReleaseContext(p)
    PROVE  TypeOK'
  <1> USE LeaseConstants DEF LeaseConstants, NoId, TypeOK, Record, Steps, Section, Ops, Results
  <1>1. CASE AcquireContext(p)
        BY <1>1, Zenon DEF AcquireContext, Call, NoRec
  <1>2. CASE RenewContext(p)
        BY <1>2, Zenon DEF RenewContext, Call, NoRec
  <1>3. CASE ReleaseContext(p)
        BY <1>3, Zenon DEF ReleaseContext, Call, Forget, NoRec
  <1> QED BY <1>1, <1>2, <1>3, Zenon

LEMMA LeaveTypes ==
    ASSUME TypeOK, NEW p \in Procs, Leave(p), lock' \in [by : Procs \cup {NoProc}, at : Nat],
           faults' \in [n : 0..MaxFaults, seen : SUBSET FaultKinds]
    PROVE  TypeOK'
  <1> USE LeaseConstants DEF LeaseConstants, NoId, TypeOK, Record, Steps, Section, Ops, Results
  <1>0. cand[p] \in Record /\ handle[p] \in Record /\ NoRec \in Record
        BY Zenon DEF NoRec
  <1>1. cand[p].renewed \in Nat /\ handle[p].renewed \in Nat
        OBVIOUS
  <1>2. handle' \in [Procs -> Record] /\ proven' \in [Procs -> Nat]
    <2> HIDE DEF Record
    <2>1. \/ handle' = [handle EXCEPT ![p] = cand[p]]
          \/ handle' = [handle EXCEPT ![p] = NoRec]
          \/ handle' = handle
          BY Zenon DEF Leave, Forget
    <2>2. \/ proven' = [proven EXCEPT ![p] = cand[p].renewed]
          \/ proven' = [proven EXCEPT ![p] = handle[p].renewed]
          \/ proven' = [proven EXCEPT ![p] = 0]
          \/ proven' = proven
          BY Zenon DEF Leave, Forget
    <2>3. handle' \in [Procs -> Record]
          BY <1>0, <2>1, Zenon
    <2>4. proven' \in [Procs -> Nat]
          BY <1>1, <2>2
    <2> QED BY <2>3, <2>4, Zenon
  <1>3. cand' \in [Procs -> Record]
    <2> HIDE DEF Record
    <2> QED BY <1>0, Zenon DEF Leave, Return
  <1>4. /\ now' = now /\ file' = file
        /\ ret' = [ret EXCEPT ![p] = ret[p]]
        /\ pc' = [pc EXCEPT ![p] = "idle"]
        /\ op' = [op EXCEPT ![p] = "none"]
        BY Zenon DEF Leave, Return
  <1> QED BY <1>2, <1>3, <1>4, Zenon

LEMMA StepTypes == ASSUME TypeOK, NEW p \in Procs, NEW known, Step(p, known) PROVE TypeOK'
  <1> USE LeaseConstants DEF LeaseConstants, NoId, TypeOK, Record, Steps, Section, Ops, Results
  <1>4. ASSUME MkdirLock(p) \/ StatStale(p) \/ RemoveStaleLock(p) PROVE TypeOK'
    <2>1. CASE MkdirLock(p)
          BY <2>1 DEF MkdirLock, FirstStep
    <2>2. CASE StatStale(p)
          BY <2>2, Zenon DEF StatStale
    <2>3. CASE RemoveStaleLock(p)
          BY <2>3, Zenon DEF RemoveStaleLock, NoLock
    <2> QED BY <1>4, <2>1, <2>2, <2>3, Zenon
  <1>5. ASSUME StampRecord(p, known) PROVE TypeOK'
        BY <1>5 DEF StampRecord, Goto, FreshIds
  <1>6. ASSUME TryCreate(p) PROVE TypeOK'
    <2>1. cand[p] \in Record
          OBVIOUS
    <2>2. file' \in Record
          BY <1>6, <2>1, Zenon DEF TryCreate
    <2> QED BY <1>6, <2>2, Zenon DEF TryCreate, Goto, Finish
  <1>7. ASSUME ReadHolder(p) \/ WriteTakeover(p) \/ ReadBack(p) PROVE TypeOK'
    <2>1. CASE ReadHolder(p)
          BY <2>1, Zenon DEF ReadHolder, Goto, Finish
    <2>2. CASE WriteTakeover(p)
          BY <2>2, Zenon DEF WriteTakeover, Goto
    <2>3. CASE ReadBack(p)
          BY <2>3, Zenon DEF ReadBack, Finish
    <2> QED BY <1>7, <2>1, <2>2, <2>3, Zenon
  <1>8. ASSUME RenewRead(p) \/ RenewWrite(p) PROVE TypeOK'
    <2>1. CASE RenewRead(p)
          BY <2>1, Zenon DEF RenewRead, Goto, Finish
    <2>2. CASE RenewWrite(p)
          BY <2>2, Zenon DEF RenewWrite, Finish
    <2> QED BY <1>8, <2>1, <2>2, Zenon
  <1>9. ASSUME RenewCheck(p) PROVE TypeOK'
    <2> DEFINE new == [id |-> handle[p].id, renewed |-> now]
    <2>1. handle' = handle \/ handle' = [handle EXCEPT ![p] = new]
          BY <1>9 DEF RenewCheck
    <2>2. new \in Record
          OBVIOUS
    <2>3. handle' \in [Procs -> Record]
      <3> HIDE DEF new
      <3> QED BY <2>1, <2>2, Zenon
    <2> QED BY <1>9, <2>3, Zenon DEF RenewCheck, Goto, Finish
  <1>10. ASSUME ReleaseRead(p) \/ ReleaseRemove(p) PROVE TypeOK'
    <2>1. CASE ReleaseRead(p)
          BY <2>1, Zenon DEF ReleaseRead, Goto, Finish
    <2>2. CASE ReleaseRemove(p)
          BY <2>2, Zenon DEF ReleaseRemove, Finish, NoRec
    <2> QED BY <1>10, <2>1, <2>2, Zenon
  <1>11. ASSUME Unlock(p) PROVE TypeOK'
    <2>1. lock' \in [by : Procs \cup {NoProc}, at : Nat]
          BY <1>11, Zenon DEF Unlock, NoLock
    <2>2. faults' \in [n : 0..MaxFaults, seen : SUBSET FaultKinds]
          BY <1>11, Zenon DEF Unlock
    <2> QED BY <1>11, <2>1, <2>2, LeaveTypes, Zenon DEF Unlock
  <1>12. ASSUME LockTimeout(p) PROVE TypeOK'
         BY <1>12, Zenon DEF LockTimeout, Return, NoRec
  <1> QED BY <1>4, <1>5, <1>6, <1>7, <1>8, <1>9, <1>10, <1>11, <1>12, Zenon DEF Step, Progress

LEMMA FaultTypes == ASSUME TypeOK, NEW p \in Procs, Fault(p) PROVE TypeOK'
  <1> USE LeaseConstants DEF LeaseConstants, NoId, TypeOK, Record, Steps, Section, Ops, Results
  <1>13. ASSUME NEW kind \in FaultKinds, Happens(kind) PROVE faults' \in [n : 0..MaxFaults, seen : SUBSET FaultKinds]
         BY <1>13 DEF Happens, FaultAllowed
  <1>1. {"crash", "io", "unlock", "unreadable", "slow"} \subseteq FaultKinds
        BY Zenon DEF FaultKinds
  <1>2. CASE Crash(p)
        BY <1>13, <1>1, <1>2, Zenon DEF Crash, Return, Forget, NoRec
  <1>3. CASE StoreFails(p) \/ ReadFails(p)
        BY <1>13, <1>1, <1>3, Zenon DEF StoreFails, ReadFails, Finish, Goto
  <1>4. CASE HeldUp(p)
        BY <1>13, <1>1, <1>4 DEF HeldUp, Happens, FaultAllowed
  <1>5. CASE LockFails(p)
    <2>1. faults' \in [n : 0..MaxFaults, seen : SUBSET FaultKinds]
          BY <1>13, <1>1, <1>5, Zenon DEF LockFails
    <2>2. CASE Return(p, "error")
          BY <1>5, <2>1, <2>2, Zenon DEF LockFails, Return, NoRec
    <2>3. CASE Goto(p, "lock") /\ UNCHANGED <<op, cand>>
          BY <1>5, <2>1, <2>3, Zenon DEF LockFails, Goto
    <2> QED BY <1>5, <2>2, <2>3, Zenon DEF LockFails
  <1>6. CASE UnlockFails(p)
    <2>1. lock' \in [by : Procs \cup {NoProc}, at : Nat]
          BY <1>6, Zenon DEF UnlockFails
    <2>2. faults' \in [n : 0..MaxFaults, seen : SUBSET FaultKinds]
          BY <1>13, <1>1, <1>6, Zenon DEF UnlockFails
    <2> QED BY <1>6, <2>1, <2>2, LeaveTypes, Zenon DEF UnlockFails
  <1> QED BY <1>2, <1>3, <1>4, <1>5, <1>6, Zenon DEF Fault, CallFails

LEMMA NextTypes == ASSUME TypeOK, [Next]_leaseVars PROVE TypeOK'
  <1>1. CASE UNCHANGED leaseVars
        BY <1>1, Zenon DEF leaseVars, TypeOK
  <1>2. CASE Tick
        BY <1>2, LeaseConstants DEF LeaseConstants, Tick, TypeOK
  <1> QED BY <1>1, <1>2, CallTypes, StepTypes, FaultTypes, Zenon DEF Next

(* Kinds of faults are not forgotten.                                      *)
LEMMA SeenGrows == ASSUME [Next]_leaseVars, Only({"io"})' PROVE Only({"io"})
  <1>1. faults' = faults \/ \E kind : Happens(kind)
        BY DEF Next, leaseVars, Tick, AcquireContext, RenewContext, ReleaseContext, Call, Step, Progress,
               MkdirLock, StatStale, RemoveStaleLock, LockTimeout, StampRecord, TryCreate, ReadHolder,
               WriteTakeover, ReadBack, RenewRead, RenewCheck, RenewWrite, ReleaseRead, ReleaseRemove,
               Unlock, Fault, Crash, CallFails, StoreFails, LockFails, UnlockFails, ReadFails, HeldUp
  <1> QED BY <1>1 DEF Only, Happens

-----------------------------------------------------------------------------
(* While nothing worse than an I/O error happened, the steps keep Clean.   *)
LEMMA AcquireContextClean == ASSUME TypeOK, TypeOK', Clean, NEW p \in Procs, AcquireContext(p) PROVE Clean'
  <1> USE LeaseConstants DEF LeaseConstants, Clean, AcquireContext, Call, NoRec, NoId, TypeOK, Record
  <1>2. Locked'
        BY DEF Locked, InSection, Section
  <1>3. Distinct'
        BY DEF Distinct
  <1>4. Dated'
        BY DEF Dated, expired
  <1>5. Seen'
        BY DEF Seen, Locked, InSection, Section, expired, Distinct
  <1>6. Current'
        BY Zenon DEF Current, Holds, Seen, Distinct, Dated, expired
  <1> QED BY <1>2, <1>3, <1>4, <1>5, <1>6, Zenon DEF Clean

LEMMA RenewContextClean == ASSUME TypeOK, TypeOK', Clean, NEW p \in Procs, RenewContext(p) PROVE Clean'
  <1> USE LeaseConstants DEF LeaseConstants, Clean, RenewContext, Call, NoRec, NoId, TypeOK, Record
  <1>2. Locked'
        BY DEF Locked, InSection, Section
  <1>3. Distinct'
        BY DEF Distinct
  <1>4. Dated'
        BY DEF Dated, expired
  <1>5. Seen'
        BY DEF Seen, Locked, InSection, Section, expired, Distinct
  <1>6. Current'
        BY Zenon DEF Current, Holds, Seen, Distinct, Dated, expired
  <1> QED BY <1>2, <1>3, <1>4, <1>5, <1>6, Zenon DEF Clean

LEMMA ReleaseContextClean == ASSUME TypeOK, TypeOK', Clean, NEW p \in Procs, ReleaseContext(p) PROVE Clean'
  <1> USE LeaseConstants DEF LeaseConstants, Clean, ReleaseContext, Call, Forget, NoRec, NoId, TypeOK, Record
  <1>2. Locked'
        BY DEF Locked, InSection, Section
  <1>3. Distinct'
        BY DEF Distinct
  <1>4. Dated'
        BY DEF Dated, expired
  <1>5. Seen'
        BY DEF Seen, Locked, InSection, Section, expired, Distinct
  <1>6. Current'
        BY DEF Current, Holds, Seen, Distinct, Dated, expired
  <1> QED BY <1>2, <1>3, <1>4, <1>5, <1>6, Zenon DEF Clean

LEMMA MkdirLockClean == ASSUME TypeOK, TypeOK', Clean, NEW p \in Procs, MkdirLock(p) PROVE Clean'
  <1> USE LeaseConstants DEF LeaseConstants, Clean, MkdirLock, FirstStep, NoId, TypeOK, Record
  <1>2. Locked'
        BY DEF Locked, InSection, Section
  <1>3. Distinct'
        BY Zenon DEF Distinct
  <1>4. Dated'
        BY Zenon DEF Dated, expired
  <1>5. Seen'
        BY DEF Seen, Locked, Ops, InSection, Section, expired, Distinct
  <1>6. Current'
        BY Zenon DEF Current, Holds, Seen, Distinct, Dated, expired
  <1> QED BY <1>2, <1>3, <1>4, <1>5, <1>6, Zenon DEF Clean

LEMMA LockTimeoutClean == ASSUME TypeOK, TypeOK', Clean, NEW p \in Procs, LockTimeout(p) PROVE Clean'
  <1> USE LeaseConstants DEF LeaseConstants, Clean, LockTimeout, Return, NoRec, NoId, TypeOK, Record
  <1>2. Locked'
        BY DEF Locked, InSection, Section
  <1>3. Distinct'
        BY DEF Distinct
  <1>4. Dated'
        BY DEF Dated, expired
  <1>5. Seen'
        BY DEF Seen, Locked, InSection, Section, expired, Distinct
  <1>6. Current'
        BY Zenon DEF Current, Holds, Seen, Distinct, Dated, expired
  <1> QED BY <1>2, <1>3, <1>4, <1>5, <1>6, Zenon DEF Clean

LEMMA LockFailsClean == ASSUME TypeOK, TypeOK', Clean, NEW p \in Procs, LockFails(p) PROVE Clean'
  <1> USE LeaseConstants DEF LeaseConstants, Clean, Return, NoRec, NoId, TypeOK, Record
  <1>1. pc[p] = "lock" /\ Return(p, "error")
        BY DEF Locked, LockFails
  <1>2. Locked'
        BY <1>1 DEF LockFails, Locked, InSection, Section
  <1>3. Distinct'
        BY <1>1 DEF LockFails, Distinct
  <1>4. Dated'
        BY <1>1 DEF LockFails, Dated, expired
  <1>5. Seen'
        BY <1>1 DEF LockFails, Seen, Locked, InSection, Section, expired, Distinct
  <1>6. Current'
        BY <1>1, Zenon DEF LockFails, Current, Holds, Seen, Distinct, Dated, expired
  <1> QED BY <1>2, <1>3, <1>4, <1>5, <1>6, Zenon DEF Clean

LEMMA StampRecordClean ==
    ASSUME TypeOK, TypeOK', Clean, NEW p \in Procs, NEW known, StampRecord(p, known) PROVE Clean'
  <1> USE LeaseConstants DEF LeaseConstants, Clean, StampRecord, Goto, FreshIds, NoId, TypeOK, Record
  <1>2. Locked'
        BY DEF Locked, InSection, Section
  <1>3. Distinct'
        BY DEF Distinct
  <1>4. Dated'
        BY DEF Dated, expired
  <1>5. Seen'
        BY DEF Seen, Locked, InSection, Section, expired, Distinct
  <1>6. Current'
        BY Zenon DEF Current, Holds, Seen, Distinct, Dated, expired
  <1> QED BY <1>2, <1>3, <1>4, <1>5, <1>6, Zenon DEF Clean

LEMMA TryCreateClean == ASSUME TypeOK, TypeOK', Clean, NEW p \in Procs, TryCreate(p) PROVE Clean'
  <1> USE LeaseConstants DEF LeaseConstants, Clean, TryCreate, Goto, Finish, NoId, TypeOK, Record
  <1>2. Locked'
        BY DEF Locked, InSection, Section
  <1>3. Distinct'
        BY Zenon DEF Distinct
  <1>4. Dated'
        BY Zenon DEF Dated, expired
  <1>5. Seen'
        BY DEF Seen, Locked, InSection, Section, expired, Distinct
  <1>6. Current'
        BY DEF Current, Holds, Seen, Distinct, Dated, expired
  <1> QED BY <1>2, <1>3, <1>4, <1>5, <1>6, Zenon DEF Clean

LEMMA ReadHolderClean == ASSUME TypeOK, TypeOK', Clean, NEW p \in Procs, ReadHolder(p) PROVE Clean'
  <1> USE LeaseConstants DEF LeaseConstants, Clean, ReadHolder, Goto, Finish, NoId, TypeOK, Record
  <1>2. Locked'
        BY DEF Locked, InSection, Section
  <1>3. Distinct'
        BY Zenon DEF Distinct
  <1>4. Dated'
        BY Zenon DEF Dated, expired
  <1>5. Seen'
        BY DEF Seen, Locked, InSection, Section, expired, Distinct
  <1>6. Current'
        BY Zenon DEF Current, Holds, Seen, Distinct, Dated, expired
  <1> QED BY <1>2, <1>3, <1>4, <1>5, <1>6, Zenon DEF Clean

LEMMA WriteTakeoverClean == ASSUME TypeOK, TypeOK', Clean, NEW p \in Procs, WriteTakeover(p) PROVE Clean'
  <1> USE LeaseConstants DEF LeaseConstants, Clean, WriteTakeover, Goto, NoId, TypeOK, Record
  <1>2. Locked'
        BY DEF Locked, InSection, Section
  <1>3. Distinct'
        BY Zenon DEF Distinct
  <1>4. Dated'
        BY Zenon DEF Dated, expired
  <1>5. Seen'
        BY DEF Seen, Locked, InSection, Section, expired, Distinct
  <1>6. Current'
        BY DEF Current, Holds, Seen, Distinct, Dated, expired
  <1> QED BY <1>2, <1>3, <1>4, <1>5, <1>6, Zenon DEF Clean

LEMMA ReadBackClean == ASSUME TypeOK, TypeOK', Clean, NEW p \in Procs, ReadBack(p) PROVE Clean'
  <1> USE LeaseConstants DEF LeaseConstants, Clean, ReadBack, Finish, NoId, TypeOK, Record
  <1>2. Locked'
        BY DEF Locked, InSection, Section
  <1>3. Distinct'
        BY Zenon DEF Distinct
  <1>4. Dated'
        BY Zenon DEF Dated, expired
  <1>5. Seen'
        BY DEF Seen, Locked, InSection, Section, expired, Distinct
  <1>6. Current'
        BY Zenon DEF Current, Holds, Seen, Distinct, Dated, expired
  <1> QED BY <1>2, <1>3, <1>4, <1>5, <1>6, Zenon DEF Clean

LEMMA RenewReadClean == ASSUME TypeOK, TypeOK', Clean, NEW p \in Procs, RenewRead(p) PROVE Clean'
  <1> USE LeaseConstants DEF LeaseConstants, Clean, RenewRead, Goto, Finish, NoId, TypeOK, Record
  <1>2. Locked'
        BY DEF Locked, InSection, Section
  <1>3. Distinct'
        BY Zenon DEF Distinct
  <1>4. Dated'
        BY Zenon DEF Dated, expired
  <1>5. Seen'
        BY DEF Seen, Locked, InSection, Section, expired, Distinct
  <1>6. Current'
        BY Zenon DEF Current, Holds, Seen, Distinct, Dated, expired
  <1> QED BY <1>2, <1>3, <1>4, <1>5, <1>6, Zenon DEF Clean

LEMMA RenewCheckClean == ASSUME TypeOK, TypeOK', Clean, NEW p \in Procs, RenewCheck(p) PROVE Clean'
  <1> USE LeaseConstants DEF LeaseConstants, Clean, RenewCheck, Goto, Finish, NoId, TypeOK, Record
  <1>1. CASE expired(handle[p], now)
    <2> handle' = handle
        BY <1>1, Zenon
    <2>1. Locked'
          BY <1>1 DEF Section, Locked, InSection
    <2>2. Distinct' /\ Dated' /\ Current'
          BY <1>1, Zenon DEF Distinct, Dated, Current, Holds
    <2>3. Seen'
          BY <1>1 DEF Seen, Locked, InSection, Section, expired
    <2> QED BY <2>1, <2>2, <2>3, Zenon
  <1>2. CASE ~expired(handle[p], now)
    <2> DEFINE new == [id |-> handle[p].id, renewed |-> now]
    <2>0. handle' = [handle EXCEPT ![p] = new]
          BY <1>2
    <2>4. Locked'
          BY <1>2, <2>0 DEF Locked, InSection, Section
    <2>5. \A q \in Procs : handle'[q].id = handle[q].id
          BY <2>0
    <2>6. Distinct' /\ Current'
          BY <1>2, <2>5 DEF Distinct, Current, Holds
    <2>7. Dated'
          BY <1>2, <2>0 DEF Dated
    <2>8. Seen'
          BY <1>2, <2>5 DEF Seen, Locked, InSection, Section, expired
    <2> QED BY <2>4, <2>6, <2>7, <2>8, Zenon
  <1> QED BY <1>1, <1>2, Zenon

LEMMA RenewWriteClean == ASSUME TypeOK, TypeOK', Clean, NEW p \in Procs, RenewWrite(p) PROVE Clean'
  <1> USE LeaseConstants DEF LeaseConstants, Clean, RenewWrite, Finish, NoId, TypeOK, Record
  <1>2. Locked'
        BY DEF Locked, InSection, Section
  <1>3. Distinct'
        BY DEF Distinct
  <1>4. Dated'
        BY Zenon DEF Dated, expired
  <1>5. Seen'
        BY DEF Seen, Locked, InSection, Section, expired, Distinct
  <1>6. Current'
    <2>0. handle[p].id = file.id /\ file' = handle[p] /\ UNCHANGED <<now, handle, proven>>
          BY Zenon DEF Seen
    <2>1. ASSUME NEW q \in Procs, Holds(q)
          PROVE  file'.id = handle[q].id /\ proven[q] <= file'.renewed
      <3>1. file.id = handle[q].id /\ handle[q].id # NoId
            BY <2>1, Zenon DEF Current, Holds
      <3>2. q = p
            BY <2>0, <3>1 DEF Distinct
      <3> QED BY <2>0, <3>2, Zenon DEF Dated
    <2> HIDE DEF RenewWrite, TypeOK, Record
    <2> QED BY <2>0, <2>1, Zenon DEF Current, Holds
  <1> QED BY <1>2, <1>3, <1>4, <1>5, <1>6, Zenon DEF Clean

LEMMA ReleaseReadClean == ASSUME TypeOK, TypeOK', Clean, NEW p \in Procs, ReleaseRead(p) PROVE Clean'
  <1> USE LeaseConstants DEF LeaseConstants, Clean, ReleaseRead, Goto, Finish, NoId, TypeOK, Record
  <1>2. Locked'
        BY DEF Locked, InSection, Section
  <1>3. Distinct'
        BY DEF Distinct
  <1>4. Dated'
        BY Zenon DEF Dated, expired
  <1>5. Seen'
        BY DEF Seen, Locked, InSection, Section, expired, Distinct
  <1>6. Current'
        BY Zenon DEF Current, Holds, Seen, Distinct, Dated, expired
  <1> QED BY <1>2, <1>3, <1>4, <1>5, <1>6, Zenon DEF Clean

LEMMA ReleaseRemoveClean == ASSUME TypeOK, TypeOK', Clean, NEW p \in Procs, ReleaseRemove(p) PROVE Clean'
  <1> USE LeaseConstants DEF LeaseConstants, Clean, ReleaseRemove, Finish, NoRec, NoId, TypeOK, Record
  <1>2. Locked'
        BY DEF Locked, InSection, Section
  <1>3. Distinct'
        BY DEF Distinct
  <1>4. Dated'
        BY Zenon DEF Dated, expired
  <1>5. Seen'
        BY DEF Seen, Locked, InSection, Section, expired, Distinct
  <1>6. Current'
        BY DEF Current, Holds, Seen, Distinct, Dated, expired
  <1> QED BY <1>2, <1>3, <1>4, <1>5, <1>6, Zenon DEF Clean

(* Whoever leaves the section knows nothing any more, the others what they *)
(* knew.                                                                   *)
LEMMA LeaveSeen == ASSUME TypeOK, Seen, NEW p \in Procs, Leave(p) PROVE Seen'
  <1>1. /\ p \in DOMAIN pc /\ p \in DOMAIN op /\ p \in DOMAIN ret /\ p \in DOMAIN cand
        /\ p \in DOMAIN handle
        BY Zenon DEF TypeOK
  <1>2. file' = file /\ pc'[p] = "idle" /\ op'[p] = "none"
        BY <1>1, Zenon DEF Leave, Return
  <1>3. ASSUME NEW q \in Procs, q # p
        PROVE  /\ pc'[q] = pc[q] /\ op'[q] = op[q] /\ ret'[q] = ret[q] /\ cand'[q] = cand[q]
               /\ handle'[q] = handle[q]
    <2>1. pc'[q] = pc[q] /\ op'[q] = op[q] /\ ret'[q] = ret[q] /\ cand'[q] = cand[q]
          <3>1. q \in DOMAIN pc /\ q \in DOMAIN op /\ q \in DOMAIN ret /\ q \in DOMAIN cand
                BY Zenon DEF TypeOK
          <3> QED BY <1>3, <3>1, Zenon DEF Leave, Return
    <2>2. handle' = handle \/ \E r : handle' = [handle EXCEPT ![p] = r]
          BY Zenon DEF Leave, Forget
    <2>3. q \in DOMAIN handle
          BY Zenon DEF TypeOK
    <2>4. handle'[q] = handle[q]
          BY <1>3, <2>2, <2>3, Zenon
    <2> QED BY <2>1, <2>4, Zenon
  <1> QED BY <1>2, <1>3 DEF Seen, expired

LEMMA UnlockClean == ASSUME TypeOK, TypeOK', Clean, NEW p \in Procs, Unlock(p) PROVE Clean'
  <1> USE LeaseConstants DEF LeaseConstants, Clean, Unlock, Leave, Return, NoRec, NoLock, NoId, TypeOK, Record
  <1>4. Locked'
        BY DEF Locked, InSection, Section
  <1>5. CASE op[p] = "acquire" /\ ret[p] = "ok"
    <2>0. /\ handle' = [handle EXCEPT ![p] = cand[p]]
          /\ proven' = [proven EXCEPT ![p] = cand[p].renewed]
          BY <1>5, Zenon
    <2>1. Distinct'
          BY <2>0 DEF Distinct
    <2>2. Dated'
          BY <2>0 DEF Dated
    <2>3. Seen'
          BY LeaveSeen, Zenon
    <2>4. Current'
          BY <1>5, <2>0 DEF Current, Holds, Seen
    <2> QED BY <1>4, <2>1, <2>2, <2>3, <2>4, Zenon
  <1>6. CASE op[p] = "renew" /\ ret[p] = "ok"
    <2>0. handle' = handle /\ proven' = [proven EXCEPT ![p] = handle[p].renewed]
          BY <1>6, Zenon
    <2>1. Distinct'
          BY <2>0 DEF Distinct
    <2>2. Dated'
          BY <2>0 DEF Dated
    <2>3. Seen'
          BY LeaveSeen, Zenon
    <2>4. Current'
          BY <1>6, <2>0 DEF Current, Holds, Seen
    <2> QED BY <1>4, <2>1, <2>2, <2>3, <2>4, Zenon
  <1>7. CASE op[p] = "renew" /\ ret[p] = "lost"
    <2>0. handle' = [handle EXCEPT ![p] = NoRec] /\ proven' = [proven EXCEPT ![p] = 0]
          BY <1>7, Zenon DEF Forget
    <2>1. Distinct'
          BY <2>0 DEF Distinct
    <2>2. Dated'
          BY <2>0 DEF Dated
    <2>3. Seen'
          BY LeaveSeen, Zenon
    <2>4. Current'
          BY <2>0 DEF Current, Holds
    <2> QED BY <1>4, <2>1, <2>2, <2>3, <2>4, Zenon
  <1>8. CASE op[p] = "release" \/ ret[p] \notin {"ok", "lost"}
    <2>0. handle' = handle /\ proven' = proven
          BY <1>8, Zenon
    <2>1. Distinct'
          BY <2>0 DEF Distinct
    <2>2. Dated'
          BY <2>0 DEF Dated
    <2>3. Seen'
          BY LeaveSeen, Zenon
    <2>4. Current'
          BY <2>0, Zenon DEF Current, Holds
    <2> QED BY <1>4, <2>1, <2>2, <2>3, <2>4, Zenon
  <1> QED BY <1>5, <1>6, <1>7, <1>8, Zenon

LEMMA StoreFailsClean == ASSUME TypeOK, TypeOK', Clean, NEW p \in Procs, StoreFails(p) PROVE Clean'
  <1> USE LeaseConstants DEF LeaseConstants, Clean, StoreFails, Finish, NoId, TypeOK, Record
  <1>2. Locked'
        BY DEF Locked, InSection, Section
  <1>3. Distinct'
        BY DEF Distinct
  <1>4. Dated'
        BY Zenon DEF Dated, expired
  <1>5. Seen'
        BY DEF Seen, Locked, InSection, Section, expired, Distinct
  <1>6. Current'
        BY Zenon DEF Current, Holds, Seen, Distinct, Dated, expired
  <1> QED BY <1>2, <1>3, <1>4, <1>5, <1>6, Zenon DEF Clean

LEMMA TickClean == ASSUME TypeOK, TypeOK', Clean, Tick PROVE Clean'
  <1> USE LeaseConstants DEF LeaseConstants, Clean, Tick, NoId, TypeOK, Record
  <1>1. Distinct' /\ Dated'
        BY DEF Distinct, Dated
  <1>2. Locked'
        BY DEF Locked, InSection, Overstays
  <1>3. Seen' /\ Current'
        BY DEF Seen, Current, Holds, expired
  <1> QED BY <1>1, <1>2, <1>3, Zenon

(* A live lock directory is never stale, so StatStale and the removal      *)
(* after it do not happen.                                                 *)
LEMMA StepClean == ASSUME TypeOK, TypeOK', Clean, NEW p \in Procs, NEW known, Step(p, known) PROVE Clean'
  <1>1. ~StatStale(p)
        BY LeaseConstants DEF LeaseConstants, StatStale, Clean, Locked, TypeOK, lockStale
  <1>2. ~RemoveStaleLock(p)
        BY DEF RemoveStaleLock, Clean, Locked
  <1>3. CASE LockTimeout(p)
        BY <1>3, LockTimeoutClean, Zenon
  <1>4. CASE StampRecord(p, known)
        BY <1>4, StampRecordClean, Zenon
  <1>5. CASE MkdirLock(p) \/ TryCreate(p) \/ ReadHolder(p) \/ WriteTakeover(p) \/ ReadBack(p)
        BY <1>5, MkdirLockClean, TryCreateClean, ReadHolderClean, WriteTakeoverClean, ReadBackClean, Zenon
  <1>6. CASE RenewRead(p) \/ RenewCheck(p) \/ RenewWrite(p)
        BY <1>6, RenewReadClean, RenewCheckClean, RenewWriteClean, Zenon
  <1>7. CASE ReleaseRead(p) \/ ReleaseRemove(p) \/ Unlock(p)
        BY <1>7, ReleaseReadClean, ReleaseRemoveClean, UnlockClean, Zenon
  <1> QED BY <1>1, <1>2, <1>3, <1>4, <1>5, <1>6, <1>7, Zenon DEF Step, Progress

(* Without deaths, overstays, directories left behind and unreadable       *)
(* files, every step keeps Clean.                                          *)
LEMMA FaultClean ==
    ASSUME TypeOK, TypeOK', Clean, Only({"io"})', NEW p \in Procs, Fault(p) PROVE Clean'
  <1>1. ~Crash(p) /\ ~UnlockFails(p) /\ ~ReadFails(p) /\ ~HeldUp(p)
        BY DEF Crash, UnlockFails, ReadFails, HeldUp, Happens, Only
  <1> QED BY <1>1, StoreFailsClean, LockFailsClean, Zenon DEF Fault, CallFails

LEMMA IdleClean == ASSUME Clean, UNCHANGED leaseVars PROVE Clean'
  BY DEF leaseVars, Clean, Locked, InSection, Distinct, Dated, Seen, expired, Current, Holds

LEMMA CallClean ==
    ASSUME TypeOK, TypeOK', Clean, NEW p \in Procs,
           AcquireContext(p) \/ RenewContext(p) \/ ReleaseContext(p)
    PROVE  Clean'
  BY AcquireContextClean, RenewContextClean, ReleaseContextClean, Zenon

LEMMA NextClean == ASSUME TypeOK, TypeOK', Clean, Only({"io"})', [Next]_leaseVars PROVE Clean'
  BY IdleClean, TickClean, CallClean, StepClean, FaultClean, Zenon DEF Next

LEMMA NextIInv == ASSUME IInv, [Next]_leaseVars PROVE IInv'
BY NextTypes, NextClean, SeenGrows, Zenon DEF IInv

LEMMA IInvExclusive == IInv => HolderExclusive
  <1> SUFFICES ASSUME IInv, Only({"io"}), NEW p \in Procs, NEW q \in Procs, Holds(p), Holds(q)
               PROVE p = q
      BY Zenon DEF HolderExclusive
  <1>1. file.id = handle[p].id /\ file.id = handle[q].id
        BY Zenon DEF IInv, Clean, Current
  <1>2. handle[p].id # NoId
        BY Zenon DEF Holds
  <1> QED BY <1>1, <1>2, Zenon DEF IInv, Clean, Distinct

(* A step that puts another instance's record in place of one comes after  *)
(* the latter's expiry: only WriteTakeover does, and what it saw expired   *)
(* at its stamp is still there.                                            *)
LEMMA StepTakesExpired ==
    ASSUME Only({"io"}), IInv, [Next]_leaseVars,
           file.id # NoId, file'.id \notin {NoId, file.id}
    PROVE  expired(file, now)
  <1> USE DEF IInv, Clean
  <1>1. PICK p \in Procs : TryCreate(p) \/ WriteTakeover(p) \/ RenewWrite(p) \/ ReleaseRemove(p)
    <2>1. file' # file
          OBVIOUS
    <2> QED BY <2>1 DEF Next, leaseVars, Tick, AcquireContext, RenewContext, ReleaseContext, Call,
                        Step, Progress, MkdirLock, StatStale, RemoveStaleLock, LockTimeout, StampRecord,
                        ReadHolder, ReadBack, RenewRead, RenewCheck, ReleaseRead, Unlock, Leave,
                        Fault, Crash, CallFails, StoreFails, LockFails, UnlockFails, ReadFails, HeldUp
  <1>2. CASE TryCreate(p)
        BY <1>2, Zenon DEF TryCreate
  <1>3. CASE RenewWrite(p)
        BY <1>3, Zenon DEF RenewWrite, Seen
  <1>4. CASE ReleaseRemove(p)
        BY <1>4, Zenon DEF ReleaseRemove, NoRec
  <1>5. CASE WriteTakeover(p)
    <2>1. expired(file, cand[p].renewed) /\ cand[p].renewed <= now
          BY <1>5, Zenon DEF WriteTakeover, Seen, Dated
    <2> QED BY <2>1, LeaseConstants DEF LeaseConstants, expired, TypeOK, Record
  <1> QED BY <1>1, <1>2, <1>3, <1>4, <1>5, Zenon

-----------------------------------------------------------------------------
(* Acquire, Renew and Release of any number of processes, with I/O errors: *)
(* the lease has no two holders until a worse fault happens (a death, an   *)
(* overstay, an unlock that leaves the directory, an unreadable file).     *)
THEOREM SingleHolder == Spec => []HolderExclusive
  <1>1. IInv /\ [Next]_leaseVars => IInv'
        BY NextIInv, Zenon
  <1> QED BY <1>1, InitIInv, IInvExclusive, PTL DEF Spec

(* Every variable keeps its type, whatever faults happen.                  *)
THEOREM TypeCorrect == Spec => []TypeOK
  <1>1. IInv /\ [Next]_leaseVars => IInv'
        BY NextIInv, Zenon
  <1>2. IInv => TypeOK
        BY Zenon DEF IInv
  <1> QED BY <1>1, <1>2, InitIInv, PTL DEF Spec

(* Until a worse fault, a record is taken over only after its TTL.         *)
THEOREM TakeoverAfterExpiry == Spec => TakeoverOnlyExpired
  <1>1. IInv /\ [Next]_leaseVars => IInv'
        BY NextIInv, Zenon
  <1>2. IInv /\ [Next]_leaseVars =>
            [Only({"io"}) /\ file.id # NoId /\ file'.id \notin {NoId, file.id}
               => expired(file, now)]_leaseVars
        BY StepTakesExpired, Zenon
  <1> QED BY <1>1, <1>2, InitIInv, PTL DEF Spec, TakeoverOnlyExpired

=============================================================================
