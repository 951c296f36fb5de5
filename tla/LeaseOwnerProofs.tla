-------------------------- MODULE LeaseOwnerProofs --------------------------
(***************************************************************************)
(* The owner of the model state, for any number of processes.  It serves   *)
(* only under its own live record (Fenced), so that two never serve at     *)
(* once, until something worse than an I/O error happens; and it gives up  *)
(* in time even after one fault of any kind (FaultInv).                    *)
(***************************************************************************)
EXTENDS LeaseOwner, LeaseProofs

(* Seconds for a leaf that names no prover.                                *)
USE SMTT(20), ZenonT(30)

OwnerTypes ==
    /\ role \in [Procs -> {"out", "joining", "owner", "follower", "lost"}]
    /\ loop \in [Procs -> {"none", "timer", "renewing"}]
    /\ due \in [Procs -> Nat]
    /\ attempt \in [Procs -> Nat]
    /\ validUntil \in [Procs -> Nat]
    /\ \A p \in Procs : loop[p] # "none" <=> role[p] = "owner"

(* An owner finds its own record in the file, and its timer fires before   *)
(* validUntil; a renewal takes no time, since nobody waits for a lock that *)
(* a live process holds.                                                   *)
OwnerAt(p) ==
    role[p] = "owner" =>
        /\ handle[p].id # NoId
        /\ file.id = handle[p].id
        /\ validUntil[p] <= file.renewed + TTL
        /\ validUntil[p] <= proven[p] + TTL
        /\ now <= validUntil[p]
        /\ loop[p] = "timer" => pc[p] = "idle" /\ now <= due[p] /\ due[p] <= validUntil[p]
        /\ loop[p] = "renewing" =>
             /\ attempt[p] = now
             /\ ret[p] # "lost"
             /\ pc[p] # "idle" => op[p] = "renew"
             /\ pc[p] = "renewWrite" => handle[p].renewed = now
             /\ pc[p] \in {"unlock", "idle"} /\ ret[p] = "ok" => file.renewed = now
             /\ pc[p] = "idle" /\ ret[p] = "ok" => proven[p] = now

(* A process that joins stamps its record with the time at which Join      *)
(* returns.                                                                *)
JoinerAt(p) ==
    role[p] = "joining" =>
        /\ pc[p] # "idle" => op[p] = "acquire"
        /\ pc[p] \in {"create", "read", "write", "readback"} => cand[p].renewed = now
        /\ pc[p] = "unlock" /\ ret[p] = "ok" => cand[p].renewed = now
        /\ pc[p] = "idle" /\ ret[p] = "ok" =>
             handle[p].id # NoId /\ file = handle[p] /\ handle[p].renewed = now /\ proven[p] = now

Fenced == \A p \in Procs : OwnerAt(p) /\ JoinerAt(p)

OwnerIInv == IInv /\ OwnerTypes /\ (Only({"io"}) => Fenced)

(* Every step of the owners is a step of the lease, or leaves it alone.    *)
LEMMA OwnerIsLease == OwnerNext \/ UNCHANGED allVars => [Next]_leaseVars
  <1>1. CASE UNCHANGED allVars
        BY <1>1, Zenon DEF allVars
  <1>2. CASE OwnerTick
        BY <1>2, Zenon DEF OwnerTick, Next
  <1>3. ASSUME NEW p \in Procs, Join(p) \/ RenewTimer(p) \/ Release(p) PROVE Next
        BY <1>3, Zenon DEF Join, RenewTimer, Release, Next
  <1>4. ASSUME NEW p \in Procs, JoinReturns(p) \/ RenewReturns(p) PROVE UNCHANGED leaseVars
        BY <1>4, Zenon DEF JoinReturns, RenewReturns
  <1>5. ASSUME NEW p \in Procs, Die(p) \/ LeaseStep(p) PROVE Next
        BY <1>5, Zenon DEF Die, LeaseStep, Next, Step, Fault
  <1> QED BY <1>1, <1>2, <1>3, <1>4, <1>5, Zenon DEF OwnerNext

(* The arithmetic of the timer: n is the time, u and d deadlines, v the    *)
(* time of the last write, a that of an attempt, i and t the interval and  *)
(* the TTL, w the wait for a stale directory.                              *)
LEMMA Rearmed ==
    ASSUME NEW n \in Nat, NEW a \in Nat, NEW i \in Nat, NEW t \in Nat, a <= n, i <= t
    PROVE  /\ n <= n /\ n <= n + i /\ n <= n + t /\ n + i <= n + i /\ n + i <= n + t
           /\ n + t <= n + t /\ a + t <= n + t
  OBVIOUS

LEMMA Rewritten ==
    ASSUME NEW n \in Nat, NEW u \in Nat, NEW v \in Nat, NEW t \in Nat, u <= v + t, v <= n
    PROVE  u <= n + t /\ n <= n + t /\ n <= n
  OBVIOUS

LEMMA NotLate ==
    ASSUME NEW n \in Nat, NEW d \in Nat, NEW v \in Nat, NEW i \in Nat, n <= d, d <= v + i
    PROVE  n <= v + i
  OBVIOUS

LEMMA Delayed ==
    ASSUME NEW n \in Nat, NEW d \in Nat, NEW u \in Nat, NEW v \in Nat, NEW t \in Nat, n + d <= u, u <= v + t
    PROVE  n <= n + d /\ n + d <= v + t
  OBVIOUS

LEMMA OneMore ==
    ASSUME NEW n \in Nat, NEW d \in Nat, NEW v \in Nat, NEW t \in Nat, n < d, d <= v + t, v <= n
    PROVE  n + 1 <= d /\ n + 1 <= v + t /\ v <= n + 1
  OBVIOUS

LEMMA WaitFits ==
    ASSUME NEW n \in Nat, NEW l \in Nat, NEW w \in Nat, NEW a \in Nat, NEW v \in Nat, NEW i \in Nat, NEW t \in Nat,
           i + w < t, n <= l + w, l <= a, a <= v + i
    PROVE  n + 1 <= v + t
  OBVIOUS

LEMMA NotEarlier == ASSUME NEW n \in Nat, NEW i \in Nat PROVE n <= n /\ n <= n + i
  OBVIOUS

LEMMA Earlier == ASSUME NEW n \in Nat, NEW v \in Nat, v <= n PROVE v <= n + 1
  OBVIOUS

(* The retry after a failed renewal comes before validUntil.               *)
LEMMA RetryInTime ==
    ASSUME TypeOK, OwnerTypes, NEW p \in Procs, ~renewGaveUp(p)
    PROVE  renewRetryDelay(p) \in Nat /\ now + renewRetryDelay(p) <= validUntil[p]
  <1> DEFINE left == validUntil[p] - now
  <1>1. now \in Nat /\ validUntil[p] \in Nat /\ Interval \in Nat /\ RetryFloor \in Nat /\ Margin \in Nat
        BY LeaseConstants, OwnerConstants DEF LeaseConstants, OwnerConstants, TypeOK, OwnerTypes
  <1>2. left \in Nat /\ left > Margin /\ RetryFloor <= Margin
        BY <1>1, OwnerConstants DEF OwnerConstants, renewGaveUp
  <1>3. left \div 2 \in Nat /\ left \div 2 <= left
        BY <1>2
  <1>4. renewRetryDelay(p) \in Nat /\ renewRetryDelay(p) <= left
        BY <1>1, <1>2, <1>3 DEF renewRetryDelay, Larger, Smaller
  <1> QED BY <1>1, <1>4

LEMMA OwnerTypesKept == ASSUME TypeOK, TypeOK', OwnerTypes, OwnerNext \/ UNCHANGED allVars PROVE OwnerTypes'
  <1> USE DEF OwnerTypes
  <1>0. now \in Nat /\ TTL \in Nat /\ Interval \in Nat
        BY LeaseConstants, OwnerConstants DEF LeaseConstants, OwnerConstants, TypeOK
  <1>1. CASE UNCHANGED ownerVars
        BY <1>1, Zenon DEF ownerVars
  <1>2. ASSUME NEW p \in Procs, Join(p) PROVE OwnerTypes'
        BY <1>2, Zenon DEF Join
  <1>3. ASSUME NEW p \in Procs, JoinReturns(p) PROVE OwnerTypes'
    <2>1. handle[p].renewed \in Nat
          BY Zenon DEF TypeOK, Record
    <2> QED BY <1>0, <1>3, <2>1 DEF JoinReturns
  <1>4. ASSUME NEW p \in Procs, RenewTimer(p) PROVE OwnerTypes'
        BY <1>0, <1>4, Zenon DEF RenewTimer
  <1>5. ASSUME NEW p \in Procs, RenewReturns(p) PROVE OwnerTypes'
    <2>1. CASE Rearm(p, Interval) /\ validUntil' = [validUntil EXCEPT ![p] = attempt[p] + TTL]
          BY <1>0, <1>5, <2>1 DEF RenewReturns, Rearm
    <2>2. CASE markLost(p)
          BY <1>0, <2>2, Zenon DEF markLost, EndLoop
    <2>3. CASE ~renewGaveUp(p) /\ Rearm(p, renewRetryDelay(p)) /\ UNCHANGED validUntil
          BY <1>0, <1>5, <2>3, RetryInTime DEF RenewReturns, Rearm
    <2> QED BY <1>5, <2>1, <2>2, <2>3, Zenon DEF RenewReturns
  <1>6. ASSUME NEW p \in Procs, Release(p) \/ Die(p) PROVE OwnerTypes'
        BY <1>6 DEF Release, Die, EndLoop
  <1> QED BY <1>1, <1>2, <1>3, <1>4, <1>5, <1>6, Zenon DEF OwnerNext, OwnerTick, LeaseStep, allVars

(* Nobody writes over another process's record that has not expired.       *)
LEMMA LiveFileStays ==
    ASSUME TypeOK, Clean, NEW p \in Procs, NEW q \in Procs, p # q, NEW known,
           handle[p].id # NoId, file.id = handle[p].id, now <= file.renewed + TTL,
           Step(q, known) \/ StoreFails(q) \/ LockFails(q)
    PROVE  file' = file
  <1> USE DEF Clean
  <1>1. ~TryCreate(q) \/ file' = file
        BY Zenon DEF TryCreate
  <1>2. ~WriteTakeover(q)
    <2> SUFFICES ASSUME pc[q] = "write" PROVE FALSE
        BY Zenon DEF WriteTakeover
    <2>1. expired(file, cand[q].renewed) /\ cand[q].renewed <= now
          BY Zenon DEF Seen, Dated
    <2> QED BY <2>1, LeaseConstants DEF LeaseConstants, TypeOK, Record, expired
  <1>3. ~RenewWrite(q)
        BY DEF RenewWrite, Seen, Distinct
  <1>4. ~ReleaseRemove(q)
        BY Zenon DEF ReleaseRemove, Seen, Distinct
  <1> QED BY <1>1, <1>2, <1>3, <1>4, Zenon
          DEF Step, Progress, MkdirLock, StatStale, RemoveStaleLock, LockTimeout, StampRecord, ReadHolder,
              ReadBack, RenewRead, RenewCheck, ReleaseRead, Unlock, Leave, StoreFails, LockFails

(* The process is where it was.                                            *)
Stands(p) ==
    /\ pc'[p] = pc[p] /\ op'[p] = op[p] /\ ret'[p] = ret[p]
    /\ cand'[p] = cand[p] /\ handle'[p] = handle[p] /\ proven'[p] = proven[p]

LEMMA OthersStand ==
    ASSUME TypeOK, NEW p \in Procs, NEW q \in Procs, p # q, NEW known,
           \/ Step(q, known) \/ CallFails(q)
           \/ AcquireContext(q) \/ RenewContext(q) \/ ReleaseContext(q)
    PROVE  Stands(p) /\ now' = now
  <1> USE DEF TypeOK, Stands
  <1>1. CASE AcquireContext(q) \/ RenewContext(q) \/ ReleaseContext(q)
        BY <1>1, Zenon DEF AcquireContext, RenewContext, ReleaseContext, Call, Forget
  <1>2. CASE StoreFails(q) \/ LockTimeout(q)
        BY <1>2, Zenon DEF StoreFails, LockTimeout, Finish, Return
  <1>3. CASE MkdirLock(q) \/ StatStale(q) \/ RemoveStaleLock(q)
        BY <1>3, Zenon DEF MkdirLock, StatStale, RemoveStaleLock
  <1>4. CASE StampRecord(q, known) \/ TryCreate(q) \/ ReadHolder(q) \/ WriteTakeover(q) \/ ReadBack(q)
        BY <1>4, Zenon DEF StampRecord, TryCreate, ReadHolder, WriteTakeover, ReadBack, Goto, Finish
  <1>5. CASE RenewRead(q) \/ RenewCheck(q) \/ RenewWrite(q) \/ ReleaseRead(q) \/ ReleaseRemove(q)
        BY <1>5, Zenon DEF RenewRead, RenewCheck, RenewWrite, ReleaseRead, ReleaseRemove, Goto, Finish
  <1>6. CASE Leave(q)
        BY <1>6, Zenon DEF Leave, Return, Forget
  <1>7. CASE LockFails(q)
        BY <1>7, Zenon DEF LockFails, Goto, Return
  <1> QED BY <1>1, <1>2, <1>3, <1>4, <1>5, <1>6, <1>7, Zenon DEF Step, Progress, Unlock, CallFails, UnlockFails

(* What p knows stays true while another process takes a step.             *)
LEMMA OthersFenced ==
    ASSUME TypeOK, Clean, OwnerTypes, NEW p \in Procs, OwnerAt(p), JoinerAt(p),
           now' = now, Stands(p),
           role'[p] = role[p], loop'[p] = loop[p], due'[p] = due[p], attempt'[p] = attempt[p],
           validUntil'[p] = validUntil[p],
           handle[p].id # NoId /\ file.id = handle[p].id /\ now <= file.renewed + TTL => file' = file
    PROVE  OwnerAt(p)' /\ JoinerAt(p)'
  <1>0. now \in Nat /\ TTL \in Nat /\ validUntil[p] \in Nat /\ file.renewed \in Nat /\ handle[p].renewed \in Nat
        BY LeaseConstants DEF LeaseConstants, TypeOK, OwnerTypes, Record
  <1>1. role[p] = "owner" => file' = file
        BY <1>0 DEF OwnerAt
  <1>2. role[p] = "joining" /\ pc[p] = "idle" /\ ret[p] = "ok" => file' = file
        BY <1>0 DEF JoinerAt
  <1>3. OwnerAt(p)'
        BY <1>1, Zenon DEF OwnerAt, Stands
  <1>4. JoinerAt(p)'
        BY <1>2, Zenon DEF JoinerAt, Stands
  <1> QED BY <1>3, <1>4, Zenon

(* The owner's own steps of a renewal.                                     *)
LEMMA OwnerRenews ==
    ASSUME TypeOK, Clean, OwnerTypes, NEW p \in Procs, OwnerAt(p), role[p] = "owner",
           Progress(p, {}) \/ StoreFails(p) \/ LockFails(p), UNCHANGED ownerVars
    PROVE  OwnerAt(p)'
  <1>0. /\ now \in Nat /\ TTL \in Nat /\ validUntil[p] \in Nat /\ proven[p] \in Nat
        /\ file.renewed \in Nat /\ handle[p].renewed \in Nat
        /\ p \in DOMAIN pc /\ p \in DOMAIN op /\ p \in DOMAIN ret /\ p \in DOMAIN handle /\ p \in DOMAIN proven
        BY LeaseConstants DEF LeaseConstants, TypeOK, OwnerTypes, Record
  <1>1. pc[p] # "idle"
        BY Zenon DEF Progress, MkdirLock, StatStale, RemoveStaleLock, StampRecord, TryCreate, ReadHolder,
               WriteTakeover, ReadBack, RenewRead, RenewCheck, RenewWrite, ReleaseRead, ReleaseRemove,
               Unlock, Leave, StoreFails, LockFails, Section
  <1>2. loop[p] = "renewing" /\ op[p] = "renew"
        BY <1>1, Zenon DEF OwnerAt, OwnerTypes
  <1>3. /\ proven[p] <= handle[p].renewed /\ handle[p].renewed <= now
        /\ pc[p] = "unlock" /\ ret[p] = "ok" => file = handle[p]
        BY <1>2, Zenon DEF Clean, Dated, Seen
  <1>4. pc[p] \in {"lock", "renewRead", "renewCheck", "renewWrite", "unlock"}
        BY <1>1, <1>2, Zenon DEF Clean, Seen, Locked, TypeOK, Steps, Section
  <1>5. now <= handle[p].renewed + TTL
        BY <1>0, <1>3 DEF OwnerAt
  <1>6. /\ role'[p] = role[p] /\ loop'[p] = loop[p] /\ attempt'[p] = attempt[p]
        /\ validUntil'[p] = validUntil[p] /\ due'[p] = due[p]
        BY Zenon DEF ownerVars
  <1>7. CASE MkdirLock(p)
        BY <1>0, <1>2, <1>6, <1>7, Zenon DEF MkdirLock, FirstStep, OwnerAt
  <1>8. CASE RenewRead(p)
        BY <1>0, <1>2, <1>6, <1>8, Zenon DEF RenewRead, Goto, Finish, OwnerAt
  <1>9. CASE RenewCheck(p)
    <2>1. ~expired(handle[p], now)
          BY <1>0, <1>5 DEF expired
    <2>2. /\ pc'[p] = "renewWrite" /\ ret'[p] = ret[p] /\ op'[p] = op[p] /\ proven'[p] = proven[p]
          /\ now' = now /\ file' = file /\ handle'[p].id = handle[p].id /\ handle'[p].renewed = now
          BY <1>0, <1>9, <2>1 DEF RenewCheck, Goto, TypeOK, Record
    <2> QED BY <1>2, <1>6, <2>2, Zenon DEF OwnerAt
  <1>10. CASE RenewWrite(p)
    <2>1. /\ pc'[p] = "unlock" /\ ret'[p] = "ok" /\ op'[p] = op[p] /\ proven'[p] = proven[p]
          /\ now' = now /\ file' = handle[p] /\ handle'[p] = handle[p] /\ pc[p] = "renewWrite"
          BY <1>0, <1>10, Zenon DEF RenewWrite, Finish
    <2>2. validUntil[p] <= handle[p].renewed + TTL /\ handle[p].renewed = now
          BY <1>0, <1>2, <1>3, <2>1 DEF OwnerAt
    <2> QED BY <1>2, <1>6, <2>1, <2>2, Zenon DEF OwnerAt
  <1>11. CASE Unlock(p)
    <2>1. /\ pc'[p] = "idle" /\ ret'[p] = ret[p] /\ now' = now /\ file' = file /\ pc[p] = "unlock"
          /\ handle'[p] = handle[p]
          /\ proven'[p] = IF ret[p] = "ok" THEN handle[p].renewed ELSE proven[p]
          BY <1>0, <1>2, <1>11, Zenon DEF Unlock, Leave, Return, OwnerAt
    <2>2. ret[p] = "ok" => handle[p].renewed = now /\ file.renewed = now
          BY <1>2, <1>3, <2>1, Zenon DEF OwnerAt
    <2>3. validUntil[p] <= proven'[p] + TTL
          BY <1>0, <1>3, <2>1, Zenon DEF OwnerAt
    <2> QED BY <1>2, <1>6, <2>1, <2>2, <2>3, Zenon DEF OwnerAt
  <1>12. CASE StoreFails(p)
    <2>1. /\ pc'[p] = "unlock" /\ ret'[p] = "error" /\ op'[p] = op[p] /\ proven'[p] = proven[p]
          /\ now' = now /\ file' = file /\ handle'[p] = handle[p]
          BY <1>0, <1>12, Zenon DEF StoreFails, Finish
    <2> QED BY <1>2, <1>6, <2>1, Zenon DEF OwnerAt
  <1>13. ~StatStale(p)
         BY LeaseConstants DEF LeaseConstants, StatStale, Clean, Locked, TypeOK, lockStale
  <1>14. CASE LockFails(p)
    <2>1. /\ pc'[p] = "idle" /\ ret'[p] = "error" /\ proven'[p] = proven[p]
          /\ now' = now /\ file' = file /\ handle'[p] = handle[p]
          BY <1>0, <1>4, <1>14, Zenon DEF LockFails, Return
    <2> QED BY <1>2, <1>6, <2>1, Zenon DEF OwnerAt
  <1> QED BY <1>4, <1>7, <1>8, <1>9, <1>10, <1>11, <1>12, <1>13, <1>14, Zenon
          DEF Progress, RemoveStaleLock, StampRecord, TryCreate, ReadHolder, WriteTakeover, ReadBack,
              ReleaseRead, ReleaseRemove

(* The steps of the acquire that Join waits for.                           *)
LEMMA JoinerAcquires ==
    ASSUME TypeOK, Clean, OwnerTypes, NEW p \in Procs, JoinerAt(p), role[p] = "joining",
           Progress(p, {}) \/ StoreFails(p) \/ LockFails(p), UNCHANGED ownerVars
    PROVE  JoinerAt(p)'
  <1>0. /\ p \in DOMAIN pc /\ p \in DOMAIN op /\ p \in DOMAIN ret /\ p \in DOMAIN cand
        /\ p \in DOMAIN handle /\ p \in DOMAIN proven
        BY Zenon DEF TypeOK
  <1>1. pc[p] # "idle"
        BY Zenon DEF Progress, MkdirLock, StatStale, RemoveStaleLock, StampRecord, TryCreate, ReadHolder,
               WriteTakeover, ReadBack, RenewRead, RenewCheck, RenewWrite, ReleaseRead, ReleaseRemove,
               Unlock, Leave, StoreFails, LockFails, Section
  <1>2. op[p] = "acquire"
        BY <1>1, Zenon DEF JoinerAt
  <1>3. pc[p] = "unlock" /\ ret[p] = "ok" => file = cand[p] /\ cand[p].id # NoId
        BY <1>2, Zenon DEF Clean, Seen
  <1>4. pc[p] \in {"lock", "stamp", "create", "read", "write", "readback", "unlock"}
        BY <1>1, <1>2, Zenon DEF Clean, Seen, Locked, TypeOK, Steps, Section
  <1>6. role'[p] = role[p]
        BY Zenon DEF ownerVars
  <1>7. CASE MkdirLock(p)
        BY <1>0, <1>2, <1>6, <1>7, Zenon DEF MkdirLock, FirstStep, JoinerAt
  <1>8. CASE StampRecord(p, {})
    <2>1. /\ pc'[p] = "create" /\ op'[p] = op[p] /\ now' = now /\ cand'[p].renewed = now
          BY <1>0, <1>8 DEF StampRecord, Goto
    <2> QED BY <1>2, <2>1, Zenon DEF JoinerAt
  <1>9. CASE TryCreate(p) \/ WriteTakeover(p) \/ ReadHolder(p) \/ ReadBack(p)
    <2>1. /\ pc'[p] \in {"read", "write", "readback", "unlock"} /\ op'[p] = op[p] /\ now' = now
          /\ cand'[p] = cand[p] /\ pc[p] \in {"create", "read", "write", "readback"}
          BY <1>0, <1>9, Zenon DEF TryCreate, WriteTakeover, ReadHolder, ReadBack, Goto, Finish
    <2> QED BY <1>2, <1>6, <2>1, Zenon DEF JoinerAt
  <1>11. CASE Unlock(p)
    <2>1. /\ pc'[p] = "idle" /\ ret'[p] = ret[p] /\ now' = now /\ file' = file /\ pc[p] = "unlock"
          /\ ret[p] = "ok" => handle'[p] = cand[p] /\ proven'[p] = cand[p].renewed
          BY <1>0, <1>2, <1>11, Zenon DEF Unlock, Leave, Return
    <2> QED BY <1>3, <1>6, <2>1, Zenon DEF JoinerAt
  <1>12. CASE StoreFails(p)
    <2>1. pc'[p] = "unlock" /\ ret'[p] = "error" /\ op'[p] = op[p]
          BY <1>0, <1>12, Zenon DEF StoreFails, Finish
    <2> QED BY <1>2, <2>1, Zenon DEF JoinerAt
  <1>13. ~StatStale(p)
         BY LeaseConstants DEF LeaseConstants, StatStale, Clean, Locked, TypeOK, lockStale
  <1>14. CASE LockFails(p)
    <2>1. pc'[p] = "idle" /\ ret'[p] = "error"
          BY <1>0, <1>4, <1>14, Zenon DEF LockFails, Return
    <2> QED BY <2>1, Zenon DEF JoinerAt
  <1> QED BY <1>4, <1>7, <1>8, <1>9, <1>11, <1>12, <1>13, <1>14, Zenon
          DEF Progress, RemoveStaleLock, RenewRead, RenewCheck, RenewWrite, ReleaseRead, ReleaseRemove

(* Join, its return, the timer, Renew's return and Release.                *)
LEMMA OwnerActs ==
    ASSUME TypeOK, Clean, OwnerTypes, NEW p \in Procs, OwnerAt(p), JoinerAt(p),
           Join(p) \/ JoinReturns(p) \/ RenewTimer(p) \/ RenewReturns(p) \/ Release(p)
    PROVE  OwnerAt(p)' /\ JoinerAt(p)'
  <1>0. /\ now \in Nat /\ TTL \in Nat /\ Interval \in Nat /\ Interval <= TTL
        /\ validUntil[p] \in Nat /\ proven[p] \in Nat /\ file.renewed \in Nat
        BY LeaseConstants, OwnerConstants DEF LeaseConstants, OwnerConstants, TypeOK, OwnerTypes, Record
  <1>d. /\ p \in DOMAIN pc /\ p \in DOMAIN op /\ p \in DOMAIN ret /\ p \in DOMAIN handle /\ p \in DOMAIN proven
        /\ p \in DOMAIN role /\ p \in DOMAIN loop /\ p \in DOMAIN due /\ p \in DOMAIN attempt
        /\ p \in DOMAIN validUntil
        BY Zenon DEF TypeOK, OwnerTypes
  <1>1. CASE Join(p)
    <2>1. role'[p] = "joining" /\ pc'[p] = "lock" /\ op'[p] = "acquire"
          BY <1>d, <1>1, Zenon DEF Join, AcquireContext, Call
    <2> QED BY <2>1, Zenon DEF OwnerAt, JoinerAt
  <1>2. CASE JoinReturns(p)
    <2>1. CASE ret[p] = "ok"
      <3>1. handle[p].id # NoId /\ file = handle[p] /\ handle[p].renewed = now /\ proven[p] = now
            BY <1>2, <2>1, Zenon DEF JoinReturns, JoinerAt
      <3>2. /\ role'[p] = "owner" /\ loop'[p] = "timer" /\ due'[p] = now + Interval
            /\ validUntil'[p] = now + TTL
            /\ pc'[p] = "idle" /\ UNCHANGED <<now, file, handle, proven>>
            BY <1>d, <1>2, <2>1, <3>1, Zenon DEF JoinReturns, leaseVars
      <3>3. now <= now
            BY <1>0, NotEarlier, Zenon
      <3>4. now <= now + Interval /\ now + Interval <= now + TTL /\ now + TTL <= now + TTL /\ now <= now + TTL
            BY <1>0, <3>3, Rearmed, Zenon
      <3> QED BY <3>1, <3>2, <3>3, <3>4, Zenon DEF OwnerAt, JoinerAt
    <2>2. CASE ret[p] # "ok"
      <3>1. role'[p] \in {"follower", "out"}
            BY <1>d, <1>2, <2>2, Zenon DEF JoinReturns
      <3> QED BY <3>1, Zenon DEF OwnerAt, JoinerAt
    <2> QED BY <2>1, <2>2, Zenon
  <1>3. CASE RenewTimer(p)
    <2>1. role[p] = "owner" /\ loop[p] = "timer"
          BY <1>3, Zenon DEF RenewTimer, OwnerTypes
    <2>2. /\ role'[p] = "owner" /\ loop'[p] = "renewing" /\ attempt'[p] = now
          /\ pc'[p] = "lock" /\ op'[p] = "renew" /\ ret'[p] = "none"
          /\ UNCHANGED <<now, file, handle, proven, validUntil>>
          BY <1>d, <1>3, <2>1, Zenon DEF RenewTimer, RenewContext, Call
    <2> QED BY <1>0, <2>1, <2>2, Zenon DEF OwnerAt, JoinerAt
  <1>4. CASE RenewReturns(p)
    <2>1. role[p] = "owner" /\ loop[p] = "renewing" /\ pc[p] = "idle" /\ ret[p] # "lost"
          BY <1>4, Zenon DEF RenewReturns, OwnerTypes, OwnerAt
    <2>2. UNCHANGED <<now, file, pc, handle, proven>>
          BY <1>4, Zenon DEF RenewReturns, leaseVars
    <2>3. CASE ret[p] = "ok"
      <3>1. attempt[p] = now /\ file.renewed = now /\ proven[p] = now
            BY <2>1, <2>3, Zenon DEF OwnerAt
      <3>2. /\ role'[p] = "owner" /\ loop'[p] = "timer" /\ due'[p] = now + Interval
            /\ validUntil'[p] = now + TTL
            BY <1>d, <1>4, <2>1, <2>3, <3>1, Zenon DEF RenewReturns, Rearm
      <3>3. now <= now
            BY <1>0, NotEarlier, Zenon
      <3>4. now <= now + Interval /\ now + Interval <= now + TTL /\ now + TTL <= now + TTL /\ now <= now + TTL
            BY <1>0, <3>3, Rearmed, Zenon
      <3> QED BY <2>1, <2>2, <3>1, <3>2, <3>3, <3>4, Zenon DEF OwnerAt, JoinerAt
    <2>4. CASE ret[p] # "ok" /\ renewGaveUp(p)
      <3>1. role'[p] = "lost"
            BY <1>d, <1>4, <2>1, <2>4, Zenon DEF RenewReturns, markLost
      <3> QED BY <3>1, Zenon DEF OwnerAt, JoinerAt
    <2>5. CASE ret[p] # "ok" /\ ~renewGaveUp(p)
      <3>1. /\ role'[p] = "owner" /\ loop'[p] = "timer" /\ due'[p] = now + renewRetryDelay(p)
            /\ validUntil'[p] = validUntil[p]
            BY <1>d, <1>4, <2>1, <2>5, Zenon DEF RenewReturns, Rearm
      <3>2. now <= due'[p] /\ due'[p] <= validUntil[p]
            BY <1>0, <2>5, <3>1, RetryInTime
      <3> QED BY <2>1, <2>2, <3>1, <3>2, Zenon DEF OwnerAt, JoinerAt
    <2> QED BY <2>3, <2>4, <2>5, Zenon
  <1>5. CASE Release(p)
    <2>1. role'[p] = "out"
          BY <1>d, <1>5, Zenon DEF Release
    <2> QED BY <2>1, Zenon DEF OwnerAt, JoinerAt
  <1> QED BY <1>1, <1>2, <1>3, <1>4, <1>5, Zenon

(* While the lock directory is a live process's, time passes only when all *)
(* calls have returned.                                                    *)
LEMMA TickFenced == ASSUME TypeOK, Clean, OwnerTypes, Fenced, OwnerTick PROVE Fenced'
  <1>0. now \in Nat /\ now' = now + 1 /\ UNCHANGED <<file, pc, handle, proven>> /\ UNCHANGED ownerVars
        BY DEF OwnerTick, Tick, TypeOK
  <1>1. ASSUME NEW p \in Procs PROVE pc[p] = "idle"
    <2> SUFFICES ASSUME pc[p] # "idle" PROVE FALSE
        OBVIOUS
    <2>1. pc[p] = "lock" /\ lock.by # NoProc
          BY Zenon DEF OwnerTick, Waiting
    <2>2. lock.by \in Procs /\ pc[lock.by] \in Section
          BY <2>1, Zenon DEF Clean, Locked, InSection, TypeOK
    <2> QED BY <2>2, Zenon DEF OwnerTick, Waiting, Section
  <1> SUFFICES ASSUME NEW p \in Procs PROVE OwnerAt(p)' /\ JoinerAt(p)'
      BY Zenon DEF Fenced
  <1>2. role[p] # "joining" /\ (role[p] = "owner" => loop[p] = "timer" /\ now < due[p])
        BY <1>1, Zenon DEF OwnerTick, Waiting, OwnerTypes
  <1>3. due[p] \in Nat /\ validUntil[p] \in Nat
        BY Zenon DEF OwnerTypes
  <1>4. role[p] = "owner" => now + 1 <= due[p] /\ now + 1 <= validUntil[p]
        BY <1>0, <1>2, <1>3 DEF Fenced, OwnerAt
  <1>5. OwnerAt(p)'
        BY <1>0, <1>1, <1>2, <1>4, Zenon DEF Fenced, OwnerAt, ownerVars
  <1> QED BY <1>0, <1>2, <1>5, Zenon DEF JoinerAt, ownerVars

LEMMA StepFenced ==
    ASSUME TypeOK, Clean, OwnerTypes, Fenced, Only({"io"})', OwnerNext \/ UNCHANGED allVars
    PROVE  Fenced'
  <1>1. CASE UNCHANGED allVars
        BY <1>1 DEF allVars, leaseVars, ownerVars, Fenced, OwnerAt, JoinerAt
  <1>2. CASE OwnerTick
        BY <1>2, TickFenced, Zenon
  <1>3. ASSUME NEW q \in Procs,
               Join(q) \/ JoinReturns(q) \/ RenewTimer(q) \/ RenewReturns(q) \/ Release(q)
        PROVE  Fenced'
    <2> SUFFICES ASSUME NEW p \in Procs PROVE OwnerAt(p)' /\ JoinerAt(p)'
        BY Zenon DEF Fenced
    <2>1. OwnerAt(p) /\ JoinerAt(p)
          BY Zenon DEF Fenced
    <2>2. CASE p = q
          BY <1>3, <2>1, <2>2, OwnerActs, Zenon
    <2>3. CASE p # q
      <3>1. /\ role'[p] = role[p] /\ loop'[p] = loop[p] /\ due'[p] = due[p]
            /\ attempt'[p] = attempt[p] /\ validUntil'[p] = validUntil[p]
            BY <1>3, <2>3, ZenonT(30) DEF Join, JoinReturns, RenewTimer, RenewReturns, Release, Rearm, markLost,
                              EndLoop, OwnerTypes
      <3>2. file' = file /\ now' = now /\ Stands(p)
        <4>1. CASE Join(q) \/ RenewTimer(q) \/ Release(q)
          <5>1. AcquireContext(q) \/ RenewContext(q) \/ ReleaseContext(q)
                BY <4>1, Zenon DEF Join, RenewTimer, Release
          <5>2. file' = file
                BY <5>1, Zenon DEF AcquireContext, RenewContext, ReleaseContext, Call
          <5> QED BY <2>3, <5>1, <5>2, OthersStand, Zenon
        <4>2. CASE JoinReturns(q) \/ RenewReturns(q)
              BY <4>2, Zenon DEF JoinReturns, RenewReturns, leaseVars, Stands
        <4> QED BY <1>3, <4>1, <4>2, Zenon
      <3> QED BY <2>1, <3>1, <3>2, OthersFenced, Zenon
    <2> QED BY <2>2, <2>3, Zenon
  <1>4. ASSUME NEW q \in Procs, LeaseStep(q) PROVE Fenced'
    <2>1. (Progress(q, {}) \/ StoreFails(q) \/ LockFails(q)) /\ UNCHANGED ownerVars
          BY <1>4 DEF LeaseStep, CallFails, UnlockFails, ReadFails, Happens, Only
    <2>2. Step(q, {}) \/ StoreFails(q) \/ LockFails(q)
          BY <2>1, Zenon DEF Step
    <2> SUFFICES ASSUME NEW p \in Procs PROVE OwnerAt(p)' /\ JoinerAt(p)'
        BY Zenon DEF Fenced
    <2>3. OwnerAt(p) /\ JoinerAt(p)
          BY Zenon DEF Fenced
    <2>4. role'[p] = role[p]
          BY <2>1, Zenon DEF ownerVars
    <2>5. CASE p = q /\ role[p] = "owner"
      <3>1. OwnerAt(p)'
            BY <2>1, <2>3, <2>5, OwnerRenews, Zenon
      <3> QED BY <2>4, <2>5, <3>1, Zenon DEF JoinerAt
    <2>6. CASE p = q /\ role[p] = "joining"
      <3>1. JoinerAt(p)'
            BY <2>1, <2>3, <2>6, JoinerAcquires, Zenon
      <3> QED BY <2>4, <2>6, <3>1, Zenon DEF OwnerAt
    <2>7. CASE role[p] \notin {"owner", "joining"}
          BY <2>4, <2>7, Zenon DEF OwnerAt, JoinerAt
    <2>8. CASE p # q
      <3>1. now' = now /\ Stands(p)
            BY <2>2, <2>8, OthersStand, Zenon DEF CallFails
      <3>2. handle[p].id # NoId /\ file.id = handle[p].id /\ now <= file.renewed + TTL => file' = file
            BY <2>2, <2>8, LiveFileStays, Zenon
      <3> QED BY <2>1, <2>3, <3>1, <3>2, OthersFenced, Zenon DEF ownerVars
    <2> QED BY <2>5, <2>6, <2>7, <2>8, Zenon
  <1>5. ASSUME NEW q \in Procs, Die(q) PROVE FALSE
        BY <1>5, Zenon DEF Die, Crash, Happens, Only
  <1> QED BY <1>1, <1>2, <1>3, <1>4, <1>5, Zenon DEF OwnerNext

LEMMA OwnerInductive == OwnerIInv /\ [OwnerNext]_allVars => OwnerIInv'
  <1> SUFFICES ASSUME OwnerIInv, [OwnerNext]_allVars PROVE OwnerIInv'
      OBVIOUS
  <1>1. IInv /\ OwnerTypes /\ (Only({"io"}) => Fenced)
        BY Zenon DEF OwnerIInv
  <1>2. [Next]_leaseVars
        BY OwnerIsLease, Zenon
  <1>3. IInv'
        BY <1>1, <1>2, NextIInv, Zenon
  <1>4. TypeOK /\ TypeOK'
        BY <1>1, <1>3, Zenon DEF IInv
  <1>5. OwnerTypes'
        BY <1>1, <1>4, OwnerTypesKept, Zenon
  <1>6. ASSUME Only({"io"})' PROVE Fenced'
    <2>1. Only({"io"})
          BY <1>2, <1>6, SeenGrows, Zenon
    <2> QED BY <1>1, <1>4, <1>6, <2>1, StepFenced, Zenon DEF IInv
  <1> QED BY <1>3, <1>5, <1>6, Zenon DEF OwnerIInv

LEMMA OwnerStarts == OwnerInit => OwnerIInv
  <1> SUFFICES ASSUME OwnerInit PROVE OwnerIInv
      OBVIOUS
  <1>1. OwnerTypes
        BY Zenon DEF OwnerInit, OwnerTypes
  <1>2. Fenced
        BY Zenon DEF OwnerInit, Fenced, OwnerAt, JoinerAt
  <1> QED BY <1>1, <1>2, InitIInv, Zenon DEF OwnerInit, OwnerIInv

(* Any number of daemons, any proportions of TTL, interval and margin: an  *)
(* owner that still touches the model state finds its own live record in   *)
(* the lease file, and its estimate of when to give up is not beyond that  *)
(* record's expiry, until a process dies, an unlock fails or a challenger  *)
(* cannot read.                                                            *)
THEOREM OwnerFenced == OwnerSpec => []SelfFenced
  <1>1. OwnerIInv => SelfFenced
    <2> SUFFICES ASSUME OwnerIInv, Only({"io"}), NEW p \in Procs, Serving(p)
                 PROVE  file.id = handle[p].id /\ ~expired(file, now) /\ validUntil[p] <= file.renewed + TTL
        BY Zenon DEF SelfFenced
    <2>1. OwnerAt(p) /\ role[p] = "owner"
          BY Zenon DEF OwnerIInv, Fenced, Serving
    <2>2. now \in Nat /\ TTL \in Nat /\ validUntil[p] \in Nat /\ file.renewed \in Nat
          BY LeaseConstants DEF LeaseConstants, OwnerIInv, IInv, TypeOK, OwnerTypes, Record
    <2> QED BY <2>1, <2>2 DEF OwnerAt, expired
  <1> QED BY <1>1, OwnerInductive, OwnerStarts, PTL DEF OwnerSpec

(* With I/O errors only, however many, the owner does not serve past the   *)
(* TTL of its last successful write: the half of FencedInTime in which no  *)
(* process dies, no unlock fails and every challenger can read.            *)
THEOREM OwnerGivesUpInTime ==
    OwnerSpec => [](Only({"io"}) => \A p \in Procs : Serving(p) => now <= proven[p] + TTL)
  <1>1. OwnerIInv => (Only({"io"}) => \A p \in Procs : Serving(p) => now <= proven[p] + TTL)
    <2> SUFFICES ASSUME OwnerIInv, Only({"io"}), NEW p \in Procs, Serving(p) PROVE now <= proven[p] + TTL
        OBVIOUS
    <2>1. OwnerAt(p) /\ role[p] = "owner"
          BY Zenon DEF OwnerIInv, Fenced, Serving
    <2>2. now \in Nat /\ TTL \in Nat /\ validUntil[p] \in Nat /\ proven[p] \in Nat
          BY LeaseConstants DEF LeaseConstants, OwnerIInv, IInv, TypeOK, OwnerTypes
    <2> QED BY <2>1, <2>2 DEF OwnerAt
  <1> QED BY <1>1, OwnerInductive, OwnerStarts, PTL DEF OwnerSpec

(* Under the same conditions two processes never own the model state.      *)
THEOREM OneOwner ==
    OwnerSpec => [](Only({"io"}) => \A p, q \in Procs : Serving(p) /\ Serving(q) => p = q)
  <1>1. OwnerIInv => (Only({"io"}) => \A p, q \in Procs : Serving(p) /\ Serving(q) => p = q)
    <2> SUFFICES ASSUME OwnerIInv, Only({"io"}), NEW p \in Procs, NEW q \in Procs, Serving(p), Serving(q)
                 PROVE  p = q
        OBVIOUS
    <2>1. file.id = handle[p].id /\ file.id = handle[q].id /\ handle[p].id # NoId
          BY Zenon DEF OwnerIInv, Fenced, OwnerAt, Serving
    <2> QED BY <2>1, ZenonT(30) DEF OwnerIInv, IInv, Clean, Distinct
  <1> QED BY <1>1, OwnerInductive, OwnerStarts, PTL DEF OwnerSpec

-----------------------------------------------------------------------------
(* The owner after one fault of any kind.  While the lock directory is a   *)
(* live process's (Attended), time passes only between calls, and a call   *)
(* that a timer starts in time returns in time.  After a death in the      *)
(* section or an unlock that fails (Abandoned) nobody is in it, and a      *)
(* renewal waits for the directory to grow stale.  It has the time: no     *)
(* renewal failed before, so that its timer fired an interval after the    *)
(* last write.                                                             *)

(* The step a process is at belongs to the call it is in.                  *)
Fits(p) ==
    /\ pc[p] \in {"lock", "removeStale"} => op[p] # "none"
    /\ pc[p] \in {"stamp", "create", "read", "write", "readback"} => op[p] = "acquire"
    /\ pc[p] \in {"renewRead", "renewCheck", "renewWrite"} => op[p] = "renew"
    /\ pc[p] \in {"releaseRead", "releaseRemove"} => op[p] = "release"

(* What holds whatever happens.                                            *)
Ordered ==
    /\ lock.at <= now
    /\ faults.n = 0 => faults.seen = {}
    /\ \A p \in Procs : Fits(p)

(* An owner whose Renew has lost the lease is about to be told.            *)
Timely(p) ==
    role[p] = "owner" =>
        /\ handle[p].id = NoId => loop[p] = "renewing" /\ pc[p] = "idle" /\ ret[p] = "lost"
        /\ handle[p].id # NoId =>
             validUntil[p] <= proven[p] + TTL /\ proven[p] <= now /\ now <= proven[p] + TTL
        /\ loop[p] = "timer" => pc[p] = "idle" /\ now <= due[p] /\ due[p] <= proven[p] + TTL
        /\ loop[p] = "renewing" =>
             /\ attempt[p] <= now
             /\ pc[p] # "idle" => op[p] = "renew"
             /\ pc[p] = "renewWrite" => handle[p].renewed = now
             /\ pc[p] = "unlock" /\ ret[p] = "ok" => handle[p].renewed = now
             /\ pc[p] = "idle" /\ ret[p] = "ok" => proven[p] = now

Stamped(p) ==
    role[p] = "joining" =>
        /\ pc[p] # "idle" => op[p] = "acquire"
        /\ pc[p] \in {"create", "read", "write", "readback"} => cand[p].id # NoId /\ cand[p].renewed = now
        /\ pc[p] = "unlock" /\ ret[p] = "ok" => cand[p].id # NoId /\ cand[p].renewed = now
        /\ pc[p] = "idle" /\ ret[p] = "ok" =>
             handle[p].id # NoId /\ handle[p].renewed = now /\ proven[p] = now

(* No renewal has failed since the last write.                             *)
Prompt(p) ==
    role[p] = "owner" =>
        /\ loop[p] = "timer" => due[p] <= proven[p] + Interval
        /\ loop[p] = "renewing" =>
             /\ attempt[p] <= proven[p] + Interval
             /\ pc[p] \in {"unlock", "idle"} => ret[p] = "ok"

Attended == lock.by # NoProc => InSection(lock.by)

Abandoned ==
    \A p \in Procs :
        /\ ~InSection(p)
        /\ Prompt(p)
        /\ loop[p] = "renewing" => lock.at <= attempt[p] /\ now <= attempt[p] + StaleAfter + 1

OneFault ==
    /\ \A p \in Procs : Timely(p) /\ Stamped(p)
    /\ Attended \/ Abandoned
    /\ faults.n = 0 => \A p \in Procs : Prompt(p)

LEMMA OthersStandBy ==
    ASSUME TypeOK, NEW p \in Procs, NEW q \in Procs, p # q, ReadFails(q) \/ Crash(q)
    PROVE  Stands(p) /\ now' = now
  BY Zenon DEF TypeOK, Stands, ReadFails, Crash, Goto, Return, Forget

LEMMA FitsStep ==
    ASSUME TypeOK, NEW p \in Procs, Fits(p), NEW known,
           \/ Step(p, known) \/ CallFails(p) \/ ReadFails(p) \/ Crash(p)
           \/ AcquireContext(p) \/ RenewContext(p) \/ ReleaseContext(p)
    PROVE  Fits(p)'
  <1>0. p \in DOMAIN pc /\ p \in DOMAIN op /\ op[p] \in Ops
        BY Zenon DEF TypeOK
  <1>1. CASE AcquireContext(p) \/ RenewContext(p) \/ ReleaseContext(p)
    <2>1. pc'[p] = "lock" /\ op'[p] # "none"
          BY <1>0, <1>1, Zenon DEF AcquireContext, RenewContext, ReleaseContext, Call
    <2> QED BY <2>1, Zenon DEF Fits
  <1>2. CASE MkdirLock(p)
    <2>1. pc'[p] = FirstStep(op[p]) /\ op'[p] = op[p] /\ op[p] # "none"
          BY <1>0, <1>2, Zenon DEF MkdirLock, Fits
    <2> QED BY <1>0, <2>1, Zenon DEF FirstStep, Fits, Ops
  <1>3. CASE StatStale(p) \/ RemoveStaleLock(p)
    <2>1. pc'[p] \in {"lock", "removeStale"} /\ op'[p] = op[p] /\ op[p] # "none"
          BY <1>0, <1>3, Zenon DEF StatStale, RemoveStaleLock, Fits
    <2> QED BY <2>1, Zenon DEF Fits
  <1>4. CASE LockTimeout(p) \/ Leave(p) \/ Crash(p)
    <2>1. pc'[p] = "idle"
          BY <1>0, <1>4, Zenon DEF LockTimeout, Leave, Crash, Return
    <2> QED BY <2>1, Zenon DEF Fits
  <1>5. CASE StampRecord(p, known) \/ TryCreate(p) \/ ReadHolder(p) \/ WriteTakeover(p) \/ ReadBack(p) \/ ReadFails(p)
    <2>1. /\ pc'[p] \in {"create", "read", "write", "readback", "unlock"} /\ op'[p] = op[p]
          /\ pc[p] \in {"stamp", "create", "read", "write", "readback"}
          BY <1>0, <1>5, Zenon DEF StampRecord, TryCreate, ReadHolder, WriteTakeover, ReadBack, ReadFails, Goto, Finish
    <2> QED BY <2>1, Zenon DEF Fits
  <1>6. CASE RenewRead(p) \/ RenewCheck(p) \/ RenewWrite(p)
    <2>1. /\ pc'[p] \in {"renewCheck", "renewWrite", "unlock"} /\ op'[p] = op[p]
          /\ pc[p] \in {"renewRead", "renewCheck", "renewWrite"}
          BY <1>0, <1>6, Zenon DEF RenewRead, RenewCheck, RenewWrite, Goto, Finish
    <2> QED BY <2>1, Zenon DEF Fits
  <1>7. CASE ReleaseRead(p) \/ ReleaseRemove(p)
    <2>1. /\ pc'[p] \in {"releaseRemove", "unlock"} /\ op'[p] = op[p] /\ pc[p] \in {"releaseRead", "releaseRemove"}
          BY <1>0, <1>7, Zenon DEF ReleaseRead, ReleaseRemove, Goto, Finish
    <2> QED BY <2>1, Zenon DEF Fits
  <1>8. CASE StoreFails(p)
    <2>1. pc'[p] = "unlock"
          BY <1>0, <1>8, Zenon DEF StoreFails, Finish
    <2> QED BY <2>1, Zenon DEF Fits
  <1>9. CASE LockFails(p)
    <2>1. pc'[p] = "idle" \/ (pc'[p] = "lock" /\ op'[p] = op[p] /\ op[p] # "none")
          BY <1>0, <1>9, Zenon DEF LockFails, Return, Goto, Fits
    <2> QED BY <2>1, Zenon DEF Fits
  <1> QED BY <1>1, <1>2, <1>3, <1>4, <1>5, <1>6, <1>7, <1>8, <1>9, Zenon
          DEF Step, Progress, Unlock, CallFails, UnlockFails

LEMMA OrderedKept == ASSUME TypeOK, Ordered, [Next]_leaseVars PROVE Ordered'
  <1>0. now \in Nat /\ lock.at \in Nat /\ faults.n \in Nat /\ lock.at <= now
        BY LeaseConstants DEF LeaseConstants, TypeOK, Ordered
  <1>1. ASSUME NEW q \in Procs, AcquireContext(q) \/ RenewContext(q) \/ ReleaseContext(q) \/ Step(q, {}) \/ Fault(q)
        PROVE  Ordered'
    <2>1. ASSUME NEW p \in Procs PROVE Fits(p)'
      <3>0. Fits(p)
            BY Zenon DEF Ordered
      <3>1. CASE HeldUp(q)
            BY <3>0, <3>1, Zenon DEF HeldUp, Fits
      <3>2. CASE ~HeldUp(q) /\ p = q
            BY <1>1, <3>0, <3>2, FitsStep, Zenon DEF Fault
      <3>3. CASE ~HeldUp(q) /\ p # q
        <4>1. Stands(p)
              BY <1>1, <3>3, OthersStand, OthersStandBy, Zenon DEF Fault
        <4> QED BY <3>0, <4>1, Zenon DEF Fits, Stands
      <3> QED BY <3>1, <3>2, <3>3, Zenon
    <2>2. now' \in {now, now + 1}
          BY <1>1, Zenon DEF AcquireContext, RenewContext, ReleaseContext, Call, Fault, Crash, CallFails, StoreFails,
             LockFails, UnlockFails, ReadFails, HeldUp,
             Step, Progress, MkdirLock, StatStale, RemoveStaleLock, LockTimeout, StampRecord, TryCreate, ReadHolder,
             WriteTakeover, ReadBack, RenewRead, RenewCheck, RenewWrite, ReleaseRead, ReleaseRemove, Unlock, Leave
    <2>3. lock'.at \in {lock.at, now, 0}
          BY <1>1 DEF AcquireContext, RenewContext, ReleaseContext, Call, Fault, Crash, CallFails, StoreFails,
             LockFails, UnlockFails, ReadFails, HeldUp,
             Step, Progress, MkdirLock, StatStale, RemoveStaleLock, LockTimeout, StampRecord, TryCreate, ReadHolder,
             WriteTakeover, ReadBack, RenewRead, RenewCheck, RenewWrite, ReleaseRead, ReleaseRemove, Unlock, NoLock
    <2>4. UNCHANGED faults \/ faults'.n = faults.n + 1
          BY <1>1 DEF AcquireContext, RenewContext, ReleaseContext, Call, Fault, Crash, CallFails, StoreFails,
             LockFails, UnlockFails, ReadFails, HeldUp,
             Step, Progress, MkdirLock, StatStale, RemoveStaleLock, LockTimeout, StampRecord, TryCreate, ReadHolder,
             WriteTakeover, ReadBack, RenewRead, RenewCheck, RenewWrite, ReleaseRead, ReleaseRemove, Unlock, Happens
    <2>5. lock'.at <= now'
          BY <1>0, <2>2, <2>3
    <2>6. faults'.n = 0 => faults'.seen = {}
          BY <1>0, <2>4 DEF Ordered
    <2> QED BY <2>1, <2>5, <2>6, Zenon DEF Ordered
  <1>2. CASE Tick
    <2>1. lock'.at <= now'
          BY <1>0, <1>2 DEF Tick
    <2> QED BY <1>2, <2>1, Zenon DEF Tick, Ordered, Fits
  <1>3. CASE UNCHANGED leaseVars
        BY <1>3, Zenon DEF leaseVars, Ordered, Fits
  <1> QED BY <1>1, <1>2, <1>3, Zenon DEF Next

(* A handle that is forgotten has no ID.                                   *)
LEMMA NoRecHasNoId == NoRec.id = NoId
  BY Zenon DEF NoRec

(* The steps of a call, in the process that makes it.                      *)
LEMMA CallTimely ==
    ASSUME TypeOK, OwnerTypes, Ordered, NEW p \in Procs, Timely(p), role[p] = "owner", LeaseStep(p)
    PROVE  Timely(p)'
  <1>0. /\ now \in Nat /\ TTL \in Nat /\ validUntil[p] \in Nat /\ proven[p] \in Nat /\ handle[p].renewed \in Nat
        /\ p \in DOMAIN pc /\ p \in DOMAIN op /\ p \in DOMAIN ret /\ p \in DOMAIN handle /\ p \in DOMAIN proven
        BY LeaseConstants DEF LeaseConstants, TypeOK, OwnerTypes, Record
  <1>1. pc[p] # "idle"
        BY Zenon DEF LeaseStep, Progress, MkdirLock, StatStale, RemoveStaleLock, StampRecord, TryCreate, ReadHolder,
               WriteTakeover, ReadBack, RenewRead, RenewCheck, RenewWrite, ReleaseRead, ReleaseRemove,
               Unlock, UnlockFails, Leave, CallFails, StoreFails, LockFails, ReadFails, Section
  <1>2. loop[p] = "renewing" /\ op[p] = "renew" /\ handle[p].id # NoId
        BY <1>1, Zenon DEF Timely, OwnerTypes
  <1>3. pc[p] \in {"lock", "removeStale", "renewRead", "renewCheck", "renewWrite", "unlock"}
        BY <1>1, <1>2, Zenon DEF Ordered, Fits, TypeOK, Steps, Section
  <1>4. /\ role'[p] = role[p] /\ loop'[p] = loop[p] /\ attempt'[p] = attempt[p]
        /\ validUntil'[p] = validUntil[p] /\ due'[p] = due[p]
        BY Zenon DEF LeaseStep, ownerVars
  <1>5. validUntil[p] <= proven[p] + TTL /\ proven[p] <= now /\ now <= proven[p] + TTL /\ attempt[p] <= now
        BY <1>2, Zenon DEF Timely
  <1>6. CASE MkdirLock(p) \/ StatStale(p) \/ RemoveStaleLock(p)
    <2>1. /\ pc'[p] \in {"renewRead", "removeStale", "lock"} /\ op'[p] = op[p] /\ now' = now
          /\ handle'[p] = handle[p] /\ proven'[p] = proven[p]
          BY <1>0, <1>2, <1>6, Zenon DEF MkdirLock, StatStale, RemoveStaleLock, FirstStep
    <2> QED BY <1>2, <1>4, <1>5, <2>1, Zenon DEF Timely
  <1>7. CASE RenewRead(p) \/ StoreFails(p)
    <2>1. /\ pc'[p] \in {"renewCheck", "unlock"} /\ op'[p] = op[p] /\ now' = now
          /\ handle'[p] = handle[p] /\ proven'[p] = proven[p] /\ (pc'[p] = "unlock" => ret'[p] # "ok")
          BY <1>0, <1>7, Zenon DEF RenewRead, StoreFails, Goto, Finish
    <2> QED BY <1>2, <1>4, <1>5, <2>1, Zenon DEF Timely
  <1>8. CASE RenewCheck(p)
    <2>1. /\ op'[p] = op[p] /\ proven'[p] = proven[p] /\ now' = now /\ handle'[p].id = handle[p].id
          /\ \/ pc'[p] = "unlock" /\ ret'[p] = "lost"
             \/ pc'[p] = "renewWrite" /\ handle'[p].renewed = now
          BY <1>0, <1>8 DEF RenewCheck, Goto, Finish, TypeOK, Record
    <2> QED BY <1>2, <1>4, <1>5, <2>1, Zenon DEF Timely
  <1>9. CASE RenewWrite(p)
    <2>1. /\ pc'[p] = "unlock" /\ op'[p] = op[p] /\ proven'[p] = proven[p] /\ now' = now
          /\ handle'[p] = handle[p] /\ handle[p].renewed = now
          BY <1>0, <1>2, <1>9, Zenon DEF RenewWrite, Finish, Timely
    <2> QED BY <1>2, <1>4, <1>5, <2>1, Zenon DEF Timely
  <1>10. CASE Leave(p)
    <2>1. pc'[p] = "idle" /\ ret'[p] = ret[p] /\ now' = now /\ pc[p] = "unlock"
          BY <1>0, <1>10, Zenon DEF Leave, Return
    <2>2. CASE ret[p] = "ok"
      <3>1. handle'[p] = handle[p] /\ proven'[p] = handle[p].renewed
            BY <1>0, <1>2, <1>10, <2>2, ZenonT(30) DEF Leave
      <3>2. handle[p].renewed = now
            BY <1>2, <2>1, <2>2, ZenonT(30) DEF Timely
      <3>3. validUntil[p] <= now + TTL /\ now <= now + TTL /\ now <= now
            BY <1>0, <1>5, Rewritten, Zenon
      <3> QED BY <1>2, <1>4, <1>5, <2>1, <2>2, <3>1, <3>2, <3>3, Zenon DEF Timely
    <2>3. CASE ret[p] = "lost"
      <3>1. handle'[p] = NoRec
            BY <1>0, <1>2, <1>10, <2>3, ZenonT(30) DEF Leave, Forget
      <3>2. handle'[p].id = NoId
            BY <3>1, NoRecHasNoId, Zenon
      <3>3. pc'[p] = "idle" /\ ret'[p] = "lost" /\ loop'[p] = "renewing"
            BY <1>2, <1>4, <2>1, <2>3, Zenon
      <3>4. attempt'[p] <= now' /\ ret'[p] # "ok"
            <4>1. attempt'[p] <= now'
                  BY <1>4, <1>5, <2>1, Zenon
            <4>2. ret'[p] # "ok"
                  BY <3>3, Zenon
            <4> QED BY <4>1, <4>2, Zenon
      <3> QED BY <3>2, <3>3, <3>4, Zenon DEF Timely
    <2>4. CASE ret[p] \notin {"ok", "lost"}
      <3>1. handle'[p] = handle[p] /\ proven'[p] = proven[p]
            BY <1>0, <1>2, <1>10, <2>4, Zenon DEF Leave
      <3> QED BY <1>2, <1>4, <1>5, <2>1, <2>4, <3>1, ZenonT(30) DEF Timely
    <2> QED BY <2>2, <2>3, <2>4, Zenon
  <1>11. CASE LockFails(p)
    <2>1. now' = now /\ handle'[p] = handle[p] /\ proven'[p] = proven[p]
          BY <1>11, Zenon DEF LockFails
    <2>2. CASE Return(p, "error")
      <3>1. pc'[p] = "idle" /\ ret'[p] = "error"
            BY <1>0, <2>2, Zenon DEF Return
      <3> QED BY <1>2, <1>4, <1>5, <2>1, <3>1, Zenon DEF Timely
    <2>3. CASE Goto(p, "lock") /\ UNCHANGED op
      <3>1. pc'[p] = "lock" /\ op'[p] = op[p]
            BY <1>0, <2>3, Zenon DEF Goto
      <3> QED BY <1>2, <1>4, <1>5, <2>1, <3>1, Zenon DEF Timely
    <2> QED BY <1>11, <2>2, <2>3, Zenon DEF LockFails
  <1> QED BY <1>3, <1>6, <1>7, <1>8, <1>9, <1>10, <1>11, Zenon
          DEF LeaseStep, CallFails, Unlock, UnlockFails, Progress, StampRecord, TryCreate, ReadHolder, WriteTakeover, ReadBack,
              ReleaseRead, ReleaseRemove, ReadFails

LEMMA CallStamped ==
    ASSUME TypeOK, Ordered, NEW p \in Procs, Stamped(p), role[p] = "joining", LeaseStep(p)
    PROVE  Stamped(p)'
  <1>0. /\ p \in DOMAIN pc /\ p \in DOMAIN op /\ p \in DOMAIN ret /\ p \in DOMAIN cand
        /\ p \in DOMAIN handle /\ p \in DOMAIN proven
        BY Zenon DEF TypeOK
  <1>1. pc[p] # "idle"
        BY Zenon DEF LeaseStep, Progress, MkdirLock, StatStale, RemoveStaleLock, StampRecord, TryCreate, ReadHolder,
               WriteTakeover, ReadBack, RenewRead, RenewCheck, RenewWrite, ReleaseRead, ReleaseRemove,
               Unlock, UnlockFails, Leave, CallFails, StoreFails, LockFails, ReadFails, Section
  <1>2. op[p] = "acquire"
        BY <1>1, ZenonT(30) DEF Stamped
  <1>3. pc[p] \notin {"renewRead", "renewCheck", "renewWrite", "releaseRead", "releaseRemove"}
        BY <1>2, Zenon DEF Ordered, Fits
  <1>6. CASE MkdirLock(p) \/ StatStale(p) \/ RemoveStaleLock(p)
    <2>1. pc'[p] \in {"stamp", "removeStale", "lock"} /\ op'[p] = op[p]
          BY <1>0, <1>2, <1>6, Zenon DEF MkdirLock, StatStale, RemoveStaleLock, FirstStep
    <2> QED BY <1>2, <2>1, Zenon DEF Stamped
  <1>8. CASE StampRecord(p, {})
    <2>1. /\ pc'[p] = "create" /\ op'[p] = op[p] /\ now' = now /\ cand'[p].renewed = now /\ cand'[p].id \in Ids
          BY <1>0, <1>8 DEF StampRecord, Goto, FreshIds
    <2>2. cand'[p].id # NoId
          BY <2>1, LeaseConstants, ZenonT(30) DEF LeaseConstants
    <2> QED BY <1>2, <2>1, <2>2, Zenon DEF Stamped
  <1>9. CASE TryCreate(p) \/ WriteTakeover(p) \/ ReadHolder(p) \/ ReadBack(p) \/ ReadFails(p)
    <2>1. /\ pc'[p] \in {"read", "write", "readback", "unlock"} /\ op'[p] = op[p] /\ now' = now
          /\ cand'[p] = cand[p] /\ pc[p] \in {"create", "read", "write", "readback"}
          BY <1>0, <1>9, Zenon DEF TryCreate, WriteTakeover, ReadHolder, ReadBack, ReadFails, Goto, Finish
    <2>2. cand[p].id # NoId /\ cand[p].renewed = now
          BY <2>1, Zenon DEF Stamped
    <2> QED BY <1>2, <2>1, <2>2, Zenon DEF Stamped
  <1>11. CASE Leave(p)
    <2>1. /\ pc'[p] = "idle" /\ ret'[p] = ret[p] /\ now' = now /\ pc[p] = "unlock"
          /\ ret[p] = "ok" => handle'[p] = cand[p] /\ proven'[p] = cand[p].renewed
          BY <1>0, <1>2, <1>11, Zenon DEF Leave, Return
    <2>2. ret[p] = "ok" => cand[p].id # NoId /\ cand[p].renewed = now
          BY <2>1, Zenon DEF Stamped
    <2> QED BY <2>1, <2>2, Zenon DEF Stamped
  <1>12. CASE StoreFails(p)
    <2>1. pc'[p] = "unlock" /\ ret'[p] = "error" /\ op'[p] = op[p]
          BY <1>0, <1>12, Zenon DEF StoreFails, Finish
    <2> QED BY <1>2, <2>1, Zenon DEF Stamped
  <1>13. CASE LockFails(p)
    <2>1. CASE Return(p, "error")
      <3>1. pc'[p] = "idle" /\ ret'[p] = "error"
            BY <1>0, <2>1, Zenon DEF Return
      <3> QED BY <3>1, Zenon DEF Stamped
    <2>2. CASE Goto(p, "lock") /\ UNCHANGED op
      <3>1. pc'[p] = "lock" /\ op'[p] = op[p]
            BY <1>0, <2>2, Zenon DEF Goto
      <3> QED BY <1>2, <3>1, Zenon DEF Stamped
    <2> QED BY <1>13, <2>1, <2>2, Zenon DEF LockFails
  <1> QED BY <1>3, <1>6, <1>8, <1>9, <1>11, <1>12, <1>13, Zenon
          DEF LeaseStep, CallFails, Unlock, UnlockFails, Progress, RenewRead, RenewCheck, RenewWrite, ReleaseRead, ReleaseRemove

(* Join, its return, the timer, Renew's return and Release.                *)
LEMMA ActsTimely ==
    ASSUME TypeOK, OwnerTypes, NEW p \in Procs, Timely(p), Stamped(p),
           Join(p) \/ JoinReturns(p) \/ RenewTimer(p) \/ RenewReturns(p) \/ Release(p)
    PROVE  /\ Timely(p)' /\ Stamped(p)' /\ (Prompt(p) => Prompt(p)')
           /\ loop'[p] = "renewing" => pc'[p] = "lock" /\ attempt'[p] = now /\ now' = now
  <1>0. /\ now \in Nat /\ TTL \in Nat /\ Interval \in Nat /\ Interval <= TTL
        /\ validUntil[p] \in Nat /\ proven[p] \in Nat /\ due[p] \in Nat /\ attempt[p] \in Nat
        BY LeaseConstants, OwnerConstants DEF LeaseConstants, OwnerConstants, TypeOK, OwnerTypes
  <1>d. /\ p \in DOMAIN pc /\ p \in DOMAIN op /\ p \in DOMAIN ret /\ p \in DOMAIN handle /\ p \in DOMAIN proven
        /\ p \in DOMAIN role /\ p \in DOMAIN loop /\ p \in DOMAIN due /\ p \in DOMAIN attempt
        /\ p \in DOMAIN validUntil
        BY Zenon DEF TypeOK, OwnerTypes
  <1>1. CASE Join(p)
    <2>1. role'[p] = "joining" /\ pc'[p] = "lock" /\ op'[p] = "acquire" /\ loop'[p] = loop[p] /\ role[p] # "owner"
          BY <1>d, <1>1, Zenon DEF Join, AcquireContext, Call
    <2>2. loop[p] = "none"
          BY <2>1, Zenon DEF OwnerTypes
    <2> QED BY <2>1, <2>2, Zenon DEF Timely, Stamped, Prompt
  <1>2. CASE JoinReturns(p)
    <2>1. CASE ret[p] = "ok"
      <3>1. handle[p].id # NoId /\ handle[p].renewed = now /\ proven[p] = now
            BY <1>2, <2>1, ZenonT(30) DEF JoinReturns, Stamped
      <3>2. /\ role'[p] = "owner" /\ loop'[p] = "timer" /\ due'[p] = now + Interval
            /\ validUntil'[p] = now + TTL
            /\ pc'[p] = "idle" /\ UNCHANGED <<now, handle, proven>>
            BY <1>d, <1>2, <2>1, <3>1, ZenonT(30) DEF JoinReturns, leaseVars
      <3>3. /\ now <= now + Interval /\ now + Interval <= now + TTL /\ now <= now + TTL /\ now <= now
            /\ now + Interval <= now + Interval /\ now + TTL <= now + TTL
        <4>1. now <= now
              BY <1>0, NotEarlier, Zenon
        <4> QED BY <1>0, <4>1, Rearmed, Zenon
      <3> QED BY <3>1, <3>2, <3>3, ZenonT(30) DEF Timely, Stamped, Prompt
    <2>2. CASE ret[p] # "ok"
      <3>1. role'[p] \in {"follower", "out"} /\ loop'[p] = loop[p] /\ role[p] # "owner"
            BY <1>d, <1>2, <2>2, ZenonT(30) DEF JoinReturns
      <3>2. loop[p] = "none"
            BY <3>1, ZenonT(30) DEF OwnerTypes
      <3> QED BY <3>1, <3>2, ZenonT(30) DEF Timely, Stamped, Prompt
    <2> QED BY <2>1, <2>2, Zenon
  <1>3. CASE RenewTimer(p)
    <2>1. role[p] = "owner" /\ loop[p] = "timer" /\ handle[p].id # NoId
          BY <1>3, Zenon DEF RenewTimer, RenewContext, OwnerTypes
    <2>2. /\ role'[p] = "owner" /\ loop'[p] = "renewing" /\ attempt'[p] = now
          /\ pc'[p] = "lock" /\ op'[p] = "renew" /\ ret'[p] = "none"
          /\ UNCHANGED <<now, handle, proven, validUntil>>
          BY <1>d, <1>3, <2>1, Zenon DEF RenewTimer, RenewContext, Call
    <2>3. now <= due[p] /\ now <= now
          BY <1>0, <2>1, NotEarlier, Zenon DEF Timely
    <2>4. due[p] <= proven[p] + Interval => now <= proven[p] + Interval
          BY <1>0, <2>3, NotLate, Zenon
    <2>5. Timely(p)' /\ Stamped(p)'
          BY <2>1, <2>2, <2>3, ZenonT(30) DEF Timely, Stamped
    <2>6. Prompt(p) => Prompt(p)'
          BY <2>1, <2>2, <2>4, ZenonT(30) DEF Prompt
    <2> QED BY <2>2, <2>5, <2>6, Zenon
  <1>4. CASE RenewReturns(p)
    <2>1. role[p] = "owner" /\ loop[p] = "renewing" /\ pc[p] = "idle"
          BY <1>4, Zenon DEF RenewReturns, OwnerTypes
    <2>2. UNCHANGED <<now, pc, handle, proven>>
          BY <1>4, Zenon DEF RenewReturns, leaseVars
    <2>3. CASE ret[p] = "ok"
      <3>1. proven[p] = now /\ attempt[p] <= now /\ handle[p].id # NoId
            BY <2>1, <2>3, ZenonT(30) DEF Timely
      <3>2. /\ role'[p] = "owner" /\ loop'[p] = "timer" /\ due'[p] = now + Interval
            /\ validUntil'[p] = attempt[p] + TTL
            BY <1>d, <1>4, <2>1, <2>3, ZenonT(30) DEF RenewReturns, Rearm
      <3>3. /\ attempt[p] + TTL <= now + TTL /\ now <= now + Interval /\ now + Interval <= now + TTL
            /\ now <= now + TTL /\ now <= now /\ now + Interval <= now + Interval
            BY <1>0, <3>1, Rearmed, Zenon
      <3> QED BY <2>1, <2>2, <3>1, <3>2, <3>3, ZenonT(30) DEF Timely, Stamped, Prompt
    <2>4. CASE ret[p] = "lost" \/ (ret[p] # "ok" /\ renewGaveUp(p))
      <3>1. role'[p] = "lost" /\ loop'[p] = "none"
            BY <1>d, <1>4, <2>1, <2>4, ZenonT(30) DEF RenewReturns, markLost, EndLoop
      <3> QED BY <3>1, ZenonT(30) DEF Timely, Stamped, Prompt
    <2>5. CASE ret[p] \notin {"ok", "lost"} /\ ~renewGaveUp(p)
      <3>1. /\ role'[p] = "owner" /\ loop'[p] = "timer" /\ due'[p] = now + renewRetryDelay(p)
            /\ validUntil'[p] = validUntil[p]
            BY <1>d, <1>4, <2>1, <2>5, ZenonT(30) DEF RenewReturns, Rearm
      <3>2. handle[p].id # NoId /\ validUntil[p] <= proven[p] + TTL
            BY <2>1, <2>5, ZenonT(30) DEF Timely
      <3>3. now <= due'[p] /\ due'[p] <= proven[p] + TTL
        <4>1. renewRetryDelay(p) \in Nat /\ now + renewRetryDelay(p) <= validUntil[p]
              BY <2>5, RetryInTime, Zenon
        <4>2. now <= now + renewRetryDelay(p) /\ now + renewRetryDelay(p) <= proven[p] + TTL
              BY <1>0, <3>2, <4>1, Delayed, Zenon
        <4> QED BY <3>1, <4>2, Zenon
      <3>4. ~Prompt(p)
            BY <2>1, <2>5, ZenonT(30) DEF Prompt
      <3>5. Timely(p)'
            BY <2>1, <2>2, <3>1, <3>2, <3>3, Zenon DEF Timely
      <3> QED BY <3>1, <3>4, <3>5, Zenon DEF Stamped
    <2> QED BY <2>3, <2>4, <2>5, Zenon
  <1>5. CASE Release(p)
    <2>1. role'[p] = "out" /\ loop'[p] = "none"
          BY <1>d, <1>5, ZenonT(30) DEF Release, EndLoop
    <2> QED BY <2>1, ZenonT(30) DEF Timely, Stamped, Prompt
  <1> QED BY <1>1, <1>2, <1>3, <1>4, <1>5, Zenon

(* Without a fault no renewal fails, and one whose unlock fails has        *)
(* written.                                                                *)
LEMMA CallPrompt ==
    ASSUME TypeOK, Clean, OwnerTypes, Ordered, NEW p \in Procs, OwnerAt(p), Timely(p), Prompt(p),
           role[p] = "owner", Progress(p, {}) \/ UnlockFails(p), UNCHANGED ownerVars
    PROVE  Prompt(p)'
  <1>0. /\ now \in Nat /\ TTL \in Nat /\ Interval \in Nat /\ validUntil[p] \in Nat /\ proven[p] \in Nat
        /\ handle[p].renewed \in Nat
        /\ p \in DOMAIN pc /\ p \in DOMAIN op /\ p \in DOMAIN ret /\ p \in DOMAIN handle /\ p \in DOMAIN proven
        BY LeaseConstants, OwnerConstants DEF LeaseConstants, OwnerConstants, TypeOK, OwnerTypes, Record
  <1>1. pc[p] # "idle"
        BY Zenon DEF Progress, MkdirLock, StatStale, RemoveStaleLock, StampRecord, TryCreate, ReadHolder,
               WriteTakeover, ReadBack, RenewRead, RenewCheck, RenewWrite, ReleaseRead, ReleaseRemove,
               Unlock, UnlockFails, Leave
  <1>2. loop[p] = "renewing" /\ op[p] = "renew" /\ file.id = handle[p].id /\ handle[p].id # NoId /\ attempt[p] = now
        BY <1>1, ZenonT(30) DEF OwnerAt, OwnerTypes
  <1>3. pc[p] \in {"lock", "removeStale", "renewRead", "renewCheck", "renewWrite", "unlock"}
        BY <1>1, <1>2, ZenonT(30) DEF Ordered, Fits, TypeOK, Steps, Section
  <1>4. role'[p] = role[p] /\ loop'[p] = loop[p] /\ attempt'[p] = attempt[p]
        BY ZenonT(30) DEF ownerVars
  <1>5. attempt[p] <= proven[p] + Interval
        BY <1>2, Zenon DEF Prompt
  <1>6. CASE MkdirLock(p) \/ StatStale(p) \/ RemoveStaleLock(p) \/ RenewRead(p)
    <2>1. pc'[p] \in {"renewRead", "removeStale", "lock", "renewCheck"} /\ proven'[p] = proven[p]
          BY <1>0, <1>2, <1>6, Zenon DEF MkdirLock, StatStale, RemoveStaleLock, RenewRead, FirstStep, Goto, Finish
    <2> QED BY <1>2, <1>4, <1>5, <2>1, Zenon DEF Prompt
  <1>8. CASE RenewCheck(p)
    <2>1. proven[p] <= handle[p].renewed
          BY Zenon DEF Clean, Dated
    <2>2. ~expired(handle[p], now)
          BY <1>0, <1>2, <2>1 DEF expired, Timely
    <2>3. pc'[p] = "renewWrite" /\ proven'[p] = proven[p]
          BY <1>0, <1>8, <2>2, Zenon DEF RenewCheck, Goto
    <2> QED BY <1>2, <1>4, <1>5, <2>3, Zenon DEF Prompt
  <1>9. CASE RenewWrite(p)
    <2>1. pc'[p] = "unlock" /\ ret'[p] = "ok" /\ proven'[p] = proven[p]
          BY <1>0, <1>9, Zenon DEF RenewWrite, Finish
    <2> QED BY <1>2, <1>4, <1>5, <2>1, Zenon DEF Prompt
  <1>10. CASE Leave(p)
    <2>1. pc[p] = "unlock" /\ ret[p] = "ok"
          BY <1>2, <1>10, Zenon DEF Leave, Prompt
    <2>2. pc'[p] = "idle" /\ ret'[p] = "ok" /\ proven'[p] = handle[p].renewed
          BY <1>0, <1>2, <1>10, <2>1, Zenon DEF Leave, Return
    <2>3. handle[p].renewed = now
          BY <1>2, <2>1, ZenonT(30) DEF Timely
    <2>4. now <= now + Interval
          BY <1>0, NotEarlier, Zenon
    <2> QED BY <1>2, <1>4, <2>2, <2>3, <2>4, ZenonT(30) DEF Prompt
  <1> QED BY <1>3, <1>6, <1>8, <1>9, <1>10, Zenon
          DEF Unlock, UnlockFails, Progress, StampRecord, TryCreate, ReadHolder, WriteTakeover, ReadBack, ReleaseRead, ReleaseRemove

(* The process and its loop are where they were.                           *)
Waits(p) ==
    /\ now' = now /\ Stands(p)
    /\ role'[p] = role[p] /\ loop'[p] = loop[p] /\ due'[p] = due[p]
    /\ attempt'[p] = attempt[p] /\ validUntil'[p] = validUntil[p]

Acts(p) == Join(p) \/ JoinReturns(p) \/ RenewTimer(p) \/ RenewReturns(p) \/ Release(p)

LEMMA OthersWait ==
    ASSUME TypeOK, OwnerTypes, NEW p \in Procs, NEW q \in Procs, p # q, Acts(q) \/ Die(q) \/ LeaseStep(q)
    PROVE  Waits(p)
  <1>1. CASE LeaseStep(q)
    <2>1. now' = now /\ Stands(p)
          BY <1>1, OthersStand, OthersStandBy, Zenon DEF LeaseStep, Step
    <2> QED BY <1>1, <2>1, Zenon DEF LeaseStep, ownerVars, Waits
  <1>2. CASE Acts(q) \/ Die(q)
    <2>1. /\ role'[p] = role[p] /\ loop'[p] = loop[p] /\ due'[p] = due[p]
          /\ attempt'[p] = attempt[p] /\ validUntil'[p] = validUntil[p]
          BY <1>2, ZenonT(30) DEF Acts, Join, JoinReturns, RenewTimer, RenewReturns, Release, Die, Rearm, markLost,
                      EndLoop, OwnerTypes
    <2>2. CASE Join(q) \/ RenewTimer(q) \/ Release(q) \/ Die(q)
      <3>1. AcquireContext(q) \/ RenewContext(q) \/ ReleaseContext(q) \/ Crash(q)
            BY <2>2, Zenon DEF Join, RenewTimer, Release, Die
      <3>2. now' = now /\ Stands(p)
            BY <3>1, OthersStand, OthersStandBy, Zenon
      <3> QED BY <2>1, <3>2, Zenon DEF Waits
    <2>3. CASE JoinReturns(q) \/ RenewReturns(q)
      <3>1. now' = now /\ Stands(p)
            BY <2>3, Zenon DEF JoinReturns, RenewReturns, leaseVars, Stands
      <3> QED BY <2>1, <3>1, Zenon DEF Waits
    <2> QED BY <1>2, <2>2, <2>3, Zenon DEF Acts
  <1> QED BY <1>1, <1>2, Zenon

LEMMA WaitsTimely ==
    ASSUME NEW p \in Procs, Waits(p)
    PROVE  (Timely(p) => Timely(p)') /\ (Stamped(p) => Stamped(p)') /\ (Prompt(p) => Prompt(p)')
  <1>1. Timely(p) => Timely(p)'
        BY Zenon DEF Waits, Stands, Timely
  <1>2. Stamped(p) => Stamped(p)'
        BY Zenon DEF Waits, Stands, Stamped
  <1>3. Prompt(p) => Prompt(p)'
        BY Zenon DEF Waits, Stands, Prompt
  <1> QED BY <1>1, <1>2, <1>3, Zenon

LEMMA StepTimely ==
    ASSUME TypeOK, OwnerTypes, Ordered, \A p \in Procs : Timely(p) /\ Stamped(p),
           NEW q \in Procs, Acts(q) \/ Die(q) \/ LeaseStep(q)
    PROVE  \A p \in Procs : Timely(p)' /\ Stamped(p)'
  <1> TAKE p \in Procs
  <1>0. Timely(p) /\ Stamped(p)
        OBVIOUS
  <1>1. CASE p # q
        BY <1>0, <1>1, OthersWait, WaitsTimely, Zenon
  <1>2. CASE p = q /\ Acts(q)
        BY <1>0, <1>2, ActsTimely, ZenonT(30) DEF Acts
  <1>3. CASE p = q /\ Die(q)
    <2>1. role'[p] = "out"
          BY <1>3, Zenon DEF Die, OwnerTypes
    <2> QED BY <2>1, Zenon DEF Timely, Stamped
  <1>4. CASE p = q /\ LeaseStep(q)
    <2>1. role'[p] = role[p]
          BY <1>4, Zenon DEF LeaseStep, ownerVars
    <2>2. CASE role[p] = "owner"
      <3>1. Timely(p)'
            BY <1>0, <1>4, <2>2, CallTimely, Zenon
      <3> QED BY <2>1, <2>2, <3>1, Zenon DEF Stamped
    <2>3. CASE role[p] = "joining"
      <3>1. Stamped(p)'
            BY <1>0, <1>4, <2>3, CallStamped, Zenon
      <3> QED BY <2>1, <2>3, <3>1, Zenon DEF Timely
    <2>4. CASE role[p] \notin {"owner", "joining"}
          BY <2>1, <2>4, Zenon DEF Timely, Stamped
    <2> QED BY <2>2, <2>3, <2>4, Zenon
  <1> QED BY <1>1, <1>2, <1>3, <1>4, Zenon

(* The section is left by removing the directory, unless by death or with  *)
(* the directory in place.                                                 *)
LEMMA AttendedKept ==
    ASSUME TypeOK, OwnerTypes, Ordered, Attended, NEW q \in Procs,
           Acts(q) \/ LeaseStep(q), ~UnlockFails(q)
    PROVE  Attended'
  <1>0. q \in DOMAIN pc /\ op[q] \in Ops /\ q # NoProc /\ lock.by \in Procs \cup {NoProc}
        BY LeaseConstants, Zenon DEF LeaseConstants, TypeOK
  <1>1. ASSUME NEW p \in Procs, p # q PROVE pc'[p] = pc[p]
        BY <1>1, OthersWait, Zenon DEF Waits, Stands
  <1>2. ASSUME lock' = lock, pc[q] \notin Section \/ pc'[q] \in Section PROVE Attended'
    <2> SUFFICES ASSUME lock.by # NoProc PROVE pc'[lock.by] \in Section
        BY <1>2, ZenonT(30) DEF Attended, InSection
    <2>1. lock.by \in Procs /\ pc[lock.by] \in Section
          BY <1>0, Zenon DEF Attended, InSection
    <2>2. CASE lock.by = q
          BY <1>2, <2>1, <2>2, Zenon
    <2>3. CASE lock.by # q
          BY <1>1, <2>1, <2>3, Zenon
    <2> QED BY <2>2, <2>3, Zenon
  <1>3. CASE Acts(q)
    <2>1. CASE Join(q) \/ RenewTimer(q) \/ Release(q)
      <3>1. pc[q] = "idle" /\ lock' = lock
            BY <2>1, ZenonT(30) DEF Join, RenewTimer, Release, AcquireContext, RenewContext, ReleaseContext, Call
      <3> QED BY <1>2, <3>1, Zenon DEF Section
    <2>2. CASE JoinReturns(q) \/ RenewReturns(q)
      <3>1. pc[q] = "idle" /\ lock' = lock
            BY <2>2, Zenon DEF JoinReturns, RenewReturns, leaseVars
      <3> QED BY <1>2, <3>1, Zenon DEF Section
    <2> QED BY <1>3, <2>1, <2>2, Zenon DEF Acts
  <1>4. CASE MkdirLock(q)
    <2>1. lock'.by = q /\ pc'[q] = FirstStep(op[q])
          BY <1>0, <1>4, Zenon DEF MkdirLock
    <2>2. FirstStep(op[q]) \in Section
          BY <1>0, Zenon DEF FirstStep, Section, Ops
    <2> QED BY <2>1, <2>2, Zenon DEF Attended, InSection
  <1>5. CASE RemoveStaleLock(q) \/ Unlock(q)
    <2>1. lock'.by = NoProc
          BY <1>5 DEF RemoveStaleLock, Unlock, NoLock
    <2> QED BY <2>1, Zenon DEF Attended
  <1>6. CASE StatStale(q)
    <2>1. lock' = lock /\ pc[q] = "lock"
          BY <1>6, Zenon DEF StatStale
    <2> QED BY <1>2, <2>1, Zenon DEF Section
  <1>7. CASE StampRecord(q, {}) \/ TryCreate(q) \/ ReadHolder(q) \/ WriteTakeover(q) \/ ReadBack(q) \/ ReadFails(q)
    <2>1. lock' = lock /\ pc'[q] \in {"create", "read", "write", "readback", "unlock"}
          BY <1>0, <1>7, Zenon DEF StampRecord, TryCreate, ReadHolder, WriteTakeover, ReadBack, ReadFails, Goto, Finish
    <2> QED BY <1>2, <2>1, Zenon DEF Section
  <1>8. CASE RenewRead(q) \/ RenewCheck(q) \/ RenewWrite(q) \/ ReleaseRead(q) \/ ReleaseRemove(q) \/ StoreFails(q)
    <2>1. lock' = lock /\ pc'[q] \in {"renewCheck", "renewWrite", "releaseRemove", "unlock"}
          BY <1>0, <1>8, Zenon DEF RenewRead, RenewCheck, RenewWrite, ReleaseRead, ReleaseRemove, StoreFails, Goto, Finish
    <2> QED BY <1>2, <2>1, Zenon DEF Section
  <1>9. CASE LockFails(q)
    <2>1. lock' = lock /\ pc[q] \in {"lock", "removeStale"}
          BY <1>9, Zenon DEF LockFails
    <2> QED BY <1>2, <2>1, Zenon DEF Section
  <1> QED BY <1>3, <1>4, <1>5, <1>6, <1>7, <1>8, <1>9, Zenon DEF LeaseStep, CallFails, Progress

(* The section is empty, until the directory left in it is removed.        *)
LEMMA AbandonedKept ==
    ASSUME TypeOK, OwnerTypes, Ordered, \A p \in Procs : Timely(p) /\ Stamped(p), ~Attended, Abandoned,
           NEW q \in Procs, Acts(q) \/ (Progress(q, {}) /\ UNCHANGED ownerVars)
    PROVE  Attended' \/ Abandoned'
  <1> DEFINE Late(p) == loop[p] = "renewing" => lock.at <= attempt[p] /\ now <= attempt[p] + StaleAfter + 1
  <1>0. /\ now \in Nat /\ StaleAfter \in Nat /\ lock.at <= now /\ q \in DOMAIN pc
        /\ lock.by # NoProc /\ pc[q] \notin Section
        BY LeaseConstants DEF LeaseConstants, TypeOK, Ordered, Attended, Abandoned, InSection
  <1>1. CASE RemoveStaleLock(q)
    <2>1. lock'.by = NoProc
          BY <1>1, Zenon DEF RemoveStaleLock, NoLock
    <2> QED BY <2>1, Zenon DEF Attended
  <1>2. ASSUME NEW p \in Procs, p # q, lock' = lock PROVE pc'[p] \notin Section /\ Prompt(p)' /\ Late(p)'
    <2>1. Waits(p)
          BY <1>2, OthersWait, Zenon DEF LeaseStep
    <2>2. pc[p] \notin Section /\ Prompt(p) /\ Late(p)
          BY Zenon DEF Abandoned, InSection
    <2>3. Prompt(p)'
          BY <2>1, <2>2, WaitsTimely, Zenon
    <2>4. pc'[p] = pc[p] /\ Late(p)'
          BY <1>2, <2>1, <2>2, Zenon DEF Waits, Stands
    <2> QED BY <2>2, <2>3, <2>4, Zenon
  <1>3. ASSUME lock' = lock, pc'[q] \notin Section, Prompt(q)', Late(q)' PROVE Abandoned'
    <2> SUFFICES ASSUME NEW p \in Procs PROVE (~InSection(p) /\ Prompt(p) /\ Late(p))'
        BY Zenon DEF Abandoned
    <2>1. CASE p = q
          BY <1>3, <2>1, Zenon DEF InSection
    <2>2. CASE p # q
          BY <1>2, <1>3, <2>2, Zenon DEF InSection
    <2> QED BY <2>1, <2>2, Zenon
  <1>4. Prompt(q) /\ Timely(q) /\ Stamped(q) /\ Late(q)
        BY Zenon DEF Abandoned
  <1>5. CASE StatStale(q) /\ UNCHANGED ownerVars
    <2>1. lock' = lock /\ now' = now /\ pc'[q] = "removeStale" /\ proven' = proven /\ ret' = ret
          BY <1>0, <1>5, Zenon DEF StatStale
    <2>2. Late(q)'
          BY <1>4, <1>5, <2>1, Zenon DEF ownerVars
    <2>3. Prompt(q)'
          BY <1>4, <1>5, <2>1, Zenon DEF ownerVars, Prompt
    <2> QED BY <1>3, <2>1, <2>2, <2>3, Zenon DEF Section
  <1>6. CASE Acts(q)
    <2>1. /\ Prompt(q)'
          /\ loop'[q] = "renewing" => pc'[q] = "lock" /\ attempt'[q] = now /\ now' = now
          BY <1>4, <1>6, ActsTimely, Zenon DEF Acts
    <2>2. lock' = lock /\ pc'[q] \in {"lock", "idle"}
      <3>1. CASE Join(q) \/ RenewTimer(q) \/ Release(q)
            BY <1>0, <3>1, Zenon DEF Join, RenewTimer, Release, AcquireContext, RenewContext, ReleaseContext, Call
      <3>2. CASE JoinReturns(q) \/ RenewReturns(q)
            BY <3>2, Zenon DEF JoinReturns, RenewReturns, leaseVars
      <3> QED BY <1>6, <3>1, <3>2, Zenon DEF Acts
    <2>3. lock.at <= now /\ now <= now + StaleAfter + 1
          BY <1>0
    <2>4. Late(q)'
          BY <2>1, <2>2, <2>3, Zenon
    <2> QED BY <1>3, <2>1, <2>2, <2>4, Zenon DEF Section
  <1> QED BY <1>0, <1>1, <1>5, <1>6, Zenon
          DEF Progress, MkdirLock, StampRecord, TryCreate, ReadHolder, WriteTakeover, ReadBack, RenewRead, RenewCheck,
              RenewWrite, ReleaseRead, ReleaseRemove, Unlock, Leave, Section

(* The first death: outside the section nothing changes; inside it the     *)
(* process was alone, and whoever renews has just begun.                   *)
LEMMA DeathAbandons ==
    ASSUME TypeOK, Clean, OwnerTypes, Fenced, Ordered, \A p \in Procs : Prompt(p), NEW q \in Procs, Die(q)
    PROVE  Attended' \/ Abandoned'
  <1>0. /\ now \in Nat /\ StaleAfter \in Nat /\ lock.at <= now /\ q \in DOMAIN pc /\ q # NoProc
        /\ lock.by \in Procs \cup {NoProc} /\ q \in DOMAIN role /\ q \in DOMAIN loop
        BY LeaseConstants DEF LeaseConstants, TypeOK, OwnerTypes, Ordered
  <1>1. /\ lock' = lock /\ now' = now /\ pc'[q] = "idle" /\ role'[q] = "out" /\ loop'[q] = "none"
        BY <1>0, Zenon DEF Die, Crash, Return, EndLoop
  <1>2. ASSUME NEW p \in Procs, p # q PROVE Waits(p)
        BY <1>2, OthersWait, Zenon
  <1>3. CASE lock.by # q
    <2> SUFFICES ASSUME lock.by # NoProc PROVE pc'[lock.by] \in Section
        BY <1>1, Zenon DEF Attended, InSection
    <2>1. lock.by \in Procs /\ pc[lock.by] \in Section
          BY <1>0, Zenon DEF Clean, Locked, InSection
    <2>2. pc'[lock.by] = pc[lock.by]
          BY <1>2, <1>3, <2>1, Zenon DEF Waits, Stands
    <2> QED BY <2>1, <2>2, Zenon
  <1>4. CASE lock.by = q
    <2> SUFFICES ASSUME NEW p \in Procs
                 PROVE  /\ pc'[p] \notin Section /\ Prompt(p)'
                        /\ loop'[p] = "renewing" =>
                             lock'.at <= attempt'[p] /\ now' <= attempt'[p] + StaleAfter + 1
        BY Zenon DEF Abandoned, InSection
    <2>1. CASE p = q
          BY <1>1, <2>1, Zenon DEF Prompt, Section
    <2>2. CASE p # q
      <3>1. Waits(p) /\ Prompt(p)
            BY <1>2, <2>2, Zenon
      <3>2. Prompt(p)'
            BY <3>1, WaitsTimely, Zenon
      <3>3. pc'[p] = pc[p] /\ pc[p] \notin Section
            BY <1>4, <2>2, <3>1, Zenon DEF Waits, Stands, Clean, Locked, InSection
      <3>4. loop[p] = "renewing" => attempt[p] = now
            BY Zenon DEF Fenced, OwnerAt, OwnerTypes
      <3>5. lock.at <= now /\ now <= now + StaleAfter + 1
            BY <1>0
      <3>6. loop'[p] = "renewing" => lock'.at <= attempt'[p] /\ now' <= attempt'[p] + StaleAfter + 1
            BY <1>1, <3>1, <3>4, <3>5, Zenon DEF Waits
      <3> QED BY <3>2, <3>3, <3>6, Zenon
    <2> QED BY <2>1, <2>2, Zenon
  <1> QED BY <1>3, <1>4, Zenon

(* The first unlock that fails leaves the directory of a process that was  *)
(* alone in the section.                                                   *)
LEMMA LeavesDirectory ==
    ASSUME TypeOK, Clean, OwnerTypes, Fenced, Ordered, \A p \in Procs : Timely(p) /\ Prompt(p),
           NEW q \in Procs, UnlockFails(q), UNCHANGED ownerVars
    PROVE  Abandoned'
  <1>0. now \in Nat /\ StaleAfter \in Nat /\ lock.at <= now /\ q \in DOMAIN pc
        BY LeaseConstants DEF LeaseConstants, TypeOK, Ordered
  <1>1. lock' = lock /\ now' = now /\ pc[q] = "unlock" /\ pc'[q] = "idle"
        BY <1>0, Zenon DEF UnlockFails, Leave, Return
  <1>2. role' = role /\ loop' = loop /\ attempt' = attempt
        BY Zenon DEF ownerVars
  <1> SUFFICES ASSUME NEW p \in Procs
               PROVE  /\ pc'[p] \notin Section /\ Prompt(p)'
                      /\ loop'[p] = "renewing" =>
                           lock'.at <= attempt'[p] /\ now' <= attempt'[p] + StaleAfter + 1
      BY Zenon DEF Abandoned, InSection
  <1>3. OwnerAt(p) /\ Timely(p) /\ Prompt(p)
        BY Zenon DEF Fenced
  <1>4. loop[p] = "renewing" => attempt[p] = now
        BY <1>3, Zenon DEF OwnerAt, OwnerTypes
  <1>5. lock.at <= now /\ now <= now + StaleAfter + 1
        BY <1>0
  <1>6. loop'[p] = "renewing" => lock'.at <= attempt'[p] /\ now' <= attempt'[p] + StaleAfter + 1
        BY <1>1, <1>2, <1>4, <1>5, Zenon
  <1>7. CASE p = q
    <2>1. CASE role[p] = "owner"
      <3>1. Prompt(p)'
            BY <1>3, <1>7, <2>1, CallPrompt, Zenon
      <3> QED BY <1>1, <1>6, <1>7, <3>1, Zenon DEF Section
    <2>2. CASE role[p] # "owner"
          BY <1>1, <1>2, <1>6, <1>7, <2>2, Zenon DEF Section, Prompt
    <2> QED BY <2>1, <2>2, Zenon
  <1>8. CASE p # q
    <2>1. Waits(p)
          BY <1>8, OthersWait, Zenon DEF LeaseStep, CallFails
    <2>2. Prompt(p)'
          BY <1>3, <2>1, WaitsTimely, Zenon
    <2>3. lock.by = q
          BY <1>1, Zenon DEF Clean, Locked, InSection, Section
    <2>4. pc'[p] = pc[p] /\ pc[p] \notin Section
          BY <1>8, <2>1, <2>3, Zenon DEF Waits, Stands, Clean, Locked, InSection
    <2> QED BY <1>6, <2>2, <2>4, Zenon
  <1> QED BY <1>7, <1>8, Zenon

(* Time passes: between calls, or while renewals wait for the directory    *)
(* that a process left.                                                    *)
LEMMA TickTimely ==
    ASSUME Interval + StaleAfter < TTL, TypeOK, OwnerTypes, \A p \in Procs : Timely(p) /\ Stamped(p),
           Attended \/ Abandoned, OwnerTick
    PROVE  /\ \A p \in Procs : Timely(p)' /\ Stamped(p)' /\ (Prompt(p) => Prompt(p)')
           /\ Attended' \/ Abandoned'
  <1>0. /\ now \in Nat /\ now' = now + 1 /\ UNCHANGED <<lock, file, pc, op, cand, handle, proven, ret>>
        /\ UNCHANGED ownerVars /\ Interval \in Nat /\ StaleAfter \in Nat /\ TTL \in Nat /\ lock.at \in Nat
        BY LeaseConstants, OwnerConstants DEF LeaseConstants, OwnerConstants, OwnerTick, Tick, TypeOK
  <1>1. ASSUME NEW p \in Procs, pc[p] # "idle"
        PROVE  pc[p] = "lock" /\ Abandoned /\ now <= lock.at + StaleAfter
    <2>1. pc[p] = "lock" /\ lock.by # NoProc /\ ~lockStale
          BY <1>1, Zenon DEF OwnerTick, Waiting
    <2>2. ~Attended
      <3> SUFFICES ASSUME Attended PROVE FALSE
          BY Zenon
      <3>1. lock.by \in Procs /\ pc[lock.by] \in Section
            BY <2>1, Zenon DEF Attended, InSection, TypeOK
      <3> QED BY <3>1, Zenon DEF OwnerTick, Waiting, Section
    <2> QED BY <1>0, <2>1, <2>2 DEF lockStale
  <1>2. ASSUME NEW p \in Procs PROVE Timely(p)' /\ Stamped(p)' /\ (Prompt(p) => Prompt(p)')
    <2>0. /\ proven[p] \in Nat /\ due[p] \in Nat /\ attempt[p] \in Nat /\ validUntil[p] \in Nat
          /\ Timely(p) /\ Stamped(p)
          BY Zenon DEF TypeOK, OwnerTypes
    <2>1. Prompt(p) => Prompt(p)'
          BY <1>0, ZenonT(30) DEF ownerVars, Prompt
    <2>2. CASE role[p] = "owner" /\ loop[p] = "timer"
      <3>1. pc[p] = "idle" /\ now < due[p] /\ due[p] <= proven[p] + TTL /\ handle[p].id # NoId /\ proven[p] <= now
            BY <2>0, <2>2, ZenonT(30) DEF Timely, OwnerTick, Waiting
      <3>2. now + 1 <= due[p] /\ now + 1 <= proven[p] + TTL /\ proven[p] <= now + 1
            BY <1>0, <2>0, <3>1, OneMore, Zenon
      <3>3. Timely(p)'
            BY <1>0, <2>0, <2>2, <3>1, <3>2, ZenonT(30) DEF Timely, ownerVars
      <3> QED BY <1>0, <2>1, <2>2, <3>3, ZenonT(30) DEF Stamped, ownerVars
    <2>3. CASE role[p] = "owner" /\ loop[p] = "renewing"
      <3>1. pc[p] # "idle"
            BY <2>3, Zenon DEF OwnerTick, Waiting
      <3>2. pc[p] = "lock" /\ Abandoned /\ now <= lock.at + StaleAfter
            BY <1>1, <3>1, Zenon
      <3>3. lock.at <= attempt[p] /\ attempt[p] <= proven[p] + Interval
            BY <2>3, <3>2, ZenonT(30) DEF Abandoned, Prompt
      <3>4. now + 1 <= proven[p] + TTL
            BY <1>0, <2>0, <3>2, <3>3, WaitFits, Zenon
      <3>5. /\ handle[p].id # NoId /\ validUntil[p] <= proven[p] + TTL /\ proven[p] <= now /\ attempt[p] <= now
            /\ op[p] = "renew"
            BY <2>0, <2>3, <3>1, Zenon DEF Timely
      <3>6. proven[p] <= now + 1 /\ attempt[p] <= now + 1
            BY <1>0, <2>0, <3>5, Earlier, Zenon
      <3>7. Timely(p)'
            BY <1>0, <2>3, <3>2, <3>4, <3>5, <3>6, ZenonT(30) DEF Timely, ownerVars
      <3> QED BY <1>0, <2>1, <2>3, <3>7, Zenon DEF Stamped, ownerVars
    <2>4. CASE role[p] = "joining"
      <3>1. pc[p] # "idle"
            BY <2>4, Zenon DEF OwnerTick, Waiting
      <3>2. pc[p] = "lock" /\ op[p] = "acquire"
            BY <1>1, <2>0, <2>4, <3>1, ZenonT(30) DEF Stamped
      <3> QED BY <1>0, <2>1, <2>4, <3>2, Zenon DEF Stamped, Timely, ownerVars
    <2>5. CASE role[p] \notin {"owner", "joining"}
          BY <1>0, <2>1, <2>5, ZenonT(30) DEF Stamped, Timely, ownerVars
    <2> QED BY <2>2, <2>3, <2>4, <2>5, Zenon DEF OwnerTypes
  <1>3. ASSUME Attended PROVE Attended'
        BY <1>0, <1>3, Zenon DEF Attended, InSection
  <1>4. ASSUME Abandoned PROVE Abandoned'
    <2> SUFFICES ASSUME NEW p \in Procs
                 PROVE  /\ pc'[p] \notin Section /\ Prompt(p)'
                        /\ loop'[p] = "renewing" =>
                             lock'.at <= attempt'[p] /\ now' <= attempt'[p] + StaleAfter + 1
        BY Zenon DEF Abandoned, InSection
    <2>1. pc[p] \notin Section /\ Prompt(p) /\ (loop[p] = "renewing" => lock.at <= attempt[p])
          BY <1>4, Zenon DEF Abandoned, InSection
    <2>2. Prompt(p)'
          BY <1>2, <2>1, Zenon
    <2>3. ASSUME loop[p] = "renewing" PROVE now + 1 <= attempt[p] + StaleAfter + 1
      <3>1. pc[p] # "idle"
            BY <2>3, Zenon DEF OwnerTick, Waiting, OwnerTypes
      <3>2. now <= lock.at + StaleAfter /\ attempt[p] \in Nat
            BY <1>1, <3>1, Zenon DEF OwnerTypes
      <3> QED BY <1>0, <2>1, <2>3, <3>2
    <2> QED BY <1>0, <2>1, <2>2, <2>3, ZenonT(30) DEF ownerVars
  <1> QED BY <1>2, <1>3, <1>4, Zenon

LEMMA FaultsCounted ==
    ASSUME NEW q \in Procs
    PROVE  /\ Acts(q) \/ OwnerTick \/ Progress(q, {}) => UNCHANGED faults
           /\ CallFails(q) \/ ReadFails(q) \/ Die(q) => faults'.n = faults.n + 1
  <1>1. Acts(q) => UNCHANGED faults
        BY Zenon DEF Acts, Join, JoinReturns, RenewTimer, RenewReturns, Release, AcquireContext, RenewContext,
               ReleaseContext, Call, leaseVars
  <1>2. OwnerTick => UNCHANGED faults
        BY Zenon DEF OwnerTick, Tick
  <1>3. Progress(q, {}) => UNCHANGED faults
        BY Zenon DEF Progress, MkdirLock, StatStale, RemoveStaleLock, StampRecord, TryCreate, ReadHolder,
               WriteTakeover, ReadBack, RenewRead, RenewCheck, RenewWrite, ReleaseRead, ReleaseRemove, Unlock
  <1>4. CallFails(q) \/ ReadFails(q) \/ Die(q) => faults'.n = faults.n + 1
        BY DEF CallFails, StoreFails, LockFails, UnlockFails, ReadFails, Die, Crash, Happens
  <1> QED BY <1>1, <1>2, <1>3, <1>4, Zenon

LEMMA StepPrompt ==
    ASSUME TypeOK, Clean, OwnerTypes, Fenced, Ordered, \A p \in Procs : Timely(p) /\ Stamped(p) /\ Prompt(p),
           NEW q \in Procs, Acts(q) \/ (Progress(q, {}) /\ UNCHANGED ownerVars)
    PROVE  \A p \in Procs : Prompt(p)'
  <1> TAKE p \in Procs
  <1>0. Timely(p) /\ Stamped(p) /\ Prompt(p) /\ OwnerAt(p)
        BY Zenon DEF Fenced
  <1>1. CASE p # q
        BY <1>0, <1>1, OthersWait, WaitsTimely, Zenon DEF LeaseStep
  <1>2. CASE p = q /\ Acts(q)
        BY <1>0, <1>2, ActsTimely, Zenon DEF Acts
  <1>3. CASE p = q /\ Progress(q, {}) /\ UNCHANGED ownerVars
    <2>1. role'[p] = role[p]
          BY <1>3, Zenon DEF ownerVars
    <2>2. CASE role[p] = "owner"
          BY <1>0, <1>3, <2>2, CallPrompt, Zenon
    <2>3. CASE role[p] # "owner"
          BY <2>1, <2>3, Zenon DEF Prompt
    <2> QED BY <2>2, <2>3, Zenon
  <1> QED BY <1>1, <1>2, <1>3, Zenon

LEMMA OneFaultKept ==
    ASSUME Interval + StaleAfter < TTL, OwnerIInv, Ordered, OneFault, faults'.n <= 1, [OwnerNext]_allVars
    PROVE  OneFault'
  <1>0. TypeOK /\ OwnerTypes /\ faults.n \in Nat /\ (Only({"io"}) => Clean /\ Fenced)
        BY LeaseConstants DEF LeaseConstants, OwnerIInv, IInv, TypeOK
  <1>1. /\ \A p \in Procs : Timely(p) /\ Stamped(p)
        /\ Attended \/ Abandoned
        /\ faults.n = 0 => \A p \in Procs : Prompt(p)
        BY Zenon DEF OneFault
  <1>2. faults.n = 0 => Clean /\ Fenced /\ Attended
    <2>1. faults.n = 0 => Clean /\ Fenced
          BY <1>0, Zenon DEF Ordered, Only
    <2> QED BY <2>1, Zenon DEF Clean, Locked, Attended
  <1>3. CASE UNCHANGED allVars
        BY <1>1, <1>3, Zenon DEF allVars, leaseVars, ownerVars, OneFault, Timely, Stamped, Prompt, Attended, Abandoned,
                          InSection
  <1>4. CASE OwnerTick
    <2>1. /\ \A p \in Procs : Timely(p)' /\ Stamped(p)' /\ (Prompt(p) => Prompt(p)')
          /\ Attended' \/ Abandoned'
          BY <1>0, <1>1, <1>4, TickTimely, Zenon
    <2>2. faults' = faults
          BY <1>4, Zenon DEF OwnerTick, Tick
    <2> QED BY <1>1, <2>1, <2>2, Zenon DEF OneFault
  <1>5. ASSUME NEW q \in Procs, Acts(q) \/ (Progress(q, {}) /\ UNCHANGED ownerVars) PROVE OneFault'
    <2>1. faults' = faults
          BY <1>5, FaultsCounted, Zenon
    <2>2. \A p \in Procs : Timely(p)' /\ Stamped(p)'
          BY <1>0, <1>1, <1>5, StepTimely, Zenon DEF LeaseStep
    <2>3. Attended' \/ Abandoned'
      <3>1. CASE Attended
        <4>1. ~UnlockFails(q)
              BY <1>0, <2>1 DEF UnlockFails, Happens
        <4> QED BY <1>0, <1>5, <3>1, <4>1, AttendedKept, Zenon DEF LeaseStep
      <3>2. CASE ~Attended
            BY <1>0, <1>1, <1>5, <3>2, AbandonedKept, Zenon
      <3> QED BY <3>1, <3>2, Zenon
    <2>4. faults.n = 0 => \A p \in Procs : Prompt(p)'
          BY <1>0, <1>1, <1>2, <1>5, StepPrompt, Zenon
    <2> QED BY <2>1, <2>2, <2>3, <2>4, Zenon DEF OneFault
  <1>6. ASSUME NEW q \in Procs, Die(q) \/ ((CallFails(q) \/ ReadFails(q)) /\ UNCHANGED ownerVars) PROVE OneFault'
    <2>1. faults'.n = faults.n + 1
          BY <1>6, FaultsCounted, Zenon
    <2>2. faults.n = 0 /\ faults'.n # 0
          BY <1>0, <2>1
    <2>3. \A p \in Procs : Timely(p)' /\ Stamped(p)'
          BY <1>0, <1>1, <1>6, StepTimely, Zenon DEF LeaseStep
    <2>4. Attended' \/ Abandoned'
      <3>1. CASE Die(q)
            BY <1>0, <1>1, <1>2, <2>2, <3>1, DeathAbandons, Zenon
      <3>2. CASE LeaseStep(q) /\ ~UnlockFails(q)
            BY <1>0, <1>2, <2>2, <3>2, AttendedKept, Zenon
      <3>3. CASE UnlockFails(q) /\ UNCHANGED ownerVars
            BY <1>0, <1>1, <1>2, <2>2, <3>3, LeavesDirectory, Zenon
      <3> QED BY <1>6, <3>1, <3>2, <3>3, Zenon DEF LeaseStep, CallFails
    <2> QED BY <2>2, <2>3, <2>4, Zenon DEF OneFault
  <1> QED BY <1>3, <1>4, <1>5, <1>6, Zenon DEF OwnerNext, Acts, LeaseStep

(* The owner after any number of faults, of which the first may be of any  *)
(* kind.                                                                   *)
FaultInv == OwnerIInv /\ Ordered /\ (faults.n <= 1 => OneFault)

LEMMA FaultInvInTime == FaultInv => FencedInTime
  <1> SUFFICES ASSUME FaultInv, Only({"io"}) \/ faults.n <= 1, NEW p \in Procs, Serving(p), handle[p].id # NoId
               PROVE  now <= proven[p] + TTL
      BY Zenon DEF FencedInTime
  <1>0. now \in Nat /\ TTL \in Nat /\ validUntil[p] \in Nat /\ proven[p] \in Nat
        BY LeaseConstants DEF LeaseConstants, FaultInv, OwnerIInv, IInv, TypeOK, OwnerTypes
  <1>1. CASE Only({"io"})
    <2>1. validUntil[p] <= proven[p] + TTL /\ now <= validUntil[p]
          BY <1>1, ZenonT(30) DEF FaultInv, OwnerIInv, Fenced, OwnerAt, Serving
    <2> QED BY <1>0, <2>1
  <1>2. CASE faults.n <= 1
        BY <1>2, Zenon DEF FaultInv, OneFault, Timely, Serving
  <1> QED BY <1>1, <1>2, Zenon

(* Where an interval and the wait for a stale directory fit in the TTL,    *)
(* as modeld's TTL / 3 and at most 5 seconds do: the owner does not serve  *)
(* past the TTL of its last successful write, after I/O errors only or     *)
(* after one fault of any kind, a death in the section and an unlock that  *)
(* leaves the directory included.                                          *)
THEOREM OwnerGivesUpAfterOneFault ==
    ASSUME Interval + StaleAfter < TTL PROVE OwnerSpec => []FencedInTime
  <1>1. OwnerInit => FaultInv
    <2> SUFFICES ASSUME OwnerInit PROVE FaultInv
        OBVIOUS
    <2>1. OwnerIInv
          BY OwnerStarts, Zenon
    <2>2. Ordered
          BY DEF OwnerInit, Init, Ordered, Fits, NoLock
    <2>3. OneFault
          BY Zenon DEF OwnerInit, Init, OneFault, Timely, Stamped, Prompt, Attended, NoLock
    <2> QED BY <2>1, <2>2, <2>3, Zenon DEF FaultInv
  <1>2. FaultInv /\ [OwnerNext]_allVars => FaultInv'
    <2> SUFFICES ASSUME FaultInv, [OwnerNext]_allVars PROVE FaultInv'
        OBVIOUS
    <2>1. OwnerIInv /\ Ordered /\ TypeOK /\ TypeOK'
      <3>1. OwnerIInv /\ Ordered
            BY Zenon DEF FaultInv
      <3> QED BY <3>1, OwnerInductive, Zenon DEF OwnerIInv, IInv
    <2>2. OwnerIInv'
          BY <2>1, OwnerInductive, Zenon
    <2>3. [Next]_leaseVars
          BY OwnerIsLease, Zenon
    <2>4. Ordered'
          BY <2>1, <2>3, OrderedKept, Zenon
    <2>5. ASSUME faults'.n <= 1 PROVE OneFault'
      <3>1. faults' = faults \/ faults'.n = faults.n + 1
        <4>1. ASSUME NEW q \in Procs, Acts(q) \/ OwnerTick \/ Progress(q, {}) PROVE faults' = faults
              BY <4>1, FaultsCounted, Zenon
        <4>2. ASSUME NEW q \in Procs, CallFails(q) \/ ReadFails(q) \/ Die(q) PROVE faults'.n = faults.n + 1
              BY <4>2, FaultsCounted, Zenon
        <4>3. OwnerTick \/ UNCHANGED allVars => faults' = faults
              BY Zenon DEF OwnerTick, Tick, allVars, leaseVars
        <4> QED BY <4>1, <4>2, <4>3, Zenon DEF OwnerNext, Acts, LeaseStep
      <3>2. faults.n <= 1
            BY <2>1, <2>5, <3>1, LeaseConstants DEF LeaseConstants, TypeOK
      <3>3. OneFault
            BY <3>2, Zenon DEF FaultInv
      <3> QED BY <2>1, <2>5, <3>3, OneFaultKept, Zenon
    <2> QED BY <2>2, <2>4, <2>5, Zenon DEF FaultInv
  <1> QED BY <1>1, <1>2, FaultInvInTime, PTL DEF OwnerSpec

=============================================================================
