-------------------------------- MODULE Lease --------------------------------
(***************************************************************************)
(* liblease: one lease file, guarded by a lock directory next to it.       *)
(*                                                                         *)
(* A process is a holder or a challenger.  Each of Acquire, Renew and      *)
(* Release first takes the lock by creating its directory, works on the    *)
(* lease file one store call at a time, and removes the directory again.   *)
(* A lock directory older than StaleAfter is taken for the remains of a    *)
(* dead process and removed by whoever meets it: the directory carries no  *)
(* owner, so a removal removes whatever directory is there.                *)
(*                                                                         *)
(* Time is a clock shared by the processes (they share the file, hence in  *)
(* practice the host), in arbitrary units.  An instance ID is a fresh UUID;*)
(* only equality of IDs matters, so a fresh one is an ID, say the least,   *)
(* that no file and no process still knows.                                *)
(***************************************************************************)
EXTENDS Integers

CONSTANTS
    Procs,       \* the processes that share the lease path
    NoProc,      \* the lock directory is absent
    Ids,         \* instance IDs
    TTL,         \* Record.TTL, the same for every process
    StaleAfter,  \* acquireLeaseLock's staleAfter
    MaxNow,      \* bound on the clock
    Faults,      \* which faults happen: a subset of FaultKinds
    MaxFaults    \* bound on the number of faults

NoId == 0   \* the zero ID: no record

(* A process dies; a file-system call fails; the removal of the lock at    *)
(* the end of the section does; a challenger cannot read the lease file; a *)
(* live process overstays StaleAfter in the section.                       *)
FaultKinds == {"crash", "io", "unlock", "unreadable", "slow"}

(* staleAfter is the smaller of a constant and the TTL.                    *)
ASSUME LeaseConstants ==
    /\ NoProc \notin Procs
    /\ Ids \subseteq Nat \ {NoId}
    /\ TTL \in Nat /\ StaleAfter \in Nat /\ MaxNow \in Nat /\ MaxFaults \in Nat
    /\ StaleAfter <= TTL
    /\ Faults \subseteq FaultKinds

VARIABLES
    now,      \* the clock
    lock,     \* the lock directory: who made it, and its ModTime
    file,     \* the lease file
    pc,       \* where each process is in its call
    op,       \* the call it is in
    cand,     \* Acquire's local rec; in Release, the rec of its handle
    handle,   \* Lease.rec of the handle the process holds
    proven,   \* RenewedAt of the handle's last write that succeeded
    ret,      \* the result of the last call
    faults    \* how many faults there were, and of which kinds

leaseVars == <<now, lock, file, pc, op, cand, handle, proven, ret, faults>>

Record == [id : Ids \cup {NoId}, renewed : Nat]
NoRec == [id |-> NoId, renewed |-> 0]
NoLock == [by |-> NoProc, at |-> 0]

Ops == {"none", "acquire", "renew", "release"}
Results == {"none", "ok", "held", "lost", "timeout", "error"}

(* The steps between creating the lock directory and removing it.          *)
Section == {"stamp", "create", "read", "write", "readback",
            "renewRead", "renewCheck", "renewWrite",
            "releaseRead", "releaseRemove", "unlock"}
Steps == Section \cup {"idle", "lock", "removeStale"}

InSection(p) == pc[p] \in Section

expiredInclusive(rec, t) == t >= rec.renewed + TTL

(* Record.expired: now is after RenewedAt + TTL.                           *)
expired(rec, t) == t > rec.renewed + TTL

(* acquireLeaseLock's test on the directory's ModTime.                     *)
lockStaleAfterTTL == now - lock.at > TTL

lockStale == now - lock.at > StaleAfter

Init ==
    /\ now = 0
    /\ lock = NoLock
    /\ file = NoRec
    /\ pc = [p \in Procs |-> "idle"]
    /\ op = [p \in Procs |-> "none"]
    /\ cand = [p \in Procs |-> NoRec]
    /\ handle = [p \in Procs |-> NoRec]
    /\ proven = [p \in Procs |-> 0]
    /\ ret = [p \in Procs |-> "none"]
    /\ faults = [n |-> 0, seen |-> {}]

-----------------------------------------------------------------------------
(* The calls, and the lock directory                                       *)

Forget(p) ==
    /\ handle' = [handle EXCEPT ![p] = NoRec]
    /\ proven' = [proven EXCEPT ![p] = 0]

(* The call starts; rec is the handle a Release works on.                  *)
Call(p, o, rec) ==
    /\ pc[p] = "idle"
    /\ op' = [op EXCEPT ![p] = o]
    /\ pc' = [pc EXCEPT ![p] = "lock"]
    /\ ret' = [ret EXCEPT ![p] = "none"]
    /\ cand' = [cand EXCEPT ![p] = rec]
    /\ UNCHANGED <<now, lock, file, faults>>

(* Callers ask for a new handle when they have none or theirs has lapsed.  *)
AcquireContext(p) ==
    /\ handle[p].id = NoId \/ expired(handle[p], now)
    /\ Call(p, "acquire", NoRec)
    /\ UNCHANGED <<handle, proven>>

RenewContext(p) ==
    /\ handle[p].id # NoId
    /\ Call(p, "renew", NoRec)
    /\ UNCHANGED <<handle, proven>>

(* Callers forget a handle before they release it.                         *)
ReleaseContext(p) ==
    /\ handle[p].id # NoId
    /\ Call(p, "release", handle[p])
    /\ Forget(p)

(* The call returns without having the lock, or after removing it.         *)
Return(p, result) ==
    /\ ret' = [ret EXCEPT ![p] = result]
    /\ pc' = [pc EXCEPT ![p] = "idle"]
    /\ op' = [op EXCEPT ![p] = "none"]
    /\ cand' = [cand EXCEPT ![p] = NoRec]

FirstStep(o) == CASE o = "acquire" -> "stamp"
                  [] o = "renew" -> "renewRead"
                  [] OTHER -> "releaseRead"

(* acquireLeaseLock's loop.  Mkdir and the Stat after a failed Mkdir are   *)
(* one step: a Stat that finds no directory only leads back to Mkdir.      *)
MkdirLock(p) ==
    /\ pc[p] = "lock"
    /\ lock.by = NoProc
    /\ lock' = [by |-> p, at |-> now]
    /\ pc' = [pc EXCEPT ![p] = FirstStep(op[p])]
    /\ UNCHANGED <<now, file, op, cand, handle, proven, ret, faults>>

StatStale(p) ==
    /\ pc[p] = "lock"
    /\ lock.by # NoProc
    /\ lockStale
    /\ pc' = [pc EXCEPT ![p] = "removeStale"]
    /\ UNCHANGED <<now, lock, file, op, cand, handle, proven, ret, faults>>

KeepStaleLock(p) ==
    /\ pc[p] = "removeStale"
    /\ pc' = [pc EXCEPT ![p] = "lock"]
    /\ UNCHANGED <<now, lock, file, op, cand, handle, proven, ret, faults>>

RemoveStaleLock(p) ==
    /\ pc[p] = "removeStale"
    /\ lock' = NoLock
    /\ pc' = [pc EXCEPT ![p] = "lock"]
    /\ UNCHANGED <<now, file, op, cand, handle, proven, ret, faults>>

(* ErrAcquireTimeout: the caller's context or leaseLockMaxWait ended the   *)
(* wait on a directory that is there and not stale.                        *)
LockTimeout(p) ==
    /\ pc[p] = "lock"
    /\ lock.by # NoProc
    /\ ~lockStale
    /\ Return(p, "timeout")
    /\ UNCHANGED <<now, lock, file, handle, proven, faults>>

(* The section ends with this result; the deferred unlock comes next.      *)
Finish(p, result) ==
    /\ pc' = [pc EXCEPT ![p] = "unlock"]
    /\ ret' = [ret EXCEPT ![p] = result]

Goto(p, step) ==
    /\ pc' = [pc EXCEPT ![p] = step]
    /\ UNCHANGED ret

(* The call returns.  Acquire hands out a handle on the record it wrote;   *)
(* callers of Renew forget a handle that is lost.                          *)
Leave(p) ==
    /\ pc[p] = "unlock"
    /\ Return(p, ret[p])
    /\ \/ /\ op[p] = "acquire" /\ ret[p] = "ok"
          /\ handle' = [handle EXCEPT ![p] = cand[p]]
          /\ proven' = [proven EXCEPT ![p] = cand[p].renewed]
       \/ /\ op[p] = "renew" /\ ret[p] = "ok"
          /\ proven' = [proven EXCEPT ![p] = handle[p].renewed]
          /\ UNCHANGED handle
       \/ /\ op[p] = "renew" /\ ret[p] = "lost"
          /\ Forget(p)
       \/ /\ op[p] = "release" \/ ret[p] \notin {"ok", "lost"}
          /\ UNCHANGED <<handle, proven>>
    /\ UNCHANGED <<now, file>>

(* The deferred unlock comes first.                                        *)
Unlock(p) == Leave(p) /\ lock' = NoLock /\ UNCHANGED faults

-----------------------------------------------------------------------------
(* AcquireContext's section                                                *)

(* IDs that nothing knows; known are those that callers keep elsewhere.    *)
FreshIds(known) ==
    Ids \ (known \cup {file.id} \cup {cand[q].id : q \in Procs} \cup {handle[q].id : q \in Procs})

(* now := time.Now(), and the record with a new UUID.                      *)
StampRecord(p, known) ==
    /\ pc[p] = "stamp"
    /\ \E id \in FreshIds(known) :
           /\ \A other \in FreshIds(known) : id <= other
           /\ cand' = [cand EXCEPT ![p] = [id |-> id, renewed |-> now]]
    /\ Goto(p, "create")
    /\ UNCHANGED <<now, lock, file, op, handle, proven, faults>>

(* tryCreate: the hard link succeeds only where there is no file.          *)
TryCreate(p) ==
    /\ pc[p] = "create"
    /\ \/ /\ file.id = NoId
          /\ file' = cand[p]
          /\ Finish(p, "ok")
       \/ /\ file.id # NoId
          /\ Goto(p, "read")
          /\ UNCHANGED file
    /\ UNCHANGED <<now, lock, op, cand, handle, proven, faults>>

ReadHolderUnchecked(p) ==
    /\ pc[p] = "read"
    /\ Goto(p, "write")
    /\ UNCHANGED <<now, lock, file, op, cand, handle, proven, faults>>

(* ErrHeld unless the file is gone or has expired by the time captured in  *)
(* StampRecord.                                                            *)
ReadHolder(p) ==
    /\ pc[p] = "read"
    /\ IF file.id # NoId /\ ~expired(file, cand[p].renewed)
         THEN Finish(p, "held")
         ELSE Goto(p, "write")
    /\ UNCHANGED <<now, lock, file, op, cand, handle, proven, faults>>

WriteTakeover(p) ==
    /\ pc[p] = "write"
    /\ file' = cand[p]
    /\ Goto(p, "readback")
    /\ UNCHANGED <<now, lock, op, cand, handle, proven, faults>>

ReadBack(p) ==
    /\ pc[p] = "readback"
    /\ Finish(p, IF file.id = cand[p].id THEN "ok"
                 ELSE IF file.id = NoId THEN "error" ELSE "held")
    /\ UNCHANGED <<now, lock, file, op, cand, handle, proven, faults>>

-----------------------------------------------------------------------------
(* RenewContext's section                                                  *)

RenewRead(p) ==
    /\ pc[p] = "renewRead"
    /\ \/ file.id = NoId /\ Finish(p, "error")
       \/ file.id \notin {NoId, handle[p].id} /\ Finish(p, "lost")
       \/ file.id = handle[p].id /\ Goto(p, "renewCheck")
    /\ UNCHANGED <<now, lock, file, op, cand, handle, proven, faults>>

(* The handle's RenewedAt moves before the write that may fail.            *)
RenewCheck(p) ==
    /\ pc[p] = "renewCheck"
    /\ \/ /\ expired(handle[p], now)
          /\ Finish(p, "lost")
          /\ UNCHANGED handle
       \/ /\ ~expired(handle[p], now)
          /\ handle' = [handle EXCEPT ![p].renewed = now]
          /\ Goto(p, "renewWrite")
    /\ UNCHANGED <<now, lock, file, op, cand, proven, faults>>

RenewWrite(p) ==
    /\ pc[p] = "renewWrite"
    /\ file' = handle[p]
    /\ Finish(p, "ok")
    /\ UNCHANGED <<now, lock, op, cand, handle, proven, faults>>

-----------------------------------------------------------------------------
(* ReleaseContext's section                                                *)

ReleaseRead(p) ==
    /\ pc[p] = "releaseRead"
    /\ IF file.id = cand[p].id THEN Goto(p, "releaseRemove") ELSE Finish(p, "ok")
    /\ UNCHANGED <<now, lock, file, op, cand, handle, proven, faults>>

(* os.Remove of the path, whatever record is under it by now.              *)
ReleaseRemove(p) ==
    /\ pc[p] = "releaseRemove"
    /\ file' = NoRec
    /\ Finish(p, IF file.id = NoId THEN "error" ELSE "ok")
    /\ UNCHANGED <<now, lock, op, cand, handle, proven, faults>>

-----------------------------------------------------------------------------
(* The environment                                                         *)

(* Faults stop early enough for what they leave behind, a directory or a   *)
(* record, to lapse before the clock stops.                                *)
FaultAllowed(kind) == kind \in Faults /\ faults.n < MaxFaults /\ now + TTL < MaxNow

Happens(kind) ==
    /\ FaultAllowed(kind)
    /\ faults' = [n |-> faults.n + 1, seen |-> faults.seen \cup {kind}]

(* Faults of these kinds only have happened so far.                        *)
Only(kinds) == faults.seen \subseteq kinds

(* The process dies.  A death inside the section leaves the directory.     *)
Crash(p) ==
    /\ Happens("crash")
    /\ pc[p] # "idle" \/ handle[p].id # NoId
    /\ Return(p, "none")
    /\ Forget(p)
    /\ UNCHANGED <<now, lock, file>>

(* A file-system call on the lease file fails and changes nothing.         *)
StoreFails(p) ==
    /\ Happens("io")
    /\ pc[p] \in Section \ {"stamp", "read", "renewCheck", "unlock"}
    /\ Finish(p, "error")
    /\ UNCHANGED <<now, lock, file, op, cand, handle, proven>>

(* acquireLeaseLock fails: Mkdir or Stat ends the call, the removal of a   *)
(* stale directory is not looked at.                                       *)
LockFails(p) ==
    /\ Happens("io")
    /\ \/ pc[p] = "lock" /\ Return(p, "error")
       \/ pc[p] = "removeStale" /\ Goto(p, "lock") /\ UNCHANGED <<op, cand>>
    /\ UNCHANGED <<now, lock, file, handle, proven>>

(* The unlock's removal, not looked at either, fails: the directory stays  *)
(* behind, as after a death.                                               *)
UnlockFails(p) == Leave(p) /\ Happens("unlock") /\ UNCHANGED lock

(* Acquire takes a file it fails to read for a stale one.                  *)
ReadFails(p) ==
    /\ Happens("unreadable")
    /\ pc[p] = "read"
    /\ Goto(p, "write")
    /\ UNCHANGED <<now, lock, file, op, cand, handle, proven>>

(* Time passes: a live process leaves the section before its own directory *)
(* is stale.                                                               *)
Overstays(p) == InSection(p) /\ lock.by = p /\ now >= lock.at + StaleAfter

Tick ==
    /\ now < MaxNow
    /\ now' = now + 1
    /\ \A p \in Procs : ~Overstays(p)
    /\ UNCHANGED <<lock, file, pc, op, cand, handle, proven, ret, faults>>

(* A process is held up in the section until its directory is stale.       *)
HeldUp(p) ==
    /\ Happens("slow")
    /\ Overstays(p)
    /\ now' = now + 1
    /\ UNCHANGED <<lock, file, pc, op, cand, handle, proven, ret>>

(* The steps of a call in progress.                                        *)
Progress(p, known) ==
    \/ MkdirLock(p) \/ StatStale(p) \/ RemoveStaleLock(p)
    \/ StampRecord(p, known) \/ TryCreate(p) \/ ReadHolder(p) \/ WriteTakeover(p) \/ ReadBack(p)
    \/ RenewRead(p) \/ RenewCheck(p) \/ RenewWrite(p)
    \/ ReleaseRead(p) \/ ReleaseRemove(p)
    \/ Unlock(p)

Step(p, known) == Progress(p, known) \/ LockTimeout(p)

(* What fails in a process that goes on.                                   *)
CallFails(p) == StoreFails(p) \/ LockFails(p) \/ UnlockFails(p)

Fault(p) == Crash(p) \/ CallFails(p) \/ ReadFails(p) \/ HeldUp(p)

Next ==
    \/ \E p \in Procs : \/ AcquireContext(p) \/ RenewContext(p) \/ ReleaseContext(p)
                        \/ Step(p, {})
                        \/ Fault(p)
    \/ Tick

Spec == Init /\ [][Next]_leaseVars

-----------------------------------------------------------------------------
(* Properties                                                              *)

TypeOK ==
    /\ now \in 0..MaxNow
    /\ lock \in [by : Procs \cup {NoProc}, at : Nat]
    /\ file \in Record
    /\ pc \in [Procs -> Steps]
    /\ op \in [Procs -> Ops]
    /\ cand \in [Procs -> Record]
    /\ handle \in [Procs -> Record]
    /\ proven \in [Procs -> Nat]
    /\ ret \in [Procs -> Results]
    /\ faults \in [n : 0..MaxFaults, seen : SUBSET FaultKinds]

(* The process may act as the holder: its last successful write has not    *)
(* lapsed.                                                                 *)
Holds(p) == handle[p].id # NoId /\ now <= proven[p] + TTL

(* The lease has a single holder: of the processes that Acquire or Renew   *)
(* told they hold the lease, and whose lease has not lapsed since, there   *)
(* is never more than one.  It rests on the lock directory around          *)
(* read-check-write in Acquire, Renew and Release, hence on nobody dying   *)
(* or overstaying in the section or leaving its directory behind, and on   *)
(* challengers that can read.                                              *)
HolderExclusive ==
    Only({"io"}) => \A p, q \in Procs : Holds(p) /\ Holds(q) => p = q

(* A challenger takes over only once the lease has expired: the record in  *)
(* the file is replaced by another instance's only after its TTL.          *)
TakeoverOnlyExpired ==
    [][Only({"io"}) /\ file.id # NoId /\ file'.id \notin {NoId, file.id}
         => expired(file, now)]_leaseVars
=============================================================================
